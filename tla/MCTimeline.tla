----------------------------- MODULE MCTimeline -----------------------------
(* Three uploads: u1 and u2 with keys of their own, u3 sent without a key.  *)
EXTENDS Timeline, TLC

CONSTANTS u1, u2, u3, k1, k2, Scopes

MCKeyOf == [u \in Uploads |-> CASE u = u1 -> k1 [] u = u2 -> k2 [] OTHER -> NoKey]

MCSymmetry == Permutations(Requests)

\* A behaviour has one of two scopes: requests that overlap while the server's
\* cap changes, or one request at a time with solves, a cap of the plan and
\* checkpoints in Trash, of a plan that is not.
VARIABLE scope

MCScope ==
    CASE scope = "uploads" ->
            /\ own = 0
            /\ \A j \in Solves : solve[j] = 0
            /\ \A v \in Numbers : mark[v] # "trashed"
      [] scope = "caps" ->
            /\ server = 1 /\ ~trashed
            /\ \A q, o \in Requests :
                  q = o \/ request[q].pc = "idle" \/ request[o].pc = "idle"

MCInit == Init /\ scope \in Scopes /\ MCScope
MCNext == Next /\ UNCHANGED scope /\ MCScope'
MCSpec == MCInit /\ [][MCNext]_<<vars, scope>>
=============================================================================
