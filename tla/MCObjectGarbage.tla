-------------------------- MODULE MCObjectGarbage --------------------------
(* Plan p1 holds v1 and v2, two versions or a version and a result.  On     *)
(* SQLite there is also x, the file exported from v1, and on Postgres y, a  *)
(* version of plan p2, uploaded or forked.                                  *)
EXTENDS ObjectGarbage, TLC

CONSTANTS p1, p2, v1, x, y

MCPlanOf == [r \in Rows |-> IF r = y THEN p2 ELSE p1]
MCSourceOf == [r \in Rows |-> IF r = x THEN v1 ELSE NoRow]

\* Requests, sweeps and removals have no identity of their own.
MCSymmetry == Permutations(Writers) \cup Permutations(Sweepers)

\* A behaviour runs on one engine: SQLite with one plan, its export and one
\* request and sweep at a time, or Postgres with two plans and two of each;
\* solves read v1.
MCScope ==
    /\ busy \subseteq {v1}
    /\ CASE engine = "sqlite" ->
            /\ rowKey[y] = Unused
            /\ \A w, o \in Writers : w = o \/ writer[w].pc = "idle" \/ writer[o].pc = "idle"
            /\ \A s, o \in Sweepers : s = o \/ sweep[s].pc = "idle" \/ sweep[o].pc = "idle"
         [] engine = "postgres" ->
            \A w \in Writers : writer[w].pc = "idle" \/ writer[w].key # x

MCSpec == Init /\ [][Next /\ MCScope']_vars
=============================================================================
