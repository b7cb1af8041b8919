----------------------------- MODULE MCServices -----------------------------
(* The services, each on its instance.                                      *)
EXTENDS Services, TLC

-----------------------------------------------------------------------------
(* Requests: one of any operation by any caller, and a discovery that may   *)
(* take the same pooled context.                                            *)
Surface == INSTANCE Contract

MCAsks(r) == IF r = "first" THEN Surface!Operations \cup {"info", "watch"} ELSE {"info"}
MCCallersOf(r) ==
    IF r = "first" THEN {"nobody", "unreachable", "newcomer", "renewed", "planner", "admin"}
    ELSE {"planner"}

-----------------------------------------------------------------------------
(* Sign-ins: two on their way, at three names, from one address; an         *)
(* administrator moves between two limits.  The tables hold two entries.    *)
MCNormalOf == "Ana" :> "ana" @@ "bob" :> "bob" @@ "cyd" :> "cyd" @@ "" :> ""
MCLimitChoices == {[account |-> n, address |-> 3, block |-> 3] : n \in {1, 2}}

-----------------------------------------------------------------------------
(* The school's key: two servers, started with two passphrases or none.  The *)
(* export service: version 1 and result 1 of a plan, the result without a    *)
(* timetable, as files of one format that is encrypted where there is a      *)
(* school key; one restart.                                                 *)
MCFiles == {[kind |-> k, number |-> 1, format |-> "gpf"] : k \in {"version", "result"}}
MCUnplaced == {[kind |-> "result", number |-> 1]}

-----------------------------------------------------------------------------
(* A Library on two devices: two projects, one of which goes to Trash and    *)
(* out of it; three saves.  Rule profiles: two of them, two requests at      *)
(* once, of a planner and an administrator.                                  *)
MCTrimmed == "" :> "" @@ "x" :> "x" @@ " x" :> "x" @@ "y" :> "y"
MCEditors == {[id |-> "ana", admin |-> FALSE], [id |-> "root", admin |-> TRUE]}
MCLists == {<< >>, <<"soft">>, <<"odd">>}

-----------------------------------------------------------------------------
(* Settings: two changes at once of two settings on each of two routes, one  *)
(* of which waits for a restart; two writes and one restart.  Results: one   *)
(* solve and one device that sends its result again and again, three         *)
(* results, two changes of a result or of the cap.                           *)
MCSectionOf == [failures |-> "lockout", minutes |-> "lockout", upload |-> "server", backups |-> "server"]
MCDefaults == [f \in DOMAIN MCSectionOf |-> 1]

-----------------------------------------------------------------------------
\* The services that are not chosen start in one state.
MCInit ==
    /\ Init
    /\ service # "http" => server = {}
    /\ service # "lockout" => limits = [account |-> 1, address |-> 3, block |-> 3]
    /\ service # "exports" => recipient = ""
    /\ service # "results" => engine = "sqlite" /\ cap = 1

MCSpec == MCInit /\ [][Next]_vars
=============================================================================
