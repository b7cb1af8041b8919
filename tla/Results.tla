------------------------------ MODULE Results ------------------------------
(***************************************************************************)
(* The results of one plan: timetables that the server's solves kept and   *)
(* that devices uploaded, the results cap, pins, Trash, and the solves     *)
(* that read a result and are kept as another.                             *)
(*                                                                         *)
(* A result is added in a transaction that inserts it, lists what is       *)
(* beyond the cap and then deletes those by id.  SQLite lets nobody else   *)
(* write meanwhile; PostgreSQL lets others commit between the list and the *)
(* deletes.  The version a solve reads is Timeline's.                      *)
(***************************************************************************)
EXTENDS Integers, FiniteSets

CONSTANTS
    Engines,        \* "sqlite", "postgres"
    Solves,         \* jobs, one after another
    Uploads,        \* results solved on a device, each under its upload key
    ServerCaps,     \* results caps the server may be given
    MaxResults,     \* bound of the results ever made
    MaxChanges      \* bound of the pins, moves and changed caps

VARIABLES
    engine,
    results,        \* solve_results, by id
    cap,            \* the results cap in force for the plan
    drawn,          \* results made so far, the time
    work,           \* each solve and each upload
    adding,         \* the transaction of insertResult, one a plan
    changes

vars == <<engine, results, cap, drawn, work, adding, changes>>

Senders == Solves \cup Uploads
Version == 0
NoTransaction == [by |-> "nobody", doomed |-> {}]
Idle == [pc |-> "idle", source |-> Version, sure |-> FALSE, id |-> 0, created |-> 0,
         outcome |-> "none"]

Init ==
    /\ engine \in Engines
    /\ results = [id \in {} |-> Idle]
    /\ cap \in ServerCaps
    /\ drawn = 0
    /\ work = [s \in Senders |-> Idle]
    /\ adding = NoTransaction
    /\ changes = 0

ResultIds == DOMAIN results
Live == {id \in ResultIds : ~results[id].trashed}
At(s, pc) == work[s].pc = pc
Settle(s, outcome) ==
    work' = [work EXCEPT ![s] =
        IF s \in Solves THEN [@ EXCEPT !.outcome = outcome, !.pc = "closing"] ELSE Idle]

\* SQLite has one writer: who wants to write waits for the transaction.
Writable == engine = "sqlite" => adding = NoTransaction

\* The results that a pending or running solve reads.
solvingResults == {work[j].source : j \in {i \in Solves : At(i, "open") \/ At(i, "adding") \/ At(i, "closing")}}

-----------------------------------------------------------------------------
(* Solves. *)

\* CreateJob reads the file it sends: a version's, or a result's out of Trash.
CreateJob(j, source) ==
    /\ At(j, "idle") /\ source \in Live \cup {Version}
    /\ work' = [work EXCEPT ![j] = [Idle EXCEPT !.pc = "read", !.source = source]]
    /\ UNCHANGED <<engine, results, cap, drawn, adding, changes>>

\* No node takes it.
Refuse(j) ==
    /\ At(j, "read")
    /\ work' = [work EXCEPT ![j] = Idle]
    /\ UNCHANGED <<engine, results, cap, drawn, adding, changes>>

\* The row that protects the source, written after a node admitted the solve.
Create(j) ==
    /\ At(j, "read") /\ Writable
    /\ work' = [work EXCEPT ![j].pc = "open", ![j].sure = work[j].source \in ResultIds \cup {Version}]
    /\ UNCHANGED <<engine, results, cap, drawn, adding, changes>>

\* A timetable is kept as the document the solve read with it, so the source is
\* looked up again, in Trash too; its result dates from now.
Persist(j) ==
    /\ At(j, "open") /\ drawn < MaxResults
    /\ IF work[j].source \in ResultIds \cup {Version}
       THEN /\ drawn' = drawn + 1
            /\ work' = [work EXCEPT ![j].pc = "adding", ![j].id = drawn', ![j].created = drawn']
       ELSE Settle(j, "lost") /\ UNCHANGED drawn
    /\ UNCHANGED <<engine, results, cap, adding, changes>>

\* The solve found no timetable, failed or was cancelled without one.
NoSchedule(j) ==
    /\ At(j, "open")
    /\ Settle(j, "none")
    /\ UNCHANGED <<engine, results, cap, drawn, adding, changes>>

\* The row is closed once its timetable is kept.
Finish(j) ==
    /\ At(j, "closing") /\ Writable
    /\ work' = [work EXCEPT ![j] = Idle]
    /\ UNCHANGED <<engine, results, cap, drawn, adding, changes>>

-----------------------------------------------------------------------------
(* AddResult. *)

\* A device sends its result, for the first time or again; it ended at some time
\* before, and later than now is now.
UploadResult(u, solved) ==
    /\ At(u, "idle") /\ drawn < MaxResults
    /\ drawn' = drawn + 1
    /\ work' = [work EXCEPT ![u] = [Idle EXCEPT !.pc = "adding", !.id = drawn',
                    !.created = IF solved < drawn' THEN solved ELSE drawn']]
    /\ UNCHANGED <<engine, results, cap, adding, changes>>

\* Newest first, by the end of the solve and then by id.
Newer(rows, a, b) ==
    rows[a].created > rows[b].created \/ (rows[a].created = rows[b].created /\ a > b)

\* What the cap counts: neither pinned nor in Trash.
Counted(rows) == {id \in DOMAIN rows : ~rows[id].pinned /\ ~rows[id].trashed}

Before(rows, id) == {o \in Counted(rows) : Newer(rows, o, id)}

\* Mutant of trimResults: a result that a solve reads goes with the others.
trimResultsOfSolves(rows) == {id \in Counted(rows) : Cardinality(Before(rows, id)) >= cap}

trimResults(rows) ==
    {id \in Counted(rows) : Cardinality(Before(rows, id)) >= cap} \ solvingResults

\* The upload's key is in the index.
Sent(s) == s \in Uploads /\ \E id \in ResultIds : results[id].by = s

Added(s) ==
    [id \in ResultIds \cup {work[s].id} |->
        IF id \in ResultIds THEN results[id]
        ELSE [created |-> work[s].created, by |-> s, pinned |-> FALSE, trashed |-> FALSE]]

\* The plan's row is locked, the result inserted, and what the cap takes listed.
InsertResult(s) ==
    /\ At(s, "adding") /\ adding = NoTransaction /\ ~Sent(s)
    /\ adding' = [by |-> s, doomed |-> trimResults(Added(s))]
    /\ UNCHANGED <<engine, results, cap, drawn, work, changes>>

\* They are deleted by id.  A result that is itself beyond the cap is refused and
\* nothing of the transaction stays.
CommitResult(s) ==
    /\ adding.by = s
    /\ adding' = NoTransaction
    /\ IF work[s].id \in adding.doomed
       THEN Settle(s, "refused") /\ UNCHANGED results
       ELSE /\ results' = [id \in DOMAIN Added(s) \ adding.doomed |-> Added(s)[id]]
            /\ Settle(s, "kept")
    /\ UNCHANGED <<engine, cap, drawn, changes>>

\* The unique key refuses a second send: it is answered with the first.
ReplayResult(s) ==
    /\ At(s, "adding") /\ adding = NoTransaction /\ Sent(s)
    /\ Settle(s, "kept")
    /\ UNCHANGED <<engine, results, cap, drawn, adding, changes>>

\* The object store or the database fails.
AddFails(s) ==
    /\ At(s, "adding")
    /\ adding' = IF adding.by = s THEN NoTransaction ELSE adding
    /\ Settle(s, "failed")
    /\ UNCHANGED <<engine, results, cap, drawn, changes>>

-----------------------------------------------------------------------------
(* Changes of a result and of the cap. *)

Change ==
    /\ Writable /\ changes < MaxChanges
    /\ changes' = changes + 1
    /\ UNCHANGED <<engine, drawn, work, adding>>

UpdateResult(id) ==
    /\ Change /\ id \in Live
    /\ results' = [results EXCEPT ![id].pinned = ~@]
    /\ UNCHANGED cap

TrashResult(id) ==
    /\ Change /\ id \in Live
    /\ results' = [results EXCEPT ![id].trashed = TRUE]
    /\ UNCHANGED cap

RestoreResult(id) ==
    /\ Change /\ id \in ResultIds \ Live
    /\ results' = [results EXCEPT ![id].trashed = FALSE]
    /\ UNCHANGED cap

\* The time of some in Trash is up; the delete asks again who reads them.
Purged(due) == due \ solvingResults
PurgeResults(due) ==
    /\ Writable
    /\ due \subseteq ResultIds \ Live /\ Purged(due) # {}
    /\ results' = [id \in ResultIds \ Purged(due) |-> results[id]]
    /\ UNCHANGED <<engine, cap, drawn, work, adding, changes>>

SetCaps(keep) ==
    /\ Change /\ keep # cap
    /\ cap' = keep
    /\ UNCHANGED results

\* Nothing of a transaction stays, and the next boot closes the open jobs.
Crash ==
    /\ \E s \in Senders : ~At(s, "idle")
    /\ work' = [s \in Senders |-> Idle]
    /\ adding' = NoTransaction
    /\ UNCHANGED <<engine, results, cap, drawn, changes>>

Next ==
    \/ \E j \in Solves :
          \/ \E source \in Live \cup {Version} : CreateJob(j, source)
          \/ Refuse(j) \/ Create(j) \/ Persist(j) \/ NoSchedule(j) \/ Finish(j)
    \/ \E u \in Uploads, solved \in {0, MaxResults} : UploadResult(u, solved)
    \/ \E s \in Senders : InsertResult(s) \/ CommitResult(s) \/ ReplayResult(s) \/ AddFails(s)
    \/ \E id \in ResultIds : UpdateResult(id) \/ TrashResult(id) \/ RestoreResult(id)
    \/ \E due \in SUBSET (ResultIds \ Live) : PurgeResults(due)
    \/ \E keep \in ServerCaps : SetCaps(keep)
    \/ Crash

Spec == Init /\ [][Next]_vars

-----------------------------------------------------------------------------
(* Properties. *)

\* Where writers exclude each other, a solve whose source was there when its row
\* was opened loses its timetable only to a failing store, or to the cap when
\* another result was made since: whatever is trimmed, put in Trash and purged
\* while it runs (results.Keep, plans.trimResults, plans.PurgeResults).
SolveKept ==
    engine = "sqlite" =>
        \A j \in Solves :
            /\ work[j].sure => work[j].outcome # "lost"
            /\ work[j].outcome = "refused" => work[j].id < drawn

\* Where writers exclude each other, a result that is pinned stays, and one that
\* was put in Trash stays until its time there is up: no trim that others overlap
\* takes it (plans.trimResults, plans.removeResult).
PinnedStay ==
    engine = "sqlite" =>
        \A id \in ResultIds : results[id].pinned \/ results[id].trashed =>
            id \in DOMAIN results' \/ \E due \in SUBSET (ResultIds \ Live) : PurgeResults(due)

\* What a solve reads, a person pinned or put in Trash is not lost to the cap
\* (plans.AddResult).
ResultsKept == [][SolveKept' /\ PinnedStay]_vars
=============================================================================
