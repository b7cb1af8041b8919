--------------------------- MODULE ObjectGarbage ---------------------------
(***************************************************************************)
(* Object storage and the index that names what is in it.                  *)
(*                                                                         *)
(* A document is stored under the hash of its bytes BEFORE the row that    *)
(* names it is committed, and one object may back rows of several plans.   *)
(* Nothing lists the bucket: an object that lost its last row is deleted   *)
(* by the sweep of object_garbage, which runs beside uploads, exports,     *)
(* solves, purges, backup trims and another sweep.                         *)
(*                                                                         *)
(* A row here is a row of plan_versions, solve_results or plan_exports; an *)
(* export row has the row it was built from as its SourceOf and goes with  *)
(* it by cascade.  Which rows a removal selects is left open: the backups  *)
(* cap, the results cap and the Trash dates are other modules' business.   *)
(***************************************************************************)
EXTENDS Naturals

CONSTANTS
    Keys,           \* object keys
    Plans,
    Rows,           \* an export row is its object key, as in plan_exports
    PlanOf,         \* the plan a row belongs to
    SourceOf,       \* the row an export row was built from
    NoRow,          \* SourceOf a version or a result
    Unused,         \* the key of a row that was not inserted yet
    Gone,           \* the key of a row that was removed
    Writers,        \* requests, solves and exports that store an object
    Sweepers,       \* the hourly sweep and an administrator's
    Removers,       \* purges and trims
    Engines,        \* the databases the server may run on
    SweepAge,       \* how long a key waits before the sweep may take it
    OpTime,         \* no request or transaction outlives this
    MaxClock        \* bound of the clock

ASSUME RowsAssumption ==
    /\ Keys # {}
    /\ PlanOf \in [Rows -> Plans]
    /\ NoRow \notin Rows
    /\ SourceOf \in [Rows -> Rows \cup {NoRow}]
    /\ \A r \in Rows : SourceOf[r] # NoRow =>
          /\ r \in Keys
          /\ SourceOf[SourceOf[r]] = NoRow
          /\ PlanOf[SourceOf[r]] = PlanOf[r]
    /\ Unused \notin Keys /\ Gone \notin Keys /\ Unused # Gone

ASSUME EngineAssumption == Engines \subseteq {"sqlite", "postgres"}

\* The hour covers an upload and the removal that overlaps its start.
ASSUME TimeAssumption ==
    /\ SweepAge \in Nat /\ OpTime \in Nat /\ MaxClock \in Nat
    /\ 2 * OpTime < SweepAge

VARIABLES
    engine,
    clock,
    objects,    \* the keys in object storage
    rowKey,     \* the object each row names
    gone,       \* plans removed for good
    busy,       \* rows a pending or running solve reads
    listed,     \* the keys in object_garbage
    since,      \* their timestamps, 0 for a key that is not listed
    writer,
    sweep,
    remover,
    orphans     \* history: keys whose upload died or failed to discard them

vars == <<engine, clock, objects, rowKey, gone, busy, listed, since, writer, sweep,
          remover, orphans>>

index == <<rowKey, gone, busy>>
garbage == <<listed, since>>
procs == <<writer, sweep, remover>>

AnyKey == CHOOSE k \in Keys : TRUE
IdleWriter == [pc |-> "idle", key |-> AnyKey, at |-> 0, holds |-> FALSE]
IdleSweep == [pc |-> "idle", cutoff |-> 0, todo |-> {}, key |-> AnyKey]
IdleRemover == [pc |-> "idle", target |-> {}, guarded |-> FALSE, dead |-> {},
                fresh |-> {}, at |-> 0]

Init ==
    /\ engine \in Engines
    /\ clock = 0
    /\ objects = {}
    /\ rowKey = [r \in Rows |-> Unused]
    /\ gone = {}
    /\ busy = {}
    /\ listed = {}
    /\ since = [k \in Keys |-> 0]
    /\ writer = [w \in Writers |-> IdleWriter]
    /\ sweep = [s \in Sweepers |-> IdleSweep]
    /\ remover = [m \in Removers |-> IdleRemover]
    /\ orphans = {}

Exports == {r \in Rows : SourceOf[r] # NoRow}
Present(r) == rowKey[r] \in Keys
Named(k) == \E r \in Rows : rowKey[r] = k

\* SQLite has one write transaction at a time, Postgres runs them side by side
\* and each reads what is committed.
SerialWriters == engine = "sqlite"

\* A transaction of several steps is open and holds the database's one write
\* lock when SerialWriters, else only the object_garbage rows it wrote.
OpenTransaction ==
    \/ \E w \in Writers : writer[w].pc = "forked"
    \/ \E s \in Sweepers : sweep[s].pc = "taken"
    \/ \E m \in Removers : remover[m].pc = "recorded"
CanWrite == SerialWriters => ~OpenTransaction
Free(k) ==
    /\ CanWrite
    /\ \A s \in Sweepers : ~(sweep[s].pc = "taken" /\ sweep[s].key = k)
    /\ \A w \in Writers : ~(writer[w].holds /\ writer[w].key = k)
\* An insert also waits for the open insert of the same key.
Insertable(k) ==
    /\ Free(k)
    /\ \A m \in Removers : k \notin remover[m].fresh

Restamp(k) == IF k \in listed THEN [since EXCEPT ![k] = clock] ELSE since

-----------------------------------------------------------------------------
(* Storing an object, then its row. *)

\* Revive before the write; it waits for a sweep that holds the key.
Revive(w, k) ==
    /\ writer[w].pc = "idle"
    /\ Free(k)
    /\ since' = Restamp(k)
    /\ writer' = [writer EXCEPT ![w] = [pc |-> "revived", key |-> k, at |-> clock,
                                        holds |-> FALSE]]
    /\ UNCHANGED <<clock, objects, index, listed, sweep, remover, orphans>>

WriteObject(w) ==
    /\ writer[w].pc = "revived"
    /\ objects' = objects \cup {writer[w].key}
    /\ writer' = [writer EXCEPT ![w].pc = "stored"]
    /\ UNCHANGED <<clock, index, garbage, sweep, remover, orphans>>

\* A failed write is answered without a discard; the bytes may be there.
WriteFails(w) ==
    /\ writer[w].pc = "revived"
    /\ writer' = [writer EXCEPT ![w] = IdleWriter]
    /\ \/ UNCHANGED <<objects, orphans>>
       \/ /\ objects' = objects \cup {writer[w].key}
          /\ orphans' = orphans \cup {writer[w].key}
    /\ UNCHANGED <<clock, index, garbage, sweep, remover>>

\* Create, AddVersion, AddResult or KeepExport commits the row.
CommitRow(w, r) ==
    /\ writer[w].pc = "stored"
    /\ rowKey[r] = Unused
    /\ PlanOf[r] \notin gone
    /\ writer[w].key \in Exports \/ r \in Exports =>
          writer[w].key = r /\ Present(SourceOf[r])
    /\ CanWrite
    /\ rowKey' = [rowKey EXCEPT ![r] = writer[w].key]
    /\ writer' = [writer EXCEPT ![w] = IdleWriter]
    /\ UNCHANGED <<clock, objects, gone, busy, garbage, sweep, remover, orphans>>

\* A retry is answered with the row its first send stored, and an export
\* built again replaces its row: the object has its row already.
Replay(w) ==
    /\ writer[w].pc = "stored"
    /\ Named(writer[w].key)
    /\ writer' = [writer EXCEPT ![w] = IdleWriter]
    /\ UNCHANGED <<clock, objects, index, garbage, sweep, remover, orphans>>

\* The index refused the row: a stale parent, a removed source, an error.
Refuse(w) ==
    /\ writer[w].pc = "stored"
    /\ writer' = [writer EXCEPT ![w].pc = "refused"]
    /\ UNCHANGED <<clock, objects, index, garbage, sweep, remover, orphans>>

Discard(w) ==
    /\ writer[w].pc = "refused"
    /\ Insertable(writer[w].key)
    /\ listed' = listed \cup {writer[w].key}
    /\ since' = [since EXCEPT ![writer[w].key] = clock]
    /\ writer' = [writer EXCEPT ![w] = IdleWriter]
    /\ UNCHANGED <<clock, objects, index, sweep, remover, orphans>>

\* Discard is best effort.
DiscardFails(w) ==
    /\ writer[w].pc = "refused"
    /\ orphans' = orphans \cup {writer[w].key}
    /\ writer' = [writer EXCEPT ![w] = IdleWriter]
    /\ UNCHANGED <<clock, objects, index, garbage, sweep, remover>>

\* A fork names another plan's object without storing it: it revives the key,
\* reads the version, and its transaction holds the key's garbage row, if there
\* is one, until the copy is committed.

ForkRead(w, r) ==
    /\ writer[w].pc = "idle"
    /\ Present(r) /\ r \notin Exports
    /\ Free(rowKey[r])
    /\ writer' = [writer EXCEPT ![w] = [pc |-> "forked", key |-> rowKey[r], at |-> clock,
                                        holds |-> rowKey[r] \in listed]]
    /\ UNCHANGED <<clock, objects, index, garbage, sweep, remover, orphans>>

ForkCommit(w, copy) ==
    /\ writer[w].pc = "forked"
    /\ rowKey[copy] = Unused /\ copy \notin Exports
    /\ \A r \in Rows : PlanOf[r] = PlanOf[copy] => rowKey[r] = Unused
    /\ PlanOf[copy] \notin gone
    /\ rowKey' = [rowKey EXCEPT ![copy] = writer[w].key]
    /\ since' = IF writer[w].holds THEN [since EXCEPT ![writer[w].key] = writer[w].at]
                                   ELSE since
    /\ writer' = [writer EXCEPT ![w] = IdleWriter]
    /\ UNCHANGED <<clock, objects, gone, busy, listed, sweep, remover, orphans>>

\* The version was removed after the revive, or a statement failed.
ForkFails(w) ==
    /\ writer[w].pc = "forked"
    /\ writer' = [writer EXCEPT ![w] = IdleWriter]
    /\ UNCHANGED <<clock, objects, index, garbage, sweep, remover, orphans>>

-----------------------------------------------------------------------------
(* Removing rows: the keys are recorded first, then the rows deleted, in   *)
(* one transaction of several statements.                                  *)

\* What the removal's condition selects now, with the exported files.
Doomed(target, guarded) ==
    LET base == {r \in target : Present(r) /\ (guarded => r \notin busy)}
    IN  base \cup {e \in Rows : Present(e) /\ SourceOf[e] \in base}

\* Mutant of RecordedKeys: recordExports is forgotten.
RecordedKeysNoExports(target, guarded) ==
    {rowKey[r] : r \in Doomed(target, guarded) \ Exports}
RecordedKeys(target, guarded) == {rowKey[r] : r \in Doomed(target, guarded)}

Record(m, target, guarded, dead) ==
    LET keys == RecordedKeys(target, guarded)
    IN  /\ remover[m].pc = "idle"
        /\ CanWrite
        /\ \A k \in keys : Insertable(k)
        /\ remover' = [remover EXCEPT ![m] =
             [pc |-> "recorded", target |-> target, guarded |-> guarded,
              dead |-> dead, fresh |-> keys \ listed, at |-> clock]]
        /\ UNCHANGED <<clock, objects, index, garbage, writer, sweep, orphans>>

\* The versions and results a plan holds; a plan is born with one.
Holds(p) == {r \in Rows \ Exports : PlanOf[r] = p /\ Present(r)}

\* Purge takes everything a plan holds, whatever reads it.
PurgeRecord(m, p) ==
    /\ Holds(p) # {}
    /\ Record(m, {r \in Rows \ Exports : PlanOf[r] = p}, FALSE, {p})

\* A trim or the purge of results takes some of a plan's rows: the backups
\* trim and the purge re-evaluate which an open solve reads at each statement
\* (guarded), the results trim picked its rows before.  The newest version of
\* a plan is never among them.
TrimRecord(m, target, guarded) ==
    /\ target # {}
    /\ \E p \in Plans : target \subseteq Holds(p) /\ target # Holds(p)
    /\ guarded \/ target \cap busy = {}
    /\ Record(m, target, guarded, {})

\* The last statement deletes what the condition selects by then, with the
\* exported files by cascade, and the transaction commits.
RemoveRows(m) ==
    LET doomed == Doomed(remover[m].target, remover[m].guarded)
    IN  /\ remover[m].pc = "recorded"
        /\ rowKey' = [r \in Rows |-> IF r \in doomed THEN Gone ELSE rowKey[r]]
        /\ gone' = gone \cup remover[m].dead
        /\ busy' = busy \ doomed
        /\ listed' = listed \cup remover[m].fresh
        /\ since' = [k \in Keys |-> IF k \in remover[m].fresh
                                    THEN remover[m].at ELSE since[k]]
        /\ remover' = [remover EXCEPT ![m] = IdleRemover]
        /\ UNCHANGED <<clock, objects, writer, sweep, orphans>>

\* The plan left Trash after its keys were recorded: the delete, which asks
\* again, takes nothing, and the keys stay on the list.
PurgeSpares(m) ==
    /\ remover[m].pc = "recorded" /\ remover[m].dead # {}
    /\ ~SerialWriters
    /\ listed' = listed \cup remover[m].fresh
    /\ since' = [k \in Keys |-> IF k \in remover[m].fresh
                                THEN remover[m].at ELSE since[k]]
    /\ remover' = [remover EXCEPT ![m] = IdleRemover]
    /\ UNCHANGED <<clock, objects, index, writer, sweep, orphans>>

RemoveFails(m) ==
    /\ remover[m].pc = "recorded"
    /\ remover' = [remover EXCEPT ![m] = IdleRemover]
    /\ UNCHANGED <<clock, objects, index, garbage, writer, sweep, orphans>>

\* A solve opens on a version or a result, and ends.
OpenSolve(r) ==
    /\ Present(r) /\ r \notin Exports /\ r \notin busy
    /\ CanWrite
    /\ busy' = busy \cup {r}
    /\ UNCHANGED <<clock, objects, rowKey, gone, garbage, procs, orphans>>

CloseSolve(r) ==
    /\ r \in busy
    /\ CanWrite
    /\ busy' = busy \ {r}
    /\ UNCHANGED <<clock, objects, rowKey, gone, garbage, procs, orphans>>

-----------------------------------------------------------------------------
(* The sweep. *)

SweepList(s) ==
    /\ sweep[s].pc = "idle"
    /\ clock >= SweepAge
    /\ LET cutoff == clock - SweepAge
           todo == {k \in listed : since[k] <= cutoff}
       IN  /\ todo # {}
           /\ sweep' = [sweep EXCEPT ![s] = [pc |-> "listed", cutoff |-> cutoff,
                                             todo |-> todo, key |-> AnyKey]]
    /\ UNCHANGED <<clock, objects, index, garbage, writer, remover, orphans>>

\* The key was revived, or another sweep took it, since the listing.
SweepSkip(s, k) ==
    /\ sweep[s].pc = "listed" /\ k \in sweep[s].todo
    /\ Free(k)
    /\ k \notin listed \/ since[k] > sweep[s].cutoff
    /\ sweep' = [sweep EXCEPT ![s].todo = @ \ {k}]
    /\ UNCHANGED <<clock, objects, index, garbage, writer, remover, orphans>>

\* A row names the key again: it leaves the list, its object stays.
SweepDrop(s, k) ==
    /\ sweep[s].pc = "listed" /\ k \in sweep[s].todo
    /\ Free(k)
    /\ k \in listed /\ since[k] <= sweep[s].cutoff
    /\ Named(k)
    /\ listed' = listed \ {k}
    /\ since' = [since EXCEPT ![k] = 0]
    /\ sweep' = [sweep EXCEPT ![s].todo = @ \ {k}]
    /\ UNCHANGED <<clock, objects, index, writer, remover, orphans>>

\* No row names it: the transaction holds the key's row while it deletes.
\*
\* Mutant of SweepTake: the sweep does not ask whether a row names the key.
SweepTakeNamed(s, k) ==
    /\ sweep[s].pc = "listed" /\ k \in sweep[s].todo
    /\ Free(k)
    /\ k \in listed /\ since[k] <= sweep[s].cutoff
    /\ sweep' = [sweep EXCEPT ![s].pc = "taken", ![s].key = k, ![s].todo = @ \ {k}]
    /\ UNCHANGED <<clock, objects, index, garbage, writer, remover, orphans>>

SweepTake(s, k) ==
    /\ sweep[s].pc = "listed" /\ k \in sweep[s].todo
    /\ Free(k)
    /\ k \in listed /\ since[k] <= sweep[s].cutoff
    /\ ~Named(k)
    /\ sweep' = [sweep EXCEPT ![s].pc = "taken", ![s].key = k, ![s].todo = @ \ {k}]
    /\ UNCHANGED <<clock, objects, index, garbage, writer, remover, orphans>>

\* The object is deleted and the transaction commits.
SweepRemove(s) ==
    /\ sweep[s].pc = "taken"
    /\ objects' = objects \ {sweep[s].key}
    /\ listed' = listed \ {sweep[s].key}
    /\ since' = [since EXCEPT ![sweep[s].key] = 0]
    /\ sweep' = [sweep EXCEPT ![s].pc = "listed"]
    /\ UNCHANGED <<clock, index, writer, remover, orphans>>

\* The delete or the commit fails: the key stays for the next sweep, whether
\* the object went or not.
SweepFails(s) ==
    /\ sweep[s].pc = "taken"
    /\ \/ objects' = objects
       \/ objects' = objects \ {sweep[s].key}
    /\ sweep' = [sweep EXCEPT ![s].pc = "listed"]
    /\ UNCHANGED <<clock, index, garbage, writer, remover, orphans>>

SweepEnd(s) ==
    /\ sweep[s].pc = "listed" /\ sweep[s].todo = {}
    /\ sweep' = [sweep EXCEPT ![s] = IdleSweep]
    /\ UNCHANGED <<clock, objects, index, garbage, writer, remover, orphans>>

-----------------------------------------------------------------------------
\* The server stops: open transactions roll back, solves that were open are
\* closed at the next boot, what was stored without a row stays.
Crash ==
    /\ orphans' = orphans \cup
         {writer[w].key : w \in {v \in Writers : writer[v].pc \in {"stored", "refused"}}}
    /\ writer' = [w \in Writers |-> IdleWriter]
    /\ sweep' = [s \in Sweepers |-> IdleSweep]
    /\ remover' = [m \in Removers |-> IdleRemover]
    /\ busy' = {}
    /\ UNCHANGED <<clock, objects, rowKey, gone, garbage>>

\* Time passes, but no request or transaction outlives OpTime.
Tick ==
    /\ clock < MaxClock
    /\ \A w \in Writers : writer[w].pc # "idle" => clock < writer[w].at + OpTime
    /\ \A m \in Removers : remover[m].pc # "idle" => clock < remover[m].at + OpTime
    /\ clock' = clock + 1
    /\ UNCHANGED <<objects, index, garbage, procs, orphans>>

Next ==
    /\ UNCHANGED engine
    /\ \/ \E w \in Writers :
             \/ \E k \in Keys : Revive(w, k)
             \/ WriteObject(w) \/ WriteFails(w)
             \/ \E r \in Rows : CommitRow(w, r)
             \/ Replay(w) \/ Refuse(w) \/ Discard(w) \/ DiscardFails(w)
             \/ \E r \in Rows : ForkRead(w, r) \/ ForkCommit(w, r)
             \/ ForkFails(w)
       \/ \E m \in Removers :
             \/ \E p \in Plans : PurgeRecord(m, p)
             \/ \E target \in SUBSET Rows, guarded \in BOOLEAN :
                   TrimRecord(m, target, guarded)
             \/ RemoveRows(m) \/ PurgeSpares(m) \/ RemoveFails(m)
       \/ \E r \in Rows : OpenSolve(r) \/ CloseSolve(r)
       \/ \E s \in Sweepers :
             \/ SweepList(s)
             \/ \E k \in Keys : SweepSkip(s, k) \/ SweepDrop(s, k) \/ SweepTake(s, k)
             \/ SweepRemove(s) \/ SweepFails(s) \/ SweepEnd(s)
       \/ Crash
       \/ Tick

Spec == Init /\ [][Next]_vars

-----------------------------------------------------------------------------
Types ==
    /\ clock \in 0..MaxClock
    /\ objects \subseteq Keys
    /\ rowKey \in [Rows -> Keys \cup {Unused, Gone}]
    /\ gone \subseteq Plans
    /\ busy \subseteq Rows
    /\ listed \subseteq Keys
    /\ since \in [Keys -> Nat]
    /\ writer \in [Writers -> [pc : {"idle", "revived", "stored", "refused", "forked"},
                               key : Keys, at : Nat, holds : BOOLEAN]]
    /\ sweep \in [Sweepers -> [pc : {"idle", "listed", "taken"}, cutoff : Nat,
                               todo : SUBSET Keys, key : Keys]]
    /\ remover \in [Removers -> [pc : {"idle", "recorded"}, target : SUBSET Rows,
                                 guarded : BOOLEAN, dead : SUBSET Plans,
                                 fresh : SUBSET Keys, at : Nat]]
    /\ orphans \subseteq Keys

TypeOK == engine \in Engines /\ Types

\* Every version, result and export that the index lists can be opened: no
\* interleaving of uploads, forks, removals and sweeps deletes an object some
\* row names (plans.Sweep, plans.Revive).
NamedStored == \A r \in Rows : Present(r) => rowKey[r] \in objects

\* A sweep never deletes the bytes between an upload's write, or a fork's read,
\* and the row that will name them (documents.Store.WithGarbage, plans.Fork).
InFlightStored ==
    \A w \in Writers : writer[w].pc \in {"stored", "forked"} => writer[w].key \in objects

\* No object is kept for ever: a stored object has a row, waits in
\* object_garbage, or belongs to a request yet to answer, unless its
\* request died between the two writes or could not discard it (plans.Purge,
\* plans.trim, plans.removeResult, plans.recordExports, plans.Discard).
NoLeak ==
    \A k \in objects :
        \/ Named(k)
        \/ k \in listed
        \/ k \in orphans
        \/ \E w \in Writers : writer[w].pc \in {"stored", "refused"} /\ writer[w].key = k

\* NoLeak where one write transaction is open at a time, as in SQLite: nothing
\* comes between the record of a removal's keys and the removal of their rows
\* (plans.Purge, plans.trim, plans.recordExports, plans.Discard).
NoLeakSerial == SerialWriters => NoLeak
=============================================================================
