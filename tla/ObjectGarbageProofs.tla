------------------------ MODULE ObjectGarbageProofs ------------------------
(***************************************************************************)
(* Proofs about ObjectGarbage, for any number of keys, rows, plans and     *)
(* processes, any SweepAge and OpTime with 2 * OpTime < SweepAge, and both *)
(* database engines.                                                       *)
(*                                                                         *)
(* The safety invariants are not inductive: that a sweep may delete the    *)
(* key it took rests on how the stamps of object_garbage relate to the     *)
(* start of every upload, fork and removal under way (Inv below).          *)
(***************************************************************************)
EXTENDS ObjectGarbage, TLAPS

USE RowsAssumption, TimeAssumption

\* A request about to name its key in a row.
Live(w) == writer[w].pc \in {"revived", "stored", "forked"}

\* A live request began at most OpTime ago, and the stamp of its key, listed
\* or about to be, is at most OpTime older than its start, or it holds the
\* key's row.
WriterTimes ==
    \A w \in Writers : Live(w) =>
        /\ writer[w].at <= clock
        /\ clock <= writer[w].at + OpTime
        /\ writer[w].key \in listed =>
              writer[w].holds \/ writer[w].at <= since[writer[w].key] + OpTime
        /\ \A m \in Removers :
              remover[m].pc = "recorded" /\ writer[w].key \in remover[m].fresh =>
                  writer[w].at <= remover[m].at + OpTime

RemoverTimes ==
    \A m \in Removers : remover[m].pc = "recorded" =>
        remover[m].at <= clock /\ clock <= remover[m].at + OpTime

SweepTimes ==
    \A s \in Sweepers : sweep[s].pc # "idle" => sweep[s].cutoff + SweepAge <= clock

\* No row names a key a sweep has taken, and none is about to.
TakenFree ==
    \A s \in Sweepers : sweep[s].pc = "taken" =>
        /\ ~Named(sweep[s].key)
        /\ \A w \in Writers : Live(w) => writer[w].key # sweep[s].key

Inv ==
    /\ Types
    /\ NamedStored
    /\ InFlightStored
    /\ WriterTimes
    /\ RemoverTimes
    /\ SweepTimes
    /\ TakenFree

-----------------------------------------------------------------------------
\* The process records of a request, a sweep and a removal.
WriterRecord == [pc : {"idle", "revived", "stored", "refused", "forked"},
                 key : Keys, at : Nat, holds : BOOLEAN]
SweepRecord == [pc : {"idle", "listed", "taken"}, cutoff : Nat,
                todo : SUBSET Keys, key : Keys]
RemoverRecord == [pc : {"idle", "recorded"}, target : SUBSET Rows,
                  guarded : BOOLEAN, dead : SUBSET Plans, fresh : SUBSET Keys,
                  at : Nat]

\* The idle records have the types of their processes.
LEMMA IdleTypes ==
    /\ AnyKey \in Keys
    /\ IdleWriter \in WriterRecord
    /\ IdleSweep \in SweepRecord
    /\ IdleRemover \in RemoverRecord
<1>1. AnyKey \in Keys
  BY DEF AnyKey
<1> QED
  BY <1>1 DEF IdleWriter, IdleSweep, IdleRemover, WriterRecord, SweepRecord,
              RemoverRecord

\* The record of a sweep that takes a key has its type.
LEMMA SweepTakenType ==
    ASSUME NEW record \in SweepRecord, NEW k \in Keys
    PROVE  [record EXCEPT !.pc = "taken", !.key = k, !.todo = @ \ {k}] \in SweepRecord
BY DEF SweepRecord

\* Every state the program starts in has the right types.
LEMMA TypeInit == Init => Types
BY IdleTypes DEF Init, Types, WriterRecord, SweepRecord, RemoverRecord

\* The types after a step of one request, and after one of a sweep.
LEMMA WriterTypes ==
    ASSUME Types, NEW w \in Writers, NEW record \in WriterRecord,
           writer' = [writer EXCEPT ![w] = record],
           objects' \subseteq Keys, rowKey' \in [Rows -> Keys \cup {Unused, Gone}],
           listed' \subseteq Keys, since' \in [Keys -> Nat], orphans' \subseteq Keys,
           UNCHANGED <<clock, gone, busy, sweep, remover>>
    PROVE  Types'
<1>1. writer \in [Writers -> WriterRecord]
  BY DEF Types, WriterRecord
<1>2. writer' \in [Writers -> WriterRecord]
  BY ONLY <1>1, w \in Writers, record \in WriterRecord, writer' = [writer EXCEPT ![w] = record]
<1> QED
  BY <1>2 DEF Types, WriterRecord

LEMMA SweepTypes ==
    ASSUME Types, NEW s \in Sweepers, NEW record \in SweepRecord,
           sweep' = [sweep EXCEPT ![s] = record],
           objects' \subseteq Keys, listed' \subseteq Keys, since' \in [Keys -> Nat],
           UNCHANGED <<clock, rowKey, gone, busy, writer, remover, orphans>>
    PROVE  Types'
<1>1. sweep \in [Sweepers -> SweepRecord]
  BY DEF Types, SweepRecord
<1>2. sweep' \in [Sweepers -> SweepRecord]
  BY ONLY <1>1, s \in Sweepers, record \in SweepRecord, sweep' = [sweep EXCEPT ![s] = record]
<1> QED
  BY <1>2 DEF Types, SweepRecord

\* A request's record is of its type, and stays so when it moves on.
LEMMA WriterMoves ==
    ASSUME Types, NEW w \in Writers, NEW pc \in {"idle", "revived", "stored", "refused", "forked"}
    PROVE  /\ writer[w] \in WriterRecord
           /\ [writer[w] EXCEPT !.pc = pc] \in WriterRecord
           /\ [writer EXCEPT ![w].pc = pc] = [writer EXCEPT ![w] = [writer[w] EXCEPT !.pc = pc]]
<1>1. writer[w] \in WriterRecord
  BY DEF Types, WriterRecord
<1> QED
  BY <1>1 DEF WriterRecord

\* A sweep's record is of its type, and stays so without one of its keys.
LEMMA SweepMoves ==
    ASSUME Types, NEW s \in Sweepers, NEW k
    PROVE  /\ [sweep[s] EXCEPT !.todo = @ \ {k}] \in SweepRecord
           /\ [sweep EXCEPT ![s].todo = @ \ {k}] =
                 [sweep EXCEPT ![s] = [sweep[s] EXCEPT !.todo = @ \ {k}]]
<1>1. sweep[s] \in SweepRecord
  BY DEF Types, SweepRecord
<1> QED
  BY <1>1 DEF SweepRecord

\* Every step keeps the types.
LEMMA TypeStep == Types /\ [Next]_vars => Types'
<1> SUFFICES ASSUME Types, [Next]_vars PROVE Types'
  OBVIOUS
<1> USE IdleTypes DEF Types, WriterRecord, SweepRecord, RemoverRecord, index,
        garbage, procs
<1>1. ASSUME NEW w \in Writers, NEW k \in Keys, Revive(w, k) PROVE Types'
  BY <1>1 DEF Revive, Restamp
<1>2. ASSUME NEW w \in Writers, WriteObject(w) \/ Replay(w) \/ Refuse(w) PROVE Types'
  <2>0. Types
    OBVIOUS
  <2> HIDE IdleTypes DEF Types, WriterRecord, SweepRecord, RemoverRecord
  <2>1. CASE WriteObject(w)
    <3>1. /\ UNCHANGED <<clock, rowKey, gone, busy, listed, since, sweep, remover, orphans>>
          /\ objects' = objects \cup {writer[w].key}
          /\ writer' = [writer EXCEPT ![w].pc = "stored"]
      BY <2>1 DEF WriteObject
    <3>2. writer[w].key \in Keys
      BY <2>0, WriterMoves DEF WriterRecord
    <3>3. objects' \subseteq Keys
      BY <2>0, <3>1, <3>2 DEF Types
    <3> QED
      BY <2>0, <3>1, <3>3, WriterMoves, WriterTypes DEF Types
  <2>2. CASE Replay(w)
    BY <2>0, <2>2, IdleTypes, WriterTypes DEF Replay, Types
  <2>3. CASE Refuse(w)
    BY <2>0, <2>3, WriterMoves, WriterTypes DEF Refuse, Types
  <2> QED
    BY <1>2, <2>1, <2>2, <2>3
<1>3. ASSUME NEW w \in Writers, WriteFails(w) PROVE Types'
  BY <1>3 DEF WriteFails
<1>4. ASSUME NEW w \in Writers, NEW r \in Rows, CommitRow(w, r) PROVE Types'
  BY <1>4 DEF CommitRow
<1>5. ASSUME NEW w \in Writers, Discard(w) \/ DiscardFails(w) PROVE Types'
  <2>0. Types /\ writer[w].key \in Keys
    BY WriterMoves DEF WriterRecord
  <2> HIDE IdleTypes DEF Types, WriterRecord, SweepRecord, RemoverRecord
  <2>1. CASE Discard(w)
    <3>1. clock \in Nat
      BY <2>0 DEF Types
    <3>2. listed' \subseteq Keys /\ since' \in [Keys -> Nat]
      BY <2>0, <2>1, <3>1 DEF Discard, Types
    <3> QED
      BY <2>0, <2>1, <3>2, IdleTypes, WriterTypes DEF Discard, Types
  <2>2. CASE DiscardFails(w)
    BY <2>0, <2>2, IdleTypes, WriterTypes DEF DiscardFails, Types
  <2> QED
    BY <1>5, <2>1, <2>2
<1>6. ASSUME NEW w \in Writers, NEW r \in Rows, ForkRead(w, r) PROVE Types'
  BY <1>6 DEF ForkRead, Present
<1>7. ASSUME NEW w \in Writers, NEW r \in Rows, ForkCommit(w, r) PROVE Types'
  BY <1>7 DEF ForkCommit
<1>8. ASSUME NEW w \in Writers, ForkFails(w) PROVE Types'
  BY <1>8 DEF ForkFails
<1>9. ASSUME NEW m \in Removers, NEW target \in SUBSET Rows, NEW guarded \in BOOLEAN,
             NEW dead \in SUBSET Plans, Record(m, target, guarded, dead)
      PROVE  Types'
  <2>1. RecordedKeys(target, guarded) \subseteq Keys
    BY DEF RecordedKeys, Doomed, Present
  <2> QED
    BY <1>9, <2>1 DEF Record
<1>10. ASSUME NEW m \in Removers, NEW p \in Plans, PurgeRecord(m, p) PROVE Types'
  BY <1>9, <1>10, {r \in Rows \ Exports : PlanOf[r] = p} \in SUBSET Rows, FALSE \in BOOLEAN,
     {p} \in SUBSET Plans DEF PurgeRecord
<1>11. ASSUME NEW m \in Removers, NEW target \in SUBSET Rows, NEW guarded \in BOOLEAN,
              TrimRecord(m, target, guarded)
       PROVE  Types'
  <2>1. Record(m, target, guarded, {})
    BY <1>11 DEF TrimRecord
  <2>2. {} \in SUBSET Plans
    OBVIOUS
  <2> QED
    BY ONLY <1>9, <2>1, <2>2, m \in Removers, target \in SUBSET Rows, guarded \in BOOLEAN
<1>12. ASSUME NEW m \in Removers, RemoveRows(m) PROVE Types'
  BY <1>12 DEF RemoveRows
<1>13. ASSUME NEW m \in Removers, PurgeSpares(m) \/ RemoveFails(m) PROVE Types'
  <2>1. CASE PurgeSpares(m)
    BY <2>1 DEF PurgeSpares
  <2>2. CASE RemoveFails(m)
    BY <2>2 DEF RemoveFails
  <2> QED
    BY <1>13, <2>1, <2>2
<1>14. ASSUME NEW r \in Rows, OpenSolve(r) \/ CloseSolve(r) PROVE Types'
  BY <1>14 DEF OpenSolve, CloseSolve
<1>15. ASSUME NEW s \in Sweepers, SweepList(s) PROVE Types'
  BY <1>15 DEF SweepList
<1>16. ASSUME NEW s \in Sweepers, NEW k \in Keys,
              SweepSkip(s, k) \/ SweepDrop(s, k) \/ SweepTake(s, k)
       PROVE  Types'
  <2>0. Types
    OBVIOUS
  <2>1. CASE SweepSkip(s, k)
    <3> HIDE IdleTypes DEF Types, WriterRecord, SweepRecord, RemoverRecord
    <3> QED
      BY <2>0, <2>1, SweepMoves, SweepTypes DEF SweepSkip, Types
  <2>2. CASE SweepDrop(s, k)
    <3> HIDE IdleTypes DEF Types, WriterRecord, SweepRecord, RemoverRecord
    <3>1. listed' \subseteq Keys /\ since' \in [Keys -> Nat]
      BY <2>0, <2>2 DEF SweepDrop, Types
    <3> QED
      BY <2>0, <2>2, <3>1, SweepMoves, SweepTypes DEF SweepDrop, Types
  <2>3. CASE SweepTake(s, k)
    <3>0. UNCHANGED <<clock, objects, rowKey, gone, busy, listed, since, writer, remover, orphans>>
      BY ONLY <2>3 DEF SweepTake, index, garbage
    <3>1. [sweep[s] EXCEPT !.pc = "taken", !.key = k, !.todo = @ \ {k}] \in SweepRecord
      <4>1. sweep[s] \in SweepRecord
        BY ONLY sweep \in [Sweepers -> SweepRecord], s \in Sweepers
      <4> QED
        BY ONLY <4>1, k \in Keys, SweepTakenType
    <3>2. sweep' = [sweep EXCEPT ![s] =
             [sweep[s] EXCEPT !.pc = "taken", !.key = k, !.todo = @ \ {k}]]
      BY <2>3 DEF SweepTake
    <3>3. sweep' \in [Sweepers -> SweepRecord]
      BY <3>1, <3>2
    <3> QED
      BY ONLY <3>0, <3>3, Types DEF Types, SweepRecord
  <2> QED
    BY ONLY <1>16, <2>1, <2>2, <2>3
<1>17. ASSUME NEW s \in Sweepers, SweepRemove(s) \/ SweepFails(s) \/ SweepEnd(s)
       PROVE  Types'
  <2>1. CASE SweepRemove(s)
    <3>1. sweep' \in [Sweepers -> SweepRecord]
      <4>1. sweep \in [Sweepers -> SweepRecord]
        OBVIOUS
      <4>2. sweep' = [sweep EXCEPT ![s] = [sweep[s] EXCEPT !.pc = "listed"]]
        BY ONLY <2>1 DEF SweepRemove
      <4>3. [sweep[s] EXCEPT !.pc = "listed"] \in SweepRecord
        BY ONLY <4>1, s \in Sweepers DEF SweepRecord
      <4> HIDE DEF SweepRecord
      <4> QED
        BY ONLY <4>1, <4>2, <4>3
    <3>2. since' \in [Keys -> Nat] /\ objects' \subseteq Keys /\ listed' \subseteq Keys
      BY <2>1 DEF SweepRemove
    <3>3. UNCHANGED <<clock, rowKey, gone, busy, writer, remover, orphans>>
      BY ONLY <2>1 DEF SweepRemove, index
    <3> QED
      BY ONLY <3>1, <3>2, <3>3, Types DEF Types, SweepRecord
  <2>2. CASE SweepFails(s)
    <3>1. sweep' \in [Sweepers -> SweepRecord]
      <4>1. sweep \in [Sweepers -> SweepRecord]
        OBVIOUS
      <4>2. sweep' = [sweep EXCEPT ![s] = [sweep[s] EXCEPT !.pc = "listed"]]
        BY ONLY <2>2 DEF SweepFails
      <4>3. [sweep[s] EXCEPT !.pc = "listed"] \in SweepRecord
        BY ONLY <4>1, s \in Sweepers DEF SweepRecord
      <4> HIDE DEF SweepRecord
      <4> QED
        BY ONLY <4>1, <4>2, <4>3
    <3>2. objects' \subseteq Keys
      BY <2>2 DEF SweepFails
    <3>3. UNCHANGED <<clock, rowKey, gone, busy, listed, since, writer, remover, orphans>>
      BY ONLY <2>2 DEF SweepFails, index, garbage
    <3> QED
      BY ONLY <3>1, <3>2, <3>3, Types DEF Types, SweepRecord
  <2>3. CASE SweepEnd(s)
    BY <2>3 DEF SweepEnd
  <2> QED
    BY ONLY <1>17, <2>1, <2>2, <2>3
<1>18. ASSUME Crash PROVE Types'
  BY <1>18 DEF Crash
<1>19. ASSUME Tick PROVE Types'
  BY <1>19 DEF Tick
<1>20. ASSUME UNCHANGED vars PROVE Types'
  BY <1>20 DEF vars
<1> HIDE IdleTypes DEF Types, WriterRecord, SweepRecord, RemoverRecord, index,
         garbage, procs
<1> QED
  BY <1>1, <1>2, <1>3, <1>4, <1>5, <1>6, <1>7, <1>8, <1>10, <1>11, <1>12, <1>13,
     <1>14, <1>15, <1>16, <1>17, <1>18, <1>19, <1>20 DEF Next

LEMMA InvInit == Init => Inv
BY TypeInit DEF Init, Inv, NamedStored, InFlightStored, WriterTimes, RemoverTimes,
   SweepTimes, TakenFree, Live, Present, IdleWriter, IdleSweep, IdleRemover

-----------------------------------------------------------------------------
(* The steps of a request that stores an object. *)

\* A revive stamps the key with the start of its request, and waits for a sweep.
LEMMA ReviveStep ==
    ASSUME Inv, Types', NEW w \in Writers, NEW k \in Keys, Revive(w, k)
    PROVE  Inv'
<1> USE DEF Inv, Types, Revive, index
<1>1. NamedStored'
  BY DEF NamedStored, Present
<1>2. InFlightStored'
  BY DEF InFlightStored
<1>3. WriterTimes'
  BY DEF WriterTimes, Live, RemoverTimes, Restamp
<1>4. RemoverTimes'
  BY DEF RemoverTimes
<1>5. SweepTimes'
  BY DEF SweepTimes
<1>6. TakenFree'
  BY DEF TakenFree, Live, Named, Free
<1> QED
  BY <1>1, <1>2, <1>3, <1>4, <1>5, <1>6

\* The write puts the key of a revived request into storage.
LEMMA WriteObjectStep ==
    ASSUME Inv, Types', NEW w \in Writers, WriteObject(w)
    PROVE  Inv'
<1> USE DEF Inv, Types, WriteObject, index, garbage
<1>1. NamedStored'
  BY DEF NamedStored, Present
<1>2. InFlightStored'
  BY DEF InFlightStored
<1>3. WriterTimes'
  BY DEF WriterTimes, Live
<1>4. RemoverTimes'
  BY DEF RemoverTimes
<1>5. SweepTimes'
  BY DEF SweepTimes
<1>6. TakenFree'
  BY DEF TakenFree, Live, Named
<1> QED
  BY <1>1, <1>2, <1>3, <1>4, <1>5, <1>6

\* The row names a key that was stored and that no sweep has taken.
LEMMA CommitRowStep ==
    ASSUME Inv, Types', NEW w \in Writers, NEW r \in Rows, CommitRow(w, r)
    PROVE  Inv'
<1> USE DEF Inv, Types, CommitRow, IdleWriter, garbage
<1>1. NamedStored'
  BY DEF NamedStored, Present, InFlightStored
<1>2. InFlightStored'
  BY DEF InFlightStored
<1>3. WriterTimes'
  BY DEF WriterTimes, Live
<1>4. RemoverTimes'
  BY DEF RemoverTimes
<1>5. SweepTimes'
  BY DEF SweepTimes
<1>6. TakenFree'
  BY DEF TakenFree, Live, Named
<1> QED
  BY <1>1, <1>2, <1>3, <1>4, <1>5, <1>6

\* A request that answers without a row, or is refused one, stops being live.
Leaves(w) ==
    /\ writer' = [writer EXCEPT ![w] = IdleWriter]
          \/ writer' = [writer EXCEPT ![w].pc = "refused"]
    /\ objects' = objects \/ objects' = objects \cup {writer[w].key}
    /\ UNCHANGED <<clock, rowKey, listed, since, sweep, remover>>

\* A request that leaves disturbs none of the others.
LEMMA LeavesStep ==
    ASSUME Inv, Types', NEW w \in Writers, Leaves(w)
    PROVE  Inv'
<1> USE DEF Inv, Types, Leaves, IdleWriter
<1>1. NamedStored'
  BY DEF NamedStored, Present
<1>2. InFlightStored'
  BY DEF InFlightStored
<1>3. WriterTimes'
  <2>1. \A v \in Writers : Live(v)' => Live(v) /\ writer'[v] = writer[v]
    BY DEF Live
  <2> QED
    BY <2>1 DEF WriterTimes
<1>4. RemoverTimes'
  BY DEF RemoverTimes
<1>5. SweepTimes'
  BY DEF SweepTimes
<1>6. TakenFree'
  <2>1. \A v \in Writers : Live(v)' => Live(v) /\ writer'[v] = writer[v]
    BY DEF Live
  <2>2. UNCHANGED <<rowKey, sweep>> /\ TakenFree
    OBVIOUS
  <2> QED
    BY ONLY <2>1, <2>2 DEF TakenFree, Named
<1> QED
  BY <1>1, <1>2, <1>3, <1>4, <1>5, <1>6

\* A discard stamps its key with now, no older than any live request.
LEMMA DiscardStep ==
    ASSUME Inv, Types', NEW w \in Writers, Discard(w)
    PROVE  Inv'
<1> USE DEF Inv, Types, Discard, IdleWriter, index
<1>1. NamedStored'
  BY DEF NamedStored, Present
<1>2. InFlightStored'
  BY DEF InFlightStored
<1>3. WriterTimes'
  BY DEF WriterTimes, Live
<1>4. RemoverTimes'
  BY DEF RemoverTimes
<1>5. SweepTimes'
  BY DEF SweepTimes
<1>6. TakenFree'
  BY DEF TakenFree, Live, Named
<1> QED
  BY <1>1, <1>2, <1>3, <1>4, <1>5, <1>6

-----------------------------------------------------------------------------
(* The steps of a fork. *)

\* A fork reads a key that is named, stored, and in no sweep.
LEMMA ForkReadStep ==
    ASSUME Inv, Types', NEW w \in Writers, NEW r \in Rows, ForkRead(w, r)
    PROVE  Inv'
<1> USE DEF Inv, Types, ForkRead, Present, index, garbage
<1>1. NamedStored'
  BY DEF NamedStored, Present
<1>2. InFlightStored'
  BY DEF InFlightStored, NamedStored
<1>3. WriterTimes'
  <2>1. \A v \in Writers : v # w => writer'[v] = writer[v]
    OBVIOUS
  <2>2. /\ writer'[w].at = clock
        /\ writer'[w].key \in listed => writer'[w].holds
    OBVIOUS
  <2>3. UNCHANGED <<clock, listed, since, remover>>
    OBVIOUS
  <2>4. WriterTimes /\ RemoverTimes /\ clock \in Nat
    OBVIOUS
  <2>5. \A v \in Writers : v # w => (Live(v)' <=> Live(v))
    BY ONLY <2>1 DEF Live
  <2> QED
    BY ONLY <2>1, <2>2, <2>3, <2>4, <2>5, TimeAssumption DEF WriterTimes, RemoverTimes
<1>4. RemoverTimes'
  BY DEF RemoverTimes
<1>5. SweepTimes'
  BY DEF SweepTimes
<1>6. TakenFree'
  BY DEF TakenFree, Live, Named, Free
<1> QED
  BY <1>1, <1>2, <1>3, <1>4, <1>5, <1>6

\* The copy names a key that is stored and that no sweep has taken.
LEMMA ForkCommitStep ==
    ASSUME Inv, Types', NEW w \in Writers, NEW r \in Rows, ForkCommit(w, r)
    PROVE  Inv'
<1> USE DEF Inv, Types, ForkCommit, IdleWriter
<1>1. NamedStored'
  BY DEF NamedStored, Present, InFlightStored
<1>2. InFlightStored'
  BY DEF InFlightStored
<1>3. WriterTimes'
  BY DEF WriterTimes, Live
<1>4. RemoverTimes'
  BY DEF RemoverTimes
<1>5. SweepTimes'
  BY DEF SweepTimes
<1>6. TakenFree'
  BY DEF TakenFree, Live, Named
<1> QED
  BY <1>1, <1>2, <1>3, <1>4, <1>5, <1>6

-----------------------------------------------------------------------------
(* The steps of a removal. *)

\* The keys a removal records are stamped with its start.
LEMMA RecordStep ==
    ASSUME Inv, Types', NEW m \in Removers, NEW target, NEW guarded, NEW dead,
           Record(m, target, guarded, dead)
    PROVE  Inv'
<1> USE DEF Inv, Types, Record, index, garbage
<1>1. NamedStored'
  BY DEF NamedStored, Present
<1>2. InFlightStored'
  BY DEF InFlightStored
<1>3. WriterTimes'
  BY DEF WriterTimes, Live
<1>4. RemoverTimes'
  BY DEF RemoverTimes
<1>5. SweepTimes'
  BY DEF SweepTimes
<1>6. TakenFree'
  BY DEF TakenFree, Live, Named
<1> QED
  BY <1>1, <1>2, <1>3, <1>4, <1>5, <1>6

\* A removal that ends puts the keys it recorded on the list with its own time,
\* which is no older than a live request of theirs allows.
LEMMA ListedTimes ==
    ASSUME Types, WriterTimes, NEW m \in Removers,
           UNCHANGED <<clock, writer>>,
           remover[m].pc = "recorded",
           remover' = [remover EXCEPT ![m] = IdleRemover],
           listed' = listed \cup remover[m].fresh,
           since' = [k \in Keys |-> IF k \in remover[m].fresh
                                    THEN remover[m].at ELSE since[k]]
    PROVE  WriterTimes'
<1> SUFFICES ASSUME NEW w \in Writers, Live(w)
             PROVE  /\ writer[w].at <= clock
                    /\ clock <= writer[w].at + OpTime
                    /\ writer[w].key \in listed' =>
                          writer[w].holds \/ writer[w].at <= since'[writer[w].key] + OpTime
                    /\ \A o \in Removers :
                          remover'[o].pc = "recorded" /\ writer[w].key \in remover'[o].fresh =>
                              writer[w].at <= remover'[o].at + OpTime
  BY DEF WriterTimes, Live
<1>1. writer[w].key \in Keys
  BY DEF Types
<1>2. \A o \in Removers : remover'[o].pc = "recorded" => remover'[o] = remover[o]
  BY DEF Types, IdleRemover
<1> QED
  BY <1>1, <1>2 DEF WriterTimes

\* Removing rows only takes names away.
LEMMA RemoveRowsStep ==
    ASSUME Inv, Types', NEW m \in Removers, RemoveRows(m)
    PROVE  Inv'
<1> USE DEF Inv, Types, RemoveRows, IdleRemover
<1>1. NamedStored'
  BY DEF NamedStored, Present
<1>2. InFlightStored'
  BY DEF InFlightStored
<1>3. WriterTimes'
  <2> HIDE DEF Types, IdleRemover
  <2> QED
    BY ListedTimes
<1>4. RemoverTimes'
  BY DEF RemoverTimes
<1>5. SweepTimes'
  BY DEF SweepTimes
<1>6. TakenFree'
  BY DEF TakenFree, Live, Named
<1> QED
  BY <1>1, <1>2, <1>3, <1>4, <1>5, <1>6

\* A purge that removes nothing still lists the keys it recorded.
LEMMA PurgeSparesStep ==
    ASSUME Inv, Types', NEW m \in Removers, PurgeSpares(m)
    PROVE  Inv'
<1> USE DEF Inv, Types, PurgeSpares, IdleRemover, index
<1>1. NamedStored'
  BY DEF NamedStored, Present
<1>2. InFlightStored'
  BY DEF InFlightStored
<1>3. WriterTimes'
  <2> HIDE DEF Types, IdleRemover
  <2> QED
    BY ListedTimes
<1>4. RemoverTimes'
  BY DEF RemoverTimes
<1>5. SweepTimes'
  BY DEF SweepTimes
<1>6. TakenFree'
  BY DEF TakenFree, Live, Named
<1> QED
  BY <1>1, <1>2, <1>3, <1>4, <1>5, <1>6

\* A removal that fails changes nothing.
LEMMA RemoveFailsStep ==
    ASSUME Inv, Types', NEW m \in Removers, RemoveFails(m)
    PROVE  Inv'
<1> USE DEF Inv, Types, RemoveFails, IdleRemover, index, garbage
<1>1. NamedStored'
  BY DEF NamedStored, Present
<1>2. InFlightStored'
  BY DEF InFlightStored
<1>3. WriterTimes'
  BY DEF WriterTimes, Live
<1>4. RemoverTimes'
  BY DEF RemoverTimes
<1>5. SweepTimes'
  BY DEF SweepTimes
<1>6. TakenFree'
  BY DEF TakenFree, Live, Named
<1> QED
  BY <1>1, <1>2, <1>3, <1>4, <1>5, <1>6

-----------------------------------------------------------------------------
(* The steps of a sweep. *)

\* A sweep starts with a cutoff SweepAge in the past.
LEMMA SweepListStep ==
    ASSUME Inv, Types', NEW s \in Sweepers, SweepList(s)
    PROVE  Inv'
<1> USE DEF Inv, Types, SweepList, index, garbage
<1>1. NamedStored'
  BY DEF NamedStored, Present
<1>2. InFlightStored'
  BY DEF InFlightStored
<1>3. WriterTimes'
  BY DEF WriterTimes, Live
<1>4. RemoverTimes'
  BY DEF RemoverTimes
<1>5. SweepTimes'
  BY DEF SweepTimes
<1>6. TakenFree'
  BY DEF TakenFree, Live, Named
<1> QED
  BY <1>1, <1>2, <1>3, <1>4, <1>5, <1>6

\* Skipping a key changes nothing else.
LEMMA SweepSkipStep ==
    ASSUME Inv, Types', NEW s \in Sweepers, NEW k \in Keys, SweepSkip(s, k)
    PROVE  Inv'
<1> USE DEF Inv, Types, SweepSkip, index, garbage
<1>1. NamedStored'
  BY DEF NamedStored, Present
<1>2. InFlightStored'
  BY DEF InFlightStored
<1>3. WriterTimes'
  BY DEF WriterTimes, Live
<1>4. RemoverTimes'
  BY DEF RemoverTimes
<1>5. SweepTimes'
  BY DEF SweepTimes
<1>6. TakenFree'
  BY DEF TakenFree, Live, Named
<1> QED
  BY <1>1, <1>2, <1>3, <1>4, <1>5, <1>6

\* A key that leaves the list has no stamp to bound.
LEMMA SweepDropStep ==
    ASSUME Inv, Types', NEW s \in Sweepers, NEW k \in Keys, SweepDrop(s, k)
    PROVE  Inv'
<1> USE DEF Inv, Types, SweepDrop, index
<1>1. NamedStored'
  BY DEF NamedStored, Present
<1>2. InFlightStored'
  BY DEF InFlightStored
<1>3. WriterTimes'
  BY DEF WriterTimes, Live
<1>4. RemoverTimes'
  BY DEF RemoverTimes
<1>5. SweepTimes'
  BY DEF SweepTimes
<1>6. TakenFree'
  BY DEF TakenFree, Live, Named
<1> QED
  BY <1>1, <1>2, <1>3, <1>4, <1>5, <1>6

\* No live request has the key a sweep takes: its stamp is too old.
LEMMA SweepTakeStep ==
    ASSUME Inv, Types', NEW s \in Sweepers, NEW k \in Keys, SweepTake(s, k)
    PROVE  Inv'
<1> USE DEF Inv, Types, SweepTake, index, garbage
<1>1. NamedStored'
  BY DEF NamedStored, Present
<1>2. InFlightStored'
  BY DEF InFlightStored
<1>3. WriterTimes'
  BY DEF WriterTimes, Live
<1>4. RemoverTimes'
  BY DEF RemoverTimes
<1>5. SweepTimes'
  BY DEF SweepTimes
<1>6. TakenFree'
  BY DEF TakenFree, Live, Named, SweepTimes, WriterTimes, Free
<1> QED
  BY <1>1, <1>2, <1>3, <1>4, <1>5, <1>6

\* The object a sweep deletes has no row and no live request.
LEMMA SweepRemoveStep ==
    ASSUME Inv, Types', NEW s \in Sweepers, SweepRemove(s)
    PROVE  Inv'
<1> USE DEF Inv, Types, SweepRemove, index
<1>1. NamedStored'
  BY DEF NamedStored, Present, TakenFree, Named
<1>2. InFlightStored'
  BY DEF InFlightStored, TakenFree, Live
<1>3. WriterTimes'
  BY DEF WriterTimes, Live
<1>4. RemoverTimes'
  BY DEF RemoverTimes
<1>5. SweepTimes'
  BY DEF SweepTimes
<1>6. TakenFree'
  BY DEF TakenFree, Live, Named
<1> QED
  BY <1>1, <1>2, <1>3, <1>4, <1>5, <1>6

\* The same for a sweep that fails after the delete.
LEMMA SweepFailsStep ==
    ASSUME Inv, Types', NEW s \in Sweepers, SweepFails(s)
    PROVE  Inv'
<1> USE DEF Inv, Types, SweepFails, index, garbage
<1>1. NamedStored'
  BY DEF NamedStored, Present, TakenFree, Named
<1>2. InFlightStored'
  BY DEF InFlightStored, TakenFree, Live
<1>3. WriterTimes'
  BY DEF WriterTimes, Live
<1>4. RemoverTimes'
  BY DEF RemoverTimes
<1>5. SweepTimes'
  BY DEF SweepTimes
<1>6. TakenFree'
  BY DEF TakenFree, Live, Named
<1> QED
  BY <1>1, <1>2, <1>3, <1>4, <1>5, <1>6

\* A sweep that ends holds nothing.
LEMMA SweepEndStep ==
    ASSUME Inv, Types', NEW s \in Sweepers, SweepEnd(s)
    PROVE  Inv'
<1> USE DEF Inv, Types, SweepEnd, IdleSweep, index, garbage
<1>1. NamedStored'
  BY DEF NamedStored, Present
<1>2. InFlightStored'
  BY DEF InFlightStored
<1>3. WriterTimes'
  BY DEF WriterTimes, Live
<1>4. RemoverTimes'
  BY DEF RemoverTimes
<1>5. SweepTimes'
  BY DEF SweepTimes
<1>6. TakenFree'
  BY DEF TakenFree, Live, Named
<1> QED
  BY <1>1, <1>2, <1>3, <1>4, <1>5, <1>6

-----------------------------------------------------------------------------

\* A crash leaves no process behind.
LEMMA CrashStep ==
    ASSUME Inv, Types', Crash
    PROVE  Inv'
<1> USE DEF Inv, Types, Crash, IdleWriter, IdleSweep, IdleRemover, garbage
<1>1. NamedStored'
  BY DEF NamedStored, Present
<1>2. InFlightStored'
  BY DEF InFlightStored
<1>3. WriterTimes'
  BY DEF WriterTimes, Live
<1>4. RemoverTimes'
  BY DEF RemoverTimes
<1>5. SweepTimes'
  BY DEF SweepTimes
<1>6. TakenFree'
  BY DEF TakenFree, Live, Named
<1> QED
  BY <1>1, <1>2, <1>3, <1>4, <1>5, <1>6

\* The clock waits for a request or removal that is OpTime old.
LEMMA TickStep ==
    ASSUME Inv, Types', Tick
    PROVE  Inv'
<1> USE DEF Inv, Types, Tick, index, garbage, procs
<1>1. NamedStored'
  BY DEF NamedStored, Present
<1>2. InFlightStored'
  BY DEF InFlightStored
<1>3. WriterTimes'
  BY DEF WriterTimes, Live
<1>4. RemoverTimes'
  BY DEF RemoverTimes
<1>5. SweepTimes'
  BY DEF SweepTimes
<1>6. TakenFree'
  BY DEF TakenFree, Live, Named
<1> QED
  BY <1>1, <1>2, <1>3, <1>4, <1>5, <1>6

\* A step that changes none of what Inv speaks of.
LEMMA InvFrame ==
    ASSUME Inv, Types',
           UNCHANGED <<clock, objects, rowKey, listed, since, writer, sweep, remover>>
    PROVE  Inv'
BY DEF Inv, NamedStored, InFlightStored, WriterTimes, RemoverTimes, SweepTimes,
       TakenFree, Live, Named, Present

LEMMA InvStep == Inv /\ [Next]_vars => Inv'
<1> SUFFICES ASSUME Inv, [Next]_vars PROVE Inv'
  OBVIOUS
<1>0. Types'
  BY TypeStep DEF Inv
<1>1. ASSUME NEW w \in Writers,
             WriteFails(w) \/ Replay(w) \/ Refuse(w) \/ DiscardFails(w) \/ ForkFails(w)
      PROVE  Inv'
  <2>1. Leaves(w)
    BY <1>1 DEF Leaves, WriteFails, Replay, Refuse, DiscardFails, ForkFails, index, garbage
  <2> QED
    BY <1>0, <2>1, LeavesStep
<1>2. ASSUME NEW m \in Removers, NEW p \in Plans, PurgeRecord(m, p) PROVE Inv'
  BY <1>0, <1>2, RecordStep DEF PurgeRecord
<1>3. ASSUME NEW m \in Removers, NEW target \in SUBSET Rows, NEW guarded \in BOOLEAN,
             TrimRecord(m, target, guarded)
      PROVE  Inv'
  BY <1>0, <1>3, RecordStep DEF TrimRecord
<1>4. ASSUME NEW r \in Rows, OpenSolve(r) \/ CloseSolve(r) PROVE Inv'
  BY <1>0, <1>4, InvFrame DEF OpenSolve, CloseSolve, garbage, procs
<1>5. ASSUME UNCHANGED vars PROVE Inv'
  BY <1>0, <1>5, InvFrame DEF vars
<1>6. CASE \E w \in Writers :
              \/ \E k \in Keys : Revive(w, k)
              \/ WriteObject(w) \/ Discard(w)
              \/ \E r \in Rows : CommitRow(w, r) \/ ForkRead(w, r) \/ ForkCommit(w, r)
  BY <1>0, <1>6, ReviveStep, WriteObjectStep, DiscardStep, CommitRowStep,
     ForkReadStep, ForkCommitStep
<1>7. CASE \E m \in Removers : RemoveRows(m) \/ PurgeSpares(m) \/ RemoveFails(m)
  BY <1>0, <1>7, RemoveRowsStep, PurgeSparesStep, RemoveFailsStep
<1>8. CASE \E s \in Sweepers :
              \/ SweepList(s) \/ SweepRemove(s) \/ SweepFails(s) \/ SweepEnd(s)
              \/ \E k \in Keys : SweepSkip(s, k) \/ SweepDrop(s, k) \/ SweepTake(s, k)
  BY <1>0, <1>8, SweepListStep, SweepRemoveStep, SweepFailsStep, SweepEndStep,
     SweepSkipStep, SweepDropStep, SweepTakeStep
<1>9. CASE Crash \/ Tick
  BY <1>0, <1>9, CrashStep, TickStep
<1> QED
  BY <1>1, <1>2, <1>3, <1>4, <1>5, <1>6, <1>7, <1>8, <1>9 DEF Next

\* Every row of the index names an object that is in storage, and so does every
\* request between its write and its row, on both engines: the sweep, an upload,
\* a fork, a removal and a crash can come in any order (plans.Sweep, Revive, Fork).
THEOREM StoredTheorem == Spec => [](TypeOK /\ NamedStored /\ InFlightStored)
<1> DEFINE IInv == engine \in Engines /\ Inv
<1>1. Init => IInv
  BY InvInit DEF Init
<1>2. IInv /\ [Next]_vars => IInv'
  BY InvStep DEF Next, vars
<1>3. IInv => TypeOK /\ NamedStored /\ InFlightStored
  BY DEF Inv, TypeOK
<1> QED
  BY <1>1, <1>2, <1>3, PTL DEF Spec

-----------------------------------------------------------------------------
(* With one write transaction at a time nothing comes between the record   *)
(* of a removal's keys and the removal of their rows.                      *)

RemovesAlone ==
    \A m \in Removers : remover[m].pc = "recorded" =>
        /\ \A s \in Sweepers : sweep[s].pc # "taken"
        /\ \A w \in Writers : writer[w].pc # "forked"
        /\ \A n \in Removers : remover[n].pc = "recorded" => n = m

RecordedCovers ==
    \A m \in Removers, r \in Rows :
        /\ remover[m].pc = "recorded"
        /\ r \in Doomed(remover[m].target, remover[m].guarded)
        => rowKey[r] \in listed \cup remover[m].fresh

SerialInv == Types /\ NoLeak /\ RemovesAlone /\ RecordedCovers

\* The three ways a step keeps RecordedCovers: it touches nothing a removal
\* reads, no removal is under way after it, or it is the record itself.
LEMMA CoversFrame ==
    ASSUME RecordedCovers, UNCHANGED <<rowKey, busy, remover>>, listed \subseteq listed'
    PROVE  RecordedCovers'
<1>1. \A m \in Removers : Doomed(remover[m].target, remover[m].guarded)' =
                         Doomed(remover[m].target, remover[m].guarded)
  BY DEF Doomed, Present
<1> QED
  BY <1>1 DEF RecordedCovers

LEMMA CoversVacuous ==
    ASSUME \A m \in Removers : remover'[m].pc # "recorded"
    PROVE  RecordedCovers'
BY DEF RecordedCovers

\* A write statement finds no removal under way.
LEMMA WritesAlone ==
    ASSUME SerialWriters, CanWrite, remover' = remover
    PROVE  \A m \in Removers : remover'[m].pc # "recorded"
BY DEF CanWrite, OpenTransaction

LEMMA RecordedCoversStep ==
    ASSUME SerialWriters, SerialInv, Next PROVE RecordedCovers'
<1> USE DEF SerialInv, Types
<1>1. ASSUME NEW w \in Writers, NEW r \in Rows, CommitRow(w, r) PROVE RecordedCovers'
  BY <1>1, WritesAlone, CoversVacuous DEF CommitRow
<1>2. ASSUME NEW w \in Writers, NEW r \in Rows, ForkCommit(w, r) PROVE RecordedCovers'
  BY <1>2, CoversVacuous DEF ForkCommit, RemovesAlone
<1>3. ASSUME NEW w \in Writers,
             \/ \E k \in Keys : Revive(w, k)
             \/ \E r \in Rows : ForkRead(w, r)
             \/ WriteObject(w) \/ WriteFails(w) \/ Replay(w)
             \/ Refuse(w) \/ Discard(w) \/ DiscardFails(w)
             \/ ForkFails(w)
      PROVE  RecordedCovers'
  <2>1. UNCHANGED <<rowKey, busy, remover>> /\ listed \subseteq listed'
    BY <1>3 DEF Revive, WriteObject, WriteFails, Replay, Refuse, Discard,
                DiscardFails, ForkRead, ForkFails, index, garbage
  <2> QED
    BY <2>1, CoversFrame
<1>4. ASSUME NEW m \in Removers, NEW target, NEW guarded, NEW dead,
             Record(m, target, guarded, dead)
      PROVE  RecordedCovers'
  <2>1. \A n \in Removers : remover[n].pc # "recorded"
    BY <1>4 DEF Record, CanWrite, OpenTransaction
  <2>2. UNCHANGED <<rowKey, busy, listed>>
    BY <1>4 DEF Record, index, garbage
  <2>3. /\ remover'[m].target = target
        /\ remover'[m].guarded = guarded
        /\ remover'[m].fresh = RecordedKeys(target, guarded) \ listed
        /\ \A n \in Removers : n # m => remover'[n] = remover[n]
    BY <1>4 DEF Record
  <2>4. Doomed(remover[m].target, remover[m].guarded)' = Doomed(target, guarded)
    BY <2>2, <2>3 DEF Doomed, Present
  <2>5. \A r \in Doomed(target, guarded) : rowKey[r] \in RecordedKeys(target, guarded)
    BY DEF RecordedKeys
  <2> QED
    BY <2>1, <2>2, <2>3, <2>4, <2>5 DEF RecordedCovers
<1>5. ASSUME NEW m \in Removers, RemoveRows(m) \/ RemoveFails(m) PROVE RecordedCovers'
  BY <1>5, CoversVacuous DEF RemoveRows, RemoveFails, RemovesAlone, IdleRemover
<1>6. ASSUME NEW r \in Rows, OpenSolve(r) \/ CloseSolve(r) PROVE RecordedCovers'
  BY <1>6, WritesAlone, CoversVacuous DEF OpenSolve, CloseSolve, procs
<1>7. ASSUME NEW s \in Sweepers,
             \/ \E k \in Keys : SweepSkip(s, k) \/ SweepTake(s, k)
             \/ SweepList(s) \/ SweepFails(s) \/ SweepEnd(s)
      PROVE  RecordedCovers'
  BY <1>7, CoversFrame DEF SweepList, SweepSkip, SweepTake, SweepFails, SweepEnd,
                           index, garbage
<1>8. ASSUME NEW s \in Sweepers, NEW k \in Keys, SweepDrop(s, k) PROVE RecordedCovers'
  BY <1>8, WritesAlone, CoversVacuous DEF SweepDrop, Free
<1>9. ASSUME NEW s \in Sweepers, SweepRemove(s) PROVE RecordedCovers'
  BY <1>9, CoversVacuous DEF SweepRemove, RemovesAlone
<1>10. CASE Crash
  BY <1>10, CoversVacuous DEF Crash, IdleRemover
<1>11. CASE Tick
  BY <1>11, CoversFrame DEF Tick, index, garbage, procs
<1>12. ASSUME NEW m \in Removers, NEW p \in Plans, PurgeRecord(m, p) PROVE RecordedCovers'
  BY <1>4, <1>12 DEF PurgeRecord
<1>13. ASSUME NEW m \in Removers, NEW target \in SUBSET Rows, NEW guarded \in BOOLEAN,
              TrimRecord(m, target, guarded)
       PROVE  RecordedCovers'
  BY <1>4, <1>13 DEF TrimRecord
<1>14. ASSUME NEW m \in Removers, PurgeSpares(m) PROVE RecordedCovers'
  BY <1>14 DEF PurgeSpares
<1> HIDE DEF SerialInv, Types
<1> QED
  BY <1>1, <1>2, <1>3, <1>5, <1>6, <1>7, <1>8, <1>9, <1>10, <1>11, <1>12,
     <1>13, <1>14 DEF Next

LEMMA RemovesAloneStep ==
    ASSUME SerialWriters, SerialInv, Next PROVE RemovesAlone'
<1> USE DEF SerialInv, Types, RemovesAlone
<1>1. ASSUME NEW w \in Writers,
             \/ \E k \in Keys : Revive(w, k)
             \/ WriteObject(w) \/ WriteFails(w) \/ Replay(w) \/ Refuse(w) \/ Discard(w)
             \/ DiscardFails(w) \/ ForkFails(w)
             \/ \E r \in Rows : CommitRow(w, r) \/ ForkCommit(w, r)
      PROVE  RemovesAlone'
  <2>1. /\ UNCHANGED <<sweep, remover>>
        /\ \A v \in Writers : writer'[v].pc = "forked" => writer[v].pc = "forked"
    BY <1>1 DEF Revive, WriteObject, WriteFails, Replay, Refuse, Discard, DiscardFails,
                ForkFails, CommitRow, ForkCommit, IdleWriter
  <2> QED
    BY <2>1
<1>2. ASSUME NEW w \in Writers, NEW r \in Rows, ForkRead(w, r) PROVE RemovesAlone'
  BY <1>2, WritesAlone DEF ForkRead, Free
<1>3. ASSUME NEW m \in Removers, NEW target, NEW guarded, NEW dead,
             Record(m, target, guarded, dead)
      PROVE  RemovesAlone'
  BY <1>3 DEF Record, CanWrite, OpenTransaction
<1>4. ASSUME NEW m \in Removers, RemoveRows(m) \/ RemoveFails(m) PROVE RemovesAlone'
  BY <1>4 DEF RemoveRows, RemoveFails, IdleRemover
<1>5. ASSUME NEW s \in Sweepers, NEW k \in Keys, SweepTake(s, k) PROVE RemovesAlone'
  BY <1>5, WritesAlone DEF SweepTake, Free
<1>6. ASSUME NEW s \in Sweepers,
             \/ \E k \in Keys : SweepSkip(s, k) \/ SweepDrop(s, k)
             \/ SweepList(s) \/ SweepRemove(s) \/ SweepFails(s) \/ SweepEnd(s)
      PROVE  RemovesAlone'
  <2>1. /\ UNCHANGED <<writer, remover>>
        /\ \A t \in Sweepers : sweep'[t].pc = "taken" => sweep[t].pc = "taken"
    BY <1>6 DEF SweepSkip, SweepDrop, SweepList, SweepRemove, SweepFails, SweepEnd, IdleSweep
  <2> QED
    BY <2>1
<1>7. CASE Crash
  BY <1>7 DEF Crash, IdleRemover
<1>8. CASE Tick \/ \E r \in Rows : OpenSolve(r) \/ CloseSolve(r)
  BY <1>8 DEF Tick, OpenSolve, CloseSolve, procs
<1>9. ASSUME NEW m \in Removers, NEW p \in Plans, PurgeRecord(m, p) PROVE RemovesAlone'
  BY <1>3, <1>9 DEF PurgeRecord
<1>10. ASSUME NEW m \in Removers, NEW target \in SUBSET Rows, NEW guarded \in BOOLEAN,
              TrimRecord(m, target, guarded)
       PROVE  RemovesAlone'
  BY <1>3, <1>10 DEF TrimRecord
<1>11. ASSUME NEW m \in Removers, PurgeSpares(m) PROVE RemovesAlone'
  BY <1>11 DEF PurgeSpares
<1> HIDE DEF SerialInv, Types, RemovesAlone
<1> QED
  BY <1>1, <1>2, <1>4, <1>5, <1>6, <1>7, <1>8, <1>9, <1>10, <1>11 DEF Next

LEMMA NoLeakStep ==
    ASSUME SerialWriters, SerialInv, Next PROVE NoLeak'
<1> USE DEF SerialInv, Types, NoLeak, Named
<1>1. ASSUME NEW w \in Writers, NEW k \in Keys, Revive(w, k) PROVE NoLeak'
  BY <1>1 DEF Revive, index
<1>2. ASSUME NEW w \in Writers, WriteObject(w) \/ Refuse(w) PROVE NoLeak'
  <2>1. CASE WriteObject(w)
    <3>1. /\ writer'[w].pc = "stored" /\ writer'[w].key = writer[w].key
          /\ \A v \in Writers : v # w => writer'[v] = writer[v]
          /\ objects' = objects \cup {writer[w].key}
          /\ writer[w].pc = "revived"
          /\ UNCHANGED <<rowKey, listed, orphans>>
      BY <2>1 DEF WriteObject, index, garbage
    <3> SUFFICES ASSUME NEW k \in objects'
                 PROVE  \/ \E r \in Rows : rowKey[r] = k
                        \/ k \in listed \/ k \in orphans
                        \/ \E v \in Writers : writer'[v].pc \in {"stored", "refused"}
                                             /\ writer'[v].key = k
      BY <3>1
    <3>2. CASE k = writer[w].key
      BY <3>1, <3>2
    <3>3. CASE k \in objects
      <4>1. ASSUME NEW v \in Writers, writer[v].pc \in {"stored", "refused"}
            PROVE  writer'[v] = writer[v]
        BY <3>1, <4>1
      <4> QED
        BY <3>3, <4>1
    <3> QED
      BY <3>1, <3>2, <3>3
  <2>2. CASE Refuse(w)
    BY <2>2 DEF Refuse, index, garbage
  <2> QED
    BY <1>2, <2>1, <2>2
<1>3. ASSUME NEW w \in Writers, WriteFails(w) PROVE NoLeak'
  BY <1>3 DEF WriteFails, IdleWriter, index, garbage
<1>4. ASSUME NEW w \in Writers, NEW r \in Rows, CommitRow(w, r) PROVE NoLeak'
  BY <1>4 DEF CommitRow, IdleWriter, garbage
<1>5. ASSUME NEW w \in Writers, Replay(w) PROVE NoLeak'
  BY <1>5 DEF Replay, IdleWriter, index, garbage
<1>6. ASSUME NEW w \in Writers, Discard(w) \/ DiscardFails(w) PROVE NoLeak'
  <2>1. CASE Discard(w)
    BY <2>1 DEF Discard, IdleWriter, index
  <2>2. CASE DiscardFails(w)
    BY <2>2 DEF DiscardFails, IdleWriter, index, garbage
  <2> QED
    BY <1>6, <2>1, <2>2
<1>7. ASSUME NEW w \in Writers, NEW r \in Rows, ForkRead(w, r) PROVE NoLeak'
  BY <1>7 DEF ForkRead, index, garbage
<1>8. ASSUME NEW w \in Writers, NEW r \in Rows, ForkCommit(w, r) PROVE NoLeak'
  BY <1>8 DEF ForkCommit, IdleWriter
<1>9. ASSUME NEW w \in Writers, ForkFails(w) PROVE NoLeak'
  BY <1>9 DEF ForkFails, IdleWriter, index, garbage
<1>10. ASSUME NEW m \in Removers, NEW target, NEW guarded, NEW dead,
              Record(m, target, guarded, dead) \/ RemoveFails(m)
       PROVE  NoLeak'
  BY <1>10 DEF Record, RemoveFails, index, garbage
<1>11. ASSUME NEW m \in Removers, RemoveRows(m) PROVE NoLeak'
  <2>1. \A r \in Doomed(remover[m].target, remover[m].guarded) : r \in Rows
    BY DEF Doomed
  <2>2. \A r \in Rows : \/ rowKey'[r] = rowKey[r]
                        \/ rowKey[r] \in listed'
    BY <1>11, <2>1 DEF RemoveRows, RecordedCovers
  <2>3. /\ listed \subseteq listed'
        /\ UNCHANGED <<objects, orphans, writer>>
    BY <1>11 DEF RemoveRows
  <2> QED
    BY <2>2, <2>3
<1>12. ASSUME NEW s \in Sweepers, NEW k \in Keys, SweepDrop(s, k) PROVE NoLeak'
  BY <1>12 DEF SweepDrop, index
<1>13. ASSUME NEW s \in Sweepers, SweepRemove(s) PROVE NoLeak'
  BY <1>13 DEF SweepRemove, index
<1>14. ASSUME NEW s \in Sweepers, SweepFails(s) PROVE NoLeak'
  BY <1>14 DEF SweepFails, index, garbage
<1>15. ASSUME NEW s \in Sweepers,
              \/ \E k \in Keys : SweepSkip(s, k) \/ SweepTake(s, k)
              \/ SweepList(s) \/ SweepEnd(s)
       PROVE  NoLeak'
  <2>1. UNCHANGED <<objects, rowKey, listed, orphans, writer>>
    BY <1>15 DEF SweepSkip, SweepTake, SweepList, SweepEnd, index, garbage
  <2> QED
    BY <2>1
<1>16. CASE Crash
  BY <1>16 DEF Crash, garbage
<1>17. CASE Tick \/ \E r \in Rows : OpenSolve(r) \/ CloseSolve(r)
  BY <1>17 DEF Tick, OpenSolve, CloseSolve, index, garbage, procs
<1>18. ASSUME NEW m \in Removers, NEW p \in Plans, PurgeRecord(m, p) PROVE NoLeak'
  BY <1>10, <1>18 DEF PurgeRecord
<1>19. ASSUME NEW m \in Removers, NEW target \in SUBSET Rows, NEW guarded \in BOOLEAN,
              TrimRecord(m, target, guarded)
       PROVE  NoLeak'
  BY <1>10, <1>19 DEF TrimRecord
<1>20. ASSUME NEW m \in Removers, PurgeSpares(m) PROVE NoLeak'
  BY <1>20 DEF PurgeSpares
<1> HIDE DEF SerialInv, Types, NoLeak, Named
<1> QED
  BY <1>1, <1>2, <1>3, <1>4, <1>5, <1>6, <1>7, <1>8, <1>9, <1>10, <1>11, <1>12,
     <1>13, <1>14, <1>15, <1>16, <1>17, <1>18, <1>19, <1>20 DEF Next

LEMMA SerialStep ==
    ASSUME SerialWriters, SerialInv, [Next]_vars PROVE SerialInv'
<1>1. Types'
  BY TypeStep DEF SerialInv
<1>2. CASE Next
  BY <1>1, <1>2, NoLeakStep, RemovesAloneStep, RecordedCoversStep DEF SerialInv
<1>3. CASE UNCHANGED vars
  BY <1>1, <1>3, CoversFrame DEF SerialInv, NoLeak, Named, RemovesAlone, vars
<1> QED
  BY <1>2, <1>3

\* On SQLite, where a write transaction is alone, an object that lost its last
\* row always waits for the sweep (plans.Purge, trim, removeResult, PurgeResults).
THEOREM NoLeakTheorem == Spec => []NoLeakSerial
<1> DEFINE SInv == SerialWriters => SerialInv
<1>1. Init => SInv
  BY TypeInit DEF Init, SerialInv, NoLeak, RemovesAlone, RecordedCovers, IdleRemover
<1>2. SInv /\ [Next]_vars => SInv'
  <2>1. [Next]_vars => (SerialWriters' <=> SerialWriters)
    BY DEF Next, vars, SerialWriters
  <2> QED
    BY <2>1, SerialStep
<1>3. SInv => NoLeakSerial
  BY DEF SerialInv, NoLeakSerial
<1> QED
  BY <1>1, <1>2, <1>3, PTL DEF Spec
=============================================================================
