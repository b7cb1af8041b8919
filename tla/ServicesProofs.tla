--------------------------- MODULE ServicesProofs ---------------------------
(***************************************************************************)
(* Proofs about the services, for any values of their constants: what each *)
(* promises holds of every behaviour of the service by itself, and so of   *)
(* every behaviour of Services, which is one of each.                      *)
(***************************************************************************)
EXTENDS Services, FiniteSetTheorems, SequenceTheorems, TLAPS

-----------------------------------------------------------------------------
(* Results. *)

ResultRecord == [created : Nat, by : R!Senders, pinned : BOOLEAN, trashed : BOOLEAN]
WorkRecord ==
    [pc : {"idle", "read", "open", "adding", "closing"}, source : Nat, sure : BOOLEAN, id : Nat,
     created : Nat, outcome : {"none", "lost", "kept", "refused", "failed"}]

ResultsType ==
    /\ cap \in ServerCaps
    /\ R!ResultIds \subseteq Nat
    /\ results \in [R!ResultIds -> ResultRecord]
    /\ drawn \in Nat
    /\ work \in [R!Senders -> WorkRecord]
    /\ adding \in [by : R!Senders \cup {"nobody"}, doomed : SUBSET Nat]

\* A result is as old as its number at least, and numbered so far.
Dated == \A id \in R!ResultIds : results[id].created <= id /\ id <= drawn

\* What is being added has a number of its own, and a solve's dates from when it
\* was drawn.
Numbered ==
    \A s \in R!Senders : R!At(s, "adding") =>
        /\ work[s].created <= work[s].id /\ work[s].id <= drawn
        /\ s \in Solves => work[s].created = work[s].id
        /\ work[s].id \notin R!ResultIds
        /\ \A o \in R!Senders : o # s /\ R!At(o, "adding") => work[o].id # work[s].id

\* A solve loses its timetable to the cap only where another result was made
\* since, and with one writer never to a source that went.
SolveOK(j) ==
    /\ work[j].pc \in {"read", "open", "adding"} => work[j].outcome = "none"
    /\ work[j].outcome = "refused" => work[j].id < drawn
    /\ engine = "sqlite" /\ work[j].sure =>
          /\ work[j].pc \in {"open", "adding", "closing"} /\ work[j].outcome # "lost"
          /\ work[j].source \in R!ResultIds \cup {R!Version}

\* The transaction under way is of one who adds; with one writer what it dooms is
\* neither pinned nor in Trash nor read by a solve, until it commits.
AddingOK ==
    /\ adding.by = "nobody" => adding = R!NoTransaction
    /\ adding.by # "nobody" =>
          /\ R!At(adding.by, "adding")
          /\ adding.by \in Solves /\ work[adding.by].id \in adding.doomed =>
                work[adding.by].id < drawn
          /\ engine = "sqlite" =>
                /\ adding.doomed \cap R!solvingResults = {}
                /\ \A id \in adding.doomed \cap R!ResultIds : ~results[id].pinned /\ ~results[id].trashed

ResultsInv ==
    /\ ResultsType
    /\ Dated
    /\ Numbered
    /\ \A j \in Solves : SolveOK(j)
    /\ AddingOK
LEMMA ResultsFacts ==
    ASSUME ResultsType
    PROVE  /\ \A s \in R!Senders : work[s] \in WorkRecord
           /\ \A id \in R!ResultIds : id \in Nat /\ results[id] \in ResultRecord
           /\ R!Idle \in WorkRecord /\ R!Idle.pc = "idle"
           /\ Solves \subseteq R!Senders /\ Uploads \subseteq R!Senders
           /\ R!NoTransaction \in [by : R!Senders \cup {"nobody"}, doomed : SUBSET Nat]
           /\ R!NoTransaction.by = "nobody" /\ R!NoTransaction.doomed = {}
BY DEF ResultsType, R!Idle, R!Version, WorkRecord, R!Senders, R!NoTransaction

\* What a sender's step may do to the sender.
Settled(s, outcome) ==
    IF s \in Solves THEN [work[s] EXCEPT !.outcome = outcome, !.pc = "closing"] ELSE R!Idle

LEMMA SettleFacts ==
    ASSUME ResultsType, NEW s \in R!Senders, NEW outcome \in {"none", "lost", "kept", "refused", "failed"}
    PROVE  /\ Settled(s, outcome) \in WorkRecord
           /\ R!Settle(s, outcome) => work' = [work EXCEPT ![s] = Settled(s, outcome)]
           /\ s \in Solves =>
                 /\ Settled(s, outcome).pc = "closing" /\ Settled(s, outcome).outcome = outcome
                 /\ Settled(s, outcome).source = work[s].source /\ Settled(s, outcome).sure = work[s].sure
                 /\ Settled(s, outcome).id = work[s].id
           /\ s \notin Solves => Settled(s, outcome) = R!Idle
<1>1. work[s] \in WorkRecord /\ R!Idle \in WorkRecord
  BY ResultsFacts
<1> QED
  BY <1>1 DEF Settled, R!Settle, WorkRecord

\* The steps that only move a solve along, or give its work up.
Along(j, new) ==
    /\ work' = [work EXCEPT ![j] = new]
    /\ UNCHANGED <<engine, results, cap, drawn, adding>>
    /\ new \in WorkRecord /\ work[j].pc # "adding"
    /\ \/ new = R!Idle
       \/ new.pc = "read" /\ ~new.sure /\ new.outcome = "none"
       \/ /\ new.pc = "open" /\ new.outcome = "none" /\ R!Writable
          /\ new.sure => new.source \in R!ResultIds \cup {R!Version}
       \/ /\ new.pc = "closing" /\ work[j].pc = "open" /\ new.source = work[j].source
          /\ new.sure = work[j].sure
          /\ \/ new.outcome = "none"
             \/ new.outcome = "lost" /\ new.source \notin R!ResultIds \cup {R!Version}

\* The steps that draw a number for what is about to be added.
Drawn(s, new) ==
    /\ work' = [work EXCEPT ![s] = new] /\ drawn' = drawn + 1
    /\ UNCHANGED <<engine, results, cap, adding>>
    /\ new \in WorkRecord /\ new.pc = "adding" /\ work[s].pc # "adding"
    /\ new.id = drawn + 1 /\ new.created <= new.id /\ new.outcome = "none"
    /\ s \in Solves =>
          /\ new.created = new.id /\ work[s].pc = "open" /\ new.source = work[s].source
          /\ new.sure = work[s].sure

\* The steps that end an addition and store nothing.
Ended(s, new) ==
    /\ work' = [work EXCEPT ![s] = new] /\ work[s].pc = "adding"
    /\ UNCHANGED <<engine, results, cap, drawn>>
    /\ new \in WorkRecord
    /\ adding' = R!NoTransaction \/ (adding' = adding /\ adding.by # s)
    /\ s \notin Solves => new = R!Idle
    /\ s \in Solves =>
          /\ new.pc = "closing" /\ new.source = work[s].source /\ new.sure = work[s].sure
          /\ new.outcome \in {"kept", "refused", "failed"} /\ new.id = work[s].id
          /\ new.outcome = "refused" => adding.by = s /\ work[s].id \in adding.doomed

\* The step that stores one.
Committed(s, new) ==
    /\ R!CommitResult(s) /\ work[s].id \notin adding.doomed
    /\ work' = [work EXCEPT ![s] = new] /\ new = Settled(s, "kept")

\* The changes of a result, of the cap and the purge.
Changed ==
    /\ UNCHANGED <<engine, drawn, work, adding>> /\ R!Writable
    /\ \/ \E id \in R!ResultIds, new \in ResultRecord :
             new.created = results[id].created /\ results' = [results EXCEPT ![id] = new] /\ cap' = cap
       \/ \E due \in SUBSET (R!ResultIds \ R!Live) :
             R!PurgeResults(due) /\ results' = [id \in R!ResultIds \ (due \ R!solvingResults) |-> results[id]]
       \/ results' = results /\ cap' \in ServerCaps

LEMMA ResultsSteps ==
    ASSUME ResultsInv, SendersApart, MaxResults \in Nat, R!Next
    PROVE  \/ \E j \in Solves, new \in WorkRecord : Along(j, new)
           \/ \E s \in R!Senders, new \in WorkRecord : Drawn(s, new) \/ Ended(s, new) \/ Committed(s, new)
           \/ \E s \in R!Senders : R!InsertResult(s)
           \/ Changed
           \/ R!Crash
<1>0. ResultsType /\ R!Idle \in WorkRecord /\ Solves \subseteq R!Senders /\ Uploads \subseteq R!Senders
      /\ \A s \in R!Senders : work[s] \in WorkRecord
  BY ResultsFacts DEF ResultsInv
<1>1. ASSUME NEW j \in Solves, NEW source \in R!Live \cup {R!Version}, R!CreateJob(j, source)
      PROVE  \E new \in WorkRecord : Along(j, new)
  <2> DEFINE new == [R!Idle EXCEPT !.pc = "read", !.source = source]
  <2>1. source \in Nat
    BY <1>0 DEF R!Live, R!Version, ResultsType
  <2>2. new \in WorkRecord /\ new.pc = "read" /\ ~new.sure /\ new.outcome = "none"
    BY <2>1 DEF R!Idle, WorkRecord
  <2>3. Along(j, new)
    BY <1>1, <2>2 DEF R!CreateJob, R!At, Along
  <2> QED
    BY <2>2, <2>3
<1>2. ASSUME NEW j \in Solves, R!Refuse(j) \/ R!Finish(j)
      PROVE  Along(j, R!Idle)
  BY <1>0, <1>2 DEF R!Refuse, R!Finish, R!At, Along
<1>3. ASSUME NEW j \in Solves, R!Create(j)
      PROVE  \E new \in WorkRecord : Along(j, new)
  <2> DEFINE there == work[j].source \in R!ResultIds \cup {R!Version}
             new == [work[j] EXCEPT !.pc = "open", !.sure = there]
  <2>1. work[j] \in WorkRecord /\ work[j].pc = "read" /\ work[j].outcome = "none"
    BY <1>0, <1>3 DEF R!Create, R!At, ResultsInv, SolveOK
  <2>2. /\ new \in WorkRecord /\ new.pc = "open" /\ new.outcome = "none"
        /\ new.source = work[j].source
    <3>1. there \in BOOLEAN
      OBVIOUS
    <3> HIDE DEF there
    <3> QED
      BY <2>1, <3>1 DEF WorkRecord
  <2>3. new.sure => work[j].source \in R!ResultIds \cup {R!Version}
    <3>1. CASE ~there
      <4>1. new.sure = there
        <5> HIDE DEF there
        <5> QED
          BY <2>1 DEF WorkRecord
      <4> QED
        BY <3>1, <4>1
    <3> QED
      BY <3>1
  <2>4. work' = [work EXCEPT ![j] = new]
    BY <1>0, <1>3 DEF R!Create, ResultsType
  <2>5. Along(j, new)
    <3> HIDE DEF new
    <3> QED
      BY <1>3, <2>1, <2>2, <2>3, <2>4 DEF R!Create, Along
  <2> QED
    BY <2>2, <2>5
<1>4. ASSUME NEW j \in Solves, R!Persist(j)
      PROVE  \E new \in WorkRecord : Along(j, new) \/ Drawn(j, new)
  <2>1. work[j] \in WorkRecord /\ work[j].pc = "open" /\ work[j].outcome = "none" /\ drawn \in Nat
    BY <1>0, <1>4 DEF R!Persist, R!At, ResultsInv, SolveOK, ResultsType
  <2>2. CASE /\ work[j].source \in R!ResultIds \cup {R!Version} /\ drawn' = drawn + 1
             /\ work' = [work EXCEPT ![j].pc = "adding", ![j].id = drawn', ![j].created = drawn']
    <3> DEFINE next == drawn + 1
               new == [work[j] EXCEPT !.pc = "adding", !.id = next, !.created = next]
    <3>0. next \in Nat /\ next <= next
      BY <2>1
    <3>1. /\ new \in WorkRecord /\ new.pc = "adding" /\ new.outcome = "none" /\ new.id = next
          /\ new.created = next /\ new.source = work[j].source /\ new.sure = work[j].sure
      <4> HIDE DEF next
      <4> QED
        BY <2>1, <3>0 DEF WorkRecord
    <3>2. work' = [work EXCEPT ![j] = new]
      BY <1>0, <2>2 DEF ResultsType
    <3>3. Drawn(j, new)
      <4>1. UNCHANGED <<engine, results, cap, adding>> /\ drawn' = next
        BY <1>4, <2>2 DEF R!Persist
      <4> HIDE DEF new
      <4> QED
        BY <2>1, <3>0, <3>1, <3>2, <4>1 DEF Drawn
    <3> QED
      BY <3>1, <3>3
  <2>3. CASE work[j].source \notin R!ResultIds \cup {R!Version} /\ R!Settle(j, "lost") /\ UNCHANGED drawn
    <3>1. Along(j, Settled(j, "lost"))
      BY <1>0, <1>4, <2>1, <2>3, SettleFacts DEF R!Persist, Along
    <3> QED
      BY <1>0, <3>1, SettleFacts
  <2> QED
    BY <1>4, <2>2, <2>3 DEF R!Persist
<1>5. ASSUME NEW j \in Solves, R!NoSchedule(j)
      PROVE  \E new \in WorkRecord : Along(j, new)
  <2>1. Along(j, Settled(j, "none"))
    BY <1>0, <1>5, SettleFacts DEF R!NoSchedule, R!At, Along
  <2> QED
    BY <1>0, <2>1, SettleFacts
<1>6. ASSUME NEW u \in Uploads, NEW solved \in {0, MaxResults}, R!UploadResult(u, solved)
      PROVE  \E new \in WorkRecord : Drawn(u, new)
  <2> DEFINE created == IF solved < drawn + 1 THEN solved ELSE drawn + 1
             new == [R!Idle EXCEPT !.pc = "adding", !.id = drawn + 1, !.created = created]
  <2>1. drawn + 1 \in Nat /\ created \in Nat /\ created <= drawn + 1
    BY <1>0 DEF ResultsType
  <2>2. /\ new \in WorkRecord /\ new.pc = "adding" /\ new.outcome = "none" /\ new.id = drawn + 1
        /\ new.created = created
    <3> HIDE DEF created
    <3> QED
      BY <1>0, <2>1 DEF R!Idle, WorkRecord
  <2>3. work' = [work EXCEPT ![u] = new] /\ drawn' = drawn + 1
    BY <1>6 DEF R!UploadResult
  <2>4. u \notin Solves
    BY DEF SendersApart
  <2>5. Drawn(u, new)
    <3> HIDE DEF new, created
    <3> QED
      BY <1>6, <2>1, <2>2, <2>3, <2>4 DEF R!UploadResult, R!At, Drawn
  <2> QED
    BY <2>2, <2>5
<1>7. ASSUME NEW s \in R!Senders, R!CommitResult(s)
      PROVE  \E new \in WorkRecord : Ended(s, new) \/ Committed(s, new)
  <2>1. R!At(s, "adding")
    BY <1>7 DEF R!CommitResult, ResultsInv, AddingOK, SendersApart, R!Senders
  <2>2. CASE work[s].id \in adding.doomed /\ R!Settle(s, "refused") /\ UNCHANGED results
    <3>1. Ended(s, Settled(s, "refused"))
      BY <1>0, <1>7, <2>1, <2>2, SettleFacts DEF R!CommitResult, R!At, Ended
    <3> QED
      BY <1>0, <3>1, SettleFacts
  <2>3. CASE work[s].id \notin adding.doomed /\ R!Settle(s, "kept")
    <3>1. Committed(s, Settled(s, "kept"))
      BY <1>0, <1>7, <2>3, SettleFacts DEF Committed
    <3> QED
      BY <1>0, <3>1, SettleFacts
  <2> QED
    BY <1>7, <2>2, <2>3 DEF R!CommitResult
<1>8. ASSUME NEW s \in R!Senders, R!ReplayResult(s) \/ R!AddFails(s)
      PROVE  \E new \in WorkRecord : Ended(s, new)
  <2>1. CASE R!ReplayResult(s)
    <3>1. Ended(s, Settled(s, "kept"))
      BY <1>0, <2>1, SettleFacts DEF R!ReplayResult, R!At, Ended
    <3> QED
      BY <1>0, <3>1, SettleFacts
  <2>2. CASE R!AddFails(s)
    <3>1. Ended(s, Settled(s, "failed"))
      BY <1>0, <2>2, SettleFacts DEF R!AddFails, R!At, Ended
    <3> QED
      BY <1>0, <3>1, SettleFacts
  <2> QED
    BY <1>8, <2>1, <2>2
<1>9. ASSUME NEW id \in R!ResultIds, R!UpdateResult(id) \/ R!TrashResult(id) \/ R!RestoreResult(id)
      PROVE  Changed
  <2>1. results[id] \in ResultRecord
    BY <1>0, ResultsFacts
  <2>2. \E new \in ResultRecord :
           new.created = results[id].created /\ results' = [results EXCEPT ![id] = new]
    <3>1. CASE R!UpdateResult(id)
      <4> DEFINE new == [results[id] EXCEPT !.pinned = ~results[id].pinned]
      <4>1. new \in ResultRecord /\ new.created = results[id].created
        BY <2>1 DEF ResultRecord
      <4>2. results' = [results EXCEPT ![id] = new]
        BY <1>0, <3>1 DEF R!UpdateResult, ResultsType
      <4> QED
        BY <4>1, <4>2
    <3>2. CASE R!TrashResult(id)
      <4> DEFINE new == [results[id] EXCEPT !.trashed = TRUE]
      <4>1. new \in ResultRecord /\ new.created = results[id].created
        BY <2>1 DEF ResultRecord
      <4>2. results' = [results EXCEPT ![id] = new]
        BY <1>0, <3>2 DEF R!TrashResult, ResultsType
      <4> QED
        BY <4>1, <4>2
    <3>3. CASE R!RestoreResult(id)
      <4> DEFINE new == [results[id] EXCEPT !.trashed = FALSE]
      <4>1. new \in ResultRecord /\ new.created = results[id].created
        BY <2>1 DEF ResultRecord
      <4>2. results' = [results EXCEPT ![id] = new]
        BY <1>0, <3>3 DEF R!RestoreResult, ResultsType
      <4> QED
        BY <4>1, <4>2
    <3> QED
      BY <1>9, <3>1, <3>2, <3>3
  <2> QED
    BY <1>9, <2>2 DEF R!UpdateResult, R!TrashResult, R!RestoreResult, R!Change, Changed
<1>10. ASSUME NEW due \in SUBSET (R!ResultIds \ R!Live), R!PurgeResults(due)
       PROVE  Changed
  BY <1>10 DEF R!PurgeResults, R!Purged, Changed
<1>11. ASSUME NEW keep \in ServerCaps, R!SetCaps(keep)
       PROVE  Changed
  BY <1>11 DEF R!SetCaps, R!Change, Changed
<1> QED
  BY <1>0, <1>1, <1>2, <1>3, <1>4, <1>5, <1>6, <1>7, <1>8, <1>9, <1>10, <1>11 DEF R!Next
\* What a step stores and drops.
LEMMA CommitFacts ==
    ASSUME ResultsInv, SendersApart, NEW s \in R!Senders, NEW new, Committed(s, new)
    PROVE  /\ R!At(s, "adding") /\ adding.by = s /\ adding' = R!NoTransaction
           /\ UNCHANGED <<engine, cap, drawn>>
           /\ DOMAIN results' = (R!ResultIds \cup {work[s].id}) \ adding.doomed
           /\ \A id \in R!ResultIds \ adding.doomed : results'[id] = results[id]
           /\ results' = [id \in DOMAIN results' |-> results'[id]]
           /\ results'[work[s].id] =
                 [created |-> work[s].created, by |-> s, pinned |-> FALSE, trashed |-> FALSE]
<1>1. R!At(s, "adding") /\ adding.by = s /\ work[s].id \notin R!ResultIds /\ work[s].id \notin adding.doomed
  BY DEF Committed, R!CommitResult, ResultsInv, AddingOK, Numbered, SendersApart, R!Senders
<1>2. /\ adding' = R!NoTransaction /\ UNCHANGED <<engine, cap, drawn>>
      /\ results' = [id \in DOMAIN R!Added(s) \ adding.doomed |-> R!Added(s)[id]]
  BY <1>1 DEF Committed, R!CommitResult
<1>3. DOMAIN R!Added(s) = R!ResultIds \cup {work[s].id}
  BY DEF R!Added
<1>4. /\ \A id \in R!ResultIds : R!Added(s)[id] = results[id]
      /\ R!Added(s)[work[s].id] =
            [created |-> work[s].created, by |-> s, pinned |-> FALSE, trashed |-> FALSE]
  BY <1>1 DEF R!Added
<1> QED
  BY <1>1, <1>2, <1>3, <1>4

LEMMA PurgeFacts ==
    ASSUME NEW due, results' = [id \in R!ResultIds \ (due \ R!solvingResults) |-> results[id]]
    PROVE  /\ DOMAIN results' = R!ResultIds \ (due \ R!solvingResults)
           /\ \A id \in DOMAIN results' : results'[id] = results[id]
           /\ results' = [id \in DOMAIN results' |-> results'[id]]
OBVIOUS

LEMMA ResultsTypeStep ==
    ASSUME ResultsInv, SendersApart, MaxResults \in Nat, [R!Next]_(R!vars)
    PROVE  ResultsType'
<1>1. ResultsType /\ Numbered
  BY DEF ResultsInv
<1>2. CASE UNCHANGED R!vars
  BY <1>1, <1>2 DEF R!vars, ResultsType, R!ResultIds
<1>3. ASSUME NEW j \in Solves, NEW new \in WorkRecord, Along(j, new) PROVE ResultsType'
  BY <1>1, <1>3 DEF Along, ResultsType, R!ResultIds, R!Senders
<1>4. ASSUME NEW s \in R!Senders, NEW new \in WorkRecord, Drawn(s, new) PROVE ResultsType'
  BY <1>1, <1>4 DEF Drawn, ResultsType, R!ResultIds
<1>5. ASSUME NEW s \in R!Senders, NEW new \in WorkRecord, Ended(s, new) PROVE ResultsType'
  <2>1. adding' \in [by : R!Senders \cup {"nobody"}, doomed : SUBSET Nat]
    BY <1>1, <1>5, ResultsFacts DEF Ended, ResultsType
  <2> QED
    BY <1>1, <1>5, <2>1 DEF Ended, ResultsType, R!ResultIds
<1>6. ASSUME NEW s \in R!Senders, NEW new \in WorkRecord, Committed(s, new) PROVE ResultsType'
  <2>1. work' \in [R!Senders -> WorkRecord]
    BY <1>1, <1>6 DEF Committed, ResultsType
  <2>2. adding' \in [by : R!Senders \cup {"nobody"}, doomed : SUBSET Nat]
    BY <1>1, <1>6, ResultsFacts, CommitFacts
  <2>3. work[s].id \in Nat /\ work[s].created \in Nat
    BY <1>1, ResultsFacts DEF WorkRecord
  <2>4. [created |-> work[s].created, by |-> s, pinned |-> FALSE, trashed |-> FALSE] \in ResultRecord
    BY <2>3 DEF ResultRecord
  <2>5. /\ DOMAIN results' = (R!ResultIds \cup {work[s].id}) \ adding.doomed
        /\ \A id \in R!ResultIds \ adding.doomed : results'[id] = results[id]
        /\ results' = [id \in DOMAIN results' |-> results'[id]]
        /\ results'[work[s].id] =
              [created |-> work[s].created, by |-> s, pinned |-> FALSE, trashed |-> FALSE]
        /\ UNCHANGED <<cap, drawn>>
    BY <1>6, CommitFacts
  <2>6. R!ResultIds' \subseteq Nat /\ \A id \in R!ResultIds' : results'[id] \in ResultRecord
    BY <1>1, <2>3, <2>4, <2>5 DEF ResultsType, R!ResultIds
  <2> QED
    BY <1>1, <2>1, <2>2, <2>5, <2>6 DEF ResultsType, R!ResultIds
<1>7. ASSUME NEW s \in R!Senders, R!InsertResult(s) PROVE ResultsType'
  <2>1. /\ adding' = [by |-> s, doomed |-> R!trimResults(R!Added(s))]
        /\ UNCHANGED <<engine, results, cap, drawn, work>>
    BY <1>7 DEF R!InsertResult
  <2>2. R!trimResults(R!Added(s)) \subseteq R!ResultIds \cup {work[s].id}
    BY DEF R!trimResults, R!Counted, R!Added
  <2>3. work[s].id \in Nat
    BY <1>1, ResultsFacts DEF WorkRecord
  <2>4. adding' \in [by : R!Senders \cup {"nobody"}, doomed : SUBSET Nat]
    BY <1>1, <2>1, <2>2, <2>3 DEF ResultsType
  <2> QED
    BY <1>1, <2>1, <2>4 DEF ResultsType, R!ResultIds
<1>8. CASE Changed
  <2>1. CASE results' = results /\ cap' \in ServerCaps
    BY <1>1, <1>8, <2>1 DEF Changed, ResultsType, R!ResultIds
  <2>2. ASSUME NEW id \in R!ResultIds, NEW new \in ResultRecord,
               results' = [results EXCEPT ![id] = new], cap' = cap
        PROVE  ResultsType'
    BY <1>1, <1>8, <2>2 DEF Changed, ResultsType, R!ResultIds
  <2>3. ASSUME NEW due, R!PurgeResults(due),
               results' = [id \in R!ResultIds \ (due \ R!solvingResults) |-> results[id]]
        PROVE  ResultsType'
    <3>1. R!ResultIds' \subseteq R!ResultIds /\ results' \in [R!ResultIds' -> ResultRecord]
      BY <1>1, <2>3 DEF ResultsType, R!ResultIds
    <3> QED
      BY <1>1, <1>8, <2>3, <3>1 DEF Changed, ResultsType, R!PurgeResults
  <2> QED
    BY <1>8, <2>1, <2>2, <2>3 DEF Changed
<1>9. CASE R!Crash
  <2>1. /\ work' \in [R!Senders -> WorkRecord]
        /\ adding' \in [by : R!Senders \cup {"nobody"}, doomed : SUBSET Nat]
    BY <1>1, <1>9, ResultsFacts DEF R!Crash
  <2> QED
    BY <1>1, <1>9, <2>1 DEF R!Crash, ResultsType, R!ResultIds
<1> QED
  BY <1>2, <1>3, <1>4, <1>5, <1>6, <1>7, <1>8, <1>9, ResultsSteps

LEMMA DatedStep ==
    ASSUME ResultsInv, SendersApart, MaxResults \in Nat, [R!Next]_(R!vars)
    PROVE  Dated'
<1>1. ResultsType /\ Numbered /\ Dated /\ drawn \in Nat
  BY DEF ResultsInv, ResultsType
<1>2. CASE results' = results /\ (drawn' = drawn \/ drawn' = drawn + 1)
  BY <1>1, <1>2 DEF Dated, ResultsType, R!ResultIds
<1>3. ASSUME NEW s \in R!Senders, NEW new \in WorkRecord, Committed(s, new) PROVE Dated'
  <2>1. /\ DOMAIN results' = (R!ResultIds \cup {work[s].id}) \ adding.doomed
        /\ \A id \in R!ResultIds \ adding.doomed : results'[id] = results[id]
        /\ results'[work[s].id].created = work[s].created
        /\ drawn' = drawn /\ R!At(s, "adding")
    <3>1. results'[work[s].id] =
             [created |-> work[s].created, by |-> s, pinned |-> FALSE, trashed |-> FALSE]
      BY <1>3, CommitFacts
    <3>2. results'[work[s].id].created = work[s].created
      BY <3>1
    <3> QED
      BY <1>3, <3>2, CommitFacts
  <2> QED
    BY <1>1, <2>1 DEF Dated, Numbered, R!ResultIds
<1>4. CASE Changed
  <2>1. ASSUME NEW id \in R!ResultIds, NEW new \in ResultRecord, new.created = results[id].created,
               results' = [results EXCEPT ![id] = new]
        PROVE  Dated'
    BY <1>1, <1>4, <2>1 DEF Changed, Dated, R!ResultIds
  <2>2. ASSUME NEW due, results' = [id \in R!ResultIds \ (due \ R!solvingResults) |-> results[id]]
        PROVE  Dated'
    BY <1>1, <1>4, <2>2, PurgeFacts DEF Changed, Dated, R!ResultIds
  <2>3. CASE results' = results
    BY <1>2, <1>4, <2>3 DEF Changed
  <2> QED
    BY <1>4, <2>1, <2>2, <2>3 DEF Changed
<1> QED
  BY <1>2, <1>3, <1>4, ResultsSteps DEF R!vars, Along, Drawn, Ended, R!InsertResult, R!Crash

LEMMA NumberedStep ==
    ASSUME ResultsInv, SendersApart, MaxResults \in Nat, [R!Next]_(R!vars)
    PROVE  Numbered'
<1>1. /\ ResultsType /\ Numbered /\ Dated /\ drawn \in Nat
      /\ \A s \in R!Senders : work[s] \in WorkRecord
  BY ResultsFacts DEF ResultsInv, ResultsType
<1>2. ASSUME \A s \in R!Senders : work'[s] = work[s] \/ work'[s].pc # "adding",
             \A id \in R!ResultIds' : id \in R!ResultIds, drawn' = drawn
      PROVE  Numbered'
  BY <1>1, <1>2 DEF Numbered, R!At
<1>3. ASSUME NEW s \in R!Senders, NEW new \in WorkRecord, work' = [work EXCEPT ![s] = new]
      PROVE  work'[s] = new /\ \A o \in R!Senders \ {s} : work'[o] = work[o]
  BY <1>1, <1>3 DEF ResultsType
<1>4. ASSUME NEW j \in Solves, NEW new \in WorkRecord, Along(j, new) PROVE Numbered'
  <2>1. j \in R!Senders /\ new.pc # "adding" /\ drawn' = drawn /\ R!ResultIds' = R!ResultIds
    BY <1>1, <1>4, ResultsFacts DEF Along, R!ResultIds
  <2> QED
    BY <1>2, <1>3, <1>4, <2>1 DEF Along
<1>5. ASSUME NEW s \in R!Senders, NEW new \in WorkRecord, Drawn(s, new) PROVE Numbered'
  <2>1. /\ work'[s] = new /\ \A o \in R!Senders \ {s} : work'[o] = work[o]
        /\ drawn' = drawn + 1 /\ R!ResultIds' = R!ResultIds /\ new.id = drawn + 1 /\ new.created <= new.id
        /\ s \in Solves => new.created = new.id
    BY <1>3, <1>5 DEF Drawn, R!ResultIds
  <2>2. ASSUME NEW o \in R!Senders, R!At(o, "adding")', o # s
        PROVE  /\ work'[o] = work[o] /\ R!At(o, "adding") /\ work'[o].id # new.id
               /\ work'[o].id <= drawn' /\ work[o].id <= drawn
    <3>1. work'[o] = work[o] /\ R!At(o, "adding") /\ work[o].id <= drawn /\ work[o].id \in Nat
      BY <1>1, <2>1, <2>2 DEF R!At, Numbered, WorkRecord
    <3> QED
      BY <1>1, <2>1, <3>1
  <2>3. new.id \notin R!ResultIds'
    BY <1>1, <2>1 DEF Dated, ResultsType
  <2>4. new.id <= drawn'
    BY <1>1, <2>1
  <2> QED
    BY <1>1, <2>1, <2>2, <2>3, <2>4 DEF Numbered
<1>6. ASSUME NEW s \in R!Senders, NEW new \in WorkRecord, Ended(s, new) PROVE Numbered'
  <2>1. new.pc # "adding" /\ drawn' = drawn /\ R!ResultIds' = R!ResultIds
    BY <1>1, <1>6, ResultsFacts DEF Ended, R!ResultIds
  <2> QED
    BY <1>2, <1>3, <1>6, <2>1 DEF Ended
<1>7. ASSUME NEW s \in R!Senders, NEW new \in WorkRecord, Committed(s, new) PROVE Numbered'
  <2>1. /\ DOMAIN results' \subseteq R!ResultIds \cup {work[s].id} /\ drawn' = drawn /\ R!At(s, "adding")
    BY <1>7, CommitFacts
  <2>2. work'[s].pc # "adding" /\ \A o \in R!Senders \ {s} : work'[o] = work[o]
    <3>1. new.pc # "adding"
      BY <1>1, <1>7, ResultsFacts, SettleFacts DEF Committed
    <3> QED
      BY <1>3, <1>7, <3>1 DEF Committed
  <2>3. ASSUME NEW o \in R!Senders, R!At(o, "adding")'
        PROVE  o # s /\ R!At(o, "adding") /\ work'[o] = work[o] /\ work[o].id # work[s].id
    BY <1>1, <2>1, <2>2, <2>3 DEF R!At, Numbered
  <2> QED
    BY <1>1, <2>1, <2>3 DEF Numbered, R!ResultIds
<1>8. CASE UNCHANGED work /\ drawn' = drawn /\ R!ResultIds' = R!ResultIds
  BY <1>2, <1>8
<1>9. CASE Changed
  <2>1. \A id \in R!ResultIds' : id \in R!ResultIds
    BY <1>9 DEF Changed, R!ResultIds
  <2> QED
    BY <1>2, <1>9, <2>1 DEF Changed
<1>10. CASE R!Crash
  <2>1. \A s \in R!Senders : work'[s].pc # "adding"
    BY <1>1, <1>10, ResultsFacts DEF R!Crash
  <2> QED
    BY <1>2, <1>10, <2>1 DEF R!Crash, R!ResultIds
<1> QED
  BY <1>4, <1>5, <1>6, <1>7, <1>8, <1>9, <1>10, ResultsSteps DEF R!vars, R!InsertResult, R!ResultIds
LEMMA SolveStep ==
    ASSUME ResultsInv, SendersApart, MaxResults \in Nat, [R!Next]_(R!vars), NEW o \in Solves
    PROVE  SolveOK(o)'
<1>1. /\ ResultsType /\ SolveOK(o) /\ drawn \in Nat /\ o \in R!Senders /\ AddingOK
      /\ \A s \in R!Senders : work[s] \in WorkRecord
  BY ResultsFacts DEF ResultsInv, ResultsType
\* A source that is read stays.
<1>2. ASSUME R!At(o, "open") \/ R!At(o, "adding") \/ R!At(o, "closing"), engine = "sqlite"
      PROVE  work[o].source \in R!ResultIds \cup {R!Version} => work[o].source \in R!ResultIds' \cup {R!Version}
  <2>1. work[o].source \in R!solvingResults
    BY <1>2 DEF R!solvingResults
  <2>2. ASSUME NEW s \in R!Senders, NEW new, Committed(s, new), work[o].source \in R!ResultIds
        PROVE  work[o].source \in R!ResultIds'
    <3>1. work[o].source \notin adding.doomed
      BY <1>1, <1>2, <2>1, <2>2, CommitFacts DEF AddingOK, SendersApart, R!Senders
    <3>2. DOMAIN results' = (R!ResultIds \cup {work[s].id}) \ adding.doomed
      BY <2>2, CommitFacts
    <3> QED
      BY <2>2, <3>1, <3>2 DEF R!ResultIds
  <2>3. CASE Changed
    <3>1. work[o].source \in R!ResultIds => work[o].source \in R!ResultIds'
      BY <2>1, <2>3 DEF Changed, R!ResultIds
    <3> QED
      BY <3>1
  <2>4. CASE results' = results
    BY <2>4 DEF R!ResultIds
  <2> QED
    BY <2>2, <2>3, <2>4, ResultsSteps DEF R!vars, Along, Drawn, Ended, R!InsertResult, R!Crash
<1>3. ASSUME work'[o] = work[o], engine' = engine, drawn' = drawn \/ drawn' = drawn + 1
      PROVE  SolveOK(o)'
  <2>1. work[o].id < drawn => work[o].id < drawn'
    BY <1>1, <1>3 DEF WorkRecord
  <2>2. R!Version' = R!Version
    BY DEF R!Version
  <2> QED
    BY <1>1, <1>2, <1>3, <2>1, <2>2 DEF SolveOK, R!At
<1>4. ASSUME NEW s \in R!Senders, NEW new \in WorkRecord, work' = [work EXCEPT ![s] = new]
      PROVE  work'[s] = new /\ \A t \in R!Senders \ {s} : work'[t] = work[t]
  BY <1>1, <1>4 DEF ResultsType
<1>5. R!Idle.pc = "idle" /\ ~R!Idle.sure /\ R!Idle.outcome = "none"
  BY DEF R!Idle
<1>6. ASSUME NEW j \in Solves, NEW new \in WorkRecord, Along(j, new) PROVE SolveOK(o)'
  <2>1. j \in R!Senders /\ engine' = engine /\ drawn' = drawn /\ R!ResultIds' = R!ResultIds /\ R!Version' = R!Version
    BY <1>1, <1>6, ResultsFacts DEF Along, R!ResultIds, R!Version
  <2>2. work'[j] = new /\ \A t \in R!Senders \ {j} : work'[t] = work[t]
    BY <1>4, <1>6, <2>1 DEF Along
  <2>3. CASE j = o
    <3>1. CASE new = R!Idle
      BY <1>5, <2>2, <2>3, <3>1 DEF SolveOK
    <3>2. CASE new.pc = "read" /\ ~new.sure /\ new.outcome = "none"
      BY <2>2, <2>3, <3>2 DEF SolveOK
    <3>3. CASE /\ new.pc = "open" /\ new.outcome = "none"
               /\ new.sure => new.source \in R!ResultIds \cup {R!Version}
      BY <2>1, <2>2, <2>3, <3>3 DEF SolveOK
    <3>4. CASE /\ new.pc = "closing" /\ work[j].pc = "open" /\ new.source = work[j].source
               /\ new.sure = work[j].sure
               /\ \/ new.outcome = "none"
                  \/ new.outcome = "lost" /\ new.source \notin R!ResultIds \cup {R!Version}
      BY <1>1, <2>1, <2>2, <2>3, <3>4 DEF SolveOK
    <3> QED
      BY <1>6, <3>1, <3>2, <3>3, <3>4 DEF Along
  <2>4. CASE j # o
    BY <1>1, <1>3, <2>1, <2>2, <2>4
  <2> QED
    BY <2>3, <2>4
<1>7. ASSUME NEW s \in R!Senders, NEW new \in WorkRecord, Drawn(s, new) PROVE SolveOK(o)'
  <2>1. /\ work'[s] = new /\ \A t \in R!Senders \ {s} : work'[t] = work[t]
        /\ drawn' = drawn + 1 /\ engine' = engine /\ R!ResultIds' = R!ResultIds /\ R!Version' = R!Version
    BY <1>4, <1>7 DEF Drawn, R!ResultIds, R!Version
  <2>2. CASE s = o
    <3>1. /\ new.pc = "adding" /\ new.outcome = "none" /\ work[o].pc = "open"
          /\ new.source = work[o].source /\ new.sure = work[o].sure
      BY <1>7, <2>2 DEF Drawn
    <3> QED
      BY <1>1, <2>1, <2>2, <3>1 DEF SolveOK
  <2>3. CASE s # o
    BY <1>1, <1>3, <2>1, <2>3
  <2> QED
    BY <2>2, <2>3
<1>8. ASSUME NEW s \in R!Senders, NEW new \in WorkRecord, Ended(s, new) PROVE SolveOK(o)'
  <2>1. /\ work'[s] = new /\ \A t \in R!Senders \ {s} : work'[t] = work[t]
        /\ drawn' = drawn /\ engine' = engine /\ R!ResultIds' = R!ResultIds /\ R!Version' = R!Version
    BY <1>4, <1>8 DEF Ended, R!ResultIds, R!Version
  <2>2. CASE s = o
    <3>1. /\ new.pc = "closing" /\ new.outcome \in {"kept", "refused", "failed"} /\ work[o].pc = "adding"
          /\ new.source = work[o].source /\ new.sure = work[o].sure /\ new.id = work[o].id
          /\ new.outcome = "refused" => adding.by = o /\ work[o].id \in adding.doomed
      BY <1>8, <2>2 DEF Ended
    <3>2. new.outcome = "refused" => new.id < drawn
      BY <1>1, <3>1 DEF AddingOK, SendersApart
    <3> QED
      BY <1>1, <2>1, <2>2, <3>1, <3>2 DEF SolveOK
  <2>3. CASE s # o
    BY <1>1, <1>3, <2>1, <2>3
  <2> QED
    BY <2>2, <2>3
<1>9. ASSUME NEW s \in R!Senders, NEW new \in WorkRecord, Committed(s, new) PROVE SolveOK(o)'
  <2>1. /\ work'[s] = new /\ \A t \in R!Senders \ {s} : work'[t] = work[t]
        /\ drawn' = drawn /\ engine' = engine /\ R!Version' = R!Version /\ R!At(s, "adding")
    BY <1>4, <1>9, CommitFacts DEF Committed, R!Version
  <2>2. CASE s = o
    <3>1. /\ new.pc = "closing" /\ new.outcome = "kept" /\ work[o].pc = "adding"
          /\ new.source = work[o].source /\ new.sure = work[o].sure
      BY <1>1, <1>9, <2>1, <2>2, SettleFacts DEF Committed, R!At
    <3> QED
      BY <1>1, <1>2, <2>1, <2>2, <3>1 DEF SolveOK, R!At
  <2>3. CASE s # o
    BY <1>1, <1>3, <2>1, <2>3
  <2> QED
    BY <2>2, <2>3
<1>10. CASE UNCHANGED <<work, engine, drawn>>
  BY <1>1, <1>3, <1>10
<1>11. CASE R!Crash
  <2>1. work'[o] = R!Idle
    BY <1>1, <1>11 DEF R!Crash
  <2> QED
    BY <1>5, <2>1 DEF SolveOK
<1> QED
  BY <1>6, <1>7, <1>8, <1>9, <1>10, <1>11, ResultsSteps DEF R!vars, R!InsertResult, Changed

\* The instance counts as this module does.
LEMMA SameCardinality ==
    ASSUME NEW S PROVE R!Cardinality(S) = Cardinality(S)
BY DEF R!Cardinality, Cardinality

\* A result beyond the cap has a newer one before it.
LEMMA TrimmedFor ==
    ASSUME CapsPositive, cap \in ServerCaps, NEW rows, NEW id \in R!trimResults(rows)
    PROVE  id \in R!Counted(rows) /\ \E o \in R!Counted(rows) : R!Newer(rows, o, id)
<1>1. id \in R!Counted(rows) /\ R!Cardinality(R!Before(rows, id)) >= cap
  BY DEF R!trimResults
<1>2. R!Before(rows, id) # {}
  <2>1. R!Cardinality({}) = 0
    BY SameCardinality, FS_EmptySet
  <2> QED
    BY <1>1, <2>1 DEF CapsPositive
<1> QED
  BY <1>1, <1>2 DEF R!Before

LEMMA AddingStep ==
    ASSUME ResultsInv, SendersApart, CapsPositive, MaxResults \in Nat, [R!Next]_(R!vars)
    PROVE  AddingOK'
<1>1. /\ ResultsType /\ AddingOK /\ Dated /\ Numbered /\ drawn \in Nat /\ cap \in ServerCaps
      /\ \A s \in R!Senders : work[s] \in WorkRecord
      /\ adding.by # "nobody" => adding.by \in R!Senders
  BY ResultsFacts DEF ResultsInv, ResultsType
<1>2. CASE adding' = R!NoTransaction
  BY <1>1, <1>2, ResultsFacts DEF AddingOK, R!NoTransaction
\* The transaction goes on while others move.
<1>3. ASSUME adding' = adding, adding.by # "nobody", work'[adding.by] = work[adding.by],
             engine' = engine, drawn' = drawn \/ drawn' = drawn + 1,
             engine = "sqlite" => results' = results /\ R!solvingResults' \subseteq R!solvingResults
      PROVE  AddingOK'
  <2>1. work[adding.by].id < drawn => work[adding.by].id < drawn'
    BY <1>1, <1>3 DEF WorkRecord
  <2>2. engine = "sqlite" => R!ResultIds' = R!ResultIds
    BY <1>3 DEF R!ResultIds
  <2> QED
    BY <1>1, <1>3, <2>1, <2>2 DEF AddingOK, R!At
<1>4. ASSUME NEW s \in R!Senders, NEW new \in WorkRecord, work' = [work EXCEPT ![s] = new]
      PROVE  work'[s] = new /\ \A o \in R!Senders \ {s} : work'[o] = work[o]
  BY <1>1, <1>4 DEF ResultsType
\* Who reads a result goes on reading that one.
<1>5. ASSUME NEW s \in R!Senders, NEW new \in WorkRecord, work' = [work EXCEPT ![s] = new],
             s \in Solves /\ new.pc \in {"open", "adding", "closing"} =>
                work[s].pc \in {"open", "adding", "closing"} /\ new.source = work[s].source
      PROVE  R!solvingResults' \subseteq R!solvingResults
  <2> SUFFICES ASSUME NEW j \in Solves, R!At(j, "open")' \/ R!At(j, "adding")' \/ R!At(j, "closing")'
               PROVE  work'[j].source \in R!solvingResults
    BY DEF R!solvingResults
  <2>1. j \in R!Senders
    BY DEF R!Senders
  <2>2. /\ R!At(j, "open") \/ R!At(j, "adding") \/ R!At(j, "closing")
        /\ work'[j].source = work[j].source
    BY <1>4, <1>5, <2>1 DEF R!At
  <2> QED
    BY <2>2 DEF R!solvingResults
<1>6. ASSUME NEW s \in R!Senders, NEW new \in WorkRecord, Along(s, new), s \in Solves PROVE AddingOK'
  <2>1. CASE adding.by = "nobody"
    BY <1>1, <1>2, <1>6, <2>1 DEF Along, AddingOK
  <2>2. CASE adding.by # "nobody"
    <3>1. adding.by # s
      BY <1>1, <1>6, <2>2 DEF AddingOK, R!At, Along
    <3>2. engine = "sqlite" => new.pc # "open"
      BY <1>6, <2>2, ResultsFacts DEF Along, R!Writable, R!NoTransaction, R!Idle
    <3>3. engine = "sqlite" => R!solvingResults' \subseteq R!solvingResults
      BY <1>5, <1>6, <3>2 DEF Along, R!Idle
    <3> QED
      BY <1>1, <1>3, <1>4, <1>6, <2>2, <3>1, <3>3 DEF Along
  <2> QED
    BY <2>1, <2>2
<1>7. ASSUME NEW s \in R!Senders, NEW new \in WorkRecord, Drawn(s, new) PROVE AddingOK'
  <2>1. CASE adding.by = "nobody"
    BY <1>1, <1>2, <1>7, <2>1 DEF Drawn, AddingOK
  <2>2. CASE adding.by # "nobody"
    <3>1. adding.by # s
      BY <1>1, <1>7, <2>2 DEF AddingOK, R!At, Drawn
    <3>2. R!solvingResults' \subseteq R!solvingResults
      BY <1>5, <1>7 DEF Drawn
    <3> QED
      BY <1>1, <1>3, <1>4, <1>7, <2>2, <3>1, <3>2 DEF Drawn
  <2> QED
    BY <2>1, <2>2
<1>8. ASSUME NEW s \in R!Senders, NEW new \in WorkRecord, Ended(s, new), adding' = adding, adding.by # s
      PROVE  AddingOK'
  <2>1. CASE adding.by = "nobody"
    BY <1>1, <1>2, <1>8, <2>1 DEF AddingOK
  <2>2. CASE adding.by # "nobody"
    <3>1. R!solvingResults' \subseteq R!solvingResults
      BY <1>5, <1>8 DEF Ended
    <3> QED
      BY <1>1, <1>3, <1>4, <1>8, <2>2, <3>1 DEF Ended
  <2> QED
    BY <2>1, <2>2
<1>9. ASSUME NEW s \in R!Senders, R!InsertResult(s) PROVE AddingOK'
  <2> DEFINE rows == R!Added(s)
             doomed == R!trimResults(rows)
             new == work[s].id
  <2>1. /\ adding' = [by |-> s, doomed |-> doomed] /\ R!At(s, "adding")
        /\ UNCHANGED <<engine, results, cap, drawn, work>>
    BY <1>9 DEF R!InsertResult
  <2>2. DOMAIN rows = R!ResultIds \cup {new} /\ \A id \in R!ResultIds : rows[id] = results[id]
    BY DEF R!Added
  <2>3. s \in Solves /\ new \in doomed => new < drawn
    <3> SUFFICES ASSUME s \in Solves, new \in doomed PROVE new < drawn
      OBVIOUS
    <3>1. new \notin R!ResultIds /\ work[s].created = new /\ new <= drawn /\ new \in Nat
      BY <1>1, <2>1 DEF Numbered, WorkRecord
    <3>2. rows[new].created = new
      <4>1. rows[new] = [created |-> work[s].created, by |-> s, pinned |-> FALSE, trashed |-> FALSE]
        BY <3>1 DEF R!Added
      <4> QED
        BY <3>1, <4>1
    <3>3. PICK o \in R!Counted(rows) : R!Newer(rows, o, new)
      BY <1>1, TrimmedFor
    <3>4. CASE o = new
      BY <3>1, <3>2, <3>3, <3>4 DEF R!Newer
    <3>5. CASE o # new
      <4>1. o \in R!ResultIds /\ rows[o] = results[o]
        BY <2>2, <3>5 DEF R!Counted
      <4>2. results[o].created <= o /\ o <= drawn /\ o \in Nat /\ results[o].created \in Nat
        BY <1>1, <4>1, ResultsFacts DEF Dated, ResultRecord
      <4>3. results[o].created > new \/ o > new
        BY <3>2, <3>3, <4>1 DEF R!Newer
      <4> QED
        BY <1>1, <3>1, <4>2, <4>3
    <3> QED
      BY <3>4, <3>5
  <2>4. doomed \cap R!solvingResults = {}
    BY DEF R!trimResults
  <2>5. \A id \in doomed \cap R!ResultIds : ~results[id].pinned /\ ~results[id].trashed
    BY <2>2 DEF R!trimResults, R!Counted
  <2>6. adding'.by = s /\ adding'.doomed = doomed /\ s # "nobody"
    BY <2>1 DEF SendersApart, R!Senders
  <2>7. R!solvingResults' = R!solvingResults /\ R!ResultIds' = R!ResultIds
    BY <2>1 DEF R!solvingResults, R!At, R!ResultIds
  <2> HIDE DEF rows, doomed, new
  <2>8. work'[s] = work[s] /\ engine' = engine /\ results' = results /\ drawn' = drawn
    BY <2>1
  <2>9. adding'.by # "nobody" /\ work'[s].pc = "adding"
    BY <2>1, <2>6, <2>8 DEF R!At
  <2>10. adding'.by \in Solves /\ work'[adding'.by].id \in adding'.doomed =>
            work'[adding'.by].id < drawn'
    BY <2>3, <2>6, <2>8 DEF new
  <2>11. /\ adding'.doomed \cap R!solvingResults' = {}
         /\ \A id \in adding'.doomed \cap R!ResultIds' : ~results'[id].pinned /\ ~results'[id].trashed
    BY <2>4, <2>5, <2>6, <2>7, <2>8
  <2>12. R!At(adding.by, "adding")'
    BY <2>6, <2>9 DEF R!At
  <2> QED
    BY <2>9, <2>10, <2>11, <2>12 DEF AddingOK
<1>10. CASE Changed
  <2>1. CASE adding.by = "nobody"
    BY <1>1, <1>2, <1>10, <2>1 DEF Changed, AddingOK
  <2>2. CASE adding.by # "nobody"
    <3>1. engine # "sqlite"
      BY <1>10, <2>2, ResultsFacts, <1>1 DEF Changed, R!Writable
    <3> QED
      BY <1>3, <1>10, <2>2, <3>1 DEF Changed
  <2> QED
    BY <2>1, <2>2
<1>11. CASE UNCHANGED R!vars
  <2>1. CASE adding.by = "nobody"
    BY <1>1, <1>2, <1>11, <2>1 DEF R!vars, AddingOK
  <2>2. CASE adding.by # "nobody"
    <3>1. R!solvingResults' = R!solvingResults
      BY <1>11 DEF R!vars, R!solvingResults, R!At
    <3> QED
      BY <1>3, <1>11, <2>2, <3>1 DEF R!vars
  <2> QED
    BY <2>1, <2>2
<1>12. ASSUME NEW s \in R!Senders, NEW new \in WorkRecord, Ended(s, new) \/ Committed(s, new)
       PROVE  AddingOK'
  <2>1. CASE Ended(s, new)
    BY <1>2, <1>8, <2>1 DEF Ended
  <2>2. CASE Committed(s, new)
    BY <1>2, <2>2, CommitFacts
  <2> QED
    BY <1>12, <2>1, <2>2
<1>13. Solves \subseteq R!Senders
  BY DEF R!Senders
<1> QED
  BY <1>2, <1>6, <1>7, <1>9, <1>10, <1>11, <1>12, <1>13, ResultsSteps DEF R!Crash

LEMMA ResultsInvariance ==
    SendersApart /\ CapsPositive /\ MaxResults \in Nat => (R!Spec => []ResultsInv)
<1> SUFFICES ASSUME SendersApart, CapsPositive, MaxResults \in Nat PROVE R!Spec => []ResultsInv
  OBVIOUS
<1>1. R!Init => ResultsInv
  <2> SUFFICES ASSUME R!Init PROVE ResultsInv
    OBVIOUS
  <2>1. /\ R!ResultIds = {} /\ results \in [R!ResultIds -> ResultRecord]
    BY DEF R!Init, R!ResultIds
  <2>2. R!Idle \in WorkRecord /\ R!Idle.pc = "idle" /\ ~R!Idle.sure /\ R!Idle.outcome = "none"
    BY DEF R!Idle, R!Version, WorkRecord
  <2>3. /\ R!NoTransaction \in [by : R!Senders \cup {"nobody"}, doomed : SUBSET Nat]
        /\ R!NoTransaction.by = "nobody"
    BY DEF R!NoTransaction
  <2>4. \A s \in R!Senders : work[s] = R!Idle
    BY DEF R!Init
  <2>5. ResultsType
    BY <2>1, <2>2, <2>3 DEF R!Init, ResultsType
  <2>6. Numbered /\ \A j \in Solves : SolveOK(j)
    BY <2>2, <2>4 DEF Numbered, R!At, SolveOK, R!Senders
  <2> QED
    BY <2>1, <2>3, <2>5, <2>6 DEF R!Init, ResultsInv, Dated, AddingOK
<1>2. ResultsInv /\ [R!Next]_(R!vars) => ResultsInv'
  BY ResultsTypeStep, DatedStep, NumberedStep, SolveStep, AddingStep DEF ResultsInv
<1> QED
  BY <1>1, <1>2, PTL DEF R!Spec

\* With one writer, a solve loses its timetable to no trim and no purge, and to
\* the cap only where another result was made since; a result that is pinned or in
\* Trash stays until it is purged (results.Keep, plans.AddResult, plans.PurgeResults).
THEOREM ResultsKeptTheorem == R!Spec => ResultsKept
<1> SUFFICES ASSUME SendersApart, CapsPositive, MaxResults \in Nat PROVE R!Spec => ResultsKept
  BY ServicesAssumption
<1>1. ResultsInv => R!SolveKept
  BY DEF ResultsInv, SolveOK, R!SolveKept
<1>2. ResultsInv /\ [R!Next]_(R!vars) => [R!PinnedStay]_(R!vars)
  <2> SUFFICES ASSUME ResultsInv, R!Next, engine = "sqlite", NEW id \in R!ResultIds,
                      results[id].pinned \/ results[id].trashed,
                      ~\E due \in SUBSET (R!ResultIds \ R!Live) : R!PurgeResults(due)
               PROVE  id \in DOMAIN results'
    BY DEF R!PinnedStay
  <2>1. ASSUME NEW s \in R!Senders, NEW new, Committed(s, new) PROVE id \in DOMAIN results'
    <3>1. id \notin adding.doomed
      BY <2>1, CommitFacts DEF ResultsInv, AddingOK, SendersApart, R!Senders
    <3>2. DOMAIN results' = (R!ResultIds \cup {work[s].id}) \ adding.doomed
      BY <2>1, CommitFacts
    <3> QED
      BY <3>1, <3>2
  <2>2. CASE Changed
    BY <2>2 DEF Changed, R!ResultIds
  <2>3. CASE results' = results
    BY <2>3 DEF R!ResultIds
  <2> QED
    BY <2>1, <2>2, <2>3, ResultsSteps DEF Along, Drawn, Ended, R!InsertResult, R!Crash
<1>3. R!SolveKept' /\ [R!PinnedStay]_(R!vars) => [R!SolveKept' /\ R!PinnedStay]_(R!vars)
  OBVIOUS
<1> QED
  BY <1>1, <1>2, <1>3, ResultsInvariance, PTL DEF R!Spec, ResultsKept, R!ResultsKept

-----------------------------------------------------------------------------
(* The Library. *)

Placings == UNION {[S -> Places] : S \in SUBSET Projects}
Arrangement == [version : Nat, places : Placings]
DeviceRecord ==
    [pc : {"idle", "write", "current", "visible"},
     answer : {"none", "read", "saved", "stale", "unavailable"},
     got : Arrangement, next : Arrangement, moved : SUBSET Projects, gone : SUBSET Projects]

LibraryType ==
    /\ row \in Arrangement
    /\ project \in [Projects -> {"live", "trash", "gone"}]
    /\ device \in [Devices -> DeviceRecord]

\* An arrangement has every project that is still there, the moved ones aside,
\* where the stored one has it.
AsStored(places, moved) ==
    \A p \in Projects \ (L!Gone \cup moved) :
        /\ p \in DOMAIN places <=> p \in DOMAIN row.places
        /\ p \in DOMAIN places => places[p] = row.places[p]

\* What a device was shown is the stored arrangement unless another was saved
\* since, and so is what it saves but for the project it moves; a save that was
\* refused was made from an older one.
DeviceOK(r) ==
    /\ r.gone \subseteq L!Gone
    /\ r.pc = "idle" => DOMAIN r.got.places \cap r.gone = {}
    /\ r.pc = "visible" \/ (r.pc = "idle" /\ r.answer \in {"read", "saved", "stale"}) =>
          /\ r.got.version <= row.version
          /\ r.got.version = row.version => AsStored(r.got.places, {})
    /\ r.pc = "write" \/ r.moved # {} =>
          /\ r.next.version <= row.version
          /\ r.next.version = row.version => AsStored(r.next.places, r.moved)
    /\ r.pc = "current" => r.next.version < row.version
    /\ r.pc \in {"visible", "idle"} /\ r.answer = "stale" => r.got.version > r.next.version

LibraryInv ==
    /\ LibraryType
    /\ L!MovesKept
    /\ \A d \in Devices : DeviceOK(device[d])

LEMMA PlacingFacts ==
    /\ L!Nowhere \in Placings /\ DOMAIN L!Nowhere = {}
    /\ \A f \in Placings : DOMAIN f \subseteq Projects
    /\ \A f \in Placings : \A S : L!Restrict(f, DOMAIN f \ S) \in Placings
    /\ \A f \in Placings : \A S : L!Restrict(f, L!Lookup(DOMAIN f)) \in Placings
<1>1. L!Nowhere \in [{} -> Places] /\ DOMAIN L!Nowhere = {}
  BY DEF L!Nowhere
<1>2. ASSUME NEW f \in Placings, NEW S, S \subseteq DOMAIN f PROVE L!Restrict(f, S) \in Placings
  <2>1. PICK T \in SUBSET Projects : f \in [T -> Places]
    BY DEF Placings
  <2>2. L!Restrict(f, S) \in [S -> Places] /\ S \in SUBSET Projects
    BY <1>2, <2>1 DEF L!Restrict
  <2> QED
    BY <2>2 DEF Placings
<1>3. \A f \in Placings : DOMAIN f \subseteq Projects
  BY DEF Placings
<1>4. \A f \in Placings : \A S : L!Restrict(f, DOMAIN f \ S) \in Placings
  BY <1>2
<1>5. \A f \in Placings : L!Restrict(f, L!Lookup(DOMAIN f)) \in Placings
  BY <1>2 DEF L!Lookup
<1> QED
  BY <1>1, <1>3, <1>4, <1>5 DEF Placings

LEMMA LibraryFacts ==
    ASSUME LibraryType
    PROVE  /\ \A d \in Devices : device[d] \in DeviceRecord
           /\ row.version \in Nat /\ row.places \in Placings
           /\ L!Fresh \in DeviceRecord /\ L!Unsaved \in Arrangement
           /\ L!Gone \subseteq Projects
<1>1. L!Unsaved \in Arrangement
  BY PlacingFacts DEF L!Unsaved, Arrangement
<1> QED
  BY <1>1 DEF LibraryType, L!Fresh, DeviceRecord, Arrangement, L!Gone

\* The steps that change nothing but one device.
LEMMA DeviceStep ==
    ASSUME LibraryInv, NEW d \in Devices, NEW new \in DeviceRecord, DeviceOK(new),
           device' = [device EXCEPT ![d] = new], UNCHANGED <<row, project, placed>>
    PROVE  LibraryInv'
<1>1. LibraryType'
  BY DEF LibraryInv, LibraryType
<1>2. L!MovesKept'
  BY DEF LibraryInv, L!MovesKept, L!Gone
<1>3. ASSUME NEW e \in Devices PROVE DeviceOK(device[e])'
  <2>1. DeviceOK(device'[e])
    BY DEF LibraryInv, LibraryType
  <2>2. L!Gone' = L!Gone /\ row' = row
    BY DEF L!Gone
  <2> QED
    BY <2>1, <2>2 DEF DeviceOK, AsStored
<1> QED
  BY <1>1, <1>2, <1>3 DEF LibraryInv

LEMMA EditedFacts ==
    ASSUME NEW d \in Devices, NEW p \in Projects, NEW places \in L!Edited(d, p),
           device[d] \in DeviceRecord
    PROVE  /\ places \in Placings
           /\ \A q \in Projects \ {p} :
                 /\ q \in DOMAIN places <=> q \in DOMAIN device[d].got.places
                 /\ q \in DOMAIN places => places[q] = device[d].got.places[q]
<1> DEFINE old == device[d].got.places
           rest == L!Restrict(old, DOMAIN old \ {p})
<1>1. old \in Placings
  BY DEF DeviceRecord, Arrangement
<1>2. rest \in Placings /\ DOMAIN rest = DOMAIN old \ {p} /\ \A q \in DOMAIN rest : rest[q] = old[q]
  BY <1>1, PlacingFacts DEF L!Restrict
<1>3. \/ places = rest
      \/ \E at \in Places : places = [q \in DOMAIN rest \cup {p} |-> IF q = p THEN at ELSE rest[q]]
  BY DEF L!Edited
<1> HIDE DEF old, rest
<1>4. CASE places = rest
  BY <1>2, <1>4 DEF old
<1>5. ASSUME NEW at \in Places, places = [q \in DOMAIN rest \cup {p} |-> IF q = p THEN at ELSE rest[q]]
      PROVE  /\ places \in Placings
             /\ \A q \in Projects \ {p} :
                   /\ q \in DOMAIN places <=> q \in DOMAIN old
                   /\ q \in DOMAIN places => places[q] = old[q]
  <2>1. PICK T \in SUBSET Projects : rest \in [T -> Places]
    BY <1>2 DEF Placings
  <2>2. places \in [T \cup {p} -> Places]
    BY <1>5, <2>1
  <2> QED
    BY <1>2, <1>5, <2>2 DEF Placings
<1> QED
  BY <1>3, <1>4, <1>5 DEF old

\* Every step of a device but the write.
LEMMA RequestSteps ==
    ASSUME LibraryInv, NEW d \in Devices,
           L!Get(d) \/ L!Save(d) \/ L!WriteStale(d) \/ L!Current(d) \/ L!Visible(d)
              \/ L!Unavailable(d) \/ L!Retry(d)
    PROVE  LibraryInv'
<1>1. /\ LibraryType /\ device[d] \in DeviceRecord /\ DeviceOK(device[d])
      /\ row.version \in Nat /\ row \in Arrangement /\ L!Gone \subseteq Projects
      /\ L!Fresh \in DeviceRecord /\ L!Unsaved \in Arrangement
  BY LibraryFacts DEF LibraryInv, LibraryType
<1>2. CASE L!Get(d)
  <2> DEFINE new == [L!Fresh EXCEPT !.pc = "visible", !.got = row, !.answer = "read", !.gone = L!Gone]
  <2>1. new \in DeviceRecord
    BY <1>1 DEF DeviceRecord
  <2>2. /\ new.pc = "visible" /\ new.answer = "read" /\ new.got = row /\ new.gone = L!Gone
        /\ new.moved = {}
    BY DEF L!Fresh
  <2>3. device' = [device EXCEPT ![d] = new] /\ UNCHANGED <<row, project, placed>>
    BY <1>2 DEF L!Get
  <2> HIDE DEF new
  <2>4. DeviceOK(new)
    BY <1>1, <2>2 DEF DeviceOK, AsStored
  <2> QED
    BY <2>1, <2>3, <2>4, DeviceStep
<1>3. CASE L!Save(d)
  <2>1. PICK p \in Projects : \E places \in L!Edited(d, p) :
           device' = [device EXCEPT ![d] =
             [L!Fresh EXCEPT !.pc = "write", !.moved = {p}, !.gone = L!Gone,
                !.next = [version |-> device[d].got.version, places |-> places]]]
    BY <1>3 DEF L!Save
  <2>2. PICK places \in L!Edited(d, p) :
           device' = [device EXCEPT ![d] =
             [L!Fresh EXCEPT !.pc = "write", !.moved = {p}, !.gone = L!Gone,
                !.next = [version |-> device[d].got.version, places |-> places]]]
    BY <2>1
  <2> DEFINE next == [version |-> device[d].got.version, places |-> places]
             new == [L!Fresh EXCEPT !.pc = "write", !.moved = {p}, !.gone = L!Gone, !.next = next]
  <2>3. next \in Arrangement
    BY <1>1, EditedFacts DEF DeviceRecord, Arrangement
  <2>4. /\ next.version <= row.version
        /\ next.version = row.version => AsStored(next.places, {p})
    <3>1. /\ device[d].got.version <= row.version
          /\ device[d].got.version = row.version => AsStored(device[d].got.places, {})
      BY <1>1, <1>3 DEF L!Save, DeviceOK
    <3> QED
      BY <1>1, <3>1, EditedFacts DEF AsStored
  <2> HIDE DEF next
  <2>5. new \in DeviceRecord
    BY <1>1, <2>3 DEF DeviceRecord, L!Fresh
  <2>6. DeviceOK(new)
    BY <1>1, <2>4 DEF DeviceOK, L!Fresh
  <2>7. device' = [device EXCEPT ![d] = new] /\ UNCHANGED <<row, project, placed>>
    BY <1>3, <2>2 DEF L!Save, next
  <2> QED
    BY <2>5, <2>6, <2>7, DeviceStep
<1>4. CASE L!WriteStale(d)
  <2> DEFINE new == [device[d] EXCEPT !.pc = "current"]
  <2>1. new \in DeviceRecord
    BY <1>1 DEF DeviceRecord
  <2>2. new.next.version < row.version
    BY <1>1, <1>4 DEF L!WriteStale, L!Matches, DeviceOK, DeviceRecord, Arrangement
  <2>3. DeviceOK(new)
    BY <1>1, <1>4, <2>2 DEF L!WriteStale, DeviceOK, DeviceRecord
  <2>4. device' = [device EXCEPT ![d] = new] /\ UNCHANGED <<row, project, placed>>
    BY <1>4 DEF L!WriteStale
  <2> QED
    BY <2>1, <2>3, <2>4, DeviceStep
<1>5. CASE L!Current(d)
  <2> DEFINE new == [device[d] EXCEPT !.pc = "visible", !.answer = "stale", !.got = row]
  <2>1. new \in DeviceRecord
    BY <1>1 DEF DeviceRecord
  <2>2. DeviceOK(new)
    BY <1>1, <1>5 DEF L!Current, DeviceOK, DeviceRecord, AsStored
  <2>3. device' = [device EXCEPT ![d] = new] /\ UNCHANGED <<row, project, placed>>
    BY <1>1, <1>5 DEF L!Current, LibraryType
  <2> QED
    BY <2>1, <2>2, <2>3, DeviceStep
<1>6. CASE L!Visible(d)
  <2> DEFINE got == L!visible(device[d].got)
             next == [device[d].next EXCEPT !.places = L!Nowhere]
             new == [device[d] EXCEPT !.pc = "idle", !.got = got, !.next = next, !.moved = {}]
  <2>1. /\ device[d].got \in Arrangement /\ device[d].got.places \in Placings
        /\ device[d].next \in Arrangement /\ device[d].got.version \in Nat
    BY <1>1 DEF DeviceRecord, Arrangement
  <2>2. /\ got.places = L!Restrict(device[d].got.places, L!Lookup(DOMAIN device[d].got.places))
        /\ got.version = device[d].got.version
        /\ got \in Arrangement
    BY <2>1, PlacingFacts DEF Arrangement, L!visible
  <2>3. /\ next \in Arrangement /\ next.version = device[d].next.version
    BY <2>1, PlacingFacts DEF Arrangement
  <2>4. /\ DOMAIN got.places = DOMAIN device[d].got.places \ L!Gone
        /\ \A p \in DOMAIN got.places : got.places[p] = device[d].got.places[p]
    BY <2>1, <2>2, PlacingFacts DEF L!Restrict, L!Lookup, L!Gone
  <2>5. device' = [device EXCEPT ![d] = new] /\ UNCHANGED <<row, project, placed>>
    BY <1>1, <1>6 DEF L!Visible, LibraryType, DeviceRecord, Arrangement
  <2> HIDE DEF got, next
  <2>6. new \in DeviceRecord
    BY <1>1, <2>2, <2>3 DEF DeviceRecord
  <2>7. AsStored(device[d].got.places, {}) => AsStored(got.places, {})
    BY <2>4 DEF AsStored
  <2>8. DeviceOK(new)
    BY <1>1, <1>6, <2>2, <2>3, <2>4, <2>7 DEF DeviceOK, DeviceRecord, L!Visible
  <2> QED
    BY <2>5, <2>6, <2>8, DeviceStep
<1>7. CASE L!Unavailable(d)
  <2> DEFINE new == [device[d] EXCEPT !.pc = "idle", !.answer = "unavailable", !.got = L!Unsaved]
  <2>1. new \in DeviceRecord
    BY <1>1 DEF DeviceRecord
  <2>2. DOMAIN L!Unsaved.places = {}
    BY PlacingFacts DEF L!Unsaved
  <2>3. DeviceOK(new)
    BY <1>1, <1>7, <2>2 DEF L!Unavailable, DeviceOK, DeviceRecord
  <2>4. device' = [device EXCEPT ![d] = new] /\ UNCHANGED <<row, project, placed>>
    BY <1>7 DEF L!Unavailable
  <2> QED
    BY <2>1, <2>3, <2>4, DeviceStep
<1>8. CASE L!Retry(d)
  <2> DEFINE new == [device[d] EXCEPT !.pc = "write", !.answer = "none", !.gone = L!Gone]
  <2>1. new \in DeviceRecord
    BY <1>1 DEF DeviceRecord
  <2>2. DeviceOK(new)
    BY <1>1, <1>8 DEF L!Retry, DeviceOK, DeviceRecord
  <2>3. device' = [device EXCEPT ![d] = new] /\ UNCHANGED <<row, project, placed>>
    BY <1>1, <1>8 DEF L!Retry, LibraryType
  <2> QED
    BY <2>1, <2>2, <2>3, DeviceStep
<1> QED
  BY <1>2, <1>3, <1>4, <1>5, <1>6, <1>7, <1>8

\* The write: it finds the version it was made from, so the arrangement it
\* replaces differs from it by the moved project alone.
LEMMA WriteStep ==
    ASSUME LibraryInv, NEW d \in Devices, L!WriteLands(d)
    PROVE  LibraryInv'
<1> DEFINE next == device[d].next
           was == device[d].moved
           got == [version |-> next.version + 1, places |-> next.places]
           new == [device[d] EXCEPT !.pc = "visible", !.answer = "saved", !.got = got]
<1>1. /\ LibraryType /\ device[d] \in DeviceRecord /\ DeviceOK(device[d])
      /\ row.version \in Nat /\ L!MovesKept
      /\ next \in Arrangement /\ next.version \in Nat /\ next.places \in Placings
      /\ was \subseteq Projects
  BY LibraryFacts DEF LibraryInv, DeviceRecord, Arrangement
<1>2. /\ next.version = row.version /\ AsStored(next.places, was) /\ device[d].pc = "write"
      /\ device' = [device EXCEPT ![d] = new]
      /\ row' = got /\ project' = project
  BY <1>1 DEF L!WriteLands, L!Matches, DeviceOK, LibraryType
<1>3. placed' = [p \in (DOMAIN placed \ was) \cup (was \cap DOMAIN next.places) |->
                   IF p \in was THEN next.places[p] ELSE placed[p]]
  BY DEF L!WriteLands
<1>4. got \in Arrangement /\ row'.version = row.version + 1 /\ row'.places = next.places
  BY <1>1, <1>2 DEF Arrangement
<1>5. L!Gone' = L!Gone
  BY <1>2 DEF L!Gone
<1> HIDE DEF next, was, got
<1>6. new \in DeviceRecord
  BY <1>1, <1>4 DEF DeviceRecord
<1>7. LibraryType'
  BY <1>1, <1>2, <1>4, <1>6 DEF LibraryType
<1>8. L!MovesKept'
  <2> SUFFICES ASSUME NEW p \in Projects \ L!Gone
               PROVE  /\ p \in DOMAIN next.places <=> p \in DOMAIN placed'
                      /\ p \in DOMAIN placed' => next.places[p] = placed'[p]
    BY <1>4, <1>5 DEF L!MovesKept
  <2>1. CASE p \in was
    BY <1>3, <2>1
  <2>2. CASE p \notin was
    BY <1>1, <1>2, <1>3, <2>2 DEF AsStored, L!MovesKept
  <2> QED
    BY <2>1, <2>2
<1>9. ASSUME NEW e \in Devices PROVE DeviceOK(device[e])'
  <2>1. CASE e = d
    <3>1. device'[e] = new /\ new.got = row' /\ row'.version \in Nat
      BY <1>1, <1>2, <1>4, <2>1 DEF LibraryType, DeviceRecord
    <3>2. /\ new.pc = "visible" /\ new.answer = "saved" /\ new.moved = was /\ new.next = next
          /\ new.gone = device[d].gone
      BY <1>1 DEF DeviceRecord, was, next
    <3>3. /\ device'[e].pc = "visible" /\ device'[e].answer = "saved" /\ device'[e].got = row'
          /\ device'[e].next.version < row'.version /\ device'[e].gone \subseteq L!Gone'
      <4>1. next.version < row'.version /\ new.gone \subseteq L!Gone'
        BY <1>1, <1>2, <1>4, <1>5, <3>2 DEF DeviceOK
      <4> QED
        BY <3>1, <3>2, <4>1
    <3> HIDE DEF new
    <3>4. AsStored(device[e].got.places, {})'
      BY <3>3 DEF AsStored
    <3>5. device'[e].next.version \in Nat
      BY <1>1, <3>1, <3>2
    <3> QED
      BY <3>1, <3>3, <3>4, <3>5 DEF DeviceOK
  <2>2. CASE e # d
    <3>1. device'[e] = device[e] /\ device[e] \in DeviceRecord /\ DeviceOK(device[e])
      BY <1>1, <1>2, <2>2, LibraryFacts DEF LibraryInv
    <3>2. device[e].got.version \in Nat /\ device[e].next.version \in Nat
      BY <3>1 DEF DeviceRecord, Arrangement
    <3> QED
      BY <1>1, <1>4, <1>5, <3>1, <3>2 DEF DeviceOK
  <2> QED
    BY <2>1, <2>2
<1> QED
  BY <1>7, <1>8, <1>9 DEF LibraryInv

\* What is removed for good asks less of every arrangement; nothing comes back.
LEMMA PlanSteps ==
    ASSUME LibraryInv, NEW p \in Projects, L!Trash(p) \/ L!Restore(p) \/ L!Purge(p)
    PROVE  LibraryInv'
<1>1. L!Gone \subseteq L!Gone' /\ UNCHANGED <<row, device, placed>>
  BY DEF LibraryInv, LibraryType, L!Gone, L!Trash, L!Restore, L!Purge, L!Move
<1>2. LibraryType'
  BY DEF LibraryInv, LibraryType, L!Trash, L!Restore, L!Purge, L!Move
<1>3. L!MovesKept'
  BY <1>1 DEF LibraryInv, L!MovesKept
<1>4. ASSUME NEW d \in Devices PROVE DeviceOK(device[d])'
  BY <1>1 DEF LibraryInv, DeviceOK, AsStored
<1> QED
  BY <1>2, <1>3, <1>4 DEF LibraryInv

\* Devices that rearrange one Library at once undo nothing of each other, the one
\* that is refused is told an arrangement newer than its own, and no answer names
\* what was removed for good before it was asked (Service.Save).
THEOREM SavesStandTheorem == L!Spec => []SavesStand
<1> SUFFICES ASSUME Removable \subseteq Projects PROVE L!Spec => []SavesStand
  BY ServicesAssumption
<1>1. L!Init => LibraryInv
  <2> SUFFICES ASSUME L!Init PROVE LibraryInv
    OBVIOUS
  <2>1. L!Gone = {} /\ L!Unsaved \in Arrangement /\ L!Fresh \in DeviceRecord
        /\ DOMAIN L!Nowhere = {} /\ L!Unsaved.places = L!Nowhere
    BY PlacingFacts DEF L!Init, L!Gone, L!Unsaved, Arrangement, L!Fresh, DeviceRecord
  <2>2. LibraryType
    BY <2>1 DEF L!Init, LibraryType
  <2>3. L!MovesKept
    BY <2>1 DEF L!Init, L!MovesKept
  <2>4. DeviceOK(L!Fresh)
    BY <2>1 DEF DeviceOK, L!Fresh
  <2> QED
    BY <2>2, <2>3, <2>4 DEF L!Init, LibraryInv
<1>2. LibraryInv /\ [L!Next]_(L!vars) => LibraryInv'
  <2> SUFFICES ASSUME LibraryInv, [L!Next]_(L!vars) PROVE LibraryInv'
    OBVIOUS
  <2>1. CASE UNCHANGED L!vars
    BY <2>1 DEF L!vars, LibraryInv, LibraryType, L!MovesKept, DeviceOK, AsStored, L!Gone
  <2>2. CASE L!Next
    BY <2>2, RequestSteps, WriteStep, PlanSteps DEF L!Next
  <2> QED
    BY <2>1, <2>2
<1>3. LibraryInv => L!SavesStand
  <2> SUFFICES ASSUME LibraryInv PROVE L!StaleHonest /\ L!NoGhosts
    BY DEF LibraryInv, L!SavesStand
  <2> QED
    BY DEF LibraryInv, DeviceOK, L!StaleHonest, L!NoGhosts
<1> QED
  BY <1>1, <1>2, <1>3, PTL DEF L!Spec, SavesStand

-----------------------------------------------------------------------------
(* Rule profiles. *)

CleanNames == {Trimmed[t] : t \in Typed}
Creators == {e.id : e \in Editors}
ProfileRow == [name : CleanNames, rules : Lists, by : Creators]
LastRow == [name : CleanNames, rules : Lists]
SentNames == CleanNames \cup {""}
SentRules == Lists \cup {<< >>}
AskedIds == Ids \cup {0}
RequestRecord ==
    [pc : {"idle", "update", "missed", "answer", "delete"},
     answer : {"none", "invalid", "taken", "created", "missing", "forbidden", "changed", "deleted",
               "unavailable"},
     id : AskedIds, sets : SUBSET {"name", "rules"}, name : SentNames, rules : SentRules,
     why : SUBSET Ids]

ProfilesType ==
    /\ table \in [DOMAIN table -> ProfileRow]
    /\ last \in [DOMAIN table -> LastRow]
    /\ DOMAIN table \subseteq idsDrawn /\ idsDrawn \subseteq Ids
    /\ worker \in [Workers -> RequestRecord]

\* No two profiles have one name.
NamesApart == \A i, j \in DOMAIN table : table[i].name = table[j].name => i = j

\* A change in progress is of an id that was drawn, so what is not in the table
\* will not be again; it has a reason where it ends in a refusal.
RequestOK(r) ==
    /\ r.pc # "idle" => r.answer = "none" /\ r.id \in idsDrawn
    /\ r.pc = "update" => ("name" \in r.sets => r.name \in CleanNames)
                           /\ ("rules" \in r.sets => r.rules \in Lists)
    /\ r.pc = "missed" /\ r.id \in DOMAIN table => r.why # {}
    /\ r.answer = "taken" => r.why # {}
    /\ r.pc = "idle" /\ r.answer = "missing" => r.id \in idsDrawn \ DOMAIN table

ProfilesInv ==
    /\ ProfilesType
    /\ NamesApart
    /\ P!BothKept
    /\ \A w \in Workers : RequestOK(worker[w])

LEMMA ProfilesFacts ==
    ASSUME ProfilesType
    PROVE  /\ \A w \in Workers : worker[w] \in RequestRecord
           /\ \A id \in DOMAIN table : table[id] \in ProfileRow /\ last[id] \in LastRow
           /\ DOMAIN last = DOMAIN table
           /\ P!Idle \in RequestRecord /\ P!Idle.pc = "idle" /\ P!Idle.answer = "none"
<1>1. P!Idle \in RequestRecord
  BY DEF P!Idle, RequestRecord, SentNames, SentRules, AskedIds
<1> QED
  BY <1>1 DEF ProfilesType, P!Idle

\* The steps that change nothing but one request, and may draw an id.
LEMMA AnswerStep ==
    ASSUME ProfilesInv, NEW w \in Workers, NEW new \in RequestRecord, RequestOK(new),
           worker' = [worker EXCEPT ![w] = new], idsDrawn \subseteq idsDrawn', idsDrawn' \subseteq Ids,
           UNCHANGED <<table, last>>
    PROVE  ProfilesInv'
<1>1. ProfilesType'
  BY DEF ProfilesInv, ProfilesType
<1>2. NamesApart' /\ P!BothKept'
  BY DEF ProfilesInv, NamesApart, P!BothKept
<1>3. ASSUME NEW v \in Workers PROVE RequestOK(worker[v])'
  <2>1. RequestOK(worker'[v])
    BY DEF ProfilesInv, ProfilesType
  <2> QED
    BY <2>1 DEF RequestOK
<1> QED
  BY <1>1, <1>2, <1>3 DEF ProfilesInv

\* A refusal for a taken name has the one that holds it.
LEMMA HeldName ==
    ASSUME ProfilesType, NEW name, NEW id
    PROVE  P!Holders(name, id) \subseteq Ids /\ (~P!Free(name, id) => P!Holders(name, id) # {})
BY DEF P!Holders, P!Free, ProfilesType

LEMMA CreateStep ==
    ASSUME ProfilesInv, NEW w \in Workers, P!Create(w)
    PROVE  ProfilesInv'
<1>1. /\ ProfilesType /\ worker[w] \in RequestRecord /\ RequestOK(worker[w])
      /\ P!Idle \in RequestRecord /\ idsDrawn \subseteq Ids
  BY ProfilesFacts DEF ProfilesInv, ProfilesType
<1>2. PICK editor \in Editors, id \in Ids \ idsDrawn, typed \in Typed, rules \in Lists :
         LET name == P!cleanName(typed) IN
         \/ /\ worker' = [worker EXCEPT ![w] = [P!Idle EXCEPT !.answer = "invalid"]]
            /\ UNCHANGED <<table, idsDrawn, last>>
         \/ /\ ~P!Free(name, id)
            /\ worker' = [worker EXCEPT ![w] =
                 [P!Idle EXCEPT !.answer = "taken", !.why = P!Holders(name, id)]]
            /\ idsDrawn' = idsDrawn \cup {id}
            /\ UNCHANGED <<table, last>>
         \/ /\ P!Free(name, id)
            /\ table' = [i \in DOMAIN table \cup {id} |-> IF i = id
                 THEN [name |-> name, rules |-> rules, by |-> editor.id] ELSE table[i]]
            /\ last' = [i \in DOMAIN last \cup {id} |-> IF i = id
                 THEN [name |-> name, rules |-> rules] ELSE last[i]]
            /\ idsDrawn' = idsDrawn \cup {id}
            /\ worker' = [worker EXCEPT ![w] = [P!Idle EXCEPT !.answer = "created"]]
  BY ZenonT(60) DEF P!Create
<1> DEFINE name == P!cleanName(typed)
           added == [name |-> name, rules |-> rules, by |-> editor.id]
<1>3. CASE /\ worker' = [worker EXCEPT ![w] = [P!Idle EXCEPT !.answer = "invalid"]]
           /\ UNCHANGED <<table, idsDrawn, last>>
  <2> DEFINE new == [P!Idle EXCEPT !.answer = "invalid"]
  <2>1. new \in RequestRecord
    BY <1>1 DEF RequestRecord
  <2>2. RequestOK(new)
    BY DEF RequestOK, P!Idle
  <2> QED
    BY <1>1, <1>3, <2>1, <2>2, AnswerStep
<1>4. CASE /\ ~P!Free(name, id)
           /\ worker' = [worker EXCEPT ![w] =
                [P!Idle EXCEPT !.answer = "taken", !.why = P!Holders(name, id)]]
           /\ idsDrawn' = idsDrawn \cup {id}
           /\ UNCHANGED <<table, last>>
  <2> DEFINE new == [P!Idle EXCEPT !.answer = "taken", !.why = P!Holders(name, id)]
  <2>1. P!Holders(name, id) \subseteq Ids /\ P!Holders(name, id) # {}
    BY <1>1, <1>4, HeldName
  <2>2. new \in RequestRecord
    BY <1>1, <2>1 DEF RequestRecord
  <2>3. RequestOK(new)
    BY <2>1 DEF RequestOK, P!Idle
  <2> QED
    BY <1>1, <1>4, <2>2, <2>3, AnswerStep
<1>5. CASE /\ P!Free(name, id)
           /\ table' = [i \in DOMAIN table \cup {id} |-> IF i = id THEN added ELSE table[i]]
           /\ last' = [i \in DOMAIN last \cup {id} |-> IF i = id
                THEN [name |-> name, rules |-> rules] ELSE last[i]]
           /\ idsDrawn' = idsDrawn \cup {id}
           /\ worker' = [worker EXCEPT ![w] = [P!Idle EXCEPT !.answer = "created"]]
  <2> DEFINE new == [P!Idle EXCEPT !.answer = "created"]
  <2>1. name \in CleanNames /\ editor.id \in Creators
    BY DEF P!cleanName, CleanNames, Creators
  <2>2. added \in ProfileRow /\ [name |-> name, rules |-> rules] \in LastRow
    BY <2>1 DEF ProfileRow, LastRow
  <2>3. /\ id \notin idsDrawn /\ id \notin DOMAIN table
        /\ DOMAIN last = DOMAIN table /\ DOMAIN table' = DOMAIN table \cup {id}
        /\ idsDrawn' = idsDrawn \cup {id}
    BY <1>1, <1>5, ProfilesFacts DEF ProfilesType
  <2>4. new \in RequestRecord
    BY <1>1 DEF RequestRecord
  <2>5. ProfilesType'
    BY <1>1, <1>5, <2>2, <2>3, <2>4, ProfilesFacts DEF ProfilesType
  <2>6. /\ table'[id].name = name /\ table'[id].rules = rules
        /\ last'[id].name = name /\ last'[id].rules = rules
        /\ \A i \in DOMAIN table : table'[i] = table[i] /\ last'[i] = last[i]
    BY <1>5, <2>3
  <2> HIDE DEF name
  <2>7. NamesApart'
    BY <1>5, <2>3, <2>6 DEF ProfilesInv, NamesApart, P!Free
  <2>8. P!BothKept'
    BY <2>3, <2>6 DEF ProfilesInv, P!BothKept
  <2>9. ASSUME NEW v \in Workers PROVE RequestOK(worker[v])'
    <3>1. CASE v = w
      <4>1. worker'[v] = new
        BY <1>1, <1>5, <3>1 DEF ProfilesType
      <4>2. new.pc = "idle" /\ new.answer = "created"
        BY DEF P!Idle
      <4> QED
        BY <4>1, <4>2 DEF RequestOK
    <3>2. CASE v # w
      <4>1. worker'[v] = worker[v] /\ RequestOK(worker[v])
        BY <1>1, <1>5, <3>2 DEF ProfilesType, ProfilesInv
      <4> QED
        BY ONLY <2>3, <4>1 DEF RequestOK
    <3> QED
      BY <3>1, <3>2
  <2> QED
    BY <2>5, <2>7, <2>8, <2>9 DEF ProfilesInv
<1> QED
  BY <1>2, <1>3, <1>4, <1>5

LEMMA ReadStep ==
    ASSUME ProfilesInv, NEW w \in Workers, NEW kind \in {"update", "delete"},
           NEW sets \in SUBSET {"name", "rules"}, NEW name, NEW rules,
           "name" \in sets => name \in Typed, "rules" \in sets => rules \in Lists,
           P!Read(w, kind, sets, name, rules)
    PROVE  ProfilesInv'
<1>1. /\ ProfilesType /\ worker[w] \in RequestRecord /\ idsDrawn \subseteq Ids
      /\ P!Idle \in RequestRecord /\ Ids \subseteq AskedIds
  BY ProfilesFacts DEF ProfilesInv, ProfilesType, AskedIds
<1> DEFINE told(editor, id) ==
             IF id \notin DOMAIN table THEN "missing"
             ELSE IF ~P!EditableBy(table[id], editor) THEN "forbidden"
             ELSE IF P!Refusable(sets, name, rules) THEN "invalid"
             ELSE IF kind = "update" /\ sets = {} THEN "changed"
             ELSE "none"
           named(id) == IF "name" \in sets THEN P!cleanName(name)
                        ELSE IF kind = "update" THEN table[id].name ELSE ""
           ruled(id) == IF "rules" \in sets THEN rules
                        ELSE IF kind = "update" THEN table[id].rules ELSE << >>
           refused(editor, id) == [P!Idle EXCEPT !.answer = told(editor, id),
                                     !.id = IF told(editor, id) = "missing" THEN id ELSE 0]
           asked(id) == [P!Idle EXCEPT !.pc = kind, !.id = id, !.sets = sets, !.name = named(id),
                           !.rules = ruled(id)]
<1>2. PICK editor \in Editors, id \in idsDrawn :
         worker' = [worker EXCEPT ![w] =
                      IF told(editor, id) # "none" THEN refused(editor, id) ELSE asked(id)]
  BY ZenonT(60) DEF P!Read, P!Idle
<1>3. UNCHANGED <<table, idsDrawn, last>> /\ id \in Ids
  BY <1>1 DEF P!Read
<1>4. CASE told(editor, id) # "none"
  <2> DEFINE why == told(editor, id)
             of == IF why = "missing" THEN id ELSE 0
             new == [P!Idle EXCEPT !.answer = why, !.id = of]
  <2>1. why \in {"missing", "forbidden", "invalid", "changed"} /\ (why = "missing" => id \notin DOMAIN table)
    BY <1>4
  <2>2. of \in AskedIds /\ (why = "missing" => of = id)
    BY <1>1, <1>3 DEF AskedIds
  <2>3. worker' = [worker EXCEPT ![w] = new]
    BY <1>2, <1>4
  <2> HIDE DEF why, of
  <2>4. new \in RequestRecord
    BY <1>1, <2>1, <2>2 DEF RequestRecord
  <2>5. RequestOK(new)
    BY <1>2, <2>1, <2>2 DEF RequestOK, P!Idle
  <2> QED
    BY <1>1, <1>3, <2>3, <2>4, <2>5, AnswerStep
<1>5. CASE told(editor, id) = "none"
  <2> DEFINE n == named(id)
             u == ruled(id)
             new == [P!Idle EXCEPT !.pc = kind, !.id = id, !.sets = sets, !.name = n, !.rules = u]
  <2>1. table[id] \in ProfileRow
    BY <1>1, <1>5, ProfilesFacts
  <2>2. n \in SentNames /\ ("name" \in sets => n \in CleanNames)
    BY <2>1 DEF SentNames, CleanNames, P!cleanName, ProfileRow
  <2>3. u \in SentRules /\ ("rules" \in sets => u \in Lists)
    BY <2>1 DEF SentRules, ProfileRow
  <2>4. worker' = [worker EXCEPT ![w] = new]
    BY <1>2, <1>5
  <2> HIDE DEF n, u, told
  <2>5. new \in RequestRecord
    BY <1>1, <1>3, <2>2, <2>3 DEF RequestRecord
  <2>6. RequestOK(new)
    BY <1>2, <2>2, <2>3 DEF RequestOK, P!Idle
  <2> QED
    BY <1>1, <1>3, <2>4, <2>5, <2>6, AnswerStep
<1> QED
  BY <1>4, <1>5

\* The answers, and the statements that find no row of theirs.
LEMMA AnswerSteps ==
    ASSUME ProfilesInv, NEW w \in Workers,
           P!UpdateRefused(w) \/ P!UpdateMissed(w) \/ P!Missed(w) \/ P!Reread(w) \/ P!Unavailable(w)
    PROVE  ProfilesInv'
<1>1. /\ ProfilesType /\ worker[w] \in RequestRecord /\ RequestOK(worker[w]) /\ idsDrawn \subseteq Ids
      /\ P!Idle \in RequestRecord /\ 0 \in AskedIds
      /\ UNCHANGED <<table, idsDrawn, last>>
  BY ProfilesFacts DEF ProfilesInv, ProfilesType, AskedIds, P!UpdateRefused, P!UpdateMissed, P!Missed,
     P!Reread, P!Unavailable
<1> DEFINE holders == P!Holders(worker[w].name, worker[w].id)
<1>2. CASE P!UpdateRefused(w)
  <2> DEFINE new == [P!Idle EXCEPT !.answer = "taken", !.why = holders]
  <2>1. holders \subseteq Ids /\ holders # {}
    BY <1>1, <1>2, HeldName DEF P!UpdateRefused
  <2>2. worker' = [worker EXCEPT ![w] = new]
    BY <1>2 DEF P!UpdateRefused
  <2> HIDE DEF holders
  <2>3. new \in RequestRecord
    BY <1>1, <2>1 DEF RequestRecord
  <2>4. RequestOK(new)
    BY <2>1 DEF RequestOK, P!Idle
  <2> QED
    BY <1>1, <2>2, <2>3, <2>4, AnswerStep
<1>3. CASE P!UpdateMissed(w)
  <2> DEFINE asking == worker[w]
             found == asking.id \in DOMAIN table
             taken == "name" \in asking.sets /\ ~P!Free(asking.name, asking.id)
             why == IF found /\ taken THEN holders ELSE {}
             new == [asking EXCEPT !.pc = "missed", !.why = why]
  <2>1. why \subseteq Ids /\ (found => why # {}) /\ asking.pc = "update"
    BY <1>1, <1>3, HeldName DEF P!UpdateMissed
  <2>2. worker' = [worker EXCEPT ![w] = new]
    BY <1>1, <1>3 DEF P!UpdateMissed, ProfilesType
  <2> HIDE DEF why, holders
  <2>3. new \in RequestRecord
    BY <1>1, <2>1 DEF RequestRecord
  <2>4. RequestOK(new)
    BY <1>1, <2>1 DEF RequestOK, RequestRecord
  <2> QED
    BY <1>1, <2>2, <2>3, <2>4, AnswerStep
<1>4. ASSUME NEW told \in {"taken", "missing", "changed"}, P!Answer(w, told), worker[w].pc # "idle",
             told = "taken" => worker[w].why # {}, told = "missing" => worker[w].id \notin DOMAIN table
      PROVE  ProfilesInv'
  <2> DEFINE of == IF told = "missing" THEN worker[w].id ELSE 0
             why == IF told = "taken" THEN worker[w].why ELSE {}
             new == [P!Idle EXCEPT !.answer = told, !.id = of, !.why = why]
  <2>1. of \in AskedIds /\ why \subseteq Ids /\ (told = "taken" => why # {})
        /\ (told = "missing" => of \in idsDrawn \ DOMAIN table)
    BY <1>1, <1>4 DEF RequestRecord, RequestOK
  <2>2. worker' = [worker EXCEPT ![w] = new]
    BY <1>4 DEF P!Answer
  <2> HIDE DEF of, why
  <2>3. new \in RequestRecord
    BY <1>1, <2>1 DEF RequestRecord
  <2>4. RequestOK(new)
    BY <2>1 DEF RequestOK, P!Idle
  <2> QED
    BY <1>1, <2>2, <2>3, <2>4, AnswerStep
<1>5. CASE P!Missed(w)
  BY <1>1, <1>4, <1>5 DEF P!Missed, RequestOK
<1>6. CASE P!Reread(w)
  BY <1>4, <1>6 DEF P!Reread
<1>7. CASE P!Unavailable(w)
  <2> DEFINE new == [P!Idle EXCEPT !.answer = "unavailable"]
  <2>1. new \in RequestRecord
    BY <1>1 DEF RequestRecord
  <2>2. RequestOK(new)
    BY DEF RequestOK, P!Idle
  <2> QED
    BY <1>1, <1>7, <2>1, <2>2, AnswerStep DEF P!Unavailable
<1> QED
  BY <1>2, <1>3, <1>5, <1>6, <1>7

\* The statement finds the name free, and sets what the change names.
LEMMA UpdateStep ==
    ASSUME ProfilesInv, NEW w \in Workers, P!UpdateLands(w)
    PROVE  ProfilesInv'
<1> DEFINE asking == worker[w]
           id == asking.id
           name == IF "name" \in asking.sets THEN asking.name ELSE table[id].name
           rules == IF "rules" \in asking.sets THEN asking.rules ELSE table[id].rules
           changed == [table[id] EXCEPT !.name = name, !.rules = rules]
           set == [name |-> name, rules |-> rules]
           new == [asking EXCEPT !.pc = "answer"]
<1>1. /\ ProfilesType /\ asking \in RequestRecord /\ RequestOK(asking)
      /\ asking.pc = "update" /\ id \in DOMAIN table /\ id \in idsDrawn
      /\ table[id] \in ProfileRow /\ last[id] \in LastRow /\ DOMAIN last = DOMAIN table
      /\ last[id].name = table[id].name /\ last[id].rules = table[id].rules
  BY ProfilesFacts DEF ProfilesInv, P!UpdateLands, RequestOK, P!BothKept
<1>2. name \in CleanNames /\ rules \in Lists
  BY <1>1 DEF RequestOK, ProfileRow
<1>3. /\ table' = [table EXCEPT ![id] = changed]
      /\ last' = [last EXCEPT ![id] = set]
      /\ worker' = [worker EXCEPT ![w] = new]
      /\ idsDrawn' = idsDrawn
  <2>1. table' = [table EXCEPT ![id] = P!Changed(table[id], asking)]
    BY DEF P!UpdateLands
  <2>2. P!Changed(table[id], asking) = changed
    BY <1>1 DEF P!Changed, ProfileRow
  <2>3. last' = [last EXCEPT ![id] = set]
    BY <1>1 DEF P!UpdateLands
  <2>4. worker' = [worker EXCEPT ![w] = new] /\ idsDrawn' = idsDrawn
    BY <1>1 DEF P!UpdateLands, ProfilesType
  <2> QED
    BY <2>1, <2>2, <2>3, <2>4
<1>4. \/ "name" \in asking.sets /\ P!Free(name, id)
      \/ "name" \notin asking.sets /\ name = table[id].name
  BY DEF P!UpdateLands
<1> HIDE DEF name, rules
<1>5. changed \in ProfileRow /\ set \in LastRow /\ new \in RequestRecord
  BY <1>1, <1>2 DEF ProfileRow, LastRow, RequestRecord
<1>6. /\ changed.name = name /\ changed.rules = rules /\ set.name = name /\ set.rules = rules
      /\ new.pc = "answer" /\ new.answer = "none" /\ new.id = id
  BY <1>1 DEF ProfileRow, RequestRecord, RequestOK
<1> HIDE DEF changed, set, new
<1>7. ProfilesType'
  BY <1>1, <1>3, <1>5 DEF ProfilesType
<1>8. DOMAIN table' = DOMAIN table /\ table'[id] = changed /\ last'[id] = set
      /\ \A i \in DOMAIN table \ {id} : table'[i] = table[i] /\ last'[i] = last[i]
  BY <1>1, <1>3
<1>9. NamesApart'
  BY <1>1, <1>4, <1>6, <1>8 DEF ProfilesInv, NamesApart, P!Free
<1>10. P!BothKept'
  BY <1>6, <1>8 DEF ProfilesInv, P!BothKept
<1>11. ASSUME NEW v \in Workers PROVE RequestOK(worker[v])'
  <2>1. worker'[v] = IF v = w THEN new ELSE worker[v]
    BY <1>1, <1>3 DEF ProfilesType
  <2>2. RequestOK(worker[v])
    BY DEF ProfilesInv
  <2> HIDE DEF id, asking
  <2> QED
    BY <1>1, <1>3, <1>6, <1>8, <2>1, <2>2 DEF RequestOK
<1> QED
  BY <1>7, <1>9, <1>10, <1>11 DEF ProfilesInv

\* An id that went is not drawn again.
LEMMA DeleteStep ==
    ASSUME ProfilesInv, NEW w \in Workers, P!DeleteLands(w)
    PROVE  ProfilesInv'
<1> DEFINE id == worker[w].id
           told == IF id \in DOMAIN table THEN "deleted" ELSE "missing"
           of == IF told = "missing" THEN id ELSE 0
           new == [P!Idle EXCEPT !.answer = told, !.id = of, !.why = {}]
<1>1. /\ ProfilesType /\ worker[w] \in RequestRecord /\ id \in idsDrawn
      /\ DOMAIN last = DOMAIN table /\ P!Idle \in RequestRecord
  BY ProfilesFacts DEF ProfilesInv, P!DeleteLands, RequestOK
<1>2. /\ table' = [i \in DOMAIN table \ {id} |-> table[i]]
      /\ last' = [i \in DOMAIN table \ {id} |-> last[i]]
      /\ idsDrawn' = idsDrawn
  BY <1>1 DEF P!DeleteLands, P!Restrict
<1>3. worker' = [worker EXCEPT ![w] = new]
  BY DEF P!DeleteLands, P!Answer
<1>4. told \in {"deleted", "missing"} /\ of \in AskedIds /\ (told = "missing" => of = id)
  BY <1>1 DEF AskedIds, RequestRecord
<1>5. DOMAIN table' = DOMAIN table \ {id}
      /\ \A i \in DOMAIN table' : table'[i] = table[i] /\ last'[i] = last[i]
  BY <1>2
<1> HIDE DEF told, of
<1>6. new \in RequestRecord
  BY <1>1, <1>4 DEF RequestRecord
<1>7. new.pc = "idle" /\ new.answer = told /\ new.id = of
  BY DEF P!Idle
<1>8. ProfilesType'
  BY <1>1, <1>2, <1>3, <1>5, <1>6 DEF ProfilesType
<1>9. NamesApart' /\ P!BothKept'
  BY <1>5 DEF ProfilesInv, NamesApart, P!BothKept
<1>10. ASSUME NEW v \in Workers PROVE RequestOK(worker[v])'
  <2>1. CASE v = w
    <3>1. worker'[v].pc = "idle" /\ worker'[v].answer = told /\ worker'[v].id = of
      BY <1>1, <1>3, <1>7, <2>1 DEF ProfilesType
    <3> QED
      BY <1>1, <1>2, <1>4, <1>5, <3>1 DEF RequestOK
  <2>2. CASE v # w
    <3>1. worker'[v] = worker[v] /\ RequestOK(worker[v])
      BY <1>1, <1>3, <2>2 DEF ProfilesType, ProfilesInv
    <3> QED
      BY <1>2, <1>5, <3>1 DEF RequestOK
  <2> QED
    BY <2>1, <2>2
<1> QED
  BY <1>8, <1>9, <1>10 DEF ProfilesInv

\* Whoever creates, renames, changes and deletes profiles at once, no two have
\* names a reader cannot tell apart, every change that was answered is kept, and
\* a refusal gives the true reason (Repository.Create, Repository.Update).
THEOREM ProfilesStandTheorem == P!Spec => []ProfilesStand
<1> SUFFICES ASSUME TrimmedOnce PROVE P!Spec => []ProfilesStand
  BY ServicesAssumption
<1>1. P!Init => ProfilesInv
  <2> SUFFICES ASSUME P!Init PROVE ProfilesInv
    OBVIOUS
  <2>1. P!Idle \in RequestRecord
    BY DEF P!Idle, RequestRecord, SentNames, SentRules, AskedIds
  <2>2. table = [i \in {} |-> table[i]] /\ last = [i \in {} |-> last[i]] /\ DOMAIN table = {}
    BY DEF P!Init
  <2>3. ProfilesType
    BY <2>1, <2>2 DEF P!Init, ProfilesType
  <2>4. RequestOK(P!Idle)
    BY DEF RequestOK, P!Idle
  <2> QED
    BY <2>2, <2>3, <2>4 DEF P!Init, ProfilesInv, NamesApart, P!BothKept
<1>2. ProfilesInv /\ [P!Next]_(P!vars) => ProfilesInv'
  <2> SUFFICES ASSUME ProfilesInv, [P!Next]_(P!vars) PROVE ProfilesInv'
    OBVIOUS
  <2>1. CASE UNCHANGED P!vars
    BY <2>1 DEF P!vars, ProfilesInv, ProfilesType, NamesApart, P!BothKept, RequestOK
  <2>2. ASSUME NEW w \in Workers, P!Update(w) \/ P!Delete(w) PROVE ProfilesInv'
    <3>1. CASE P!Update(w)
      <4>1. PICK sets \in SUBSET {"name", "rules"} :
              \E name \in (IF "name" \in sets THEN Typed ELSE {""}),
                 rules \in (IF "rules" \in sets THEN Lists ELSE {<< >>}) :
                P!Read(w, "update", sets, name, rules)
        BY <3>1 DEF P!Update
      <4> QED
        BY <4>1, ReadStep
    <3>2. CASE P!Delete(w)
      BY <3>2, ReadStep DEF P!Delete
    <3> QED
      BY <2>2, <3>1, <3>2
  <2> QED
    BY <2>1, <2>2, CreateStep, UpdateStep, AnswerSteps, DeleteStep DEF P!Next
<1>3. ProfilesInv => P!ProfilesStand
  <2> SUFFICES ASSUME ProfilesInv PROVE P!ProfilesStand
    OBVIOUS
  <2>1. \A i \in DOMAIN table : Trimmed[table[i].name] = table[i].name
    BY ProfilesFacts DEF ProfilesInv, ProfileRow, CleanNames, TrimmedOnce
  <2> QED
    BY <2>1 DEF ProfilesInv, NamesApart, RequestOK, P!ProfilesStand, P!NamesDistinct, P!RefusalHonest
<1> QED
  BY <1>1, <1>2, <1>3, PTL DEF P!Spec, ProfilesStand

-----------------------------------------------------------------------------
(* Settings. *)

Stored == Values \cup {Defaults[f] : f \in Fields}
AllSettings == [Fields -> Stored]
SomeSettings == UNION {[D -> Stored] : D \in SUBSET Fields}
AdminRecord ==
    [pc : {"idle", "write", "apply", "audit"}, section : {"", "lockout", "server"},
     change : SomeSettings, before : SomeSettings, saved : SomeSettings]

SettingsType ==
    /\ stored \in AllSettings /\ inForce \in AllSettings
    /\ lock \in [C!Sections -> Admins \cup {C!Free}]
    /\ admin \in [Admins -> AdminRecord]
    /\ trail \in Seq(SomeSettings)

\* A change holds the mutex of its route from the first read on, so what it read
\* and what it saved stay what is stored of that route.
HoldsRoute(r) ==
    /\ r.pc = "write" =>
          /\ DOMAIN r.change \subseteq C!FieldsOf(r.section)
          /\ \A f \in DOMAIN r.before : r.before[f] = stored[f]
    /\ r.pc \in {"apply", "audit"} =>
          /\ DOMAIN r.saved = C!FieldsOf(r.section)
          /\ \A f \in DOMAIN r.saved : r.saved[f] = stored[f]
RoutesHeld ==
    \A a \in Admins : admin[a].pc # "idle" =>
        /\ admin[a].section \in C!Sections /\ lock[admin[a].section] = a
        /\ DOMAIN admin[a].before = C!FieldsOf(admin[a].section)
        /\ HoldsRoute(admin[a])

\* Who has changed a setting and not told it yet.
Untelling(a, f) == admin[a].pc \in {"apply", "audit"} /\ f \in DOMAIN admin[a].saved

\* The newest entry that names a setting says the value, or none names it.
Entries(f) == {i \in DOMAIN trail : f \in DOMAIN trail[i]}
Tells(f, value) ==
    \/ Entries(f) = {} /\ value = Defaults[f]
    \/ \E i \in Entries(f) : (\A j \in Entries(f) : j <= i) /\ trail[i][f] = value

\* It says what is stored, and while a change is yet to be told what was stored
\* before it.
TrailTold ==
    \A f \in Fields \ untold :
        /\ (\A a \in Admins : ~Untelling(a, f)) => Tells(f, stored[f])
        /\ \A a \in Admins : Untelling(a, f) => Tells(f, admin[a].before[f])

SettingsInv ==
    /\ SettingsType
    /\ RoutesHeld
    /\ C!ChangesKept
    /\ C!StoredInForce
    /\ TrailTold

LEMMA SettingsFacts ==
    ASSUME SettingsGiven, SettingsType
    PROVE  /\ \A a \in Admins : admin[a] \in AdminRecord
           /\ C!Idle \in AdminRecord /\ C!Idle.pc = "idle" /\ "" \notin C!Sections
           /\ C!Free \notin Admins
           /\ \A f \in Fields : SectionOf[f] \in C!Sections
           /\ \A section : C!FieldsOf(section) \subseteq Fields
           /\ \A settings \in SomeSettings : DOMAIN settings \subseteq Fields
           /\ \A settings \in AllSettings : DOMAIN settings = Fields
           /\ C!Sections = {"lockout", "server"}
<1>1. << >> \in SomeSettings
  <2>1. << >> \in [{} -> Stored]
    OBVIOUS
  <2> QED
    BY <2>1 DEF SomeSettings
<1>2. C!Idle \in AdminRecord /\ C!Idle.pc = "idle"
  BY <1>1 DEF C!Idle, AdminRecord
<1>3. \A settings \in SomeSettings : DOMAIN settings \subseteq Fields
  BY DEF SomeSettings
<1> QED
  BY <1>2, <1>3 DEF SettingsGiven, SettingsType, C!Free, C!Sections, C!FieldsOf, AllSettings

\* One change at a time is on its way on a route.
LEMMA OneOfRoute ==
    ASSUME RoutesHeld, NEW a \in Admins, NEW b \in Admins, admin[a].pc # "idle", admin[b].pc # "idle",
           admin[a].section = admin[b].section
    PROVE  a = b
BY DEF RoutesHeld

LEMMA MergedFacts ==
    ASSUME NEW settings, NEW change
    PROVE  /\ DOMAIN C!Merged(settings, change) = DOMAIN settings
           /\ \A f \in DOMAIN settings :
                 C!Merged(settings, change)[f] = IF f \in DOMAIN change THEN change[f] ELSE settings[f]
BY DEF C!Merged

\* A change merged into some settings is of the same kind.
LEMMA MergedTypes ==
    ASSUME NEW change \in SomeSettings
    PROVE  /\ \A settings \in AllSettings : C!Merged(settings, change) \in AllSettings
           /\ \A settings \in SomeSettings : C!Merged(settings, change) \in SomeSettings
<1>1. PICK D \in SUBSET Fields : change \in [D -> Stored]
  BY DEF SomeSettings
<1>2. ASSUME NEW E \in SUBSET Fields, NEW settings \in [E -> Stored]
      PROVE  C!Merged(settings, change) \in [E -> Stored]
  BY <1>1 DEF C!Merged
<1> QED
  BY <1>2 DEF AllSettings, SomeSettings

LEMMA RestrictTypes ==
    ASSUME NEW settings \in SomeSettings \cup AllSettings, NEW D, D \subseteq DOMAIN settings
    PROVE  C!Restrict(settings, D) \in SomeSettings
<1>1. PICK E \in SUBSET Fields : settings \in [E -> Stored]
  BY DEF SomeSettings, AllSettings
<1>2. C!Restrict(settings, D) \in [D -> Stored] /\ D \in SUBSET Fields
  BY <1>1 DEF C!Restrict
<1> QED
  BY <1>2 DEF SomeSettings

\* An entry more says what it names, and leaves the rest as told.
LEMMA AppendTells ==
    ASSUME SettingsType, NEW entry \in SomeSettings, NEW f, trail' = Append(trail, entry)
    PROVE  /\ f \in DOMAIN entry => Tells(f, entry[f])'
           /\ \A value : f \notin DOMAIN entry /\ Tells(f, value) => Tells(f, value)'
<1> DEFINE n == Len(trail) + 1
<1>1. /\ trail \in Seq(SomeSettings) /\ DOMAIN trail = 1..Len(trail) /\ Len(trail) \in Nat
      /\ DOMAIN trail' = 1..n /\ trail'[n] = entry
      /\ \A i \in DOMAIN trail : trail'[i] = trail[i] /\ i \in Nat /\ i < n
  BY DEF SettingsType
<1>2. ASSUME f \in DOMAIN entry PROVE Tells(f, entry[f])'
  <2>1. n \in Entries(f)' /\ \A j \in Entries(f)' : j <= n
    BY <1>1, <1>2 DEF Entries
  <2> QED
    BY <1>1, <2>1 DEF Tells
<1>3. ASSUME NEW value, f \notin DOMAIN entry, Tells(f, value) PROVE Tells(f, value)'
  <2>1. Entries(f)' = Entries(f)
    BY <1>1, <1>3 DEF Entries
  <2>2. \A i \in Entries(f) : trail'[i] = trail[i]
    BY <1>1 DEF Entries
  <2> QED
    BY <1>3, <2>1, <2>2 DEF Tells
<1> QED
  BY <1>2, <1>3

\* Nothing is stored, in force or told by a change that was not written.
LEMMA QuietStep ==
    ASSUME SettingsInv, SettingsGiven, NEW a \in Admins, NEW new \in AdminRecord,
           admin[a].pc \in {"idle", "write"}, new.pc \in {"idle", "write"},
           admin' = [admin EXCEPT ![a] = new], UNCHANGED <<stored, current, inForce, trail, sent, untold>>
    PROVE  C!ChangesKept' /\ C!StoredInForce' /\ TrailTold'
<1>1. \A b \in Admins : admin'[b] = IF b = a THEN new ELSE admin[b]
  BY DEF SettingsInv, SettingsType
<1>2. C!ChangesKept'
  BY DEF SettingsInv, C!ChangesKept
<1>3. C!StoredInForce'
  BY <1>1 DEF SettingsInv, C!StoredInForce
<1>4. \A b \in Admins : \A f : /\ Untelling(b, f)' <=> Untelling(b, f)
                               /\ Untelling(b, f) => admin'[b].before = admin[b].before
  BY <1>1 DEF Untelling
<1>5. \A f, value : Tells(f, value)' <=> Tells(f, value)
  BY DEF Tells, Entries
<1>6. TrailTold'
  <2> SUFFICES ASSUME NEW f \in Fields \ untold
               PROVE  /\ (\A b \in Admins : ~Untelling(b, f)') => Tells(f, stored[f])'
                      /\ \A b \in Admins : Untelling(b, f)' => Tells(f, admin[b].before[f])'
    BY DEF TrailTold
  <2>1. (\A b \in Admins : ~Untelling(b, f)') => Tells(f, stored[f])'
    <3>1. (\A b \in Admins : ~Untelling(b, f)) => Tells(f, stored[f])
      BY DEF SettingsInv, TrailTold
    <3>2. Tells(f, stored[f])' <=> Tells(f, stored[f])
      BY <1>5
    <3> QED
      BY <1>4, <3>1, <3>2
  <2>2. ASSUME NEW b \in Admins, Untelling(b, f)' PROVE Tells(f, admin[b].before[f])'
    <3>1. Untelling(b, f) /\ admin'[b].before = admin[b].before
      BY <1>4, <2>2
    <3> QED
      <4>1. Tells(f, admin[b].before[f])
        BY <3>1 DEF SettingsInv, TrailTold
      <4> QED
        BY <1>5, <3>1, <4>1
  <2> QED
    BY <2>1, <2>2
<1> QED
  BY <1>2, <1>3, <1>6

LEMMA BeginStep ==
    ASSUME SettingsInv, SettingsGiven, NEW a \in Admins, C!Begin(a)
    PROVE  SettingsInv'
<1>1. /\ SettingsType /\ RoutesHeld /\ current = stored
      /\ C!Idle \in AdminRecord /\ C!Free \notin Admins /\ admin[a].pc = "idle"
      /\ UNCHANGED <<stored, current, inForce, trail, sent, untold>>
  BY SettingsFacts DEF SettingsInv, C!Begin, C!ChangesKept
<1>2. PICK section \in C!Sections : /\ lock[section] = C!Free /\ lock' = [lock EXCEPT ![section] = a]
         /\ \E named \in SUBSET C!FieldsOf(section) \ {{}} :
              \E change \in [named -> Values] :
                 admin' = [admin EXCEPT ![a] =
                   [C!Idle EXCEPT !.pc = "write", !.section = section, !.change = change,
                      !.before = C!Section(current, section)]]
  BY DEF C!Begin, C!CanBegin
<1>3. PICK named \in SUBSET C!FieldsOf(section) : \E change \in [named -> Values] :
         admin' = [admin EXCEPT ![a] =
           [C!Idle EXCEPT !.pc = "write", !.section = section, !.change = change,
              !.before = C!Section(current, section)]]
  BY <1>2
<1>4. PICK change \in [named -> Values] :
         admin' = [admin EXCEPT ![a] =
           [C!Idle EXCEPT !.pc = "write", !.section = section, !.change = change,
              !.before = C!Section(current, section)]]
  BY <1>3
<1> DEFINE before == C!Section(current, section)
           new == [C!Idle EXCEPT !.pc = "write", !.section = section, !.change = change, !.before = before]
<1>5. C!FieldsOf(section) \subseteq Fields /\ DOMAIN stored = Fields
  BY <1>1, SettingsFacts DEF SettingsType
<1>6. change \in SomeSettings /\ DOMAIN change \subseteq C!FieldsOf(section)
  <2>1. change \in [named -> Stored] /\ named \in SUBSET Fields
    BY <1>4, <1>5 DEF Stored
  <2> QED
    BY <1>4, <2>1 DEF SomeSettings
<1>7. /\ before \in SomeSettings /\ DOMAIN before = C!FieldsOf(section)
      /\ \A f \in DOMAIN before : before[f] = stored[f]
  <2>1. before = C!Restrict(stored, C!FieldsOf(section))
    BY <1>1 DEF C!Section
  <2>2. DOMAIN before = C!FieldsOf(section) /\ \A f \in DOMAIN before : before[f] = stored[f]
    BY <2>1 DEF C!Restrict
  <2> QED
    BY <1>1, <1>5, <2>1, <2>2, RestrictTypes DEF SettingsType
<1> HIDE DEF before
<1>8. new \in AdminRecord
  BY <1>1, <1>2, <1>6, <1>7, SettingsFacts DEF AdminRecord, C!Sections
<1>9. /\ new.pc = "write" /\ new.section = section /\ new.change = change /\ new.before = before
  BY DEF C!Idle
<1>10. admin' = [admin EXCEPT ![a] = new]
  BY <1>4 DEF before
<1> HIDE DEF new
<1>11. \A b \in Admins : admin'[b] = IF b = a THEN new ELSE admin[b]
  BY <1>1, <1>10 DEF SettingsType
<1>12. SettingsType'
  BY <1>1, <1>2, <1>8, <1>10 DEF SettingsType
<1>13. RoutesHeld'
  <2> SUFFICES ASSUME NEW b \in Admins, admin'[b].pc # "idle"
               PROVE  /\ admin'[b].section \in C!Sections /\ lock'[admin'[b].section] = b
                      /\ DOMAIN admin'[b].before = C!FieldsOf(admin'[b].section)
                      /\ HoldsRoute(admin[b])'
    BY DEF RoutesHeld, C!Sections, C!FieldsOf
  <2>1. CASE b = a
    <3>1. admin'[b] = new
      BY <1>11, <2>1
    <3>2. lock'[section] = a
      BY <1>1, <1>2 DEF SettingsType
    <3>3. HoldsRoute(admin[b])'
      BY <1>1, <1>6, <1>7, <1>9, <3>1 DEF HoldsRoute, C!FieldsOf
    <3> QED
      BY <1>2, <1>7, <1>9, <2>1, <3>1, <3>2, <3>3
  <2>2. CASE b # a
    <3>1. admin'[b] = admin[b] /\ admin[b].section # section
      BY <1>1, <1>2, <1>11, <2>2 DEF RoutesHeld
    <3>2. HoldsRoute(admin[b])'
      BY <1>1, <3>1 DEF RoutesHeld, HoldsRoute, C!FieldsOf
    <3> QED
      BY <1>1, <1>2, <3>1, <3>2 DEF RoutesHeld, SettingsType
  <2> QED
    BY <2>1, <2>2
<1> QED
  BY <1>1, <1>8, <1>9, <1>10, <1>12, <1>13, QuietStep DEF SettingsInv

LEMMA RefusedStep ==
    ASSUME SettingsInv, SettingsGiven, NEW a \in Admins, C!Refused(a)
    PROVE  SettingsInv'
<1>1. /\ SettingsType /\ RoutesHeld /\ C!Idle \in AdminRecord /\ C!Idle.pc = "idle"
      /\ admin[a].pc = "write" /\ admin' = [admin EXCEPT ![a] = C!Idle]
      /\ lock' = [lock EXCEPT ![admin[a].section] = C!Free]
      /\ UNCHANGED <<stored, current, inForce, trail, sent, untold>>
  BY SettingsFacts DEF SettingsInv, C!Refused
<1>2. SettingsType'
  BY <1>1 DEF SettingsType
<1>3. RoutesHeld'
  <2> SUFFICES ASSUME NEW b \in Admins, admin'[b].pc # "idle"
               PROVE  /\ admin'[b].section \in C!Sections /\ lock'[admin'[b].section] = b
                      /\ DOMAIN admin'[b].before = C!FieldsOf(admin'[b].section)
                      /\ HoldsRoute(admin[b])'
    BY DEF RoutesHeld, C!Sections, C!FieldsOf
  <2>1. admin'[b] = admin[b] /\ b # a
    BY <1>1 DEF SettingsType
  <2>2. admin[b].section # admin[a].section
    BY <1>1, <2>1, OneOfRoute
  <2>3. HoldsRoute(admin[b])'
    BY <1>1, <2>1 DEF RoutesHeld, HoldsRoute, C!FieldsOf
  <2> QED
    BY <1>1, <2>1, <2>2, <2>3 DEF RoutesHeld, SettingsType
<1> QED
  BY <1>1, <1>2, <1>3, QuietStep DEF SettingsInv

\* What a change writes of its route is what it read there and what it was sent.
LEMMA WriteFacts ==
    ASSUME SettingsInv, SettingsGiven, NEW a \in Admins, C!Write(a)
    PROVE  \E merged \in SomeSettings :
              /\ DOMAIN merged = C!FieldsOf(admin[a].section)
              /\ admin' = [admin EXCEPT ![a] = [admin[a] EXCEPT !.pc = "apply", !.saved = merged]]
              /\ \A f \in DOMAIN merged : merged[f] = stored'[f]
              /\ stored' = C!Merged(stored, merged) /\ stored' = sent' /\ current' = stored'
<1> DEFINE r == admin[a]
           merged == C!Merged(r.before, r.change)
<1>1. /\ SettingsType /\ RoutesHeld /\ r \in AdminRecord /\ r.pc = "write" /\ stored = sent /\ current = stored
      /\ DOMAIN stored = Fields /\ stored \in AllSettings
  BY SettingsFacts DEF SettingsInv, C!Write, C!ChangesKept, SettingsType
<1>2. /\ DOMAIN r.before = C!FieldsOf(r.section) /\ DOMAIN r.change \subseteq C!FieldsOf(r.section)
      /\ \A f \in DOMAIN r.before : r.before[f] = stored[f]
      /\ r.before \in SomeSettings /\ r.change \in SomeSettings /\ C!FieldsOf(r.section) \subseteq Fields
  BY <1>1, SettingsFacts DEF RoutesHeld, HoldsRoute, AdminRecord
<1>3. /\ stored' = C!Merged(stored, merged) /\ current' = C!Merged(current, merged)
      /\ sent' = C!Merged(sent, r.change)
      /\ admin' = [admin EXCEPT ![a].pc = "apply", ![a].saved = merged]
  BY DEF C!Write
<1>4. admin' = [admin EXCEPT ![a] = [admin[a] EXCEPT !.pc = "apply", !.saved = merged]]
  BY <1>1, <1>3 DEF SettingsType
<1>5. /\ merged \in SomeSettings /\ DOMAIN merged = C!FieldsOf(r.section)
      /\ \A f \in DOMAIN merged : merged[f] = IF f \in DOMAIN r.change THEN r.change[f] ELSE stored[f]
  BY <1>2, MergedFacts, MergedTypes
<1> HIDE DEF merged
<1>6. stored' = sent'
  <2>1. stored' \in AllSettings /\ sent' \in AllSettings
    BY <1>1, <1>2, <1>3, <1>5, MergedTypes
  <2>2. \A f \in Fields : stored'[f] = sent'[f]
    BY <1>1, <1>2, <1>3, <1>5, MergedFacts
  <2> QED
    BY <2>1, <2>2 DEF AllSettings
<1>7. \A f \in DOMAIN merged : merged[f] = stored'[f]
  BY <1>1, <1>2, <1>3, <1>5, MergedFacts
<1> QED
  BY <1>1, <1>3, <1>4, <1>5, <1>6, <1>7

LEMMA WriteSettings ==
    ASSUME SettingsInv, SettingsGiven, NEW a \in Admins, C!Write(a)
    PROVE  SettingsInv'
<1>1. PICK merged \in SomeSettings :
              /\ DOMAIN merged = C!FieldsOf(admin[a].section)
              /\ admin' = [admin EXCEPT ![a] = [admin[a] EXCEPT !.pc = "apply", !.saved = merged]]
              /\ \A f \in DOMAIN merged : merged[f] = stored'[f]
              /\ stored' = C!Merged(stored, merged) /\ stored' = sent' /\ current' = stored'
  BY WriteFacts
<1> DEFINE new == [admin[a] EXCEPT !.pc = "apply", !.saved = merged]
<1>2. /\ SettingsType /\ RoutesHeld /\ admin[a] \in AdminRecord /\ admin[a].pc = "write"
      /\ DOMAIN stored = Fields /\ stored \in AllSettings
      /\ UNCHANGED <<inForce, lock, trail, untold>>
  BY SettingsFacts DEF SettingsInv, C!Write, SettingsType
<1>3. new \in AdminRecord
  BY <1>2 DEF AdminRecord
<1>4. /\ new.pc = "apply" /\ new.saved = merged /\ new.section = admin[a].section
      /\ new.before = admin[a].before
  BY <1>2 DEF AdminRecord
<1>5. \A b \in Admins : admin'[b] = IF b = a THEN new ELSE admin[b]
  BY <1>1, <1>2 DEF SettingsType
<1>6. /\ admin[a].section \in C!Sections /\ lock[admin[a].section] = a
      /\ DOMAIN admin[a].before = DOMAIN merged
      /\ \A f \in DOMAIN merged : admin[a].before[f] = stored[f]
      /\ DOMAIN merged \subseteq Fields
  <2>1. /\ admin[a].section \in C!Sections /\ lock[admin[a].section] = a
        /\ DOMAIN admin[a].before = C!FieldsOf(admin[a].section) /\ HoldsRoute(admin[a])
    BY <1>2 DEF RoutesHeld
  <2>2. \A f \in DOMAIN admin[a].before : admin[a].before[f] = stored[f]
    BY <1>2, <2>1 DEF HoldsRoute
  <2>3. DOMAIN merged \subseteq Fields
    BY <1>1, <1>2, SettingsFacts
  <2> QED
    BY <1>1, <2>1, <2>2, <2>3
<1>7. \A f \in Fields \ DOMAIN merged : stored'[f] = stored[f]
  <2>1. \A f \in DOMAIN stored :
           C!Merged(stored, merged)[f] = IF f \in DOMAIN merged THEN merged[f] ELSE stored[f]
    BY MergedFacts
  <2> QED
    BY <1>1, <1>2, <2>1
<1>8. \A b \in Admins \ {a} : admin[b].pc # "idle" => C!FieldsOf(admin[b].section) \cap DOMAIN merged = {}
  BY <1>1, <1>2, OneOfRoute DEF C!FieldsOf
<1>9. SettingsType'
  <2>1. stored' \in AllSettings
    BY <1>1, <1>2, MergedTypes
  <2> QED
    BY <1>1, <1>2, <1>3, <2>1 DEF SettingsType
<1> HIDE DEF new
<1>10. RoutesHeld'
  <2> SUFFICES ASSUME NEW b \in Admins, admin'[b].pc # "idle"
               PROVE  /\ admin'[b].section \in C!Sections /\ lock'[admin'[b].section] = b
                      /\ DOMAIN admin'[b].before = C!FieldsOf(admin'[b].section)
                      /\ HoldsRoute(admin[b])'
    BY DEF RoutesHeld, C!Sections, C!FieldsOf
  <2>1. CASE b = a
    <3>1. admin'[b] = new
      BY <1>5, <2>1
    <3>2. HoldsRoute(admin[b])'
      BY <1>1, <1>4, <3>1 DEF HoldsRoute, C!FieldsOf
    <3> QED
      BY <1>1, <1>2, <1>4, <1>6, <2>1, <3>1, <3>2
  <2>2. CASE b # a
    <3>1. admin'[b] = admin[b] /\ C!FieldsOf(admin[b].section) \subseteq Fields
          /\ C!FieldsOf(admin[b].section) \cap DOMAIN merged = {}
      BY <1>2, <1>5, <1>8, <2>2, SettingsFacts
    <3>2. \A f \in C!FieldsOf(admin[b].section) : stored'[f] = stored[f]
      BY <1>7, <3>1
    <3>3. HoldsRoute(admin[b]) /\ DOMAIN admin[b].before = C!FieldsOf(admin[b].section)
      BY <1>2, <3>1 DEF RoutesHeld
    <3>4. HoldsRoute(admin[b])'
      BY <3>1, <3>2, <3>3 DEF HoldsRoute, C!FieldsOf
    <3> QED
      BY <1>2, <3>1, <3>4 DEF RoutesHeld
  <2> QED
    BY <2>1, <2>2
<1>11. C!ChangesKept'
  BY <1>1 DEF C!ChangesKept
<1>12. C!StoredInForce'
  <2> SUFFICES ASSUME NEW f \in Fields \ AtRestart,
                      \A b \in Admins : admin'[b].pc = "apply" => f \notin DOMAIN admin'[b].saved
               PROVE  inForce'[f] = stored'[f]
    BY DEF C!StoredInForce
  <2>1. f \notin DOMAIN merged
    BY <1>4, <1>5
  <2>2. \A b \in Admins : admin[b].pc = "apply" => f \notin DOMAIN admin[b].saved
    BY <1>2, <1>5
  <2> QED
    BY <1>2, <1>7, <2>1, <2>2 DEF SettingsInv, C!StoredInForce
<1>13. TrailTold'
  <2>1. \A f, value : Tells(f, value)' <=> Tells(f, value)
    BY <1>2 DEF Tells, Entries
  <2> SUFFICES ASSUME NEW f \in Fields \ untold
               PROVE  /\ (\A b \in Admins : ~Untelling(b, f)') => Tells(f, stored'[f])
                      /\ \A b \in Admins : Untelling(b, f)' => Tells(f, admin'[b].before[f])
    BY <1>2, <2>1 DEF TrailTold
  <2>2. /\ (\A b \in Admins : ~Untelling(b, f)) => Tells(f, stored[f])
        /\ \A b \in Admins : Untelling(b, f) => Tells(f, admin[b].before[f])
    BY DEF SettingsInv, TrailTold
  <2>3. /\ Untelling(a, f)' <=> f \in DOMAIN merged
        /\ ~Untelling(a, f)
        /\ \A b \in Admins \ {a} : /\ Untelling(b, f)' <=> Untelling(b, f)
                                   /\ admin'[b] = admin[b]
    BY <1>2, <1>4, <1>5 DEF Untelling
  <2>4. CASE f \in DOMAIN merged
    <3>1. \A b \in Admins : ~Untelling(b, f)
      <4> SUFFICES ASSUME NEW b \in Admins \ {a}, Untelling(b, f) PROVE FALSE
        BY <2>3
      <4>1. DOMAIN admin[b].saved = C!FieldsOf(admin[b].section) /\ admin[b].pc # "idle"
        BY <1>2 DEF Untelling, RoutesHeld, HoldsRoute
      <4> QED
        BY <1>8, <2>4, <4>1 DEF Untelling
    <3>2. admin'[a].before[f] = stored[f] /\ Tells(f, stored[f])
      BY <1>4, <1>5, <1>6, <2>2, <2>4, <3>1
    <3> QED
      BY <2>3, <2>4, <3>1, <3>2
  <2>5. CASE f \notin DOMAIN merged
    BY <1>7, <2>2, <2>3, <2>5
  <2> QED
    BY <2>4, <2>5
<1> QED
  BY <1>9, <1>10, <1>11, <1>12, <1>13 DEF SettingsInv

LEMMA ApplyStep ==
    ASSUME SettingsInv, SettingsGiven, NEW a \in Admins, C!Apply(a)
    PROVE  SettingsInv'
<1> DEFINE new == [admin[a] EXCEPT !.pc = "audit"]
           saved == admin[a].saved
           atOnce == C!Restrict(saved, DOMAIN saved \ AtRestart)
<1>1. /\ SettingsType /\ RoutesHeld /\ admin[a] \in AdminRecord /\ admin[a].pc = "apply"
      /\ inForce \in AllSettings /\ DOMAIN inForce = Fields
      /\ UNCHANGED <<stored, current, lock, trail, sent, untold>>
      /\ inForce' = C!Merged(inForce, atOnce)
  BY SettingsFacts DEF SettingsInv, C!Apply, SettingsType
<1>2. admin' = [admin EXCEPT ![a] = new]
  BY <1>1 DEF C!Apply, SettingsType
<1>3. new \in AdminRecord /\ new.pc = "audit" /\ new.saved = saved /\ new.section = admin[a].section
      /\ new.before = admin[a].before
  BY <1>1 DEF AdminRecord
<1>4. \A b \in Admins : admin'[b] = IF b = a THEN new ELSE admin[b]
  BY <1>1, <1>2 DEF SettingsType
<1>5. /\ atOnce \in SomeSettings /\ DOMAIN atOnce = DOMAIN saved \ AtRestart
      /\ \A f \in DOMAIN atOnce : atOnce[f] = stored[f]
  <2>1. saved \in SomeSettings /\ \A f \in DOMAIN saved : saved[f] = stored[f]
    BY <1>1 DEF AdminRecord, RoutesHeld, HoldsRoute
  <2>2. DOMAIN atOnce = DOMAIN saved \ AtRestart /\ \A f \in DOMAIN atOnce : atOnce[f] = saved[f]
    BY DEF C!Restrict
  <2> QED
    BY <2>1, <2>2, RestrictTypes
<1> HIDE DEF atOnce, new
<1>6. SettingsType'
  <2>1. inForce' \in AllSettings
    BY <1>1, <1>5, MergedTypes
  <2> QED
    BY <1>1, <1>2, <1>3, <2>1 DEF SettingsType
<1>7. RoutesHeld'
  BY <1>1, <1>3, <1>4 DEF RoutesHeld, HoldsRoute, C!Sections, C!FieldsOf
<1>8. C!StoredInForce'
  <2> SUFFICES ASSUME NEW f \in Fields \ AtRestart,
                      \A b \in Admins : admin'[b].pc = "apply" => f \notin DOMAIN admin'[b].saved
               PROVE  inForce'[f] = stored[f]
    BY <1>1 DEF C!StoredInForce
  <2>1. CASE f \in DOMAIN saved
    BY <1>1, <1>5, <2>1, MergedFacts
  <2>2. CASE f \notin DOMAIN saved
    <3>1. \A b \in Admins : admin[b].pc = "apply" => f \notin DOMAIN admin[b].saved
      BY <1>4, <2>2
    <3>2. inForce[f] = stored[f]
      BY <3>1 DEF SettingsInv, C!StoredInForce
    <3> QED
      BY <1>1, <1>5, <2>2, <3>2, MergedFacts
  <2> QED
    BY <2>1, <2>2
<1>9. TrailTold'
  <2>1. \A f, value : Tells(f, value)' <=> Tells(f, value)
    BY <1>1 DEF Tells, Entries
  <2>2. \A b \in Admins : \A f : /\ Untelling(b, f)' <=> Untelling(b, f)
                                 /\ admin'[b].before = admin[b].before
    BY <1>1, <1>3, <1>4 DEF Untelling
  <2> QED
    BY <1>1, <2>1, <2>2 DEF SettingsInv, TrailTold
<1> QED
  BY <1>1, <1>6, <1>7, <1>8, <1>9 DEF SettingsInv, C!ChangesKept

\* The entry of a change: what differs of what was read and what was saved.
LEMMA EntryFacts ==
    ASSUME SettingsInv, SettingsGiven, NEW a \in Admins, C!Audit(a)
    PROVE  \E changed \in SomeSettings :
              /\ DOMAIN changed = {f \in DOMAIN admin[a].saved : admin[a].before[f] # admin[a].saved[f]}
              /\ \A f \in DOMAIN changed : changed[f] = admin[a].saved[f]
              /\ \/ /\ trail' = IF DOMAIN changed = {} THEN trail ELSE Append(trail, changed)
                    /\ untold' = untold \ DOMAIN changed
                 \/ /\ untold' = untold \cup DOMAIN changed
                    /\ trail' = trail
<1> DEFINE changed == C!changedSettings(admin[a].before, admin[a].saved)
<1>1. \/ /\ trail' = IF DOMAIN changed = {} THEN trail ELSE Append(trail, changed)
         /\ untold' = untold \ DOMAIN changed
      \/ /\ untold' = untold \cup DOMAIN changed
         /\ trail' = trail
  BY DEF C!Audit
<1>2. /\ DOMAIN changed = {f \in DOMAIN admin[a].saved : admin[a].before[f] # admin[a].saved[f]}
      /\ \A f \in DOMAIN changed : changed[f] = admin[a].saved[f]
  BY DEF C!changedSettings, C!Restrict
<1>3. changed \in SomeSettings
  <2>1. admin[a].saved \in SomeSettings
    BY SettingsFacts DEF SettingsInv, AdminRecord
  <2> QED
    BY <2>1, RestrictTypes DEF C!changedSettings
<1> HIDE DEF changed
<1> QED
  BY <1>1, <1>2, <1>3

\* An entry tells what differs from what was read; the rest of the route is as it
\* was told before.
LEMMA AuditTells ==
    ASSUME SettingsInv, SettingsGiven, NEW a \in Admins, C!Audit(a)
    PROVE  TrailTold'
<1> DEFINE r == admin[a]
<1>1. /\ SettingsType /\ RoutesHeld /\ r \in AdminRecord /\ r.pc = "audit" /\ TrailTold
      /\ stored' = stored /\ admin' = [admin EXCEPT ![a] = C!Idle] /\ C!Idle.pc = "idle"
  BY SettingsFacts DEF SettingsInv, C!Audit
<1>2. PICK changed \in SomeSettings :
         /\ DOMAIN changed = {f \in DOMAIN r.saved : r.before[f] # r.saved[f]}
         /\ \A f \in DOMAIN changed : changed[f] = r.saved[f]
         /\ \/ /\ trail' = IF DOMAIN changed = {} THEN trail ELSE Append(trail, changed)
               /\ untold' = untold \ DOMAIN changed
            \/ /\ untold' = untold \cup DOMAIN changed
               /\ trail' = trail
  BY EntryFacts
<1>3. /\ r.saved \in SomeSettings /\ DOMAIN r.saved \subseteq Fields
      /\ \A f \in DOMAIN r.saved : r.saved[f] = stored[f]
      /\ DOMAIN r.saved = C!FieldsOf(r.section)
  BY <1>1, SettingsFacts DEF RoutesHeld, HoldsRoute, AdminRecord
<1>4. \A f \in DOMAIN changed : changed[f] = stored[f]
  BY <1>2, <1>3
<1>5. ASSUME NEW f, NEW value, f \notin DOMAIN changed, Tells(f, value) PROVE Tells(f, value)'
  <2>1. CASE trail' = trail
    BY <1>5, <2>1 DEF Tells, Entries
  <2>2. CASE trail' = Append(trail, changed)
    BY <1>1, <1>2, <1>5, <2>2, AppendTells
  <2> QED
    BY <1>2, <2>1, <2>2
<1>6. ASSUME NEW f \in DOMAIN changed, f \notin untold' PROVE Tells(f, stored[f])'
  <2>1. trail' = Append(trail, changed)
    BY <1>2, <1>6
  <2>2. Tells(f, changed[f])'
    BY <1>1, <1>2, <2>1, AppendTells
  <2> QED
    BY <1>1, <1>4, <2>2
<1>7. /\ \A b \in Admins : \A f : Untelling(b, f)' <=> b # a /\ Untelling(b, f)
      /\ \A b \in Admins \ {a} : admin'[b] = admin[b]
  BY <1>1 DEF Untelling, SettingsType
<1>8. \A b \in Admins \ {a}, f \in DOMAIN r.saved : ~Untelling(b, f)
  <2> SUFFICES ASSUME NEW b \in Admins \ {a}, NEW f \in DOMAIN r.saved, Untelling(b, f) PROVE FALSE
    OBVIOUS
  <2>1. DOMAIN admin[b].saved = C!FieldsOf(admin[b].section) /\ admin[b].pc # "idle"
        /\ admin[b].section # r.section
    BY <1>1, OneOfRoute DEF Untelling, RoutesHeld, HoldsRoute
  <2> QED
    BY <1>3, <2>1 DEF Untelling, C!FieldsOf
<1> SUFFICES ASSUME NEW f \in Fields \ untold'
             PROVE  /\ (\A b \in Admins : ~Untelling(b, f)') => Tells(f, stored[f])'
                    /\ \A b \in Admins : Untelling(b, f)' => Tells(f, admin[b].before[f])'
  BY DEF TrailTold
<1>9. f \notin DOMAIN changed => f \notin untold
  BY <1>2
<1>10. CASE f \in DOMAIN changed
  <2>1. f \in DOMAIN r.saved
    BY <1>2, <1>3, <1>10
  <2> QED
    BY <1>6, <1>7, <1>8, <1>10, <2>1
<1>11. CASE f \in DOMAIN r.saved \ DOMAIN changed
  <2>1. r.before[f] = stored[f] /\ Untelling(a, f)
    BY <1>1, <1>2, <1>3, <1>11 DEF Untelling
  <2>2. Tells(f, stored[f])
    BY <1>1, <1>9, <1>11, <2>1 DEF TrailTold
  <2>3. Tells(f, stored[f])'
    <3>1. \A value : Tells(f, value) => Tells(f, value)'
      BY <1>5, <1>11
    <3> QED
      BY <1>1, <2>2, <3>1
  <2> QED
    BY <1>7, <1>8, <1>11, <2>3
<1>12. CASE f \notin DOMAIN r.saved
  <2>1. f \notin DOMAIN changed /\ ~Untelling(a, f)
    BY <1>2, <1>3, <1>12 DEF Untelling
  <2>2. \A value : Tells(f, value) => Tells(f, value)'
    BY <1>5, <2>1
  <2>3. /\ (\A b \in Admins : ~Untelling(b, f)) => Tells(f, stored[f])
        /\ \A b \in Admins : Untelling(b, f) => Tells(f, admin[b].before[f])
    BY <1>1, <1>9, <2>1 DEF TrailTold
  <2>4. (\A b \in Admins : ~Untelling(b, f)') => Tells(f, stored[f])'
    BY <1>1, <1>7, <2>1, <2>2, <2>3
  <2>5. ASSUME NEW b \in Admins, Untelling(b, f)' PROVE Tells(f, admin[b].before[f])'
    <3>1. Tells(f, admin[b].before[f]) /\ admin'[b] = admin[b]
      BY <1>7, <2>3, <2>5
    <3> QED
      BY <2>2, <3>1
  <2> QED
    BY <2>4, <2>5
<1> QED
  BY <1>10, <1>11, <1>12

LEMMA AuditStep ==
    ASSUME SettingsInv, SettingsGiven, NEW a \in Admins, C!Audit(a)
    PROVE  SettingsInv'
<1>1. /\ SettingsType /\ RoutesHeld /\ admin[a] \in AdminRecord /\ admin[a].pc = "audit"
      /\ admin' = [admin EXCEPT ![a] = C!Idle] /\ C!Idle.pc = "idle" /\ C!Idle \in AdminRecord
      /\ lock' = [lock EXCEPT ![admin[a].section] = C!Free]
      /\ UNCHANGED <<stored, current, inForce, sent>>
  BY SettingsFacts DEF SettingsInv, C!Audit
<1>2. trail' \in Seq(SomeSettings)
  <2>1. PICK changed \in SomeSettings : trail' = trail \/ trail' = Append(trail, changed)
    BY EntryFacts
  <2> QED
    BY <1>1, <2>1 DEF SettingsType
<1>3. SettingsType'
  BY <1>1, <1>2 DEF SettingsType
<1>4. RoutesHeld'
  <2> SUFFICES ASSUME NEW b \in Admins, admin'[b].pc # "idle"
               PROVE  /\ admin'[b].section \in C!Sections /\ lock'[admin'[b].section] = b
                      /\ DOMAIN admin'[b].before = C!FieldsOf(admin'[b].section)
                      /\ HoldsRoute(admin[b])'
    BY DEF RoutesHeld, C!Sections, C!FieldsOf
  <2>1. admin'[b] = admin[b] /\ b # a
    BY <1>1 DEF SettingsType
  <2>2. admin[b].section # admin[a].section
    BY <1>1, <2>1, OneOfRoute
  <2>3. HoldsRoute(admin[b])'
    BY <1>1, <2>1 DEF RoutesHeld, HoldsRoute, C!FieldsOf
  <2> QED
    BY <1>1, <2>1, <2>2, <2>3 DEF RoutesHeld, SettingsType
<1>5. C!ChangesKept' /\ C!StoredInForce'
  BY <1>1 DEF SettingsInv, C!ChangesKept, C!StoredInForce, SettingsType
<1> QED
  BY <1>3, <1>4, <1>5, AuditTells DEF SettingsInv

\* What was written and not told is untold from now on.
LEMMA RestartStep ==
    ASSUME SettingsInv, SettingsGiven, C!Crash
    PROVE  SettingsInv'
<1>1. /\ SettingsType /\ RoutesHeld /\ TrailTold /\ stored = sent
      /\ C!Idle \in AdminRecord /\ C!Idle.pc = "idle"
      /\ admin' = [a \in Admins |-> C!Idle] /\ lock' = [s \in C!Sections |-> C!Free]
      /\ current' = stored /\ inForce' = stored /\ UNCHANGED <<stored, trail, sent>>
  BY SettingsFacts DEF SettingsInv, C!Crash, C!ChangesKept
<1>2. untold \subseteq untold'
      /\ \A a \in Admins : admin[a].pc \in {"apply", "audit"} =>
            DOMAIN C!changedSettings(admin[a].before, admin[a].saved) \subseteq untold'
  BY DEF C!Crash
<1>3. SettingsType' /\ RoutesHeld' /\ C!ChangesKept' /\ C!StoredInForce'
  BY <1>1 DEF SettingsType, RoutesHeld, C!ChangesKept, C!StoredInForce, AllSettings
<1>4. TrailTold'
  <2>1. \A f, value : Tells(f, value)' <=> Tells(f, value)
    BY <1>1 DEF Tells, Entries
  <2>2. \A b \in Admins : \A f : ~Untelling(b, f)'
    BY <1>1 DEF Untelling
  <2> SUFFICES ASSUME NEW f \in Fields \ untold' PROVE Tells(f, stored[f])
    BY <1>1, <2>1, <2>2 DEF TrailTold
  <2>3. CASE \A b \in Admins : ~Untelling(b, f)
    BY <1>1, <1>2, <2>3 DEF TrailTold
  <2>4. ASSUME NEW b \in Admins, Untelling(b, f) PROVE Tells(f, stored[f])
    <3>1. Tells(f, admin[b].before[f])
      BY <1>1, <1>2, <2>4 DEF TrailTold
    <3>2. f \notin DOMAIN C!changedSettings(admin[b].before, admin[b].saved)
      BY <1>2, <2>4 DEF Untelling
    <3>3. admin[b].before[f] = admin[b].saved[f] /\ admin[b].saved[f] = stored[f]
      <4>1. f \in DOMAIN admin[b].saved /\ HoldsRoute(admin[b]) /\ admin[b].pc \in {"apply", "audit"}
        BY <1>1, <2>4 DEF Untelling, RoutesHeld
      <4>2. admin[b].before[f] = admin[b].saved[f]
        BY <3>2, <4>1 DEF C!changedSettings, C!Restrict
      <4> QED
        BY <4>1, <4>2 DEF HoldsRoute
    <3> QED
      BY <3>1, <3>3
  <2> QED
    BY <2>3, <2>4
<1> QED
  BY <1>3, <1>4 DEF SettingsInv

\* The last change of a setting is the one that is stored, in force and told,
\* whichever changes of either route, failures and restarts it met
\* (UpdateServerSettings, UpdateLockout, config.Settings).
THEOREM SettingsStandTheorem == C!Spec => []SettingsStand
<1> SUFFICES ASSUME SettingsGiven PROVE C!Spec => []SettingsStand
  BY ServicesAssumption
<1>1. C!Init => SettingsInv
  <2> SUFFICES ASSUME C!Init PROVE SettingsInv
    OBVIOUS
  <2>1. C!Idle \in AdminRecord /\ C!Idle.pc = "idle"
    <3>1. << >> \in [{} -> Stored]
      OBVIOUS
    <3>2. << >> \in SomeSettings
      BY <3>1 DEF SomeSettings
    <3> QED
      BY <3>2 DEF C!Idle, AdminRecord
  <2>2. Defaults \in AllSettings
    BY DEF SettingsGiven, AllSettings, Stored
  <2>3. SettingsType /\ DOMAIN trail = {}
    BY <2>1, <2>2 DEF C!Init, SettingsType
  <2>4. RoutesHeld
    BY <2>1 DEF C!Init, RoutesHeld
  <2>5. C!ChangesKept /\ C!StoredInForce
    BY DEF C!Init, C!ChangesKept, C!StoredInForce
  <2>6. TrailTold
    BY <2>1, <2>3 DEF C!Init, TrailTold, Tells, Entries, Untelling
  <2> QED
    BY <2>3, <2>4, <2>5, <2>6 DEF SettingsInv
<1>2. SettingsInv /\ [C!Next]_(C!vars) => SettingsInv'
  <2> SUFFICES ASSUME SettingsInv, [C!Next]_(C!vars) PROVE SettingsInv'
    OBVIOUS
  <2>1. CASE UNCHANGED C!vars
    BY <2>1 DEF C!vars, SettingsInv, SettingsType, RoutesHeld, HoldsRoute, C!ChangesKept,
       C!StoredInForce, TrailTold, Tells, Entries, Untelling, C!Sections, C!FieldsOf
  <2> QED
    BY <2>1, BeginStep, WriteSettings, RefusedStep, ApplyStep, AuditStep, RestartStep DEF C!Next
<1>3. SettingsInv => C!TrailTellsLast
  <2> SUFFICES ASSUME SettingsInv, NEW f \in Fields \ untold,
                      \A a \in Admins : admin[a].pc \in {"apply", "audit"} => f \notin DOMAIN admin[a].saved
               PROVE  LET entries == {i \in DOMAIN trail : f \in DOMAIN trail[i]}
                          newest == CHOOSE i \in entries : \A j \in entries : j <= i
                      IN  stored[f] = IF entries = {} THEN Defaults[f] ELSE trail[newest][f]
    BY DEF C!TrailTellsLast
  <2>1. Tells(f, stored[f])
    BY DEF SettingsInv, TrailTold, Untelling
  <2> DEFINE newest == CHOOSE i \in Entries(f) : \A j \in Entries(f) : j <= i
  <2>2. CASE Entries(f) = {}
    BY <2>1, <2>2 DEF Tells, Entries
  <2>3. CASE Entries(f) # {}
    <3>1. PICK i \in Entries(f) : (\A j \in Entries(f) : j <= i) /\ trail[i][f] = stored[f]
      BY <2>1, <2>3 DEF Tells
    <3>2. newest \in Entries(f) /\ \A j \in Entries(f) : j <= newest
      BY <3>1
    <3>3. Entries(f) \subseteq Nat
      BY DEF SettingsInv, SettingsType, Entries
    <3>4. newest = i
      BY <3>1, <3>2, <3>3
    <3> HIDE DEF newest
    <3>5. stored[f] = trail[newest][f]
      BY <3>1, <3>4
    <3> QED
      BY <2>3, <3>5 DEF newest, Entries
  <2> QED
    BY <2>2, <2>3
<1>4. SettingsInv => C!SettingsStand
  BY <1>3 DEF SettingsInv, C!SettingsStand
<1> QED
  BY <1>1, <1>2, <1>4, PTL DEF C!Spec, SettingsStand

-----------------------------------------------------------------------------
(* The sign-in lockout. *)

Entry == [failures : Nat, since : Nat, until : Nat]

\* A table is within its bound; an entry began before now, and one that is blocked
\* counts from the end of its block.
TableOK(tracked) ==
    /\ tracked \in [DOMAIN tracked -> Entry]
    /\ IsFiniteSet(DOMAIN tracked) /\ Cardinality(DOMAIN tracked) <= MaxTracked
    /\ \A k \in DOMAIN tracked :
          /\ tracked[k].since <= now
          /\ G!Running(tracked[k]) => tracked[k].since = G!Never

LockoutInv ==
    /\ now \in Nat /\ limits \in LimitChoices
    /\ TableOK(accounts) /\ TableOK(addresses)

LEMMA SameCount ==
    ASSUME NEW S PROVE G!Cardinality(S) = Cardinality(S)
BY DEF G!Cardinality, Cardinality

LEMMA CountFacts ==
    ASSUME LockoutInv, LimitsGiven, NEW entry \in Entry, NEW limit,
           entry.since <= now, G!Running(entry) => entry.since = G!Never
    PROVE  /\ G!Count(entry, limit) \in Entry
           /\ G!Count(entry, limit).since <= now
           /\ G!Running(G!Count(entry, limit)) => G!Count(entry, limit).since = G!Never
<1> DEFINE fresh == entry.failures = 0 \/ now - entry.since >= limits.block
           failures == (IF fresh THEN 0 ELSE entry.failures) + 1
           counting == [failures |-> failures, until |-> entry.until,
                        since |-> IF fresh THEN now ELSE entry.since]
           blocked == [failures |-> 0, since |-> G!Never, until |-> now + limits.block]
<1>1. now \in Nat /\ limits.block \in Nat /\ entry.failures \in Nat /\ entry.since \in Nat
      /\ entry.until \in Nat /\ G!Never = 0
  BY DEF LockoutInv, LimitsGiven, Entry, G!Never
<1>2. failures \in Nat
  BY <1>1
<1>3. \/ G!Running(entry) /\ G!Count(entry, limit) = entry
      \/ ~G!Running(entry) /\ G!Count(entry, limit) = counting
      \/ G!Count(entry, limit) = blocked
  BY DEF G!Count
<1> HIDE DEF failures, fresh
<1>4. counting \in Entry /\ blocked \in Entry
  BY <1>1, <1>2 DEF Entry
<1>5. counting.since <= now /\ counting.until = entry.until
  BY <1>1
<1>6. blocked.since = G!Never /\ G!Never <= now
  BY <1>1
<1> HIDE DEF counting, blocked
<1>7. CASE G!Running(entry) /\ G!Count(entry, limit) = entry
  BY <1>7
<1>8. CASE ~G!Running(entry) /\ G!Count(entry, limit) = counting
  BY <1>4, <1>5, <1>8 DEF G!Running
<1>9. CASE G!Count(entry, limit) = blocked
  BY <1>4, <1>6, <1>9
<1> QED
  BY <1>3, <1>7, <1>8, <1>9

\* A table with room made in it is of the same kind, has room, and lost a blocked
\* entry only when every entry is blocked at least as long.
LostToBlocked(tracked, left) ==
    \A n \in DOMAIN tracked :
        G!Running(tracked[n]) /\ n \notin DOMAIN left =>
            \A o \in DOMAIN tracked : G!Running(tracked[o]) /\ tracked[o].until >= tracked[n].until

LEMMA RoomyFacts ==
    ASSUME LockoutInv, LimitsGiven, NEW tracked, TableOK(tracked), NEW roomy \in G!Roomy(tracked)
    PROVE  /\ TableOK(roomy) /\ Cardinality(DOMAIN roomy) < MaxTracked
           /\ LostToBlocked(tracked, roomy)
<1> DEFINE kept == {k \in DOMAIN tracked : ~G!Stale(tracked[k])}
           oldest == {k \in kept : \A o \in kept : G!Started(tracked[k]) <= G!Started(tracked[o])}
<1>1. /\ IsFiniteSet(DOMAIN tracked) /\ Cardinality(DOMAIN tracked) \in Nat
      /\ Cardinality(DOMAIN tracked) <= MaxTracked /\ MaxTracked \in Nat /\ now \in Nat
      /\ \A k \in DOMAIN tracked : tracked[k] \in Entry
      /\ kept \subseteq DOMAIN tracked
  BY FS_CardinalityType DEF TableOK, LimitsGiven, LockoutInv
<1>2. IsFiniteSet(kept) /\ Cardinality(kept) \in Nat /\ Cardinality(kept) <= Cardinality(DOMAIN tracked)
      /\ (Cardinality(kept) = Cardinality(DOMAIN tracked) => kept = DOMAIN tracked)
  BY <1>1, FS_Subset, FS_CardinalityType
<1>3. ASSUME NEW D, D \subseteq DOMAIN tracked, Cardinality(D) < MaxTracked
      PROVE  TableOK(G!Restrict(tracked, D)) /\ DOMAIN G!Restrict(tracked, D) = D
  <2>1. IsFiniteSet(D)
    BY <1>1, <1>3, FS_Subset
  <2>2. G!Restrict(tracked, D) = [k \in D |-> tracked[k]]
    BY DEF G!Restrict
  <2>3. Cardinality(D) <= MaxTracked
    BY <1>1, <1>3, <2>1, FS_CardinalityType
  <2> QED
    BY <1>1, <1>3, <2>1, <2>2, <2>3 DEF TableOK
<1>4. \/ Cardinality(DOMAIN tracked) < MaxTracked /\ roomy = tracked
      \/ Cardinality(kept) < MaxTracked /\ roomy = G!Restrict(tracked, kept)
      \/ /\ ~(Cardinality(kept) < MaxTracked)
         /\ \E k \in oldest : roomy = G!Restrict(tracked, kept \ {k})
  BY SameCount DEF G!Roomy
<1>5. CASE Cardinality(DOMAIN tracked) < MaxTracked /\ roomy = tracked
  BY <1>5 DEF LostToBlocked
<1>6. CASE Cardinality(kept) < MaxTracked /\ roomy = G!Restrict(tracked, kept)
  <2>1. \A n \in DOMAIN tracked : G!Running(tracked[n]) => n \in kept
    BY DEF G!Stale
  <2> QED
    BY <1>1, <1>3, <1>6, <2>1 DEF LostToBlocked
<1>7. ASSUME ~(Cardinality(kept) < MaxTracked), NEW k \in oldest, roomy = G!Restrict(tracked, kept \ {k})
      PROVE  /\ TableOK(roomy) /\ Cardinality(DOMAIN roomy) < MaxTracked
             /\ LostToBlocked(tracked, roomy)
  <2>1. kept = DOMAIN tracked
    BY <1>1, <1>2, <1>7
  <2>2. k \in kept /\ \A o \in kept : G!Started(tracked[k]) <= G!Started(tracked[o])
    OBVIOUS
  <2> HIDE DEF kept, oldest
  <2>3. Cardinality(kept \ {k}) = Cardinality(kept) - 1
    BY <1>2, <2>2, FS_RemoveElement
  <2>4. Cardinality(kept \ {k}) < MaxTracked
    BY <1>1, <1>2, <2>3
  <2>5. TableOK(roomy) /\ DOMAIN roomy = kept \ {k}
    BY <1>1, <1>3, <1>7, <2>4
  <2>6. ASSUME G!Running(tracked[k]), NEW o \in DOMAIN tracked
        PROVE  G!Running(tracked[o]) /\ tracked[o].until >= tracked[k].until
    <3>1. /\ tracked[k] \in Entry /\ tracked[o] \in Entry /\ k \in DOMAIN tracked
          /\ tracked[k].since = G!Never /\ tracked[o].since <= now
      BY <1>1, <2>1, <2>2, <2>6 DEF TableOK
    <3>2. G!Started(tracked[k]) = tracked[k].until /\ tracked[k].until > now
      BY <2>6, <3>1 DEF G!Started, G!Running
    <3>3. tracked[k].until <= G!Started(tracked[o])
      BY <2>1, <2>2, <3>2
    <3> QED
      BY <1>1, <3>1, <3>2, <3>3 DEF G!Started, G!Running, Entry
  <2> QED
    BY <2>1, <2>4, <2>5, <2>6 DEF LostToBlocked
<1> QED
  BY <1>4, <1>5, <1>6, <1>7

LEMMA FailFacts ==
    ASSUME LockoutInv, LimitsGiven, NEW tracked, TableOK(tracked), NEW key, NEW limit,
           NEW left \in G!fail(tracked, key, limit)
    PROVE  TableOK(left) /\ LostToBlocked(tracked, left)
<1>1. CASE left = tracked
  BY <1>1 DEF LostToBlocked
<1>2. CASE key \in DOMAIN tracked /\ left = [tracked EXCEPT ![key] = G!Count(tracked[key], limit)]
  <2>1. /\ tracked[key] \in Entry /\ tracked[key].since <= now
        /\ G!Running(tracked[key]) => tracked[key].since = G!Never
    BY <1>2 DEF TableOK
  <2>2. /\ G!Count(tracked[key], limit) \in Entry /\ G!Count(tracked[key], limit).since <= now
        /\ G!Running(G!Count(tracked[key], limit)) => G!Count(tracked[key], limit).since = G!Never
    BY <2>1, CountFacts
  <2>3. DOMAIN left = DOMAIN tracked
    BY <1>2
  <2> QED
    BY <1>2, <2>2, <2>3 DEF TableOK, LostToBlocked
<1>3. ASSUME NEW roomy \in G!Roomy(tracked), key \notin DOMAIN tracked,
             left = [k \in DOMAIN roomy \cup {key} |->
                       IF k = key
                       THEN G!Count([failures |-> 0, since |-> G!Never, until |-> G!Never], limit)
                       ELSE roomy[k]]
      PROVE  TableOK(left) /\ LostToBlocked(tracked, left)
  <2> DEFINE first == [failures |-> 0, since |-> G!Never, until |-> G!Never]
             entry == G!Count(first, limit)
  <2>1. first \in Entry /\ first.since <= now /\ now \in Nat
    BY DEF Entry, G!Never, LockoutInv
  <2>2. ~G!Running(first)
    BY <2>1 DEF G!Running, G!Never
  <2> HIDE DEF first
  <2>3. entry \in Entry /\ entry.since <= now /\ (G!Running(entry) => entry.since = G!Never)
    BY <2>1, <2>2, CountFacts
  <2>4. left = [k \in DOMAIN roomy \cup {key} |-> IF k = key THEN entry ELSE roomy[k]]
    BY <1>3 DEF first
  <2> HIDE DEF entry
  <2>5. TableOK(roomy) /\ Cardinality(DOMAIN roomy) < MaxTracked /\ LostToBlocked(tracked, roomy)
    BY RoomyFacts
  <2>6. IsFiniteSet(DOMAIN roomy) /\ Cardinality(DOMAIN roomy) \in Nat /\ MaxTracked \in Nat
    BY <2>5, FS_CardinalityType DEF TableOK, LimitsGiven
  <2>7. /\ IsFiniteSet(DOMAIN roomy \cup {key})
        /\ Cardinality(DOMAIN roomy \cup {key}) <= Cardinality(DOMAIN roomy) + 1
    BY <2>6, FS_AddElement
  <2>8. DOMAIN left = DOMAIN roomy \cup {key} /\ Cardinality(DOMAIN left) <= MaxTracked
    <3>1. Cardinality(DOMAIN roomy \cup {key}) \in Nat
      BY <2>7, FS_CardinalityType
    <3> QED
      BY <2>4, <2>5, <2>6, <2>7, <3>1
  <2>9. TableOK(left)
    BY <2>3, <2>4, <2>5, <2>7, <2>8 DEF TableOK
  <2>10. LostToBlocked(tracked, left)
    BY <2>5, <2>8 DEF LostToBlocked
  <2> QED
    BY <2>9, <2>10
<1>4. \/ left = tracked
      \/ key \in DOMAIN tracked /\ left = [tracked EXCEPT ![key] = G!Count(tracked[key], limit)]
      \/ /\ key \notin DOMAIN tracked
         /\ \E roomy \in G!Roomy(tracked) :
               left = [k \in DOMAIN roomy \cup {key} |->
                         IF k = key
                         THEN G!Count([failures |-> 0, since |-> G!Never, until |-> G!Never], limit)
                         ELSE roomy[k]]
  BY Zenon DEF G!fail
<1> QED
  BY <1>1, <1>2, <1>3, <1>4

LEMMA LockoutStep ==
    ASSUME LockoutInv, LimitsGiven, [G!Next]_(G!vars)
    PROVE  LockoutInv'
<1>1. now \in Nat /\ limits \in LimitChoices /\ TableOK(accounts) /\ TableOK(addresses)
  BY DEF LockoutInv
<1>2. ASSUME NEW tracked, TableOK(tracked), now' = now PROVE TableOK(tracked)'
  BY <1>2 DEF TableOK, G!Running
<1>3. CASE UNCHANGED <<now, limits, accounts, addresses>>
  BY <1>1, <1>3 DEF LockoutInv, TableOK, G!Running
<1>4. ASSUME NEW p \in Proxies, G!Succeeded(p) PROVE LockoutInv'
  <2>1. PICK D : D \subseteq DOMAIN accounts /\ accounts' = G!Restrict(accounts, D)
    BY <1>4 DEF G!Succeeded
  <2>2. DOMAIN accounts' = D /\ \A k \in D : accounts'[k] = accounts[k]
    BY <2>1 DEF G!Restrict
  <2>3. IsFiniteSet(D) /\ Cardinality(D) <= MaxTracked
    <3>1. IsFiniteSet(D) /\ Cardinality(D) <= Cardinality(DOMAIN accounts)
      BY <1>1, <2>1, FS_Subset DEF TableOK
    <3>2. Cardinality(D) \in Nat /\ Cardinality(DOMAIN accounts) \in Nat
      BY <1>1, <3>1, FS_CardinalityType DEF TableOK
    <3> QED
      BY <1>1, <3>1, <3>2 DEF TableOK, LimitsGiven
  <2>4. accounts' \in [DOMAIN accounts' -> Entry]
    BY <1>1, <2>1, <2>2 DEF TableOK, G!Restrict
  <2>5. UNCHANGED <<now, limits, addresses>>
    BY <1>4 DEF G!Succeeded
  <2>6. TableOK(accounts)'
    BY <1>1, <2>1, <2>2, <2>3, <2>4, <2>5 DEF TableOK, G!Running
  <2> QED
    BY <1>1, <2>5, <2>6 DEF LockoutInv, TableOK, G!Running
<1>5. ASSUME NEW p \in Proxies, G!Failed(p) PROVE LockoutInv'
  <2>1. /\ TableOK(accounts') /\ TableOK(addresses')
        /\ UNCHANGED <<now, limits>>
    BY <1>1, <1>5, FailFacts DEF G!Failed
  <2> QED
    BY <1>1, <2>1 DEF LockoutInv, TableOK, G!Running
<1>6. CASE G!SetLimits
  BY <1>1, <1>6 DEF G!SetLimits, LockoutInv, TableOK, G!Running
<1>7. CASE G!Tick
  <2>1. now' = now + 1 /\ UNCHANGED <<limits, accounts, addresses>>
    BY <1>7 DEF G!Tick
  <2>2. ASSUME NEW tracked, TableOK(tracked)
        PROVE  \A k \in DOMAIN tracked :
                  /\ tracked[k].since <= now + 1
                  /\ tracked[k].until > now + 1 => tracked[k].since = G!Never
    <3>1. \A k \in DOMAIN tracked : tracked[k].since \in Nat /\ tracked[k].until \in Nat
      BY <2>2 DEF TableOK, Entry
    <3> QED
      BY <1>1, <2>2, <3>1 DEF TableOK, G!Running
  <2> QED
    BY <1>1, <2>1, <2>2 DEF LockoutInv, TableOK, G!Running
<1> QED
  BY <1>3, <1>4, <1>5, <1>6, <1>7 DEF G!Next, G!vars, G!Submit, G!Neither

LEMMA LockoutStart ==
    ASSUME LimitsGiven, G!Init
    PROVE  LockoutInv
<1>1. accounts = [k \in {} |-> accounts[k]] /\ DOMAIN accounts = {}
      /\ addresses = [k \in {} |-> addresses[k]] /\ DOMAIN addresses = {}
  BY DEF G!Init
<1>2. IsFiniteSet({}) /\ Cardinality({}) = 0
  BY FS_EmptySet
<1> QED
  BY <1>1, <1>2 DEF G!Init, LockoutInv, TableOK, LimitsGiven

\* A flood of made-up names lifts no block: a blocked name leaves the table only
\* by a sign-in that succeeded, or when every tracked name is blocked at least as
\* long (lockout.makeRoom).
THEOREM BlockKeptTheorem == G!Spec => BlockKept
<1> SUFFICES ASSUME LimitsGiven PROVE G!Spec => BlockKept
  BY ServicesAssumption DEF GuessesGiven
<1>1. LockoutInv /\ [G!Next]_(G!vars) =>
         [\A n \in DOMAIN accounts :
            G!Running(accounts[n]) /\ n \notin DOMAIN accounts' =>
              \/ \E p \in Proxies : G!Succeeded(p) /\ NormalOf[proxy[p].account] = n
              \/ \A o \in DOMAIN accounts :
                   G!Running(accounts[o]) /\ accounts[o].until >= accounts[n].until]_(G!vars)
  <2> SUFFICES ASSUME LockoutInv, G!Next, NEW n \in DOMAIN accounts, G!Running(accounts[n]),
                      n \notin DOMAIN accounts'
               PROVE  \/ \E p \in Proxies : G!Succeeded(p) /\ NormalOf[proxy[p].account] = n
                      \/ \A o \in DOMAIN accounts :
                           G!Running(accounts[o]) /\ accounts[o].until >= accounts[n].until
    OBVIOUS
  <2>1. ASSUME NEW p \in Proxies, G!Succeeded(p) PROVE NormalOf[proxy[p].account] = n
    BY <2>1 DEF G!Succeeded, G!Restrict
  <2>2. ASSUME NEW p \in Proxies, G!Failed(p)
        PROVE  \A o \in DOMAIN accounts :
                  G!Running(accounts[o]) /\ accounts[o].until >= accounts[n].until
    <3>1. LostToBlocked(accounts, accounts')
      BY <2>2, FailFacts DEF G!Failed, LockoutInv
    <3> QED
      BY <3>1 DEF LostToBlocked
  <2> QED
    BY <2>1, <2>2 DEF G!Next, G!Submit, G!Neither, G!SetLimits, G!Tick
<1> QED
  BY <1>1, LockoutStart, LockoutStep, PTL DEF G!Spec, BlockKept, G!BlockKept

\* The other sign-ins while one is answered, and the guesses an earlier run or an
\* earlier block can add to a run of failures.
Others == Cardinality(Proxies) - 1
Earlier == G!Max({G!Loosest - 2, Others})

LEMMA GuessNumbers ==
    ASSUME GuessesGiven
    PROVE  /\ G!Loosest \in Nat \ {0} /\ G!Window \in Nat /\ Cardinality(Proxies) \in Nat
           /\ Earlier \in Int /\ Earlier >= G!Loosest - 2 /\ Earlier >= Others
           /\ G!MostGuesses = Earlier + G!Loosest + Others
           /\ \A l \in LimitChoices : l.account <= G!Loosest /\ G!Window <= l.block
<1>1. Cardinality(Proxies) \in Nat
  BY FS_CardinalityType DEF GuessesGiven
<1> DEFINE A == {l.account : l \in LimitChoices}
           B == {l.block : l \in LimitChoices}
<1>2. \E x \in A : \A y \in A : x >= y
  <2>1. PICK l \in LimitChoices : \A o \in LimitChoices : o.account <= l.account
    BY DEF GuessesGiven
  <2>2. l.account \in A /\ \A y \in A : l.account >= y
    BY <2>1 DEF GuessesGiven
  <2> QED
    BY <2>2
<1>3. G!Loosest \in A /\ \A y \in A : G!Loosest >= y
  BY <1>2 DEF G!Loosest, G!Max
<1>4. \E x \in B : \A y \in B : x <= y
  <2>1. PICK l \in LimitChoices : \A o \in LimitChoices : l.block <= o.block
    BY DEF GuessesGiven
  <2> QED
    BY <2>1
<1>5. G!Window \in B /\ \A y \in B : G!Window <= y
  BY <1>4 DEF G!Window, G!Min
<1>6. G!Loosest \in Nat \ {0} /\ G!Window \in Nat
  BY <1>3, <1>5 DEF GuessesGiven
<1>7. \A l \in LimitChoices : l.account <= G!Loosest /\ G!Window <= l.block
  BY <1>3, <1>5, <1>6 DEF GuessesGiven
<1>8. G!Loosest - 2 \in Int /\ Others \in Int
  BY <1>1, <1>6 DEF Others
<1>9. \E x \in {G!Loosest - 2, Others} : \A y \in {G!Loosest - 2, Others} : x >= y
  BY <1>8
<1>10. Earlier \in {G!Loosest - 2, Others} /\ \A y \in {G!Loosest - 2, Others} : Earlier >= y
  BY <1>9 DEF Earlier, G!Max
<1>11. G!MostGuesses = Earlier + G!Loosest + Others
  BY SameCount DEF G!MostGuesses, Earlier, Others
<1> QED
  BY <1>1, <1>6, <1>7, <1>8, <1>10, <1>11

\* The times of the guesses at a name, up to now, and that they are spaced.
Timed(times, t) ==
    /\ times \in Seq(Nat)
    /\ \A i, j \in DOMAIN times : i <= j => times[i] <= times[j]
    /\ \A i \in DOMAIN times : times[i] <= t
Spaced(times) ==
    \A i, j \in DOMAIN times : j - i >= G!MostGuesses => times[j] - times[i] >= G!Window

\* While a name is blocked: guess m began the block, who failed since was on the
\* way then as are the flying, and all of them are few enough.
BlockHeld(times, entry, flying) ==
    \E m \in DOMAIN times :
        /\ times[m] + G!Window <= entry.until
        /\ Len(times) - m + flying <= Others
        /\ \A i \in 1..m : times[m] - times[i] < G!Window =>
              Len(times) - i + 1 + flying <= G!MostGuesses

\* Nothing is counted: what is recent failed during the last block.
QuietHeld(times, t) ==
    \A i \in DOMAIN times : t - times[i] < G!Window => Len(times) - i + 1 <= Others

\* A run is counted: it stays below the loosest limit, and few guesses are recent
\* to its first.
RunHeld(times, entry) ==
    LET first == Len(times) - entry.failures + 1 IN
    /\ entry.failures <= G!Loosest - 1 /\ entry.failures <= Len(times)
    /\ times[first] = entry.since
    /\ \A i \in 1..(first - 1) : times[first] - times[i] < G!Window => first - i <= Earlier

GuessHeld(times, entry, flying, t) ==
    /\ entry \in Entry
    /\ entry.until > t => entry.failures = 0 /\ BlockHeld(times, entry, flying)
    /\ entry.until <= t /\ entry.failures = 0 => QuietHeld(times, t)
    /\ entry.until <= t /\ entry.failures > 0 => RunHeld(times, entry)

\* One more failure of a name, with the sign-ins at it that are on their way.
LEMMA GuessCounted ==
    ASSUME GuessesGiven, LockoutInv, NEW times, Timed(times, now), Spaced(times),
           NEW entry \in Entry, NEW flying \in Nat \ {0}, flying <= Others + 1,
           GuessHeld(times, entry, flying, now)
    PROVE  /\ Timed(Append(times, now), now) /\ Spaced(Append(times, now))
           /\ GuessHeld(Append(times, now), G!Count(entry, limits.account), flying - 1, now)
<1> DEFINE more == Append(times, now)
           len == Len(times)
<1>1. /\ now \in Nat /\ limits \in LimitChoices /\ len \in Nat /\ times \in Seq(Nat)
      /\ limits.block \in Nat \ {0} /\ limits.account \in Nat \ {0}
      /\ entry.failures \in Nat /\ entry.since \in Nat /\ entry.until \in Nat
  BY DEF LockoutInv, GuessesGiven, Timed, Entry
<1>2. /\ more \in Seq(Nat) /\ Len(more) = len + 1 /\ DOMAIN more = 1..(len + 1) /\ DOMAIN times = 1..len
      /\ more[len + 1] = now /\ \A i \in 1..len : more[i] = times[i]
  BY <1>1
<1> HIDE DEF more, len
<1>3. \A i \in 1..len : times[i] \in Nat /\ times[i] <= now
  <2> SUFFICES ASSUME NEW i \in 1..len PROVE times[i] \in Nat /\ times[i] <= now
    OBVIOUS
  <2>1. i \in DOMAIN times
    BY <1>2
  <2>2. times[i] \in Nat
    BY <1>1, ElementOfSeq DEF len
  <2> QED
    BY <2>1, <2>2 DEF Timed
<1>4. Timed(more, now)
  <2>1. \A i \in 1..(len + 1) : more[i] <= now
    BY <1>1, <1>2, <1>3
  <2>2. ASSUME NEW i \in 1..(len + 1), NEW j \in 1..(len + 1), i <= j PROVE more[i] <= more[j]
    <3>1. CASE j = len + 1
      BY <1>2, <2>1, <3>1
    <3>2. CASE j # len + 1
      <4>1. i \in 1..len /\ j \in 1..len
        BY <1>1, <2>2, <3>2
      <4> QED
        BY <1>2, <2>2, <4>1 DEF Timed
    <3> QED
      BY <3>1, <3>2
  <2> QED
    BY <1>2, <2>1, <2>2 DEF Timed
<1>5. /\ G!Loosest \in Nat \ {0} /\ G!Window \in Nat /\ Others \in Nat
      /\ Earlier \in Nat /\ Earlier >= G!Loosest - 2 /\ Earlier >= Others
      /\ G!MostGuesses = Earlier + G!Loosest + Others
      /\ limits.account <= G!Loosest /\ G!Window <= limits.block
  <2>1. G!Loosest \in Nat \ {0} /\ G!Window \in Nat /\ Earlier \in Int /\ Cardinality(Proxies) \in Nat
    BY GuessNumbers
  <2>2. /\ Earlier >= G!Loosest - 2 /\ Earlier >= Others
        /\ G!MostGuesses = Earlier + G!Loosest + Others
        /\ limits.account <= G!Loosest /\ G!Window <= limits.block
    BY <1>1, GuessNumbers
  <2>3. Others \in Int
    BY <2>1 DEF Others
  <2>4. Others >= 0
    BY <2>3
  <2> QED
    BY <2>1, <2>2, <2>3, <2>4
<1>6. ASSUME \A i \in 1..(len + 1) : now - more[i] < G!Window => len + 1 - i < G!MostGuesses
      PROVE  Spaced(more)
  <2> SUFFICES ASSUME NEW i \in 1..(len + 1), NEW j \in 1..(len + 1), j - i >= G!MostGuesses
               PROVE  more[j] - more[i] >= G!Window
    BY <1>2 DEF Spaced
  <2>1. CASE j = len + 1
    <3>1. ~(now - more[i] < G!Window)
      BY <1>6, <2>1, <1>1, <1>5
    <3>2. more[i] \in Nat /\ more[j] = now
      BY <1>1, <1>2, <1>3, <2>1
    <3> QED
      BY <1>1, <1>5, <3>1, <3>2
  <2>2. CASE j # len + 1
    <3>1. G!MostGuesses \in Nat
      BY <1>5
    <3>2. i \in 1..len /\ j \in 1..len
      BY <1>1, <2>2, <3>1
    <3> QED
      BY <1>2, <3>2 DEF Spaced
  <2> QED
    BY <2>1, <2>2
<1>7. CASE entry.until > now
  <2>1. G!Count(entry, limits.account) = entry /\ entry.failures = 0
    BY <1>7 DEF G!Count, G!Running, GuessHeld
  <2>2. PICK m \in 1..len :
          /\ times[m] + G!Window <= entry.until
          /\ len - m + flying <= Others
          /\ \A i \in 1..m : times[m] - times[i] < G!Window => len - i + 1 + flying <= G!MostGuesses
    BY <1>2, <1>7 DEF GuessHeld, BlockHeld, len
  <2>3. BlockHeld(more, entry, flying - 1)
    <3>1. m \in DOMAIN more /\ more[m] = times[m] /\ \A i \in 1..m : more[i] = times[i]
      BY <1>1, <1>2
    <3>2. Len(more) - m + (flying - 1) <= Others
      BY <1>1, <1>2, <1>5, <2>2
    <3>3. ASSUME NEW i \in 1..m, more[m] - more[i] < G!Window
          PROVE  Len(more) - i + 1 + (flying - 1) <= G!MostGuesses
      BY <1>1, <1>2, <1>5, <2>2, <3>1, <3>3
    <3> QED
      BY <2>2, <3>1, <3>2, <3>3 DEF BlockHeld
  <2>4. ASSUME NEW i \in 1..(len + 1), now - more[i] < G!Window PROVE len + 1 - i < G!MostGuesses
    <3>1. CASE i \in 1..m
      <4>0. /\ i \in 1..len /\ more[i] = times[i] /\ times[i] \in Nat
            /\ times[m] \in Nat /\ times[m] <= now
        BY <1>1, <1>2, <1>3, <3>1
      <4>1. times[m] - times[i] < G!Window
        BY <1>1, <1>5, <2>4, <4>0
      <4> QED
        BY <1>1, <1>5, <2>2, <3>1, <4>1
    <3>2. CASE i \notin 1..m
      BY <1>1, <1>5, <2>2, <3>2
    <3> QED
      BY <3>1, <3>2
  <2>5. GuessHeld(more, entry, flying - 1, now)
    BY <1>1, <1>7, <2>1, <2>3 DEF GuessHeld
  <2> QED
    BY <1>4, <1>6, <2>1, <2>4, <2>5 DEF more
<1>8. CASE entry.until <= now
  <2> DEFINE fresh == entry.failures = 0 \/ now - entry.since >= limits.block
             failures == (IF fresh THEN 0 ELSE entry.failures) + 1
             since == IF fresh THEN now ELSE entry.since
             first == len + 2 - failures
  <2>1. G!Count(entry, limits.account) =
          IF failures < limits.account
          THEN [failures |-> failures, until |-> entry.until, since |-> since]
          ELSE [failures |-> 0, since |-> G!Never, until |-> now + limits.block]
    BY <1>1, <1>8 DEF G!Count, G!Running
  <2> DEFINE a == len - entry.failures + 1
  <2>2. entry.failures > 0 =>
          /\ entry.failures <= G!Loosest - 1 /\ entry.failures <= len
          /\ times[a] = entry.since
          /\ \A i \in 1..(len - entry.failures) : times[a] - times[i] < G!Window => a - i <= Earlier
    <3>1. entry.failures > 0 => RunHeld(times, entry)
      BY <1>8 DEF GuessHeld
    <3>2. entry.failures > 0 =>
            /\ entry.failures <= G!Loosest - 1 /\ entry.failures <= len
            /\ times[a] = entry.since
            /\ \A i \in 1..(a - 1) : times[a] - times[i] < G!Window => a - i <= Earlier
      BY <3>1 DEF RunHeld, len
    <3>3. a - 1 = len - entry.failures
      BY <1>1
    <3> HIDE DEF a
    <3> QED
      BY <3>2, <3>3
  <2>3. /\ failures \in 1..G!Loosest /\ first \in 1..(len + 1) /\ more[first] = since
        /\ \A i \in 1..(first - 1) : more[first] - more[i] < G!Window => first - i <= Earlier
    <3>1. CASE entry.failures = 0
      <4>1. fresh /\ failures = 1 /\ first = len + 1 /\ since = now
        BY <1>1, <3>1
      <4>2. \A i \in 1..len : now - times[i] < G!Window => len - i + 1 <= Others
        BY <1>2, <1>8, <3>1 DEF GuessHeld, QuietHeld, len
      <4> QED
        BY <1>1, <1>2, <1>5, <4>1, <4>2
    <3>2. CASE entry.failures > 0 /\ fresh
      <4>0. now - entry.since >= limits.block /\ fresh
        BY <3>2
      <4>1. failures = 1 /\ since = now
        BY <4>0
      <4> HIDE DEF failures, since, fresh
      <4>5. first = len + 1
        BY <1>1, <4>1
      <4>6. now - entry.since >= G!Window
        BY <1>1, <1>5, <4>0
      <4> HIDE DEF first
      <4>2. a \in 1..len /\ times[a] = entry.since
        <5>1. /\ len \in Nat /\ entry.failures \in Nat
              /\ entry.failures > 0 /\ entry.failures <= len /\ times[a] = entry.since
          BY <1>1, <2>2, <3>2
        <5>2. a \in 1..len
          BY <5>1
        <5> QED
          BY <5>1, <5>2
      <4>3. ASSUME NEW i \in 1..len, now - times[i] < G!Window PROVE first - i <= Earlier
        <5>1. ~(i <= a)
          <6> SUFFICES ASSUME i <= a PROVE FALSE
            OBVIOUS
          <6> HIDE DEF a
          <6>1. times[i] <= entry.since
            BY <1>2, <4>2 DEF Timed
          <6>2. now - entry.since >= G!Window /\ times[i] \in Nat
            BY <1>3, <4>6
          <6> QED
            BY <1>1, <1>5, <4>3, <6>1, <6>2
        <5>2. entry.failures <= G!Loosest - 1
          BY <2>2, <3>2
        <5> QED
          BY <1>1, <1>5, <4>5, <5>1, <5>2
      <4>7. failures \in 1..G!Loosest /\ first \in 1..(len + 1) /\ more[first] = since
        BY <1>1, <1>2, <1>5, <4>1, <4>5
      <4>8. \A i \in 1..(first - 1) : more[i] = times[i] /\ i \in 1..len
        BY <1>1, <1>2, <4>5
      <4>9. \A i \in 1..(first - 1) : more[first] - more[i] < G!Window => first - i <= Earlier
        BY <4>1, <4>3, <4>7, <4>8
      <4> QED
        BY <4>7, <4>9
    <3>3. CASE entry.failures > 0 /\ ~fresh
      <4>1. failures = entry.failures + 1 /\ since = entry.since
        BY <3>3
      <4>2. entry.failures <= G!Loosest - 1 /\ entry.failures <= len /\ entry.failures > 0
        BY <2>2, <3>3
      <4> HIDE DEF failures, since, fresh
      <4>3. first = len - entry.failures + 1
        BY <1>1, <4>1
      <4> HIDE DEF first
      <4>0. a = first
        BY <4>3
      <4>10. failures \in 1..G!Loosest
        BY <1>1, <1>5, <4>1, <4>2
      <4>11. first - 1 = len - entry.failures
        BY <1>1, <4>3
      <4>12. first \in 1..len
        BY <1>1, <4>2, <4>3
      <4>4. first \in 1..len /\ first - 1 = len - entry.failures /\ failures \in 1..G!Loosest
        BY <4>10, <4>11, <4>12
      <4>5. more[first] = times[first] /\ \A i \in 1..(first - 1) : more[i] = times[i]
        BY <1>1, <1>2, <4>4
      <4>6. /\ times[first] = entry.since
            /\ \A i \in 1..(first - 1) : times[first] - times[i] < G!Window => first - i <= Earlier
        BY <2>2, <4>0, <4>2, <4>4
      <4> QED
        BY <1>1, <4>1, <4>4, <4>5, <4>6
    <3> QED
      BY <1>1, <3>1, <3>2, <3>3
  <2> HIDE DEF failures, since, fresh
  <2>4. ASSUME NEW i \in 1..(len + 1), now - more[i] < G!Window
        PROVE  len + 1 - i + 1 <= G!Loosest + Earlier
    <3>1. first = len + 2 - failures /\ failures \in Nat /\ failures <= G!Loosest
      BY <1>5, <2>3
    <3>2. CASE i >= first
      BY <1>1, <1>5, <3>1, <3>2
    <3>3. CASE i < first
      <4> HIDE DEF first
      <4>1. i \in 1..(first - 1) /\ more[first] \in Nat /\ more[first] <= now /\ more[i] \in Nat
        <5>1. first \in DOMAIN more /\ i \in DOMAIN more
          BY <1>2, <2>3
        <5>2. \A j \in DOMAIN more : more[j] \in Nat /\ more[j] <= now
          BY <1>2, <1>4 DEF Timed
        <5> QED
          BY <1>1, <2>3, <3>3, <5>1, <5>2
      <4>2. first - i <= Earlier
        BY <1>1, <1>5, <2>3, <2>4, <4>1
      <4> QED
        BY <1>1, <1>5, <3>1, <4>1, <4>2
    <3> QED
      BY <1>1, <2>3, <3>2, <3>3
  <2>5. Spaced(more)
    BY <1>1, <1>5, <1>6, <2>4
  <2>6. CASE failures < limits.account
    <3> DEFINE next == [failures |-> failures, until |-> entry.until, since |-> since]
    <3>1. since \in Nat
      BY <1>1, <1>2, <2>3
    <3>2. next \in Entry /\ next.failures = failures /\ next.until = entry.until /\ next.since = since
      BY <1>1, <1>5, <2>3, <3>1 DEF Entry
    <3>3. failures <= G!Loosest - 1 /\ failures <= len + 1 /\ (len + 1) - failures + 1 = first
      BY <1>1, <1>5, <2>3, <2>6
    <3> HIDE DEF next, first
    <3>4. RunHeld(more, next)
      BY <1>2, <2>3, <3>2, <3>3 DEF RunHeld
    <3>5. failures > 0
      BY <2>3
    <3>6. GuessHeld(more, next, flying - 1, now)
      BY <1>1, <1>8, <3>2, <3>4, <3>5 DEF GuessHeld
    <3> QED
      BY <1>4, <2>1, <2>5, <2>6, <3>6 DEF next, more
  <2>7. CASE ~(failures < limits.account)
    <3> DEFINE next == [failures |-> 0, since |-> G!Never, until |-> now + limits.block]
    <3>1. next \in Entry /\ next.failures = 0 /\ next.until = now + limits.block
      BY <1>1 DEF Entry, G!Never
    <3> HIDE DEF next
    <3>2. BlockHeld(more, next, flying - 1)
      <4>1. len + 1 \in DOMAIN more /\ more[len + 1] + G!Window <= next.until
        BY <1>1, <1>2, <1>5, <3>1
      <4>2. Len(more) - (len + 1) + (flying - 1) <= Others
        BY <1>1, <1>2, <1>5
      <4>3. ASSUME NEW i \in 1..(len + 1), more[len + 1] - more[i] < G!Window
            PROVE  Len(more) - i + 1 + (flying - 1) <= G!MostGuesses
        BY <1>1, <1>2, <1>5, <2>4, <4>3
      <4> QED
        BY <4>1, <4>2, <4>3 DEF BlockHeld
    <3>3. GuessHeld(more, next, flying - 1, now)
      BY <1>1, <3>1, <3>2 DEF GuessHeld
    <3> QED
      BY <1>4, <2>1, <2>5, <2>7, <3>3 DEF next, more
  <2> QED
    BY <2>6, <2>7
<1> QED
  BY <1>1, <1>7, <1>8

\* The sign-ins at a name that are on their way.
Flying(n) == {p \in Proxies : proxy[p].pc = "forwarded" /\ NormalOf[proxy[p].account] = n}

\* What is known of a name's guesses.
NameOK(n) ==
    /\ Timed(history[n], now) /\ Spaced(history[n])
    /\ n \notin DOMAIN accounts => history[n] = << >>
    /\ n \in DOMAIN accounts => GuessHeld(history[n], accounts[n], Cardinality(Flying(n)), now)

GuessInv ==
    /\ LockoutInv
    /\ DOMAIN proxy = Proxies
    /\ \A n \in G!Normals : NameOK(n)

LEMMA FlyingFacts ==
    ASSUME GuessesGiven, NEW n
    PROVE  IsFiniteSet(Flying(n)) /\ Cardinality(Flying(n)) \in Nat /\ Cardinality(Flying(n)) <= Others + 1
<1>1. IsFiniteSet(Proxies) /\ Flying(n) \subseteq Proxies /\ Cardinality(Proxies) \in Nat
  BY FS_CardinalityType DEF GuessesGiven, Flying
<1>2. IsFiniteSet(Flying(n)) /\ Cardinality(Flying(n)) <= Cardinality(Proxies)
  BY <1>1, FS_Subset
<1> QED
  BY <1>1, <1>2, FS_CardinalityType DEF Others

\* Fewer sign-ins on their way, or a later time, take nothing from what is known.
LEMMA GuessKept ==
    ASSUME GuessesGiven, NEW times \in Seq(Nat), NEW entry, NEW flying \in Nat, NEW fewer \in Nat,
           NEW t \in Nat, GuessHeld(times, entry, flying, t), entry.until > t => fewer <= flying
    PROVE  GuessHeld(times, entry, fewer, t)
<1>1. G!MostGuesses \in Int /\ Others \in Int
  BY GuessNumbers DEF Others
<1>2. CASE entry.until > t
  <2>1. PICK m \in DOMAIN times :
          /\ times[m] + G!Window <= entry.until
          /\ Len(times) - m + flying <= Others
          /\ \A i \in 1..m : times[m] - times[i] < G!Window => Len(times) - i + 1 + flying <= G!MostGuesses
    BY <1>2 DEF GuessHeld, BlockHeld
  <2>2. Len(times) - m + fewer <= Others
    BY <1>1, <1>2, <2>1
  <2>3. \A i \in 1..m : times[m] - times[i] < G!Window => Len(times) - i + 1 + fewer <= G!MostGuesses
    BY <1>1, <1>2, <2>1
  <2>4. BlockHeld(times, entry, fewer)
    BY <2>1, <2>2, <2>3 DEF BlockHeld
  <2> QED
    BY <1>2, <2>4 DEF GuessHeld, Entry
<1>3. CASE ~(entry.until > t)
  BY <1>3 DEF GuessHeld
<1> QED
  BY <1>2, <1>3

LEMMA GuessAges ==
    ASSUME GuessesGiven, NEW times, NEW entry, NEW flying \in Nat, NEW t \in Nat,
           Timed(times, t), GuessHeld(times, entry, flying, t)
    PROVE  Timed(times, t + 1) /\ GuessHeld(times, entry, flying, t + 1)
<1>1. /\ times \in Seq(Nat) /\ entry \in Entry /\ entry.until \in Nat
      /\ G!Window \in Nat /\ Others \in Int
      /\ \A i \in DOMAIN times : times[i] \in Nat /\ times[i] <= t
  <2>1. G!Window \in Nat /\ Cardinality(Proxies) \in Nat
    BY GuessNumbers
  <2>2. Others \in Int
    BY <2>1 DEF Others
  <2>3. entry \in Entry /\ entry.until \in Nat
    BY DEF GuessHeld, Entry
  <2>4. times \in Seq(Nat) /\ \A i \in DOMAIN times : times[i] \in Nat /\ times[i] <= t
    BY ElementOfSeq, LenProperties DEF Timed
  <2> QED
    BY <2>1, <2>2, <2>3, <2>4
<1>2. Timed(times, t + 1)
  BY <1>1 DEF Timed
<1>3. CASE entry.until > t + 1
  BY <1>1, <1>2, <1>3 DEF GuessHeld
<1>4. CASE entry.until <= t
  <2>1. entry.failures = 0 => QuietHeld(times, t + 1)
    BY <1>1, <1>4 DEF GuessHeld, QuietHeld
  <2> QED
    BY <1>1, <1>2, <1>4, <2>1 DEF GuessHeld
<1>5. CASE entry.until = t + 1
  <2>1. entry.failures = 0
    BY <1>1, <1>5 DEF GuessHeld
  <2>2. PICK m \in DOMAIN times :
          times[m] + G!Window <= entry.until /\ Len(times) - m + flying <= Others
    BY <1>1, <1>5 DEF GuessHeld, BlockHeld
  <2>3. ASSUME NEW i \in DOMAIN times, (t + 1) - times[i] < G!Window
        PROVE  Len(times) - i + 1 <= Others
    <3>1. i <= m => times[i] <= times[m]
      BY DEF Timed
    <3>2. times[i] \in Nat /\ times[m] \in Nat /\ times[m] + G!Window <= t + 1
      BY <1>1, <1>5, <2>2
    <3>3. i \in Nat /\ m \in Nat /\ Len(times) \in Nat
      BY <1>1, LenProperties
    <3>4. ~(i <= m)
      BY <1>1, <2>3, <3>1, <3>2
    <3> QED
      BY <1>1, <2>2, <3>3, <3>4
  <2>4. QuietHeld(times, t + 1)
    BY <2>3 DEF QuietHeld
  <2> QED
    BY <1>1, <1>2, <1>5, <2>1, <2>4 DEF GuessHeld
<1> QED
  BY <1>1, <1>3, <1>4, <1>5

\* A refused sign-in.
LEMMA GuessRefused ==
    ASSUME GuessesGiven, GuessInv, NEW p \in Proxies, G!Failed(p), NEW n \in G!Normals
    PROVE  NameOK(n)'
<1> DEFINE name == NormalOf[proxy[p].account]
           zero == [failures |-> 0, since |-> G!Never, until |-> G!Never]
<1>1. /\ accounts' \in G!fail(accounts, name, limits.account)
      /\ history' = G!Forgotten(
           [o \in G!Normals |-> IF o = name THEN Append(history[o], now) ELSE history[o]], accounts')
      /\ proxy' = [proxy EXCEPT ![p] = G!Ready] /\ UNCHANGED <<now, limits>>
      /\ proxy[p].pc = "forwarded"
  BY DEF G!Failed
<1>2. LockoutInv /\ LimitsGiven /\ NameOK(n) /\ now \in Nat /\ DOMAIN proxy = Proxies
  BY DEF GuessInv, GuessesGiven, LockoutInv
<1>3. history'[n] = IF n \in DOMAIN accounts /\ n \notin DOMAIN accounts' THEN << >>
                    ELSE IF n = name THEN Append(history[n], now) ELSE history[n]
  BY <1>1 DEF G!Forgotten
<1>4. Flying(n)' = Flying(n) \ {p}
  BY <1>1, <1>2 DEF Flying, G!Ready
<1>5. /\ Cardinality(Flying(n)) \in Nat /\ Cardinality(Flying(n)') \in Nat
      /\ n = name => Cardinality(Flying(n)') = Cardinality(Flying(n)) - 1
      /\ n # name => Flying(n)' = Flying(n)
      /\ n = name => Cardinality(Flying(n)) \in Nat \ {0} /\ Cardinality(Flying(n)) <= Others + 1
  <2>1. IsFiniteSet(Flying(n)) /\ Cardinality(Flying(n)) \in Nat /\ Cardinality(Flying(n)) <= Others + 1
    BY FlyingFacts
  <2>2. n = name <=> p \in Flying(n)
    BY <1>1 DEF Flying
  <2>3. CASE n = name
    <3>1. Cardinality(Flying(n) \ {p}) = Cardinality(Flying(n)) - 1
      BY <2>1, <2>2, <2>3, FS_RemoveElement
    <3>2. Cardinality(Flying(n) \ {p}) \in Nat
      BY <2>1, FS_Subset, FS_CardinalityType
    <3> QED
      BY <1>4, <2>1, <2>3, <3>1, <3>2
  <2>4. CASE n # name
    BY <1>4, <2>1, <2>2, <2>4
  <2> QED
    BY <2>3, <2>4
<1>6. n \in DOMAIN accounts' =>
        \/ n \in DOMAIN accounts /\ n # name /\ accounts'[n] = accounts[n]
        \/ n \in DOMAIN accounts /\ n = name /\ accounts'[n] = G!Count(accounts[n], limits.account)
        \/ n \notin DOMAIN accounts /\ n = name /\ accounts'[n] = G!Count(zero, limits.account)
  <2> SUFFICES ASSUME n \in DOMAIN accounts'
               PROVE  \/ n \in DOMAIN accounts /\ n # name /\ accounts'[n] = accounts[n]
                      \/ /\ n \in DOMAIN accounts /\ n = name
                         /\ accounts'[n] = G!Count(accounts[n], limits.account)
                      \/ n \notin DOMAIN accounts /\ n = name /\ accounts'[n] = G!Count(zero, limits.account)
    OBVIOUS
  <2>1. n # ""
    BY DEF G!Normals
  <2>2. \/ name = "" /\ accounts' = accounts
        \/ /\ name \in DOMAIN accounts
           /\ accounts' = [accounts EXCEPT ![name] = G!Count(accounts[name], limits.account)]
        \/ /\ name \notin DOMAIN accounts
           /\ \E roomy \in G!Roomy(accounts) :
                 accounts' = [k \in DOMAIN roomy \cup {name} |->
                                IF k = name THEN G!Count(zero, limits.account) ELSE roomy[k]]
    BY <1>1, Zenon DEF G!fail
  <2> HIDE DEF zero, name
  <2>3. \A roomy \in G!Roomy(accounts) : \A k \in DOMAIN roomy :
          k \in DOMAIN accounts /\ roomy[k] = accounts[k]
    BY DEF G!Roomy, G!Restrict
  <2> QED
    BY <2>1, <2>2, <2>3
<1>7. name \in G!Normals => name \in DOMAIN accounts'
  <2> SUFFICES ASSUME name # "" PROVE name \in DOMAIN accounts'
    BY DEF G!Normals
  <2> HIDE DEF zero, name
  <2> QED
    BY <1>1 DEF G!fail, zero
<1> HIDE DEF name
<1>8. CASE n \notin DOMAIN accounts'
  <2>1. history'[n] = << >>
    BY <1>2, <1>3, <1>7, <1>8 DEF NameOK
  <2>2. Timed(<< >>, now) /\ Spaced(<< >>)
    BY DEF Timed, Spaced
  <2> QED
    BY <1>1, <1>8, <2>1, <2>2 DEF NameOK, Timed, Spaced
<1>9. CASE n \in DOMAIN accounts' /\ n # name
  <2>1. n \in DOMAIN accounts /\ accounts'[n] = accounts[n] /\ history'[n] = history[n]
    BY <1>3, <1>6, <1>9
  <2> QED
    BY <1>1, <1>2, <1>5, <1>9, <2>1 DEF NameOK
<1>10. CASE n \in DOMAIN accounts' /\ n = name
  <2>1. history'[n] = Append(history[n], now)
    BY <1>3, <1>10
  <2>2. PICK entry \in Entry :
          /\ GuessHeld(history[n], entry, Cardinality(Flying(n)), now)
          /\ accounts'[n] = G!Count(entry, limits.account)
    <3>1. CASE n \in DOMAIN accounts
      <4>1. accounts[n] \in Entry
        BY <1>2, <3>1 DEF LockoutInv, TableOK
      <4> QED
        BY <1>2, <1>6, <1>10, <3>1, <4>1 DEF NameOK
    <3>2. CASE n \notin DOMAIN accounts
      <4>1. zero \in Entry /\ zero.failures = 0 /\ zero.until = 0
        BY DEF Entry, G!Never
      <4>2. history[n] = << >> /\ accounts'[n] = G!Count(zero, limits.account)
        BY <1>2, <1>6, <1>10, <3>2 DEF NameOK
      <4> HIDE DEF zero
      <4>3. GuessHeld(<< >>, zero, Cardinality(Flying(n)), now)
        BY <1>2, <4>1 DEF GuessHeld, QuietHeld
      <4> QED
        BY <4>1, <4>2, <4>3
    <3> QED
      BY <3>1, <3>2
  <2> DEFINE flying == Cardinality(Flying(n))
  <2>3. flying \in Nat \ {0} /\ flying <= Others + 1 /\ Cardinality(Flying(n)') = flying - 1
    BY <1>5, <1>10
  <2>4. Timed(history[n], now) /\ Spaced(history[n])
    BY <1>2 DEF NameOK
  <2> HIDE DEF flying
  <2>5. /\ Timed(Append(history[n], now), now) /\ Spaced(Append(history[n], now))
        /\ GuessHeld(Append(history[n], now), G!Count(entry, limits.account), flying - 1, now)
    BY <1>2, <2>2, <2>3, <2>4, GuessCounted DEF flying
  <2> QED
    BY <1>1, <1>10, <2>1, <2>2, <2>3, <2>5 DEF NameOK, Timed, Spaced
<1> QED
  BY <1>8, <1>9, <1>10

LEMMA GuessStep ==
    ASSUME GuessesGiven, GuessInv, [G!Next]_(G!vars)
    PROVE  GuessInv'
<1>1. LockoutInv' /\ LimitsGiven /\ LockoutInv
  BY LockoutStep DEF GuessInv, GuessesGiven
<1>2. DOMAIN proxy = Proxies
  BY DEF GuessInv
<1>3. ASSUME NEW n \in G!Normals
      PROVE  /\ NameOK(n) /\ history[n] \in Seq(Nat) /\ now \in Nat
             /\ Cardinality(Flying(n)) \in Nat /\ IsFiniteSet(Flying(n))
  BY FlyingFacts DEF GuessInv, NameOK, Timed, LockoutInv
<1>4. ASSUME UNCHANGED <<now, accounts, history>>, NEW n \in G!Normals,
             Cardinality(Flying(n)') \in Nat,
             n \in DOMAIN accounts /\ accounts[n].until > now =>
                Cardinality(Flying(n)') <= Cardinality(Flying(n))
      PROVE  NameOK(n)'
  <2>1. n \in DOMAIN accounts => GuessHeld(history[n], accounts[n], Cardinality(Flying(n)'), now)
    BY <1>3, <1>4, GuessKept DEF NameOK
  <2> QED
    BY <1>3, <1>4, <2>1 DEF NameOK, Timed, Spaced
<1>5. CASE UNCHANGED G!vars
  <2>1. UNCHANGED <<now, accounts, history, proxy>>
    BY <1>5 DEF G!vars
  <2>2. ASSUME NEW n \in G!Normals PROVE NameOK(n)'
    <3>1. Flying(n)' = Flying(n)
      BY <2>1 DEF Flying
    <3> QED
      BY <1>3, <1>4, <2>1, <3>1
  <2> QED
    BY <1>1, <1>2, <2>1, <2>2 DEF GuessInv
<1>6. ASSUME NEW p \in Proxies, G!Submit(p) PROVE GuessInv'
  <2>1. PICK account \in Names, address \in Addresses :
          /\ G!Blocked(account, address) = 0
          /\ proxy' = [proxy EXCEPT ![p] = [pc |-> "forwarded", account |-> account, address |-> address]]
    BY <1>6 DEF G!Submit
  <2>2. UNCHANGED <<now, accounts, history>>
    BY <1>6 DEF G!Submit
  <2>3. ASSUME NEW n \in G!Normals, n \in DOMAIN accounts, accounts[n].until > now
        PROVE  NormalOf[account] # n
    <3> SUFFICES ASSUME NormalOf[account] = n PROVE FALSE
      OBVIOUS
    <3>1. /\ accounts[n] \in Entry /\ accounts[n].until \in Nat /\ now \in Nat
          /\ \A k \in DOMAIN addresses : addresses[k].until \in Nat
      BY <1>1, <2>3 DEF LockoutInv, TableOK, Entry
    <3> DEFINE a == G!remaining(accounts, n)
               b == G!remaining(addresses, NormalOf[address])
               c == G!remaining(addresses, address)
    <3>2. a = accounts[n].until - now /\ a \in Nat \ {0}
      BY <2>3, <3>1 DEF G!remaining, G!Running
    <3>3. c \in Nat
      BY <3>1 DEF G!remaining, G!Running
    <3>4. G!Blocked(account, address) = G!Max({a, c})
      BY DEF G!Blocked
    <3> HIDE DEF a, c
    <3>5. \E x \in {a, c} : \A y \in {a, c} : x >= y
      BY <3>2, <3>3
    <3>6. G!Max({a, c}) >= a
      BY <3>2, <3>3, <3>5 DEF G!Max
    <3> QED
      BY <2>1, <3>2, <3>4, <3>6
  <2>4. ASSUME NEW n \in G!Normals PROVE NameOK(n)'
    <3>1. Cardinality(Flying(n)') \in Nat
      <4>1. Flying(n)' \subseteq Proxies
        BY DEF Flying
      <4> QED
        BY <4>1, FS_Subset, FS_CardinalityType DEF GuessesGiven
    <3>2. ASSUME n \in DOMAIN accounts, accounts[n].until > now
          PROVE  Cardinality(Flying(n)') <= Cardinality(Flying(n))
      <4>1. Flying(n)' \subseteq Flying(n)
        BY <1>2, <2>1, <2>3, <3>2 DEF Flying
      <4> QED
        BY <1>3, <4>1, FS_Subset
    <3> QED
      BY <1>4, <2>2, <3>1, <3>2
  <2> QED
    BY <1>1, <1>2, <2>1, <2>4 DEF GuessInv
<1>7. ASSUME NEW p \in Proxies, proxy' = [proxy EXCEPT ![p] = G!Ready], NEW n \in G!Normals
      PROVE  /\ Cardinality(Flying(n)') \in Nat
             /\ Cardinality(Flying(n)') <= Cardinality(Flying(n))
  <2>1. Flying(n)' \subseteq Flying(n)
    BY <1>2, <1>7 DEF Flying, G!Ready
  <2> QED
    BY <1>3, <2>1, FS_Subset, FS_CardinalityType
<1>8. ASSUME NEW p \in Proxies, G!Neither(p) PROVE GuessInv'
  <2>1. proxy' = [proxy EXCEPT ![p] = G!Ready] /\ UNCHANGED <<now, accounts, history>>
    BY <1>8 DEF G!Neither
  <2>2. \A n \in G!Normals : NameOK(n)'
    BY <1>4, <1>7, <2>1
  <2> QED
    BY <1>1, <1>2, <2>1, <2>2 DEF GuessInv
<1>9. ASSUME NEW p \in Proxies, G!Succeeded(p) PROVE GuessInv'
  <2> DEFINE name == NormalOf[proxy[p].account]
  <2>1. /\ proxy' = [proxy EXCEPT ![p] = G!Ready] /\ UNCHANGED now
        /\ accounts' = G!Restrict(accounts, DOMAIN accounts \ {name})
        /\ history' = [n \in G!Normals |-> IF n = name THEN << >> ELSE history[n]]
    BY <1>9 DEF G!Succeeded
  <2> HIDE DEF name
  <2>2. ASSUME NEW n \in G!Normals PROVE NameOK(n)'
    <3>1. CASE n = name
      <4>1. n \notin DOMAIN accounts' /\ history'[n] = << >>
        BY <2>1, <3>1 DEF G!Restrict
      <4> QED
        BY <4>1 DEF NameOK, Timed, Spaced
    <3>2. CASE n # name
      <4>1. /\ n \in DOMAIN accounts' <=> n \in DOMAIN accounts
            /\ n \in DOMAIN accounts => accounts'[n] = accounts[n]
            /\ history'[n] = history[n]
        BY <2>1, <3>2 DEF G!Restrict
      <4>2. n \in DOMAIN accounts => GuessHeld(history[n], accounts[n], Cardinality(Flying(n)'), now)
        BY <1>3, <1>7, <2>1, GuessKept DEF NameOK
      <4> QED
        BY <1>3, <2>1, <4>1, <4>2 DEF NameOK, Timed, Spaced
    <3> QED
      BY <3>1, <3>2
  <2> QED
    BY <1>1, <1>2, <2>1, <2>2 DEF GuessInv
<1>10. ASSUME NEW p \in Proxies, G!Failed(p) PROVE GuessInv'
  <2>1. DOMAIN proxy' = Proxies
    BY <1>2, <1>10 DEF G!Failed
  <2> QED
    BY <1>1, <1>10, <2>1, GuessRefused DEF GuessInv
<1>11. CASE G!SetLimits
  <2>1. UNCHANGED <<now, accounts, history, proxy>>
    BY <1>11 DEF G!SetLimits
  <2>2. ASSUME NEW n \in G!Normals PROVE NameOK(n)'
    <3>1. Flying(n)' = Flying(n)
      BY <2>1 DEF Flying
    <3> QED
      BY <1>3, <1>4, <2>1, <3>1
  <2> QED
    BY <1>1, <1>2, <2>1, <2>2 DEF GuessInv
<1>12. CASE G!Tick
  <2>1. now' = now + 1 /\ UNCHANGED <<accounts, history, proxy>>
    BY <1>12 DEF G!Tick
  <2>2. ASSUME NEW n \in G!Normals PROVE NameOK(n)'
    <3>1. Flying(n)' = Flying(n)
      BY <2>1 DEF Flying
    <3>2. Timed(history[n], now + 1)
      BY <1>3 DEF NameOK, Timed
    <3>3. n \in DOMAIN accounts => GuessHeld(history[n], accounts[n], Cardinality(Flying(n)), now + 1)
      BY <1>3, GuessAges DEF NameOK
    <3> QED
      BY <1>3, <2>1, <3>1, <3>2, <3>3 DEF NameOK, Spaced
  <2> QED
    BY <1>1, <1>2, <2>1, <2>2 DEF GuessInv
<1> QED
  BY <1>5, <1>6, <1>8, <1>9, <1>10, <1>11, <1>12 DEF G!Next

LEMMA GuessStart ==
    ASSUME GuessesGiven, G!Init
    PROVE  GuessInv
<1>1. LockoutInv
  BY LockoutStart DEF GuessesGiven
<1>2. \A n \in G!Normals : history[n] = << >> /\ n \notin DOMAIN accounts
  BY DEF G!Init
<1> QED
  BY <1>1, <1>2 DEF G!Init, GuessInv, NameOK, Timed, Spaced

\* Whatever failures, successes, floods of other names, changes of the limits and
\* late answers come between, more than MostGuesses guesses at one name take the
\* shortest block at least, and the tables stay within their bound (Guard.Failed,
\* Guard.fail, kratosHandler).
THEOREM FloodHeldTheorem == G!Spec => []FloodHeld
<1> SUFFICES ASSUME GuessesGiven PROVE G!Spec => []FloodHeld
  BY ServicesAssumption
<1>1. GuessInv => G!GuessesBounded
  BY DEF GuessInv, NameOK, Spaced, G!GuessesBounded
<1>2. GuessInv => G!TablesBounded
  BY SameCount DEF GuessInv, LockoutInv, TableOK, G!TablesBounded
<1>3. GuessInv => G!FloodHeld
  BY <1>1, <1>2 DEF G!FloodHeld
<1> QED
  BY <1>3, GuessStart, GuessStep, PTL DEF G!Spec, FloodHeld

-----------------------------------------------------------------------------
(* Requests. *)

\* The fields of a request on its way.
RequestShape ==
    /\ DOMAIN request = Requests
    /\ \A r \in Requests :
          DOMAIN request[r] = {"stage", "op", "caller", "context", "answer", "ran"}

SignedIn == {"signed in", "changed", "bound", "read", "handled", "written", "watch"}
PastGuard == SignedIn \ {"signed in"}
PastRole == PastGuard \ {"changed"}
Generated == {"bound", "read", "handled"}

\* Who may have an operation run.
MayRun(caller, op) ==
    /\ caller \notin {"nobody", "unreachable", "newcomer"}
    /\ op \in H!Routed(H!Admin) => caller = "admin"

\* What each stage was let through by, and that only the generated boundary leads
\* to a handler of its own.
StageOK(asked) ==
    /\ asked.stage \in SignedIn => asked.caller \notin {"nobody", "unreachable"}
    /\ asked.stage \in PastGuard => asked.caller # "newcomer"
    /\ asked.stage \in PastRole => MayRun(asked.caller, asked.op)
    /\ asked.stage \in Generated => asked.op \in H!Operations
    /\ asked.ran => MayRun(asked.caller, asked.op)

RequestsInv ==
    /\ RequestShape
    /\ \A r \in Requests : StageOK(request[r])
    /\ \A reader \in readers : reader[2] = NoContext
    /\ H!OwnContext

\* Every operation of the contract is handed the request's own context, and those
\* of the back office are on the administrators' group.
LEMMA ScopedFacts == H!Operations \subseteq H!Scoped
BY SMTT(30) DEF H!Operations, H!StrictServerInterface, H!Scoped, H!ScopedFirst, H!ScopedRest

LEMMA BackOfficeFacts == H!Routed(H!BackOffice) \subseteq H!Routed(H!Admin)
BY SMTT(30) DEF H!Routed, H!BackOffice, H!Admin, H!RegisterHandlers

\* The steps that move one request on and give the database nothing to read.
LEMMA MovedOn ==
    ASSUME RequestsInv, NEW r \in Requests, NEW new,
           DOMAIN new = {"stage", "op", "caller", "context", "answer", "ran"}, StageOK(new),
           request' = [request EXCEPT ![r] = new], UNCHANGED <<readers, seen>>
    PROVE  RequestsInv'
<1>1. \A q \in Requests : request'[q] = IF q = r THEN new ELSE request[q]
  BY DEF RequestsInv, RequestShape
<1>2. RequestShape'
  BY <1>1 DEF RequestsInv, RequestShape
<1>3. ASSUME NEW q \in Requests PROVE StageOK(request[q])'
  <2>1. StageOK(request'[q])
    BY <1>1 DEF RequestsInv
  <2> QED
    BY <2>1
<1> QED
  BY <1>2, <1>3 DEF RequestsInv, H!OwnContext

\* A request passes to a stage it may reach.
LEMMA PassedOn ==
    ASSUME RequestsInv, NEW r \in Requests, NEW stage, H!Passes(r, stage),
           stage \in SignedIn => request[r].caller \notin {"nobody", "unreachable"},
           stage \in PastGuard => request[r].caller # "newcomer",
           stage \in PastRole => MayRun(request[r].caller, request[r].op),
           stage \in Generated => request[r].op \in H!Operations
    PROVE  RequestsInv'
<1> DEFINE new == [request[r] EXCEPT !.stage = stage]
<1>1. DOMAIN request[r] = {"stage", "op", "caller", "context", "answer", "ran"} /\ StageOK(request[r])
      /\ r \in DOMAIN request
  BY DEF RequestsInv, RequestShape
<1>2. /\ new.stage = stage /\ new.op = request[r].op /\ new.caller = request[r].caller
      /\ new.ran = request[r].ran
      /\ DOMAIN new = {"stage", "op", "caller", "context", "answer", "ran"}
  BY <1>1
<1>3. request' = [request EXCEPT ![r] = new] /\ UNCHANGED <<readers, seen>>
  BY <1>1 DEF H!Passes
<1> HIDE DEF new
<1>4. StageOK(new)
  BY <1>1, <1>2 DEF StageOK
<1> QED
  BY <1>2, <1>3, <1>4, MovedOn

\* A request is answered, before its handler ran or after.
LEMMA Answered ==
    ASSUME RequestsInv, NEW r \in Requests, NEW status, NEW body, H!Respond(r, status, body)
    PROVE  RequestsInv'
<1> DEFINE answer == [status |-> status, body |-> body]
           new == [request[r] EXCEPT !.stage = "done", !.answer = answer]
<1>1. DOMAIN request[r] = {"stage", "op", "caller", "context", "answer", "ran"} /\ StageOK(request[r])
      /\ r \in DOMAIN request
  BY DEF RequestsInv, RequestShape
<1>2. /\ new.stage = "done" /\ new.op = request[r].op /\ new.caller = request[r].caller
      /\ new.ran = request[r].ran
      /\ DOMAIN new = {"stage", "op", "caller", "context", "answer", "ran"}
  BY <1>1
<1>3. request' = [request EXCEPT ![r] = new] /\ UNCHANGED <<readers, seen>>
  BY <1>1 DEF H!Respond
<1> HIDE DEF new
<1>4. StageOK(new)
  BY <1>1, <1>2 DEF StageOK, SignedIn, PastGuard, PastRole, Generated
<1> QED
  BY <1>2, <1>3, <1>4, MovedOn

LEMMA RequestWay ==
    ASSUME RequestsInv, NEW r \in Requests, H!Step(r)
    PROVE  RequestsInv'
<1>1. /\ DOMAIN request[r] = {"stage", "op", "caller", "context", "answer", "ran"}
      /\ StageOK(request[r]) /\ r \in DOMAIN request
  BY DEF RequestsInv, RequestShape
<1> USE DEF SignedIn, PastGuard, PastRole, Generated
<1>2. CASE H!Arrive(r)
  <2>1. PICK op \in Asks(r), who \in CallersOf(r), c \in Contexts :
           request' = [request EXCEPT ![r] =
             [stage |-> IF op \in H!Routed(H!Open) THEN "open"
                        ELSE IF op \in H!Routed(H!register) THEN "mounted"
                        ELSE "missing",
              op |-> op, caller |-> who, context |-> c, answer |-> "none", ran |-> FALSE]]
    BY <1>2 DEF H!Arrive
  <2> DEFINE stage == IF op \in H!Routed(H!Open) THEN "open"
                      ELSE IF op \in H!Routed(H!register) THEN "mounted"
                      ELSE "missing"
             new == [stage |-> stage, op |-> op, caller |-> who, context |-> c, answer |-> "none",
                     ran |-> FALSE]
  <2>2. stage \in {"open", "mounted", "missing"}
    OBVIOUS
  <2>3. request' = [request EXCEPT ![r] = new] /\ UNCHANGED <<readers, seen>>
    BY <1>2, <2>1 DEF H!Arrive
  <2> HIDE DEF stage
  <2>4. StageOK(new) /\ DOMAIN new = {"stage", "op", "caller", "context", "answer", "ran"}
    BY <2>2 DEF StageOK
  <2> QED
    BY <2>3, <2>4, MovedOn
<1>3. CASE H!NoRoute(r) \/ H!handleInfo(r)
  BY <1>3, Answered DEF H!NoRoute, H!handleInfo, H!Refuse
<1>4. CASE H!Mount(r)
  <2>1. CASE \E status : H!Refuse(r, status)
    BY <2>1, Answered DEF H!Refuse
  <2>2. CASE request[r].caller \notin {"nobody", "unreachable"} /\ H!Passes(r, "signed in")
    BY <2>2, PassedOn
  <2> QED
    BY <1>4, <2>1, <2>2 DEF H!Mount
<1>5. CASE H!requirePasswordChanged(r)
  <2>1. CASE H!Refuse(r, 403)
    BY <2>1, Answered DEF H!Refuse
  <2>2. CASE /\ H!At(r, "signed in") /\ request[r].caller # "newcomer"
             /\ H!Passes(r, "changed")
    BY <1>1, <2>2, PassedOn DEF H!At, StageOK
  <2> QED
    BY <1>5, <2>1, <2>2 DEF H!requirePasswordChanged
<1>6. CASE H!RequireMeta(r)
  <2>1. CASE H!Refuse(r, 404)
    BY <2>1, Answered DEF H!Refuse
  <2>2. CASE /\ H!At(r, "changed")
             /\ ~(request[r].op \in H!Routed(H!Admin) /\ request[r].caller # "admin")
             /\ H!Passes(r, IF request[r].op \in H!Operations THEN "bound" ELSE "watch")
    <3>1. MayRun(request[r].caller, request[r].op)
      BY <1>1, <2>2 DEF H!At, StageOK, MayRun
    <3>2. CASE request[r].op \in H!Operations
      BY <1>1, <2>2, <3>1, <3>2, PassedOn DEF H!At, StageOK
    <3>3. CASE request[r].op \notin H!Operations
      BY <1>1, <2>2, <3>1, <3>3, PassedOn DEF H!At, StageOK
    <3> QED
      BY <3>2, <3>3
  <2> QED
    BY <1>6, <2>1, <2>2 DEF H!RequireMeta
<1>7. CASE H!Bind(r) \/ H!ReadBody(r)
  <2>1. CASE H!Refuse(r, 400)
    BY <2>1, Answered DEF H!Refuse
  <2>2. ASSUME NEW stage \in {"read", "handled"}, request[r].stage \in {"bound", "read"},
               H!Passes(r, stage)
        PROVE  RequestsInv'
    BY <1>1, <2>2, PassedOn DEF StageOK
  <2> QED
    BY <1>7, <2>1, <2>2 DEF H!Bind, H!ReadBody, H!At
<1>8. CASE H!Handle(r)
  <2>1. PICK answer : request' = [request EXCEPT ![r].stage = "written", ![r].ran = TRUE,
                                                 ![r].answer = answer]
    BY <1>8 DEF H!Handle
  <2> DEFINE new == [request[r] EXCEPT !.stage = "written", !.ran = TRUE, !.answer = answer]
  <2>2. request' = [request EXCEPT ![r] = new]
    BY <1>1, <2>1
  <2>3. /\ new.stage = "written" /\ new.op = request[r].op /\ new.caller = request[r].caller
        /\ DOMAIN new = {"stage", "op", "caller", "context", "answer", "ran"}
    BY <1>1
  <2>4. request[r].op \in H!Scoped /\ request[r].stage = "handled"
    BY <1>1, <1>8, ScopedFacts DEF H!Handle, H!At, StageOK
  <2>5. readers' = readers \cup {<<r, NoContext>>} /\ seen' = seen
    BY <1>8, <2>4 DEF H!Handle
  <2> HIDE DEF new
  <2>6. StageOK(new)
    BY <1>1, <2>3, <2>4 DEF StageOK
  <2>7. \A q \in Requests : request'[q] = IF q = r THEN new ELSE request[q]
    BY <1>1, <2>2 DEF RequestsInv, RequestShape
  <2>8. RequestShape'
    BY <2>2, <2>3, <2>7 DEF RequestsInv, RequestShape
  <2>9. ASSUME NEW q \in Requests PROVE StageOK(request'[q])
    BY <2>6, <2>7 DEF RequestsInv
  <2>10. \A reader \in readers' : reader[2] = NoContext
    BY <2>5 DEF RequestsInv
  <2> QED
    BY <2>5, <2>8, <2>9, <2>10 DEF RequestsInv, H!OwnContext
<1>9. CASE H!Visit(r)
  BY <1>9, Answered DEF H!Visit, H!Refuse
<1>10. CASE H!watch(r)
  <2>1. PICK answer : request' = [request EXCEPT ![r].stage = "done", ![r].ran = TRUE,
                                                 ![r].answer = answer]
    BY <1>10 DEF H!watch
  <2> DEFINE new == [request[r] EXCEPT !.stage = "done", !.ran = TRUE, !.answer = answer]
  <2>2. request' = [request EXCEPT ![r] = new] /\ UNCHANGED <<readers, seen>>
    BY <1>1, <1>10, <2>1 DEF H!watch
  <2>3. /\ new.stage = "done" /\ new.op = request[r].op /\ new.caller = request[r].caller
        /\ DOMAIN new = {"stage", "op", "caller", "context", "answer", "ran"}
    BY <1>1
  <2>4. request[r].stage = "watch"
    BY <1>10 DEF H!watch, H!At
  <2> HIDE DEF new
  <2>5. StageOK(new)
    BY <1>1, <2>3, <2>4 DEF StageOK
  <2> QED
    BY <2>2, <2>3, <2>5, MovedOn
<1> QED
  BY <1>2, <1>3, <1>4, <1>5, <1>6, <1>7, <1>8, <1>9, <1>10 DEF H!Step

LEMMA RequestsStep ==
    ASSUME RequestsInv, [H!Next]_(H!vars)
    PROVE  RequestsInv'
<1>1. CASE UNCHANGED H!vars
  BY <1>1 DEF H!vars, RequestsInv, RequestShape, StageOK, H!OwnContext
<1>2. ASSUME NEW reader \in readers, H!ReadContext(reader) PROVE RequestsInv'
  <2>1. reader[2] = NoContext
    BY DEF RequestsInv
  <2>2. seen' = seen \cup {<<reader[1], reader[1]>>} /\ readers' \subseteq readers /\ request' = request
    BY <1>2, <2>1 DEF H!ReadContext
  <2> QED
    BY <2>2 DEF RequestsInv, RequestShape, StageOK, H!OwnContext
<1> QED
  BY <1>1, <1>2, RequestWay DEF H!Next

LEMMA RequestsStart == H!Init => RequestsInv
<1> SUFFICES ASSUME H!Init PROVE RequestsInv
  OBVIOUS
<1>1. \A r \in Requests : request[r] = H!Waiting
  BY DEF H!Init
<1>2. DOMAIN H!Waiting = {"stage", "op", "caller", "context", "answer", "ran"} /\ StageOK(H!Waiting)
  BY DEF H!Waiting, StageOK, SignedIn, PastGuard, PastRole, Generated
<1> QED
  BY <1>1, <1>2 DEF H!Init, RequestsInv, RequestShape, H!OwnContext

\* A call of the database that outlives its handler reads its own request's
\* context, however gin's pool hands its contexts on (requestScoped).
THEOREM OwnContextTheorem == H!Spec => []OwnContext
<1>1. RequestsInv => H!OwnContext
  BY DEF RequestsInv
<1> QED
  BY <1>1, RequestsStart, RequestsStep, PTL DEF H!Spec, OwnContext

-----------------------------------------------------------------------------
(* The contract: what its tables declare, and that nothing else is answered. *)

\* The error envelope of a status, and a response of any kind.
Envelope(status) == [status |-> status, body |-> "json"]
IsAnswer(answer) == \E s, b : answer = [status |-> s, body |-> b]

LEMMA EnvelopeDeclared == \A S : \A s \in S : Envelope(s) \in H!JSON(S)
BY DEF H!JSON, Envelope

LEMMA AnswersAre ==
    /\ \A S : \A a \in H!JSON(S) : IsAnswer(a)
    /\ \A s, b : \A a \in H!File(s, b) : IsAnswer(a)
    /\ \A s : \A a \in H!Empty(s) : IsAnswer(a)
<1>1. \A S : \A a \in H!JSON(S) : IsAnswer(a)
  BY DEF H!JSON, IsAnswer
<1>2. \A s, b : \A a \in H!File(s, b) : IsAnswer(a)
  BY DEF H!File, IsAnswer
<1>3. \A s : \A a \in H!Empty(s) : IsAnswer(a)
  BY DEF H!Empty, IsAnswer
<1> QED
  BY <1>1, <1>2, <1>3

\* Every response object has what the guards in front of its handler say: no
\* session, a password to change, no identity server.
LEMMA DeclaredOfAll ==
    ASSUME NEW op \in H!Operations
    PROVE  {Envelope(401), Envelope(403), Envelope(503)} \subseteq H!StrictServerInterface[op]
BY EnvelopeDeclared, SMTT(60)
   DEF H!Operations, H!StrictServerInterface,
        H!GetAccountLibraryResponseObject, H!SaveAccountLibraryResponseObject,
        H!ListAuditResponseObject, H!ListChangesResponseObject, H!ImportPlanResponseObject,
        H!PreviewImportResponseObject, H!ListAllJobsResponseObject, H!CancelJobResponseObject,
        H!GetJobResponseObject, H!GetJobPreviewResponseObject, H!ListLogsResponseObject,
        H!ListNodesResponseObject, H!PairNodeResponseObject, H!RevokeNodeResponseObject,
        H!GetNodeResponseObject, H!UpdateNodeResponseObject, H!ListNodeJobsResponseObject,
        H!GetNodeStatusResponseObject, H!ListPlansResponseObject, H!CreatePlanResponseObject,
        H!CreateDemoPlanResponseObject, H!DeletePlanResponseObject, H!GetPlanResponseObject,
        H!UpdatePlanResponseObject, H!ForkPlanResponseObject, H!ListJobsResponseObject,
        H!CreateJobResponseObject, H!TransferPlanResponseObject, H!RestorePlanResponseObject,
        H!ListResultsResponseObject, H!UploadResultResponseObject,
        H!DeleteResultResponseObject, H!DownloadResultResponseObject,
        H!UpdateResultResponseObject, H!CheckResultResponseObject,
        H!ExportResultResponseObject, H!RestoreResultResponseObject,
        H!ListVersionsResponseObject, H!UploadVersionResponseObject,
        H!DownloadVersionResponseObject, H!CheckVersionResponseObject,
        H!DeleteCheckpointResponseObject, H!NameCheckpointResponseObject,
        H!RestoreCheckpointResponseObject, H!ExportVersionResponseObject,
        H!GetRuleCatalogueResponseObject, H!ListRuleProfilesResponseObject,
        H!CreateRuleProfileResponseObject, H!DeleteRuleProfileResponseObject,
        H!UpdateRuleProfileResponseObject, H!GetSchoolKeyResponseObject,
        H!ReleaseSchoolKeyResponseObject, H!GetLockoutResponseObject,
        H!UpdateLockoutResponseObject, H!GetPasswordRulesResponseObject,
        H!GetServerSettingsResponseObject, H!UpdateServerSettingsResponseObject,
        H!GetStorageResponseObject, H!TrimBackupsResponseObject, H!SweepObjectsResponseObject,
        H!EmptyTrashResponseObject, H!ListTrashResponseObject, H!ListUsersResponseObject,
        H!CreateUserResponseObject, H!GetUserResponseObject, H!UpdateUserResponseObject,
        H!ResetUserPasswordResponseObject, H!RevokeUserSessionsResponseObject,
        H!ListUserSessionsResponseObject, H!RevokeUserSessionResponseObject

LEMMA DeclaredAre ==
    ASSUME NEW op \in H!Operations, NEW a \in H!StrictServerInterface[op]
    PROVE  IsAnswer(a)
BY AnswersAre, SMTT(60)
   DEF H!Operations, H!StrictServerInterface,
        H!GetAccountLibraryResponseObject, H!SaveAccountLibraryResponseObject,
        H!ListAuditResponseObject, H!ListChangesResponseObject, H!ImportPlanResponseObject,
        H!PreviewImportResponseObject, H!ListAllJobsResponseObject, H!CancelJobResponseObject,
        H!GetJobResponseObject, H!GetJobPreviewResponseObject, H!ListLogsResponseObject,
        H!ListNodesResponseObject, H!PairNodeResponseObject, H!RevokeNodeResponseObject,
        H!GetNodeResponseObject, H!UpdateNodeResponseObject, H!ListNodeJobsResponseObject,
        H!GetNodeStatusResponseObject, H!ListPlansResponseObject, H!CreatePlanResponseObject,
        H!CreateDemoPlanResponseObject, H!DeletePlanResponseObject, H!GetPlanResponseObject,
        H!UpdatePlanResponseObject, H!ForkPlanResponseObject, H!ListJobsResponseObject,
        H!CreateJobResponseObject, H!TransferPlanResponseObject, H!RestorePlanResponseObject,
        H!ListResultsResponseObject, H!UploadResultResponseObject,
        H!DeleteResultResponseObject, H!DownloadResultResponseObject,
        H!UpdateResultResponseObject, H!CheckResultResponseObject,
        H!ExportResultResponseObject, H!RestoreResultResponseObject,
        H!ListVersionsResponseObject, H!UploadVersionResponseObject,
        H!DownloadVersionResponseObject, H!CheckVersionResponseObject,
        H!DeleteCheckpointResponseObject, H!NameCheckpointResponseObject,
        H!RestoreCheckpointResponseObject, H!ExportVersionResponseObject,
        H!GetRuleCatalogueResponseObject, H!ListRuleProfilesResponseObject,
        H!CreateRuleProfileResponseObject, H!DeleteRuleProfileResponseObject,
        H!UpdateRuleProfileResponseObject, H!GetSchoolKeyResponseObject,
        H!ReleaseSchoolKeyResponseObject, H!GetLockoutResponseObject,
        H!UpdateLockoutResponseObject, H!GetPasswordRulesResponseObject,
        H!GetServerSettingsResponseObject, H!UpdateServerSettingsResponseObject,
        H!GetStorageResponseObject, H!TrimBackupsResponseObject, H!SweepObjectsResponseObject,
        H!EmptyTrashResponseObject, H!ListTrashResponseObject, H!ListUsersResponseObject,
        H!CreateUserResponseObject, H!GetUserResponseObject, H!UpdateUserResponseObject,
        H!ResetUserPasswordResponseObject, H!RevokeUserSessionsResponseObject,
        H!ListUserSessionsResponseObject, H!RevokeUserSessionResponseObject

\* The back office declares the absent route it pretends to be.
LEMMA DeclaredOfAdmin ==
    ASSUME NEW op \in H!Routed(H!Admin)
    PROVE  Envelope(404) \in H!StrictServerInterface[op]
BY EnvelopeDeclared, SMTT(60)
   DEF H!Routed, H!Admin, H!StrictServerInterface,
        H!GetAccountLibraryResponseObject, H!SaveAccountLibraryResponseObject,
        H!ListAuditResponseObject, H!ListChangesResponseObject, H!ImportPlanResponseObject,
        H!PreviewImportResponseObject, H!ListAllJobsResponseObject, H!CancelJobResponseObject,
        H!GetJobResponseObject, H!GetJobPreviewResponseObject, H!ListLogsResponseObject,
        H!ListNodesResponseObject, H!PairNodeResponseObject, H!RevokeNodeResponseObject,
        H!GetNodeResponseObject, H!UpdateNodeResponseObject, H!ListNodeJobsResponseObject,
        H!GetNodeStatusResponseObject, H!ListPlansResponseObject, H!CreatePlanResponseObject,
        H!CreateDemoPlanResponseObject, H!DeletePlanResponseObject, H!GetPlanResponseObject,
        H!UpdatePlanResponseObject, H!ForkPlanResponseObject, H!ListJobsResponseObject,
        H!CreateJobResponseObject, H!TransferPlanResponseObject, H!RestorePlanResponseObject,
        H!ListResultsResponseObject, H!UploadResultResponseObject,
        H!DeleteResultResponseObject, H!DownloadResultResponseObject,
        H!UpdateResultResponseObject, H!CheckResultResponseObject,
        H!ExportResultResponseObject, H!RestoreResultResponseObject,
        H!ListVersionsResponseObject, H!UploadVersionResponseObject,
        H!DownloadVersionResponseObject, H!CheckVersionResponseObject,
        H!DeleteCheckpointResponseObject, H!NameCheckpointResponseObject,
        H!RestoreCheckpointResponseObject, H!ExportVersionResponseObject,
        H!GetRuleCatalogueResponseObject, H!ListRuleProfilesResponseObject,
        H!CreateRuleProfileResponseObject, H!DeleteRuleProfileResponseObject,
        H!UpdateRuleProfileResponseObject, H!GetSchoolKeyResponseObject,
        H!ReleaseSchoolKeyResponseObject, H!GetLockoutResponseObject,
        H!UpdateLockoutResponseObject, H!GetPasswordRulesResponseObject,
        H!GetServerSettingsResponseObject, H!UpdateServerSettingsResponseObject,
        H!GetStorageResponseObject, H!TrimBackupsResponseObject, H!SweepObjectsResponseObject,
        H!EmptyTrashResponseObject, H!ListTrashResponseObject, H!ListUsersResponseObject,
        H!CreateUserResponseObject, H!GetUserResponseObject, H!UpdateUserResponseObject,
        H!ResetUserPasswordResponseObject, H!RevokeUserSessionsResponseObject,
        H!ListUserSessionsResponseObject, H!RevokeUserSessionResponseObject

\* An operation with a number to bind or a body to read declares that it may be
\* malformed.
LEMMA DeclaredOfBinds ==
    ASSUME NEW op \in H!Operations, H!BindsNumber(op)
    PROVE  Envelope(400) \in H!StrictServerInterface[op]
BY EnvelopeDeclared, SMTT(60)
   DEF H!BindsNumber, H!Binds, H!ServerInterfaceWrapper,
        H!BindsFromGetAccountLibrary, H!BindsFromListAllJobs, H!BindsFromListLogs,
        H!BindsFromListNodeJobs, H!BindsFromDeletePlan, H!BindsFromTransferPlan,
        H!BindsFromDownloadResult, H!BindsFromExportResult, H!BindsFromDownloadVersion,
        H!BindsFromRestoreCheckpoint, H!BindsFromUpdateRuleProfile, H!BindsFromSweepObjects,
        H!BindsFromResetUserPassword,
       H!Operations, H!StrictServerInterface,
        H!GetAccountLibraryResponseObject, H!SaveAccountLibraryResponseObject,
        H!ListAuditResponseObject, H!ListChangesResponseObject, H!ImportPlanResponseObject,
        H!PreviewImportResponseObject, H!ListAllJobsResponseObject, H!CancelJobResponseObject,
        H!GetJobResponseObject, H!GetJobPreviewResponseObject, H!ListLogsResponseObject,
        H!ListNodesResponseObject, H!PairNodeResponseObject, H!RevokeNodeResponseObject,
        H!GetNodeResponseObject, H!UpdateNodeResponseObject, H!ListNodeJobsResponseObject,
        H!GetNodeStatusResponseObject, H!ListPlansResponseObject, H!CreatePlanResponseObject,
        H!CreateDemoPlanResponseObject, H!DeletePlanResponseObject, H!GetPlanResponseObject,
        H!UpdatePlanResponseObject, H!ForkPlanResponseObject, H!ListJobsResponseObject,
        H!CreateJobResponseObject, H!TransferPlanResponseObject, H!RestorePlanResponseObject,
        H!ListResultsResponseObject, H!UploadResultResponseObject,
        H!DeleteResultResponseObject, H!DownloadResultResponseObject,
        H!UpdateResultResponseObject, H!CheckResultResponseObject,
        H!ExportResultResponseObject, H!RestoreResultResponseObject,
        H!ListVersionsResponseObject, H!UploadVersionResponseObject,
        H!DownloadVersionResponseObject, H!CheckVersionResponseObject,
        H!DeleteCheckpointResponseObject, H!NameCheckpointResponseObject,
        H!RestoreCheckpointResponseObject, H!ExportVersionResponseObject,
        H!GetRuleCatalogueResponseObject, H!ListRuleProfilesResponseObject,
        H!CreateRuleProfileResponseObject, H!DeleteRuleProfileResponseObject,
        H!UpdateRuleProfileResponseObject, H!GetSchoolKeyResponseObject,
        H!ReleaseSchoolKeyResponseObject, H!GetLockoutResponseObject,
        H!UpdateLockoutResponseObject, H!GetPasswordRulesResponseObject,
        H!GetServerSettingsResponseObject, H!UpdateServerSettingsResponseObject,
        H!GetStorageResponseObject, H!TrimBackupsResponseObject, H!SweepObjectsResponseObject,
        H!EmptyTrashResponseObject, H!ListTrashResponseObject, H!ListUsersResponseObject,
        H!CreateUserResponseObject, H!GetUserResponseObject, H!UpdateUserResponseObject,
        H!ResetUserPasswordResponseObject, H!RevokeUserSessionsResponseObject,
        H!ListUserSessionsResponseObject, H!RevokeUserSessionResponseObject

LEMMA DeclaredOfReads ==
    ASSUME NEW op \in H!Operations, <<op, "none">> \notin H!strictHandler
    PROVE  Envelope(400) \in H!StrictServerInterface[op]
BY EnvelopeDeclared, SMTT(60)
   DEF H!strictHandler, H!Reads,
        H!ReadsFromGetAccountLibrary, H!ReadsFromPreviewImport, H!ReadsFromListLogs,
        H!ReadsFromUpdateNode, H!ReadsFromCreateDemoPlan, H!ReadsFromListJobs,
        H!ReadsFromUploadResult, H!ReadsFromExportResult, H!ReadsFromCheckVersion,
        H!ReadsFromGetRuleCatalogue, H!ReadsFromGetSchoolKey, H!ReadsFromUpdateServerSettings,
        H!ReadsFromListUsers, H!ReadsFromRevokeUserSessions,
       H!Operations, H!StrictServerInterface,
        H!GetAccountLibraryResponseObject, H!SaveAccountLibraryResponseObject,
        H!ListAuditResponseObject, H!ListChangesResponseObject, H!ImportPlanResponseObject,
        H!PreviewImportResponseObject, H!ListAllJobsResponseObject, H!CancelJobResponseObject,
        H!GetJobResponseObject, H!GetJobPreviewResponseObject, H!ListLogsResponseObject,
        H!ListNodesResponseObject, H!PairNodeResponseObject, H!RevokeNodeResponseObject,
        H!GetNodeResponseObject, H!UpdateNodeResponseObject, H!ListNodeJobsResponseObject,
        H!GetNodeStatusResponseObject, H!ListPlansResponseObject, H!CreatePlanResponseObject,
        H!CreateDemoPlanResponseObject, H!DeletePlanResponseObject, H!GetPlanResponseObject,
        H!UpdatePlanResponseObject, H!ForkPlanResponseObject, H!ListJobsResponseObject,
        H!CreateJobResponseObject, H!TransferPlanResponseObject, H!RestorePlanResponseObject,
        H!ListResultsResponseObject, H!UploadResultResponseObject,
        H!DeleteResultResponseObject, H!DownloadResultResponseObject,
        H!UpdateResultResponseObject, H!CheckResultResponseObject,
        H!ExportResultResponseObject, H!RestoreResultResponseObject,
        H!ListVersionsResponseObject, H!UploadVersionResponseObject,
        H!DownloadVersionResponseObject, H!CheckVersionResponseObject,
        H!DeleteCheckpointResponseObject, H!NameCheckpointResponseObject,
        H!RestoreCheckpointResponseObject, H!ExportVersionResponseObject,
        H!GetRuleCatalogueResponseObject, H!ListRuleProfilesResponseObject,
        H!CreateRuleProfileResponseObject, H!DeleteRuleProfileResponseObject,
        H!UpdateRuleProfileResponseObject, H!GetSchoolKeyResponseObject,
        H!ReleaseSchoolKeyResponseObject, H!GetLockoutResponseObject,
        H!UpdateLockoutResponseObject, H!GetPasswordRulesResponseObject,
        H!GetServerSettingsResponseObject, H!UpdateServerSettingsResponseObject,
        H!GetStorageResponseObject, H!TrimBackupsResponseObject, H!SweepObjectsResponseObject,
        H!EmptyTrashResponseObject, H!ListTrashResponseObject, H!ListUsersResponseObject,
        H!CreateUserResponseObject, H!GetUserResponseObject, H!UpdateUserResponseObject,
        H!ResetUserPasswordResponseObject, H!RevokeUserSessionsResponseObject,
        H!ListUserSessionsResponseObject, H!RevokeUserSessionResponseObject

\* The groups wired by hand are the routes of the contract and the stream of a job's
\* events, no operation is on two of them, and the uploads are what reads a document.
LEMMA Wired == H!WiredAsDeclared
<1> DEFINE groups == <<H!Guarded, H!GuardedSolving, H!GuardedUploads, H!Admin, H!Demo>>
<1>1. ASSUME server = {"kratos", "demo"}
      PROVE  H!register = H!RegisterHandlers \cup {<<"GET", "/jobs/:jobId/events", "watch">>}
  <2>1. H!register = H!Guarded \cup H!GuardedSolving \cup H!GuardedUploads \cup H!Admin \cup H!Demo
    BY <1>1 DEF H!register
  <2> USE DEF H!Guarded, H!GuardedSolving, H!GuardedUploads, H!Admin, H!Demo, H!RegisterHandlers
  <2>2. H!Guarded \cup H!GuardedSolving \cup H!GuardedUploads \cup H!Admin \cup H!Demo
          \subseteq H!RegisterHandlers \cup {<<"GET", "/jobs/:jobId/events", "watch">>}
    BY SMTT(60)
  <2>3. H!RegisterHandlers \cup {<<"GET", "/jobs/:jobId/events", "watch">>}
          \subseteq H!Guarded \cup H!GuardedSolving \cup H!GuardedUploads \cup H!Admin \cup H!Demo
    BY SMTT(60)
  <2> QED
    BY ONLY <2>1, <2>2, <2>3
<1>2. ASSUME NEW i \in DOMAIN groups, NEW j \in DOMAIN groups, i # j
      PROVE  H!Routed(groups[i]) \cap H!Routed(groups[j]) = {}
  <2> USE DEF H!Routed, H!Guarded, H!GuardedSolving, H!GuardedUploads, H!Admin, H!Demo
  <2>1. /\ H!Routed(H!Guarded) \cap H!Routed(H!GuardedSolving) = {}
        /\ H!Routed(H!Guarded) \cap H!Routed(H!GuardedUploads) = {}
        /\ H!Routed(H!GuardedSolving) \cap H!Routed(H!GuardedUploads) = {}
    BY SMTT(60)
  <2>2. /\ H!Routed(H!Guarded) \cap H!Routed(H!Admin) = {}
        /\ H!Routed(H!GuardedSolving) \cap H!Routed(H!Admin) = {}
        /\ H!Routed(H!GuardedUploads) \cap H!Routed(H!Admin) = {}
    BY SMTT(60)
  <2>3. /\ H!Routed(H!Guarded) \cap H!Routed(H!Demo) = {}
        /\ H!Routed(H!GuardedSolving) \cap H!Routed(H!Demo) = {}
        /\ H!Routed(H!GuardedUploads) \cap H!Routed(H!Demo) = {}
        /\ H!Routed(H!Admin) \cap H!Routed(H!Demo) = {}
    BY SMTT(60)
  <2>4. i \in 1 .. 5 /\ j \in 1 .. 5
    BY ONLY <1>2
  <2> HIDE DEF H!Routed, H!Guarded, H!GuardedSolving, H!GuardedUploads, H!Admin, H!Demo
  <2> QED
    BY <1>2, <2>1, <2>2, <2>3, <2>4
<1>3. ASSUME NEW op \in H!Operations
      PROVE  <<op, "multipart">> \in H!strictHandler <=> H!CapOf(op) = "upload"
  <2>1. <<op, "multipart">> \in H!strictHandler <=> op \in H!Routed(H!GuardedUploads)
    BY SMTT(60)
       DEF H!Operations, H!StrictServerInterface, H!Routed, H!GuardedUploads, H!strictHandler, H!Reads,
           H!ReadsFromGetAccountLibrary, H!ReadsFromPreviewImport, H!ReadsFromListLogs,
           H!ReadsFromUpdateNode, H!ReadsFromCreateDemoPlan, H!ReadsFromListJobs,
           H!ReadsFromUploadResult, H!ReadsFromExportResult, H!ReadsFromCheckVersion,
           H!ReadsFromGetRuleCatalogue, H!ReadsFromGetSchoolKey,
           H!ReadsFromUpdateServerSettings, H!ReadsFromListUsers,
           H!ReadsFromRevokeUserSessions
  <2> QED
    BY <2>1 DEF H!CapOf
<1> HIDE DEF groups
<1>4. \A i, j \in DOMAIN groups : i # j => H!Routed(groups[i]) \cap H!Routed(groups[j]) = {}
  BY ONLY <1>2
<1> QED
  BY <1>1, <1>3, <1>4 DEF H!WiredAsDeclared, groups

\* What a request may have been told, and may be told from where it stands.
Wide(op) == {429, 413, 500} \cup (IF op \in H!Routed(H!register) THEN {} ELSE {404})
Told(op, answer) ==
    op \in H!Operations => answer \in H!StrictServerInterface[op] \/ answer.status \in Wide(op)

AnswerOK(asked) ==
    /\ asked.stage = "open" => asked.op \notin H!Operations
    /\ asked.stage = "missing" => asked.op \notin H!Routed(H!register)
    /\ asked.stage = "watch" => asked.op \notin H!Operations
    /\ asked.stage = "written" =>
          /\ asked.op \in H!Operations
          /\ asked.answer \in H!StrictServerInterface[asked.op] \cup {Envelope(500)}
    /\ asked.stage = "done" => Told(asked.op, asked.answer)

AnswersInv == RequestsInv /\ \A r \in Requests : AnswerOK(request[r])

\* The steps that move one request on.
LEMMA AnswerMoves ==
    ASSUME AnswersInv, RequestsInv', NEW r \in Requests, NEW new, AnswerOK(new),
           request' = [request EXCEPT ![r] = new], UNCHANGED server
    PROVE  AnswersInv'
<1>1. \A q \in Requests : request'[q] = IF q = r THEN new ELSE request[q]
  BY DEF AnswersInv, RequestsInv, RequestShape
<1>2. ASSUME NEW q \in Requests PROVE AnswerOK(request[q])'
  <2>1. AnswerOK(request'[q])
    BY <1>1 DEF AnswersInv
  <2>2. H!register' = H!register
    BY DEF H!register
  <2> QED
    BY <2>1, <2>2 DEF AnswerOK, Told, Wide
<1> QED
  BY <1>2 DEF AnswersInv

\* A request passes to a stage that only says where it may go.
LEMMA AnswerPasses ==
    ASSUME AnswersInv, RequestsInv', NEW r \in Requests, NEW stage, H!Passes(r, stage),
           stage \notin {"open", "missing", "written", "done"},
           stage = "watch" => request[r].op \notin H!Operations
    PROVE  AnswersInv'
<1> DEFINE new == [request[r] EXCEPT !.stage = stage]
<1>1. /\ DOMAIN request[r] = {"stage", "op", "caller", "context", "answer", "ran"}
      /\ r \in DOMAIN request
  BY DEF AnswersInv, RequestsInv, RequestShape
<1>2. new.stage = stage /\ new.op = request[r].op
  BY <1>1
<1>3. request' = [request EXCEPT ![r] = new] /\ UNCHANGED server
  BY <1>1 DEF H!Passes
<1> HIDE DEF new
<1>4. AnswerOK(new)
  BY <1>2 DEF AnswerOK
<1> QED
  BY <1>3, <1>4, AnswerMoves

\* A request is told something it may be told.
LEMMA AnswerTold ==
    ASSUME AnswersInv, RequestsInv', NEW r \in Requests, NEW status, NEW body,
           H!Respond(r, status, body), Told(request[r].op, [status |-> status, body |-> body])
    PROVE  AnswersInv'
<1> DEFINE answer == [status |-> status, body |-> body]
           new == [request[r] EXCEPT !.stage = "done", !.answer = answer]
<1>1. /\ DOMAIN request[r] = {"stage", "op", "caller", "context", "answer", "ran"}
      /\ r \in DOMAIN request
  BY DEF AnswersInv, RequestsInv, RequestShape
<1>2. new.stage = "done" /\ new.op = request[r].op /\ new.answer = answer
  BY <1>1
<1>3. request' = [request EXCEPT ![r] = new] /\ UNCHANGED server
  BY <1>1 DEF H!Respond
<1>4. Told(request[r].op, answer)
  OBVIOUS
<1> HIDE DEF new, answer
<1>5. AnswerOK(new)
  BY <1>2, <1>4 DEF AnswerOK
<1> QED
  BY <1>3, <1>5, AnswerMoves

\* A refusal declared for the operation, or of the whole server.
LEMMA AnswerRefused ==
    ASSUME AnswersInv, RequestsInv', NEW r \in Requests, NEW status, H!Refuse(r, status),
           request[r].op \in H!Operations =>
             Envelope(status) \in H!StrictServerInterface[request[r].op] \/ status \in Wide(request[r].op)
    PROVE  AnswersInv'
<1>1. Envelope(status).status = status
  BY DEF Envelope
<1>2. Told(request[r].op, Envelope(status))
  BY <1>1 DEF Told
<1> QED
  BY <1>2, AnswerTold DEF H!Refuse, Envelope

LEMMA AnswerWay ==
    ASSUME AnswersInv, RequestsInv', NEW r \in Requests, H!Step(r)
    PROVE  AnswersInv'
<1>1. /\ DOMAIN request[r] = {"stage", "op", "caller", "context", "answer", "ran"}
      /\ StageOK(request[r]) /\ AnswerOK(request[r]) /\ r \in DOMAIN request
  BY DEF AnswersInv, RequestsInv, RequestShape
<1>2. CASE H!Arrive(r)
  <2>1. PICK op \in Asks(r), who \in CallersOf(r), c \in Contexts :
           request' = [request EXCEPT ![r] =
             [stage |-> IF op \in H!Routed(H!Open) THEN "open"
                        ELSE IF op \in H!Routed(H!register) THEN "mounted"
                        ELSE "missing",
              op |-> op, caller |-> who, context |-> c, answer |-> "none", ran |-> FALSE]]
    BY <1>2 DEF H!Arrive
  <2> DEFINE stage == IF op \in H!Routed(H!Open) THEN "open"
                      ELSE IF op \in H!Routed(H!register) THEN "mounted"
                      ELSE "missing"
             new == [stage |-> stage, op |-> op, caller |-> who, context |-> c, answer |-> "none",
                     ran |-> FALSE]
  <2>2. /\ stage \in {"open", "mounted", "missing"}
        /\ stage = "open" => op \in H!Routed(H!Open)
        /\ stage = "missing" => op \notin H!Routed(H!register)
    OBVIOUS
  <2>3. request' = [request EXCEPT ![r] = new] /\ UNCHANGED server
    BY <1>2, <2>1 DEF H!Arrive
  <2>4. op \in H!Routed(H!Open) => op \notin H!Operations
    BY DEF H!Routed, H!Open, H!Operations, H!StrictServerInterface
  <2> HIDE DEF stage
  <2>5. AnswerOK(new)
    BY <2>2, <2>4 DEF AnswerOK
  <2> QED
    BY <2>3, <2>5, AnswerMoves
<1>3. CASE H!NoRoute(r)
  <2>1. 404 \in Wide(request[r].op)
    BY <1>1, <1>3 DEF H!NoRoute, H!At, AnswerOK, Wide
  <2> QED
    BY <1>3, <2>1, AnswerRefused DEF H!NoRoute
<1>4. CASE H!handleInfo(r)
  <2>1. \A answer : Told(request[r].op, answer)
    BY <1>1, <1>4 DEF H!handleInfo, H!At, AnswerOK, Told
  <2> QED
    BY <1>4, <2>1, AnswerTold DEF H!handleInfo
<1>5. CASE H!Mount(r)
  <2>1. CASE \E status \in {429, 413} : H!Refuse(r, status)
    <3>1. {429, 413} \subseteq Wide(request[r].op)
      BY DEF Wide
    <3> QED
      BY <2>1, <3>1, AnswerRefused
  <2>2. CASE \E status \in {401, 503} : H!Refuse(r, status)
    <3>1. PICK status \in {401, 503} : H!Refuse(r, status)
      BY <2>2
    <3>2. request[r].op \in H!Operations => Envelope(status) \in H!StrictServerInterface[request[r].op]
      BY <3>1, DeclaredOfAll
    <3> QED
      BY <3>1, <3>2, AnswerRefused
  <2>3. CASE H!Passes(r, "signed in")
    BY <2>3, AnswerPasses
  <2> QED
    BY ZenonT(60), <1>5, <2>1, <2>2, <2>3 DEF H!Mount
<1>6. CASE H!requirePasswordChanged(r)
  <2>1. CASE H!Refuse(r, 403)
    <3>1. request[r].op \in H!Operations => Envelope(403) \in H!StrictServerInterface[request[r].op]
      BY DeclaredOfAll
    <3> QED
      BY <2>1, <3>1, AnswerRefused
  <2>2. CASE H!Passes(r, "changed")
    BY <2>2, AnswerPasses
  <2> QED
    BY <1>6, <2>1, <2>2 DEF H!requirePasswordChanged
<1>7. CASE H!RequireMeta(r)
  <2>1. CASE request[r].op \in H!Routed(H!Admin) /\ H!Refuse(r, 404)
    <3>1. Envelope(404) \in H!StrictServerInterface[request[r].op]
      BY <2>1, DeclaredOfAdmin
    <3> QED
      BY <2>1, <3>1, AnswerRefused
  <2>2. CASE request[r].op \in H!Operations /\ H!Passes(r, "bound")
    BY <2>2, AnswerPasses
  <2>3. CASE request[r].op \notin H!Operations /\ H!Passes(r, "watch")
    BY <2>3, AnswerPasses
  <2> QED
    BY <1>7, <2>1, <2>2, <2>3 DEF H!RequireMeta
<1>8. CASE H!Bind(r)
  <2>1. request[r].op \in H!Operations
    BY <1>1, <1>8 DEF H!Bind, H!At, StageOK, Generated
  <2>2. CASE H!BindsNumber(request[r].op) /\ H!Refuse(r, 400)
    BY <2>1, <2>2, DeclaredOfBinds, AnswerRefused
  <2>3. CASE H!Passes(r, "read")
    BY <2>3, AnswerPasses
  <2> QED
    BY <1>8, <2>2, <2>3 DEF H!Bind
<1>9. CASE H!ReadBody(r)
  <2>1. request[r].op \in H!Operations
    BY <1>1, <1>9 DEF H!ReadBody, H!At, StageOK, Generated
  <2>2. CASE <<request[r].op, "none">> \notin H!strictHandler /\ H!Refuse(r, 400)
    BY <2>1, <2>2, DeclaredOfReads, AnswerRefused
  <2>3. CASE H!Passes(r, "handled")
    BY <2>3, AnswerPasses
  <2> QED
    BY <1>9, <2>2, <2>3 DEF H!ReadBody
<1>10. CASE H!Handle(r)
  <2>1. request[r].op \in H!Operations
    BY <1>1, <1>10 DEF H!Handle, H!At, StageOK, Generated
  <2>2. PICK answer \in H!StrictServerInterface[request[r].op] \cup {Envelope(500)} :
           request' = [request EXCEPT ![r].stage = "written", ![r].ran = TRUE, ![r].answer = answer]
    BY <1>10 DEF H!Handle, Envelope
  <2> DEFINE new == [request[r] EXCEPT !.stage = "written", !.ran = TRUE, !.answer = answer]
  <2>3. request' = [request EXCEPT ![r] = new] /\ UNCHANGED server
    BY <1>1, <1>10, <2>2 DEF H!Handle
  <2>4. new.stage = "written" /\ new.op = request[r].op /\ new.answer = answer
    BY <1>1
  <2> HIDE DEF new
  <2>5. AnswerOK(new)
    BY <2>1, <2>2, <2>4 DEF AnswerOK
  <2> QED
    BY <2>3, <2>5, AnswerMoves
<1>11. CASE H!Visit(r)
  <2> DEFINE answer == request[r].answer
  <2>1. /\ request[r].op \in H!Operations
        /\ answer \in H!StrictServerInterface[request[r].op] \cup {Envelope(500)}
    BY <1>1, <1>11 DEF H!Visit, H!At, AnswerOK
  <2> HIDE DEF answer
  <2>2. CASE H!Respond(r, answer.status, answer.body)
    <3>1. IsAnswer(answer)
      BY <2>1, DeclaredAre DEF IsAnswer, Envelope
    <3>2. [status |-> answer.status, body |-> answer.body] = answer
      BY <3>1 DEF IsAnswer
    <3>3. Envelope(500).status = 500
      BY DEF Envelope
    <3>4. Told(request[r].op, answer)
      BY <2>1, <3>3 DEF Told, Wide
    <3> QED
      BY <2>2, <3>2, <3>4, AnswerTold
  <2>3. CASE H!Refuse(r, 500)
    <3>1. 500 \in Wide(request[r].op)
      BY DEF Wide
    <3> QED
      BY <2>3, <3>1, AnswerRefused
  <2> QED
    BY <1>11, <2>2, <2>3 DEF H!Visit, answer
<1>12. CASE H!watch(r)
  <2>1. PICK answer : request' = [request EXCEPT ![r].stage = "done", ![r].ran = TRUE,
                                                 ![r].answer = answer]
    BY <1>12 DEF H!watch
  <2> DEFINE new == [request[r] EXCEPT !.stage = "done", !.ran = TRUE, !.answer = answer]
  <2>2. request' = [request EXCEPT ![r] = new] /\ UNCHANGED server
    BY <1>1, <1>12, <2>1 DEF H!watch
  <2>3. new.stage = "done" /\ new.op = request[r].op
    BY <1>1
  <2>4. request[r].op \notin H!Operations
    BY <1>1, <1>12 DEF H!watch, H!At, AnswerOK
  <2> HIDE DEF new
  <2>5. AnswerOK(new)
    BY <2>3, <2>4 DEF AnswerOK, Told
  <2> QED
    BY <2>2, <2>5, AnswerMoves
<1> QED
  BY <1>2, <1>3, <1>4, <1>5, <1>6, <1>7, <1>8, <1>9, <1>10, <1>11, <1>12 DEF H!Step

LEMMA AnswersStep ==
    ASSUME AnswersInv, [H!Next]_(H!vars)
    PROVE  AnswersInv'
<1>1. RequestsInv'
  BY RequestsStep DEF AnswersInv
<1>2. CASE request' = request /\ server' = server
  <2>1. H!register' = H!register
    BY <1>2 DEF H!register
  <2> QED
    BY <1>1, <1>2, <2>1 DEF AnswersInv, AnswerOK, Told, Wide
<1>3. ASSUME NEW r \in Requests, H!Step(r) PROVE AnswersInv'
  BY <1>1, <1>3, AnswerWay
<1> QED
  BY <1>2, <1>3 DEF H!Next, H!ReadContext, H!vars

LEMMA AnswersStart == H!Init => AnswersInv
<1> SUFFICES ASSUME H!Init PROVE AnswersInv
  OBVIOUS
<1>1. \A r \in Requests : request[r].stage = "waiting"
  BY DEF H!Init, H!Waiting
<1> QED
  BY <1>1, RequestsStart DEF AnswersInv, AnswerOK

\* Whatever is asked by whom in whichever configuration: each operation is on its
\* declared route in one group with room for its body, no guard, boundary or failure
\* answers what the operation does not declare, and no handler runs for a caller its
\* guards refuse (Server.register, requireUser, requirePasswordChanged, RequireMeta,
\* the wrappers and strict handlers of api.gen.go).
THEOREM ContractKeptTheorem == H!Spec => []ContractKept
<1>1. AnswersInv => H!DeclaredAnswers
  <2> SUFFICES ASSUME AnswersInv, NEW r \in Requests, request[r].stage = "done",
                      request[r].op \in H!Operations
               PROVE  \/ request[r].answer \in H!StrictServerInterface[request[r].op]
                      \/ request[r].answer.status \in H!ServerWide(r)
    BY DEF H!DeclaredAnswers, H!At
  <2>1. Told(request[r].op, request[r].answer)
    BY DEF AnswersInv, AnswerOK
  <2> QED
    BY <2>1 DEF Told, Wide, H!ServerWide
<1>2. AnswersInv => H!HandlersGuarded
  BY BackOfficeFacts DEF AnswersInv, RequestsInv, StageOK, MayRun, H!HandlersGuarded
<1>3. AnswersInv => H!ContractKept
  BY <1>1, <1>2, Wired DEF H!ContractKept
<1> QED
  BY <1>3, AnswersStart, AnswersStep, PTL DEF H!Spec, ContractKept

-----------------------------------------------------------------------------
(* The services together. *)

\* A behaviour of the server is one of each service: no service writes another's
\* state, so what is proved of one holds beside the others.
THEOREM ServicesApart ==
    Spec => H!Spec /\ G!Spec /\ K!Spec /\ X!Spec /\ L!Spec /\ P!Spec /\ C!Spec /\ R!Spec
<1>1. Init => H!Init /\ G!Init /\ K!Init /\ X!Init /\ L!Init /\ P!Init /\ C!Init /\ R!Init
  BY DEF Init
<1>2. [Next]_vars => [H!Next]_(H!vars)
  BY DEF Next, vars, httpVars, H!vars
<1>3. [Next]_vars => [G!Next]_(G!vars)
  BY DEF Next, vars, lockoutVars, G!vars
<1>4. [Next]_vars => [K!Next]_(K!vars)
  BY DEF Next, vars, escrowVars, K!vars
<1>5. [Next]_vars => [X!Next]_(X!vars)
  BY DEF Next, vars, exportVars, X!vars
<1>6. [Next]_vars => [L!Next]_(L!vars)
  BY DEF Next, vars, libraryVars, L!vars
<1>7. [Next]_vars => [P!Next]_(P!vars)
  BY DEF Next, vars, profileVars, P!vars
<1>8. [Next]_vars => [C!Next]_(C!vars)
  BY DEF Next, vars, settingVars, C!vars
<1>9. [Next]_vars => [R!Next]_(R!vars)
  BY DEF Next, vars, resultVars, R!vars
<1> QED
  BY <1>1, <1>2, <1>3, <1>4, <1>5, <1>6, <1>7, <1>8, <1>9, PTL
     DEF Spec, H!Spec, G!Spec, K!Spec, X!Spec, L!Spec, P!Spec, C!Spec, R!Spec
=============================================================================
