--------------------------- MODULE TimelineProofs ---------------------------
(***************************************************************************)
(* Proofs about Timeline for any uploads, keys, requests, solves and caps. *)
(***************************************************************************)
EXTENDS Timeline, FiniteSetTheorems, TLAPS

USE TimelineAssumption DEF Numbers

\* A request under way carries an upload whose parent was chosen.
RequestsSent ==
    \A q \in Requests : request[q].pc # "idle" =>
        request[q].up \in Uploads /\ parent[request[q].up] # 0

Inv == TypeOK /\ Linear /\ RequestsSent

RequestRecord == [pc : {"idle", "got", "inserting", "failed", "unknown", "conflict"},
                  up : Uploads \cup {First}, own : OwnCaps \cup {0},
                  failed : {"none", "refused", "error"}]

\* What a trim removes is a plain version below newest that no open solve reads.
LEMMA TrimRemoves ==
    ASSUME NEW docs \in [Numbers -> Uploads \cup {First, None}], NEW marks,
           NEW newest, NEW keep, Trim(docs, marks, newest, keep)
    PROVE  /\ content' \in [Numbers -> Uploads \cup {First, None}]
           /\ mark' = marks
           /\ \A v \in Numbers : content'[v] # docs[v] =>
                 /\ content'[v] = None
                 /\ v < newest /\ marks[v] = "plain" /\ v \notin Solving
BY DEF Trim, BeyondCap, Backups

LEMMA TrimSpares ==
    ASSUME spared \subseteq Numbers, NEW docs, NEW marks, NEW newest, NEW keep,
           Trim(docs, marks, newest, keep)
    PROVE  spared' \subseteq Numbers
BY DEF Trim, BeyondCap, Backups

LEMMA InvInit == Init => Inv
<1> SUFFICES ASSUME Init PROVE Inv
  OBVIOUS
<1> USE DEF Init
<1>1. TypeOK
  <2>1. IdleRequest \in RequestRecord
    BY DEF IdleRequest, RequestRecord
  <2>2. 1 \in Numbers
    OBVIOUS
  <2> QED
    BY <2>1 DEF TypeOK, RequestRecord
<1>2. Linear
  BY DEF Linear, Versions
<1>3. RequestsSent
  BY DEF RequestsSent, IdleRequest
<1> QED
  BY <1>1, <1>2, <1>3 DEF Inv

-----------------------------------------------------------------------------
(* The steps that change the timeline. *)

\* A trim of the timeline as it stands keeps it one line.
LEMMA TrimStep ==
    ASSUME Inv, NEW marks \in [Numbers -> {"plain", "checkpoint", "trashed"}],
           NEW newest, IsNewest(newest), NEW keep, Trim(content, marks, newest, keep),
           UNCHANGED <<plan, parent, request, solve, line>>
    PROVE  Inv'
<1>1. /\ content' \in [Numbers -> Uploads \cup {First, None}]
      /\ mark' = marks
      /\ \A v \in Numbers : content'[v] # content[v] => content'[v] = None /\ v < newest
  BY TrimRemoves DEF Inv, TypeOK
<1>2. TypeOK'
  BY <1>1, TrimSpares DEF Inv, TypeOK, plan
<1>3. newest \in Versions'
  BY <1>1 DEF Inv, TypeOK, IsNewest, Versions
<1>4. Linear'
  BY <1>1, <1>3 DEF Inv, TypeOK, Linear, Versions, IsNewest
<1> QED
  BY <1>2, <1>4 DEF Inv, RequestsSent

\* An insert puts its version where none was ever stored, after the newest.
LEMMA InsertFresh ==
    ASSUME Inv, NEW q \in Requests, InsertVersion(q)
    PROVE  /\ request[q].up \in Uploads
           /\ parent[request[q].up] \in Numbers
           /\ parent[request[q].up] + 1 \in Numbers
           /\ IsNewest(parent[request[q].up])
           /\ line[parent[request[q].up] + 1] = None
           /\ line[parent[request[q].up]] # None
<1>1. /\ request[q].up \in Uploads
      /\ parent[request[q].up] \in Numbers
      /\ parent[request[q].up] + 1 \in Numbers
  BY DEF InsertVersion, Inv, TypeOK, RequestsSent
<1>2. IsNewest(parent[request[q].up])
  BY <1>1 DEF InsertVersion, ParentNewest, IsNewest, Versions
<1>3. line[parent[request[q].up] + 1] = None
  BY <1>1, <1>2 DEF Inv, TypeOK, Linear, IsNewest, Versions
<1>4. line[parent[request[q].up]] # None
  BY <1>1, <1>2 DEF Inv, Linear, IsNewest, Versions
<1> QED
  BY <1>1, <1>2, <1>3, <1>4

LEMMA InsertStep ==
    ASSUME Inv, NEW q \in Requests, InsertVersion(q)
    PROVE  Inv'
<1> DEFINE u == request[q].up
           p == parent[u]
           docs == [content EXCEPT ![p + 1] = u]
           marks == [mark EXCEPT ![p + 1] = "plain"]
<1>1. /\ u \in Uploads /\ p \in Numbers /\ p + 1 \in Numbers
      /\ IsNewest(p) /\ line[p + 1] = None /\ line[p] # None
  BY InsertFresh
<1>2. docs \in [Numbers -> Uploads \cup {First, None}]
  BY <1>1 DEF Inv, TypeOK
<1>3. /\ Trim(docs, marks, p + 1, KeepFor(request[q].own))
      /\ line' = [line EXCEPT ![p + 1] = u]
      /\ request' = [request EXCEPT ![q] = IdleRequest]
      /\ UNCHANGED <<own, server, trashed, parent, solve>>
  BY DEF InsertVersion, Reply, plan
<1> HIDE DEF docs, marks
<1>4. /\ content' \in [Numbers -> Uploads \cup {First, None}]
      /\ mark' = marks
      /\ \A v \in Numbers : content'[v] # docs[v] => content'[v] = None /\ v < p + 1
  BY <1>2, <1>3, TrimRemoves
<1>5. spared' \subseteq Numbers
  BY <1>3, TrimSpares DEF Inv, TypeOK
<1> USE DEF docs, marks
<1>6. TypeOK'
  <2>1. request' \in [Requests -> RequestRecord]
    BY <1>3 DEF Inv, TypeOK, RequestRecord, IdleRequest
  <2>2. line' \in [Numbers -> Uploads \cup {First, None}]
    BY <1>1, <1>3 DEF Inv, TypeOK
  <2>3. mark' \in [Numbers -> {"plain", "checkpoint", "trashed"}]
    BY <1>1, <1>4 DEF Inv, TypeOK
  <2> QED
    BY <1>3, <1>4, <1>5, <2>1, <2>2, <2>3 DEF Inv, TypeOK, RequestRecord
<1>7. Linear'
  <2> USE DEF Inv, TypeOK
  <2>1. \A v \in Versions' : content'[v] = line'[v]
    BY <1>1, <1>3, <1>4 DEF Linear, Versions
  <2>2. content'[p + 1] = u
    BY <1>1, <1>4
  <2>3. \A v \in Numbers : line'[v] # None => v <= p + 1
    BY <1>1, <1>3 DEF Linear, IsNewest, Versions
  <2>4. p + 1 \in Versions'
    BY <1>1, <2>2 DEF Versions
  <2>5. \A v \in Numbers : line'[v] # None => \E o \in Versions' : o >= v
    BY <1>1, <2>3, <2>4
  <2>6. \A v \in Numbers : line'[v] \in Uploads =>
           v > 1 /\ parent'[line'[v]] = v - 1 /\ line'[v - 1] # None
    <3> SUFFICES ASSUME NEW v \in Numbers, line'[v] \in Uploads
                 PROVE  v > 1 /\ parent'[line'[v]] = v - 1 /\ line'[v - 1] # None
      OBVIOUS
    <3>1. CASE v = p + 1
      BY <1>1, <1>3, <3>1
    <3>2. CASE v # p + 1
      BY <1>1, <1>3, <3>2 DEF Linear
    <3> QED
      BY <3>1, <3>2
  <2> QED
    BY <2>1, <2>5, <2>6 DEF Linear
<1>8. RequestsSent'
  BY <1>3 DEF Inv, TypeOK, RequestsSent, IdleRequest
<1> QED
  BY <1>6, <1>7, <1>8 DEF Inv

\* A first send fixes the parent of an upload that no version holds.
LEMMA GetStep ==
    ASSUME Inv, NEW q \in Requests, NEW u \in Uploads, NEW p \in Numbers, Get(q, u, p)
    PROVE  Inv'
<1> USE DEF Inv, TypeOK, Get
<1>1. TypeOK'
  <2>1. request' \in [Requests -> RequestRecord]
    BY DEF RequestRecord
  <2> QED
    BY <2>1 DEF RequestRecord, plan, history
<1>2. \A v \in Numbers : line[v] \in Uploads => parent'[line[v]] = parent[line[v]]
  BY DEF Linear
<1>3. Linear'
  BY <1>2 DEF Linear, Versions, history
<1>4. RequestsSent'
  BY DEF RequestsSent
<1> QED
  BY <1>1, <1>3, <1>4

\* A request moves on, or is answered, and nothing else changes.
Moves(q) ==
    /\ \/ request' = [request EXCEPT ![q] = IdleRequest]
       \/ \E pc \in {"inserting", "failed", "unknown", "conflict"},
             failed \in {"none", "refused", "error"} :
             /\ request[q].pc # "idle"
             /\ request' = [request EXCEPT ![q] = [pc |-> pc, up |-> request[q].up,
                                  own |-> request[q].own, failed |-> failed]]
    /\ UNCHANGED <<content, mark, plan, parent, solve, history>>

LEMMA MovesStep ==
    ASSUME Inv, NEW q \in Requests, Moves(q)
    PROVE  Inv'
<1> DEFINE Next_q == request'[q]
<1>1. \A r \in Requests : r # q => request'[r] = request[r]
  BY DEF Inv, TypeOK, Moves
<1>2. /\ Next_q \in RequestRecord
      /\ Next_q.pc # "idle" => request[q].pc # "idle" /\ Next_q.up = request[q].up
  <2>1. CASE request' = [request EXCEPT ![q] = IdleRequest]
    BY <2>1 DEF Inv, TypeOK, RequestRecord, IdleRequest
  <2>2. CASE request' # [request EXCEPT ![q] = IdleRequest]
    <3>1. PICK pc \in {"inserting", "failed", "unknown", "conflict"},
               failed \in {"none", "refused", "error"} :
             /\ request[q].pc # "idle"
             /\ request' = [request EXCEPT ![q] = [pc |-> pc, up |-> request[q].up,
                                  own |-> request[q].own, failed |-> failed]]
      BY <2>2 DEF Moves
    <3> QED
      BY <3>1 DEF Inv, TypeOK, RequestRecord
  <2> QED
    BY <2>1, <2>2
<1>3. DOMAIN request' = Requests /\ request' = [r \in Requests |-> request'[r]]
  BY DEF Inv, TypeOK, Moves
<1>4. UNCHANGED <<content, mark, own, server, trashed, parent, solve, line, spared>>
  BY DEF Moves, plan, history
<1> HIDE DEF Next_q
<1>5. request' \in [Requests -> RequestRecord]
  BY <1>1, <1>2, <1>3 DEF Inv, TypeOK, RequestRecord, Next_q
<1>6. TypeOK'
  BY <1>4, <1>5 DEF Inv, TypeOK, RequestRecord
<1>7. Linear'
  BY <1>4 DEF Inv, Linear, Versions
<1>8. RequestsSent'
  BY <1>1, <1>2, <1>4 DEF Inv, RequestsSent, Next_q
<1> QED
  BY <1>6, <1>7, <1>8 DEF Inv

\* The steps of a request that only move it.
LEMMA RequestMoves ==
    ASSUME Inv, NEW q \in Requests,
           \/ Replay(q) \/ InsertRefused(q) \/ InsertFails(q)
           \/ ReplayAgain(q) \/ Current(q) \/ Conflict(q)
    PROVE  Moves(q)
<1>1. request[q] = [pc |-> request[q].pc, up |-> request[q].up, own |-> request[q].own,
                    failed |-> request[q].failed]
      /\ request[q].failed \in {"none", "refused", "error"}
  BY DEF Inv, TypeOK
<1>2. CASE Replay(q)
  BY <1>1, <1>2 DEF Replay, Reply, Moves
<1>3. CASE InsertRefused(q)
  BY <1>3 DEF InsertRefused, Fail, Moves
<1>4. CASE InsertFails(q)
  BY <1>4 DEF InsertFails, Fail, Moves
<1>5. CASE ReplayAgain(q)
  BY <1>1, <1>5 DEF ReplayAgain, Reply, Moves
<1>6. CASE Current(q)
  BY <1>1, <1>6 DEF Current, Reply, Moves
<1>7. CASE Conflict(q)
  BY <1>1, <1>7 DEF Conflict, Reply, Moves
<1> QED
  BY <1>2, <1>3, <1>4, <1>5, <1>6, <1>7

\* Caps, marks, Trash and jobs change without the timeline.
LEMMA OtherStep ==
    ASSUME Inv, TypeOK', UNCHANGED <<content, line, parent, request>>
    PROVE  Inv'
BY DEF Inv, Linear, Versions, RequestsSent

LEMMA InvStep == Inv /\ [Next]_vars => Inv'
<1> SUFFICES ASSUME Inv, [Next]_vars PROVE Inv'
  OBVIOUS
<1>1. ASSUME NEW q \in Requests,
             \/ \E u \in Uploads, p \in Numbers : Get(q, u, p)
             \/ Replay(q) \/ InsertVersion(q) \/ InsertRefused(q) \/ InsertFails(q)
             \/ ReplayAgain(q) \/ Current(q) \/ Conflict(q)
      PROVE  Inv'
  BY <1>1, GetStep, InsertStep, RequestMoves, MovesStep
<1>2. CASE TrimPlan
  BY <1>2, TrimStep DEF TrimPlan, Inv, TypeOK
<1>3. ASSUME NEW ended \in SUBSET Numbers, PurgeCheckpoints(ended) PROVE Inv'
  <2> DEFINE marks == [v \in Numbers |-> IF v \in ended THEN "plain" ELSE mark[v]]
  <2>1. marks \in [Numbers -> {"plain", "checkpoint", "trashed"}]
    BY DEF Inv, TypeOK
  <2>2. PICK newest \in Versions :
           IsNewest(newest) /\ Trim(content, marks, newest, KeepFor(own))
    BY <1>3 DEF PurgeCheckpoints
  <2>3. UNCHANGED <<plan, parent, request, solve, line>>
    BY <1>3 DEF PurgeCheckpoints
  <2> HIDE DEF marks
  <2> QED
    BY <2>1, <2>2, <2>3, TrimStep
<1>4. CASE (\E keep \in OwnCaps \cup {0} : Update(keep)) \/ (\E keep \in ServerCaps : SetCaps(keep))
  <2>1. TypeOK'
    BY <1>4 DEF Update, SetCaps, Inv, TypeOK, history
  <2> QED
    BY <1>4, <2>1, OtherStep DEF Update, SetCaps, history
<1>5. ASSUME NEW v \in Numbers,
             NameCheckpoint(v) \/ DeleteCheckpoint(v) \/ RestoreCheckpoint(v)
      PROVE  Inv'
  <2>1. TypeOK'
    BY <1>5 DEF NameCheckpoint, DeleteCheckpoint, RestoreCheckpoint, Inv, TypeOK, plan, history
  <2> QED
    BY <1>5, <2>1, OtherStep DEF NameCheckpoint, DeleteCheckpoint, RestoreCheckpoint, history
<1>6. ASSUME NEW j \in Solves, (\E v \in Numbers : CreateJob(j, v)) \/ FinishJob(j)
      PROVE  Inv'
  <2>1. TypeOK'
    BY <1>6 DEF CreateJob, FinishJob, Inv, TypeOK, plan, history
  <2> QED
    BY <1>6, <2>1, OtherStep DEF CreateJob, FinishJob, history
<1>7. CASE Trash
  <2>1. TypeOK'
    BY <1>7 DEF Trash, Inv, TypeOK, history
  <2> QED
    BY <1>7, <2>1, OtherStep DEF Trash, history
<1>8. CASE Crash
  <2>1. TypeOK'
    BY <1>8 DEF Crash, Inv, TypeOK, plan, history, IdleRequest
  <2>2. Linear'
    BY <1>8 DEF Crash, Inv, Linear, Versions, history
  <2>3. RequestsSent'
    BY <1>8 DEF Crash, RequestsSent, IdleRequest
  <2> QED
    BY <2>1, <2>2, <2>3 DEF Inv
<1>9. CASE UNCHANGED vars
  <2>1. TypeOK'
    BY <1>9 DEF vars, Inv, TypeOK
  <2> QED
    BY <1>9, <2>1, OtherStep DEF vars
<1> QED
  BY <1>1, <1>2, <1>3, <1>4, <1>5, <1>6, <1>7, <1>8, <1>9 DEF Next

\* The timeline of a plan stays one line under racing uploads, retries, caps,
\* purges and crashes (plans.AddVersion, plans.trim, plans.PurgeCheckpoints).
THEOREM LinearTheorem == Spec => [](TypeOK /\ Linear)
<1>1. Inv => TypeOK /\ Linear
  BY DEF Inv
<1> QED
  BY <1>1, InvInit, InvStep, PTL DEF Spec

\* An upload becomes at most one version however often it is sent: its parent is
\* fixed, and the newest version is never removed (plans.AddVersion).
THEOREM UploadOnceTheorem == Spec => []UploadOnce
<1>1. Inv => UploadOnce
  <2> SUFFICES ASSUME Inv, NEW v \in Numbers, NEW o \in Numbers,
                      line[v] \in Uploads, line[o] = line[v]
               PROVE  o = v
    BY DEF UploadOnce
  <2>1. parent[line[v]] = v - 1 /\ parent[line[v]] = o - 1
    BY DEF Inv, Linear
  <2> QED
    BY <2>1
<1> QED
  BY <1>1, InvInit, InvStep, PTL DEF Spec

-----------------------------------------------------------------------------
(* What no step does to the timeline. *)

Reuse(v) == line[v] # None => line'[v] = line[v] /\ content'[v] \in {content[v], None}

Protect(v) == mark[v] = "checkpoint" \/ v \in Solving \/ IsNewest(v) =>
                 content'[v] = content[v]

\* A step that trims the timeline as it stands.
LEMMA TrimKeeps ==
    ASSUME Inv, NEW marks, NEW newest, IsNewest(newest), NEW keep,
           Trim(content, marks, newest, keep), line' = line,
           \A v \in Versions : mark[v] = "checkpoint" => marks[v] # "plain"
    PROVE  /\ \A v \in Numbers : Reuse(v)
           /\ \A v \in Versions : Protect(v)
<1>1. \A v \in Numbers : content'[v] # content[v] =>
         content'[v] = None /\ v < newest /\ marks[v] = "plain" /\ v \notin Solving
  BY TrimRemoves DEF Inv, TypeOK
<1> QED
  BY <1>1 DEF Reuse, Protect, IsNewest, Versions

\* A cap in force is at least one.
LEMMA KeepPositive ==
    ASSUME Inv, NEW q \in Requests
    PROVE  KeepFor(request[q].own) \in Nat /\ KeepFor(request[q].own) > 0
BY DEF Inv, TypeOK, KeepFor

\* The newest of the backups is never beyond the cap.
LEMMA TrimKeepsLast ==
    ASSUME NEW p \in Nat, p \in Numbers, NEW docs, NEW marks,
           NEW keep \in Nat, keep > 0, Trim(docs, marks, p + 1, keep)
    PROVE  content'[p] = docs[p]
<1> DEFINE present == {v \in Numbers : docs[v] # None}
           backups == Backups(present, marks, p + 1)
<1>1. {b \in backups : b > p} = {}
  BY DEF Backups
<1>2. Cardinality({b \in backups : b > p}) = 0
  BY <1>1, FS_EmptySet
<1>3. p \notin BeyondCap(present, marks, p + 1, keep)
  BY <1>2 DEF BeyondCap
<1> HIDE DEF present
<1>4. content' = [v \in Numbers |->
        IF v \in BeyondCap(present, marks, p + 1, keep) \ Solving THEN None ELSE docs[v]]
  BY DEF Trim, present
<1> QED
  BY <1>3, <1>4

LEMMA InsertKeeps ==
    ASSUME Inv, NEW q \in Requests, InsertVersion(q)
    PROVE  /\ \A v \in Numbers : Reuse(v)
           /\ \A v \in Versions : Protect(v)
<1> DEFINE u == request[q].up
           p == parent[u]
           docs == [content EXCEPT ![p + 1] = u]
           marks == [mark EXCEPT ![p + 1] = "plain"]
<1>1. /\ u \in Uploads /\ p \in Numbers /\ p + 1 \in Numbers
      /\ IsNewest(p) /\ line[p + 1] = None /\ line[p] # None
  BY InsertFresh
<1>2. docs \in [Numbers -> Uploads \cup {First, None}]
  BY <1>1 DEF Inv, TypeOK
<1>3. /\ Trim(docs, marks, p + 1, KeepFor(request[q].own))
      /\ line' = [line EXCEPT ![p + 1] = u]
  BY DEF InsertVersion
<1> HIDE DEF docs, marks
<1>4. \A v \in Numbers : content'[v] # docs[v] =>
         content'[v] = None /\ v < p + 1 /\ marks[v] = "plain" /\ v \notin Solving
  BY <1>2, <1>3, TrimRemoves
<1>5. \A v \in Numbers : v # p + 1 =>
         docs[v] = content[v] /\ marks[v] = mark[v] /\ line'[v] = line[v]
  BY <1>1, <1>3 DEF docs, marks, Inv, TypeOK
<1>6. p + 1 \notin Versions
  BY <1>1 DEF IsNewest, Versions
<1>7. \A v \in Numbers : Reuse(v)
  BY <1>1, <1>4, <1>5 DEF Reuse
<1>8. \A v \in Versions : Protect(v)
  <2> SUFFICES ASSUME NEW v \in Versions,
                      mark[v] = "checkpoint" \/ v \in Solving \/ IsNewest(v)
               PROVE  content'[v] = content[v]
    BY DEF Protect
  <2>1. v \in Numbers /\ v # p + 1
    BY <1>6 DEF Versions
  <2>2. CASE mark[v] = "checkpoint" \/ v \in Solving
    BY <1>4, <1>5, <2>1, <2>2
  <2>3. CASE IsNewest(v)
    <3>1. v = p
      BY <1>1, <2>3 DEF IsNewest, Versions
    <3>2. content'[p] = docs[p]
      BY <1>1, <1>2, <1>3, KeepPositive, TrimKeepsLast
    <3> QED
      BY <1>1, <1>5, <3>1, <3>2
  <2> QED
    BY <2>2, <2>3
<1> QED
  BY <1>7, <1>8

\* The steps that leave the versions alone.
LEMMA OtherKeeps ==
    ASSUME UNCHANGED <<content, line>>
    PROVE  /\ \A v \in Numbers : Reuse(v)
           /\ \A v \in Versions : Protect(v)
BY DEF Reuse, Protect

LEMMA StepKeeps ==
    ASSUME Inv, Next
    PROVE  /\ \A v \in Numbers : Reuse(v)
           /\ \A v \in Versions : Protect(v)
<1> DEFINE Goal == /\ \A v \in Numbers : Reuse(v)
                   /\ \A v \in Versions : Protect(v)
<1>1. ASSUME NEW q \in Requests, InsertVersion(q) PROVE Goal
  BY <1>1, InsertKeeps
<1>2. ASSUME NEW q \in Requests,
             \/ \E u \in Uploads, p \in Numbers : Get(q, u, p)
             \/ Replay(q) \/ InsertRefused(q) \/ InsertFails(q)
             \/ ReplayAgain(q) \/ Current(q) \/ Conflict(q)
      PROVE  Goal
  BY <1>2, OtherKeeps DEF Get, Replay, InsertRefused, InsertFails, ReplayAgain, Current,
                          Conflict, history
<1>3. CASE TrimPlan
  <2>1. \A v \in Versions : mark[v] = "checkpoint" => mark[v] # "plain"
    OBVIOUS
  <2> QED
    BY <1>3, <2>1, TrimKeeps DEF TrimPlan
<1>4. ASSUME NEW ended \in SUBSET Numbers, PurgeCheckpoints(ended) PROVE Goal
  <2> DEFINE marks == [v \in Numbers |-> IF v \in ended THEN "plain" ELSE mark[v]]
  <2>1. \A v \in Versions : mark[v] = "checkpoint" => marks[v] # "plain"
    BY <1>4 DEF PurgeCheckpoints, Versions
  <2>2. PICK newest \in Versions :
           IsNewest(newest) /\ Trim(content, marks, newest, KeepFor(own))
    BY <1>4 DEF PurgeCheckpoints
  <2>3. line' = line
    BY <1>4 DEF PurgeCheckpoints
  <2> HIDE DEF marks, Goal
  <2> QED
    BY <2>1, <2>2, <2>3, TrimKeeps DEF Goal
<1>5. CASE \/ \E keep \in OwnCaps \cup {0} : Update(keep)
           \/ \E keep \in ServerCaps : SetCaps(keep)
           \/ \E v \in Numbers : NameCheckpoint(v) \/ DeleteCheckpoint(v) \/ RestoreCheckpoint(v)
           \/ \E j \in Solves : (\E v \in Numbers : CreateJob(j, v)) \/ FinishJob(j)
           \/ Trash \/ Crash
  BY <1>5, OtherKeeps DEF Update, SetCaps, NameCheckpoint, DeleteCheckpoint,
     RestoreCheckpoint, CreateJob, FinishJob, Trash, Crash, history
<1> HIDE DEF Goal
<1> QED
  BY <1>1, <1>2, <1>3, <1>4, <1>5 DEF Next, Goal

\* A version number names one document for ever (plans.insertVersion).
THEOREM NeverReusedTheorem == Spec => NeverReused
<1>1. Inv /\ [Next]_vars =>
         [\A v \in Numbers : line[v] # None =>
             line'[v] = line[v] /\ content'[v] \in {content[v], None}]_vars
  BY StepKeeps DEF Reuse
<1> QED
  BY <1>1, InvInit, InvStep, PTL DEF Spec, NeverReused

\* The newest version, a live checkpoint and the version an open solve reads
\* survive every step (plans.trim, plans.purgeCheckpointsOf).
THEOREM ProtectedTheorem == Spec => Protected
<1>1. Inv /\ [Next]_vars =>
         [\A v \in Versions : mark[v] = "checkpoint" \/ v \in Solving \/ IsNewest(v) =>
             content'[v] = content[v]]_vars
  BY StepKeeps DEF Protect
<1> QED
  BY <1>1, InvInit, InvStep, PTL DEF Spec, Protected

-----------------------------------------------------------------------------
(* The backups cap.  A trim leaves the versions with fewer than keep newer     *)
(* ones; they are told apart by how many those are, so there are at most keep. *)

LEMMA NumbersFinite ==
    ASSUME NEW B \in SUBSET Numbers
    PROVE  IsFiniteSet(B) /\ \A b \in B : b \in Nat
<1>1. IsFiniteSet(1..MaxVersion)
  BY FS_Interval
<1>2. IsFiniteSet(B)
  BY <1>1, FS_Subset
<1>3. \A b \in B : b \in Nat
  OBVIOUS
<1> QED
  BY <1>2, <1>3

\* The numbers of newer elements of a finite set tell its elements apart.
LEMMA NewerDiffer ==
    ASSUME NEW B \in SUBSET Numbers, NEW v \in B, NEW w \in B, v < w
    PROVE  Cardinality({b \in B : b > v}) # Cardinality({b \in B : b > w})
<1>1. IsFiniteSet({b \in B : b > v})
  BY NumbersFinite, {b \in B : b > v} \in SUBSET Numbers
<1>2. {b \in B : b > w} \in SUBSET {b \in B : b > v}
  <2>1. v \in Nat /\ w \in Nat /\ \A b \in B : b \in Nat
    BY NumbersFinite
  <2>2. \A b \in B : b > w => b > v
    BY <2>1
  <2> QED
    BY <2>2
<1>3. w \in {b \in B : b > v} /\ w \notin {b \in B : b > w}
  OBVIOUS
<1> QED
  BY <1>1, <1>2, <1>3, FS_Subset

LEMMA NewestFew ==
    ASSUME NEW B \in SUBSET Numbers, NEW keep \in Nat
    PROVE  LET K == {v \in B : ~(Cardinality({b \in B : b > v}) >= keep)}
           IN  IsFiniteSet(K) /\ Cardinality(K) <= keep
<1> DEFINE newer(v) == Cardinality({b \in B : b > v})
           K == {v \in B : ~(newer(v) >= keep)}
           f == [v \in K |-> newer(v) + 1]
<1>1. \A v \in B : newer(v) \in Nat
  <2> TAKE v \in B
  <2>1. IsFiniteSet({b \in B : b > v})
    BY NumbersFinite, {b \in B : b > v} \in SUBSET Numbers
  <2> QED
    BY <2>1, FS_CardinalityType
<1>2. \A v, w \in B : v # w => newer(v) # newer(w)
  <2> SUFFICES ASSUME NEW v \in B, NEW w \in B, v # w PROVE newer(v) # newer(w)
    OBVIOUS
  <2>1. v < w \/ w < v
    OBVIOUS
  <2> QED
    BY <2>1, NewerDiffer
<1> HIDE DEF newer
<1>3. f \in [K -> 1..keep]
  <2>1. \A v \in K : newer(v) + 1 \in 1..keep
    BY <1>1
  <2> QED
    BY <2>1
<1>4. \A v, w \in K : f[v] = f[w] => v = w
  BY <1>1, <1>2
<1>5. f \in Injection(K, 1..keep)
  BY <1>3, <1>4 DEF Injection, IsInjective
<1>6. IsFiniteSet(1..keep) /\ Cardinality(1..keep) = keep
  BY FS_Interval
<1> HIDE DEF f, K
<1>7. IsFiniteSet(K) /\ Cardinality(K) <= keep
  BY <1>5, <1>6, FS_Injection
<1> QED
  BY <1>7 DEF K, newer

\* The backups a trim leaves are no more than the cap it applied, but for those
\* a solve reads.
LEMMA TrimBounds ==
    ASSUME NEW docs \in [Numbers -> Uploads \cup {First, None}], NEW marks,
           NEW newest, NEW keep \in Nat, Trim(docs, marks, newest, keep)
    PROVE  Cardinality(Backups(Versions', mark', newest) \ spared') <= keep
<1> DEFINE present == {v \in Numbers : docs[v] # None}
           B == Backups(present, marks, newest)
           K == {v \in B : ~(Cardinality({b \in B : b > v}) >= keep)}
           left == Backups(Versions', mark', newest) \ spared'
<1>1. B \in SUBSET Numbers
  BY DEF Backups
<1>2. IsFiniteSet(K) /\ Cardinality(K) <= keep
  <2> HIDE DEF B
  <2> QED
    BY <1>1, NewestFew
<1>3. BeyondCap(present, marks, newest, keep) = B \ K
  BY DEF BeyondCap
<1> HIDE DEF K
<1>4. left \in SUBSET K
  <2> SUFFICES ASSUME NEW v \in left, v \notin K PROVE FALSE
    OBVIOUS
  <2>1. /\ v \in Numbers /\ content'[v] # None /\ v < newest /\ mark'[v] = "plain"
        /\ v \notin spared'
    BY DEF Backups, Versions
  <2> DEFINE beyond == BeyondCap(present, marks, newest, keep)
  <2>2. /\ content' = [n \in Numbers |-> IF n \in beyond \ Solving THEN None ELSE docs[n]]
        /\ mark' = marks
        /\ spared' = (spared \cup (beyond \cap Solving)) \ (beyond \ Solving)
    BY DEF Trim
  <2>3. v \in beyond
    BY <1>3, <2>1, <2>2 DEF Backups
  <2> HIDE DEF beyond
  <2> QED
    BY <2>1, <2>2, <2>3
<1>5. Cardinality(left) \in Nat /\ Cardinality(left) <= Cardinality(K)
  BY <1>2, <1>4, FS_Subset, FS_CardinalityType
<1>6. Cardinality(K) \in Nat
  BY <1>2, FS_CardinalityType
<1> HIDE DEF left
<1>7. Cardinality(left) <= keep
  BY <1>2, <1>5, <1>6
<1> QED
  BY <1>7 DEF left

\* A cap that is applied is one that was given.
LEMMA KeepGiven ==
    ASSUME Inv, NEW planOwn \in OwnCaps \cup {0}
    PROVE  KeepFor(planOwn) \in OwnCaps \cup ServerCaps /\ KeepFor(planOwn) \in Nat
BY DEF Inv, TypeOK, KeepFor

\* A step that trims bounds the backups.
LEMMA TrimStepBounds ==
    ASSUME Inv, NEW docs \in [Numbers -> Uploads \cup {First, None}], NEW marks,
           NEW newest \in Numbers, docs[newest] # None,
           \A v \in Numbers : docs[v] # None => v <= newest,
           NEW planOwn \in OwnCaps \cup {0}, Trim(docs, marks, newest, KeepFor(planOwn))
    PROVE  BackupsBounded'
<1>1. \A v \in Numbers : content'[v] # docs[v] => content'[v] = None /\ v < newest
  BY TrimRemoves
<1>2. newest \in Versions' /\ \A v \in Versions' : v <= newest
  BY <1>1 DEF Versions
<1>3. \A v \in Versions' : IsNewest(v)' => v = newest
  BY <1>2 DEF IsNewest, Versions
<1>4. Cardinality(Backups(Versions', mark', newest) \ spared') <= KeepFor(planOwn)
  BY KeepGiven, TrimBounds
<1>5. KeepFor(planOwn) \in OwnCaps \cup ServerCaps
  BY KeepGiven
<1> QED
  BY <1>3, <1>4, <1>5 DEF BackupsBounded

\* A step that adds no version, no plain mark and takes nothing off the list of
\* the spared keeps the bound.
LEMMA FewerBackups ==
    ASSUME Inv, BackupsBounded, UNCHANGED <<content, spared>>,
           \A v \in Numbers : mark'[v] = "plain" => mark[v] = "plain"
    PROVE  BackupsBounded'
<1> SUFFICES ASSUME NEW newest \in Versions, IsNewest(newest)
             PROVE  \E cap \in OwnCaps \cup ServerCaps :
                       Cardinality(Backups(Versions, mark', newest) \ spared) <= cap
  BY DEF BackupsBounded, IsNewest, Versions
<1> DEFINE before == Backups(Versions, mark, newest) \ spared
           after == Backups(Versions, mark', newest) \ spared
<1>1. PICK cap \in OwnCaps \cup ServerCaps : Cardinality(before) <= cap
  BY DEF BackupsBounded
<1>2. after \in SUBSET before /\ before \in SUBSET Numbers
  BY DEF Backups, Versions
<1>3. IsFiniteSet(before)
  BY <1>2, NumbersFinite
<1> HIDE DEF before, after
<1>4. Cardinality(after) <= Cardinality(before)
  BY <1>2, <1>3, FS_Subset
<1>5. Cardinality(after) \in Nat /\ Cardinality(before) \in Nat
  BY <1>2, <1>3, FS_Subset, FS_CardinalityType
<1>6. Cardinality(after) <= cap
  BY <1>1, <1>4, <1>5
<1> QED
  BY <1>6 DEF after

LEMMA BoundedStep == Inv /\ BackupsBounded /\ [Next]_vars => BackupsBounded'
<1> SUFFICES ASSUME Inv, BackupsBounded, [Next]_vars PROVE BackupsBounded'
  OBVIOUS
<1>1. ASSUME NEW q \in Requests, InsertVersion(q) PROVE BackupsBounded'
  <2> DEFINE u == request[q].up
             p == parent[u]
             docs == [content EXCEPT ![p + 1] = u]
             marks == [mark EXCEPT ![p + 1] = "plain"]
  <2>1. /\ u \in Uploads /\ p \in Numbers /\ p + 1 \in Numbers /\ IsNewest(p)
    BY <1>1, InsertFresh
  <2>2. docs \in [Numbers -> Uploads \cup {First, None}] /\ docs[p + 1] # None
    BY <2>1 DEF Inv, TypeOK
  <2>3. \A v \in Numbers : docs[v] # None => v <= p + 1
    BY <2>1 DEF Inv, TypeOK, IsNewest, Versions
  <2>4. Trim(docs, marks, p + 1, KeepFor(request[q].own))
    BY <1>1 DEF InsertVersion
  <2>5. request[q].own \in OwnCaps \cup {0}
    BY DEF Inv, TypeOK
  <2> HIDE DEF docs, marks, p
  <2> QED
    BY <2>1, <2>2, <2>3, <2>4, <2>5, TrimStepBounds
<1>2. ASSUME NEW marks, NEW newest \in Versions, IsNewest(newest),
             Trim(content, marks, newest, KeepFor(own))
      PROVE  BackupsBounded'
  <2>1. /\ content \in [Numbers -> Uploads \cup {First, None}]
        /\ own \in OwnCaps \cup {0}
        /\ newest \in Numbers /\ content[newest] # None
        /\ \A v \in Numbers : content[v] # None => v <= newest
    BY <1>2 DEF Inv, TypeOK, IsNewest, Versions
  <2> QED
    BY <1>2, <2>1, TrimStepBounds
<1>3. CASE TrimPlan
  BY <1>2, <1>3 DEF TrimPlan
<1>4. ASSUME NEW ended \in SUBSET Numbers, PurgeCheckpoints(ended) PROVE BackupsBounded'
  BY <1>2, <1>4 DEF PurgeCheckpoints
<1>5. ASSUME NEW v \in Numbers,
             NameCheckpoint(v) \/ DeleteCheckpoint(v) \/ RestoreCheckpoint(v)
      PROVE  BackupsBounded'
  <2>1. \A o \in Numbers : mark'[o] = "plain" => mark[o] = "plain"
    BY <1>5 DEF NameCheckpoint, DeleteCheckpoint, RestoreCheckpoint, Inv, TypeOK
  <2> QED
    BY <1>5, <2>1, FewerBackups
       DEF NameCheckpoint, DeleteCheckpoint, RestoreCheckpoint, history
<1>6. CASE UNCHANGED <<content, mark, spared>>
  BY <1>6, FewerBackups
<1>7. CASE \/ \E q \in Requests :
                 \/ \E u \in Uploads, p \in Numbers : Get(q, u, p)
                 \/ Replay(q) \/ InsertRefused(q) \/ InsertFails(q)
                 \/ ReplayAgain(q) \/ Current(q) \/ Conflict(q)
           \/ \E keep \in OwnCaps \cup {0} : Update(keep)
           \/ \E keep \in ServerCaps : SetCaps(keep)
           \/ \E j \in Solves : (\E v \in Numbers : CreateJob(j, v)) \/ FinishJob(j)
           \/ Trash \/ Crash
  BY <1>6, <1>7 DEF Get, Replay, InsertRefused, InsertFails, ReplayAgain, Current, Conflict,
                    Update, SetCaps, CreateJob, FinishJob, Trash, Crash, history
<1>8. CASE UNCHANGED vars
  BY <1>6, <1>8 DEF vars
<1> QED
  BY <1>1, <1>3, <1>4, <1>5, <1>7, <1>8 DEF Next

LEMMA BoundedInit == Init => BackupsBounded
<1> SUFFICES ASSUME Init, NEW newest \in Versions, IsNewest(newest)
             PROVE  \E cap \in OwnCaps \cup ServerCaps :
                       Cardinality(Backups(Versions, mark, newest) \ spared) <= cap
  BY DEF BackupsBounded
<1>1. Backups(Versions, mark, newest) \ spared = {}
  BY DEF Init, Backups, Versions
<1>2. server \in ServerCaps /\ 0 <= server
  BY DEF Init
<1> QED
  BY <1>1, <1>2, FS_EmptySet

\* A plan never holds more backups than the largest cap it was ever given, but
\* for those a solve kept when their turn came, whatever requests carry a stale
\* cap (plans.trim, plans.PurgeCheckpoints).
THEOREM BackupsBoundedTheorem == Spec => []BackupsBounded
<1> QED
  BY InvInit, InvStep, BoundedInit, BoundedStep, PTL DEF Spec

-----------------------------------------------------------------------------
(* Conflicts.  A refused insert had a newer version before it, and there is a  *)
(* newer one for ever; so its upload is not stored any more, and whether its   *)
(* key is was read after the refusal.                                          *)

\* A client draws a key for one upload.
KeysUnique ==
    \A u, w \in Uploads : KeyOf[u] = KeyOf[w] /\ KeyOf[u] # NoKey => u = w

Superseded(u) == parent[u] # 0 /\ \E v \in Versions : v > parent[u]

ParentsStored == \A u \in Uploads : parent[u] # 0 => line[parent[u]] # None

Refused(q) ==
    request[q].pc \in {"failed", "unknown", "conflict"} /\ request[q].failed = "refused"

RefusedLate ==
    \A q \in Requests : Refused(q) =>
        /\ Superseded(request[q].up)
        /\ request[q].pc # "failed" => StoredUnder(request[q].up) = {}

\* Only an insert stores a document.
LEMMA InsertStores ==
    ASSUME Inv, Next, NEW v \in Numbers, content'[v] # None, content'[v] # content[v]
    PROVE  \E q \in Requests :
              InsertVersion(q) /\ v = parent[request[q].up] + 1 /\ content'[v] = request[q].up
<1>1. ASSUME NEW q \in Requests, InsertVersion(q)
      PROVE  v = parent[request[q].up] + 1 /\ content'[v] = request[q].up
  <2> DEFINE u == request[q].up
             p == parent[u]
             docs == [content EXCEPT ![p + 1] = u]
             marks == [mark EXCEPT ![p + 1] = "plain"]
  <2>1. u \in Uploads /\ p \in Numbers /\ p + 1 \in Numbers
    BY <1>1, InsertFresh
  <2>2. docs \in [Numbers -> Uploads \cup {First, None}]
    BY <2>1 DEF Inv, TypeOK
  <2>3. Trim(docs, marks, p + 1, KeepFor(request[q].own))
    BY <1>1 DEF InsertVersion
  <2> HIDE DEF docs, marks
  <2>4. content'[v] = docs[v]
    BY <2>2, <2>3, TrimRemoves
  <2> QED
    BY <2>1, <2>4 DEF docs, Inv, TypeOK
<1>2. ASSUME NEW marks, NEW newest, NEW keep, Trim(content, marks, newest, keep)
      PROVE  FALSE
  BY <1>2, TrimRemoves DEF Inv, TypeOK
<1>3. ~TrimPlan
  BY <1>2 DEF TrimPlan
<1>4. ASSUME NEW ended \in SUBSET Numbers, PurgeCheckpoints(ended) PROVE FALSE
  BY <1>2, <1>4 DEF PurgeCheckpoints
<1>5. CASE UNCHANGED content
  BY <1>5
<1> QED
  BY <1>1, <1>3, <1>4, <1>5 DEF Next, Get, Replay, InsertRefused, InsertFails, ReplayAgain,
     Current, Conflict, Update, SetCaps, NameCheckpoint, DeleteCheckpoint, RestoreCheckpoint,
     CreateJob, FinishJob, Trash, Crash, history

\* A parent is chosen once.
LEMMA ParentFixed ==
    ASSUME Inv, Next, NEW u \in Uploads, parent[u] # 0
    PROVE  parent'[u] = parent[u]
<1>1. ASSUME NEW q \in Requests, NEW w \in Uploads, NEW p \in Numbers, Get(q, w, p)
      PROVE  parent'[u] = parent[u]
  BY <1>1 DEF Get, Inv, TypeOK
<1> QED
  BY <1>1 DEF Next, Replay, InsertVersion, InsertRefused, InsertFails, ReplayAgain, Current,
     Conflict, TrimPlan, Update, SetCaps, NameCheckpoint, DeleteCheckpoint, RestoreCheckpoint,
     PurgeCheckpoints, CreateJob, FinishJob, Trash, Crash

\* Once a newer version stands before an upload, one always does.
LEMMA SupersededStays ==
    ASSUME Inv, Inv', Next, NEW u \in Uploads, Superseded(u)
    PROVE  Superseded(u)'
<1>1. PICK v \in Versions : v > parent[u]
  BY DEF Superseded
<1>2. parent'[u] = parent[u] /\ parent[u] # 0
  BY ParentFixed DEF Superseded
<1>3. v \in Numbers /\ line[v] # None
  BY DEF Inv, Linear, Versions
<1>4. line'[v] # None
  BY <1>3, StepKeeps DEF Reuse
<1>5. PICK o \in Versions' : o >= v
  BY <1>3, <1>4 DEF Inv, Linear
<1>6. o \in Nat /\ v \in Nat /\ parent[u] \in Nat
  BY <1>3 DEF Versions, Inv, TypeOK
<1> QED
  BY <1>1, <1>2, <1>5, <1>6 DEF Superseded

\* An upload that is superseded is not stored any more.
LEMMA NotStoredStays ==
    ASSUME KeysUnique, Inv, Next, NEW u \in Uploads, Superseded(u), StoredUnder(u) = {}
    PROVE  StoredUnder(u)' = {}
<1> SUFFICES ASSUME NEW v \in StoredUnder(u)' PROVE FALSE
  OBVIOUS
<1>1. v \in Numbers /\ content'[v] # None /\ content'[v] = u /\ KeyOf[u] # NoKey
  BY DEF StoredUnder, Versions, KeysUnique
<1>2. content'[v] # content[v]
  BY <1>1 DEF StoredUnder, Versions
<1>3. PICK q \in Requests : InsertVersion(q) /\ content'[v] = request[q].up
  BY <1>1, <1>2, InsertStores
<1>4. IsNewest(parent[u])
  BY <1>1, <1>3, InsertFresh
<1>5. PICK o \in Versions : o > parent[u]
  BY DEF Superseded
<1> QED
  BY <1>4, <1>5 DEF IsNewest, Versions, Inv, TypeOK

\* A request is refused by the insert, and looks for its key before it answers.
LEMMA RefusedNext ==
    ASSUME Inv, Next, NEW q \in Requests, Refused(q)'
    PROVE  \/ request'[q] = request[q]
           \/ /\ InsertRefused(q)
              /\ request'[q].pc = "failed" /\ request'[q].up = request[q].up
           \/ /\ Refused(q) /\ request'[q].up = request[q].up
              /\ UNCHANGED content
              /\ request[q].pc = "failed" => StoredUnder(request[q].up) = {}
<1> USE DEF Refused
<1>1. request'[q] # IdleRequest
  BY DEF IdleRequest
<1>2. ASSUME NEW o \in Requests, o # q,
             \/ \E u \in Uploads, p \in Numbers : Get(o, u, p)
             \/ Replay(o) \/ InsertVersion(o) \/ InsertRefused(o) \/ InsertFails(o)
             \/ ReplayAgain(o) \/ Current(o) \/ Conflict(o)
      PROVE  request'[q] = request[q]
  BY <1>2 DEF Get, Replay, InsertVersion, InsertRefused, InsertFails, ReplayAgain, Current,
              Conflict, Reply, Fail, Inv, TypeOK
<1>3. ASSUME NEW u \in Uploads, NEW p \in Numbers, Get(q, u, p) PROVE FALSE
  BY <1>3 DEF Get, Inv, TypeOK
<1>4. ~Replay(q) /\ ~InsertVersion(q) /\ ~InsertFails(q) /\ ~Conflict(q)
  BY <1>1 DEF Replay, InsertVersion, InsertFails, Conflict, Reply, Fail, Inv, TypeOK
<1>5. CASE InsertRefused(q)
  BY <1>5 DEF InsertRefused, Fail, Inv, TypeOK
<1>6. CASE ReplayAgain(q)
  BY <1>1, <1>6 DEF ReplayAgain, Reply, Inv, TypeOK
<1>7. CASE Current(q)
  BY <1>1, <1>7 DEF Current, Reply, Inv, TypeOK
<1>8. ~Crash
  BY <1>1 DEF Crash
<1>9. CASE request' = request
  BY <1>9
<1> QED
  BY <1>2, <1>3, <1>4, <1>5, <1>6, <1>7, <1>8, <1>9 DEF Next, TrimPlan, Update, SetCaps,
     NameCheckpoint, DeleteCheckpoint, RestoreCheckpoint, PurgeCheckpoints, CreateJob,
     FinishJob, Trash

\* What an insert refuses has a newer version before it.
LEMMA RefusedSuperseded ==
    ASSUME Inv, ParentsStored, NEW q \in Requests, InsertRefused(q)
    PROVE  request[q].up \in Uploads /\ Superseded(request[q].up)
<1> DEFINE u == request[q].up
           p == parent[u]
<1>1. u \in Uploads /\ p # 0 /\ p \in Numbers /\ line[p] # None
  BY DEF InsertRefused, Inv, RequestsSent, ParentsStored, TypeOK
<1>2. PICK o \in Versions : o >= p
  BY <1>1 DEF Inv, Linear
<1>3. ~ParentNewest(p)
  BY DEF InsertRefused
<1>4. \E v \in Versions : v > p
  <2>1. CASE content[p] = None
    BY <1>1, <1>2, <2>1 DEF Versions
  <2>2. CASE content[p] # None
    BY <1>1, <1>3, <2>2 DEF ParentNewest, Versions
  <2> QED
    BY <2>1, <2>2
<1> QED
  BY <1>1, <1>4 DEF Superseded

LEMMA ParentsStep ==
    ASSUME Inv, ParentsStored, Next
    PROVE  ParentsStored'
<1> SUFFICES ASSUME NEW u \in Uploads, parent'[u] # 0 PROVE line'[parent'[u]] # None
  BY DEF ParentsStored
<1>1. CASE parent[u] # 0
  <2>1. parent'[u] = parent[u] /\ parent[u] \in Numbers /\ line[parent[u]] # None
    BY <1>1, ParentFixed DEF ParentsStored, Inv, TypeOK
  <2> QED
    BY <2>1, StepKeeps DEF Reuse
<1>2. CASE parent[u] = 0
  <2>1. ASSUME NEW q \in Requests, NEW w \in Uploads, NEW p \in Numbers, Get(q, w, p)
        PROVE  line'[parent'[u]] # None
    BY <1>2, <2>1 DEF Get, history, Inv, TypeOK
  <2> QED
    BY <1>2, <2>1 DEF Next, Replay, InsertVersion, InsertRefused, InsertFails, ReplayAgain,
       Current, Conflict, TrimPlan, Update, SetCaps, NameCheckpoint, DeleteCheckpoint,
       RestoreCheckpoint, PurgeCheckpoints, CreateJob, FinishJob, Trash, Crash
<1> QED
  BY <1>1, <1>2

LEMMA RefusedStep ==
    ASSUME KeysUnique, Inv, Inv', ParentsStored, RefusedLate, Next
    PROVE  RefusedLate'
<1> SUFFICES ASSUME NEW q \in Requests, Refused(q)'
             PROVE  /\ Superseded(request[q].up)'
                    /\ request'[q].pc # "failed" => StoredUnder(request[q].up)' = {}
  BY DEF RefusedLate
<1>1. CASE request'[q] = request[q]
  <2>1. Refused(q) /\ request[q].up \in Uploads
    BY <1>1 DEF Refused, Inv, RequestsSent
  <2>2. Superseded(request[q].up)
    BY <2>1 DEF RefusedLate
  <2>3. \A u \in Uploads : u = request[q].up => Superseded(u)'
    BY <2>2, SupersededStays
  <2>4. \A u \in Uploads : u = request[q].up /\ StoredUnder(u) = {} => StoredUnder(u)' = {}
    BY <2>2, NotStoredStays
  <2> QED
    BY <1>1, <2>1, <2>3, <2>4 DEF RefusedLate, Superseded, StoredUnder
<1>2. CASE InsertRefused(q) /\ request'[q].pc = "failed" /\ request'[q].up = request[q].up
  <2>1. request[q].up \in Uploads /\ Superseded(request[q].up)
    BY <1>2, RefusedSuperseded
  <2>2. \A u \in Uploads : u = request[q].up => Superseded(u)'
    BY <2>1, SupersededStays
  <2> QED
    BY <1>2, <2>1, <2>2 DEF Superseded
<1>3. CASE /\ Refused(q) /\ request'[q].up = request[q].up
           /\ UNCHANGED content
           /\ request[q].pc = "failed" => StoredUnder(request[q].up) = {}
  <2>1. request[q].up \in Uploads /\ Superseded(request[q].up)
        /\ StoredUnder(request[q].up) = {}
    BY <1>3 DEF RefusedLate, Refused, Inv, RequestsSent
  <2>2. \A u \in Uploads : u = request[q].up => Superseded(u)'
    BY <2>1, SupersededStays
  <2> QED
    BY <1>3, <2>1, <2>2 DEF Superseded, StoredUnder, Versions
<1> QED
  BY <1>1, <1>2, <1>3, RefusedNext

\* An upload refused for its parent is answered with a conflict only when the
\* plan holds no version under its key, when every key was drawn for one upload:
\* the loser of two racing sends is answered with the winner's version
\* (plans.AddVersion, plans.replay).
THEOREM ConflictHonestTheorem == KeysUnique => (Spec => []ConflictHonest)
<1> SUFFICES ASSUME KeysUnique PROVE Spec => []ConflictHonest
  OBVIOUS
<1> DEFINE IInv == Inv /\ ParentsStored /\ RefusedLate
<1>1. Init => IInv
  BY InvInit DEF Init, ParentsStored, RefusedLate, Refused, IdleRequest
<1>2. IInv /\ [Next]_vars => IInv'
  <2> SUFFICES ASSUME IInv, [Next]_vars PROVE IInv'
    OBVIOUS
  <2>1. Inv'
    BY InvStep
  <2>2. CASE Next
    BY <2>1, <2>2, ParentsStep, RefusedStep
  <2>3. CASE UNCHANGED vars
    BY <2>1, <2>3 DEF vars, ParentsStored, RefusedLate, Refused, Superseded, StoredUnder, Versions
  <2> QED
    BY <2>2, <2>3
<1>3. IInv => ConflictHonest
  BY DEF ConflictHonest, RefusedLate, Refused
<1> HIDE DEF IInv
<1> QED
  BY <1>1, <1>2, <1>3, PTL DEF Spec
=============================================================================
