--------------------------- MODULE AccountsProofs ---------------------------
(***************************************************************************)
(* Proofs about Accounts for any accounts, writers, edits and number of    *)
(* passwords: an administrator is left, no change is undone, a password    *)
(* that was handed out has to be changed, and sessions end.                *)
(***************************************************************************)
EXTENDS Accounts, TLAPS

\* What holds of the accounts between any two calls.
Bounds ==
    /\ \A i \in Ids : account[i].hash <= hashes /\ account[i].mark <= hashes
    /\ \A w \in Workers : worker[w].hash <= hashes /\ worker[w].mark <= hashes

AbsentOff == \A i \in Ids : ~account[i].there => ~account[i].active

\* A password that was told to somebody is the marked one, and has to be changed.
ShownMarked ==
    \A i \in Ids : account[i].hash \in shown => account[i].must /\ account[i].mark = account[i].hash

\* The places of a writer that holds the lock.
Holding == {"read", "mark", "flag", "patch", "put", "sessions", "answer", "clear"}

\* Where each operation can be.
Places(w) ==
    /\ At(w, "idle") => worker[w].op = "none"
    /\ At(w, "patch") => worker[w].op = "update"
    /\ At(w, "put") => worker[w].op = "reset"
    /\ worker[w].pc \in {"get", "compare", "clear"} => worker[w].op = "guard"
    /\ worker[w].pc \in {"mark", "flag"} => worker[w].op \in {"create", "reset"}
    /\ worker[w].pc \in {"sessions", "answer"} => worker[w].op \in {"create", "reset", "update"}
    /\ worker[w].op \in {"create", "reset"} => worker[w].active = "keep"
    /\ worker[w].op = "create" => worker[w].role # "keep"

\* What a reset sends back is the account, but for its password.
Unchanged(w) ==
    LET seen == worker[w].seen
    IN  /\ seen.there = Mine(w).there /\ seen.role = Mine(w).role
        /\ seen.active = Mine(w).active
        /\ seen.must = Mine(w).must /\ seen.mark = Mine(w).mark

\* A writer that stored a password of its own.
Stored(w) == worker[w].op \in {"create", "reset"}
             /\ worker[w].pc \in {"mark", "flag", "sessions", "answer"}

\* What a writer knows of its account when it holds the lock, and a guard from the
\* moment it compared the marks.
WriterOK(w) ==
    /\ Places(w)
    /\ worker[w].pc \in Holding => lock = w
    /\ At(w, "patch") => Mine(w).there /\ ~LeavesNoAdmin(w)
    /\ At(w, "put") => Unchanged(w)
    /\ worker[w].op = "guard" /\ worker[w].pc \in {"lock", "read", "clear"} =>
          worker[w].mark # Mine(w).hash
    /\ At(w, "clear") => Mine(w).mark = worker[w].mark
    /\ At(w, "flag") =>
          \/ worker[w].mark = Mine(w).hash
          \/ Mine(w).hash \notin shown /\ Mine(w).hash # worker[w].hash
    /\ worker[w].op \in {"create", "reset"} /\ worker[w].pc \in {"sessions", "answer"}
         /\ Mine(w).hash = worker[w].hash => Mine(w).must /\ Mine(w).mark = Mine(w).hash
    /\ Stored(w) =>
          /\ 0 < worker[w].hash /\ worker[w].hash <= Mine(w).hash
          /\ \A i \in Ids \ {worker[w].id} : account[i].hash # worker[w].hash
    /\ worker[w].active = "off" /\ worker[w].pc \in {"sessions", "answer"} => ~Mine(w).active
    /\ At(w, "answer") /\ worker[w].op = "reset" =>
          \A s \in sessions[worker[w].id] : s >= worker[w].hash
    /\ At(w, "answer") /\ worker[w].active = "off" => sessions[worker[w].id] = {}

Inv ==
    /\ TypeOK
    /\ Bounds
    /\ AbsentOff
    /\ ShownMarked
    /\ \A w \in Workers : WriterOK(w)

-----------------------------------------------------------------------------
(* Records. *)

Pcs == {"idle", "lock", "read", "mark", "flag", "patch", "put", "sessions", "answer",
        "get", "compare", "clear"}
WorkerRecord ==
    [op : {"none", "create", "update", "reset", "guard"}, pc : Pcs, id : Ids,
     role : {"admin", "planner", "keep"}, active : {"on", "off", "keep"},
     seen : Identities, hash : Nat, mark : Nat]

LEMMA TypeParts ==
    /\ TypeOK <=>
          /\ account \in [Ids -> Identities] /\ sessions \in [Ids -> SUBSET Nat]
          /\ hashes \in Nat /\ shown \subseteq 1 .. hashes
          /\ lock \in Workers \cup {Nobody}
          /\ worker \in [Workers -> WorkerRecord]
    /\ TypeOK' <=>
          /\ account' \in [Ids -> Identities] /\ sessions' \in [Ids -> SUBSET Nat]
          /\ hashes' \in Nat /\ shown' \subseteq 1 .. hashes'
          /\ lock' \in Workers \cup {Nobody}
          /\ worker' \in [Workers -> WorkerRecord]
BY DEF TypeOK, WorkerRecord, Pcs

LEMMA IdleType == Absent \in Identities /\ Idle \in WorkerRecord
<1>1. Absent \in Identities
  BY DEF Absent, Identities
<1> QED
  BY <1>1, AccountsAssumption DEF Idle, WorkerRecord, Pcs

LEMMA WorkerType ==
    ASSUME TypeOK, NEW w \in Workers
    PROVE  /\ worker[w] \in WorkerRecord /\ worker[w].pc \in Pcs /\ worker[w].id \in Ids
           /\ worker[w].role \in {"admin", "planner", "keep"}
           /\ worker[w].active \in {"on", "off", "keep"}
           /\ worker[w].seen \in Identities
           /\ worker[w].hash \in Nat /\ worker[w].mark \in Nat
           /\ Mine(w) \in Identities /\ Mine(w).hash \in Nat /\ Mine(w).mark \in Nat
<1>1. worker[w] \in WorkerRecord
  BY TypeParts
<1>2. worker[w].id \in Ids
  BY <1>1 DEF WorkerRecord
<1>3. Mine(w) \in Identities
  BY <1>2, TypeParts DEF Mine
<1>4. Mine(w).hash \in Nat /\ Mine(w).mark \in Nat
  BY <1>3 DEF Identities
<1> QED
  BY <1>1, <1>3, <1>4 DEF WorkerRecord

LEMMA AccountType ==
    ASSUME TypeOK, NEW i \in Ids
    PROVE  account[i] \in Identities /\ account[i].hash \in Nat /\ account[i].mark \in Nat
BY TypeParts DEF Identities

\* Only worker w moves, to the record new.
Moved(w, new) ==
    /\ worker' \in [Workers -> WorkerRecord]
    /\ worker'[w] = new
    /\ \A u \in Workers : u # w => worker'[u] = worker[u]

LEMMA MovedTo ==
    ASSUME TypeOK, NEW w \in Workers, NEW new \in WorkerRecord, worker' = [worker EXCEPT ![w] = new]
    PROVE  Moved(w, new)
BY TypeParts DEF Moved

\* Only one account changes, to the record new.
Rewritten(i, new) ==
    /\ account' \in [Ids -> Identities]
    /\ account'[i] = new
    /\ \A o \in Ids : o # i => account'[o] = account[o]

LEMMA StoreEffect ==
    ASSUME TypeOK, NEW w \in Workers, NEW new \in Identities, Store(w, new)
    PROVE  Rewritten(worker[w].id, new)
<1>1. account \in [Ids -> Identities] /\ worker[w].id \in Ids
  BY TypeParts, WorkerType
<1> QED
  BY <1>1 DEF Store, Rewritten

LEMMA GotoEffect ==
    ASSUME TypeOK, NEW w \in Workers, NEW p \in Pcs, Goto(w, p)
    PROVE  /\ Moved(w, [worker[w] EXCEPT !.pc = p])
           /\ worker'[w].pc = p
           /\ worker'[w].op = worker[w].op /\ worker'[w].id = worker[w].id
           /\ worker'[w].role = worker[w].role /\ worker'[w].active = worker[w].active
           /\ worker'[w].seen = worker[w].seen
           /\ worker'[w].hash = worker[w].hash /\ worker'[w].mark = worker[w].mark
<1> DEFINE new == [worker[w] EXCEPT !.pc = p]
<1>1. worker[w] \in WorkerRecord /\ worker \in [Workers -> WorkerRecord]
  BY WorkerType, TypeParts
<1>2. /\ new \in WorkerRecord /\ new.pc = p /\ new.op = worker[w].op /\ new.id = worker[w].id
      /\ new.role = worker[w].role /\ new.active = worker[w].active
      /\ new.seen = worker[w].seen /\ new.hash = worker[w].hash /\ new.mark = worker[w].mark
  BY <1>1 DEF WorkerRecord
<1>3. worker' = [worker EXCEPT ![w] = new]
  BY <1>1 DEF Goto
<1> HIDE DEF new
<1>4. Moved(w, new)
  BY <1>2, <1>3, MovedTo
<1>5. worker'[w] = new
  BY <1>4 DEF Moved
<1> QED
  BY <1>2, <1>4, <1>5 DEF new

LEMMA EndEffect ==
    ASSUME TypeOK, NEW w \in Workers, End(w)
    PROVE  /\ Moved(w, Idle)
           /\ lock' \in Workers \cup {Nobody}
           /\ \A u \in Workers : u # w /\ lock = u => lock' = u
<1>1. Moved(w, Idle)
  BY IdleType, MovedTo DEF End
<1> QED
  BY <1>1, TypeParts DEF End

-----------------------------------------------------------------------------
(* What each writer may rely on while another moves. *)

LEMMA IdleOK ==
    ASSUME NEW w \in Workers, worker'[w] = Idle
    PROVE  /\ WriterOK(w)'
           /\ worker'[w].hash = 0 /\ worker'[w].mark = 0
<1>1. /\ Idle.pc = "idle" /\ Idle.op = "none" /\ Idle.hash = 0 /\ Idle.mark = 0
      /\ Idle.active = "keep"
  BY DEF Idle
<1> QED
  BY <1>1 DEF WriterOK, Places, At, Holding, Stored

\* A password that is set is a new one.
Fresh ==
    \A i \in Ids : account'[i].hash = account[i].hash \/ account'[i].hash > hashes

\* One that waits for the lock, or has not asked for it, does not mind what the
\* others store.
LEMMA WaitersStay ==
    ASSUME Inv, NEW u \in Workers, worker'[u] = worker[u], lock # u, Fresh
    PROVE  WriterOK(u)'
<1>1. WriterOK(u) /\ worker[u].pc \notin Holding
  BY DEF Inv, WriterOK
<1>2. worker[u].mark \in Nat /\ worker[u].id \in Ids /\ worker[u].mark <= hashes
      /\ hashes \in Nat /\ Mine(u).hash \in Nat
  BY WorkerType, TypeParts DEF Inv, Bounds
<1>3. worker[u].op = "guard" /\ worker[u].pc = "lock" =>
         worker[u].mark # account'[worker[u].id].hash
  BY <1>1, <1>2 DEF WriterOK, Fresh, Mine
<1>4. Places(u)'
  BY <1>1 DEF WriterOK, Places, At
<1> QED
  BY <1>1, <1>3, <1>4 DEF WriterOK, At, Holding, Stored, Mine

\* Ended sessions and the moves of others change nothing for a writer.
LEMMA QuietStay ==
    ASSUME Inv, NEW u \in Workers, worker'[u] = worker[u], lock = u => lock' = u,
           UNCHANGED <<account, hashes, shown>>,
           \A i \in Ids : sessions'[i] \subseteq sessions[i]
    PROVE  WriterOK(u)'
<1>1. WriterOK(u) /\ worker[u].id \in Ids
  BY WorkerType DEF Inv
<1>2. Mine(u)' = Mine(u)
  BY DEF Mine
<1>3. Places(u)'
  BY <1>1 DEF WriterOK, Places, At
<1>4. At(u, "patch") => ~LeavesNoAdmin(u)'
  BY <1>1, <1>2 DEF WriterOK, LeavesNoAdmin, Mine
<1>5. At(u, "put") => Unchanged(u)'
  BY <1>1, <1>2 DEF WriterOK, Unchanged
<1>6. /\ At(u, "answer") /\ worker[u].op = "reset" =>
            \A s \in sessions'[worker[u].id] : s >= worker[u].hash
      /\ At(u, "answer") /\ worker[u].active = "off" => sessions'[worker[u].id] = {}
  BY <1>1 DEF WriterOK
<1> QED
  BY <1>1, <1>2, <1>3, <1>4, <1>5, <1>6 DEF WriterOK, At, Stored

-----------------------------------------------------------------------------
(* What people do. *)

\* An account with another password is the same administrator or none.
LEMMA ChangedFacts ==
    ASSUME NEW identity \in Identities, NEW role \in {"admin", "planner", "keep"},
           NEW active \in {"on", "off", "keep"}
    PROVE  /\ Changed(identity, role, active) \in Identities
           /\ Changed(identity, role, active).there = identity.there
           /\ Changed(identity, role, active).must = identity.must
           /\ Changed(identity, role, active).mark = identity.mark
           /\ Changed(identity, role, active).hash = identity.hash
           /\ Changed(identity, role, active).role = IF role = "keep" THEN identity.role ELSE role
           /\ Changed(identity, role, active).active =
                 IF active = "keep" THEN identity.active ELSE active = "on"
BY DEF Changed, Identities

LEMMA RehashFacts ==
    ASSUME NEW identity \in Identities, NEW hash \in Nat
    PROVE  /\ [identity EXCEPT !.hash = hash] \in Identities
           /\ [identity EXCEPT !.hash = hash].hash = hash
           /\ [identity EXCEPT !.hash = hash].there = identity.there
           /\ [identity EXCEPT !.hash = hash].role = identity.role
           /\ [identity EXCEPT !.hash = hash].active = identity.active
           /\ [identity EXCEPT !.hash = hash].must = identity.must
           /\ [identity EXCEPT !.hash = hash].mark = identity.mark
BY DEF Identities

\* ChangePassword leaves account o with another password, or as it was.
Rehashed(i) ==
    /\ account' \in [Ids -> Identities]
    /\ hashes' = hashes + 1 /\ hashes \in Nat
    /\ account'[i].hash = hashes + 1
    /\ \A o \in Ids :
          /\ o # i => account'[o] = account[o]
          /\ account'[o].there = account[o].there /\ account'[o].role = account[o].role
          /\ account'[o].active = account[o].active
          /\ account'[o].must = account[o].must /\ account'[o].mark = account[o].mark

LEMMA ChangePasswordEffect ==
    ASSUME TypeOK, NEW i \in Ids, ChangePassword(i)
    PROVE  Rehashed(i)
<1> DEFINE new == [account[i] EXCEPT !.hash = hashes + 1]
<1>1. account \in [Ids -> Identities] /\ hashes \in Nat /\ hashes + 1 \in Nat
  BY TypeParts
<1>2. /\ new \in Identities /\ new.hash = hashes + 1 /\ new.there = account[i].there
      /\ new.role = account[i].role /\ new.active = account[i].active
      /\ new.must = account[i].must /\ new.mark = account[i].mark
  BY <1>1, RehashFacts
<1>3. account' = [account EXCEPT ![i] = new] /\ hashes' = hashes + 1
  BY <1>1 DEF ChangePassword
<1> HIDE DEF new
<1>4. /\ account' \in [Ids -> Identities] /\ account'[i] = new
      /\ \A o \in Ids : o # i => account'[o] = account[o]
  BY <1>1, <1>2, <1>3
<1> QED
  BY <1>1, <1>2, <1>3, <1>4 DEF Rehashed

LEMMA RehashStays ==
    ASSUME Inv, NEW i \in Ids, Rehashed(i), UNCHANGED <<sessions, shown, lock, worker>>,
           NEW u \in Workers
    PROVE  WriterOK(u)'
<1>1. WriterOK(u) /\ worker[u].id \in Ids /\ worker[u].mark \in Nat /\ worker[u].hash \in Nat
      /\ worker[u].role \in {"admin", "planner", "keep"} /\ worker[u].active \in {"on", "off", "keep"}
  BY WorkerType DEF Inv
<1>2. /\ hashes \in Nat /\ worker[u].mark <= hashes /\ worker[u].hash <= hashes
      /\ shown \subseteq 1 .. hashes
  BY TypeParts DEF Inv, Bounds
<1>3. /\ Mine(u)' \in Identities /\ Mine(u) \in Identities
      /\ Mine(u)'.there = Mine(u).there /\ Mine(u)'.role = Mine(u).role
      /\ Mine(u)'.active = Mine(u).active
      /\ Mine(u)'.must = Mine(u).must /\ Mine(u)'.mark = Mine(u).mark
      /\ Mine(u)'.hash = Mine(u).hash \/ Mine(u)'.hash = hashes + 1
      /\ Mine(u).hash \in Nat
  BY <1>1, WorkerType DEF Mine, Rehashed, Inv
<1>4. hashes + 1 \notin shown /\ hashes + 1 # worker[u].hash /\ hashes + 1 # worker[u].mark
      /\ worker[u].hash <= hashes + 1
  BY <1>1, <1>2
<1>5. Places(u)'
  BY <1>1 DEF WriterOK, Places, At
<1>6. At(u, "patch") => ~LeavesNoAdmin(u)'
  <2>1. \A o \in Ids : EnabledAdmin(account'[o]) <=> EnabledAdmin(account[o])
    BY DEF Rehashed, EnabledAdmin
  <2>2. EnabledAdmin(Changed(Mine(u)', worker[u].role, worker[u].active))
        <=> EnabledAdmin(Changed(Mine(u), worker[u].role, worker[u].active))
    BY <1>1, <1>3, ChangedFacts DEF EnabledAdmin
  <2>3. LeavesNoAdmin(u)' <=> LeavesNoAdmin(u)
    BY <1>1, <2>1, <2>2 DEF LeavesNoAdmin, Mine
  <2> QED
    BY <1>1, <2>3 DEF WriterOK
<1>7. At(u, "put") => Unchanged(u)'
  BY <1>1, <1>3 DEF WriterOK, Unchanged
<1>8. Stored(u) =>
         /\ 0 < worker[u].hash /\ worker[u].hash <= Mine(u)'.hash
         /\ \A o \in Ids \ {worker[u].id} : account'[o].hash # worker[u].hash
  <2>1. \A o \in Ids : account'[o].hash = account[o].hash \/ account'[o].hash = hashes + 1
    BY DEF Rehashed
  <2> QED
    BY <1>1, <1>3, <1>4, <2>1 DEF WriterOK
<1>9. At(u, "flag") =>
         \/ worker[u].mark = Mine(u)'.hash
         \/ Mine(u)'.hash \notin shown /\ Mine(u)'.hash # worker[u].hash
  BY <1>1, <1>3, <1>4 DEF WriterOK
<1>10. worker[u].op \in {"create", "reset"} /\ worker[u].pc \in {"sessions", "answer"}
         /\ Mine(u)'.hash = worker[u].hash => Mine(u)'.must /\ Mine(u)'.mark = Mine(u)'.hash
  BY <1>1, <1>3, <1>4 DEF WriterOK
<1>11. worker[u].op = "guard" /\ worker[u].pc \in {"lock", "read", "clear"} =>
          worker[u].mark # Mine(u)'.hash
  BY <1>1, <1>3, <1>4 DEF WriterOK
<1> QED
  BY <1>1, <1>3, <1>5, <1>6, <1>7, <1>8, <1>9, <1>10, <1>11 DEF WriterOK, At, Stored

LEMMA ChangePasswordStep ==
    ASSUME Inv, NEW i \in Ids, ChangePassword(i)
    PROVE  Inv'
<1>1. Rehashed(i) /\ UNCHANGED <<sessions, shown, lock, worker>>
  BY ChangePasswordEffect DEF Inv, ChangePassword
<1>2. /\ hashes \in Nat /\ hashes' = hashes + 1 /\ account'[i].hash = hashes + 1
      /\ shown \subseteq 1 .. hashes
  BY <1>1, TypeParts DEF Inv, Rehashed
<1>3. TypeOK'
  <2>1. shown \subseteq 1 .. hashes + 1 /\ hashes + 1 \in Nat
    BY <1>2
  <2> QED
    BY <1>1, <1>2, <2>1, TypeParts DEF Inv, Rehashed
<1>4. Bounds'
  <2>1. \A o \in Ids : account'[o].hash <= hashes + 1 /\ account'[o].mark <= hashes + 1
    <3>1. \A o \in Ids : account[o].hash \in Nat /\ account[o].mark \in Nat
      BY AccountType DEF Inv
    <3>2. \A o \in Ids : account[o].hash <= hashes /\ account[o].mark <= hashes
      BY DEF Inv, Bounds
    <3>3. \A o \in Ids : account'[o].mark = account[o].mark
                         /\ (account'[o].hash = account[o].hash \/ account'[o].hash = hashes + 1)
      BY <1>1 DEF Rehashed
    <3> QED
      BY <1>2, <3>1, <3>2, <3>3
  <2>2. \A w \in Workers : worker[w].hash <= hashes + 1 /\ worker[w].mark <= hashes + 1
    BY <1>2, WorkerType DEF Inv, Bounds
  <2> QED
    BY <1>1, <1>2, <2>1, <2>2 DEF Bounds
<1>5. AbsentOff'
  BY <1>1 DEF Inv, AbsentOff, Rehashed
<1>6. ShownMarked'
  <2>1. hashes + 1 \notin shown
    BY <1>2
  <2>2. \A o \in Ids : o # i => account'[o] = account[o]
    BY <1>1 DEF Rehashed
  <2> QED
    BY <1>1, <1>2, <2>1, <2>2 DEF Inv, ShownMarked
<1>7. \A u \in Workers : WriterOK(u)'
  BY <1>1, RehashStays
<1> QED
  BY <1>3, <1>4, <1>5, <1>6, <1>7 DEF Inv

LEMMA SignInStep ==
    ASSUME Inv, NEW i \in Ids, SignIn(i)
    PROVE  Inv'
<1>1. /\ account[i].active /\ sessions' = [sessions EXCEPT ![i] = sessions[i] \cup {account[i].hash}]
      /\ UNCHANGED <<account, hashes, shown, lock, worker>>
  BY TypeParts DEF SignIn, Inv
<1>2. account[i].hash \in Nat /\ sessions \in [Ids -> SUBSET Nat]
  BY AccountType, TypeParts DEF Inv
<1>3. /\ sessions' \in [Ids -> SUBSET Nat] /\ sessions'[i] = sessions[i] \cup {account[i].hash}
      /\ \A o \in Ids : o # i => sessions'[o] = sessions[o]
  BY <1>1, <1>2
<1>4. TypeOK'
  BY <1>1, <1>3, TypeParts DEF Inv
<1>5. Bounds' /\ AbsentOff' /\ ShownMarked'
  BY <1>1 DEF Inv, Bounds, AbsentOff, ShownMarked
<1>6. ASSUME NEW u \in Workers PROVE WriterOK(u)'
  <2>1. WriterOK(u) /\ worker[u].id \in Ids /\ worker[u].hash \in Nat /\ Mine(u).hash \in Nat
    BY WorkerType DEF Inv
  <2>2. Mine(u)' = Mine(u) /\ Places(u)' /\ (LeavesNoAdmin(u)' <=> LeavesNoAdmin(u))
        /\ (Unchanged(u)' <=> Unchanged(u)) /\ (Stored(u)' <=> Stored(u))
    BY <1>1, <2>1 DEF Mine, WriterOK, Places, At, LeavesNoAdmin, Unchanged, Stored
  <2>3. At(u, "answer") /\ worker[u].op = "reset" =>
           \A s \in sessions'[worker[u].id] : s >= worker[u].hash
    <3>1. At(u, "answer") /\ worker[u].op = "reset" => worker[u].hash <= Mine(u).hash
      BY <2>1 DEF WriterOK, Stored, At
    <3>2. CASE worker[u].id = i
      BY <1>3, <2>1, <3>1, <3>2 DEF WriterOK, Mine
    <3>3. CASE worker[u].id # i
      BY <1>3, <2>1, <3>3 DEF WriterOK
    <3> QED
      BY <3>2, <3>3
  <2>4. At(u, "answer") /\ worker[u].active = "off" => sessions'[worker[u].id] = {}
    <3>1. At(u, "answer") /\ worker[u].active = "off" => worker[u].id # i
      BY <1>1, <2>1 DEF WriterOK, Mine, At
    <3> QED
      BY <1>3, <2>1, <3>1 DEF WriterOK
  <2> QED
    BY <1>1, <2>1, <2>2, <2>3, <2>4 DEF WriterOK, At
<1> QED
  BY <1>4, <1>5, <1>6 DEF Inv

LEMMA RevokeStep ==
    ASSUME Inv, sessions' \in [Ids -> SUBSET Nat], \A i \in Ids : sessions'[i] \subseteq sessions[i],
           UNCHANGED <<account, hashes, shown, lock, worker>>
    PROVE  Inv'
<1>1. TypeOK'
  BY TypeParts DEF Inv
<1>2. Bounds' /\ AbsentOff' /\ ShownMarked'
  BY DEF Inv, Bounds, AbsentOff, ShownMarked
<1>3. \A u \in Workers : WriterOK(u)'
  BY QuietStay
<1> QED
  BY <1>1, <1>2, <1>3 DEF Inv

LEMMA PeopleStep == Inv /\ People => Inv'
<1> SUFFICES ASSUME Inv, NEW i \in Ids,
                    \/ SignIn(i) \/ ChangePassword(i)
                    \/ RevokeUserSessions(i)
                    \/ \E s \in sessions[i] : RevokeUserSession(i, s)
             PROVE  Inv'
  BY DEF People
<1>1. sessions \in [Ids -> SUBSET Nat]
  BY TypeParts DEF Inv
<1>2. CASE RevokeUserSessions(i)
  BY <1>1, <1>2, RevokeStep DEF RevokeUserSessions
<1>3. ASSUME NEW s \in sessions[i], RevokeUserSession(i, s) PROVE Inv'
  <2>1. sessions' = [sessions EXCEPT ![i] = sessions[i] \ {s}]
    BY <1>1, <1>3 DEF RevokeUserSession
  <2>2. sessions' \in [Ids -> SUBSET Nat] /\ \A o \in Ids : sessions'[o] \subseteq sessions[o]
    BY <1>1, <2>1
  <2> QED
    BY <1>3, <2>2, RevokeStep DEF RevokeUserSession
<1> QED
  BY <1>2, <1>3, SignInStep, ChangePasswordStep

-----------------------------------------------------------------------------
(* A step that stores nothing in an account. *)

LEMMA QuietStep ==
    ASSUME Inv, NEW w \in Workers, NEW new, Moved(w, new), WriterOK(w)',
           worker'[w].hash <= hashes, worker'[w].mark <= hashes,
           lock' \in Workers \cup {Nobody}, \A u \in Workers : u # w /\ lock = u => lock' = u,
           UNCHANGED <<account, hashes, shown>>,
           sessions' \in [Ids -> SUBSET Nat], \A i \in Ids : sessions'[i] \subseteq sessions[i]
    PROVE  Inv'
<1>1. TypeOK'
  BY TypeParts DEF Inv, Moved
<1>2. AbsentOff' /\ ShownMarked'
  BY DEF Inv, AbsentOff, ShownMarked
<1>3. Bounds'
  BY DEF Inv, Bounds, Moved
<1>4. \A u \in Workers : u # w => WriterOK(u)'
  BY QuietStay DEF Moved
<1> QED
  BY <1>1, <1>2, <1>3, <1>4 DEF Inv

LEMMA SameSessions ==
    ASSUME Inv, sessions' = sessions
    PROVE  sessions' \in [Ids -> SUBSET Nat] /\ \A i \in Ids : sessions'[i] \subseteq sessions[i]
BY TypeParts DEF Inv

\* A worker that is done.
LEMMA EndStep ==
    ASSUME Inv, NEW w \in Workers, End(w), UNCHANGED <<account, sessions, hashes, shown>>
    PROVE  Inv'
<1>1. /\ Moved(w, Idle) /\ worker'[w] = Idle
      /\ lock' \in Workers \cup {Nobody}
      /\ \A u \in Workers : u # w /\ lock = u => lock' = u
  BY EndEffect DEF Inv, Moved
<1>2. WriterOK(w)' /\ worker'[w].hash <= hashes /\ worker'[w].mark <= hashes
  BY <1>1, IdleOK, TypeParts DEF Inv
<1> QED
  BY <1>1, <1>2, QuietStep, SameSessions

LEMMA BeginStep ==
    ASSUME Inv, NEW w \in Workers, NEW op \in {"create", "update", "reset"}, NEW i \in Ids,
           NEW role \in {"admin", "planner", "keep"}, NEW active \in {"on", "off", "keep"},
           op \in {"create", "reset"} => active = "keep", op = "create" => role # "keep",
           Begin(w, op, i, role, active)
    PROVE  Inv'
<1> DEFINE new == [Idle EXCEPT !.op = op, !.pc = "read", !.id = i, !.role = role, !.active = active]
<1>1. /\ new \in WorkerRecord /\ new.op = op /\ new.pc = "read"
      /\ new.role = role /\ new.active = active /\ new.hash = 0 /\ new.mark = 0
  BY IdleType DEF WorkerRecord, Idle, Pcs
<1>2. worker' = [worker EXCEPT ![w] = new] /\ lock = Nobody /\ lock' = w
      /\ UNCHANGED <<account, sessions, hashes, shown>>
  BY DEF Begin, Free
<1> HIDE DEF new
<1>3. Moved(w, new) /\ worker'[w] = new
  BY <1>1, <1>2, MovedTo DEF Inv, Moved
<1>4. WriterOK(w)'
  BY <1>1, <1>2, <1>3 DEF WriterOK, Places, At, Stored
<1>5. worker'[w].hash <= hashes /\ worker'[w].mark <= hashes
  BY <1>1, <1>3, TypeParts DEF Inv
<1>6. \A u \in Workers : lock # u
  BY <1>2, AccountsAssumption
<1> QED
  BY <1>2, <1>3, <1>4, <1>5, <1>6, QuietStep, SameSessions

LEMMA EnterStep ==
    ASSUME Inv, NEW w \in Workers, Enter(w)
    PROVE  Inv'
<1>1. /\ worker[w].pc = "lock" /\ lock = Nobody /\ lock' = w /\ Goto(w, "read")
      /\ UNCHANGED <<account, sessions, hashes, shown>>
  BY DEF Enter, At, Free
<1>2. /\ Moved(w, [worker[w] EXCEPT !.pc = "read"])
      /\ worker'[w].pc = "read" /\ worker'[w].op = worker[w].op /\ worker'[w].id = worker[w].id
      /\ worker'[w].role = worker[w].role /\ worker'[w].active = worker[w].active
      /\ worker'[w].hash = worker[w].hash /\ worker'[w].mark = worker[w].mark
  BY <1>1, GotoEffect DEF Inv, Pcs
<1>3. WriterOK(w)
  BY DEF Inv
<1>4. WriterOK(w)'
  BY <1>1, <1>2, <1>3 DEF WriterOK, Places, At, Stored, Mine
<1>5. worker'[w].hash <= hashes /\ worker'[w].mark <= hashes
  BY <1>2 DEF Inv, Bounds
<1>6. \A u \in Workers : lock # u
  BY <1>1, AccountsAssumption
<1> QED
  BY <1>1, <1>2, <1>4, <1>5, <1>6, QuietStep, SameSessions

\* A step of w that moves it on and changes nothing else.
LEMMA OnStep ==
    ASSUME Inv, NEW w \in Workers, NEW new \in WorkerRecord, worker' = [worker EXCEPT ![w] = new],
           worker'[w] = new => WriterOK(w)', new.hash <= hashes, new.mark <= hashes,
           UNCHANGED <<account, sessions, hashes, shown, lock>>
    PROVE  Inv'
<1>1. Moved(w, new) /\ worker'[w] = new
  BY MovedTo DEF Inv, Moved
<1>2. lock' \in Workers \cup {Nobody}
  BY TypeParts DEF Inv
<1> QED
  BY <1>1, <1>2, QuietStep, SameSessions

LEMMA BootstrapStep ==
    ASSUME Inv, NEW w \in Workers, Bootstrap(w)
    PROVE  Inv'
<1> DEFINE new == [Idle EXCEPT !.op = "create", !.pc = "lock", !.role = "admin"]
<1>1. /\ new \in WorkerRecord /\ new.op = "create" /\ new.pc = "lock"
      /\ new.role = "admin" /\ new.active = "keep" /\ new.hash = 0 /\ new.mark = 0
  BY IdleType DEF WorkerRecord, Idle, Pcs
<1>2. worker' = [worker EXCEPT ![w] = new] /\ UNCHANGED <<account, sessions, hashes, shown, lock>>
  BY DEF Bootstrap
<1> HIDE DEF new
<1>3. worker'[w] = new => WriterOK(w)'
  BY <1>1 DEF WriterOK, Places, At, Holding, Stored
<1>4. new.hash <= hashes /\ new.mark <= hashes
  BY <1>1, TypeParts DEF Inv
<1> QED
  BY <1>1, <1>2, <1>3, <1>4, OnStep

LEMMA ArriveStep ==
    ASSUME Inv, NEW w \in Workers, NEW i \in Ids, Arrive(w, i)
    PROVE  Inv'
<1> DEFINE new == [Idle EXCEPT !.op = "guard", !.pc = "get", !.id = i]
<1>1. /\ new \in WorkerRecord /\ new.op = "guard" /\ new.pc = "get"
      /\ new.hash = 0 /\ new.mark = 0
  BY IdleType DEF WorkerRecord, Idle, Pcs
<1>2. worker' = [worker EXCEPT ![w] = new] /\ UNCHANGED <<account, sessions, hashes, shown, lock>>
  BY DEF Arrive
<1> HIDE DEF new
<1>3. worker'[w] = new => WriterOK(w)'
  BY <1>1 DEF WriterOK, Places, At, Holding, Stored
<1>4. new.hash <= hashes /\ new.mark <= hashes
  BY <1>1, TypeParts DEF Inv
<1> QED
  BY <1>1, <1>2, <1>3, <1>4, OnStep

LEMMA SatisfiedStep ==
    ASSUME Inv, NEW w \in Workers, Satisfied(w)
    PROVE  Inv'
<1>1. CASE End(w)
  BY <1>1, EndStep DEF Satisfied
<1>2. CASE /\ worker' = [worker EXCEPT ![w].pc = "compare", ![w].mark = Mine(w).mark]
           /\ UNCHANGED lock
  <2> DEFINE new == [worker[w] EXCEPT !.pc = "compare", !.mark = Mine(w).mark]
  <2>1. /\ worker[w] \in WorkerRecord /\ worker \in [Workers -> WorkerRecord]
        /\ Mine(w).mark \in Nat /\ worker[w].id \in Ids
    BY WorkerType, TypeParts DEF Inv
  <2>2. /\ new \in WorkerRecord /\ new.pc = "compare" /\ new.op = worker[w].op
        /\ new.hash = worker[w].hash /\ new.mark = Mine(w).mark
    BY <2>1 DEF WorkerRecord, Pcs
  <2>3. worker' = [worker EXCEPT ![w] = new]
    BY <1>2, <2>1
  <2>4. worker[w].op = "guard" /\ UNCHANGED <<account, sessions, hashes, shown>>
    BY DEF Satisfied, At, Inv, WriterOK, Places
  <2>5. new.hash <= hashes /\ new.mark <= hashes
    BY <2>1, <2>2 DEF Inv, Bounds, Mine
  <2> HIDE DEF new
  <2>6. worker'[w] = new => WriterOK(w)'
    BY <2>2, <2>4 DEF WriterOK, Places, At, Holding, Stored
  <2> QED
    BY <1>2, <2>2, <2>3, <2>4, <2>5, <2>6, OnStep
<1> QED
  BY <1>1, <1>2 DEF Satisfied

\* A step of w to p that changes nothing else.
LEMMA GotoStep ==
    ASSUME Inv, NEW w \in Workers, NEW p \in Pcs, Goto(w, p), WriterOK(w)',
           lock' = lock, UNCHANGED <<account, sessions, hashes, shown>>
    PROVE  Inv'
<1>1. /\ Moved(w, [worker[w] EXCEPT !.pc = p])
      /\ worker'[w].hash = worker[w].hash /\ worker'[w].mark = worker[w].mark
  BY GotoEffect DEF Inv
<1>2. worker'[w].hash <= hashes /\ worker'[w].mark <= hashes /\ lock' \in Workers \cup {Nobody}
  BY <1>1, TypeParts DEF Inv, Bounds
<1> QED
  BY <1>1, <1>2, QuietStep, SameSessions

LEMMA PasswordChangedStep ==
    ASSUME Inv, NEW w \in Workers, PasswordChanged(w)
    PROVE  Inv'
<1>1. CASE End(w)
  BY <1>1, EndStep DEF PasswordChanged
<1>2. CASE Mine(w).hash # worker[w].mark /\ Goto(w, "lock") /\ UNCHANGED lock
  <2>1. /\ worker'[w].pc = "lock" /\ worker'[w].op = worker[w].op /\ worker'[w].id = worker[w].id
        /\ worker'[w].mark = worker[w].mark
    BY <1>2, GotoEffect DEF Inv, Pcs
  <2>2. worker[w].op = "guard" /\ UNCHANGED <<account, sessions, hashes, shown>>
    BY DEF PasswordChanged, At, Inv, WriterOK, Places
  <2>3. WriterOK(w)'
    BY <1>2, <2>1, <2>2 DEF WriterOK, Places, At, Holding, Stored, Mine
  <2> QED
    BY <1>2, <2>2, <2>3, GotoStep DEF Pcs
<1> QED
  BY <1>1, <1>2 DEF PasswordChanged

LEMMA ClearMustStep ==
    ASSUME Inv, NEW w \in Workers, ClearMustChangePassword(w)
    PROVE  Inv'
<1>1. CASE End(w)
  BY <1>1, EndStep DEF ClearMustChangePassword
<1>2. CASE SameMark(w) /\ Goto(w, "clear") /\ UNCHANGED lock
  <2>1. /\ worker'[w].pc = "clear" /\ worker'[w].op = worker[w].op /\ worker'[w].id = worker[w].id
        /\ worker'[w].mark = worker[w].mark
    BY <1>2, GotoEffect DEF Inv, Pcs
  <2>2. /\ worker[w].op = "guard" /\ worker[w].pc = "read" /\ WriterOK(w)
        /\ UNCHANGED <<account, sessions, hashes, shown>>
    BY DEF ClearMustChangePassword, At, Inv
  <2>3. WriterOK(w)'
    BY <1>2, <2>1, <2>2 DEF WriterOK, Places, At, Holding, Stored, Mine, SameMark
  <2> QED
    BY <1>2, <2>2, <2>3, GotoStep DEF Pcs
<1> QED
  BY <1>1, <1>2 DEF ClearMustChangePassword

LEMMA UpdateStep ==
    ASSUME Inv, NEW w \in Workers, Update(w)
    PROVE  Inv'
<1>1. CASE End(w)
  BY <1>1, EndStep DEF Update
<1>2. CASE ~LeavesNoAdmin(w) /\ Mine(w).there /\ Goto(w, "patch") /\ UNCHANGED lock
  <2>1. /\ worker'[w].pc = "patch" /\ worker'[w].op = worker[w].op /\ worker'[w].id = worker[w].id
        /\ worker'[w].role = worker[w].role /\ worker'[w].active = worker[w].active
    BY <1>2, GotoEffect DEF Inv, Pcs
  <2>2. /\ worker[w].op = "update" /\ worker[w].pc = "read" /\ WriterOK(w)
        /\ UNCHANGED <<account, sessions, hashes, shown>>
    BY DEF Update, At, Inv
  <2>3. Mine(w)' = Mine(w) /\ (LeavesNoAdmin(w)' <=> LeavesNoAdmin(w))
    BY <2>1, <2>2 DEF Mine, LeavesNoAdmin
  <2>4. WriterOK(w)'
    BY <1>2, <2>1, <2>2, <2>3 DEF WriterOK, Places, At, Holding, Stored
  <2> QED
    BY <1>2, <2>2, <2>4, GotoStep DEF Pcs
<1> QED
  BY <1>1, <1>2 DEF Update

LEMMA EndSessionsStep ==
    ASSUME Inv, NEW w \in Workers, EndSessions(w)
    PROVE  Inv'
<1>1. /\ worker[w].pc = "sessions" /\ Goto(w, "answer")
      /\ sessions' = [sessions EXCEPT ![worker[w].id] = {}]
      /\ UNCHANGED <<account, hashes, shown, lock>>
      /\ WriterOK(w) /\ worker[w].id \in Ids
  BY WorkerType DEF EndSessions, At, Inv
<1>2. /\ Moved(w, [worker[w] EXCEPT !.pc = "answer"])
      /\ worker'[w].pc = "answer" /\ worker'[w].op = worker[w].op /\ worker'[w].id = worker[w].id
      /\ worker'[w].role = worker[w].role /\ worker'[w].active = worker[w].active
      /\ worker'[w].hash = worker[w].hash /\ worker'[w].mark = worker[w].mark
  BY <1>1, GotoEffect DEF Inv, Pcs
<1>3. /\ sessions' \in [Ids -> SUBSET Nat] /\ \A i \in Ids : sessions'[i] \subseteq sessions[i]
      /\ sessions'[worker[w].id] = {}
  BY <1>1, TypeParts DEF Inv
<1>4. WriterOK(w)'
  BY <1>1, <1>2, <1>3 DEF WriterOK, Places, At, Holding, Stored, Mine
<1>5. worker'[w].hash <= hashes /\ worker'[w].mark <= hashes /\ lock' \in Workers \cup {Nobody}
  BY <1>1, <1>2, TypeParts DEF Inv, Bounds
<1> QED
  BY <1>1, <1>2, <1>3, <1>4, <1>5, QuietStep

LEMMA PasswordMarkStep ==
    ASSUME Inv, NEW w \in Workers, PasswordMark(w)
    PROVE  Inv'
<1> DEFINE new == [worker[w] EXCEPT !.pc = "flag", !.mark = Mine(w).hash]
<1>1. /\ worker[w] \in WorkerRecord /\ worker \in [Workers -> WorkerRecord]
      /\ Mine(w).hash \in Nat /\ worker[w].id \in Ids
  BY WorkerType, TypeParts DEF Inv
<1>2. /\ new \in WorkerRecord /\ new.pc = "flag" /\ new.op = worker[w].op /\ new.id = worker[w].id
      /\ new.role = worker[w].role /\ new.active = worker[w].active
      /\ new.hash = worker[w].hash /\ new.mark = Mine(w).hash
  BY <1>1 DEF WorkerRecord, Pcs
<1>3. /\ worker[w].pc = "mark" /\ WriterOK(w)
      /\ UNCHANGED <<account, sessions, hashes, shown, lock>>
  BY DEF PasswordMark, At, Inv
<1>4. worker' = [worker EXCEPT ![w] = new]
  BY <1>1 DEF PasswordMark
<1>5. new.hash <= hashes /\ new.mark <= hashes
  BY <1>1, <1>2 DEF Inv, Bounds, Mine
<1> HIDE DEF new
<1>6. ASSUME worker'[w] = new PROVE WriterOK(w)'
  <2>1. Mine(w)' = Mine(w)
    BY <1>2, <1>3, <1>6 DEF Mine
  <2> QED
    BY <1>2, <1>3, <1>6, <2>1 DEF WriterOK, Places, At, Holding, Stored
<1> QED
  BY <1>2, <1>3, <1>4, <1>5, <1>6, OnStep

LEMMA ReadIdentityStep ==
    ASSUME Inv, NEW w \in Workers, ReadIdentity(w)
    PROVE  Inv'
<1> DEFINE new == [worker[w] EXCEPT !.pc = "put", !.seen = Mine(w)]
<1>1. /\ worker[w] \in WorkerRecord /\ worker \in [Workers -> WorkerRecord]
      /\ Mine(w) \in Identities
  BY WorkerType, TypeParts DEF Inv
<1>2. /\ new \in WorkerRecord /\ new.pc = "put" /\ new.op = worker[w].op /\ new.id = worker[w].id
      /\ new.active = worker[w].active /\ new.seen = Mine(w)
      /\ new.hash = worker[w].hash /\ new.mark = worker[w].mark
  BY <1>1 DEF WorkerRecord, Pcs
<1>3. /\ worker[w].op = "reset" /\ worker[w].pc = "read" /\ WriterOK(w)
      /\ UNCHANGED <<account, sessions, hashes, shown, lock>>
  BY DEF ReadIdentity, At, Inv
<1>4. worker' = [worker EXCEPT ![w] = new]
  BY <1>1 DEF ReadIdentity
<1>5. new.hash <= hashes /\ new.mark <= hashes
  BY <1>2 DEF Inv, Bounds
<1> HIDE DEF new
<1>6. ASSUME worker'[w] = new PROVE WriterOK(w)'
  <2>1. Mine(w)' = Mine(w)
    BY <1>2, <1>3, <1>6 DEF Mine
  <2>2. Unchanged(w)'
    BY <1>2, <1>6, <2>1 DEF Unchanged
  <2> QED
    BY <1>2, <1>3, <1>6, <2>1, <2>2 DEF WriterOK, Places, At, Holding, Stored
<1> QED
  BY <1>2, <1>3, <1>4, <1>5, <1>6, OnStep

\* Answer tells the password of a creation or a reset, which is the account's only
\* while the account says that it has to be changed.
LEMMA AnswerStep ==
    ASSUME Inv, NEW w \in Workers, Answer(w)
    PROVE  Inv'
<1>1. /\ worker[w].pc = "answer" /\ WriterOK(w) /\ lock = w /\ End(w)
      /\ UNCHANGED <<account, sessions, hashes>>
      /\ shown' = IF worker[w].op = "update" THEN shown ELSE shown \cup {worker[w].hash}
  BY DEF Answer, At, Inv, WriterOK, Holding
<1>2. /\ Moved(w, Idle) /\ worker'[w] = Idle /\ lock' \in Workers \cup {Nobody}
  BY <1>1, EndEffect DEF Inv, Moved
<1>3. CASE worker[w].op = "update"
  BY <1>1, <1>3, EndStep
<1>4. CASE worker[w].op # "update"
  <2>1. worker[w].op \in {"create", "reset"} /\ Stored(w) /\ shown' = shown \cup {worker[w].hash}
    BY <1>1, <1>4 DEF WriterOK, Places, Stored
  <2>2. worker[w].hash \in Nat /\ worker[w].hash <= hashes /\ hashes \in Nat
        /\ shown \subseteq 1 .. hashes /\ worker[w].id \in Ids
    BY WorkerType, TypeParts DEF Inv, Bounds
  <2>3. 0 < worker[w].hash
    BY <1>1, <2>1 DEF WriterOK
  <2>4. TypeOK'
    <3>0. worker[w].hash \in 1 .. hashes
      BY ONLY <2>2, <2>3
    <3>1. shown' \subseteq 1 .. hashes
      BY ONLY <2>1, <2>2, <3>0
    <3> QED
      BY <1>1, <1>2, <3>1, TypeParts DEF Inv, Moved
  <2>5. Bounds' /\ AbsentOff'
    BY <1>1, <1>2, <2>2, IdleOK DEF Inv, Bounds, AbsentOff, Moved
  <2>6. ShownMarked'
    <3>1. ASSUME NEW i \in Ids, account[i].hash \in shown'
          PROVE  account[i].must /\ account[i].mark = account[i].hash
      <4>1. CASE account[i].hash \in shown
        BY <4>1 DEF Inv, ShownMarked
      <4>2. CASE account[i].hash = worker[w].hash
        <5>1. i = worker[w].id
          BY <1>1, <2>1, <4>2 DEF WriterOK
        <5> QED
          BY <1>1, <2>1, <4>2, <5>1 DEF WriterOK, Mine
      <4> QED
        BY <2>1, <3>1, <4>1, <4>2
    <3> QED
      BY <1>1, <3>1 DEF ShownMarked
  <2>7. \A u \in Workers : u # w => WriterOK(u)'
    BY <1>1, <1>2, WaitersStay DEF Moved, Fresh
  <2> QED
    BY <1>2, <2>4, <2>5, <2>6, <2>7, IdleOK DEF Inv
<1> QED
  BY <1>3, <1>4

-----------------------------------------------------------------------------
(* A step that stores an account. *)

LEMMA StoreStep ==
    ASSUME Inv, NEW w \in Workers, lock = w, NEW new \in Identities, Rewritten(worker[w].id, new),
           NEW record, Moved(w, record), WriterOK(w)',
           hashes' \in Nat, hashes <= hashes',
           worker'[w].hash <= hashes', worker'[w].mark <= hashes',
           new.hash <= hashes', new.mark <= hashes', ~new.there => ~new.active,
           new.hash = Mine(w).hash \/ new.hash > hashes,
           new.hash \in shown => new.must /\ new.mark = new.hash,
           lock' \in Workers \cup {Nobody}, UNCHANGED <<sessions, shown>>
    PROVE  Inv'
<1>1. worker[w].id \in Ids /\ hashes \in Nat /\ shown \subseteq 1 .. hashes
  BY WorkerType, TypeParts DEF Inv
<1>2. /\ account'[worker[w].id] = new
      /\ \A o \in Ids : o # worker[w].id => account'[o] = account[o]
  BY DEF Rewritten
<1>3. TypeOK'
  <2>1. shown \subseteq 1 .. hashes'
    BY <1>1
  <2> QED
    BY <2>1, TypeParts DEF Inv, Rewritten, Moved
<1>4. Bounds'
  <2>1. \A o \in Ids : account'[o].hash <= hashes' /\ account'[o].mark <= hashes'
    <3>1. \A o \in Ids : account[o].hash \in Nat /\ account[o].mark \in Nat
                         /\ account[o].hash <= hashes /\ account[o].mark <= hashes
      BY AccountType DEF Inv, Bounds
    <3>2. \A o \in Ids : account[o].hash <= hashes' /\ account[o].mark <= hashes'
      BY <1>1, <3>1
    <3> QED
      BY <1>2, <3>2
  <2>2. \A u \in Workers : worker'[u].hash <= hashes' /\ worker'[u].mark <= hashes'
    <3>1. \A u \in Workers : worker[u].hash \in Nat /\ worker[u].mark \in Nat
                             /\ worker[u].hash <= hashes /\ worker[u].mark <= hashes
      BY WorkerType DEF Inv, Bounds
    <3>2. \A u \in Workers : worker[u].hash <= hashes' /\ worker[u].mark <= hashes'
      BY <1>1, <3>1
    <3> QED
      BY <3>2 DEF Moved
  <2> QED
    BY <2>1, <2>2 DEF Bounds
<1>5. AbsentOff' /\ ShownMarked'
  BY <1>2 DEF Inv, AbsentOff, ShownMarked
<1>6. Fresh
  BY <1>2 DEF Fresh, Mine
<1>7. \A u \in Workers : u # w => WriterOK(u)'
  BY <1>6, WaitersStay DEF Moved
<1> QED
  BY <1>3, <1>4, <1>5, <1>7 DEF Inv

LEMMA NotNext ==
    ASSUME NEW old \in Nat, NEW last \in Nat, old <= last
    PROVE  old # last + 1
OBVIOUS

LEMMA CreateStep ==
    ASSUME Inv, NEW w \in Workers, Create(w)
    PROVE  Inv'
<1>1. CASE End(w) /\ UNCHANGED <<account, hashes>>
  BY <1>1, EndStep DEF Create
<1>2. CASE /\ ~Mine(w).there /\ hashes' = hashes + 1
           /\ Store(w, [there |-> TRUE, role |-> worker[w].role, active |-> TRUE,
                        must |-> TRUE, mark |-> 0, hash |-> hashes + 1])
           /\ worker' = [worker EXCEPT ![w].pc = "mark", ![w].hash = hashes + 1]
           /\ UNCHANGED lock
  <2> DEFINE new == [there |-> TRUE, role |-> worker[w].role, active |-> TRUE,
                     must |-> TRUE, mark |-> 0, hash |-> hashes + 1]
             record == [worker[w] EXCEPT !.pc = "mark", !.hash = hashes + 1]
  <2>1. /\ worker[w].op = "create" /\ worker[w].pc = "read" /\ WriterOK(w)
        /\ UNCHANGED <<sessions, shown>> /\ lock = w
    BY DEF Create, At, Inv, WriterOK, Holding
  <2>2. /\ worker[w] \in WorkerRecord /\ worker \in [Workers -> WorkerRecord]
        /\ hashes \in Nat /\ hashes + 1 \in Nat /\ worker[w].id \in Ids
        /\ worker[w].mark <= hashes /\ worker[w].mark \in Nat /\ shown \subseteq 1 .. hashes
    BY WorkerType, TypeParts DEF Inv, Bounds
  <2>3. worker[w].role \in {"admin", "planner"}
    BY <2>1, WorkerType DEF Inv, WriterOK, Places
  <2>4. /\ new \in Identities /\ new.hash = hashes + 1 /\ new.mark = 0 /\ new.there
    BY <2>2, <2>3 DEF Identities
  <2>5. /\ record \in WorkerRecord /\ record.pc = "mark" /\ record.op = worker[w].op
        /\ record.id = worker[w].id
        /\ record.role = worker[w].role /\ record.active = worker[w].active
        /\ record.hash = hashes + 1 /\ record.mark = worker[w].mark
    BY <2>2 DEF WorkerRecord, Pcs
  <2>6. worker' = [worker EXCEPT ![w] = record]
    BY <1>2, <2>2
  <2>7. Store(w, new)
    BY <1>2
  <2> HIDE DEF new, record
  <2>8. Rewritten(worker[w].id, new)
    BY <2>4, <2>7, StoreEffect DEF Inv
  <2>9. Moved(w, record) /\ worker'[w] = record
    BY <2>5, <2>6, MovedTo DEF Inv, Moved
  <2>10. \A o \in Ids : o # worker[w].id => account'[o].hash # hashes + 1
    <3>1. \A o \in Ids : account[o].hash \in Nat /\ account[o].hash <= hashes
      BY AccountType DEF Inv, Bounds
    <3>2. hashes \in Nat
      BY <2>2
    <3>3. \A o \in Ids : account[o].hash # hashes + 1
      BY <3>1, <3>2, NotNext
    <3> QED
      BY <2>8, <3>3 DEF Rewritten
  <2>11. Mine(w)' = new
    BY <2>5, <2>8, <2>9 DEF Mine, Rewritten
  <2>12. 0 < hashes + 1 /\ hashes + 1 <= hashes + 1 /\ hashes <= hashes + 1
         /\ worker[w].mark <= hashes + 1 /\ 0 <= hashes + 1
         /\ hashes + 1 > hashes /\ hashes + 1 \notin shown
    BY <2>2
  <2>13. WriterOK(w)'
    BY <1>2, <2>1, <2>4, <2>5, <2>9, <2>10, <2>11, <2>12
    DEF WriterOK, Places, At, Holding, Stored
  <2>14. lock' \in Workers \cup {Nobody}
    BY <1>2, TypeParts DEF Inv
  <2> QED
    BY <1>2, <2>1, <2>2, <2>4, <2>5, <2>8, <2>9, <2>12, <2>13, <2>14, StoreStep
<1> QED
  BY <1>1, <1>2 DEF Create

LEMMA SetMustStep ==
    ASSUME Inv, NEW w \in Workers, SetMustChangePassword(w)
    PROVE  Inv'
<1> DEFINE new == [Mine(w) EXCEPT !.must = TRUE, !.mark = worker[w].mark]
           next == IF worker[w].op = "reset" THEN "sessions" ELSE "answer"
           record == [worker[w] EXCEPT !.pc = next, !.mark = 0]
<1>1. /\ worker[w].pc = "flag" /\ WriterOK(w) /\ lock = w
      /\ UNCHANGED <<sessions, hashes, shown, lock>>
  BY DEF SetMustChangePassword, At, Inv, WriterOK, Holding
<1>2. /\ worker[w] \in WorkerRecord /\ worker \in [Workers -> WorkerRecord]
      /\ Mine(w) \in Identities /\ hashes \in Nat /\ worker[w].id \in Ids
      /\ worker[w].mark <= hashes /\ worker[w].mark \in Nat /\ worker[w].hash <= hashes
      /\ Mine(w).hash <= hashes
  BY WorkerType, TypeParts DEF Inv, Bounds, Mine
<1>3. /\ new \in Identities /\ new.must /\ new.mark = worker[w].mark
      /\ new.hash = Mine(w).hash /\ new.there = Mine(w).there /\ new.active = Mine(w).active
  BY <1>2 DEF Identities
<1>4. /\ record \in WorkerRecord /\ record.pc = next /\ record.op = worker[w].op
      /\ record.id = worker[w].id
      /\ record.role = worker[w].role /\ record.active = worker[w].active
      /\ record.hash = worker[w].hash /\ record.mark = 0
  BY <1>2 DEF WorkerRecord, Pcs
<1>5. Store(w, new) /\ worker' = [worker EXCEPT ![w] = record]
  BY <1>2 DEF SetMustChangePassword
<1>6. /\ next \in {"sessions", "answer"}
      /\ next = "answer" => worker[w].op # "reset"
  OBVIOUS
<1> HIDE DEF new, next, record
<1>7. Rewritten(worker[w].id, new)
  BY <1>3, <1>5, StoreEffect DEF Inv
<1>8. Moved(w, record) /\ worker'[w] = record
  BY <1>4, <1>5, MovedTo DEF Inv, Moved
<1>9. Mine(w)' = new /\ \A o \in Ids : o # worker[w].id => account'[o] = account[o]
  BY <1>4, <1>7, <1>8 DEF Mine, Rewritten
<1>10. /\ worker[w].op \in {"create", "reset"} /\ worker[w].active = "keep"
       /\ Stored(w)
  BY <1>1 DEF WriterOK, Places, Stored
<1>11. new.hash = worker[w].hash => new.mark = new.hash
  BY <1>1, <1>3 DEF WriterOK, At
<1>12. new.hash \in shown => new.mark = new.hash
  BY <1>1, <1>3 DEF WriterOK, At
<1>13. Places(w)'
  BY <1>1, <1>4, <1>6, <1>8, <1>10 DEF WriterOK, Places, At
<1>14. /\ 0 < worker[w].hash /\ worker[w].hash <= new.hash
       /\ \A i \in Ids \ {worker[w].id} : account'[i].hash # worker[w].hash
  BY <1>1, <1>3, <1>9, <1>10 DEF WriterOK
<1>15. WriterOK(w)'
  BY <1>1, <1>3, <1>4, <1>6, <1>8, <1>9, <1>10, <1>11, <1>13, <1>14
  DEF WriterOK, At, Holding, Stored
<1>16. /\ 0 <= hashes /\ hashes <= hashes /\ (~new.there => ~new.active)
       /\ lock' \in Workers \cup {Nobody}
  BY <1>1, <1>2, <1>3, TypeParts DEF Inv, AbsentOff, Mine
<1> QED
  BY <1>1, <1>2, <1>3, <1>4, <1>7, <1>8, <1>12, <1>15, <1>16, StoreStep

LEMMA PatchStep ==
    ASSUME Inv, NEW w \in Workers, Patch(w)
    PROVE  Inv'
<1> DEFINE new == Changed(Mine(w), worker[w].role, worker[w].active)
           next == IF worker[w].active = "off" THEN "sessions" ELSE "answer"
           record == [worker[w] EXCEPT !.pc = next, !.role = "keep"]
<1>1. /\ worker[w].pc = "patch" /\ WriterOK(w) /\ lock = w /\ worker[w].op = "update"
      /\ UNCHANGED <<sessions, hashes, shown, lock>>
  BY DEF Patch, At, Inv, WriterOK, Holding, Places
<1>2. /\ worker[w] \in WorkerRecord /\ worker \in [Workers -> WorkerRecord]
      /\ Mine(w) \in Identities /\ hashes \in Nat /\ worker[w].id \in Ids
      /\ worker[w].mark <= hashes /\ worker[w].hash <= hashes
      /\ Mine(w).hash <= hashes /\ Mine(w).mark <= hashes
  BY WorkerType, TypeParts DEF Inv, Bounds, Mine
<1>3. /\ new \in Identities /\ new.there = Mine(w).there
      /\ new.must = Mine(w).must /\ new.mark = Mine(w).mark /\ new.hash = Mine(w).hash
      /\ worker[w].active = "off" => ~new.active
  <2>1. /\ worker[w].role \in {"admin", "planner", "keep"}
        /\ worker[w].active \in {"on", "off", "keep"}
    BY WorkerType DEF Inv
  <2>2. /\ new \in Identities /\ new.there = Mine(w).there
        /\ new.must = Mine(w).must /\ new.mark = Mine(w).mark /\ new.hash = Mine(w).hash
    BY <1>2, <2>1, ChangedFacts
  <2>3. new.active = IF worker[w].active = "keep" THEN Mine(w).active ELSE worker[w].active = "on"
    BY <1>2, <2>1, ChangedFacts
  <2> HIDE DEF new
  <2>4. worker[w].active = "off" => ~new.active
    BY <2>3
  <2> QED
    BY <2>2, <2>4
<1>4. /\ record \in WorkerRecord /\ record.pc = next /\ record.op = worker[w].op
      /\ record.id = worker[w].id /\ record.active = worker[w].active
      /\ record.hash = worker[w].hash /\ record.mark = worker[w].mark
  BY <1>2 DEF WorkerRecord, Pcs
<1>5. Store(w, new) /\ worker' = [worker EXCEPT ![w] = record]
  BY <1>2 DEF Patch
<1>6. /\ next \in {"sessions", "answer"}
      /\ next = "answer" => worker[w].active # "off"
  OBVIOUS
<1> HIDE DEF new, next, record
<1>7. Rewritten(worker[w].id, new)
  BY <1>3, <1>5, StoreEffect DEF Inv
<1>8. Moved(w, record) /\ worker'[w] = record
  BY <1>4, <1>5, MovedTo DEF Inv, Moved
<1>9. Mine(w)' = new
  BY <1>4, <1>7, <1>8 DEF Mine, Rewritten
<1>10. WriterOK(w)'
  BY <1>1, <1>3, <1>4, <1>6, <1>8, <1>9 DEF WriterOK, Places, At, Holding, Stored
<1>11. /\ hashes <= hashes /\ new.there /\ lock' \in Workers \cup {Nobody}
  BY <1>1, <1>2, <1>3, TypeParts DEF Inv, WriterOK, At
<1>12. new.hash \in shown => new.must /\ new.mark = new.hash
  BY <1>2, <1>3 DEF Inv, ShownMarked, Mine
<1> QED
  BY <1>1, <1>2, <1>3, <1>4, <1>7, <1>8, <1>10, <1>11, <1>12, StoreStep

LEMMA SetPasswordStep ==
    ASSUME Inv, NEW w \in Workers, SetPassword(w)
    PROVE  Inv'
<1> DEFINE new == [worker[w].seen EXCEPT !.hash = hashes + 1]
           record == [worker[w] EXCEPT !.pc = "mark", !.hash = hashes + 1, !.seen = Absent]
<1>1. /\ worker[w].pc = "put" /\ WriterOK(w) /\ lock = w /\ worker[w].op = "reset"
      /\ UNCHANGED <<sessions, shown, lock>> /\ hashes' = hashes + 1 /\ Unchanged(w)
  BY DEF SetPassword, At, Inv, WriterOK, Holding, Places
<1>2. /\ worker[w] \in WorkerRecord /\ worker \in [Workers -> WorkerRecord]
      /\ worker[w].seen \in Identities /\ hashes \in Nat /\ hashes + 1 \in Nat
      /\ worker[w].id \in Ids /\ worker[w].mark \in Nat /\ worker[w].mark <= hashes
      /\ Mine(w).mark \in Nat /\ Mine(w).mark <= hashes /\ shown \subseteq 1 .. hashes
  BY WorkerType, TypeParts DEF Inv, Bounds, Mine
<1>3. /\ new \in Identities /\ new.hash = hashes + 1
      /\ new.there = Mine(w).there /\ new.active = Mine(w).active /\ new.mark = Mine(w).mark
  BY <1>1, <1>2, RehashFacts DEF Unchanged
<1>4. /\ record \in WorkerRecord /\ record.pc = "mark" /\ record.op = worker[w].op
      /\ record.id = worker[w].id
      /\ record.role = worker[w].role /\ record.active = worker[w].active
      /\ record.hash = hashes + 1 /\ record.mark = worker[w].mark
  BY <1>2, IdleType DEF WorkerRecord, Pcs
<1>5. Store(w, new) /\ worker' = [worker EXCEPT ![w] = record]
  BY <1>2 DEF SetPassword
<1> HIDE DEF new, record
<1>6. Rewritten(worker[w].id, new)
  BY <1>3, <1>5, StoreEffect DEF Inv
<1>7. Moved(w, record) /\ worker'[w] = record
  BY <1>4, <1>5, MovedTo DEF Inv, Moved
<1>8. \A o \in Ids : o # worker[w].id => account'[o].hash # hashes + 1
  <2>1. \A o \in Ids : account[o].hash \in Nat /\ account[o].hash <= hashes
    BY AccountType DEF Inv, Bounds
  <2>2. hashes \in Nat
    BY <1>2
  <2>3. \A o \in Ids : account[o].hash # hashes + 1
    BY <2>1, <2>2, NotNext
  <2> QED
    BY <1>6, <2>3 DEF Rewritten
<1>9. Mine(w)' = new
  BY <1>4, <1>6, <1>7 DEF Mine, Rewritten
<1>10. /\ 0 < hashes + 1 /\ hashes + 1 <= hashes + 1 /\ hashes <= hashes + 1
       /\ worker[w].mark <= hashes + 1 /\ Mine(w).mark <= hashes + 1
       /\ hashes + 1 > hashes /\ hashes + 1 \notin shown
  BY <1>2
<1>11. WriterOK(w)'
  BY <1>1, <1>3, <1>4, <1>7, <1>8, <1>9, <1>10 DEF WriterOK, Places, At, Holding, Stored
<1>12. (~new.there => ~new.active) /\ lock' \in Workers \cup {Nobody}
  BY <1>1, <1>2, <1>3, TypeParts DEF Inv, AbsentOff, Mine
<1> QED
  BY <1>1, <1>2, <1>3, <1>4, <1>6, <1>7, <1>10, <1>11, <1>12, StoreStep

LEMMA ClearStep ==
    ASSUME Inv, NEW w \in Workers, Clear(w)
    PROVE  Inv'
<1> DEFINE new == [Mine(w) EXCEPT !.must = FALSE, !.mark = 0]
<1>1. /\ worker[w].pc = "clear" /\ WriterOK(w) /\ lock = w /\ worker[w].op = "guard"
      /\ UNCHANGED <<sessions, hashes, shown>> /\ Store(w, new) /\ End(w)
  BY DEF Clear, At, Inv, WriterOK, Holding, Places
<1>2. /\ Mine(w) \in Identities /\ hashes \in Nat /\ worker[w].id \in Ids
      /\ Mine(w).hash <= hashes
  BY WorkerType, TypeParts DEF Inv, Bounds, Mine
<1>3. /\ new \in Identities /\ new.mark = 0 /\ new.hash = Mine(w).hash
      /\ new.there = Mine(w).there /\ new.active = Mine(w).active
  BY <1>2 DEF Identities
<1> HIDE DEF new
<1>4. Rewritten(worker[w].id, new)
  BY <1>1, <1>3, StoreEffect DEF Inv
<1>5. Moved(w, Idle) /\ worker'[w] = Idle /\ lock' \in Workers \cup {Nobody}
  BY <1>1, EndEffect DEF Inv, Moved
<1>6. WriterOK(w)' /\ worker'[w].hash = 0 /\ worker'[w].mark = 0
  BY <1>5, IdleOK
<1>7. new.hash \notin shown
  <2>1. worker[w].mark # Mine(w).hash /\ Mine(w).mark = worker[w].mark
    BY <1>1 DEF WriterOK, At
  <2>2. Mine(w).hash \in shown => Mine(w).mark = Mine(w).hash
    BY <1>2 DEF Inv, ShownMarked, Mine
  <2> QED
    BY <1>3, <2>1, <2>2
<1>8. 0 <= hashes /\ hashes <= hashes /\ (~new.there => ~new.active)
  BY <1>2, <1>3 DEF Inv, AbsentOff, Mine
<1> QED
  BY <1>1, <1>2, <1>3, <1>4, <1>5, <1>6, <1>7, <1>8, StoreStep

-----------------------------------------------------------------------------
(* The invariant. *)

LEMMA InvInit == Init => Inv
<1> SUFFICES ASSUME Init PROVE Inv
  OBVIOUS
<1>1. /\ ~Absent.active /\ Absent.hash = 0 /\ Absent.mark = 0
      /\ Idle.pc = "idle" /\ Idle.op = "none" /\ Idle.hash = 0 /\ Idle.mark = 0
      /\ Idle.active = "keep" /\ 0 <= 0
  BY DEF Absent, Idle
<1>2. /\ \A i \in Ids : account[i] = Absent
      /\ \A w \in Workers : worker[w] = Idle
      /\ hashes = 0 /\ shown = {}
  BY DEF Init
<1>3. TypeOK
  <2>1. account \in [Ids -> Identities] /\ worker \in [Workers -> WorkerRecord]
    BY IdleType DEF Init
  <2> QED
    BY <2>1, TypeParts DEF Init
<1>4. Bounds
  BY <1>1, <1>2 DEF Bounds
<1>5. AbsentOff /\ ShownMarked
  BY <1>1, <1>2 DEF AbsentOff, ShownMarked
<1>6. ASSUME NEW w \in Workers PROVE WriterOK(w)
  <2>1. worker[w].pc = "idle" /\ worker[w].op = "none" /\ worker[w].active = "keep"
    BY <1>1, <1>2
  <2> QED
    BY <2>1 DEF WriterOK, Places, At, Holding, Stored
<1> QED
  BY <1>3, <1>4, <1>5, <1>6 DEF Inv

LEMMA RequestStep ==
    ASSUME Inv, NEW w \in Workers, Request(w)
    PROVE  Inv'
<1>1. ASSUME NEW i \in Ids, NEW role \in {"admin", "planner"}, CreateUser(w, i, role)
      PROVE  Inv'
  <2>1. Begin(w, "create", i, role, "keep") /\ role \in {"admin", "planner", "keep"} /\ role # "keep"
    BY <1>1 DEF CreateUser
  <2> QED
    BY <2>1, BeginStep
<1>2. ASSUME NEW i \in Ids, NEW role \in {"admin", "planner"}, UsersSetRole(w, i, role)
      PROVE  Inv'
  <2>1. Begin(w, "update", i, role, "keep") /\ role \in {"admin", "planner", "keep"}
    BY <1>2 DEF UsersSetRole
  <2> QED
    BY <2>1, BeginStep
<1>3. ASSUME NEW i \in Ids, NEW edit \in Edits, UpdateUser(w, i, edit)
      PROVE  Inv'
  <2>1. edit[1] \in {"admin", "planner", "keep"} /\ edit[2] \in {"on", "off", "keep"}
    BY AccountsAssumption
  <2>2. Begin(w, "update", i, edit[1], edit[2])
    BY <1>3 DEF UpdateUser
  <2> QED
    BY <2>1, <2>2, BeginStep
<1>4. ASSUME NEW i \in Ids, ResetPassword(w, i)
      PROVE  Inv'
  <2>1. Begin(w, "reset", i, "keep", "keep")
    BY <1>4 DEF ResetPassword
  <2> QED
    BY <2>1, BeginStep
<1> QED
  BY <1>1, <1>2, <1>3, <1>4, BootstrapStep, ArriveStep DEF Request

LEMMA InvStep == Inv /\ [Next]_vars => Inv'
<1> SUFFICES ASSUME Inv, [Next]_vars PROVE Inv'
  OBVIOUS
<1>1. ASSUME NEW w \in Workers, Step(w) PROVE Inv'
  <2>1. CASE Fail(w)
    BY <2>1, EndStep DEF Fail
  <2> QED
    BY <1>1, <2>1, EnterStep, CreateStep, PasswordMarkStep, SetMustStep, UpdateStep, PatchStep,
       EndSessionsStep, ReadIdentityStep, SetPasswordStep, AnswerStep, SatisfiedStep,
       PasswordChangedStep, ClearMustStep, ClearStep DEF Step
<1>2. CASE UNCHANGED vars
  BY <1>2, RevokeStep, SameSessions DEF vars
<1> QED
  BY <1>1, <1>2, RequestStep, PeopleStep DEF Next

LEMMA Invariant == Spec => []Inv
BY InvInit, InvStep, PTL DEF Spec

\* Whoever learned a password from CreateUser or ResetPassword holds one that the
\* account has to change, whatever failed or overlapped on the way.
THEOREM HandedTheorem == Spec => []Handed
<1>1. Inv => Handed
  BY DEF Inv, ShownMarked, Handed
<1> QED
  BY <1>1, Invariant, PTL

\* When ResetPassword or a disabling Update answers, the sessions it had to end are
\* gone, whoever signed in meanwhile.
THEOREM SignedOutTheorem == Spec => []SignedOut
<1>1. Inv => SignedOut
  BY DEF Inv, WriterOK, SignedOut
<1> QED
  BY <1>1, Invariant, PTL

-----------------------------------------------------------------------------
(* What a step may not do. *)

\* The one way an account changes, by any step.
AccountStep(i) ==
    \/ account'[i] = account[i]
    \/ \E w \in Workers :
          /\ i = worker[w].id /\ lock = w
          /\ \/ At(w, "read") /\ ~account[i].there
             \/ At(w, "patch") /\ account'[i] = Changed(account[i], worker[w].role, worker[w].active)
             \/ /\ worker[w].pc \in {"flag", "clear"}
                /\ account'[i].role = account[i].role /\ account'[i].active = account[i].active
                /\ account'[i].hash = account[i].hash
             \/ At(w, "put") /\ account'[i] = [account[i] EXCEPT !.hash = hashes + 1]
    \/ account'[i] = [account[i] EXCEPT !.hash = hashes + 1]

\* A step changes one account at most.
OneAccount == \A i, o \in Ids : account'[i] # account[i] /\ account'[o] # account[o] => i = o

LEMMA StoreOne ==
    ASSUME TypeOK, NEW w \in Workers, NEW new \in Identities, Store(w, new)
    PROVE  /\ OneAccount /\ account'[worker[w].id] = new
           /\ \A i \in Ids : i # worker[w].id => account'[i] = account[i]
BY StoreEffect DEF Rewritten, OneAccount

\* What setPassword sends back is the account with another password.
LEMMA SentBack ==
    ASSUME Inv, NEW w \in Workers, At(w, "put")
    PROVE  [worker[w].seen EXCEPT !.hash = hashes + 1] = [Mine(w) EXCEPT !.hash = hashes + 1]
<1>1. Unchanged(w) /\ worker[w].seen \in Identities /\ Mine(w) \in Identities
  BY WorkerType DEF Inv, WriterOK
<1> QED
  BY <1>1 DEF Unchanged, Identities

LEMMA AccountSteps ==
    ASSUME Inv, [Next]_vars
    PROVE  OneAccount /\ \A i \in Ids : AccountStep(i)
<1>1. CASE account' = account
  BY <1>1 DEF OneAccount, AccountStep
<1>2. ASSUME NEW w \in Workers,
             Create(w) \/ SetMustChangePassword(w) \/ Patch(w) \/ SetPassword(w) \/ Clear(w)
      PROVE  OneAccount /\ \A i \in Ids : AccountStep(i)
  <2>1. /\ worker[w].id \in Ids /\ Mine(w) \in Identities /\ worker[w].seen \in Identities
        /\ hashes + 1 \in Nat /\ worker[w].mark \in Nat /\ TypeOK
        /\ worker[w].role \in {"admin", "planner", "keep"} /\ worker[w].active \in {"on", "off", "keep"}
    BY WorkerType, TypeParts DEF Inv
  <2>2. worker[w].pc \in Holding => lock = w
    BY DEF Inv, WriterOK
  <2>3. ASSUME NEW new \in Identities, Store(w, new), AccountStep(worker[w].id)
        PROVE  OneAccount /\ \A i \in Ids : AccountStep(i)
    <3>1. OneAccount /\ \A i \in Ids : i # worker[w].id => account'[i] = account[i]
      BY <2>1, <2>3, StoreOne
    <3>2. ASSUME NEW i \in Ids PROVE AccountStep(i)
      <4>1. CASE i = worker[w].id
        BY <2>3, <4>1
      <4>2. CASE i # worker[w].id
        BY <3>1, <4>2 DEF AccountStep
      <4> QED
        BY <4>1, <4>2
    <3> QED
      BY <3>1, <3>2
  <2>4. CASE Create(w)
    <3>1. CASE account' = account
      BY <1>1, <3>1
    <3>2. CASE ~Mine(w).there /\ Store(w, [there |-> TRUE, role |-> worker[w].role, active |-> TRUE,
                                           must |-> TRUE, mark |-> 0, hash |-> hashes + 1])
      <4>1. worker[w].pc = "read" /\ worker[w].op = "create" /\ lock = w
        BY <2>2, <2>4 DEF Create, At, Holding
      <4>2. worker[w].role \in {"admin", "planner"}
        BY <2>1, <4>1 DEF Inv, WriterOK, Places
      <4>3. [there |-> TRUE, role |-> worker[w].role, active |-> TRUE,
             must |-> TRUE, mark |-> 0, hash |-> hashes + 1] \in Identities
        BY <2>1, <4>2 DEF Identities
      <4>4. AccountStep(worker[w].id)
        BY <3>2, <4>1 DEF AccountStep, At, Mine
      <4> QED
        BY <2>3, <3>2, <4>3, <4>4
    <3> QED
      BY <2>4, <3>1, <3>2 DEF Create
  <2>5. CASE SetMustChangePassword(w)
    <3> DEFINE new == [Mine(w) EXCEPT !.must = TRUE, !.mark = worker[w].mark]
    <3>1. worker[w].pc = "flag" /\ lock = w /\ Store(w, new)
      BY <2>2, <2>5 DEF SetMustChangePassword, At, Holding
    <3>2. /\ new \in Identities /\ new.role = Mine(w).role /\ new.active = Mine(w).active
          /\ new.hash = Mine(w).hash
      BY <2>1 DEF Identities
    <3> HIDE DEF new
    <3>3. account'[worker[w].id] = new
      BY <2>1, <3>1, <3>2, StoreOne
    <3>4. AccountStep(worker[w].id)
      BY <3>1, <3>2, <3>3 DEF AccountStep, Mine
    <3> QED
      BY <2>3, <3>1, <3>2, <3>4
  <2>6. CASE Patch(w)
    <3> DEFINE new == Changed(Mine(w), worker[w].role, worker[w].active)
    <3>1. worker[w].pc = "patch" /\ lock = w /\ Store(w, new)
      BY <2>2, <2>6 DEF Patch, At, Holding
    <3>2. new \in Identities
      BY <2>1, ChangedFacts
    <3>3. account'[worker[w].id] = new
      BY <2>1, <3>1, <3>2, StoreOne
    <3>4. AccountStep(worker[w].id)
      BY <3>1, <3>3 DEF AccountStep, Mine, At
    <3> HIDE DEF new
    <3> QED
      BY <2>3, <3>1, <3>2, <3>4
  <2>7. CASE SetPassword(w)
    <3> DEFINE new == [worker[w].seen EXCEPT !.hash = hashes + 1]
    <3>1. worker[w].pc = "put" /\ lock = w /\ Store(w, new)
      BY <2>2, <2>7 DEF SetPassword, At, Holding
    <3>2. new \in Identities
      BY <2>1, RehashFacts
    <3>3. new = [Mine(w) EXCEPT !.hash = hashes + 1]
      BY <3>1, SentBack DEF At
    <3> HIDE DEF new
    <3>4. account'[worker[w].id] = new
      BY <2>1, <3>1, <3>2, StoreOne
    <3>5. AccountStep(worker[w].id)
      BY <3>1, <3>3, <3>4 DEF AccountStep, Mine, At
    <3> QED
      BY <2>3, <3>1, <3>2, <3>5
  <2>8. CASE Clear(w)
    <3> DEFINE new == [Mine(w) EXCEPT !.must = FALSE, !.mark = 0]
    <3>1. worker[w].pc = "clear" /\ lock = w /\ Store(w, new)
      BY <2>2, <2>8 DEF Clear, At, Holding
    <3>2. /\ new \in Identities /\ new.role = Mine(w).role /\ new.active = Mine(w).active
          /\ new.hash = Mine(w).hash
      BY <2>1 DEF Identities
    <3> HIDE DEF new
    <3>3. account'[worker[w].id] = new
      BY <2>1, <3>1, <3>2, StoreOne
    <3>4. AccountStep(worker[w].id)
      BY <3>1, <3>2, <3>3 DEF AccountStep, Mine
    <3> QED
      BY <2>3, <3>1, <3>2, <3>4
  <2> QED
    BY <1>2, <2>4, <2>5, <2>6, <2>7, <2>8
<1>3. ASSUME NEW i \in Ids, ChangePassword(i)
      PROVE  OneAccount /\ \A o \in Ids : AccountStep(o)
  <2>1. account' = [account EXCEPT ![i] = [account[i] EXCEPT !.hash = hashes + 1]]
        /\ account \in [Ids -> Identities]
    BY <1>3, TypeParts DEF ChangePassword, Inv
  <2>2. /\ account'[i] = [account[i] EXCEPT !.hash = hashes + 1]
        /\ \A o \in Ids : o # i => account'[o] = account[o]
    BY <2>1
  <2> QED
    BY <2>2 DEF OneAccount, AccountStep
<1>4. ASSUME NEW w \in Workers, Step(w) PROVE OneAccount /\ \A i \in Ids : AccountStep(i)
  BY <1>1, <1>2, <1>4
  DEF Step, Enter, Fail, PasswordMark, Update, EndSessions, ReadIdentity, Answer, Satisfied,
      PasswordChanged, ClearMustChangePassword
<1>5. ASSUME NEW w \in Workers, Request(w) PROVE account' = account
  BY <1>5 DEF Request, Bootstrap, CreateUser, UsersSetRole, UpdateUser, ResetPassword, Arrive, Begin
<1> QED
  BY <1>1, <1>3, <1>4, <1>5
  DEF Next, People, SignIn, RevokeUserSession, RevokeUserSessions, vars

LEMMA AdminStep ==
    ASSUME Inv, [Next]_vars, NEW i \in Ids, EnabledAdmin(account[i])
    PROVE  \E o \in Ids : EnabledAdmin(account'[o])
<1>1. OneAccount /\ AccountStep(i)
  BY AccountSteps
<1>2. account[i] \in Identities
  BY AccountType DEF Inv
<1>3. CASE account'[i] = account[i]
  BY <1>3
<1>4. CASE account'[i] = [account[i] EXCEPT !.hash = hashes + 1]
  <2>1. account'[i].role = account[i].role /\ account'[i].active = account[i].active
    BY <1>2, <1>4 DEF Identities
  <2> QED
    BY <2>1 DEF EnabledAdmin
<1>5. ASSUME NEW w \in Workers, i = worker[w].id, At(w, "patch"), account'[i] # account[i],
             account'[i] = Changed(account[i], worker[w].role, worker[w].active)
      PROVE  \E o \in Ids : EnabledAdmin(account'[o])
  <2>1. CASE EnabledAdmin(account'[i])
    BY <2>1
  <2>2. CASE ~EnabledAdmin(account'[i])
    <3>1. ~LeavesNoAdmin(w)
      BY <1>5 DEF Inv, WriterOK
    <3>2. PICK o \in Ids \ {i} : EnabledAdmin(account[o])
      BY <1>5, <2>2, <3>1 DEF LeavesNoAdmin, Mine
    <3>3. account'[o] = account[o]
      BY <1>1, <1>5, <3>2 DEF OneAccount
    <3> QED
      BY <3>2, <3>3
  <2> QED
    BY <2>1, <2>2
<1>6. ASSUME NEW w \in Workers, account'[i].role = account[i].role, account'[i].active = account[i].active
      PROVE  EnabledAdmin(account'[i])
  BY <1>6 DEF EnabledAdmin
<1>7. account[i].there
  BY DEF EnabledAdmin, Inv, AbsentOff
<1> QED
  BY <1>1, <1>3, <1>4, <1>5, <1>6, <1>7 DEF AccountStep

\* No step takes the last enabled administrator away, though Update looks for
\* another one before it patches.
THEOREM AdminLeftTheorem == Spec => AdminLeft
<1>1. Inv /\ [Next]_vars =>
         [(\E i \in Ids : EnabledAdmin(account[i])) => \E i \in Ids : EnabledAdmin(account'[i])]_vars
  BY AdminStep
<1> QED
  BY <1>1, Invariant, PTL DEF Spec, AdminLeft

\* Only the writer itself and the account's owner set a password while setPassword
\* has an identity to send back, and neither changes anything else of it.
LEMMA RestStep ==
    ASSUME Inv, [Next]_vars, NEW i \in Ids, NEW w \in Workers, At(w, "put"),
           account'[i].hash # account[i].hash
    PROVE  [account'[i] EXCEPT !.hash = account[i].hash] = account[i]
<1>1. AccountStep(i) /\ lock = w
  BY AccountSteps DEF Inv, WriterOK, Holding, At
<1>2. account[i] \in Identities
  BY AccountType DEF Inv
<1>3. account'[i] = [account[i] EXCEPT !.hash = hashes + 1]
  <2>1. ASSUME NEW u \in Workers, i = worker[u].id, lock = u,
               \/ At(u, "read") /\ ~account[i].there
               \/ At(u, "patch") /\ account'[i] = Changed(account[i], worker[u].role, worker[u].active)
               \/ /\ worker[u].pc \in {"flag", "clear"}
                  /\ account'[i].role = account[i].role /\ account'[i].active = account[i].active
                  /\ account'[i].hash = account[i].hash
               \/ At(u, "put") /\ account'[i] = [account[i] EXCEPT !.hash = hashes + 1]
        PROVE  account'[i] = [account[i] EXCEPT !.hash = hashes + 1]
    BY <1>1, <2>1 DEF At
  <2> QED
    BY <1>1, <2>1 DEF AccountStep
<1> QED
  BY <1>2, <1>3 DEF Identities

\* setPassword sends a whole identity back and undoes nothing with it.
THEOREM NothingUndoneTheorem == Spec => NothingUndone
<1>1. Inv /\ [Next]_vars =>
         [\A i \in Ids, w \in Workers : At(w, "put") /\ account'[i].hash # account[i].hash =>
             [account'[i] EXCEPT !.hash = account[i].hash] = account[i]]_vars
  BY RestStep
<1> QED
  BY <1>1, Invariant, PTL DEF Spec, NothingUndone
=============================================================================
