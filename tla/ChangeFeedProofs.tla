-------------------------- MODULE ChangeFeedProofs --------------------------
(***************************************************************************)
(* Proofs about ChangeFeed for any plans, transactions, desktops, epochs   *)
(* and page: no desktop misses a change, and the feed implements Mirror.   *)
(***************************************************************************)
EXTENDS ChangeFeed, FiniteSetTheorems, TLAPS

Pending(t) == tx[t].pc # "idle"

\* A transaction under way finds its plans as it wrote them, and holds the value
\* after the clock's once it took it.
TxOK ==
    \A t \in Txs :
        /\ Pending(t) => tx[t].op \in Ops
        /\ Pending(t) => \A p \in tx[t].plans : state[p] \in From(tx[t].op)
        /\ tx[t].pc = "advanced" => tx[t].first = clock.value + 1

\* Two transactions do not both hold the clock, nor a plan both write.
TxAlone ==
    \A t, o \in Txs : t # o =>
        /\ ~(tx[t].pc = "advanced" /\ tx[o].pc = "advanced")
        /\ Pending(t) /\ Pending(o) /\ tx[t].plans \cap tx[o].plans # {} =>
              ~Waits(tx[t].op, tx[o])

\* Every epoch that anyone names was drawn.
EpochsUsed ==
    /\ clock.epoch # NoEpoch => clock.epoch \in used
    /\ \A d \in Desktops :
          /\ cursor[d].epoch # NoEpoch => cursor[d].epoch \in used
          /\ poll[d].pc # "idle" => poll[d].epoch \in used

\* Of a plan that was removed the server holds nothing.
RemovedEmpty == \A x \in Items : state[PlanOf(x)] = "removed" => data[x] = 0

\* An answer of this database names every row between the point the desktop has
\* and the point it is given, unless the row moved past it, and says which plans
\* are gone.
AnswerOK(d) ==
    /\ cursor[d].epoch = poll[d].epoch
    /\ \A x \in Items : seq[x] > cursor[d].seq =>
          x \in poll[d].answer.items \/ seq[x] > poll[d].seq
    /\ \A p \in poll[d].answer.gone : state[p] = "removed"
    /\ \A p \in Plans : state[p] = "removed" /\ seq[<<p, "project">>] > cursor[d].seq =>
          p \in poll[d].answer.gone \/ seq[<<p, "project">>] > poll[d].seq

\* No desktop is ahead of the clock.
PointOK(d) ==
    /\ cursor[d].epoch # NoEpoch /\ cursor[d].epoch = clock.epoch => cursor[d].seq <= clock.value
    /\ poll[d].pc = "asked" => poll[d].epoch = clock.epoch
    /\ poll[d].pc # "idle" /\ poll[d].epoch = clock.epoch => poll[d].seq <= clock.value
    /\ poll[d].answer.reset => poll[d].answer.gone = {}
    /\ poll[d].pc = "answered" /\ poll[d].epoch = clock.epoch /\ ~poll[d].answer.reset =>
          AnswerOK(d)

Points == \A d \in Desktops : PointOK(d)

Inv ==
    /\ TypeOK
    /\ TxOK
    /\ TxAlone
    /\ EpochsUsed
    /\ RemovedEmpty
    /\ Ordered
    /\ TombAlone
    /\ Points

-----------------------------------------------------------------------------
(* Facts about the operators. *)

\* A finite set of numbers has a greatest one.
LEMMA Greatest ==
    ASSUME NEW S \in SUBSET Nat, IsFiniteSet(S), S # {}
    PROVE  \E m \in S : \A o \in S : o <= m
<1> DEFINE from(m) == {o \in S : o >= m}
           tails == {from(m) : m \in S}
<1>1. tails \subseteq FiniteSubsetsOf(S) /\ tails # {}
  <2>1. \A m \in S : from(m) \in SUBSET S
    OBVIOUS
  <2>2. \A m \in S : IsFiniteSet(from(m))
    BY <2>1, FS_Subset
  <2> HIDE DEF from
  <2> QED
    BY <2>1, <2>2 DEF FiniteSubsetsOf
<1>2. PICK T \in tails : \A U \in tails : ~(<<U, T>> \in StrictSubsetOrdering(S))
  <2> HIDE DEF tails
  <2> QED
    BY <1>1, WFMin, FS_StrictSubsetOrderingWellFounded
<1>3. PICK m \in S : T = from(m)
  OBVIOUS
<1>4. ASSUME NEW o \in S, ~(o <= m) PROVE FALSE
  <2>1. o > m /\ o \in Nat /\ m \in Nat
    BY <1>4
  <2>a. \A b \in S : b >= o => b >= m
    BY <2>1
  <2>b. from(o) \subseteq from(m)
    BY <2>a
  <2>c. m >= m /\ ~(m >= o)
    BY <2>1
  <2>2. from(o) \subseteq from(m) /\ m \in from(m) /\ m \notin from(o)
    BY <2>b, <2>c
  <2>3. from(o) \in SUBSET S /\ from(m) \in SUBSET S /\ from(o) \in tails
    OBVIOUS
  <2> HIDE DEF from, tails
  <2> QED
    BY <1>2, <1>3, <2>2, <2>3 DEF StrictSubsetOrdering
<1> QED
  BY <1>4

LEMMA ItemsFinite == IsFiniteSet(Items) /\ IsFiniteSet(Parts)
<1>1. IsFiniteSet({"project"})
  BY FS_Singleton
<1>2. IsFiniteSet({"project"} \cup {"versions"})
  BY <1>1, FS_AddElement
<1>3. IsFiniteSet(({"project"} \cup {"versions"}) \cup {"results"})
  BY <1>2, FS_AddElement
<1>4. Parts = ({"project"} \cup {"versions"}) \cup {"results"}
  BY DEF Parts
<1>5. IsFiniteSet(Parts)
  BY <1>3, <1>4
<1> QED
  BY <1>5, FeedAssumption, FS_Product DEF Items

LEMMA OpFacts ==
    ASSUME NEW op \in Ops
    PROVE  /\ PartsOf(op) \subseteq Parts
           /\ op = "purge" => PartsOf(op) = {"project"}
           /\ "removed" \notin From(op)
           /\ \A was \in From(op) :
                 /\ To(op, was) \in {"none", "live", "trash", "removed"}
                 /\ To(op, was) = "removed" <=> op = "purge"
           /\ ~LocksPlan(op) => \A was : To(op, was) = was
           /\ ~LocksPlan(op) => From(op) = {"live", "trash"}
           /\ LocksPlan(op) /\ op # "purge" => \A was \in {"live", "trash"} \cap From(op) :
                                    To(op, was) \in {"live", "trash"}
BY FeedAssumption DEF PartsOf, Parts, From, To, LocksPlan

\* What a transaction stamps.
Stamped(t) == tx[t].plans \X PartsOf(tx[t].op)

LEMMA StampedSet ==
    ASSUME TypeOK, TxOK, NEW t \in Txs, Pending(t)
    PROVE  /\ Stamped(t) \subseteq Items
           /\ tx[t].plans \in SUBSET Plans
           /\ Cardinality(Stamped(t)) \in Nat
<1>1. tx[t].op \in Ops /\ tx[t].plans \in SUBSET Plans
  BY DEF TypeOK, TxOK
<1>2. PartsOf(tx[t].op) \in SUBSET Parts
  BY <1>1, OpFacts
<1>3. Stamped(t) \in SUBSET Items
  BY <1>1, <1>2 DEF Stamped, Items
<1>4. IsFiniteSet(Stamped(t))
  BY <1>3, ItemsFinite, FS_Subset
<1> QED
  BY <1>1, <1>3, <1>4, FS_CardinalityType

\* The epoch of a clock: its own, or one that nobody names.
LEMMA EpochFacts ==
    ASSUME TypeOK, EpochsUsed, NEW epoch \in Epoch
    PROVE  /\ epoch \in Epochs /\ epoch # NoEpoch
           /\ clock.epoch # NoEpoch => epoch = clock.epoch
           /\ clock.epoch = NoEpoch => epoch \notin used
BY FeedAssumption DEF Epoch, TypeOK, EpochsUsed

-----------------------------------------------------------------------------
(* What a commit does. *)

Committed(t) ==
    /\ Stamped(t) \subseteq Items /\ tx[t].plans \in SUBSET Plans /\ tx[t].op \in Ops
    /\ clock' \in [epoch : Epochs, value : Nat]
    /\ clock.value <= clock'.value
    /\ clock'.epoch # NoEpoch
    /\ clock.epoch # NoEpoch => clock'.epoch = clock.epoch
    /\ clock.epoch = NoEpoch => clock'.epoch \notin used
    /\ used' = used \cup {clock'.epoch}
    /\ seq' \in [Items -> Nat]
    /\ \A x \in Stamped(t) : clock.value < seq'[x] /\ seq'[x] <= clock'.value
    /\ \A x, y \in Stamped(t) : seq'[x] = seq'[y] => x = y
    /\ \A x \in Items \ Stamped(t) : seq'[x] = IF x \in Tombs(t) THEN 0 ELSE seq[x]
    /\ state' = [p \in Plans |-> IF p \in tx[t].plans THEN To(tx[t].op, state[p]) ELSE state[p]]
    /\ data' = [x \in Items |->
          IF tx[t].op = "purge" /\ PlanOf(x) \in tx[t].plans THEN 0
          ELSE IF x \in Stamped(t) THEN data[x] + 1 ELSE data[x]]
    /\ tx' = [tx EXCEPT ![t] = IdleTx]
    /\ UNCHANGED <<cursor, todo, copy, poll>>

LEMMA CommitEffect ==
    ASSUME TypeOK, TxOK, EpochsUsed, NEW t \in Txs, Commit(t)
    PROVE  Committed(t)
<1>1. Pending(t) /\ tx[t].pc = "advanced" /\ tx[t].op \in Ops
  BY DEF Commit, Pending, TxOK
<1>2. /\ Stamped(t) \subseteq Items /\ tx[t].plans \in SUBSET Plans
      /\ Cardinality(Stamped(t)) \in Nat
  BY <1>1, StampedSet
<1>3. tx[t].first = clock.value + 1 /\ clock.value \in Nat
  BY <1>1 DEF TxOK, TypeOK
<1>4. PICK epoch \in Epoch :
         /\ clock' = [epoch |-> epoch, value |-> tx[t].first + Cardinality(Stamped(t)) - 1]
         /\ used' = used \cup {epoch}
  BY DEF Commit, Stamped
<1>5. /\ clock' \in [epoch : Epochs, value : Nat]
      /\ clock'.epoch = epoch
      /\ clock'.value = clock.value + Cardinality(Stamped(t))
      /\ clock.value <= clock'.value
  BY <1>2, <1>3, <1>4, EpochFacts
<1>6. PICK stamp \in Stampings(Stamped(t), tx[t].first) :
         seq' = [x \in Items |-> IF x \in Stamped(t) THEN stamp[x]
                                 ELSE IF x \in Tombs(t) THEN 0 ELSE seq[x]]
  BY DEF Commit, Stamped
<1>7. /\ \A x \in Stamped(t) : stamp[x] \in tx[t].first .. tx[t].first + Cardinality(Stamped(t)) - 1
      /\ \A x, y \in Stamped(t) : stamp[x] = stamp[y] => x = y
  BY DEF Stampings
<1>8. \A x \in Stamped(t) : stamp[x] \in Nat /\ clock.value < stamp[x] /\ stamp[x] <= clock'.value
  BY <1>2, <1>3, <1>5, <1>7
<1>9. seq' \in [Items -> Nat]
  BY <1>6, <1>8 DEF TypeOK
<1>10. /\ \A x \in Stamped(t) : clock.value < seq'[x] /\ seq'[x] <= clock'.value
       /\ \A x, y \in Stamped(t) : seq'[x] = seq'[y] => x = y
       /\ \A x \in Items \ Stamped(t) : seq'[x] = IF x \in Tombs(t) THEN 0 ELSE seq[x]
  BY <1>2, <1>6, <1>7, <1>8
<1>11. /\ clock'.epoch # NoEpoch
       /\ clock.epoch # NoEpoch => clock'.epoch = clock.epoch
       /\ clock.epoch = NoEpoch => clock'.epoch \notin used
       /\ used' = used \cup {clock'.epoch}
  BY <1>4, <1>5, EpochFacts
<1>12. /\ state' = [p \in Plans |-> IF p \in tx[t].plans THEN To(tx[t].op, state[p]) ELSE state[p]]
       /\ data' = [x \in Items |->
             IF tx[t].op = "purge" /\ PlanOf(x) \in tx[t].plans THEN 0
             ELSE IF x \in Stamped(t) THEN data[x] + 1 ELSE data[x]]
       /\ tx' = [tx EXCEPT ![t] = IdleTx]
       /\ UNCHANGED <<cursor, todo, copy, poll>>
  BY DEF Commit, Stamped, client
<1> QED
  BY <1>1, <1>2, <1>5, <1>9, <1>10, <1>11, <1>12 DEF Committed

\* A plan that was removed is written by nobody, and its rows stay as they are.
LEMMA RemovedStays ==
    ASSUME TypeOK, TxOK, NEW t \in Txs, Pending(t), Committed(t), NEW p \in Plans
    PROVE  /\ state[p] = "removed" => p \notin tx[t].plans /\ state'[p] = "removed"
           /\ state'[p] = "removed" =>
                 \/ state[p] = "removed" /\ p \notin tx[t].plans
                 \/ tx[t].op = "purge" /\ p \in tx[t].plans
           /\ tx[t].op = "purge" /\ p \in tx[t].plans => state'[p] = "removed"
<1>1. \A o \in tx[t].plans : state[o] \in From(tx[t].op)
  BY DEF TxOK
<1>2. /\ tx[t].op \in Ops
      /\ state'[p] = IF p \in tx[t].plans THEN To(tx[t].op, state[p]) ELSE state[p]
  BY DEF Committed
<1>3. "removed" \notin From(tx[t].op)
      /\ \A was \in From(tx[t].op) : To(tx[t].op, was) = "removed" <=> tx[t].op = "purge"
  BY <1>2, OpFacts
<1> QED
  BY <1>1, <1>2, <1>3

-----------------------------------------------------------------------------
(* What a poll does. *)

PollRecord == [pc : {"idle", "asked", "answered"}, epoch : Epochs \cup {NoEpoch},
               seq : Nat, answer : Answers]

\* Only one desktop's poll moves.
PollMoves(d) ==
    /\ poll' \in [Desktops -> PollRecord]
    /\ \A o \in Desktops : o # d => poll'[o] = poll[o]

Clocked(d) ==
    /\ clock' \in [epoch : Epochs, value : Nat]
    /\ clock'.value = clock.value
    /\ clock'.epoch # NoEpoch
    /\ clock.epoch # NoEpoch => clock'.epoch = clock.epoch
    /\ clock.epoch = NoEpoch => clock'.epoch \notin used
    /\ used' = used \cup {clock'.epoch}
    /\ PollMoves(d)
    /\ poll'[d].pc = "asked" /\ poll'[d].epoch = clock'.epoch /\ poll'[d].seq = clock.value
    /\ ~poll'[d].answer.reset
    /\ UNCHANGED <<state, data, seq, tx, cursor, todo, copy>>

LEMMA IdleRecords ==
    /\ NoAnswer \in Answers
    /\ IdlePoll \in PollRecord /\ IdlePoll.pc = "idle" /\ ~IdlePoll.answer.reset
BY DEF NoAnswer, Answers, IdlePoll, PollRecord

LEMMA ClockEffect ==
    ASSUME TypeOK, EpochsUsed, NEW d \in Desktops, Clock(d)
    PROVE  Clocked(d)
<1>1. PICK epoch \in Epoch :
         /\ clock' = [clock EXCEPT !.epoch = epoch]
         /\ used' = used \cup {epoch}
         /\ poll' = [poll EXCEPT ![d] = [IdlePoll EXCEPT !.pc = "asked", !.epoch = epoch,
                                                        !.seq = clock.value]]
  BY DEF Clock
<1>2. epoch \in Epochs /\ epoch # NoEpoch
  BY EpochFacts
<1>3. clock \in [epoch : Epochs \cup {NoEpoch}, value : Nat]
  BY DEF TypeOK
<1>4. /\ clock' \in [epoch : Epochs, value : Nat]
      /\ clock'.epoch = epoch /\ clock'.value = clock.value
  BY <1>1, <1>2, <1>3
<1> DEFINE asked == [IdlePoll EXCEPT !.pc = "asked", !.epoch = epoch, !.seq = clock.value]
<1>5. /\ asked \in PollRecord
      /\ asked.pc = "asked" /\ asked.epoch = epoch /\ asked.seq = clock.value
      /\ ~asked.answer.reset
  BY <1>2, <1>3, IdleRecords DEF IdlePoll, PollRecord, NoAnswer
<1>6. poll \in [Desktops -> PollRecord] /\ poll' = [poll EXCEPT ![d] = asked]
  BY <1>1 DEF TypeOK, PollRecord
<1> HIDE DEF asked
<1>7. PollMoves(d) /\ poll'[d] = asked
  BY <1>5, <1>6 DEF PollMoves
<1>8. /\ clock'.epoch # NoEpoch
      /\ clock.epoch # NoEpoch => clock'.epoch = clock.epoch
      /\ clock.epoch = NoEpoch => clock'.epoch \notin used
      /\ used' = used \cup {clock'.epoch}
  BY <1>1, <1>4, EpochFacts
<1>9. UNCHANGED <<state, data, seq, tx, cursor, todo, copy>>
  BY DEF Clock, client
<1> QED
  BY <1>4, <1>5, <1>7, <1>8, <1>9 DEF Clocked

\* A page ends at one of its rows, and every row after it is past that one.
LEMMA PageEnd ==
    ASSUME TypeOK, NEW since \in Nat, NEW l \in Listed(since),
           NEW x \in After(since) \ Listed(since)
    PROVE  seq[x] > seq[l]
<1> DEFINE before(y) == {z \in After(since) : seq[z] < seq[y]}
<1>1. /\ After(since) \in SUBSET Items /\ Listed(since) \in SUBSET After(since)
      /\ \A y \in Items : seq[y] \in Nat
  BY DEF After, Listed, TypeOK
<1>2. x \in Items /\ l \in Items /\ l \in After(since) /\ x \in After(since)
  BY <1>1
<1>3. \A y \in Items : before(y) \in SUBSET Items
  BY <1>1
<1>4. IsFiniteSet(before(l)) /\ IsFiniteSet(before(x))
  BY <1>2, <1>3, ItemsFinite, FS_Subset
<1>5. Cardinality(before(l)) \in Nat /\ Cardinality(before(x)) \in Nat
  BY <1>4, FS_CardinalityType
<1>6. Cardinality(before(l)) < Page /\ ~(Cardinality(before(x)) < Page)
  BY <1>2 DEF Listed
<1>7. CASE ~(seq[x] > seq[l])
  <2>1. seq[x] <= seq[l] /\ seq[x] \in Nat /\ seq[l] \in Nat
    BY <1>1, <1>2, <1>7
  <2>2. \A z \in After(since) : seq[z] < seq[x] => seq[z] < seq[l]
    BY <1>1, <2>1
  <2>3. before(x) \in SUBSET before(l)
    BY <2>2
  <2> HIDE DEF before
  <2>4. Cardinality(before(x)) <= Cardinality(before(l))
    BY <1>4, <2>3, FS_Subset
  <2>5. Page \in Nat
    BY FeedAssumption
  <2> QED
    BY <1>5, <1>6, <2>4, <2>5
<1> QED
  BY <1>7

LEMMA NextPointIs ==
    ASSUME TypeOK, NEW d \in Desktops
    PROVE  \/ Listed(cursor[d].seq) = {} /\ NextPoint(d) = cursor[d].seq
           \/ \E l \in Listed(cursor[d].seq) : NextPoint(d) = seq[l]
<1> DEFINE listed == Listed(cursor[d].seq)
           last == {seq[x] : x \in listed}
<1>1. listed \in SUBSET Items
  BY DEF Listed, After
<1>2. CASE last = {}
  BY <1>2 DEF NextPoint
<1>3. CASE last # {}
  <2>1. IsFiniteSet(listed)
    BY <1>1, ItemsFinite, FS_Subset
  <2>2. last \in SUBSET Nat
    BY <1>1 DEF TypeOK
  <2> HIDE DEF listed
  <2>3. IsFiniteSet(last)
    <3>1. [x \in listed |-> seq[x]] \in Surjection(listed, last)
      BY DEF Surjection
    <3> QED
      BY <2>1, <3>1, FS_Surjection
  <2>4. \E m \in last : \A o \in last : o <= m
    <3> HIDE DEF last
    <3> QED
      BY <1>3, <2>2, <2>3, Greatest
  <2>5. NextPoint(d) = CHOOSE m \in last : \A o \in last : o <= m
    BY <1>3 DEF NextPoint, listed
  <2>6. NextPoint(d) \in last
    BY <2>4, <2>5
  <2>7. PICK l \in listed : NextPoint(d) = seq[l]
    BY <2>6
  <2> QED
    BY <2>7 DEF listed
<1> QED
  BY <1>2, <1>3

\* What an answer says of the rows after the desktop's point.
Complete(d, point, answer) ==
    /\ answer \in Answers /\ point \in Nat
    /\ answer.reset => answer.gone = {} /\ point = poll[d].seq
    /\ ~answer.reset =>
          /\ cursor[d].epoch = poll[d].epoch
          /\ \A x \in Items : seq[x] > cursor[d].seq => x \in answer.items \/ seq[x] > point
          /\ \A x \in answer.items : x \in Items /\ seq[x] > cursor[d].seq
          /\ answer.gone = {p \in Plans : state[p] = "removed" /\ \E x \in answer.items : PlanOf(x) = p}
          /\ point = cursor[d].seq \/ \E x \in Items : point = seq[x]

LEMMA ChangesEffect ==
    ASSUME TypeOK, NEW d \in Desktops, Changes(d)
    PROVE  \E point, answer :
              /\ Complete(d, point, answer)
              /\ PollMoves(d)
              /\ poll'[d] = [pc |-> "answered", epoch |-> poll[d].epoch,
                             seq |-> point, answer |-> answer]
<1> DEFINE since == cursor[d].seq
           listed == Listed(since)
           page == [reset |-> FALSE, items |-> listed,
                    gone |-> {p \in Plans : state[p] = "removed" /\ \E x \in listed : PlanOf(x) = p}]
           again == [NoAnswer EXCEPT !.reset = TRUE]
<1>1. /\ cursor[d].seq \in Nat /\ poll[d] \in PollRecord /\ poll[d].seq \in Nat
      /\ poll[d].epoch \in Epochs \cup {NoEpoch}
      /\ poll \in [Desktops -> PollRecord]
      /\ \A x \in Items : seq[x] \in Nat
  BY DEF TypeOK, PollRecord
<1>2. ASSUME NEW point, NEW answer, Complete(d, point, answer), Answer(d, point, answer)
      PROVE  /\ PollMoves(d)
             /\ poll'[d] = [pc |-> "answered", epoch |-> poll[d].epoch,
                            seq |-> point, answer |-> answer]
  <2> DEFINE new == [pc |-> "answered", epoch |-> poll[d].epoch, seq |-> point, answer |-> answer]
  <2>1. new \in PollRecord
    BY <1>1, <1>2 DEF Complete, PollRecord
  <2>2. poll' = [poll EXCEPT ![d] = new]
    BY <1>2 DEF Answer
  <2> HIDE DEF new
  <2>3. PollMoves(d) /\ poll'[d] = new
    BY <1>1, <2>1, <2>2 DEF PollMoves
  <2> QED
    BY <2>3 DEF new
<1>3. CASE cursor[d].epoch # poll[d].epoch \/ cursor[d].seq > poll[d].seq
  <2>1. Answer(d, poll[d].seq, again)
    BY <1>3 DEF Changes
  <2>2. again \in Answers /\ again.reset /\ again.gone = {}
    BY DEF NoAnswer, Answers
  <2> HIDE DEF again
  <2>3. Complete(d, poll[d].seq, again)
    BY <1>1, <2>2 DEF Complete
  <2> QED
    BY <1>2, <2>1, <2>3
<1>4. CASE cursor[d].epoch = poll[d].epoch /\ ~(cursor[d].seq > poll[d].seq)
           /\ cursor[d].seq = poll[d].seq
  <2>1. Answer(d, cursor[d].seq, NoAnswer)
    BY <1>4 DEF Changes
  <2>2. NoAnswer \in Answers /\ ~NoAnswer.reset /\ NoAnswer.items = {} /\ NoAnswer.gone = {}
    BY DEF NoAnswer, Answers
  <2>3. Complete(d, cursor[d].seq, NoAnswer)
    BY <1>1, <1>4, <2>2 DEF Complete
  <2> QED
    BY <1>2, <2>1, <2>3
<1>5. CASE cursor[d].epoch = poll[d].epoch /\ ~(cursor[d].seq > poll[d].seq)
           /\ cursor[d].seq # poll[d].seq
  <2>1. Answer(d, NextPoint(d), page)
    BY <1>5 DEF Changes
  <2>2. listed \in SUBSET Items /\ \A x \in listed : seq[x] > since
    BY DEF Listed, After
  <2>3. /\ page \in Answers /\ ~page.reset /\ page.items = listed
        /\ page.gone = {p \in Plans : state[p] = "removed" /\ \E x \in page.items : PlanOf(x) = p}
    <3> HIDE DEF listed
    <3> QED
      BY <2>2 DEF Answers
  <2>4. NextPoint(d) = since \/ \E x \in Items : NextPoint(d) = seq[x]
    BY <2>2, NextPointIs
  <2>5. NextPoint(d) \in Nat
    BY <1>1, <2>4
  <2>6. ASSUME NEW x \in Items, seq[x] > since, x \notin listed
        PROVE  seq[x] > NextPoint(d)
    <3>1. x \in After(since) \ Listed(since)
      BY <2>6 DEF After
    <3>2. \A l \in Listed(since) : seq[x] > seq[l]
      BY <1>1, <3>1, PageEnd
    <3> QED
      BY <2>6, <3>2, NextPointIs
  <2> HIDE DEF page, listed
  <2>7. Complete(d, NextPoint(d), page)
    BY <1>5, <2>2, <2>3, <2>4, <2>5, <2>6 DEF Complete
  <2> QED
    BY <1>2, <2>1, <2>7
<1> QED
  BY <1>3, <1>4, <1>5

-----------------------------------------------------------------------------
(* Types. *)

TxRecord == [pc : {"idle", "written", "advanced"}, op : Ops \cup {"none"},
             plans : SUBSET Plans, first : Nat]
CursorRecord == [epoch : Epochs \cup {NoEpoch}, seq : Nat]

LEMMA TypeInit == Init => TypeOK
<1> SUFFICES ASSUME Init PROVE TypeOK
  OBVIOUS
<1>1. IdleTx \in TxRecord
  BY DEF IdleTx, TxRecord
<1>2. [epoch |-> NoEpoch, seq |-> 0] \in CursorRecord
  BY DEF CursorRecord
<1>3. tx \in [Txs -> TxRecord] /\ cursor \in [Desktops -> CursorRecord]
  BY <1>1, <1>2 DEF Init
<1>4. poll \in [Desktops -> PollRecord]
  BY IdleRecords DEF Init
<1>5. clock \in [epoch : Epochs \cup {NoEpoch}, value : Nat] /\ used \subseteq Epochs
  BY DEF Init
<1>6. /\ state \in [Plans -> {"none", "live", "trash", "removed"}]
      /\ data \in [Items -> Nat] /\ seq \in [Items -> Nat]
  BY DEF Init
<1>7. todo \in [Desktops -> SUBSET Items] /\ copy \in [Desktops -> [Items -> Nat]]
  BY <1>6 DEF Init
<1> QED
  BY <1>3, <1>4, <1>5, <1>6, <1>7 DEF TypeOK, TxRecord, CursorRecord, PollRecord

\* What each step does to the record of one transaction.
LEMMA TxTypes ==
    ASSUME TypeOK, NEW t \in Txs, NEW new \in TxRecord, tx' = [tx EXCEPT ![t] = new]
    PROVE  /\ tx' \in [Txs -> TxRecord] /\ tx'[t] = new
           /\ \A o \in Txs : o # t => tx'[o] = tx[o]
<1>1. tx \in [Txs -> TxRecord]
  BY DEF TypeOK, TxRecord
<1> QED
  BY <1>1

LEMMA IdleEffect ==
    ASSUME TypeOK, NEW t \in Txs, tx' = [tx EXCEPT ![t] = IdleTx]
    PROVE  /\ tx' \in [Txs -> TxRecord] /\ tx'[t].pc = "idle"
           /\ \A o \in Txs : o # t => tx'[o] = tx[o]
<1>1. IdleTx \in TxRecord /\ IdleTx.pc = "idle"
  BY DEF IdleTx, TxRecord
<1> QED
  BY <1>1, TxTypes

LEMMA WriteEffect ==
    ASSUME TypeOK, NEW t \in Txs, NEW op \in Ops, NEW ps \in SUBSET Plans, Write(t, op, ps)
    PROVE  /\ tx' \in [Txs -> TxRecord]
           /\ tx'[t].pc = "written" /\ tx'[t].op = op /\ tx'[t].plans = ps
           /\ \A o \in Txs : o # t => tx'[o] = tx[o]
           /\ UNCHANGED <<server, client, poll>>
<1> DEFINE new == [pc |-> "written", op |-> op, plans |-> ps, first |-> 0]
<1>1. new \in TxRecord /\ new.pc = "written" /\ new.op = op /\ new.plans = ps
  BY DEF TxRecord
<1>2. tx' = [tx EXCEPT ![t] = new] /\ UNCHANGED <<server, client, poll>>
  BY DEF Write
<1> HIDE DEF new
<1> QED
  BY <1>1, <1>2, TxTypes

LEMMA AdvanceEffect ==
    ASSUME TypeOK, NEW t \in Txs, Advance(t)
    PROVE  /\ tx' \in [Txs -> TxRecord]
           /\ tx[t].pc = "written" /\ tx'[t].pc = "advanced"
           /\ tx'[t].op = tx[t].op /\ tx'[t].plans = tx[t].plans
           /\ tx'[t].first = clock.value + 1
           /\ \A o \in Txs : o # t => tx'[o] = tx[o]
           /\ UNCHANGED <<server, client, poll>>
<1>1. tx \in [Txs -> TxRecord] /\ tx[t] \in TxRecord /\ clock.value + 1 \in Nat
  BY DEF TypeOK, TxRecord
<1> DEFINE new == [tx[t] EXCEPT !.pc = "advanced", !.first = clock.value + 1]
<1>2. /\ new \in TxRecord /\ new.pc = "advanced" /\ new.op = tx[t].op
      /\ new.plans = tx[t].plans /\ new.first = clock.value + 1
  BY <1>1 DEF TxRecord
<1>3. tx' = [tx EXCEPT ![t] = new]
  BY <1>1 DEF Advance
<1> HIDE DEF new
<1>4. tx[t].pc = "written" /\ UNCHANGED <<server, client, poll>>
  BY DEF Advance
<1> QED
  BY <1>2, <1>3, <1>4, TxTypes

\* What a desktop's step does.
LEMMA ReceiveEffect ==
    ASSUME TypeOK, NEW d \in Desktops, Receive(d)
    PROVE  /\ PollMoves(d) /\ poll'[d] = IdlePoll
           /\ cursor' \in [Desktops -> CursorRecord]
           /\ cursor'[d].epoch = poll[d].epoch /\ cursor'[d].seq = poll[d].seq
           /\ todo' \in [Desktops -> SUBSET Items]
           /\ todo'[d] = IF poll[d].answer.reset THEN Items
                         ELSE (todo[d] \cup poll[d].answer.items) \ ItemsOf(poll[d].answer.gone)
           /\ copy' \in [Desktops -> [Items -> Nat]]
           /\ copy'[d] = [x \in Items |-> IF x \in ItemsOf(poll[d].answer.gone) THEN 0 ELSE copy[d][x]]
           /\ \A o \in Desktops : o # d =>
                 cursor'[o] = cursor[o] /\ todo'[o] = todo[o] /\ copy'[o] = copy[o]
           /\ UNCHANGED <<server, tx>>
<1>1. /\ poll \in [Desktops -> PollRecord] /\ cursor \in [Desktops -> CursorRecord]
      /\ todo \in [Desktops -> SUBSET Items] /\ copy \in [Desktops -> [Items -> Nat]]
  BY DEF TypeOK, PollRecord, CursorRecord
<1>2. poll[d] \in PollRecord /\ todo[d] \in SUBSET Items /\ copy[d] \in [Items -> Nat]
  BY <1>1
<1>3. poll[d].epoch \in Epochs \cup {NoEpoch} /\ poll[d].seq \in Nat
      /\ poll[d].answer.items \in SUBSET Items
  BY <1>2 DEF PollRecord, Answers
<1> DEFINE forgotten == ItemsOf(poll[d].answer.gone)
           point == [epoch |-> poll[d].epoch, seq |-> poll[d].seq]
           left == IF poll[d].answer.reset THEN Items
                   ELSE (todo[d] \cup poll[d].answer.items) \ forgotten
           held == [x \in Items |-> IF x \in forgotten THEN 0 ELSE copy[d][x]]
<1>4. point \in CursorRecord /\ point.epoch = poll[d].epoch /\ point.seq = poll[d].seq
  BY <1>3 DEF CursorRecord
<1>5. left \in SUBSET Items /\ held \in [Items -> Nat]
  BY <1>2, <1>3
<1>6. /\ cursor' = [cursor EXCEPT ![d] = point] /\ poll' = [poll EXCEPT ![d] = IdlePoll]
      /\ UNCHANGED <<server, tx>>
  BY DEF Receive
<1>7. todo' = [todo EXCEPT ![d] = left] /\ copy' = [copy EXCEPT ![d] = held]
  BY <1>1 DEF Receive
<1> HIDE DEF point, left, held
<1>8. PollMoves(d) /\ poll'[d] = IdlePoll
  BY <1>1, <1>6, IdleRecords DEF PollMoves
<1>9. /\ cursor' \in [Desktops -> CursorRecord] /\ cursor'[d] = point
      /\ \A o \in Desktops : o # d => cursor'[o] = cursor[o]
  BY <1>1, <1>4, <1>6
<1>10. /\ todo' \in [Desktops -> SUBSET Items] /\ todo'[d] = left
       /\ copy' \in [Desktops -> [Items -> Nat]] /\ copy'[d] = held
       /\ \A o \in Desktops : o # d => todo'[o] = todo[o] /\ copy'[o] = copy[o]
  BY <1>1, <1>5, <1>7
<1> QED
  BY <1>4, <1>6, <1>8, <1>9, <1>10 DEF left, held

LEMMA LoseEffect ==
    ASSUME TypeOK, NEW d \in Desktops, Lose(d)
    PROVE  PollMoves(d) /\ poll'[d] = IdlePoll /\ UNCHANGED <<server, tx, client>>
<1>1. poll \in [Desktops -> PollRecord]
  BY DEF TypeOK, PollRecord
<1> QED
  BY <1>1, IdleRecords DEF Lose, PollMoves

LEMMA ReadEffect ==
    ASSUME TypeOK, NEW d \in Desktops, NEW x \in Items, Read(d, x)
    PROVE  /\ todo' \in [Desktops -> SUBSET Items] /\ todo'[d] = todo[d] \ {x}
           /\ copy' \in [Desktops -> [Items -> Nat]] /\ copy'[d] = [copy[d] EXCEPT ![x] = data[x]]
           /\ \A o \in Desktops : o # d => todo'[o] = todo[o] /\ copy'[o] = copy[o]
           /\ UNCHANGED <<server, tx, cursor, poll>>
<1>1. /\ todo \in [Desktops -> SUBSET Items] /\ copy \in [Desktops -> [Items -> Nat]]
      /\ data[x] \in Nat
  BY DEF TypeOK
<1>2. todo[d] \ {x} \in SUBSET Items /\ [copy[d] EXCEPT ![x] = data[x]] \in [Items -> Nat]
  BY <1>1
<1>3. /\ todo' = [todo EXCEPT ![d] = todo[d] \ {x}]
      /\ copy' = [copy EXCEPT ![d] = [copy[d] EXCEPT ![x] = data[x]]]
      /\ UNCHANGED <<server, tx, cursor, poll>>
  BY <1>1 DEF Read
<1> QED
  BY <1>1, <1>2, <1>3

LEMMA RemakeEffect ==
    ASSUME TypeOK, Remake
    PROVE  /\ tx' \in [Txs -> TxRecord] /\ \A t \in Txs : tx'[t].pc = "idle"
           /\ poll' \in [Desktops -> PollRecord]
           /\ \A d \in Desktops :
                 poll'[d] = IdlePoll \/ (poll[d].pc # "asked" /\ poll'[d] = poll[d])
           /\ clock' \in [epoch : Epochs \cup {NoEpoch}, value : Nat]
           /\ clock'.epoch = NoEpoch /\ clock'.value = 0
           /\ state' \in [Plans -> {"none"}] /\ data' \in [Items -> {0}] /\ seq' \in [Items -> {0}]
           /\ UNCHANGED <<used, client>>
<1>1. IdleTx \in TxRecord /\ IdleTx.pc = "idle"
  BY DEF IdleTx, TxRecord
<1>2. poll \in [Desktops -> PollRecord]
  BY DEF TypeOK, PollRecord
<1>3. tx' = [t \in Txs |-> IdleTx]
      /\ poll' = [d \in Desktops |-> IF poll[d].pc = "asked" THEN IdlePoll ELSE poll[d]]
  BY DEF Remake
<1>4. tx' \in [Txs -> TxRecord] /\ \A t \in Txs : tx'[t].pc = "idle"
  BY <1>1, <1>3
<1>5. /\ poll' \in [Desktops -> PollRecord]
      /\ \A d \in Desktops :
            poll'[d] = IdlePoll \/ (poll[d].pc # "asked" /\ poll'[d] = poll[d])
  <2>1. \A d \in Desktops : poll'[d] = IF poll[d].pc = "asked" THEN IdlePoll ELSE poll[d]
    BY <1>3
  <2>2. IdlePoll \in PollRecord /\ \A d \in Desktops : poll[d] \in PollRecord
    BY <1>2, IdleRecords
  <2>3. \A d \in Desktops : (IF poll[d].pc = "asked" THEN IdlePoll ELSE poll[d]) \in PollRecord
    BY ONLY <2>2
  <2>4. poll' \in [Desktops -> PollRecord]
    BY ONLY <1>3, <2>3
  <2>5. ASSUME NEW d \in Desktops
        PROVE  poll'[d] = IdlePoll \/ (poll[d].pc # "asked" /\ poll'[d] = poll[d])
    <3>1. CASE poll[d].pc = "asked"
      BY <2>1, <3>1
    <3>2. CASE poll[d].pc # "asked"
      BY <2>1, <3>2
    <3> QED
      BY ONLY <3>1, <3>2
  <2> QED
    BY ONLY <2>4, <2>5
<1>6. /\ clock' = [epoch |-> NoEpoch, value |-> 0]
      /\ state' \in [Plans -> {"none"}] /\ data' \in [Items -> {0}] /\ seq' \in [Items -> {0}]
      /\ UNCHANGED <<used, client>>
  BY DEF Remake
<1> QED
  BY <1>4, <1>5, <1>6

\* The parts of TypeOK, with the records named.
LEMMA TypeParts ==
    /\ TypeOK <=>
          /\ state \in [Plans -> {"none", "live", "trash", "removed"}]
          /\ data \in [Items -> Nat] /\ seq \in [Items -> Nat]
          /\ clock \in [epoch : Epochs \cup {NoEpoch}, value : Nat] /\ used \subseteq Epochs
          /\ tx \in [Txs -> TxRecord] /\ cursor \in [Desktops -> CursorRecord]
          /\ poll \in [Desktops -> PollRecord]
          /\ todo \in [Desktops -> SUBSET Items] /\ copy \in [Desktops -> [Items -> Nat]]
    /\ TypeOK' <=>
          /\ state' \in [Plans -> {"none", "live", "trash", "removed"}]
          /\ data' \in [Items -> Nat] /\ seq' \in [Items -> Nat]
          /\ clock' \in [epoch : Epochs \cup {NoEpoch}, value : Nat] /\ used' \subseteq Epochs
          /\ tx' \in [Txs -> TxRecord] /\ cursor' \in [Desktops -> CursorRecord]
          /\ poll' \in [Desktops -> PollRecord]
          /\ todo' \in [Desktops -> SUBSET Items] /\ copy' \in [Desktops -> [Items -> Nat]]
BY DEF TypeOK, TxRecord, CursorRecord, PollRecord

LEMMA CommitTypes ==
    ASSUME TypeOK, TxOK, EpochsUsed, NEW t \in Txs, Commit(t)
    PROVE  TypeOK'
<1>1. Committed(t)
  BY CommitEffect
<1>2. tx[t].op \in Ops /\ tx[t].plans \in SUBSET Plans /\ Pending(t)
  BY <1>1 DEF Committed, Commit, Pending
<1>3. \A p \in tx[t].plans : To(tx[t].op, state[p]) \in {"none", "live", "trash", "removed"}
  BY <1>2, OpFacts DEF TxOK
<1>4. state' \in [Plans -> {"none", "live", "trash", "removed"}]
  <2>1. state' = [p \in Plans |-> IF p \in tx[t].plans THEN To(tx[t].op, state[p]) ELSE state[p]]
    BY <1>1 DEF Committed
  <2>2. \A p \in Plans : state[p] \in {"none", "live", "trash", "removed"}
    BY TypeParts
  <2> QED
    BY <1>3, <2>1, <2>2
<1>5. data' \in [Items -> Nat]
  <2>1. \A x \in Items : data[x] \in Nat /\ data[x] + 1 \in Nat
    BY TypeParts
  <2> QED
    BY <1>1, <2>1 DEF Committed
<1>6. tx' \in [Txs -> TxRecord]
  BY <1>1, IdleEffect DEF Committed
<1>7. /\ clock' \in [epoch : Epochs \cup {NoEpoch}, value : Nat] /\ used' \subseteq Epochs
      /\ seq' \in [Items -> Nat]
      /\ UNCHANGED <<cursor, todo, copy, poll>>
  BY <1>1, TypeParts DEF Committed
<1> QED
  BY <1>4, <1>5, <1>6, <1>7, TypeParts

LEMMA TypeStep ==
    ASSUME TypeOK, TxOK, EpochsUsed, [Next]_vars
    PROVE  TypeOK'
<1>1. ASSUME NEW t \in Txs, NEW op \in Ops, NEW ps \in SUBSET Plans, Write(t, op, ps)
      PROVE  TypeOK'
  BY <1>1, WriteEffect, TypeParts DEF server, client
<1>2. ASSUME NEW t \in Txs, Advance(t) PROVE TypeOK'
  BY <1>2, AdvanceEffect, TypeParts DEF server, client
<1>3. ASSUME NEW t \in Txs, Commit(t) PROVE TypeOK'
  BY <1>3, CommitTypes
<1>4. ASSUME NEW t \in Txs, Rollback(t) PROVE TypeOK'
  <2>1. tx' \in [Txs -> TxRecord] /\ UNCHANGED <<server, client, poll>>
    BY <1>4, IdleEffect DEF Rollback
  <2> QED
    BY <2>1, TypeParts DEF server, client
<1>5. CASE Remake
  <2>1. /\ tx' \in [Txs -> TxRecord] /\ poll' \in [Desktops -> PollRecord]
        /\ clock' \in [epoch : Epochs \cup {NoEpoch}, value : Nat]
        /\ UNCHANGED <<used, client>>
    BY <1>5, RemakeEffect
  <2>2. /\ state' \in [Plans -> {"none", "live", "trash", "removed"}]
        /\ data' \in [Items -> Nat] /\ seq' \in [Items -> Nat]
    BY <1>5, RemakeEffect
  <2> QED
    BY <2>1, <2>2, TypeParts DEF client
<1>6. ASSUME NEW d \in Desktops, Clock(d) PROVE TypeOK'
  <2>1. Clocked(d)
    BY <1>6, ClockEffect
  <2>2. /\ clock' \in [epoch : Epochs \cup {NoEpoch}, value : Nat] /\ used' \subseteq Epochs
        /\ poll' \in [Desktops -> PollRecord]
        /\ UNCHANGED <<state, data, seq, tx, cursor, todo, copy>>
    BY <2>1, TypeParts DEF Clocked, PollMoves
  <2> QED
    BY <2>2, TypeParts
<1>7. ASSUME NEW d \in Desktops, Changes(d) PROVE TypeOK'
  <2>1. poll' \in [Desktops -> PollRecord] /\ UNCHANGED <<server, tx, client>>
    BY <1>7, ChangesEffect DEF PollMoves, Changes
  <2> QED
    BY <2>1, TypeParts DEF server, client
<1>8. ASSUME NEW d \in Desktops, Receive(d) PROVE TypeOK'
  <2>1. /\ poll' \in [Desktops -> PollRecord] /\ UNCHANGED <<server, tx>>
        /\ cursor' \in [Desktops -> CursorRecord] /\ todo' \in [Desktops -> SUBSET Items]
        /\ copy' \in [Desktops -> [Items -> Nat]]
    BY <1>8, ReceiveEffect DEF PollMoves
  <2> QED
    BY <2>1, TypeParts DEF server
<1>9. ASSUME NEW d \in Desktops, Lose(d) PROVE TypeOK'
  BY <1>9, LoseEffect, TypeParts DEF server, client, PollMoves
<1>10. ASSUME NEW d \in Desktops, NEW x \in Items, Read(d, x) PROVE TypeOK'
  BY <1>10, ReadEffect, TypeParts DEF server
<1>11. CASE UNCHANGED vars
  BY <1>11, TypeParts DEF vars
<1> QED
  BY <1>1, <1>2, <1>3, <1>4, <1>5, <1>6, <1>7, <1>8, <1>9, <1>10, <1>11 DEF Next, TxStep

-----------------------------------------------------------------------------
(* Transactions keep out of each other's way. *)

LEMMA WaitsSymmetric ==
    ASSUME NEW t \in Txs, NEW o \in Txs
    PROVE  Waits(tx[t].op, tx[o]) <=> Waits(tx[o].op, tx[t])
BY DEF Waits

\* What is left of the others when one transaction ends or the database does.
LEMMA TxOver ==
    ASSUME TypeOK, TxOK, TxAlone, NEW t \in Txs, tx' = [tx EXCEPT ![t] = IdleTx]
    PROVE  TxAlone'
<1>1. tx'[t].pc = "idle" /\ \A o \in Txs : o # t => tx'[o] = tx[o]
  BY IdleEffect
<1> SUFFICES ASSUME NEW a \in Txs, NEW b \in Txs, a # b
             PROVE  /\ ~(tx'[a].pc = "advanced" /\ tx'[b].pc = "advanced")
                    /\ Pending(a)' /\ Pending(b)' /\ tx'[a].plans \cap tx'[b].plans # {} =>
                          ~Waits(tx'[a].op, tx'[b])
  BY DEF TxAlone, Waits
<1>2. CASE a = t \/ b = t
  BY <1>1, <1>2 DEF Pending
<1>3. CASE a # t /\ b # t
  <2>1. tx'[a] = tx[a] /\ tx'[b] = tx[b]
    BY <1>1, <1>3
  <2> QED
    BY <2>1 DEF Pending, TxAlone
<1> QED
  BY <1>2, <1>3

LEMMA TxAloneStep ==
    ASSUME TypeOK, TxOK, TxAlone, EpochsUsed, [Next]_vars
    PROVE  TxAlone'
<1>1. ASSUME NEW t \in Txs, NEW op \in Ops, NEW ps \in SUBSET Plans, Write(t, op, ps)
      PROVE  TxAlone'
  <2>1. /\ tx'[t].pc = "written" /\ tx'[t].op = op /\ tx'[t].plans = ps
        /\ \A o \in Txs : o # t => tx'[o] = tx[o]
    BY <1>1, WriteEffect
  <2>2. \A o \in Txs : Pending(o) /\ tx[o].plans \cap ps # {} => ~Waits(op, tx[o])
    BY <1>1 DEF Write, Pending
  <2> SUFFICES ASSUME NEW a \in Txs, NEW b \in Txs, a # b
               PROVE  /\ ~(tx'[a].pc = "advanced" /\ tx'[b].pc = "advanced")
                      /\ Pending(a)' /\ Pending(b)' /\ tx'[a].plans \cap tx'[b].plans # {} =>
                            ~Waits(tx'[a].op, tx'[b])
    BY DEF TxAlone, Waits
  <2>3. CASE a = t
    <3>1. tx'[b] = tx[b]
      BY <2>1, <2>3
    <3> QED
      BY <2>1, <2>2, <2>3, <3>1 DEF Pending
  <2>4. CASE b = t
    <3>1. tx'[a] = tx[a]
      BY <2>1, <2>4
    <3>2. Pending(a) /\ tx[a].plans \cap ps # {} => ~Waits(op, tx[a])
      BY <2>2
    <3> QED
      BY <2>1, <2>4, <3>1, <3>2 DEF Pending, Waits
  <2>5. CASE a # t /\ b # t
    <3>1. tx'[a] = tx[a] /\ tx'[b] = tx[b]
      BY <2>1, <2>5
    <3> QED
      BY <3>1 DEF Pending, TxAlone
  <2> QED
    BY <2>3, <2>4, <2>5
<1>2. ASSUME NEW t \in Txs, Advance(t) PROVE TxAlone'
  <2>1. /\ tx[t].pc = "written" /\ tx'[t].pc = "advanced"
        /\ tx'[t].op = tx[t].op /\ tx'[t].plans = tx[t].plans
        /\ \A o \in Txs : o # t => tx'[o] = tx[o]
    BY <1>2, AdvanceEffect
  <2>2. \A o \in Txs : tx[o].pc # "advanced"
    BY <1>2 DEF Advance, ClockFree
  <2>3. \A o \in Txs : /\ tx'[o].op = tx[o].op /\ tx'[o].plans = tx[o].plans
                       /\ Pending(o)' <=> Pending(o)
                       /\ tx'[o].pc = "advanced" <=> o = t
    BY <2>1, <2>2 DEF Pending
  <2> QED
    BY <2>3 DEF TxAlone, Waits
<1>3. ASSUME NEW t \in Txs, Commit(t) PROVE TxAlone'
  BY <1>3, TxOver DEF Commit
<1>4. ASSUME NEW t \in Txs, Rollback(t) PROVE TxAlone'
  BY <1>4, TxOver DEF Rollback
<1>5. CASE Remake
  <2>1. \A t \in Txs : tx'[t].pc = "idle"
    BY <1>5, RemakeEffect
  <2> QED
    BY <2>1 DEF TxAlone, Pending
<1>6. CASE tx' = tx
  BY <1>6 DEF TxAlone, Pending, Waits
<1> QED
  BY <1>1, <1>2, <1>3, <1>4, <1>5, <1>6
  DEF Next, TxStep, Clock, Changes, Receive, Lose, Read, vars

\* A commit leaves a plan that another transaction writes as that one needs it.
LEMMA CommitLeaves ==
    ASSUME TypeOK, TxOK, TxAlone, NEW t \in Txs, NEW o \in Txs, t # o, Pending(t), Pending(o),
           Committed(t), NEW p \in tx[o].plans
    PROVE  state'[p] \in From(tx[o].op)
<1>1. /\ state' = [q \in Plans |-> IF q \in tx[t].plans THEN To(tx[t].op, state[q]) ELSE state[q]]
      /\ tx[t].op \in Ops /\ tx[o].op \in Ops /\ p \in Plans
  BY DEF Committed, TxOK, TypeOK
<1>2. state[p] \in From(tx[o].op) /\ (p \in tx[t].plans => state[p] \in From(tx[t].op))
  BY DEF TxOK
<1>3. CASE p \notin tx[t].plans
  BY <1>1, <1>2, <1>3
<1>4. CASE p \in tx[t].plans
  <2>1. ~Waits(tx[t].op, tx[o])
    BY <1>4 DEF TxAlone
  <2>2. CASE ~LocksPlan(tx[t].op)
    <3>1. To(tx[t].op, state[p]) = state[p]
      BY <1>1, <2>2, OpFacts
    <3> QED
      BY <1>1, <1>2, <1>4, <3>1
  <2>3. CASE LocksPlan(tx[t].op)
    <3>1. ~LocksPlan(tx[o].op) /\ tx[t].op # "purge"
      BY <2>1, <2>3 DEF Waits
    <3>2. From(tx[o].op) = {"live", "trash"}
      BY <1>1, <3>1, OpFacts
    <3>3. state[p] \in {"live", "trash"} \cap From(tx[t].op)
      BY <1>2, <1>4, <3>2
    <3>4. To(tx[t].op, state[p]) \in {"live", "trash"}
      BY <1>1, <2>3, <3>1, <3>3, OpFacts
    <3> QED
      BY <1>1, <1>4, <3>2, <3>4
  <2> QED
    BY <2>2, <2>3
<1> QED
  BY <1>3, <1>4

LEMMA TxOKStep ==
    ASSUME TypeOK, TxOK, TxAlone, EpochsUsed, [Next]_vars
    PROVE  TxOK'
<1>1. ASSUME NEW t \in Txs, NEW op \in Ops, NEW ps \in SUBSET Plans, Write(t, op, ps)
      PROVE  TxOK'
  <2>1. /\ tx'[t].pc = "written" /\ tx'[t].op = op /\ tx'[t].plans = ps
        /\ \A o \in Txs : o # t => tx'[o] = tx[o]
        /\ state' = state /\ clock' = clock
    BY <1>1, WriteEffect DEF server
  <2>2. \A p \in ps : state[p] \in From(op)
    BY <1>1 DEF Write
  <2> QED
    BY <2>1, <2>2 DEF TxOK, Pending
<1>2. ASSUME NEW t \in Txs, Advance(t) PROVE TxOK'
  <2>1. /\ tx[t].pc = "written" /\ tx'[t].pc = "advanced"
        /\ tx'[t].op = tx[t].op /\ tx'[t].plans = tx[t].plans
        /\ tx'[t].first = clock.value + 1
        /\ \A o \in Txs : o # t => tx'[o] = tx[o]
        /\ state' = state /\ clock' = clock
    BY <1>2, AdvanceEffect DEF server
  <2> QED
    BY <2>1 DEF TxOK, Pending
<1>3. ASSUME NEW t \in Txs, Commit(t) PROVE TxOK'
  <2>1. Committed(t) /\ Pending(t) /\ tx[t].pc = "advanced"
    BY <1>3, CommitEffect DEF Commit, Pending
  <2>2. tx'[t].pc = "idle" /\ \A o \in Txs : o # t => tx'[o] = tx[o]
    BY <1>3, IdleEffect DEF Commit
  <2>3. \A o \in Txs : o # t => tx[o].pc # "advanced"
    BY <2>1 DEF TxAlone
  <2>4. \A o \in Txs : o # t /\ Pending(o) => \A p \in tx[o].plans : state'[p] \in From(tx[o].op)
    BY <2>1, CommitLeaves
  <2>5. ASSUME NEW o \in Txs
        PROVE  /\ Pending(o)' => tx'[o].op \in Ops
               /\ Pending(o)' => \A p \in tx'[o].plans : state'[p] \in From(tx'[o].op)
               /\ tx'[o].pc = "advanced" => tx'[o].first = clock'.value + 1
    <3>1. CASE o = t
      BY <2>2, <3>1 DEF Pending
    <3>2. CASE o # t
      <4>1. tx'[o] = tx[o] /\ tx[o].pc # "advanced"
        BY <2>2, <2>3, <3>2
      <4> QED
        BY <2>4, <3>2, <4>1 DEF Pending, TxOK
    <3> QED
      BY <3>1, <3>2
  <2> QED
    BY <2>5 DEF TxOK, Pending
<1>4. ASSUME NEW t \in Txs, Rollback(t) PROVE TxOK'
  <2>1. /\ tx'[t].pc = "idle" /\ \A o \in Txs : o # t => tx'[o] = tx[o]
        /\ state' = state /\ clock' = clock
    BY <1>4, IdleEffect DEF Rollback, server
  <2> QED
    BY <2>1 DEF TxOK, Pending
<1>5. CASE Remake
  <2>1. \A t \in Txs : tx'[t].pc = "idle"
    BY <1>5, RemakeEffect
  <2> QED
    BY <2>1 DEF TxOK, Pending
<1>6. CASE tx' = tx /\ state' = state /\ clock'.value = clock.value
  BY <1>6 DEF TxOK, Pending
<1>7. ASSUME NEW d \in Desktops, Clock(d) PROVE TxOK'
  BY <1>6, <1>7, ClockEffect DEF Clocked
<1> QED
  BY <1>1, <1>2, <1>3, <1>4, <1>5, <1>6, <1>7
  DEF Next, TxStep, Changes, Receive, Lose, Read, vars, server

-----------------------------------------------------------------------------
(* Epochs, and the plans that are gone. *)

LEMMA EpochsStep ==
    ASSUME TypeOK, TxOK, EpochsUsed, [Next]_vars
    PROVE  EpochsUsed'
<1>1. ASSUME NEW t \in Txs, Commit(t) PROVE EpochsUsed'
  <2>1. Committed(t)
    BY <1>1, CommitEffect
  <2> QED
    BY <2>1 DEF Committed, EpochsUsed
<1>2. CASE Remake
  <2>1. /\ clock'.epoch = NoEpoch /\ used' = used /\ cursor' = cursor
        /\ \A d \in Desktops :
              poll'[d] = IdlePoll \/ (poll[d].pc # "asked" /\ poll'[d] = poll[d])
    BY <1>2, RemakeEffect DEF client
  <2> QED
    BY <2>1, IdleRecords DEF EpochsUsed
<1>3. ASSUME NEW d \in Desktops, Clock(d) PROVE EpochsUsed'
  <2>1. Clocked(d)
    BY <1>3, ClockEffect
  <2>2. /\ used' = used \cup {clock'.epoch} /\ cursor' = cursor
        /\ poll'[d].epoch = clock'.epoch
        /\ \A o \in Desktops : o # d => poll'[o] = poll[o]
    BY <2>1 DEF Clocked, PollMoves
  <2> QED
    BY <2>2 DEF EpochsUsed
<1>4. ASSUME NEW d \in Desktops, Changes(d) PROVE EpochsUsed'
  <2> PICK point, answer :
         /\ PollMoves(d)
         /\ poll'[d] = [pc |-> "answered", epoch |-> poll[d].epoch, seq |-> point, answer |-> answer]
    BY <1>4, ChangesEffect
  <2>1. PollMoves(d) /\ poll'[d].epoch = poll[d].epoch
    OBVIOUS
  <2>2. /\ poll[d].pc # "idle" /\ clock' = clock /\ used' = used /\ cursor' = cursor
    BY <1>4 DEF Changes, server, client
  <2> QED
    BY <2>1, <2>2 DEF EpochsUsed, PollMoves
<1>5. ASSUME NEW d \in Desktops, Receive(d) PROVE EpochsUsed'
  <2>1. /\ PollMoves(d) /\ poll'[d].pc = "idle" /\ cursor'[d].epoch = poll[d].epoch
        /\ \A o \in Desktops : o # d => cursor'[o] = cursor[o]
    BY <1>5, ReceiveEffect, IdleRecords
  <2>2. poll[d].pc # "idle" /\ clock' = clock /\ used' = used
    BY <1>5 DEF Receive, server
  <2> QED
    BY <2>1, <2>2 DEF EpochsUsed, PollMoves
<1>6. ASSUME NEW d \in Desktops, Lose(d) PROVE EpochsUsed'
  <2>1. PollMoves(d) /\ poll'[d].pc = "idle" /\ UNCHANGED <<server, client>>
    BY <1>6, LoseEffect, IdleRecords
  <2> QED
    BY <2>1 DEF EpochsUsed, PollMoves, server, client
<1>7. CASE UNCHANGED <<clock, used, cursor, poll>>
  BY <1>7 DEF EpochsUsed
<1> QED
  BY <1>1, <1>2, <1>3, <1>4, <1>5, <1>6, <1>7
  DEF Next, TxStep, Write, Advance, Rollback, Read, vars, server, client

LEMMA ItemFacts ==
    /\ \A x \in Items : PlanOf(x) \in Plans /\ x[2] \in Parts /\ x = <<PlanOf(x), x[2]>>
    /\ \A p \in Plans : <<p, "project">> \in Items
BY DEF Items, PlanOf, Parts

LEMMA RemovedStep ==
    ASSUME TypeOK, TxOK, EpochsUsed, RemovedEmpty, [Next]_vars
    PROVE  RemovedEmpty'
<1>1. ASSUME NEW t \in Txs, Commit(t), NEW x \in Items, state'[PlanOf(x)] = "removed"
      PROVE  data'[x] = 0
  <2>1. Committed(t) /\ Pending(t)
    BY <1>1, CommitEffect DEF Commit, Pending
  <2>2. PlanOf(x) \in Plans
    BY ItemFacts
  <2>3. data'[x] = IF tx[t].op = "purge" /\ PlanOf(x) \in tx[t].plans THEN 0
                   ELSE IF x \in Stamped(t) THEN data[x] + 1 ELSE data[x]
    BY <2>1 DEF Committed
  <2>4. x \in Stamped(t) => PlanOf(x) \in tx[t].plans
    BY DEF Stamped, PlanOf
  <2>5. \/ state[PlanOf(x)] = "removed" /\ PlanOf(x) \notin tx[t].plans
        \/ tx[t].op = "purge" /\ PlanOf(x) \in tx[t].plans
    BY <1>1, <2>1, <2>2, RemovedStays
  <2> QED
    BY <2>3, <2>4, <2>5 DEF RemovedEmpty
<1>2. CASE Remake
  <2>1. data' \in [Items -> {0}]
    BY <1>2, RemakeEffect
  <2> QED
    BY <2>1 DEF RemovedEmpty
<1>3. CASE UNCHANGED <<state, data>>
  BY <1>3 DEF RemovedEmpty
<1>4. ASSUME NEW t \in Txs, Commit(t) PROVE RemovedEmpty'
  BY <1>1, <1>4 DEF RemovedEmpty
<1> QED
  BY <1>2, <1>3, <1>4
  DEF Next, TxStep, Write, Advance, Rollback, Clock, Changes, Receive, Lose, Read, vars, server

-----------------------------------------------------------------------------
(* Stamps. *)

LEMMA OrderedStep ==
    ASSUME TypeOK, TxOK, EpochsUsed, Ordered, [Next]_vars
    PROVE  Ordered'
<1>1. ASSUME NEW t \in Txs, Commit(t) PROVE Ordered'
  <2>1. Committed(t)
    BY <1>1, CommitEffect
  <2>2. /\ \A x \in Items : seq[x] \in Nat /\ seq'[x] \in Nat /\ seq[x] <= clock.value
        /\ clock.value \in Nat /\ clock'.value \in Nat /\ clock.value <= clock'.value
    BY <2>1 DEF Committed, TypeOK, Ordered
  <2>3. /\ \A x \in Stamped(t) : clock.value < seq'[x] /\ seq'[x] <= clock'.value
        /\ \A x, y \in Stamped(t) : seq'[x] = seq'[y] => x = y
        /\ \A x \in Items \ Stamped(t) : seq'[x] = 0 \/ seq'[x] = seq[x]
    BY <2>1 DEF Committed
  <2>4. \A x \in Items : seq'[x] <= clock'.value
    <3>1. \A x \in Items \ Stamped(t) : seq'[x] <= clock.value
      BY <2>2, <2>3
    <3> QED
      BY <2>2, <2>3, <3>1
  <2>5. ASSUME NEW x \in Items, NEW y \in Items, seq'[x] = seq'[y], seq'[x] # 0
        PROVE  x = y
    <3>1. CASE x \in Stamped(t) /\ y \in Stamped(t)
      BY <2>3, <2>5, <3>1
    <3>2. CASE x \in Stamped(t) /\ y \notin Stamped(t)
      <4>1. seq'[y] = seq[y] /\ clock.value < seq'[x]
        BY <2>3, <2>5, <3>2
      <4> QED
        BY <2>2, <2>5, <4>1
    <3>3. CASE x \notin Stamped(t) /\ y \in Stamped(t)
      <4>1. seq'[x] = seq[x] /\ clock.value < seq'[y]
        BY <2>3, <2>5, <3>3
      <4> QED
        BY <2>2, <2>5, <4>1
    <3>4. CASE x \notin Stamped(t) /\ y \notin Stamped(t)
      <4>1. seq'[x] = seq[x] /\ seq'[y] = seq[y]
        BY <2>3, <2>5, <3>4
      <4> QED
        BY <2>5, <4>1 DEF Ordered
    <3> QED
      BY <3>1, <3>2, <3>3, <3>4
  <2> QED
    BY <2>4, <2>5 DEF Ordered
<1>2. CASE Remake
  <2>1. seq' \in [Items -> {0}] /\ clock'.value = 0
    BY <1>2, RemakeEffect
  <2>2. \A x \in Items : seq'[x] = 0
    BY <2>1
  <2> QED
    BY <2>1, <2>2 DEF Ordered
<1>3. CASE seq' = seq /\ clock'.value = clock.value
  BY <1>3 DEF Ordered
<1>4. ASSUME NEW d \in Desktops, Clock(d) PROVE Ordered'
  BY <1>3, <1>4, ClockEffect DEF Clocked
<1> QED
  BY <1>1, <1>2, <1>3, <1>4
  DEF Next, TxStep, Write, Advance, Rollback, Changes, Receive, Lose, Read, vars, server

LEMMA TombStep ==
    ASSUME TypeOK, TxOK, EpochsUsed, TombAlone, [Next]_vars
    PROVE  TombAlone'
<1>1. ASSUME NEW t \in Txs, Commit(t), NEW x \in Items, state'[PlanOf(x)] = "removed",
             seq'[x] # 0
      PROVE  x[2] = "project"
  <2>1. Committed(t) /\ Pending(t)
    BY <1>1, CommitEffect DEF Commit, Pending
  <2>2. PlanOf(x) \in Plans /\ x[2] \in Parts /\ x = <<PlanOf(x), x[2]>>
    BY ItemFacts
  <2>3. CASE state[PlanOf(x)] = "removed" /\ PlanOf(x) \notin tx[t].plans
    <3>1. x \notin Stamped(t) /\ x \notin Tombs(t)
      BY <2>2, <2>3 DEF Stamped, Tombs, PlanOf
    <3>2. seq'[x] = seq[x]
      BY <2>1, <3>1 DEF Committed
    <3> QED
      BY <1>1, <2>3, <3>2 DEF TombAlone
  <2>4. CASE tx[t].op = "purge" /\ PlanOf(x) \in tx[t].plans
    <3>1. CASE x[2] # "project"
      <4>1. x \in Tombs(t)
        BY <2>2, <2>4, <3>1 DEF Tombs
      <4>2. PartsOf(tx[t].op) = {"project"}
        BY <2>1, <2>4, OpFacts DEF Committed
      <4>3. x \notin Stamped(t)
        BY <2>2, <3>1, <4>2 DEF Stamped
      <4> QED
        BY <1>1, <2>1, <4>1, <4>3 DEF Committed
    <3> QED
      BY <3>1
  <2> QED
    BY <1>1, <2>1, <2>2, <2>3, <2>4, RemovedStays
<1>2. ASSUME NEW t \in Txs, Commit(t) PROVE TombAlone'
  BY <1>1, <1>2 DEF TombAlone
<1>3. CASE Remake
  <2>1. seq' \in [Items -> {0}]
    BY <1>3, RemakeEffect
  <2> QED
    BY <2>1 DEF TombAlone
<1>4. CASE UNCHANGED <<state, seq>>
  BY <1>4 DEF TombAlone
<1> QED
  BY <1>2, <1>3, <1>4
  DEF Next, TxStep, Write, Advance, Rollback, Clock, Changes, Receive, Lose, Read, vars, server

-----------------------------------------------------------------------------
(* The points of the desktops. *)

\* An epoch that nobody drew is nobody's.
LEMMA NewEpoch ==
    ASSUME TypeOK, EpochsUsed, Points, clock.epoch = NoEpoch, NEW epoch, epoch \notin used,
           NEW d \in Desktops
    PROVE  /\ poll[d].pc # "asked"
           /\ poll[d].pc # "idle" => poll[d].epoch # epoch
           /\ cursor[d].epoch # NoEpoch => cursor[d].epoch # epoch
<1>1. NoEpoch \notin used
  BY FeedAssumption DEF TypeOK
<1> QED
  BY <1>1 DEF EpochsUsed, Points, PointOK

LEMMA PointsCommit ==
    ASSUME TypeOK, TxOK, EpochsUsed, Ordered, Points, NEW t \in Txs, Commit(t),
           NEW d \in Desktops
    PROVE  PointOK(d)'
<1>1. Committed(t) /\ Pending(t)
  BY CommitEffect DEF Commit, Pending
<1>2. cursor' = cursor /\ poll' = poll
  BY <1>1 DEF Committed
<1>3. PointOK(d)
  BY DEF Points
<1>4. CASE clock.epoch = NoEpoch
  <2>1. clock'.epoch \notin used
    BY <1>1, <1>4 DEF Committed
  <2>2. /\ poll[d].pc # "asked"
        /\ poll[d].pc # "idle" => poll[d].epoch # clock'.epoch
        /\ cursor[d].epoch # NoEpoch => cursor[d].epoch # clock'.epoch
    BY <1>4, <2>1, NewEpoch
  <2> QED
    BY <1>2, <1>3, <2>2 DEF PointOK
<1>5. CASE clock.epoch # NoEpoch
  <2>1. clock'.epoch = clock.epoch /\ clock.value <= clock'.value
        /\ clock.value \in Nat /\ clock'.value \in Nat
    BY <1>1, <1>5 DEF Committed, TypeOK
  <2>2. cursor[d].seq \in Nat /\ poll[d].seq \in Nat
    BY DEF TypeOK
  <2>3. /\ cursor[d].epoch # NoEpoch /\ cursor[d].epoch = clock'.epoch =>
              cursor[d].seq <= clock'.value
        /\ poll[d].pc # "idle" /\ poll[d].epoch = clock'.epoch => poll[d].seq <= clock'.value
    BY <1>3, <2>1, <2>2 DEF PointOK
  <2>4. ASSUME poll[d].pc = "answered", poll[d].epoch = clock.epoch, ~poll[d].answer.reset
        PROVE  AnswerOK(d)'
    <3>1. AnswerOK(d) /\ poll[d].seq <= clock.value
      BY <1>3, <2>4 DEF PointOK
    <3>2. /\ \A x \in Stamped(t) : seq'[x] > poll[d].seq
          /\ \A x \in Items \ Stamped(t) : seq'[x] = IF x \in Tombs(t) THEN 0 ELSE seq[x]
          /\ \A x \in Items : seq'[x] \in Nat
      <4>1. \A x \in Stamped(t) : clock.value < seq'[x] /\ seq'[x] \in Nat
        BY <1>1 DEF Committed
      <4>2. \A x \in Stamped(t) : seq'[x] > poll[d].seq
        BY <2>1, <2>2, <3>1, <4>1
      <4> QED
        BY <1>1, <4>2 DEF Committed
    <3>3. \A x \in Items : seq'[x] > cursor[d].seq =>
             x \in poll[d].answer.items \/ seq'[x] > poll[d].seq
      <4>1. \A x \in Items \ Stamped(t) : seq'[x] > cursor[d].seq => seq'[x] = seq[x]
        BY <2>2, <3>2
      <4> QED
        BY <3>1, <3>2, <4>1 DEF AnswerOK
    <3>4. \A p \in poll[d].answer.gone : state'[p] = "removed"
      <4>1. poll[d].answer.gone \in SUBSET Plans
        BY DEF TypeOK, Answers
      <4> QED
        BY <1>1, <3>1, <4>1, RemovedStays DEF AnswerOK
    <3>5. ASSUME NEW p \in Plans, state'[p] = "removed", seq'[<<p, "project">>] > cursor[d].seq
          PROVE  p \in poll[d].answer.gone \/ seq'[<<p, "project">>] > poll[d].seq
      <4>1. CASE tx[t].op = "purge" /\ p \in tx[t].plans
        <5>1. PartsOf(tx[t].op) = {"project"}
          BY <1>1, <4>1, OpFacts DEF Committed
        <5>2. <<p, "project">> \in Stamped(t)
          BY <4>1, <5>1 DEF Stamped
        <5> QED
          BY <3>2, <5>2
      <4>2. CASE state[p] = "removed" /\ p \notin tx[t].plans
        <5>1. <<p, "project">> \in Items \ Stamped(t) /\ <<p, "project">> \notin Tombs(t)
          BY <4>2, ItemFacts DEF Stamped, Tombs
        <5>2. seq'[<<p, "project">>] = seq[<<p, "project">>]
          BY <3>2, <5>1
        <5> QED
          BY <3>1, <3>5, <4>2, <5>2 DEF AnswerOK
      <4> QED
        BY <1>1, <3>5, <4>1, <4>2, RemovedStays
    <3>6. cursor[d].epoch = poll[d].epoch
      BY <3>1 DEF AnswerOK
    <3> QED
      BY <1>2, <3>3, <3>4, <3>5, <3>6 DEF AnswerOK
  <2> QED
    BY <1>2, <1>3, <2>1, <2>3, <2>4 DEF PointOK
<1> QED
  BY <1>4, <1>5

LEMMA PointsClock ==
    ASSUME TypeOK, EpochsUsed, Points, NEW c \in Desktops, Clock(c), NEW d \in Desktops
    PROVE  PointOK(d)'
<1>1. Clocked(c)
  BY ClockEffect
<1>2. /\ cursor' = cursor /\ seq' = seq /\ state' = state
      /\ clock'.value = clock.value /\ clock'.value \in Nat
      /\ clock.epoch = NoEpoch => clock'.epoch \notin used
      /\ clock.epoch # NoEpoch => clock'.epoch = clock.epoch
  BY <1>1 DEF Clocked
<1>3. PointOK(d)
  BY DEF Points
<1>4. cursor[d].epoch # NoEpoch /\ cursor[d].epoch = clock'.epoch => cursor[d].seq <= clock'.value
  <2>1. CASE clock.epoch = NoEpoch
    BY <1>2, <2>1, NewEpoch
  <2>2. CASE clock.epoch # NoEpoch
    BY <1>2, <1>3, <2>2 DEF PointOK
  <2> QED
    BY <2>1, <2>2
<1>5. CASE d = c
  <2>1. /\ poll'[d].pc = "asked" /\ poll'[d].epoch = clock'.epoch
        /\ poll'[d].seq = clock'.value /\ ~poll'[d].answer.reset
    BY <1>1, <1>5 DEF Clocked
  <2> QED
    BY <1>2, <1>4, <2>1 DEF PointOK
<1>6. CASE d # c
  <2>1. poll'[d] = poll[d]
    BY <1>1, <1>6 DEF Clocked, PollMoves
  <2>2. CASE clock.epoch = NoEpoch
    <3>1. poll[d].pc # "asked" /\ (poll[d].pc # "idle" => poll[d].epoch # clock'.epoch)
      BY <1>2, <2>2, NewEpoch
    <3> QED
      BY <1>2, <1>3, <1>4, <2>1, <3>1 DEF PointOK
  <2>3. CASE clock.epoch # NoEpoch
    BY <1>2, <1>3, <1>4, <2>1, <2>3 DEF PointOK, AnswerOK
  <2> QED
    BY <2>2, <2>3
<1> QED
  BY <1>5, <1>6

\* Only a desktop's own step moves its point.
LEMMA PointStays ==
    ASSUME NEW d \in Desktops, PointOK(d), cursor'[d] = cursor[d], poll'[d] = poll[d],
           UNCHANGED <<state, seq, clock>>
    PROVE  PointOK(d)'
BY DEF PointOK, AnswerOK

LEMMA PointsChanges ==
    ASSUME TypeOK, EpochsUsed, Ordered, Points, NEW d \in Desktops, Changes(d)
    PROVE  PointOK(d)'
<1>1. PICK point, answer :
         /\ Complete(d, point, answer)
         /\ poll'[d] = [pc |-> "answered", epoch |-> poll[d].epoch, seq |-> point, answer |-> answer]
  BY ChangesEffect
<1>2. /\ poll[d].pc = "asked"
      /\ UNCHANGED <<state, seq, clock, cursor>>
  BY DEF Changes, server, client
<1>3. PointOK(d)
  BY DEF Points
<1>4. /\ poll'[d].pc = "answered" /\ poll'[d].epoch = poll[d].epoch
      /\ poll'[d].seq = point /\ poll'[d].answer = answer
  BY <1>1
<1>5. poll[d].epoch = clock.epoch /\ poll[d].epoch # NoEpoch
  BY <1>2, <1>3, FeedAssumption DEF PointOK, EpochsUsed, TypeOK
<1>6. point <= clock.value
  <2>1. CASE answer.reset
    BY <1>1, <1>2, <1>3, <1>5, <2>1 DEF Complete, PointOK
  <2>2. CASE ~answer.reset
    <3>1. cursor[d].epoch = poll[d].epoch
          /\ (point = cursor[d].seq \/ \E x \in Items : point = seq[x])
      BY <1>1, <2>2 DEF Complete
    <3>2. cursor[d].seq <= clock.value
      BY <1>3, <1>5, <3>1 DEF PointOK
    <3> QED
      BY <3>1, <3>2 DEF Ordered
  <2> QED
    BY <2>1, <2>2
<1>7. answer.reset => answer.gone = {}
  BY <1>1 DEF Complete
<1>8. ASSUME ~answer.reset PROVE AnswerOK(d)'
  <2>1. /\ cursor[d].epoch = poll[d].epoch
        /\ \A x \in Items : seq[x] > cursor[d].seq => x \in answer.items \/ seq[x] > point
        /\ answer.gone = {p \in Plans : state[p] = "removed" /\ \E x \in answer.items : PlanOf(x) = p}
    BY <1>1, <1>8 DEF Complete
  <2>2. \A p \in answer.gone : state[p] = "removed"
    BY <2>1
  <2>3. ASSUME NEW p \in Plans, state[p] = "removed", seq[<<p, "project">>] > cursor[d].seq
        PROVE  p \in answer.gone \/ seq[<<p, "project">>] > point
    <3>1. <<p, "project">> \in Items /\ PlanOf(<<p, "project">>) = p
      BY ItemFacts DEF PlanOf
    <3>2. <<p, "project">> \in answer.items \/ seq[<<p, "project">>] > point
      BY <2>1, <2>3, <3>1
    <3>3. <<p, "project">> \in answer.items => \E x \in answer.items : PlanOf(x) = p
      BY <3>1
    <3> QED
      BY <2>1, <2>3, <3>2, <3>3
  <2> QED
    BY <1>2, <1>4, <2>1, <2>2, <2>3 DEF AnswerOK
<1> QED
  BY <1>2, <1>3, <1>4, <1>6, <1>7, <1>8 DEF PointOK

LEMMA PointsStep ==
    ASSUME TypeOK, TxOK, EpochsUsed, Ordered, Points, [Next]_vars, NEW d \in Desktops
    PROVE  PointOK(d)'
<1>0. PointOK(d)
  BY DEF Points
<1>1. ASSUME NEW t \in Txs, Commit(t) PROVE PointOK(d)'
  BY <1>1, PointsCommit
<1>2. CASE Remake
  <2>1. /\ cursor' = cursor /\ clock'.epoch = NoEpoch
        /\ poll'[d] = IdlePoll \/ (poll[d].pc # "asked" /\ poll'[d] = poll[d])
    BY <1>2, RemakeEffect DEF client
  <2>2. poll[d].pc # "idle" => poll[d].epoch # NoEpoch
    BY FeedAssumption DEF EpochsUsed, TypeOK
  <2>3. CASE poll'[d] = IdlePoll
    BY <2>1, <2>3, IdleRecords DEF PointOK
  <2>4. CASE poll[d].pc # "asked" /\ poll'[d] = poll[d]
    BY <1>0, <2>1, <2>2, <2>4 DEF PointOK
  <2> QED
    BY <2>1, <2>3, <2>4
<1>3. ASSUME NEW c \in Desktops, Clock(c) PROVE PointOK(d)'
  BY <1>3, PointsClock
<1>4. ASSUME NEW c \in Desktops, Changes(c) PROVE PointOK(d)'
  <2>1. UNCHANGED <<state, seq, clock, cursor>>
    BY <1>4 DEF Changes, server, client
  <2>2. d # c => poll'[d] = poll[d]
    BY <1>4, ChangesEffect DEF PollMoves
  <2>3. d # c => PointOK(d)'
    BY <1>0, <2>1, <2>2, PointStays
  <2> QED
    BY <1>4, <2>3, PointsChanges
<1>5. ASSUME NEW c \in Desktops, Receive(c) PROVE PointOK(d)'
  <2>1. /\ PollMoves(c) /\ poll'[c] = IdlePoll
        /\ cursor'[c].epoch = poll[c].epoch /\ cursor'[c].seq = poll[c].seq
        /\ \A o \in Desktops : o # c => cursor'[o] = cursor[o]
        /\ UNCHANGED <<state, seq, clock>> /\ poll[c].pc # "idle"
    BY <1>5, ReceiveEffect DEF server, Receive
  <2>2. CASE d = c
    BY <1>0, <2>1, <2>2, IdleRecords DEF PointOK
  <2>3. CASE d # c
    BY <1>0, <2>1, <2>3, PointStays DEF PollMoves
  <2> QED
    BY <2>2, <2>3
<1>6. ASSUME NEW c \in Desktops, Lose(c) PROVE PointOK(d)'
  <2>1. PollMoves(c) /\ poll'[c] = IdlePoll /\ UNCHANGED <<state, seq, clock, cursor>>
    BY <1>6, LoseEffect DEF server, client
  <2>2. CASE d = c
    BY <1>0, <2>1, <2>2, IdleRecords DEF PointOK
  <2>3. CASE d # c
    BY <1>0, <2>1, <2>3, PointStays DEF PollMoves
  <2> QED
    BY <2>2, <2>3
<1>7. CASE UNCHANGED <<state, seq, clock, cursor, poll>>
  BY <1>0, <1>7, PointStays
<1> QED
  BY <1>1, <1>2, <1>3, <1>4, <1>5, <1>6, <1>7
  DEF Next, TxStep, Write, Advance, Rollback, Read, vars, server, client

-----------------------------------------------------------------------------
(* The invariant. *)

LEMMA InvInit == Init => Inv
<1> SUFFICES ASSUME Init PROVE Inv
  OBVIOUS
<1>1. TypeOK
  BY TypeInit
<1>2. \A t \in Txs : tx[t].pc = "idle"
  BY DEF Init, IdleTx
<1>3. TxOK /\ TxAlone
  BY <1>2 DEF TxOK, TxAlone, Pending
<1>4. \A d \in Desktops : poll[d] = IdlePoll /\ cursor[d].epoch = NoEpoch
  BY DEF Init
<1>5. clock.epoch = NoEpoch /\ clock.value = 0 /\ \A x \in Items : seq[x] = 0 /\ data[x] = 0
  BY DEF Init
<1>6. EpochsUsed
  BY <1>4, <1>5, IdleRecords DEF EpochsUsed
<1>7. RemovedEmpty /\ Ordered /\ TombAlone
  BY <1>5 DEF RemovedEmpty, Ordered, TombAlone
<1>8. Points
  BY <1>4, IdleRecords DEF Points, PointOK
<1> QED
  BY <1>1, <1>3, <1>6, <1>7, <1>8 DEF Inv

LEMMA InvStep == Inv /\ [Next]_vars => Inv'
<1> SUFFICES ASSUME Inv, [Next]_vars PROVE Inv'
  OBVIOUS
<1>1. TypeOK' /\ TxOK' /\ TxAlone' /\ EpochsUsed'
  BY TypeStep, TxOKStep, TxAloneStep, EpochsStep DEF Inv
<1>2. RemovedEmpty' /\ Ordered' /\ TombAlone'
  BY RemovedStep, OrderedStep, TombStep DEF Inv
<1>3. Points'
  <2>1. \A d \in Desktops : PointOK(d)'
    BY PointsStep DEF Inv
  <2> QED
    BY <2>1 DEF Points
<1> QED
  BY <1>1, <1>2, <1>3 DEF Inv

\* However transactions overlap, the stamps of Repository.advance are in one order
\* and what entomb leaves of a plan is one row.
THEOREM StampsAloneTheorem == Spec => []StampsAlone
<1>1. Inv => StampsAlone
  BY DEF Inv, StampsAlone
<1> QED
  BY <1>1, InvInit, InvStep, PTL DEF Spec

-----------------------------------------------------------------------------
(* The feed implements Mirror. *)

\* The rows after a point, with those a removed plan's row stands for.
Due(since) ==
    After(since)
    \cup {x \in Items : state[PlanOf(x)] = "removed" /\ <<PlanOf(x), "project">> \in After(since)}

LEMMA StaleIs ==
    ASSUME NEW d \in Desktops, NEW since
    PROVE  /\ cursor[d].epoch = NoEpoch \/ cursor[d].epoch # clock.epoch => Stale(d) = Items
           /\ cursor[d].epoch # NoEpoch /\ cursor[d].epoch = clock.epoch /\ cursor[d].seq = since =>
                 Stale(d) = todo[d] \cup Due(since)
           /\ cursor'[d].epoch = NoEpoch \/ cursor'[d].epoch # clock'.epoch => Stale(d)' = Items
           /\ cursor'[d].epoch # NoEpoch /\ cursor'[d].epoch = clock'.epoch /\ cursor'[d].seq = since =>
                 Stale(d)' = todo'[d] \cup Due(since)'
BY DEF Stale, Due, After

LEMMA StaleStays ==
    ASSUME NEW d \in Desktops, cursor'[d] = cursor[d], todo'[d] = todo[d],
           UNCHANGED <<state, seq>>, clock'.epoch = clock.epoch
    PROVE  Stale(d)' = Stale(d)
BY DEF Stale, After

\* What a commit changes.
Changed(t) == IF tx[t].op = "purge" THEN ItemsOf(tx[t].plans) ELSE Stamped(t)

\* A commit makes due what it changed, and nothing that was due is not.
LEMMA CommitDue ==
    ASSUME Inv, NEW t \in Txs, Pending(t), Committed(t), NEW since \in Nat,
           since <= clock.value
    PROVE  Due(since)' = Due(since) \cup Changed(t)
<1>1. /\ Stamped(t) \subseteq Items /\ tx[t].plans \in SUBSET Plans /\ tx[t].op \in Ops
      /\ \A x \in Stamped(t) : clock.value < seq'[x]
      /\ \A x \in Items \ Stamped(t) : seq'[x] = IF x \in Tombs(t) THEN 0 ELSE seq[x]
      /\ \A x \in Items : seq'[x] \in Nat /\ seq[x] \in Nat
      /\ clock.value \in Nat
  BY DEF Committed, Inv, TypeOK
<1>2. \A x \in Stamped(t) : seq'[x] > since
  BY <1>1
<1>3. Changed(t) \subseteq Items
  BY <1>1 DEF Changed, ItemsOf, Items
<1>4. \A x \in Items : x \notin Stamped(t) /\ x \notin Tombs(t) =>
         (x \in After(since)' <=> x \in After(since))
  BY <1>1 DEF After
<1>5. Stamped(t) \subseteq After(since)'
  BY <1>1, <1>2 DEF After
<1>6. Tombs(t) \subseteq Changed(t) /\ Stamped(t) \subseteq Changed(t)
  BY <1>1, OpFacts DEF Tombs, Changed, ItemsOf, Stamped
<1>7. \A p \in Plans : p \notin tx[t].plans =>
         /\ state'[p] = state[p]
         /\ <<p, "project">> \in After(since)' <=> <<p, "project">> \in After(since)
  <2>1. \A p \in Plans : p \notin tx[t].plans =>
           <<p, "project">> \notin Stamped(t) /\ <<p, "project">> \notin Tombs(t)
    BY DEF Stamped, Tombs
  <2> QED
    BY <1>4, <2>1, ItemFacts DEF Committed
<1>8. ASSUME NEW x \in Items, x \in Due(since)' PROVE x \in Due(since) \cup Changed(t)
  <2>1. CASE x \in After(since)'
    <3>1. CASE x \in Stamped(t) \/ x \in Tombs(t)
      BY <1>6, <3>1
    <3>2. CASE x \notin Stamped(t) /\ x \notin Tombs(t)
      BY <1>4, <2>1, <3>2 DEF Due
    <3> QED
      BY <3>1, <3>2
  <2>2. CASE state'[PlanOf(x)] = "removed" /\ <<PlanOf(x), "project">> \in After(since)'
    <3>0. PlanOf(x) \in Plans /\ x[2] \in Parts /\ x = <<PlanOf(x), x[2]>>
      BY ItemFacts
    <3>1. CASE tx[t].op = "purge" /\ PlanOf(x) \in tx[t].plans
      BY <3>0, <3>1 DEF Changed, ItemsOf
    <3>2. CASE state[PlanOf(x)] = "removed" /\ PlanOf(x) \notin tx[t].plans
      BY <1>7, <2>2, <3>0, <3>2 DEF Due
    <3> QED
      BY <2>2, <3>0, <3>1, <3>2, RemovedStays DEF Inv
  <2> QED
    BY <1>8, <2>1, <2>2 DEF Due
<1>9. ASSUME NEW x \in Items, x \in Changed(t) PROVE x \in Due(since)'
  <2>1. CASE tx[t].op = "purge"
    <3>1. PlanOf(x) \in tx[t].plans /\ PlanOf(x) \in Plans
      BY <1>9, <2>1, ItemFacts DEF Changed, ItemsOf, PlanOf
    <3>2. PartsOf(tx[t].op) = {"project"}
      BY <1>1, <2>1, OpFacts
    <3>3. <<PlanOf(x), "project">> \in Stamped(t)
      BY <3>1, <3>2 DEF Stamped
    <3>4. state'[PlanOf(x)] = "removed"
      BY <2>1, <3>1, RemovedStays DEF Inv
    <3> QED
      BY <1>5, <3>3, <3>4 DEF Due
  <2>2. CASE tx[t].op # "purge"
    BY <1>5, <1>9, <2>2 DEF Changed, Due
  <2> QED
    BY <2>1, <2>2
<1>10. ASSUME NEW x \in Items, x \in Due(since), x \notin Changed(t) PROVE x \in Due(since)'
  <2>1. CASE x \in After(since)
    BY <1>4, <1>6, <1>10, <2>1 DEF Due
  <2>2. CASE state[PlanOf(x)] = "removed" /\ <<PlanOf(x), "project">> \in After(since)
    <3>0. PlanOf(x) \in Plans
      BY ItemFacts
    <3>1. PlanOf(x) \notin tx[t].plans
      BY <2>2, <3>0, RemovedStays DEF Inv
    <3> QED
      BY <1>7, <2>2, <3>0, <3>1 DEF Due
  <2> QED
    BY <1>10, <2>1, <2>2 DEF Due
<1>11. Due(since) \subseteq Items /\ Due(since)' \subseteq Items
  BY DEF Due, After
<1> QED
  BY <1>3, <1>8, <1>9, <1>10, <1>11

LEMMA CommitMarks ==
    ASSUME Inv, NEW t \in Txs, Commit(t)
    PROVE  /\ Changed(t) \in SUBSET Items
           /\ \A x \in Items \ Changed(t) : data'[x] = data[x]
           /\ \A d \in Desktops : Stale(d)' = Stale(d) \cup Changed(t)
<1>1. Committed(t) /\ Pending(t)
  BY CommitEffect DEF Inv, Commit, Pending
<1>2. Stamped(t) \subseteq Items /\ tx[t].plans \in SUBSET Plans
      /\ cursor' = cursor /\ todo' = todo
  BY <1>1 DEF Committed
<1>3. Changed(t) \in SUBSET Items
  BY <1>2 DEF Changed, ItemsOf, Items
<1>4. \A x \in Items \ Changed(t) : data'[x] = data[x]
  <2>1. ASSUME NEW x \in Items \ Changed(t) PROVE data'[x] = data[x]
    <3>1. data'[x] = IF tx[t].op = "purge" /\ PlanOf(x) \in tx[t].plans THEN 0
                     ELSE IF x \in Stamped(t) THEN data[x] + 1 ELSE data[x]
      BY <1>1 DEF Committed
    <3>2. CASE tx[t].op = "purge"
      <4>1. PlanOf(x) \notin tx[t].plans
        BY <3>2, ItemFacts DEF Changed, ItemsOf
      <4>2. x \notin Stamped(t)
        BY <4>1 DEF Stamped, PlanOf
      <4> QED
        BY <3>1, <4>1, <4>2
    <3>3. CASE tx[t].op # "purge"
      BY <3>1, <3>3 DEF Changed
    <3> QED
      BY <3>2, <3>3
  <2> QED
    BY <2>1
<1>5. ASSUME NEW d \in Desktops PROVE Stale(d)' = Stale(d) \cup Changed(t)
  <2>1. PICK since \in Nat : since = cursor[d].seq
    BY DEF Inv, TypeOK
  <2>2. CASE cursor[d].epoch = NoEpoch \/ cursor[d].epoch # clock.epoch
    <3>1. cursor'[d].epoch = NoEpoch \/ cursor'[d].epoch # clock'.epoch
      <4>1. CASE clock.epoch = NoEpoch /\ cursor[d].epoch # NoEpoch
        <5>1. clock'.epoch \notin used
          BY <1>1, <4>1 DEF Committed
        <5> QED
          BY <1>2, <4>1, <5>1 DEF Inv, EpochsUsed
      <4>2. CASE clock.epoch # NoEpoch \/ cursor[d].epoch = NoEpoch
        BY <1>1, <1>2, <2>2, <4>2 DEF Committed
      <4> QED
        BY <4>1, <4>2
    <3>2. Stale(d) = Items /\ Stale(d)' = Items
      BY <2>2, <3>1, StaleIs
    <3> QED
      BY <1>3, <3>2
  <2>3. CASE cursor[d].epoch # NoEpoch /\ cursor[d].epoch = clock.epoch
    <3>1. since <= clock.value
      BY <2>1, <2>3 DEF Inv, Points, PointOK
    <3>2. clock'.epoch = clock.epoch
      BY <1>1, <2>3 DEF Committed
    <3>3. Stale(d) = todo[d] \cup Due(since) /\ Stale(d)' = todo'[d] \cup Due(since)'
      BY <1>2, <2>1, <2>3, <3>2, StaleIs
    <3>4. Due(since)' = Due(since) \cup Changed(t)
      BY <1>1, <3>1, CommitDue
    <3> QED
      BY <1>2, <3>3, <3>4
  <2> QED
    BY <2>2, <2>3
<1> QED
  BY <1>3, <1>4, <1>5

\* Receive forgets only what the server does not hold, and of the rest lets nothing
\* go unread.
LEMMA ReceiveMarks ==
    ASSUME Inv, NEW d \in Desktops, Receive(d), NEW x \in Items, x \notin Stale(d)'
    PROVE  copy'[d][x] = data[x] \/ (x \notin Stale(d) /\ copy'[d][x] = copy[d][x])
<1> DEFINE answer == poll[d].answer
           forgotten == ItemsOf(answer.gone)
<1>1. /\ cursor'[d].epoch = poll[d].epoch /\ cursor'[d].seq = poll[d].seq
      /\ todo'[d] = IF answer.reset THEN Items ELSE (todo[d] \cup answer.items) \ forgotten
      /\ copy'[d] = [y \in Items |-> IF y \in forgotten THEN 0 ELSE copy[d][y]]
      /\ UNCHANGED <<state, seq, clock, data>> /\ poll[d].pc = "answered"
  BY ReceiveEffect DEF Inv, server, Receive
<1>2. PointOK(d) /\ RemovedEmpty /\ PlanOf(x) \in Plans
  BY ItemFacts DEF Inv, Points
<1>3. PICK point \in Nat : point = poll[d].seq
  BY DEF Inv, TypeOK
<1>4. PICK since \in Nat : since = cursor[d].seq
  BY DEF Inv, TypeOK
<1>5. poll[d].epoch # NoEpoch /\ poll[d].epoch = clock.epoch
  BY <1>1, StaleIs
<1>6. Stale(d)' = todo'[d] \cup Due(point)'
  BY <1>1, <1>3, <1>5, StaleIs
<1>7. ~answer.reset
  BY <1>1, <1>6
<1>8. AnswerOK(d)
  BY <1>1, <1>2, <1>5, <1>7 DEF PointOK
<1>9. Stale(d) = todo[d] \cup Due(since)
  BY <1>4, <1>5, <1>8, StaleIs DEF AnswerOK
<1>10. CASE x \in forgotten
  <2>1. PlanOf(x) \in answer.gone
    BY <1>10 DEF ItemsOf, PlanOf
  <2>2. data[x] = 0
    BY <1>2, <1>8, <2>1 DEF AnswerOK, RemovedEmpty
  <2> QED
    BY <1>1, <1>10, <2>2
<1>11. CASE x \notin forgotten
  <2>1. x \notin todo[d] /\ x \notin answer.items
    BY <1>1, <1>6, <1>7, <1>11
  <2>2. PlanOf(x) \notin answer.gone
    <3>1. x[2] \in Parts /\ x = <<PlanOf(x), x[2]>>
      BY ItemFacts
    <3> QED
      BY <1>11, <3>1 DEF ItemsOf
  <2>3. ~(seq[x] > point)
    BY <1>1, <1>6 DEF Due, After
  <2>4. x \notin After(since)
    BY <1>3, <1>4, <1>8, <2>1, <2>3 DEF AnswerOK, After
  <2>5. ~(state[PlanOf(x)] = "removed" /\ <<PlanOf(x), "project">> \in After(since))
    <3>1. ~(state[PlanOf(x)] = "removed" /\ seq[<<PlanOf(x), "project">>] > point)
      <4>1. <<PlanOf(x), "project">> \in Items
        BY <1>2, ItemFacts
      <4> QED
        BY <1>1, <1>6, <4>1 DEF Due, After
    <3> QED
      BY <1>2, <1>3, <1>4, <1>8, <2>2, <3>1 DEF AnswerOK, After
  <2>6. x \notin Stale(d)
    BY <1>9, <2>1, <2>4, <2>5 DEF Due
  <2> QED
    BY <1>1, <1>11, <2>6
<1> QED
  BY <1>10, <1>11

LEMMA ReadMarks ==
    ASSUME Inv, NEW d \in Desktops, NEW y \in Items, Read(d, y), NEW x \in Items, x \notin Stale(d)'
    PROVE  copy'[d][x] = data[x] \/ (x \notin Stale(d) /\ copy'[d][x] = copy[d][x])
<1>1. /\ todo'[d] = todo[d] \ {y} /\ copy'[d] = [copy[d] EXCEPT ![y] = data[y]]
      /\ UNCHANGED <<state, seq, clock, cursor>> /\ copy[d] \in [Items -> Nat]
  BY ReadEffect DEF Inv, TypeOK, server
<1>2. CASE x = y
  BY <1>1, <1>2
<1>3. CASE x # y
  <2>1. copy'[d][x] = copy[d][x]
    BY <1>1, <1>3
  <2>2. x \notin Stale(d)
    BY <1>1, <1>3 DEF Stale, After
  <2> QED
    BY <2>1, <2>2
<1> QED
  BY <1>2, <1>3

\* Nothing is due of a database that no desktop knows.
LEMMA NewClockMarks ==
    ASSUME Inv, NEW c \in Desktops, Clock(c), NEW d \in Desktops
    PROVE  Stale(d)' = Stale(d)
<1>1. Clocked(c)
  BY ClockEffect DEF Inv
<1>2. UNCHANGED <<state, seq, cursor, todo>>
  BY <1>1 DEF Clocked
<1>3. CASE clock.epoch # NoEpoch
  BY <1>1, <1>2, <1>3, StaleStays DEF Clocked
<1>4. CASE clock.epoch = NoEpoch
  <2>1. clock'.epoch \notin used
    BY <1>1, <1>4 DEF Clocked
  <2>2. cursor[d].epoch = NoEpoch \/ cursor[d].epoch # clock'.epoch
    BY <2>1 DEF Inv, EpochsUsed
  <2> QED
    BY <1>2, <1>4, <2>2, StaleIs
<1> QED
  BY <1>3, <1>4

\* A step of the feed, as Mirror sees it.
LEMMA MirrorStep ==
    ASSUME Inv, [Next]_vars
    PROVE  [M!Next]_(M!vars)
<1> DEFINE marks == [d \in Desktops |-> Stale(d)]
<1>1. ASSUME NEW changed \in SUBSET Items, DOMAIN data' = Items, copy' = copy,
             \A x \in Items \ changed : data'[x] = data[x],
             \A d \in Desktops : Stale(d)' = Stale(d) \cup changed
      PROVE  M!Change(changed)
  BY <1>1 DEF M!Change
<1>2. ASSUME NEW d \in Desktops, data' = data,
             \A o \in Desktops \ {d} : copy'[o] = copy[o] /\ Stale(o)' = Stale(o),
             \A x \in Items \ Stale(d)' :
                copy'[d][x] = data[x] \/ (x \notin Stale(d) /\ copy'[d][x] = copy[d][x])
      PROVE  M!Refresh(d)
  BY <1>2 DEF M!Refresh
<1>3. ASSUME UNCHANGED <<data, copy>>, \A d \in Desktops : Stale(d)' = Stale(d)
      PROVE  UNCHANGED M!vars
  BY <1>3 DEF M!vars
<1>4. ASSUME NEW t \in Txs, Commit(t) PROVE M!Next
  <2>1. DOMAIN data' = Items /\ copy' = copy
    BY <1>4 DEF Commit, client
  <2>2. M!Change(Changed(t)) /\ Changed(t) \in SUBSET Items
    BY <1>1, <1>4, <2>1, CommitMarks
  <2> QED
    BY <2>2 DEF M!Next
<1>5. CASE Remake
  <2>1. DOMAIN data' = Items /\ copy' = copy /\ cursor' = cursor /\ clock'.epoch = NoEpoch
    BY <1>5 DEF Remake, client
  <2>2. \A d \in Desktops : Stale(d)' = Items /\ Stale(d) \subseteq Items
    BY <2>1 DEF Stale, After, Inv, TypeOK
  <2>3. M!Change(Items)
    BY <1>1, <2>1, <2>2
  <2> QED
    BY <2>3 DEF M!Next
<1>6. ASSUME NEW d \in Desktops, Receive(d) PROVE M!Next
  <2>1. /\ UNCHANGED <<data, state, seq, clock>>
        /\ \A o \in Desktops : o # d =>
              cursor'[o] = cursor[o] /\ todo'[o] = todo[o] /\ copy'[o] = copy[o]
    BY <1>6, ReceiveEffect DEF Inv, server
  <2>2. \A o \in Desktops \ {d} : copy'[o] = copy[o] /\ Stale(o)' = Stale(o)
    BY <2>1, StaleStays
  <2>3. M!Refresh(d)
    BY <1>2, <1>6, <2>1, <2>2, ReceiveMarks
  <2> QED
    BY <2>3 DEF M!Next
<1>7. ASSUME NEW d \in Desktops, NEW y \in Items, Read(d, y) PROVE M!Next
  <2>1. /\ UNCHANGED <<data, state, seq, clock, cursor>>
        /\ \A o \in Desktops : o # d => todo'[o] = todo[o] /\ copy'[o] = copy[o]
    BY <1>7, ReadEffect DEF Inv, server
  <2>2. \A o \in Desktops \ {d} : copy'[o] = copy[o] /\ Stale(o)' = Stale(o)
    BY <2>1, StaleStays
  <2>3. M!Refresh(d)
    BY <1>2, <1>7, <2>1, <2>2, ReadMarks
  <2> QED
    BY <2>3 DEF M!Next
<1>8. ASSUME NEW d \in Desktops, Clock(d) PROVE UNCHANGED M!vars
  <2>1. UNCHANGED <<data, copy>>
    BY <1>8 DEF Clock, client
  <2> QED
    BY <1>3, <1>8, <2>1, NewClockMarks
<1>9. CASE UNCHANGED <<state, data, seq, clock, cursor, todo, copy>>
  <2>1. \A d \in Desktops : Stale(d)' = Stale(d)
    BY <1>9, StaleStays
  <2> QED
    BY <1>3, <1>9, <2>1
<1> QED
  BY <1>4, <1>5, <1>6, <1>7, <1>8, <1>9
  DEF Next, TxStep, Write, Advance, Rollback, Changes, Lose, vars, server, client

LEMMA MirrorInit == Init => M!Init
<1> SUFFICES ASSUME Init PROVE M!Init
  OBVIOUS
<1>1. DOMAIN data = Items /\ copy = [d \in Desktops |-> data]
  BY DEF Init
<1>2. \A d \in Desktops : Stale(d) = Items
  BY DEF Init, Stale
<1> QED
  BY <1>1, <1>2 DEF M!Init

\* The listing of Repository.Changes and the desktop's poll implement a mirror: a
\* commit marks what it changed for every desktop at once, and a mark goes only
\* when that desktop reads.
THEOREM MirrorsTheorem == Spec => Mirrors
<1>1. Inv /\ [Next]_vars => [M!Next]_(M!vars)
  BY MirrorStep
<1> QED
  BY <1>1, MirrorInit, InvInit, InvStep, PTL DEF Spec, Mirrors, M!Spec

\* A mirror's unread changes are marked, so no desktop misses a change of
\* Repository.stamp.
THEOREM NoMissTheorem == Spec => []NoMiss
<1>1. Init => NoMiss
  BY DEF Init, NoMiss
<1>2. ASSUME Inv, NoMiss, M!Next PROVE NoMiss'
  <2>1. ASSUME NEW changed \in SUBSET Items, M!Change(changed) PROVE NoMiss'
    <3>1. /\ \A x \in Items \ changed : data'[x] = data[x]
          /\ copy' = copy
          /\ [d \in Desktops |-> Stale(d)'] = [d \in Desktops |-> [e \in Desktops |-> Stale(e)][d] \cup changed]
      BY <2>1 DEF M!Change
    <3>2. \A d \in Desktops : Stale(d)' = Stale(d) \cup changed
      BY <3>1
    <3> QED
      BY <1>2, <3>1, <3>2 DEF NoMiss
  <2>2. ASSUME NEW d \in Desktops, M!Refresh(d) PROVE NoMiss'
    <3>1. /\ \A o \in Desktops \ {d} : copy'[o] = copy[o] /\ Stale(o)' = Stale(o)
          /\ \A x \in Items \ Stale(d)' :
                copy'[d][x] = data[x] \/ (x \notin Stale(d) /\ copy'[d][x] = copy[d][x])
          /\ data' = data
      BY <2>2 DEF M!Refresh
    <3> QED
      BY <1>2, <3>1 DEF NoMiss
  <2> QED
    BY <1>2, <2>1, <2>2 DEF M!Next
<1>3. ASSUME NoMiss, UNCHANGED M!vars PROVE NoMiss'
  <2>1. UNCHANGED <<data, copy>> /\ \A d \in Desktops : Stale(d)' = Stale(d)
    BY <1>3 DEF M!vars
  <2> QED
    BY <1>3, <2>1 DEF NoMiss
<1>4. Inv /\ NoMiss /\ [Next]_vars => NoMiss'
  BY <1>2, <1>3, MirrorStep
<1> QED
  BY <1>1, <1>4, InvInit, InvStep, PTL DEF Spec
=============================================================================
