----------------------------- MODULE ChangeFeed -----------------------------
(***************************************************************************)
(* The change listing: every transaction that changes a plan stamps the    *)
(* parts it changed with the next values of one clock, and a desktop polls *)
(* with the point it has reached and reads again what was stamped after.   *)
(*                                                                         *)
(* Transactions overlap.  A value is taken before the commit that makes it *)
(* visible, so what keeps a poll from passing over a change is that the    *)
(* clock's row stays locked from the one to the other.                     *)
(***************************************************************************)
EXTENDS Naturals, FiniteSets

CONSTANTS
    Plans,          \* plan ids, each used once by a database
    Txs,            \* transactions at a time
    Desktops,
    Epochs,         \* the names databases may draw
    NoEpoch,
    Ops,            \* the operations that happen
    Page,           \* ChangesPage
    MaxClock        \* bound: stamps of one database

ASSUME FeedAssumption ==
    /\ IsFiniteSet(Plans) /\ NoEpoch \notin Epochs
    /\ Ops \subseteq {"create", "upload", "update", "trash", "restore", "checkpoint", "result", "purge"}
    /\ Page \in Nat \ {0} /\ MaxClock \in Nat

Parts == {"project", "versions", "results"}
Items == Plans \X Parts
PlanOf(x) == x[1]
ItemsOf(ps) == ps \X Parts

VARIABLES
    state,      \* each plan: none, live, trash or removed
    data,       \* how often each part changed; 0 when its rows are gone
    seq,        \* plan_changes: the stamp of each part, 0 without a row
    clock,      \* change_clock: its epoch, NoEpoch without a row, and its value
    used,       \* epochs drawn
    tx,
    cursor,     \* the point each desktop keeps
    poll,       \* the request of each desktop
    todo,       \* the parts each desktop was told to read
    copy        \* the parts each desktop holds

vars == <<state, data, seq, clock, used, tx, cursor, poll, todo, copy>>
server == <<state, data, seq, clock, used>>
client == <<cursor, todo, copy>>

IdleTx == [pc |-> "idle", op |-> "none", plans |-> {}, first |-> 0]
NoAnswer == [reset |-> FALSE, items |-> {}, gone |-> {}]
IdlePoll == [pc |-> "idle", epoch |-> NoEpoch, seq |-> 0, answer |-> NoAnswer]

Init ==
    /\ state = [p \in Plans |-> "none"]
    /\ data = [x \in Items |-> 0]
    /\ seq = [x \in Items |-> 0]
    /\ clock = [epoch |-> NoEpoch, value |-> 0] /\ used = {}
    /\ tx = [t \in Txs |-> IdleTx]
    /\ cursor = [d \in Desktops |-> [epoch |-> NoEpoch, seq |-> 0]]
    /\ poll = [d \in Desktops |-> IdlePoll]
    /\ todo = [d \in Desktops |-> {}]
    /\ copy = [d \in Desktops |-> data]

-----------------------------------------------------------------------------
(* Transactions. *)

\* The parts an operation stamps.
PartsOf(op) ==
    CASE op \in {"create", "upload"}             -> {"project", "versions"}
      [] op \in {"update", "trash", "restore", "purge"} -> {"project"}
      [] op = "checkpoint"                       -> {"versions"}
      [] op = "result"                           -> {"results"}

\* The state in which an operation finds its plan, and the one it leaves.
From(op) ==
    CASE op = "create" -> {"none"}
      [] op \in {"update", "trash"} -> {"live"}
      [] op = "purge" -> {"trash"}
      [] OTHER -> {"live", "trash"}
To(op, was) ==
    CASE op \in {"create", "restore"} -> "live"
      [] op = "trash" -> "trash"
      [] op = "purge" -> "removed"
      [] OTHER -> was

\* The plan's row is locked by what writes it, and a delete of it waits for, and
\* keeps out, every writer of its versions and results.
LocksPlan(op) == op \notin {"checkpoint", "result"}
Waits(op, other) ==
    \/ LocksPlan(op) /\ LocksPlan(other.op)
    \/ op = "purge" \/ other.op = "purge"

\* The change itself.  The purges of plans and of results change several at once.
Write(t, op, ps) ==
    /\ tx[t].pc = "idle"
    /\ ps # {} /\ (op \notin {"purge", "result"} => Cardinality(ps) = 1)
    /\ \A p \in ps : state[p] \in From(op)
    /\ \A o \in Txs : tx[o].pc # "idle" /\ tx[o].plans \cap ps # {} => ~Waits(op, tx[o])
    /\ tx' = [tx EXCEPT ![t] = [pc |-> "written", op |-> op, plans |-> ps, first |-> 0]]
    /\ UNCHANGED <<server, client, poll>>

\* advance: the clock's row is locked until the transaction ends, by the one that
\* first writes it too.
\*
\* Mutant of ClockFree: the value comes from a counter that is not locked.
ClockAny == TRUE
ClockFree == \A o \in Txs : tx[o].pc # "advanced"

Advance(t) ==
    /\ tx[t].pc = "written"
    /\ ClockFree
    /\ clock.value + Cardinality(tx[t].plans \X PartsOf(tx[t].op)) <= MaxClock
    /\ tx' = [tx EXCEPT ![t].pc = "advanced", ![t].first = clock.value + 1]
    /\ UNCHANGED <<server, client, poll>>

\* The stamps of one transaction, in the order of its list: the plans in any
\* order, the project before the versions.
Stampings(stamped, first) ==
    {f \in [stamped -> first .. first + Cardinality(stamped) - 1] :
        /\ \A x, y \in stamped : f[x] = f[y] => x = y
        /\ \A x, y \in stamped : PlanOf(x) = PlanOf(y) /\ x[2] = "project" => f[x] <= f[y]}

\* The clock's epoch, or the one startClock draws: 64 random bits do not repeat.
\*
\* Mutant of Epoch: a new clock keeps the name it had.
EpochKept == IF clock.epoch # NoEpoch THEN {clock.epoch}
             ELSE IF used = {} THEN Epochs ELSE used
Epoch == IF clock.epoch # NoEpoch THEN {clock.epoch} ELSE Epochs \ used

\* Mutant of Tombs: a purge leaves the plan's other stamps.
NoTombs(t) == {}
\* The rows entomb removes from plan_changes.
Tombs(t) == IF tx[t].op = "purge" THEN tx[t].plans \X (Parts \ {"project"}) ELSE {}

Commit(t) ==
    LET ps == tx[t].plans
        stamped == ps \X PartsOf(tx[t].op)
    IN  /\ tx[t].pc = "advanced"
        /\ \E stamp \in Stampings(stamped, tx[t].first) :
              seq' = [x \in Items |-> IF x \in stamped THEN stamp[x]
                                      ELSE IF x \in Tombs(t) THEN 0 ELSE seq[x]]
        /\ \E epoch \in Epoch :
              /\ clock' = [epoch |-> epoch, value |-> tx[t].first + Cardinality(stamped) - 1]
              /\ used' = used \cup {epoch}
        /\ state' = [p \in Plans |-> IF p \in ps THEN To(tx[t].op, state[p]) ELSE state[p]]
        /\ data' = [x \in Items |->
              IF tx[t].op = "purge" /\ PlanOf(x) \in ps THEN 0
              ELSE IF x \in stamped THEN data[x] + 1 ELSE data[x]]
        /\ tx' = [tx EXCEPT ![t] = IdleTx]
        /\ UNCHANGED <<client, poll>>

Rollback(t) ==
    /\ tx[t].pc # "idle"
    /\ tx' = [tx EXCEPT ![t] = IdleTx]
    /\ UNCHANGED <<server, client, poll>>

\* The database is made again: nothing of it is left, its ids may be drawn again,
\* requests end with the process, and answers may still be on their way.
Remake ==
    /\ clock.epoch # NoEpoch /\ Epochs \ used # {}
    /\ clock' = [epoch |-> NoEpoch, value |-> 0]
    /\ state' = [p \in Plans |-> "none"]
    /\ data' = [x \in Items |-> 0]
    /\ seq' = [x \in Items |-> 0]
    /\ tx' = [t \in Txs |-> IdleTx]
    /\ poll' = [d \in Desktops |-> IF poll[d].pc = "asked" THEN IdlePoll ELSE poll[d]]
    /\ UNCHANGED <<used, client>>

-----------------------------------------------------------------------------
(* A poll. *)

\* Changes reads the clock, and writes it when there is none.
Clock(d) ==
    /\ poll[d].pc = "idle"
    /\ clock.epoch = NoEpoch => ClockFree
    /\ \E epoch \in Epoch :
          /\ clock' = [clock EXCEPT !.epoch = epoch]
          /\ used' = used \cup {epoch}
          /\ poll' = [poll EXCEPT ![d] = [IdlePoll EXCEPT !.pc = "asked", !.epoch = epoch,
                                                         !.seq = clock.value]]
    /\ UNCHANGED <<state, data, seq, tx, client>>

\* The first Page rows after the point.
After(since) == {x \in Items : seq[x] > since}
Listed(since) == {x \in After(since) : Cardinality({y \in After(since) : seq[y] < seq[x]}) < Page}

Answer(d, point, answer) ==
    poll' = [poll EXCEPT ![d] = [pc |-> "answered", epoch |-> poll[d].epoch,
                                 seq |-> point, answer |-> answer]]

\* Changes answers: everything again, nothing, or one page.
\*
\* Mutant of NextPoint: the answer names the clock it read first as the next point.
NextPointNow(d) == poll[d].seq
NextPoint(d) ==
    LET last == {seq[x] : x \in Listed(cursor[d].seq)}
    IN  IF last = {} THEN cursor[d].seq ELSE CHOOSE s \in last : \A o \in last : o <= s

Changes(d) ==
    /\ poll[d].pc = "asked"
    /\ IF cursor[d].epoch # poll[d].epoch \/ cursor[d].seq > poll[d].seq
       THEN Answer(d, poll[d].seq, [NoAnswer EXCEPT !.reset = TRUE])
       ELSE IF cursor[d].seq = poll[d].seq THEN Answer(d, cursor[d].seq, NoAnswer)
       ELSE LET listed == Listed(cursor[d].seq)
            IN  Answer(d, NextPoint(d),
                       [reset |-> FALSE, items |-> listed,
                        gone |-> {p \in Plans : state[p] = "removed" /\ \E x \in listed : PlanOf(x) = p}])
    /\ UNCHANGED <<server, tx, client>>

\* The desktop keeps the point, then forgets what is gone and reads the rest.
Receive(d) ==
    LET answer == poll[d].answer
        forgotten == ItemsOf(answer.gone)
    IN  /\ poll[d].pc = "answered"
        /\ cursor' = [cursor EXCEPT ![d] = [epoch |-> poll[d].epoch, seq |-> poll[d].seq]]
        /\ todo' = [todo EXCEPT ![d] = IF answer.reset THEN Items
                                       ELSE (@ \cup answer.items) \ forgotten]
        /\ copy' = [copy EXCEPT ![d] = [x \in Items |-> IF x \in forgotten THEN 0 ELSE @[x]]]
        /\ poll' = [poll EXCEPT ![d] = IdlePoll]
        /\ UNCHANGED <<server, tx>>

\* The request fails or its answer is lost.
Lose(d) ==
    /\ poll[d].pc # "idle"
    /\ poll' = [poll EXCEPT ![d] = IdlePoll]
    /\ UNCHANGED <<server, tx, client>>

Read(d, x) ==
    /\ x \in todo[d]
    /\ copy' = [copy EXCEPT ![d][x] = data[x]]
    /\ todo' = [todo EXCEPT ![d] = @ \ {x}]
    /\ UNCHANGED <<server, tx, cursor, poll>>

-----------------------------------------------------------------------------
TxStep(t) == Advance(t) \/ Commit(t)

Next ==
    \/ \E t \in Txs :
          \/ \E op \in Ops, ps \in SUBSET Plans : Write(t, op, ps)
          \/ TxStep(t) \/ Rollback(t)
    \/ Remake
    \/ \E d \in Desktops :
          \/ Clock(d) \/ Changes(d) \/ Receive(d) \/ Lose(d)
          \/ \E x \in Items : Read(d, x)

Spec == Init /\ [][Next]_vars

\* A transaction ends, a desktop polls again and again, and of requests and
\* answers without end not all are lost.
Fairness ==
    /\ \A t \in Txs : WF_vars(TxStep(t) \/ Rollback(t))
    /\ \A d \in Desktops :
          /\ SF_vars(Clock(d)) /\ SF_vars(Changes(d)) /\ SF_vars(Receive(d))
          /\ \A x \in Items : WF_vars(Read(d, x))

FairSpec == Spec /\ Fairness

-----------------------------------------------------------------------------
Answers == [reset : BOOLEAN, items : SUBSET Items, gone : SUBSET Plans]

TypeOK ==
    /\ state \in [Plans -> {"none", "live", "trash", "removed"}]
    /\ data \in [Items -> Nat]
    /\ seq \in [Items -> Nat]
    /\ clock \in [epoch : Epochs \cup {NoEpoch}, value : Nat]
    /\ used \subseteq Epochs
    /\ tx \in [Txs -> [pc : {"idle", "written", "advanced"}, op : Ops \cup {"none"},
                       plans : SUBSET Plans, first : Nat]]
    /\ cursor \in [Desktops -> [epoch : Epochs \cup {NoEpoch}, seq : Nat]]
    /\ poll \in [Desktops -> [pc : {"idle", "asked", "answered"}, epoch : Epochs \cup {NoEpoch},
                              seq : Nat, answer : Answers]]
    /\ todo \in [Desktops -> SUBSET Items]
    /\ copy \in [Desktops -> [Items -> Nat]]

\* What a desktop has still to read: what it was told and what the next polls
\* will tell it.
Stale(d) ==
    IF cursor[d].epoch = NoEpoch \/ cursor[d].epoch # clock.epoch THEN Items
    ELSE todo[d] \cup After(cursor[d].seq)
         \cup {x \in Items : state[PlanOf(x)] = "removed" /\ <<PlanOf(x), "project">> \in After(cursor[d].seq)}

\* However transactions overlap, whatever answers are lost and however often the
\* database is made again, a desktop whose copy differs from the server will be
\* told to read that part (Repository.stamp, Repository.Changes).
NoMiss == \A d \in Desktops, x \in Items : copy[d][x] # data[x] => x \in Stale(d)

\* No two parts share a stamp and none is past the clock, so neither the point at
\* which a poll stops early nor the end of a page hides a row
\* (Repository.advance, Repository.Changes).
Ordered ==
    /\ \A x \in Items : seq[x] <= clock.value
    /\ \A x, y \in Items : seq[x] = seq[y] /\ seq[x] # 0 => x = y

\* A plan that was removed for good keeps one stamp, whatever was being written
\* of it meanwhile (Repository.entomb).
TombAlone ==
    \A x \in Items : state[PlanOf(x)] = "removed" /\ seq[x] # 0 => x[2] = "project"

\* Every row a poll may meet has a place of its own in the order, and nothing of
\* a plan that is gone stands before the word that it went (Repository.stamp).
StampsAlone == Ordered /\ TombAlone

\* A change marks its parts for every desktop in the moment it commits, and only
\* a read clears a mark.
M == INSTANCE Mirror WITH stale <- [d \in Desktops |-> Stale(d)]
Mirrors == M!Spec

\* Once nothing changes any more every desktop comes to hold what the server
\* holds.
CatchesUp == <>[](\A d \in Desktops : copy[d] = data)
=============================================================================
