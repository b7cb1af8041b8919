-------------------------- MODULE SolveRunnerProofs --------------------------
(***************************************************************************)
(* Proofs about SolveRunner, for every set of jobs, plans, nodes, limits   *)
(* and watchers.                                                           *)
(***************************************************************************)
EXTENDS SolveRunner, TLAPS, FiniteSetTheorems

-----------------------------------------------------------------------------
(* Type correctness. *)

Places == {"idle", "opened", "brokered", "subscribed", "relaying", "final", "settled"}

LEMMA PcType ==
  ASSUME NEW f \in [Watchers -> Streams], NEW w \in Watchers, NEW pc \in Places
  PROVE  [f EXCEPT ![w].pc = pc] \in [Watchers -> Streams]
  <1> f[w] \in Streams
    OBVIOUS
  <1>1. [f[w] EXCEPT !.pc = pc] \in Streams
    BY DEF Streams, Places
  <1> QED
    BY <1>1

LEMMA AttachType ==
  ASSUME NEW f \in [Watchers -> Streams], NEW w \in Watchers, NEW pc \in Places, NEW a \in BOOLEAN
  PROVE  [f EXCEPT ![w].pc = pc, ![w].attached = a] \in [Watchers -> Streams]
  <1> f[w] \in Streams
    OBVIOUS
  <1>1. [f[w] EXCEPT !.pc = pc, !.attached = a] \in Streams
    BY DEF Streams, Places
  <1> QED
    BY <1>1

LEMMA HeardType ==
  ASSUME NEW s \in Streams
  PROVE  [s EXCEPT !.heard = TRUE] \in Streams
  BY DEF Streams

LEMMA TypeInit == Init => TypeOK
  BY RunnerAssumption DEF Init, TypeOK, Terminal, Goroutine, IdleStop, Stream, IdleWatch, Streams

LEMMA TypeNext == TypeOK /\ [Next]_vars => TypeOK'
  <1> SUFFICES ASSUME TypeOK, [Next]_vars PROVE TypeOK'
    OBVIOUS
  <1>1. CASE \E j \in Jobs : Ask(j)
    BY <1>1, RunnerAssumption
    DEF Ask, Step, TypeOK, Terminal, Goroutine, vars, jobVars, worldVars, stopVars, history
  <1>2. CASE \E j \in Jobs : Refuse(j)
    BY <1>2, RunnerAssumption
    DEF Refuse, TypeOK, Terminal, Goroutine, vars, jobVars, worldVars, stopVars, history
  <1>3. CASE \E j \in Jobs : OpenRow(j)
    BY <1>3, RunnerAssumption
    DEF OpenRow, Step, TypeOK, Terminal, Goroutine, vars, jobVars, worldVars, stopVars, history
  <1>4. CASE \E j \in Jobs : Register(j)
    BY <1>4, RunnerAssumption
    DEF Register, TypeOK, Terminal, Goroutine, vars, jobVars, worldVars, stopVars, history
  <1>5. CASE \E j \in Jobs : CheckLive(j)
    BY <1>5, RunnerAssumption
    DEF CheckLive, Step, TypeOK, Terminal, Goroutine, vars, jobVars, worldVars, stopVars, history
  <1>6. CASE \E j \in Jobs : CheckNode(j)
    BY <1>6, RunnerAssumption
    DEF CheckNode, Step, TypeOK, Terminal, Goroutine, vars, jobVars, worldVars, stopVars, history
  <1>7. CASE \E j \in Jobs : Dial(j)
    BY <1>7, RunnerAssumption
    DEF Dial, Step, TypeOK, Terminal, Goroutine, vars, jobVars, worldVars, stopVars, history
  <1>8. CASE \E j \in Jobs : StartRow(j)
    BY <1>8, RunnerAssumption
    DEF StartRow, Step, TypeOK, Terminal, Goroutine, vars, jobVars, worldVars, stopVars, history
  <1>9. CASE \E j \in Jobs : Attempt(j)
    BY <1>9, RunnerAssumption
    DEF Attempt, Step, TypeOK, Terminal, Goroutine, vars, jobVars, worldVars, stopVars, history
  <1>10. CASE \E j \in Jobs, status \in Terminal, found \in BOOLEAN : SolveEnds(j, status, found)
    BY <1>10, RunnerAssumption
    DEF SolveEnds, Step, TypeOK, Terminal, Goroutine, vars, jobVars, worldVars, stopVars, history
  <1>11. CASE \E j \in Jobs : Persist(j)
    BY <1>11, RunnerAssumption
    DEF Persist, Step, TypeOK, Terminal, Goroutine, vars, jobVars, worldVars, stopVars, history
  <1>12. CASE \E j \in Jobs : Finish(j)
    BY <1>12, RunnerAssumption
    DEF Finish, Step, Open, TypeOK, Terminal, Goroutine, vars, jobVars, worldVars, stopVars, history
  <1>13. CASE \E j \in Jobs, dropped \in SUBSET Watchers : Publish(j, dropped)
    <2> PICK j \in Jobs, dropped \in SUBSET Watchers : Publish(j, dropped)
      BY <1>13
    <2>1. watch' = [w \in Watchers |->
             IF watch[w].attached /\ watch[w].job = j /\ w \notin dropped
             THEN [watch[w] EXCEPT !.heard = TRUE] ELSE watch[w]]
      BY DEF Publish
    <2>2. \A w \in Watchers : [watch[w] EXCEPT !.heard = TRUE] \in Streams
      BY HeardType DEF TypeOK
    <2>4. watch' \in [Watchers -> Streams]
      BY <2>1, <2>2 DEF TypeOK
    <2> QED
      BY <2>4 DEF Publish, Step, TypeOK, Goroutine, vars, jobVars, worldVars, stopVars, history
  <1>14. CASE \E j \in Jobs : Cleanup(j)
    BY <1>14, RunnerAssumption
    DEF Cleanup, Step, TypeOK, Terminal, Goroutine, vars, jobVars, worldVars, stopVars, history
  <1>15. CASE \E j \in Jobs : Cancel(j)
    BY <1>15, RunnerAssumption
    DEF Cancel, TypeOK, Terminal, Goroutine, vars, jobVars, worldVars, stopVars, history
  <1>16. CASE \E j \in Jobs, n \in Nodes : Admit(j, n)
    BY <1>16, RunnerAssumption
    DEF Admit, Step, TypeOK, Terminal, Goroutine, vars, jobVars, worldVars, stopVars, history
  <1>17. CASE \E p \in Plans : DeleteFirst(p)
    BY <1>17, RunnerAssumption
    DEF DeleteFirst, OfPlan, TypeOK, Terminal, Goroutine, vars, jobVars, worldVars, stopVars, history
  <1>18. CASE \E p \in Plans : DeleteTrash(p)
    <2> PICK p \in Plans : DeleteTrash(p)
      BY <1>18
    <2>1. plan' \in [Plans -> {"live", "trash", "purged"}]
      BY DEF DeleteTrash, TypeOK
    <2>2. deleting' \in [Plans -> [pc : {"idle", "first", "moved", "second"}, waits : SUBSET Jobs]]
      BY DEF DeleteTrash, TypeOK, IdleStop
    <2> QED
      BY <2>1, <2>2 DEF DeleteTrash, TypeOK, Goroutine, vars, jobVars, worldVars, stopVars, history
  <1>19. CASE \E p \in Plans : DeleteSecond(p)
    BY <1>19, RunnerAssumption
    DEF DeleteSecond, OfPlan, TypeOK, Terminal, Goroutine, vars, jobVars, worldVars, stopVars, history
  <1>20. CASE \E p \in Plans : DeleteAnswer(p)
    BY <1>20, RunnerAssumption
    DEF DeleteAnswer, IdleStop, TypeOK, Terminal, Goroutine, vars, jobVars, worldVars, stopVars, history
  <1>21. CASE \E p \in Plans : DeleteAbandoned(p)
    BY <1>21, RunnerAssumption
    DEF DeleteAbandoned, IdleStop, TypeOK, Terminal, Goroutine, vars, jobVars, worldVars, stopVars, history
  <1>22. CASE \E p \in Plans : RestorePlan(p)
    BY <1>22, RunnerAssumption
    DEF RestorePlan, TypeOK, Terminal, Goroutine, vars, jobVars, worldVars, stopVars, history
  <1>23. CASE \E p \in Plans : PurgePlan(p)
    BY <1>23, RunnerAssumption
    DEF PurgePlan, TypeOK, Terminal, Goroutine, vars, jobVars, worldVars, stopVars, history
  <1>24. CASE \E n \in Nodes : RevokeNode(n)
    BY <1>24, RunnerAssumption
    DEF RevokeNode, TypeOK, Terminal, Goroutine, vars, jobVars, worldVars, stopVars, history
  <1>25. CASE \E n \in Nodes : RevokeCancel(n)
    BY <1>25, RunnerAssumption
    DEF RevokeCancel, OnNode, TypeOK, Terminal, Goroutine, vars, jobVars, worldVars, stopVars, history
  <1>26. CASE \E n \in Nodes : RevokeAnswer(n)
    BY <1>26, RunnerAssumption
    DEF RevokeAnswer, IdleStop, TypeOK, Terminal, Goroutine, vars, jobVars, worldVars, stopVars, history
  <1>27. CASE \E n \in Nodes : RevokeAbandoned(n)
    BY <1>27, RunnerAssumption
    DEF RevokeAbandoned, IdleStop, TypeOK, Terminal, Goroutine, vars, jobVars, worldVars, stopVars, history
  <1>28. CASE \E n \in Nodes : RevokeElsewhere(n)
    BY <1>28, RunnerAssumption
    DEF RevokeElsewhere, TypeOK, Terminal, Goroutine, vars, jobVars, worldVars, stopVars, history
  <1>29. CASE \E n \in Nodes, most \in Limits : Pair(n, most)
    BY <1>29, RunnerAssumption
    DEF Pair, TypeOK, Terminal, Goroutine, vars, jobVars, worldVars, stopVars, history
  <1>30. CASE \E n \in Nodes, most \in Limits : UpdateNode(n, most)
    BY <1>30, RunnerAssumption
    DEF UpdateNode, TypeOK, Terminal, Goroutine, vars, jobVars, worldVars, stopVars, history
  <1>31. CASE \E w \in Watchers, j \in Jobs : WatchOpen(w, j)
    BY <1>31, RunnerAssumption
    DEF WatchOpen, Stream, Streams, TypeOK, Terminal, Goroutine, vars, jobVars, worldVars, stopVars, history
  <1>32. CASE \E w \in Watchers : WatchBroker(w)
    <2> PICK w \in Watchers : WatchBroker(w)
      BY <1>32
    <2>1. watch' \in [Watchers -> Streams]
      BY PcType DEF WatchBroker, TypeOK, Places
    <2> QED
      BY <2>1 DEF WatchBroker, TypeOK, Goroutine, vars, jobVars, worldVars, stopVars, history
  <1>33. CASE \E w \in Watchers : WatchSubscribe(w)
    <2> PICK w \in Watchers : WatchSubscribe(w)
      BY <1>33
    <2>1. watch \in [Watchers -> Streams] /\ "subscribed" \in Places
      BY DEF TypeOK, Places
    <2> DEFINE a == watch[w].job \in running
    <2>2. watch' = [watch EXCEPT ![w].pc = "subscribed", ![w].attached = a] /\ a \in BOOLEAN
      BY DEF WatchSubscribe
    <2> HIDE DEF a
    <2>3. watch' \in [Watchers -> Streams]
      BY <2>1, <2>2, AttachType
    <2> QED
      BY <2>3 DEF WatchSubscribe, TypeOK, Goroutine, vars, jobVars, worldVars, stopVars, history
  <1>34. CASE \E w \in Watchers : WatchReread(w)
    <2> PICK w \in Watchers : WatchReread(w)
      BY <1>34
    <2>1. watch' \in [Watchers -> Streams]
      BY PcType DEF WatchReread, TypeOK, Places
    <2> QED
      BY <2>1 DEF WatchReread, TypeOK, Goroutine, vars, jobVars, worldVars, stopVars, history
  <1>35. CASE \E w \in Watchers : WatchRelay(w)
    <2> PICK w \in Watchers : WatchRelay(w)
      BY <1>35
    <2>1. watch \in [Watchers -> Streams] /\ "settled" \in Places /\ "final" \in Places
      BY DEF TypeOK, Places
    <2>2. \E pc \in {"settled", "final"} : watch' = [watch EXCEPT ![w].pc = pc]
      BY DEF WatchRelay
    <2>3. watch' \in [Watchers -> Streams]
      BY <2>1, <2>2, PcType
    <2> QED
      BY <2>3 DEF WatchRelay, TypeOK, Goroutine, vars, jobVars, worldVars, stopVars, history
  <1>36. CASE \E w \in Watchers : WatchFinal(w)
    <2> PICK w \in Watchers : WatchFinal(w)
      BY <1>36
    <2>4. watch' \in [Watchers -> Streams]
      BY PcType DEF WatchFinal, TypeOK, Places
    <2> QED
      BY <2>4 DEF WatchFinal, TypeOK, vars, jobVars, worldVars, stopVars, history
  <1>37. CASE \E w \in Watchers : WatchLeave(w)
    BY <1>37, RunnerAssumption
    DEF WatchLeave, Stream, IdleWatch, Streams, TypeOK, Terminal, Goroutine, vars, jobVars, worldVars, stopVars, history
  <1>38. CASE Close
    BY <1>38, RunnerAssumption
    DEF Close, TypeOK, Terminal, Goroutine, vars, jobVars, worldVars, stopVars, history
  <1>39. CASE CloseReturns
    BY <1>39, RunnerAssumption
    DEF CloseReturns, TypeOK, Terminal, Goroutine, vars, jobVars, worldVars, stopVars, history
  <1>40. CASE Boot
    BY <1>40, RunnerAssumption
    DEF Boot, Open, IdleStop, IdleWatch, Stream, Streams, TypeOK, Terminal, Goroutine, vars, jobVars, worldVars, stopVars, history
  <1>41. CASE UNCHANGED vars
    BY <1>41, RunnerAssumption
    DEF TypeOK, Terminal, Goroutine, vars, jobVars, worldVars, stopVars, history
  <1> QED
    BY <1>1, <1>2, <1>3, <1>4, <1>5, <1>6, <1>7, <1>8, <1>9, <1>10, <1>11,
       <1>12, <1>13, <1>14, <1>15, <1>16, <1>17, <1>18, <1>19, <1>20, <1>21, <1>22,
       <1>23, <1>24, <1>25, <1>26, <1>27, <1>28, <1>29, <1>30, <1>31, <1>32, <1>33,
       <1>34, <1>35, <1>36, <1>37, <1>38, <1>39, <1>40, <1>41
       DEF Next, JobStep, DeleteStep, RevokeStep, WatchStep

-----------------------------------------------------------------------------
(* What stops a solve.  The runner's map, the goroutine and the row move in   *)
(* step, which is what lets a canceller that looks only at the map find every *)
(* solve that passed the checks.                                              *)

JobOK(j) ==
    /\ j \in running <=> task[j] \in Goroutine
    /\ task[j] \in {"idle", "asked", "counted"} <=> row[j] = "none"
    /\ task[j] \notin {"idle", "asked"} => node[j] \in Nodes
    /\ task[j] \in {"opened"} \cup (Goroutine \ {"closed", "told"}) =>
          row[j] \in {"pending", "running", "gone"}
    /\ task[j] \in {"closed", "told", "gone"} /\ Open(j) => j \in lost
    /\ task[j] \in {"ended", "kept"} => ending[j] \in Terminal
    /\ task[j] = "ended" /\ ending[j] = "done" => j \in schedule
    /\ task[j] = "kept" /\ ending[j] = "done" => j \in kept
    /\ row[j] = "done" => j \in kept
JobInv == \A j \in Jobs : JobOK(j)

\* Steps of a stopper, of a watcher and of the outside world leave the jobs
\* alone, but for the contexts they cancel.
Quiet ==
    /\ UNCHANGED <<row, node, task, running, ending, schedule, kept, lost>>
    /\ stopped \subseteq stopped'

LEMMA JobInit == Init => JobInv
  BY DEF Init, JobInv, JobOK, Goroutine, Open

OtherStep ==
    \/ \E j \in Jobs : Cancel(j)
    \/ \E p \in Plans : DeleteFirst(p) \/ DeleteStep(p) \/ DeleteAbandoned(p) \/ RestorePlan(p)
    \/ \E n \in Nodes : RevokeNode(n) \/ RevokeStep(n) \/ RevokeAbandoned(n) \/ RevokeElsewhere(n)
    \/ \E n \in Nodes, most \in Limits : Pair(n, most) \/ UpdateNode(n, most)
    \/ Close \/ CloseReturns
    \/ \E w \in Watchers : (\E j \in Jobs : WatchOpen(w, j)) \/ WatchStep(w) \/ WatchLeave(w)

LEMMA QuietSteps == OtherStep \/ UNCHANGED vars => Quiet
  <1>1. ASSUME NEW p \in Plans, DeleteFirst(p) \/ DeleteStep(p) \/ DeleteAbandoned(p) \/ RestorePlan(p)
        PROVE  Quiet
    BY <1>1 DEF Quiet, DeleteFirst, DeleteStep, DeleteTrash, DeleteSecond, DeleteAnswer, DeleteAbandoned,
       RestorePlan, jobVars, worldVars, stopVars, history
  <1>2. ASSUME NEW n \in Nodes, RevokeNode(n) \/ RevokeStep(n) \/ RevokeAbandoned(n) \/ RevokeElsewhere(n)
        PROVE  Quiet
    BY <1>2 DEF Quiet, RevokeNode, RevokeStep, RevokeCancel, RevokeAnswer, RevokeAbandoned, RevokeElsewhere,
       jobVars, worldVars, stopVars, history
  <1>3. ASSUME NEW w \in Watchers, (\E j \in Jobs : WatchOpen(w, j)) \/ WatchStep(w) \/ WatchLeave(w)
        PROVE  Quiet
    BY <1>3 DEF Quiet, WatchOpen, WatchStep, WatchBroker, WatchSubscribe, WatchReread, WatchRelay, WatchFinal,
       WatchLeave, jobVars, worldVars, stopVars, history
  <1>4. ASSUME \/ \E j \in Jobs : Cancel(j)
               \/ \E n \in Nodes, most \in Limits : Pair(n, most) \/ UpdateNode(n, most)
               \/ Close \/ CloseReturns \/ UNCHANGED vars
        PROVE  Quiet
    BY <1>4 DEF Quiet, Cancel, Pair, UpdateNode, Close, CloseReturns, vars, jobVars, worldVars, stopVars, history
  <1> QED
    BY <1>1, <1>2, <1>3, <1>4 DEF OtherStep

LEMMA JobNext == TypeOK /\ JobInv /\ [Next]_vars => JobInv'
  <1> SUFFICES ASSUME TypeOK, JobInv, [Next]_vars, NEW i \in Jobs PROVE JobOK(i)'
    BY DEF JobInv
  <1>a. JobOK(i)
    BY DEF JobInv
  <1> USE DEF JobOK, Open, Goroutine, Terminal, TypeOK
  <1>1. CASE \E j \in Jobs : Ask(j)
    BY <1>1, <1>a DEF Ask, Step, history
  <1>2. CASE \E j \in Jobs : Refuse(j)
    BY <1>2, <1>a DEF Refuse, history
  <1>3. CASE \E j \in Jobs : OpenRow(j)
    BY <1>3, <1>a DEF OpenRow, Step, history
  <1>4. CASE \E j \in Jobs : Register(j)
    BY <1>4, <1>a DEF Register, history
  <1>5. CASE \E j \in Jobs : CheckLive(j)
    BY <1>5, <1>a DEF CheckLive, Step, history
  <1>6. CASE \E j \in Jobs : CheckNode(j)
    BY <1>6, <1>a DEF CheckNode, Step, history
  <1>7. CASE \E j \in Jobs : Dial(j)
    BY <1>7, <1>a DEF Dial, Step, history
  <1>8. CASE \E j \in Jobs : StartRow(j)
    BY <1>8, <1>a DEF StartRow, Step, history
  <1>9. CASE \E j \in Jobs : Attempt(j)
    BY <1>9, <1>a DEF Attempt, Step, history
  <1>10. CASE \E j \in Jobs, status \in Terminal, found \in BOOLEAN : SolveEnds(j, status, found)
    BY <1>10, <1>a DEF SolveEnds, Step, history
  <1>11. CASE \E j \in Jobs : Persist(j)
    BY <1>11, <1>a DEF Persist, Step, history
  <1>12. CASE \E j \in Jobs : Finish(j)
    BY <1>12, <1>a DEF Finish, Step, history
  <1>13. CASE \E j \in Jobs, dropped \in SUBSET Watchers : Publish(j, dropped)
    BY <1>13, <1>a DEF Publish, Step, history
  <1>14. CASE \E j \in Jobs : Cleanup(j)
    BY <1>14, <1>a DEF Cleanup, Step, history
  <1>15. CASE \E j \in Jobs, n \in Nodes : Admit(j, n)
    BY <1>15, <1>a DEF Admit, Step, history
  <1>16. CASE \E p \in Plans : PurgePlan(p)
    BY <1>16, <1>a DEF PurgePlan, history
  <1>17. CASE Boot
    BY <1>17, <1>a DEF Boot, history
  <1>18. CASE OtherStep \/ UNCHANGED vars
    BY <1>18, <1>a, QuietSteps DEF Quiet
  <1> HIDE DEF JobOK, Open, Goroutine, Terminal, TypeOK
  <1> QED
    BY <1>1, <1>2, <1>3, <1>4, <1>5, <1>6, <1>7, <1>8, <1>9, <1>10, <1>11, <1>12,
       <1>13, <1>14, <1>15, <1>16, <1>17, <1>18
    DEF Next, JobStep, OtherStep

LEMMA TypedJobs == Spec => [](TypeOK /\ JobInv)
  <1>1. Init => TypeOK /\ JobInv
    BY TypeInit, JobInit
  <1>2. TypeOK /\ JobInv /\ [Next]_vars => (TypeOK /\ JobInv)'
    BY TypeNext, JobNext
  <1> QED
    BY <1>1, <1>2, PTL DEF Spec

\* Type correctness, and for every number of jobs and nodes: a done job has its
\* timetable stored (Dispatcher.Finish, Results.Keep).
THEOREM DoneKeptTheorem == Spec => [](TypeOK /\ DoneKept)
  <1>1. JobInv => DoneKept
    BY DEF JobInv, JobOK, DoneKept
  <1> QED
    BY <1>1, TypedJobs, PTL

\* An open row always has someone who will close it, or the write that should
\* have closed it failed (Runner.Start, Runner.run).
THEOREM OpenOwnedTheorem == Spec => []OpenOwned
  <1>1. TypeOK /\ JobInv => OpenOwned
    BY DEF JobInv, JobOK, OpenOwned, Open, TypeOK, Goroutine
  <1> QED
    BY <1>1, TypedJobs, PTL

-----------------------------------------------------------------------------
(* A cancel that is never missed. *)

StopOK(j) ==
    /\ plan[PlanOf[j]] # "live" /\ deleting[PlanOf[j]].pc # "moved"
         /\ task[j] \in {"live", "vetted", "streaming", "solving"} => j \in stopped
    /\ node[j] \in barred /\ task[j] \in {"vetted", "streaming", "solving"} => j \in stopped
    /\ shutdown = "closed" => j \notin running
StopInv == barred \subseteq revoked /\ \A j \in Jobs : StopOK(j)

LEMMA StopInit == Init => StopInv
  BY DEF Init, StopInv, StopOK

LEMMA WatchFrame ==
  ASSUME NEW w \in Watchers, (\E j \in Jobs : WatchOpen(w, j)) \/ WatchStep(w) \/ WatchLeave(w)
  PROVE  UNCHANGED <<jobVars, worldVars, stopVars, history>>
  BY DEF WatchOpen, WatchStep, WatchBroker, WatchSubscribe, WatchReread, WatchRelay, WatchFinal, WatchLeave

LEMMA StopNext == TypeOK /\ JobInv /\ StopInv /\ [Next]_vars => StopInv'
  <1> SUFFICES ASSUME TypeOK, JobInv, StopInv, [Next]_vars, NEW i \in Jobs
               PROVE  barred' \subseteq revoked' /\ StopOK(i)'
    BY RunnerAssumption DEF StopInv
  <1>a. JobOK(i) /\ StopOK(i) /\ barred \subseteq revoked /\ PlanOf[i] \in Plans
    BY RunnerAssumption DEF JobInv, StopInv
  <1> USE DEF JobOK, StopOK, Goroutine, TypeOK
  <1>1. CASE \E j \in Jobs : Ask(j)
    BY <1>1, <1>a DEF Ask, Step, worldVars, stopVars, history
  <1>2. CASE \E j \in Jobs : Refuse(j)
    BY <1>2, <1>a DEF Refuse, worldVars, stopVars, history
  <1>3. CASE \E j \in Jobs : OpenRow(j)
    BY <1>3, <1>a DEF OpenRow, Step, worldVars, stopVars, history
  <1>4. CASE \E j \in Jobs : Register(j)
    BY <1>4, <1>a DEF Register, worldVars, stopVars, history
  <1>5. CASE \E j \in Jobs : CheckLive(j)
    BY <1>5, <1>a DEF CheckLive, Step, worldVars, stopVars, history
  <1>6. CASE \E j \in Jobs : CheckNode(j)
    BY <1>6, <1>a DEF CheckNode, Step, worldVars, stopVars, history
  <1>7. CASE \E j \in Jobs : Dial(j)
    BY <1>7, <1>a DEF Dial, Step, worldVars, stopVars, history
  <1>8. CASE \E j \in Jobs : StartRow(j)
    BY <1>8, <1>a DEF StartRow, Step, worldVars, stopVars, history
  <1>9. CASE \E j \in Jobs : Attempt(j)
    BY <1>9, <1>a DEF Attempt, Step, worldVars, stopVars, history
  <1>10. CASE \E j \in Jobs, status \in Terminal, found \in BOOLEAN : SolveEnds(j, status, found)
    BY <1>10, <1>a DEF SolveEnds, Step, worldVars, stopVars, history
  <1>11. CASE \E j \in Jobs : Persist(j)
    BY <1>11, <1>a DEF Persist, Step, worldVars, stopVars, history
  <1>12. CASE \E j \in Jobs : Finish(j)
    BY <1>12, <1>a DEF Finish, Step, worldVars, stopVars, history
  <1>13. CASE \E j \in Jobs, dropped \in SUBSET Watchers : Publish(j, dropped)
    BY <1>13, <1>a DEF Publish, Step, worldVars, stopVars, history
  <1>14. CASE \E j \in Jobs : Cleanup(j)
    BY <1>14, <1>a DEF Cleanup, Step, worldVars, stopVars, history
  <1>15. CASE \E j \in Jobs, n \in Nodes : Admit(j, n)
    BY <1>15, <1>a DEF Admit, Step, worldVars, stopVars, history
  <1>16. CASE \E j \in Jobs : Cancel(j)
    BY <1>16, <1>a DEF Cancel, worldVars, stopVars, history
  <1>17. CASE \E p \in Plans : DeleteFirst(p)
    BY <1>17, <1>a DEF DeleteFirst, OfPlan, jobVars, worldVars, stopVars, history
  <1>18. CASE \E p \in Plans : DeleteTrash(p)
    <2> PICK p \in Plans : DeleteTrash(p)
      BY <1>18
    <2>1. /\ UNCHANGED <<row, node, task, stopped, running, shutdown, barred, revoked>>
          /\ deleting[p].pc = "first"
          /\ plan[p] = "live" => deleting' = [deleting EXCEPT ![p] = [pc |-> "moved", waits |-> {}]]
          /\ plan[p] # "live" => deleting' = [deleting EXCEPT ![p] = IdleStop] /\ plan' = plan
          /\ plan' = plan \/ plan' = [plan EXCEPT ![p] = "trash"]
      BY DEF DeleteTrash, jobVars, history
    <2>2. /\ PlanOf[i] # p => plan'[PlanOf[i]] = plan[PlanOf[i]]
          /\ PlanOf[i] # p => deleting'[PlanOf[i]] = deleting[PlanOf[i]]
          /\ PlanOf[i] = p /\ plan[p] = "live" => deleting'[PlanOf[i]].pc = "moved"
      BY <1>a, <2>1
    <2> QED
      BY <1>a, <2>1, <2>2
  <1>19. CASE \E p \in Plans : DeleteSecond(p)
    BY <1>19, <1>a DEF DeleteSecond, OfPlan, jobVars, worldVars, stopVars, history
  <1>20. CASE \E p \in Plans : DeleteAnswer(p)
    BY <1>20, <1>a DEF DeleteAnswer, IdleStop, jobVars, worldVars, stopVars, history
  <1>21. CASE \E p \in Plans : DeleteAbandoned(p)
    BY <1>21, <1>a DEF DeleteAbandoned, IdleStop, jobVars, worldVars, stopVars, history
  <1>22. CASE \E p \in Plans : RestorePlan(p)
    BY <1>22, <1>a DEF RestorePlan, jobVars, worldVars, stopVars, history
  <1>23. CASE \E p \in Plans : PurgePlan(p)
    BY <1>23, <1>a DEF PurgePlan, jobVars, worldVars, stopVars, history
  <1>24. CASE \E n \in Nodes : RevokeNode(n)
    BY <1>24, <1>a DEF RevokeNode, jobVars, worldVars, stopVars, history
  <1>25. CASE \E n \in Nodes : RevokeCancel(n)
    BY <1>25, <1>a DEF RevokeCancel, OnNode, jobVars, worldVars, stopVars, history
  <1>26. CASE \E n \in Nodes : RevokeAnswer(n)
    BY <1>26, <1>a DEF RevokeAnswer, jobVars, worldVars, stopVars, history
  <1>27. CASE \E n \in Nodes : RevokeAbandoned(n)
    BY <1>27, <1>a DEF RevokeAbandoned, jobVars, worldVars, stopVars, history
  <1>28. CASE \E n \in Nodes : RevokeElsewhere(n)
    BY <1>28, <1>a DEF RevokeElsewhere, jobVars, worldVars, stopVars, history
  <1>29. CASE \E n \in Nodes, most \in Limits : Pair(n, most)
    BY <1>29, <1>a DEF Pair, jobVars, worldVars, stopVars, history
  <1>30. CASE \E n \in Nodes, most \in Limits : UpdateNode(n, most)
    BY <1>30, <1>a DEF UpdateNode, jobVars, worldVars, stopVars, history
  <1>31. CASE Close
    BY <1>31, <1>a DEF Close, jobVars, worldVars, stopVars, history
  <1>32. CASE CloseReturns
    BY <1>32, <1>a DEF CloseReturns, jobVars, worldVars, stopVars, history
  <1>33. CASE Boot
    BY <1>33, <1>a DEF Boot, jobVars, worldVars, stopVars, history
  <1>34. CASE UNCHANGED vars \/ \E w \in Watchers : (\E j \in Jobs : WatchOpen(w, j)) \/ WatchStep(w) \/ WatchLeave(w)
    BY <1>34, <1>a, WatchFrame DEF vars, jobVars, worldVars, stopVars, history
  <1> HIDE DEF JobOK, StopOK, Goroutine, TypeOK
  <1> QED
    BY <1>1, <1>2, <1>3, <1>4, <1>5, <1>6, <1>7, <1>8, <1>9, <1>10, <1>11, <1>12,
       <1>13, <1>14, <1>15, <1>16, <1>17, <1>18, <1>19, <1>20, <1>21, <1>22, <1>23, <1>24,
       <1>25, <1>26, <1>27, <1>28, <1>29, <1>30, <1>31, <1>32, <1>33, <1>34
    DEF Next, JobStep, DeleteStep, RevokeStep

LEMMA TypedStops == Spec => [](TypeOK /\ JobInv /\ StopInv)
  <1>1. Init => StopInv
    BY StopInit
  <1>2. TypeOK /\ JobInv /\ StopInv /\ [Next]_vars => StopInv'
    BY StopNext
  <1> QED
    BY <1>1, <1>2, TypedJobs, PTL DEF Spec

\* Whatever the order of admissions, cancels and restores, a solve of a deleted
\* plan that passed its check is cancelled (API.DeletePlan, Dispatcher.run).
THEOREM DeletedStopsTheorem == Spec => []DeletedStops
  <1>1. StopInv => DeletedStops
    BY DEF StopInv, StopOK, DeletedStops
  <1> QED
    BY <1>1, TypedStops, PTL

\* A solve on a node whose revocation sent its cancels is cancelled, wherever it
\* was between its check and its dial (Runner.Revoke, Dispatcher.run).
THEOREM RevokedStopsTheorem == Spec => []RevokedStops
  <1>1. StopInv => RevokedStops
    BY DEF StopInv, StopOK, RevokedStops
  <1> QED
    BY <1>1, TypedStops, PTL

\* A runner that was closed carries nothing and starts nothing (Runner.Close,
\* Runner.Start).
THEOREM DrainedTheorem == Spec => []Drained
  <1>1. TypeOK /\ JobInv /\ StopInv => Drained
    BY DEF TypeOK, JobInv, JobOK, StopInv, StopOK, Drained
  <1> QED
    BY <1>1, TypedStops, PTL

-----------------------------------------------------------------------------
(* A node's slots.  Admission counts the open rows of a node and the row is     *)
(* written later; the bound holds because one admission at a time may be        *)
(* between the two, and nothing else opens a row.                               *)

SlotInv ==
    /\ \A n \in Nodes : limit[n] <= peak[n] /\ Cardinality(Active(n)) <= peak[n]
    /\ \A j \in Admitting : Cardinality(Active(node[j])) < peak[node[j]]
    /\ \A j, k \in Admitting : j = k

\* What every step but an admission and the writing of a row does to the slots.
Shrinks ==
    /\ \A n \in Nodes : /\ Active(n)' \subseteq Active(n)
                        /\ limit'[n] <= peak'[n] /\ peak[n] <= peak'[n]
    /\ \A j \in Jobs : task'[j] = "counted" => task[j] = "counted" /\ node'[j] = node[j]

LEMMA ActiveFinite == \A n : IsFiniteSet(Active(n)) /\ Cardinality(Active(n)) \in Nat
  <1> SUFFICES ASSUME NEW n PROVE IsFiniteSet(Active(n)) /\ Cardinality(Active(n)) \in Nat
    OBVIOUS
  <1>1. IsFiniteSet(Active(n))
    BY RunnerAssumption, FS_Subset DEF Active
  <1> QED
    BY <1>1, FS_CardinalityType

LEMMA SlotInit == Init => SlotInv
  <1> SUFFICES ASSUME Init PROVE SlotInv
    OBVIOUS
  <1>1. \A n \in Nodes : Active(n) = {} /\ limit[n] \in Nat
    BY RunnerAssumption DEF Init, Active, Open
  <1>2. \A n \in Nodes : Cardinality(Active(n)) = 0
    BY <1>1, FS_EmptySet
  <1> QED
    BY <1>1, <1>2 DEF Init, SlotInv, Admitting

LEMMA ShrinkKeeps ==
  ASSUME TypeOK, TypeOK', JobInv, SlotInv, Shrinks PROVE SlotInv'
  <1>1. ASSUME NEW n \in Nodes
        PROVE  Cardinality(Active(n))' \in Nat /\ Cardinality(Active(n))' <= Cardinality(Active(n))
    <2>1. Active(n)' \subseteq Active(n) /\ IsFiniteSet(Active(n))
      BY ActiveFinite DEF Shrinks
    <2> QED
      BY <2>1, FS_Subset, FS_CardinalityType
  <1>2. \A n \in Nodes : /\ limit[n] \in Nat /\ peak[n] \in Nat /\ peak'[n] \in Nat
                         /\ Cardinality(Active(n)) \in Nat
    BY ActiveFinite, RunnerAssumption DEF TypeOK
  <1>3. \A j \in Admitting' : j \in Admitting /\ node'[j] = node[j] /\ node[j] \in Nodes
    BY DEF Shrinks, Admitting, JobInv, JobOK, TypeOK
  <1>4. \A n \in Nodes : limit'[n] <= peak'[n] /\ Cardinality(Active(n))' <= peak'[n]
    BY <1>1, <1>2 DEF SlotInv, Shrinks
  <1>5. \A j \in Admitting' : Cardinality(Active(node[j])') < peak'[node[j]]
    BY <1>1, <1>2, <1>3 DEF SlotInv, Shrinks
  <1> QED
    BY <1>3, <1>4, <1>5 DEF SlotInv

LEMMA SlotAdmit ==
  ASSUME TypeOK, JobInv, SlotInv, NEW j \in Jobs, NEW n \in Nodes, Admit(j, n) PROVE SlotInv'
  <1>1. \A m \in Nodes : Active(m)' = Active(m)
    BY DEF Admit, Step, Active, Open, TypeOK, JobInv, JobOK
  <1>2. Admitting' = {j} /\ node'[j] = n /\ UNCHANGED <<limit, peak>>
    BY DEF Admit, Step, Admitting, TypeOK, worldVars, history
  <1>3. limit[n] \in Nat /\ peak[n] \in Nat /\ Cardinality(Active(n)) \in Nat
    BY ActiveFinite, RunnerAssumption DEF TypeOK
  <1>4. Cardinality(Active(n)) < peak[n]
    BY <1>3 DEF Admit, SlotInv
  <1>5. Cardinality(Active(n)') < peak'[n]
    BY <1>1, <1>2, <1>4
  <1>6. \A m \in Nodes : limit'[m] <= peak'[m] /\ Cardinality(Active(m))' <= peak'[m]
    BY <1>1, <1>2 DEF SlotInv
  <1> QED
    BY <1>2, <1>5, <1>6 DEF SlotInv

LEMMA SlotOpen ==
  ASSUME TypeOK, JobInv, SlotInv, NEW j \in Jobs, OpenRow(j) PROVE SlotInv'
  <1>n. PICK n \in Nodes : n = node[j]
    BY DEF OpenRow, Step, JobInv, JobOK
  <1>1. j \in Admitting /\ j \notin Active(n)
    BY DEF OpenRow, Step, Admitting, JobInv, JobOK, Active, Open
  <1>2. Active(n)' = Active(n) \cup {j}
    BY <1>n DEF OpenRow, Step, Active, Open, TypeOK
  <1>3. \A m \in Nodes \ {n} : Active(m)' = Active(m)
    BY <1>n DEF OpenRow, Step, Active, Open, TypeOK
  <1>4. Admitting' = {} /\ UNCHANGED <<limit, peak>>
    BY <1>1 DEF OpenRow, Step, Admitting, SlotInv, TypeOK, worldVars, history
  <1>5. Cardinality(Active(n))' = Cardinality(Active(n)) + 1
    BY <1>1, <1>2, ActiveFinite, FS_AddElement
  <1>6. peak[n] \in Nat /\ Cardinality(Active(n)) \in Nat /\ Cardinality(Active(n)) < peak[n]
    BY <1>n, <1>1, ActiveFinite, RunnerAssumption DEF TypeOK, SlotInv
  <1>7. Cardinality(Active(n))' <= peak'[n]
    BY <1>4, <1>5, <1>6
  <1>8. \A m \in Nodes : limit'[m] <= peak'[m] /\ Cardinality(Active(m))' <= peak'[m]
    <2> SUFFICES ASSUME NEW m \in Nodes
                 PROVE  limit'[m] <= peak'[m] /\ Cardinality(Active(m))' <= peak'[m]
      OBVIOUS
    <2>1. CASE m = n
      BY <2>1, <1>4, <1>7 DEF SlotInv
    <2>2. CASE m # n
      <3>1. Active(m)' = Active(m)
        BY <2>2, <1>3
      <3> QED
        BY <3>1, <1>4 DEF SlotInv
    <2> QED
      BY <2>1, <2>2
  <1> QED
    BY <1>4, <1>8 DEF SlotInv

LEMMA SlotNext == TypeOK /\ TypeOK' /\ JobInv /\ SlotInv /\ [Next]_vars => SlotInv'
  <1> SUFFICES ASSUME TypeOK, TypeOK', JobInv, SlotInv, [Next]_vars PROVE SlotInv'
    OBVIOUS
  <1>a. \A n \in Nodes : limit[n] \in Nat /\ peak[n] \in Nat /\ limit[n] <= peak[n]
    BY RunnerAssumption DEF TypeOK, SlotInv
  <1>1. CASE \E j \in Jobs : Ask(j)
    <2>1. Shrinks
      BY <1>1, <1>a DEF Ask, Step, Shrinks, Active, Open, TypeOK, worldVars, history
    <2> QED
      BY <2>1, ShrinkKeeps
  <1>2. CASE \E j \in Jobs : Refuse(j)
    <2>1. Shrinks
      BY <1>2, <1>a, RunnerAssumption DEF Refuse, Shrinks, Active, Open, TypeOK, JobInv, JobOK, worldVars, history
    <2> QED
      BY <2>1, ShrinkKeeps
  <1>3. CASE \E j \in Jobs : OpenRow(j)
    BY <1>3, SlotOpen
  <1>4. CASE \E j \in Jobs : Register(j)
    <2>1. Shrinks
      BY <1>4, <1>a DEF Register, Shrinks, Active, Open, TypeOK, worldVars, history
    <2> QED
      BY <2>1, ShrinkKeeps
  <1>5. CASE \E j \in Jobs : CheckLive(j)
    <2>1. Shrinks
      BY <1>5, <1>a DEF CheckLive, Step, Shrinks, Active, Open, TypeOK, worldVars, history
    <2> QED
      BY <2>1, ShrinkKeeps
  <1>6. CASE \E j \in Jobs : CheckNode(j)
    <2>1. Shrinks
      BY <1>6, <1>a DEF CheckNode, Step, Shrinks, Active, Open, TypeOK, worldVars, history
    <2> QED
      BY <2>1, ShrinkKeeps
  <1>7. CASE \E j \in Jobs : Dial(j)
    <2>1. Shrinks
      BY <1>7, <1>a DEF Dial, Step, Shrinks, Active, Open, TypeOK, worldVars, history
    <2> QED
      BY <2>1, ShrinkKeeps
  <1>8. CASE \E j \in Jobs : StartRow(j)
    <2>1. Shrinks
      BY <1>8, <1>a DEF StartRow, Step, Shrinks, Active, Open, TypeOK, worldVars, history
    <2> QED
      BY <2>1, ShrinkKeeps
  <1>9. CASE \E j \in Jobs : Attempt(j)
    <2>1. Shrinks
      BY <1>9, <1>a DEF Attempt, Step, Shrinks, Active, Open, TypeOK, worldVars, history
    <2> QED
      BY <2>1, ShrinkKeeps
  <1>10. CASE \E j \in Jobs, status \in Terminal, found \in BOOLEAN : SolveEnds(j, status, found)
    <2>1. Shrinks
      BY <1>10, <1>a DEF SolveEnds, Step, Shrinks, Active, Open, TypeOK, worldVars, history
    <2> QED
      BY <2>1, ShrinkKeeps
  <1>11. CASE \E j \in Jobs : Persist(j)
    <2>1. Shrinks
      BY <1>11, <1>a DEF Persist, Step, Shrinks, Active, Open, TypeOK, worldVars, history
    <2> QED
      BY <2>1, ShrinkKeeps
  <1>12. CASE \E j \in Jobs : Finish(j)
    <2>1. Shrinks
      BY <1>12, <1>a DEF Finish, Step, Shrinks, Active, Open, TypeOK, Terminal, JobInv, JobOK, worldVars, history
    <2> QED
      BY <2>1, ShrinkKeeps
  <1>13. CASE \E j \in Jobs, dropped \in SUBSET Watchers : Publish(j, dropped)
    <2>1. UNCHANGED <<row, node, limit, peak>> /\ \E j \in Jobs : task' = [task EXCEPT ![j] = "told"]
      BY <1>13 DEF Publish, Step, worldVars, history
    <2>2. Shrinks
      BY <2>1, <1>a DEF Shrinks, Active, Open, TypeOK
    <2> QED
      BY <2>2, ShrinkKeeps
  <1>14. CASE \E j \in Jobs : Cleanup(j)
    <2>1. Shrinks
      BY <1>14, <1>a DEF Cleanup, Step, Shrinks, Active, Open, TypeOK, worldVars, history
    <2> QED
      BY <2>1, ShrinkKeeps
  <1>15. CASE \E j \in Jobs, n \in Nodes : Admit(j, n)
    BY <1>15, SlotAdmit
  <1>16. CASE \E p \in Plans : PurgePlan(p)
    <2>1. Shrinks
      BY <1>16, <1>a DEF PurgePlan, Shrinks, Active, Open, TypeOK, worldVars, history
    <2> QED
      BY <2>1, ShrinkKeeps
  <1>17. CASE Boot
    <2>1. Shrinks
      BY <1>17, <1>a DEF Boot, Shrinks, Active, Open, TypeOK, worldVars, history
    <2> QED
      BY <2>1, ShrinkKeeps
  <1>18. CASE \E n \in Nodes, most \in Limits : UpdateNode(n, most)
    <2>1. Shrinks
      BY <1>18, <1>a, RunnerAssumption DEF UpdateNode, Shrinks, Active, Open, TypeOK, worldVars, history, jobVars
    <2> QED
      BY <2>1, ShrinkKeeps
  <1>19. CASE \E n \in Nodes, most \in Limits : Pair(n, most)
    <2>1. Shrinks
      BY <1>19, <1>a, RunnerAssumption DEF Pair, Shrinks, Active, Open, TypeOK, worldVars, history, jobVars
    <2> QED
      BY <2>1, ShrinkKeeps
  <1>20. CASE (OtherStep \/ UNCHANGED vars) /\ UNCHANGED <<limit, peak>>
    <2>1. Shrinks
      BY <1>20, <1>a, QuietSteps DEF Quiet, Shrinks, Active, Open
    <2> QED
      BY <2>1, ShrinkKeeps
  <1>21. CASE \/ UNCHANGED vars
              \/ OtherStep /\ ~(\E n \in Nodes, most \in Limits : Pair(n, most) \/ UpdateNode(n, most))
    <2>1. UNCHANGED <<limit, peak>>
      BY <1>21, WatchFrame DEF OtherStep, Cancel, DeleteFirst, DeleteStep, DeleteTrash, DeleteSecond, DeleteAnswer,
         DeleteAbandoned, RestorePlan, RevokeNode, RevokeStep, RevokeCancel, RevokeAnswer, RevokeAbandoned,
         RevokeElsewhere, Close, CloseReturns, vars, worldVars, history
    <2> QED
      BY <2>1, <1>21, <1>20
  <1> QED
    BY <1>1, <1>2, <1>3, <1>4, <1>5, <1>6, <1>7, <1>8, <1>9, <1>10, <1>11, <1>12,
       <1>13, <1>14, <1>15, <1>16, <1>17, <1>18, <1>19, <1>20, <1>21
    DEF Next, JobStep, OtherStep

\* However admissions, failures, cancels and restarts interleave, and whatever
\* the number of nodes and of jobs, a node carries no more solves than the
\* largest limit it was given (Dispatcher.Begin, Dispatcher.Admit, Jobs.Finish).
THEOREM SlotBoundTheorem == Spec => []SlotBound
  <1>1. TypeOK /\ JobInv /\ SlotInv => SlotBound
    <2> SUFFICES ASSUME TypeOK, JobInv, SlotInv, NEW n \in Nodes
                 PROVE  Cardinality(Carried(n)) <= peak[n]
      BY DEF SlotBound
    <2>1. Carried(n) = Active(n)
      BY DEF JobInv, JobOK, Carried, Active, Open, Goroutine, TypeOK
    <2> QED
      BY <2>1 DEF SlotInv
  <1>2. Init => SlotInv
    BY SlotInit
  <1>3. TypeOK /\ TypeOK' /\ JobInv /\ SlotInv /\ [Next]_vars => SlotInv'
    BY SlotNext
  <1> QED
    BY <1>1, <1>2, <1>3, TypedJobs, PTL DEF Spec

-----------------------------------------------------------------------------
(* What a client of the event stream waits for. *)

\* A stream that waits for the terminal frame is on the job's broker or has the
\* frame, and who has it can trust it; unless the job's row could not be closed
\* or was purged.
WatchTold ==
    \A w \in Watchers : LET s == watch[w] IN
        \/ s.job \in lost \/ row[s.job] = "gone"
        \/ /\ s.pc = "relaying" => s.attached \/ s.heard
           /\ s.heard => row[s.job] \in Terminal

\* A broker that a stream found once is there until the job's goroutine is gone.
WatchOK(w) == LET s == watch[w] IN
    /\ s.heard => task[s.job] \in {"told", "gone"}
    /\ s.pc \in {"brokered", "subscribed", "relaying"} => s.job \in running \/ task[s.job] = "gone"
    /\ s.pc = "subscribed" /\ ~s.attached => task[s.job] = "gone"
    /\ s.pc = "relaying" /\ ~s.attached => s.job \in lost \/ row[s.job] = "gone"
WatchInv == \A w \in Watchers : WatchOK(w)

\* What a step that is not a stream's may do to a job.
Onward(j) ==
    /\ task[j] = "told" => task'[j] \in {"told", "gone"}
    /\ task[j] = "gone" => task'[j] = "gone"
    /\ j \in running => j \in running' \/ task'[j] = "gone"
    /\ j \in lost => j \in lost'
    /\ row[j] = "gone" => row'[j] = "gone"

LEMMA WatchInit == Init => WatchInv
  BY DEF Init, WatchInv, WatchOK, IdleWatch, Stream

LEMMA OnwardSteps ==
  ASSUME TypeOK, JobInv, NEW i \in Jobs,
         \/ \E j \in Jobs : Ask(j) \/ Refuse(j) \/ JobStep(j) \/ (\E n \in Nodes : Admit(j, n))
         \/ \E p \in Plans : PurgePlan(p)
         \/ OtherStep \/ UNCHANGED vars
  PROVE  Onward(i)
  <1>a. JobOK(i)
    BY DEF JobInv
  <1>1. CASE \E j \in Jobs : Ask(j) \/ Refuse(j) \/ OpenRow(j) \/ \E n \in Nodes : Admit(j, n)
    BY <1>1, <1>a DEF Onward, JobOK, Goroutine, TypeOK, Ask, Refuse, OpenRow, Admit, Step, history
  <1>2. CASE \E j \in Jobs : Register(j)
    BY <1>2, <1>a DEF Onward, TypeOK, Register
  <1>3. CASE \E j \in Jobs : CheckLive(j) \/ CheckNode(j) \/ Dial(j) \/ Attempt(j)
    BY <1>3 DEF Onward, TypeOK, CheckLive, CheckNode, Dial, Attempt, Step, history
  <1>4. CASE \E j \in Jobs : StartRow(j)
    BY <1>4 DEF Onward, TypeOK, StartRow, Step, history
  <1>5. CASE \E j \in Jobs : (\E status \in Terminal, found \in BOOLEAN : SolveEnds(j, status, found)) \/ Persist(j)
    BY <1>5 DEF Onward, TypeOK, SolveEnds, Persist, Step, history
  <1>6. CASE \E j \in Jobs : Finish(j)
    BY <1>6 DEF Onward, TypeOK, Finish, Open, Step
  <1>7. CASE \E j \in Jobs, dropped \in SUBSET Watchers : Publish(j, dropped)
    BY <1>7 DEF Onward, TypeOK, Publish, Step, history
  <1>8. CASE \E j \in Jobs : Cleanup(j)
    BY <1>8 DEF Onward, TypeOK, Cleanup, Step, history
  <1>9. CASE \E p \in Plans : PurgePlan(p)
    BY <1>9 DEF Onward, TypeOK, PurgePlan, history
  <1>10. CASE OtherStep \/ UNCHANGED vars
    <2>1. Quiet
      BY <1>10, QuietSteps
    <2> QED
      BY <2>1 DEF Onward, Quiet
  <1> QED
    BY <1>1, <1>2, <1>3, <1>4, <1>5, <1>6, <1>7, <1>8, <1>9, <1>10 DEF JobStep

\* The streams that a step of another does not touch.
LEMMA WatchKept ==
  ASSUME TypeOK, WatchInv, NEW w \in Watchers, \A j \in Jobs : Onward(j), watch'[w] = watch[w]
  PROVE  WatchOK(w)'
  <1>1. watch[w].job \in Jobs
    BY DEF TypeOK, Streams
  <1> QED
    BY <1>1 DEF WatchInv, WatchOK, Onward

LEMMA WatchNext == TypeOK /\ JobInv /\ WatchInv /\ [Next]_vars => WatchInv'
  <1> SUFFICES ASSUME TypeOK, JobInv, WatchInv, [Next]_vars, NEW w \in Watchers PROVE WatchOK(w)'
    BY DEF WatchInv
  <1> DEFINE s == watch[w]
  <1>a. s.job \in Jobs /\ watch \in [Watchers -> Streams] /\ s \in Streams
    BY DEF TypeOK, Streams
  <1>b. WatchOK(w) /\ JobOK(s.job)
    BY <1>a DEF WatchInv, JobInv
  <1>1. CASE Boot
    BY <1>1 DEF Boot, WatchOK, IdleWatch, Stream
  <1>2. CASE \E j \in Jobs : \E dropped \in SUBSET Watchers : Publish(j, dropped)
    <2>1. PICK j \in Jobs : \E dropped \in SUBSET Watchers : Publish(j, dropped)
      BY <1>2
    <2>2. Onward(s.job)
      BY <1>2, <1>a, OnwardSteps DEF JobStep
    <2>3. task[j] = "closed" /\ task'[j] = "told"
      BY <2>1 DEF Publish, Step, TypeOK
    <2>4. watch'[w] = s \/ (s.job = j /\ watch'[w] = [s EXCEPT !.heard = TRUE])
      BY <2>1 DEF Publish
    <2>5. CASE watch'[w] = s
      BY <1>b, <2>2, <2>5 DEF WatchOK, Onward
    <2>6. CASE s.job = j /\ watch'[w] = [s EXCEPT !.heard = TRUE]
      <3>1. /\ watch'[w].job = s.job /\ watch'[w].pc = s.pc /\ watch'[w].attached = s.attached
            /\ task'[s.job] = "told"
        BY <1>a, <2>3, <2>6 DEF Streams
      <3> HIDE DEF s
      <3> QED
        BY <1>b, <2>2, <3>1 DEF WatchOK, Onward, s
    <2> QED
      BY <2>4, <2>5, <2>6
  <1>3. CASE WatchStep(w)
    <2>1. UNCHANGED <<task, running, row, lost>>
      BY <1>3, WatchFrame DEF jobVars, history
    <2>2. CASE WatchBroker(w)
      BY <2>1, <2>2, <1>a, <1>b DEF WatchBroker, WatchOK, Streams
    <2>3. CASE WatchSubscribe(w)
      BY <2>1, <2>3, <1>a, <1>b DEF WatchSubscribe, WatchOK, Streams
    <2>4. CASE WatchReread(w)
      <3>1. task[s.job] = "gone" /\ row[s.job] \notin Terminal => s.job \in lost \/ row[s.job] = "gone"
        BY <1>a, <1>b DEF JobOK, Open, TypeOK
      <3> QED
        BY <2>1, <2>4, <3>1, <1>a, <1>b DEF WatchReread, WatchOK, Streams
    <2>5. CASE WatchRelay(w) \/ WatchFinal(w)
      BY <2>1, <2>5, <1>a, <1>b DEF WatchRelay, WatchFinal, WatchOK, Streams
    <2> QED
      BY <1>3, <2>2, <2>3, <2>4, <2>5 DEF WatchStep
  <1>4. CASE (\E j \in Jobs : WatchOpen(w, j)) \/ WatchLeave(w)
    BY <1>4, <1>a DEF WatchOpen, WatchLeave, WatchOK, IdleWatch, Stream
  <1>5. CASE \E o \in Watchers \ {w} : (\E j \in Jobs : WatchOpen(o, j)) \/ WatchStep(o) \/ WatchLeave(o)
    <2>1. watch'[w] = watch[w]
      BY <1>5, <1>a
      DEF WatchOpen, WatchStep, WatchBroker, WatchSubscribe, WatchReread, WatchRelay, WatchFinal, WatchLeave
    <2>2. OtherStep
      BY <1>5 DEF OtherStep
    <2> QED
      BY <2>1, <2>2, OnwardSteps, WatchKept
  <1>6. CASE UNCHANGED watch /\ ~Boot
    <2>1. \A j \in Jobs : Onward(j)
      BY <1>6, OnwardSteps DEF Next, OtherStep
    <2> QED
      BY <1>6, <2>1, WatchKept
  <1>7. \/ UNCHANGED watch \/ Boot
        \/ \E j \in Jobs : \E dropped \in SUBSET Watchers : Publish(j, dropped)
        \/ \E o \in Watchers : (\E j \in Jobs : WatchOpen(o, j)) \/ WatchStep(o) \/ WatchLeave(o)
    <2>1. CASE UNCHANGED vars
      BY <2>1 DEF vars
    <2>2. CASE \E j \in Jobs : Ask(j) \/ Refuse(j) \/ JobStep(j) \/ Cancel(j) \/ \E n \in Nodes : Admit(j, n)
      BY <2>2 DEF Ask, Refuse, JobStep, OpenRow, Register, CheckLive, CheckNode, Dial, StartRow, Attempt,
                  SolveEnds, Persist, Finish, Cleanup, Cancel, Admit
    <2>3. CASE \E p \in Plans : \/ DeleteFirst(p) \/ DeleteStep(p) \/ DeleteAbandoned(p)
                                \/ RestorePlan(p) \/ PurgePlan(p)
      BY <2>3 DEF DeleteFirst, DeleteStep, DeleteTrash, DeleteSecond, DeleteAnswer, DeleteAbandoned,
                  RestorePlan, PurgePlan
    <2>4. CASE \/ \E n \in Nodes : \/ RevokeNode(n) \/ RevokeStep(n) \/ RevokeAbandoned(n)
                                   \/ RevokeElsewhere(n)
                                   \/ \E most \in Limits : Pair(n, most) \/ UpdateNode(n, most)
               \/ Close \/ CloseReturns
      BY <2>4 DEF RevokeNode, RevokeStep, RevokeCancel, RevokeAnswer, RevokeAbandoned, RevokeElsewhere,
                  Pair, UpdateNode, Close, CloseReturns
    <2> QED
      BY <2>1, <2>2, <2>3, <2>4 DEF Next
  <1> QED
    BY <1>1, <1>2, <1>3, <1>4, <1>5, <1>6, <1>7

\* Whenever a client opens the stream, and whatever frames it is too slow for, it
\* never waits for a broker that is not there, and a terminal frame it gets from
\* one is true of the row: what WatchSettles needs beside fairness (Jobs.watch,
\* Jobs.relay, Dispatcher.Finish).
THEOREM WatchToldTheorem == Spec => []WatchTold
  <1>1. Init => WatchInv
    BY WatchInit
  <1>2. TypeOK /\ JobInv /\ WatchInv /\ [Next]_vars => WatchInv'
    BY WatchNext
  <1>3. TypeOK /\ JobInv /\ WatchInv => WatchTold
    <2> SUFFICES ASSUME TypeOK, JobInv, WatchInv, NEW w \in Watchers,
                        watch[w].job \notin lost, row[watch[w].job] # "gone"
                 PROVE  /\ watch[w].pc = "relaying" => watch[w].attached \/ watch[w].heard
                        /\ watch[w].heard => row[watch[w].job] \in Terminal
      BY DEF WatchTold
    <2>1. watch[w].job \in Jobs
      BY DEF TypeOK, Streams
    <2>2. WatchOK(w) /\ JobOK(watch[w].job)
      BY <2>1 DEF WatchInv, JobInv
    <2> QED
      BY <2>1, <2>2 DEF WatchOK, JobOK, Open, TypeOK
  <1> QED
    BY <1>1, <1>2, <1>3, TypedJobs, PTL DEF Spec
=============================================================================
