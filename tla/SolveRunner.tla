---------------------------- MODULE SolveRunner ----------------------------
(***************************************************************************)
(* The solves this server carries: admission on a node, the job row, the   *)
(* goroutine that runs the stream and closes the row, and what stops it:   *)
(* a cancel, the deletion of its plan, the revocation of its node, the     *)
(* server's shutdown, a crash.                                             *)
(*                                                                         *)
(* The row says what the job is; the runner's map says what this process   *)
(* holds.  They change at different moments, so whoever stops a solve      *)
(* either finds it in the map or leaves a mark the solve reads before it   *)
(* dials.                                                                  *)
(***************************************************************************)
EXTENDS Naturals, FiniteSets

CONSTANTS
    Jobs,           \* solves a client may ask for, each at most once
    Plans,
    Nodes,
    PlanOf,         \* the plan of each job
    NoNode,
    Limits,         \* solves at once a node may be given
    Watchers        \* clients of a job's event stream

ASSUME RunnerAssumption ==
    /\ IsFiniteSet(Jobs) /\ Jobs # {}
    /\ PlanOf \in [Jobs -> Plans]
    /\ NoNode \notin Nodes
    /\ Limits # {} /\ Limits \subseteq Nat \ {0}

VARIABLES
    row,        \* solve_jobs: the status of each job, gone when purged
    node,       \* the node that admitted it
    task,       \* where the request, then the goroutine, of a job is
    stopped,    \* jobs whose solve context is cancelled
    running,    \* Runner.running
    ending,     \* the status a goroutine is about to write
    schedule,   \* jobs that received a timetable not stored yet
    kept,       \* jobs whose timetable was stored as a result
    plan,       \* live, trash or purged
    revoked,    \* nodes that are revoked
    limit,      \* the solves at once a node has
    deleting,   \* DeletePlan of each plan
    revoking,   \* Revoke of each node
    shutdown,   \* Runner.Close: no, closing, closed
    watch,
    peak,       \* history: the largest limit each node had
    lost,       \* history: jobs whose row no goroutine will close
    barred      \* history: revoked nodes whose solves Revoke has cancelled

vars == <<row, node, task, stopped, running, ending, schedule, kept, plan,
          revoked, limit, deleting, revoking, shutdown, watch, peak, lost, barred>>

jobVars == <<row, node, task, stopped, running, ending, schedule, kept>>
worldVars == <<plan, revoked, limit>>
stopVars == <<deleting, revoking, shutdown>>
history == <<peak, lost, barred>>

Terminal == {"done", "failed", "cancelled"}
Open(j) == row[j] \in {"pending", "running"}
Active(n) == {j \in Jobs : Open(j) /\ node[j] = n}
Goroutine == {"started", "live", "vetted", "streaming", "solving", "ended", "kept", "closed", "told"}

IdleStop == [pc |-> "idle", waits |-> {}]
Stream(pc, j) == [pc |-> pc, job |-> j, attached |-> FALSE, heard |-> FALSE]
IdleWatch == Stream("idle", CHOOSE j \in Jobs : TRUE)

Init ==
    /\ row = [j \in Jobs |-> "none"]
    /\ node = [j \in Jobs |-> NoNode]
    /\ task = [j \in Jobs |-> "idle"]
    /\ stopped = {} /\ running = {}
    /\ ending = [j \in Jobs |-> "none"]
    /\ schedule = {} /\ kept = {}
    /\ plan = [p \in Plans |-> "live"]
    /\ revoked = {}
    /\ limit \in [Nodes -> Limits]
    /\ deleting = [p \in Plans |-> IdleStop]
    /\ revoking = [n \in Nodes |-> IdleStop]
    /\ shutdown = "no"
    /\ watch = [w \in Watchers |-> IdleWatch]
    /\ peak = limit
    /\ lost = {} /\ barred = {}

Step(j, from, to) == task[j] = from /\ task' = [task EXCEPT ![j] = to]

-----------------------------------------------------------------------------
(* Admission. *)

\* CreateJob reads a live plan and the file to solve.
Ask(j) ==
    /\ Step(j, "idle", "asked")
    /\ row[j] = "none" /\ plan[PlanOf[j]] = "live"
    /\ UNCHANGED <<row, node, stopped, running, ending, schedule, kept,
                   worldVars, stopVars, watch, history>>

\* One admission at a time: Begin counts the node's open jobs, asks the node for
\* its capacity, and writes the row before the next one counts.
\*
\* Mutant of Admitting: the count and the row are not one critical section.
AdmittingNobody == {}
Admitting == {j \in Jobs : task[j] = "counted"}

Admit(j, n) ==
    /\ Step(j, "asked", "counted")
    /\ Admitting = {}
    /\ n \notin revoked
    /\ Cardinality(Active(n)) < limit[n]
    /\ node' = [node EXCEPT ![j] = n]
    /\ UNCHANGED <<row, stopped, running, ending, schedule, kept,
                   worldVars, stopVars, watch, history>>

\* Refused: no node, none free, none answering, or a failed statement.
Refuse(j) ==
    /\ task[j] \in {"asked", "counted"}
    /\ task' = [task EXCEPT ![j] = "idle"]
    /\ node' = [node EXCEPT ![j] = NoNode]
    /\ UNCHANGED <<row, stopped, running, ending, schedule, kept,
                   worldVars, stopVars, watch, history>>

OpenRow(j) ==
    /\ Step(j, "counted", "opened")
    /\ plan[PlanOf[j]] # "purged"
    /\ row' = [row EXCEPT ![j] = "pending"]
    /\ UNCHANGED <<node, stopped, running, ending, schedule, kept,
                   worldVars, stopVars, watch, history>>

\* Start registers the solve and its goroutine; once the runner is closed the
\* row stays pending for the next boot.
\*
\* Mutant of Register: the runner being closed is not looked at.
RegisterAnyway(j) ==
    /\ Step(j, "opened", "started")
    /\ running' = running \cup {j}
    /\ UNCHANGED <<row, node, stopped, ending, schedule, kept,
                   worldVars, stopVars, watch, history>>
Register(j) ==
    /\ task[j] = "opened"
    /\ IF shutdown = "no"
       THEN /\ task' = [task EXCEPT ![j] = "started"]
            /\ running' = running \cup {j}
            /\ UNCHANGED lost
       ELSE /\ task' = [task EXCEPT ![j] = "gone"]
            /\ lost' = lost \cup {j}
            /\ UNCHANGED running
    /\ UNCHANGED <<row, node, stopped, ending, schedule, kept,
                   worldVars, stopVars, watch, peak, barred>>

-----------------------------------------------------------------------------
(* The goroutine. *)

\* The checks the dispatcher makes before it dials, each a read that fails when
\* the solve's context is cancelled.
CheckLive(j) ==
    /\ Step(j, "started", "live")
    /\ j \notin stopped
    /\ plan[PlanOf[j]] = "live"
    /\ UNCHANGED <<row, node, stopped, running, ending, schedule, kept,
                   worldVars, stopVars, watch, history>>

\* Mutant of CheckNode: the node is not read again.
CheckNodeNever(j) ==
    /\ Step(j, "live", "vetted")
    /\ j \notin stopped
    /\ UNCHANGED <<row, node, stopped, running, ending, schedule, kept,
                   worldVars, stopVars, watch, history>>
CheckNode(j) ==
    /\ Step(j, "live", "vetted")
    /\ j \notin stopped
    /\ node[j] \notin revoked
    /\ UNCHANGED <<row, node, stopped, running, ending, schedule, kept,
                   worldVars, stopVars, watch, history>>

Dial(j) ==
    /\ Step(j, "vetted", "streaming")
    /\ j \notin stopped
    /\ UNCHANGED <<row, node, stopped, running, ending, schedule, kept,
                   worldVars, stopVars, watch, history>>

StartRow(j) ==
    /\ Step(j, "streaming", "solving")
    /\ j \notin stopped
    /\ row' = [row EXCEPT ![j] = IF @ = "pending" THEN "running" ELSE @]
    /\ UNCHANGED <<node, stopped, running, ending, schedule, kept,
                   worldVars, stopVars, watch, history>>

\* An attempt that ends before its stream: cancelled when its context is, its
\* plan in Trash or its node revoked, else failed.
\*
\* Mutant of Attempt: what it waits for does not listen to its context.
AttemptDeaf(j) ==
    /\ Step(j, task[j], "ended")
    /\ task[j] \in {"started", "live", "vetted", "streaming"} /\ j \notin stopped
    /\ ending' = [ending EXCEPT ![j] = "failed"]
    /\ UNCHANGED <<row, node, stopped, running, schedule, kept,
                   worldVars, stopVars, watch, history>>
Attempt(j) ==
    /\ Step(j, task[j], "ended")
    /\ task[j] \in {"started", "live", "vetted", "streaming"}
    /\ LET cancelled == \/ j \in stopped
                        \/ task[j] = "started" /\ plan[PlanOf[j]] # "live"
                        \/ task[j] = "live" /\ node[j] \in revoked
       IN  ending' = [ending EXCEPT ![j] = IF cancelled THEN "cancelled" ELSE "failed"]
    /\ UNCHANGED <<row, node, stopped, running, schedule, kept,
                   worldVars, stopVars, watch, history>>

\* The stream ends: with the node's answer, broken, cancelled or past its
\* deadline, and with a timetable or without.
SolveEnds(j, status, found) ==
    /\ Step(j, "solving", "ended")
    /\ status = "done" => found
    /\ ending' = [ending EXCEPT ![j] = status]
    /\ schedule' = IF found THEN schedule \cup {j} ELSE schedule
    /\ UNCHANGED <<row, node, stopped, running, kept,
                   worldVars, stopVars, watch, history>>

\* The timetable is stored whatever stopped the solve, before the row is closed.
\* One that cannot be stored turns a done job into a failed one.
\*
\* Mutant of Persist: the failure is not recorded.
PersistQuiet(j) ==
    /\ Step(j, "ended", "kept")
    /\ schedule' = schedule \ {j}
    /\ \/ UNCHANGED kept
       \/ j \in schedule /\ plan[PlanOf[j]] # "purged" /\ kept' = kept \cup {j}
    /\ UNCHANGED <<row, node, stopped, running, ending,
                   worldVars, stopVars, watch, history>>

Persist(j) ==
    /\ Step(j, "ended", "kept")
    /\ schedule' = schedule \ {j}
    /\ \/ /\ j \notin schedule
          /\ UNCHANGED <<kept, ending>>
       \/ /\ j \in schedule /\ plan[PlanOf[j]] # "purged"
          /\ kept' = kept \cup {j}
          /\ UNCHANGED ending
       \/ /\ j \in schedule
          /\ ending' = [ending EXCEPT ![j] = IF @ = "done" THEN "failed" ELSE @]
          /\ UNCHANGED kept
    /\ UNCHANGED <<row, node, stopped, running,
                   worldVars, stopVars, watch, history>>

\* Finish closes an open row; it may fail, and nothing tries again.
\*
\* Mutant of Finish: it closes only a row that was started.
FinishStarted(j) ==
    /\ Step(j, "kept", "closed")
    /\ row' = [row EXCEPT ![j] = IF @ = "running" THEN ending[j] ELSE @]
    /\ UNCHANGED <<node, stopped, running, ending, schedule, kept,
                   worldVars, stopVars, watch, history>>
Finish(j) ==
    /\ Step(j, "kept", "closed")
    /\ \/ /\ row' = [row EXCEPT ![j] = IF Open(j) THEN ending[j] ELSE @]
          /\ UNCHANGED lost
       \/ /\ lost' = IF Open(j) THEN lost \cup {j} ELSE lost
          /\ UNCHANGED row
    /\ UNCHANGED <<node, stopped, running, ending, schedule, kept,
                   worldVars, stopVars, watch, peak, barred>>

\* The terminal frame: each subscriber takes it or, its buffer full, drops it.
Publish(j, dropped) ==
    /\ Step(j, "closed", "told")
    /\ watch' = [w \in Watchers |->
          IF watch[w].attached /\ watch[w].job = j /\ w \notin dropped
          THEN [watch[w] EXCEPT !.heard = TRUE] ELSE watch[w]]
    /\ UNCHANGED <<row, node, stopped, running, ending, schedule, kept,
                   worldVars, stopVars, history>>

\* The solve leaves the map, its broker closes and done is closed.
Cleanup(j) ==
    /\ Step(j, "told", "gone")
    /\ running' = running \ {j}
    /\ stopped' = stopped \ {j}
    /\ ending' = [ending EXCEPT ![j] = "none"]
    /\ UNCHANGED <<row, node, schedule, kept,
                   worldVars, stopVars, watch, history>>

-----------------------------------------------------------------------------
(* What stops a solve. *)

\* CancelJob: the runner cancels what it holds and the answer is the same when
\* it holds nothing.
Cancel(j) ==
    /\ row[j] # "none" /\ plan[PlanOf[j]] = "live"
    /\ stopped' = stopped \cup ({j} \cap running)
    /\ UNCHANGED <<row, node, task, running, ending, schedule, kept,
                   worldVars, stopVars, watch, history>>

OfPlan(p) == {j \in running : PlanOf[j] = p}
OnNode(n) == {j \in running : node[j] = n}
Done(waits) == \A j \in waits : task[j] = "gone"

\* DeletePlan: cancel and wait, move the plan to Trash, cancel again.
DeleteFirst(p) ==
    /\ deleting[p].pc = "idle" /\ plan[p] = "live"
    /\ stopped' = stopped \cup OfPlan(p)
    /\ deleting' = [deleting EXCEPT ![p] = [pc |-> "first", waits |-> OfPlan(p)]]
    /\ UNCHANGED <<row, node, task, running, ending, schedule, kept,
                   worldVars, revoking, shutdown, watch, history>>

DeleteTrash(p) ==
    /\ deleting[p].pc = "first" /\ Done(deleting[p].waits)
    /\ IF plan[p] = "live"
       THEN /\ plan' = [plan EXCEPT ![p] = "trash"]
            /\ deleting' = [deleting EXCEPT ![p] = [pc |-> "moved", waits |-> {}]]
       ELSE /\ deleting' = [deleting EXCEPT ![p] = IdleStop]
            /\ UNCHANGED plan
    /\ UNCHANGED <<jobVars, revoked, limit, revoking, shutdown, watch, history>>

\* Mutant of DeleteSecond: the second cancel is left out.
DeleteSecondNone(p) ==
    /\ deleting[p].pc = "moved"
    /\ deleting' = [deleting EXCEPT ![p] = IdleStop]
    /\ UNCHANGED <<jobVars, worldVars, revoking, shutdown, watch, history>>
DeleteSecond(p) ==
    /\ deleting[p].pc = "moved"
    /\ stopped' = stopped \cup OfPlan(p)
    /\ deleting' = [deleting EXCEPT ![p] = [pc |-> "second", waits |-> OfPlan(p)]]
    /\ UNCHANGED <<row, node, task, running, ending, schedule, kept,
                   worldVars, revoking, shutdown, watch, history>>

DeleteAnswer(p) ==
    /\ deleting[p].pc = "second" /\ Done(deleting[p].waits)
    /\ deleting' = [deleting EXCEPT ![p] = IdleStop]
    /\ UNCHANGED <<jobVars, worldVars, revoking, shutdown, watch, history>>

\* The caller goes away during either wait.
DeleteAbandoned(p) ==
    /\ deleting[p].pc \in {"first", "second"} /\ ~Done(deleting[p].waits)
    /\ deleting' = [deleting EXCEPT ![p] = IdleStop]
    /\ UNCHANGED <<jobVars, worldVars, revoking, shutdown, watch, history>>

RestorePlan(p) ==
    /\ plan[p] = "trash"
    /\ plan' = [plan EXCEPT ![p] = "live"]
    /\ UNCHANGED <<jobVars, revoked, limit, stopVars, watch, history>>

\* A purge takes the plan's job rows with it.
PurgePlan(p) ==
    /\ plan[p] = "trash"
    /\ plan' = [plan EXCEPT ![p] = "purged"]
    /\ row' = [j \in Jobs |-> IF PlanOf[j] = p /\ row[j] # "none" THEN "gone" ELSE row[j]]
    /\ UNCHANGED <<node, task, stopped, running, ending, schedule, kept,
                   revoked, limit, stopVars, watch, history>>

\* Revoke: the node's row first, then its solves.
RevokeNode(n) ==
    /\ revoking[n].pc = "idle"
    /\ revoked' = revoked \cup {n}
    /\ revoking' = [revoking EXCEPT ![n] = [pc |-> "written", waits |-> {}]]
    /\ UNCHANGED <<jobVars, plan, limit, deleting, shutdown, watch, history>>

RevokeCancel(n) ==
    /\ revoking[n].pc = "written"
    /\ stopped' = stopped \cup OnNode(n)
    /\ revoking' = [revoking EXCEPT ![n] = [pc |-> "waiting", waits |-> OnNode(n)]]
    /\ barred' = IF n \in revoked THEN barred \cup {n} ELSE barred
    /\ UNCHANGED <<row, node, task, running, ending, schedule, kept,
                   worldVars, deleting, shutdown, watch, peak, lost>>

RevokeAnswer(n) ==
    /\ revoking[n].pc = "waiting" /\ Done(revoking[n].waits)
    /\ revoking' = [revoking EXCEPT ![n] = IdleStop]
    /\ UNCHANGED <<jobVars, worldVars, deleting, shutdown, watch, history>>

RevokeAbandoned(n) ==
    /\ revoking[n].pc = "waiting" /\ ~Done(revoking[n].waits)
    /\ revoking' = [revoking EXCEPT ![n] = IdleStop]
    /\ UNCHANGED <<jobVars, worldVars, deleting, shutdown, watch, history>>

\* The command line revokes in the database and stops nothing.
RevokeElsewhere(n) ==
    /\ n \notin revoked
    /\ revoked' = revoked \cup {n}
    /\ UNCHANGED <<jobVars, plan, limit, stopVars, watch, history>>

\* Pairing a node again clears its revocation and may lower its limit.
Pair(n, most) ==
    /\ n \in revoked \/ most < limit[n]
    /\ revoked' = revoked \ {n}
    /\ barred' = barred \ {n}
    /\ limit' = [limit EXCEPT ![n] = IF most < @ THEN most ELSE @]
    /\ UNCHANGED <<jobVars, plan, stopVars, watch, peak, lost>>

UpdateNode(n, most) ==
    /\ n \notin revoked /\ most # limit[n]
    /\ limit' = [limit EXCEPT ![n] = most]
    /\ peak' = [peak EXCEPT ![n] = IF most > @ THEN most ELSE @]
    /\ UNCHANGED <<jobVars, plan, revoked, stopVars, watch, lost, barred>>

\* Runner.Close cancels every solve and waits for their rows.
Close ==
    /\ shutdown = "no"
    /\ shutdown' = "closing"
    /\ stopped' = stopped \cup running
    /\ UNCHANGED <<row, node, task, running, ending, schedule, kept,
                   worldVars, deleting, revoking, watch, history>>

CloseReturns ==
    /\ shutdown = "closing"
    /\ \A j \in Jobs : task[j] \notin Goroutine
    /\ shutdown' = "closed"
    /\ UNCHANGED <<jobVars, worldVars, deleting, revoking, watch, history>>

\* The process ends at any moment.  The next one closes every open row before
\* its runner exists.
Boot ==
    /\ row' = [j \in Jobs |-> IF Open(j) THEN "failed" ELSE row[j]]
    /\ task' = [j \in Jobs |-> IF row[j] = "none" THEN "idle" ELSE "gone"]
    /\ node' = [j \in Jobs |-> IF row[j] = "none" THEN NoNode ELSE node[j]]
    /\ stopped' = {} /\ running' = {} /\ schedule' = {}
    /\ ending' = [j \in Jobs |-> "none"]
    /\ deleting' = [p \in Plans |-> IdleStop]
    /\ revoking' = [n \in Nodes |-> IdleStop]
    /\ shutdown' = "no"
    /\ watch' = [w \in Watchers |-> IdleWatch]
    /\ lost' = {}
    /\ UNCHANGED <<kept, worldVars, peak, barred>>

-----------------------------------------------------------------------------
(* A client of the job's event stream. *)

WatchOpen(w, j) ==
    /\ watch[w].pc = "idle"
    /\ row[j] \notin {"none", "gone"} /\ plan[PlanOf[j]] = "live"
    /\ watch' = [watch EXCEPT ![w] = Stream("opened", j)]
    /\ UNCHANGED <<jobVars, worldVars, stopVars, history>>

WatchBroker(w) ==
    /\ watch[w].pc = "opened"
    /\ watch' = [watch EXCEPT ![w].pc = IF watch[w].job \in running THEN "brokered" ELSE "final"]
    /\ UNCHANGED <<jobVars, worldVars, stopVars, history>>

\* A broker that closed first gives nothing.
WatchSubscribe(w) ==
    /\ watch[w].pc = "brokered"
    /\ watch' = [watch EXCEPT ![w].pc = "subscribed",
                              ![w].attached = watch[w].job \in running]
    /\ UNCHANGED <<jobVars, worldVars, stopVars, history>>

\* The row is read again after subscribing.
\*
\* Mutant of WatchReread: it is not.
WatchRereadNever(w) ==
    /\ watch[w].pc = "subscribed"
    /\ watch' = [watch EXCEPT ![w].pc = "relaying"]
    /\ UNCHANGED <<jobVars, worldVars, stopVars, history>>
WatchReread(w) ==
    /\ watch[w].pc = "subscribed"
    /\ watch' = [watch EXCEPT ![w].pc = IF row[watch[w].job] \in Terminal THEN "final"
                                                                      ELSE "relaying"]
    /\ UNCHANGED <<jobVars, worldVars, stopVars, history>>

\* The terminal frame arrives, or the channel closes without it.
WatchRelay(w) ==
    /\ watch[w].pc = "relaying"
    /\ \/ /\ watch[w].heard
          /\ watch' = [watch EXCEPT ![w].pc = "settled"]
       \/ /\ ~watch[w].heard /\ watch[w].attached /\ watch[w].job \notin running
          /\ watch' = [watch EXCEPT ![w].pc = "final"]
    /\ UNCHANGED <<jobVars, worldVars, stopVars, history>>

\* One terminal frame from the row as it is now or as it was first read.
WatchFinal(w) ==
    /\ watch[w].pc = "final"
    /\ watch' = [watch EXCEPT ![w].pc = "settled"]
    /\ UNCHANGED <<jobVars, worldVars, stopVars, history>>

WatchLeave(w) ==
    /\ watch[w].pc # "idle"
    /\ watch' = [watch EXCEPT ![w] = IdleWatch]
    /\ UNCHANGED <<jobVars, worldVars, stopVars, history>>

-----------------------------------------------------------------------------
\* What the server does about a job without being asked again.
JobStep(j) ==
    \/ OpenRow(j) \/ Register(j)
    \/ CheckLive(j) \/ CheckNode(j) \/ Dial(j) \/ StartRow(j) \/ Attempt(j)
    \/ \E status \in Terminal, found \in BOOLEAN : SolveEnds(j, status, found)
    \/ Persist(j) \/ Finish(j)
    \/ \E dropped \in SUBSET Watchers : Publish(j, dropped)
    \/ Cleanup(j)

DeleteStep(p) == DeleteTrash(p) \/ DeleteSecond(p) \/ DeleteAnswer(p)
RevokeStep(n) == RevokeCancel(n) \/ RevokeAnswer(n)
WatchStep(w) ==
    WatchBroker(w) \/ WatchSubscribe(w) \/ WatchReread(w) \/ WatchRelay(w) \/ WatchFinal(w)

Next ==
    \/ \E j \in Jobs :
          \/ Ask(j) \/ Refuse(j) \/ JobStep(j) \/ Cancel(j)
          \/ \E n \in Nodes : Admit(j, n)
    \/ \E p \in Plans : DeleteFirst(p) \/ DeleteStep(p) \/ DeleteAbandoned(p) \/ RestorePlan(p) \/ PurgePlan(p)
    \/ \E n \in Nodes :
          \/ RevokeNode(n) \/ RevokeStep(n) \/ RevokeAbandoned(n) \/ RevokeElsewhere(n)
          \/ \E most \in Limits : Pair(n, most) \/ UpdateNode(n, most)
    \/ Close \/ CloseReturns \/ Boot
    \/ \E w \in Watchers :
          \/ \E j \in Jobs : WatchOpen(w, j)
          \/ WatchStep(w) \/ WatchLeave(w)

Spec == Init /\ [][Next]_vars

\* Goroutines and requests are scheduled, the calls they make end by their
\* deadlines, and waits end when what they wait for does.  Nobody has to ask,
\* cancel, leave, shut down or crash.
Fairness ==
    /\ \A j \in Jobs : WF_vars(JobStep(j))
    /\ \A p \in Plans : WF_vars(DeleteStep(p))
    /\ \A n \in Nodes : WF_vars(RevokeStep(n))
    /\ \A w \in Watchers : WF_vars(WatchStep(w))
    /\ WF_vars(CloseReturns)

FairSpec == Spec /\ Fairness

-----------------------------------------------------------------------------
Streams ==
    [pc : {"idle", "opened", "brokered", "subscribed", "relaying", "final", "settled"},
     job : Jobs, attached : BOOLEAN, heard : BOOLEAN]

TypeOK ==
    /\ row \in [Jobs -> {"none", "pending", "running", "gone"} \cup Terminal]
    /\ node \in [Jobs -> Nodes \cup {NoNode}]
    /\ task \in [Jobs -> {"idle", "asked", "counted", "opened", "gone"} \cup Goroutine]
    /\ stopped \subseteq Jobs /\ running \subseteq Jobs
    /\ ending \in [Jobs -> {"none"} \cup Terminal]
    /\ schedule \subseteq Jobs /\ kept \subseteq Jobs
    /\ plan \in [Plans -> {"live", "trash", "purged"}]
    /\ revoked \subseteq Nodes
    /\ limit \in [Nodes -> Limits]
    /\ deleting \in [Plans -> [pc : {"idle", "first", "moved", "second"}, waits : SUBSET Jobs]]
    /\ revoking \in [Nodes -> [pc : {"idle", "written", "waiting"}, waits : SUBSET Jobs]]
    /\ shutdown \in {"no", "closing", "closed"}
    /\ watch \in [Watchers -> Streams]
    /\ peak \in [Nodes -> Limits]
    /\ lost \subseteq Jobs
    /\ barred \subseteq Nodes

Carried(n) ==
    {j \in Jobs : node[j] = n /\ row[j] # "gone" /\ (Open(j) \/ task[j] \in {"streaming", "solving"})}

\* However admissions, failures, cancels and restarts interleave, a node never
\* carries more solves of this server, by the rows or by the streams open to it,
\* than the largest limit it was given (Dispatcher.Begin, Dispatcher.Admit,
\* Jobs.Finish, Jobs.CloseOrphans).
SlotBound == \A n \in Nodes : Cardinality(Carried(n)) <= peak[n]

\* Once a deleted plan's second cancel went out, no solve of it is past the check
\* that the plan is live without being cancelled, whenever it was admitted
\* (API.DeletePlan, Dispatcher.run).
DeletedStops ==
    \A j \in Jobs : LET p == PlanOf[j] IN
        plan[p] # "live" /\ deleting[p].pc # "moved"
          /\ task[j] \in {"live", "vetted", "streaming", "solving"} => j \in stopped

\* Once Revoke sent its cancels, no solve is on the node, or about to dial it,
\* without being cancelled, until the node is paired again (Runner.Revoke,
\* Dispatcher.run).
RevokedStops ==
    \A j \in Jobs :
        node[j] \in barred /\ task[j] \in {"vetted", "streaming", "solving"} => j \in stopped

\* A job that says done has its timetable among the plan's results
\* (Dispatcher.Finish).
DoneKept == \A j \in Jobs : row[j] = "done" => j \in kept

\* A row that is open has a request or a goroutine that will close it, unless
\* writing it failed or the runner was closed: no other path leaks a node's slot
\* (Runner.Start, Runner.run, Dispatcher.Finish).
OpenOwned ==
    \A j \in Jobs : Open(j) =>
        \/ j \in lost \/ task[j] = "opened"
        \/ j \in running /\ task[j] \in Goroutine \ {"closed", "told"}

\* When Close returned no goroutine is left to use the database, and none starts
\* after it (Runner.Close, Runner.Start).
Drained == shutdown = "closed" => running = {} /\ \A j \in Jobs : task[j] \notin Goroutine

\* Every job is closed in the end, unless its row could not be written
\* (Runner.run).
JobEnds == \A j \in Jobs : Open(j) ~> (~Open(j) \/ j \in lost)

\* A delete or a revoke that waits for its solves is answered, and a shutdown
\* ends (Runner.cancelWhere, Runner.Close).
StopsEnd ==
    /\ \A p \in Plans : deleting[p].pc # "idle" ~> deleting[p].pc = "idle"
    /\ \A n \in Nodes : revoking[n].pc # "idle" ~> revoking[n].pc = "idle"
    /\ shutdown = "closing" ~> shutdown # "closing"

\* A watcher is sent a terminal frame whenever it subscribes, dropped frames and a
\* job that ends meanwhile included, unless the row could not be closed or
\* was purged (Jobs.watch, Jobs.relay).
WatchSettles ==
    \A w \in Watchers : watch[w].pc = "opened" ~>
        \/ watch[w].pc \in {"idle", "settled"}
        \/ watch[w].job \in lost \/ row[watch[w].job] = "gone"

\* The runner holds every job whose row is open, so a cancel that finds nothing
\* is a cancel of a job that ended (Runner.Cancel, Jobs.CancelJob).
CancelFinds == \A j \in Jobs : Open(j) => j \in running \cup lost
=============================================================================
