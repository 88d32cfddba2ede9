--------------------------- MODULE TaskSupervisor ---------------------------
(***************************************************************************)
(* The task manager (src/modules/task-manager): users' calls change rows  *)
(* of the task table, a supervisor launches, watches and collects one      *)
(* container per task.  The supervisor's jobs run one after the other      *)
(* through one promise queue; users' calls, waits for containers and stops *)
(* run beside it, between any two awaits of a job.  Every action is the    *)
(* code between two awaits; pc and work are where the job at the head of   *)
(* the queue is and what it holds.  Slots are in ProcessingSlots.          *)
(***************************************************************************)
EXTENDS Integers, Sequences, FiniteSets

CONSTANTS
  Tasks,         \* ids tasks may get
  Users, Owner,  \* the user each id's task is submitted by
  NoTask,
  MaxConcurrent, MaxConcurrentPerUser,
  Hanging,       \* tasks whose container neither ends nor reports by itself
  Failing,       \* what may fail: a subset of Calls
  MaxFailures,   \* bound on failures
  MaxCrashes,    \* bound on restarts of the task manager
  Cancelable, Removable, \* tasks their users cancel; remove or submit again
  MaxResubmits,  \* bound on concurrent resubmissions of one task
  MaxQueue       \* a tick is modelled while no more jobs than this are queued

Calls == {"query", "prepare", "run", "kill", "remove", "wipe", "wait", "stop"}

ASSUME ConstantsAssumption ==
  /\ IsFiniteSet(Tasks) /\ NoTask \notin Tasks /\ Owner \in [Tasks -> Users]
  /\ MaxConcurrent \in Nat /\ MaxConcurrentPerUser \in Nat
  /\ Hanging \subseteq Tasks /\ Cancelable \subseteq Tasks /\ Removable \subseteq Tasks
  /\ Failing \subseteq Calls
  /\ MaxFailures \in Nat /\ MaxCrashes \in Nat /\ MaxResubmits \in Nat /\ MaxQueue \in Nat

VARIABLES
  state, removed,   \* table task: state, removed
  created,          \* creation_time
  overdue,          \* progress_time (ACTIVE) or update_time (CANCELING) is too old
  container, files, \* the task's container; its workspace and the result in it
  lateRuns,         \* starts that were given up on and may still come through
  queue, pc, work,  \* the supervisor's queue and the job at its head
  watched, stopping,\* #watched, #stopping
  phase,            \* start()
  cancels, resubmits, reborn, \* users' calls in flight
  asked, origin,    \* history: cancellations asked for; what a task is a rerun of
  failures, crashes

rows == <<state, removed, created, overdue, origin>>
engine == <<container, files, lateRuns>>
job == <<queue, pc, work>>
memory == <<watched, stopping>>
calls == <<cancels, resubmits, reborn, asked>>
faults == <<failures, crashes>>
vars == <<rows, engine, job, memory, calls, phase, faults>>

RunningStates == {"ACTIVE", "CANCELING"}
FinishedStates == {"COMPLETED", "CANCELED", "FAILED"}
States == {"none", "PENDING"} \union RunningStates \union FinishedStates

Running == {t \in Tasks : state[t] \in RunningStates}
RunningOf(u) == {t \in Running : Owner[t] = u}
Finished(t) == state[t] \in FinishedStates
Up(t) == container[t] \in {"running", "signalled"}

Job(k) == [kind |-> k, task |-> NoTask]
JobOf(k, t) == [kind |-> k, task |-> t]
Jobs == [kind : {"dispatch", "reconcile", "timeouts", "boot", "started"}, task : {NoTask}]
          \union [kind : {"collect", "stop"}, task : Tasks]
Steps == {"idle", "count", "countByUser", "pick", "activate", "prepare", "run", "launchFailed",
          "fetch", "read", "settle", "kill", "remove", "wipe",
          "list", "rows", "reconcile", "stalled", "fail", "force"}

Work0 == [task |-> NoTask, free |-> 0, busy |-> [u \in Users |-> 0],
          seen |-> [t \in Tasks |-> "none"], verdict |-> "none",
          listing |-> [t \in Tasks |-> "none"], todo |-> {}, back |-> "idle"]

RowsOK ==
  /\ state \in [Tasks -> States] /\ removed \subseteq Tasks
  /\ created \in [Tasks -> Nat] /\ overdue \subseteq Tasks
  /\ origin \in [Tasks -> Tasks \union {NoTask}]

EngineOK ==
  /\ container \in [Tasks -> {"none", "created", "running", "signalled", "exited"}]
  /\ files \in [Tasks -> {"none", "ready"} \union FinishedStates]
  /\ lateRuns \subseteq Tasks

JobOK ==
  /\ queue \in Seq(Jobs)
  /\ pc \in Steps /\ (pc # "idle" => queue # <<>>)
  /\ work \in [task : Tasks \union {NoTask}, free : Int, busy : [Users -> Nat],
               seen : [Tasks -> {"none"} \union RunningStates],
               verdict : {"none"} \union FinishedStates,
               listing : [Tasks -> {"none", "up", "down"}], todo : SUBSET Tasks,
               back : {"idle", "pick", "count", "reconcile", "fail", "force"}]

TaskInHand == pc \in {"activate", "prepare", "run", "launchFailed", "fetch", "read", "settle",
                     "kill", "remove", "wipe"} => work.task \in Tasks

ProcessOK ==
  /\ watched \in [Tasks -> {"no", "waiting", "queued"}] /\ stopping \subseteq Tasks
  /\ phase \in {"down", "starting", "up"}
  /\ cancels \in [Tasks -> {"none", "pending", "running"}]
  /\ resubmits \in [Tasks -> Nat] /\ reborn \subseteq Tasks /\ asked \subseteq Tasks
  /\ failures \in Nat /\ crashes \in Nat

TypeOK == RowsOK /\ EngineOK /\ JobOK /\ TaskInHand /\ ProcessOK

Init ==
  /\ state = [t \in Tasks |-> "none"] /\ removed = {} /\ created = [t \in Tasks |-> 0]
  /\ overdue = {} /\ origin = [t \in Tasks |-> NoTask]
  /\ container = [t \in Tasks |-> "none"] /\ files = [t \in Tasks |-> "none"]
  /\ lateRuns = {}
  /\ queue = <<>> /\ pc = "idle" /\ work = Work0
  /\ watched = [t \in Tasks |-> "no"] /\ stopping = {} /\ phase = "down"
  /\ cancels = [t \in Tasks |-> "none"] /\ resubmits = [t \in Tasks |-> 0]
  /\ reborn = {} /\ asked = {}
  /\ failures = 0 /\ crashes = 0

-----------------------------------------------------------------------------
(* The repository's writes.                                                *)

Insert(t) ==
  /\ state' = [state EXCEPT ![t] = "PENDING"]
  /\ created' = [created EXCEPT ![t] = Cardinality({u \in Tasks : state[u] # "none"}) + 1]

(* transition: both clocks start anew; nothing happens in another state. *)
Transition(t, from, to) ==
  IF state[t] \in from
  THEN /\ state' = [state EXCEPT ![t] = to]
       /\ overdue' = overdue \ {t}
  ELSE UNCHANGED <<state, overdue>>

Enqueue(jobs) == queue' = queue \o jobs

MayFail(call) == call \in Failing /\ failures < MaxFailures /\ failures' = failures + 1

-----------------------------------------------------------------------------
(* Users' calls.                                                           *)

Submit(t) ==
  /\ state[t] = "none" /\ Insert(t)
  /\ Enqueue(<<Job("dispatch")>>)
  /\ UNCHANGED <<removed, overdue, origin, engine, pc, work, memory, calls, phase, faults>>

ReadForCancel(t) ==
  /\ t \in Cancelable /\ cancels[t] = "none" /\ state[t] \in {"PENDING", "ACTIVE"}
  /\ cancels' = [cancels EXCEPT ![t] = IF state[t] = "PENDING" THEN "pending" ELSE "running"]
  /\ asked' = asked \union {t}
  /\ UNCHANGED <<rows, engine, job, memory, resubmits, reborn, phase, faults>>

CancelPending(t) ==
  /\ cancels[t] = "pending"
  /\ Transition(t, {"PENDING"}, "CANCELED")
  /\ cancels' = [cancels EXCEPT ![t] = IF state[t] = "PENDING" THEN "none" ELSE "running"]
  /\ UNCHANGED <<removed, created, origin, engine, job, memory, resubmits, reborn, asked, phase, faults>>

(* Mutant of CancelRunning: the row is written whatever its state. *)
CancelRunningUnguarded(t) ==
  /\ cancels[t] = "running"
  /\ state' = [state EXCEPT ![t] = "CANCELING"] /\ overdue' = overdue \ {t}
  /\ Enqueue(<<JobOf("stop", t)>>)
  /\ cancels' = [cancels EXCEPT ![t] = "none"]
  /\ UNCHANGED <<removed, created, origin, engine, pc, work, memory, resubmits, reborn, asked, phase, faults>>

(* stopContainer awaits the queue as it is: its stop runs when the last of *)
(* the jobs queued by now has ended, before any queued later.              *)
CancelRunning(t) ==
  /\ cancels[t] = "running"
  /\ Transition(t, {"ACTIVE"}, "CANCELING")
  /\ IF state[t] = "ACTIVE" THEN Enqueue(<<JobOf("stop", t)>>) ELSE UNCHANGED queue
  /\ cancels' = [cancels EXCEPT ![t] = "none"]
  /\ UNCHANGED <<removed, created, origin, engine, pc, work, memory, resubmits, reborn, asked, phase, faults>>

Remove(t) ==
  /\ Finished(t) /\ t \in Removable \ removed
  /\ removed' = removed \union {t}
  /\ UNCHANGED <<state, created, overdue, origin, engine, job, memory, calls, phase, faults>>

ReadForResubmit(t) ==
  /\ Finished(t) /\ t \in Removable /\ resubmits[t] < MaxResubmits
  /\ resubmits' = [resubmits EXCEPT ![t] = @ + 1]
  /\ UNCHANGED <<rows, engine, job, memory, cancels, reborn, asked, phase, faults>>

(* Mutant of RemoveForResubmit: whether it removed the task is not asked. *)
RemoveForResubmitUnchecked(t) ==
  /\ resubmits[t] > 0
  /\ resubmits' = [resubmits EXCEPT ![t] = @ - 1]
  /\ removed' = removed \union {t} /\ reborn' = reborn \union {t}
  /\ UNCHANGED <<state, created, overdue, origin, engine, job, memory, cancels, asked, phase, faults>>

(* Of the calls that read the task as finished, the one that removes it    *)
(* goes on.                                                                *)
RemoveForResubmit(t) ==
  /\ resubmits[t] > 0
  /\ resubmits' = [resubmits EXCEPT ![t] = @ - 1]
  /\ IF t \in removed
     THEN UNCHANGED <<removed, reborn>>
     ELSE removed' = removed \union {t} /\ reborn' = reborn \union {t}
  /\ UNCHANGED <<state, created, overdue, origin, engine, job, memory, cancels, asked, phase, faults>>

SubmitAgain(t, u) ==
  /\ t \in reborn /\ state[u] = "none" /\ Owner[u] = Owner[t]
  /\ Insert(u) /\ origin' = [origin EXCEPT ![u] = t]
  /\ reborn' = reborn \ {t}
  /\ Enqueue(<<Job("dispatch")>>)
  /\ UNCHANGED <<removed, overdue, engine, pc, work, memory, cancels, resubmits, asked, phase, faults>>

(* The container's key is good while its task runs. *)
ReportProgress(t) ==
  /\ Up(t) /\ t \notin Hanging /\ state[t] = "ACTIVE" /\ t \in overdue
  /\ overdue' = overdue \ {t}
  /\ UNCHANGED <<state, removed, created, origin, engine, job, memory, calls, phase, faults>>

-----------------------------------------------------------------------------
(* The queue.  A job that throws is logged, and the queue goes on.  The    *)
(* wait whose end queued a collect is forgotten when that job has ended.   *)

EndJob ==
  /\ queue' = Tail(queue) /\ pc' = "idle" /\ work' = Work0
  /\ watched' = IF Head(queue).kind = "collect"
                THEN [watched EXCEPT ![Head(queue).task] = "no"] ELSE watched

Goto(step) == pc' = step /\ UNCHANGED <<queue, watched>>

(* Where a nested call returns to; "idle" when it threw or ends the job.   *)
Return(step) == IF step = "idle" THEN EndJob ELSE Goto(step) /\ work' = [work EXCEPT !.back = "idle"]

First(kind) == CASE kind = "dispatch" -> "count" [] kind = "reconcile" -> "list"
                 [] kind = "timeouts" -> "stalled" [] kind = "collect" -> "fetch"

StartJob ==
  /\ pc = "idle" /\ queue # <<>>
  /\ Head(queue).kind \in {"dispatch", "reconcile", "timeouts", "collect"}
  /\ Goto(First(Head(queue).kind)) /\ work' = [work EXCEPT !.task = Head(queue).task]
  /\ UNCHANGED <<rows, engine, stopping, calls, phase, faults>>

(* #stop: docker.stop is issued and not awaited. *)
IssueStop(t) ==
  /\ stopping' = stopping \union {t}
  /\ container' = IF t \notin stopping /\ container[t] = "running"
                  THEN [container EXCEPT ![t] = "signalled"] ELSE container

Watched(t) == IF watched[t] = "no" THEN [watched EXCEPT ![t] = "waiting"] ELSE watched

StopQueued ==
  /\ pc = "idle" /\ queue # <<>> /\ Head(queue).kind = "stop"
  /\ IssueStop(Head(queue).task) /\ queue' = Tail(queue)
  /\ UNCHANGED <<rows, files, lateRuns, pc, work, watched, calls, phase, faults>>

(* One step of the job failed: what it had left to do is left to a later   *)
(* reconcile.  A failed write is one that was not stored, or one that was  *)
(* and whose next step is the one that fails.                              *)
JobFails ==
  /\ \/ pc \in {"count", "countByUser", "pick", "activate", "prepare", "launchFailed", "fetch", "settle", "remove",
                "list", "rows", "reconcile", "stalled", "fail", "force"} /\ MayFail("query")
     \/ pc = "kill" /\ MayFail("kill")
     \/ pc = "wipe" /\ MayFail("wipe")
  /\ EndJob
  /\ UNCHANGED <<rows, engine, stopping, calls, phase, crashes>>

-----------------------------------------------------------------------------
(* #dispatchPending and #launch.                                           *)

(* Mutant of CountRunning: with the tasks that are pending. *)
CountUnfinished ==
  /\ pc = "count" /\ Goto("countByUser")
  /\ work' = [work EXCEPT !.free = MaxConcurrent - Cardinality(Running \union {t \in Tasks : state[t] = "PENDING"})]
  /\ UNCHANGED <<rows, engine, stopping, calls, phase, faults>>

(* Mutant of CountRunning: without the tasks being canceled. *)
CountActive ==
  /\ pc = "count" /\ Goto("countByUser")
  /\ work' = [work EXCEPT !.free = MaxConcurrent - Cardinality({t \in Tasks : state[t] = "ACTIVE"})]
  /\ UNCHANGED <<rows, engine, stopping, calls, phase, faults>>

CountRunning ==
  /\ pc = "count" /\ Goto("countByUser")
  /\ work' = [work EXCEPT !.free = MaxConcurrent - Cardinality(Running)]
  /\ UNCHANGED <<rows, engine, stopping, calls, phase, faults>>

(* Mutant of CountByUser: without the tasks being canceled. *)
CountActiveByUser ==
  /\ pc = "countByUser" /\ Goto("pick")
  /\ work' = [work EXCEPT !.busy = [u \in Users |-> Cardinality({t \in RunningOf(u) : state[t] = "ACTIVE"})]]
  /\ UNCHANGED <<rows, engine, stopping, calls, phase, faults>>

CountByUser ==
  /\ pc = "countByUser" /\ Goto("pick")
  /\ work' = [work EXCEPT !.busy = [u \in Users |-> Cardinality(RunningOf(u))]]
  /\ UNCHANGED <<rows, engine, stopping, calls, phase, faults>>

(* Pending tasks whose user is below the limit. *)
Startable == {t \in Tasks : state[t] = "PENDING" /\ work.busy[Owner[t]] < MaxConcurrentPerUser}

Pick ==
  /\ pc = "pick" /\ work.free > 0
  /\ \E t \in Startable :
       /\ \A u \in Startable : created[t] <= created[u]
       /\ work' = [work EXCEPT !.task = t]
  /\ Goto("activate")
  /\ UNCHANGED <<rows, engine, stopping, calls, phase, faults>>

(* Ends the job, or goes back to the reconcile that collected a container. *)
DispatchDone ==
  /\ pc = "pick" /\ (work.free <= 0 \/ Startable = {})
  /\ IF Head(queue).kind = "reconcile" THEN Goto("reconcile") /\ UNCHANGED work ELSE EndJob
  /\ UNCHANGED <<rows, engine, stopping, calls, phase, faults>>

Activate ==
  /\ pc = "activate"
  /\ Transition(work.task, {"PENDING"}, "ACTIVE")
  /\ Goto(IF state[work.task] = "PENDING" THEN "prepare" ELSE "pick")
  /\ UNCHANGED <<removed, created, origin, engine, work, stopping, calls, phase, faults>>

Prepare ==
  /\ pc = "prepare"
  /\ \/ files' = [files EXCEPT ![work.task] = "ready"] /\ Goto("run") /\ UNCHANGED faults
     \/ /\ MayFail("prepare") /\ Goto("launchFailed") /\ UNCHANGED crashes
        /\ files' \in {files, [files EXCEPT ![work.task] = "ready"]}
  /\ UNCHANGED <<rows, container, lateRuns, work, stopping, calls, phase>>

Run ==
  /\ pc = "run"
  /\ container' = [container EXCEPT ![work.task] = "running"]
  /\ pc' = "pick" /\ watched' = Watched(work.task)
  /\ work' = [work EXCEPT !.free = @ - 1, !.busy[Owner[work.task]] = @ + 1]
  /\ UNCHANGED <<rows, files, lateRuns, queue, stopping, calls, phase, faults>>

(* Creating or starting failed, or the daemon did not answer in time and   *)
(* may have done or yet do it.                                             *)
RunFails ==
  /\ pc = "run" /\ MayFail("run") /\ Goto("launchFailed")
  /\ \/ container' \in {[container EXCEPT ![work.task] = c] : c \in {"none", "created", "running"}}
        /\ UNCHANGED lateRuns
     \/ lateRuns' = lateRuns \union {work.task} /\ UNCHANGED container
  /\ UNCHANGED <<rows, files, work, stopping, calls, phase, crashes>>

MarkFailed ==
  /\ pc = "launchFailed" /\ Goto("remove")
  /\ Transition(work.task, RunningStates, "FAILED")
  /\ work' = [work EXCEPT !.back = "pick"]
  /\ UNCHANGED <<removed, created, origin, engine, stopping, calls, phase, faults>>

-----------------------------------------------------------------------------
(* #discard: the workspace goes even if the container could not be         *)
(* removed, and then the job fails.                                        *)

RemoveContainer ==
  /\ pc = "remove" /\ Goto("wipe")
  /\ \/ container' = [container EXCEPT ![work.task] = "none"] /\ UNCHANGED <<work, faults>>
     \/ /\ MayFail("remove") /\ UNCHANGED <<container, crashes>>
        /\ work' = [work EXCEPT !.back = "idle"]
  /\ UNCHANGED <<rows, files, lateRuns, stopping, calls, phase>>

WipeWorkspace ==
  /\ pc = "wipe" /\ files' = [files EXCEPT ![work.task] = "none"]
  /\ Return(work.back)
  /\ UNCHANGED <<rows, container, lateRuns, stopping, calls, phase, faults>>

-----------------------------------------------------------------------------
(* #collect and #outcome.                                                  *)

(* Mutant of Interrupted: a stop by anybody is a cancel. *)
InterruptedIsCanceled(s) == "CANCELED"

Interrupted(s) == IF s = "CANCELING" THEN "CANCELED" ELSE "FAILED"

(* What the state the row was read in, s, and the result file, f, make of  *)
(* a container that has ended.                                             *)
Outcome(s, f) ==
  CASE f = "CANCELED" -> Interrupted(s)
    [] f \in {"COMPLETED", "FAILED"} -> f
    [] OTHER -> Interrupted(s)

(* Mutant of Fetch: any task is settled. *)
FetchAny ==
  /\ pc = "fetch" /\ Goto("read")
  /\ work' = [work EXCEPT !.seen[work.task] = state[work.task]]
  /\ UNCHANGED <<rows, engine, stopping, calls, phase, faults>>

Fetch ==
  /\ pc = "fetch"
  /\ IF state[work.task] \in RunningStates
     THEN Goto("read") /\ work' = [work EXCEPT !.seen[work.task] = state[work.task]]
     ELSE Goto("remove") /\ work' = [work EXCEPT !.back = "count"]
  /\ UNCHANGED <<rows, engine, stopping, calls, phase, faults>>

ReadResult ==
  /\ pc = "read" /\ Goto("settle")
  /\ work' = [work EXCEPT !.verdict = Outcome(work.seen[work.task], files[work.task])]
  /\ UNCHANGED <<rows, engine, stopping, calls, phase, faults>>

Settle ==
  /\ pc = "settle" /\ Goto("remove")
  /\ Transition(work.task, RunningStates, work.verdict)
  /\ work' = [work EXCEPT !.back = "count", !.verdict = "none"]
  /\ UNCHANGED <<removed, created, origin, engine, stopping, calls, phase, faults>>

-----------------------------------------------------------------------------
(* #reconcile: containers are listed first, then rows are read.            *)

ListContainers ==
  /\ pc = "list" /\ Goto("rows")
  /\ work' = [work EXCEPT !.listing = [t \in Tasks |->
                 CASE container[t] = "none" -> "none" [] Up(t) -> "up"
                   [] OTHER -> "down"]]
  /\ UNCHANGED <<rows, engine, stopping, calls, phase, faults>>

ReadRunning ==
  /\ pc = "rows" /\ Goto("reconcile")
  /\ work' = [work EXCEPT !.seen = [t \in Tasks |-> IF t \in Running THEN state[t] ELSE "none"],
                          !.todo = Running]
  /\ UNCHANGED <<rows, engine, stopping, calls, phase, faults>>

ReconcileLost(t) ==
  /\ pc = "reconcile" /\ t \in work.todo /\ work.listing[t] = "none"
  /\ Transition(t, RunningStates, Interrupted(work.seen[t]))
  /\ Goto("wipe")
  /\ work' = [work EXCEPT !.todo = @ \ {t}, !.task = t, !.back = "reconcile"]
  /\ UNCHANGED <<removed, created, origin, engine, stopping, calls, phase, faults>>

ReconcileRunning(t) ==
  /\ pc = "reconcile" /\ t \in work.todo /\ work.listing[t] = "up"
  /\ IF work.seen[t] = "CANCELING" THEN IssueStop(t) ELSE UNCHANGED <<stopping, container>>
  /\ watched' = Watched(t)
  /\ work' = [work EXCEPT !.todo = @ \ {t}]
  /\ UNCHANGED <<rows, files, lateRuns, queue, pc, calls, phase, faults>>

ReconcileEnded(t) ==
  /\ pc = "reconcile" /\ t \in work.todo /\ work.listing[t] = "down"
  /\ Goto("fetch")
  /\ work' = [work EXCEPT !.todo = @ \ {t}, !.task = t]
  /\ UNCHANGED <<rows, engine, stopping, calls, phase, faults>>

(* Mutant of Orphans: only those of tasks that were never run. *)
OrphansNeverRun == {t \in Tasks : work.listing[t] # "none" /\ state[t] \in {"none", "PENDING"}}

Orphans == {t \in Tasks : work.listing[t] # "none" /\ work.seen[t] = "none"}

RemoveOrphan(t) ==
  /\ pc = "reconcile" /\ work.todo = {} /\ t \in Orphans
  /\ \/ /\ container' = [container EXCEPT ![t] = "none"] /\ Goto("wipe") /\ UNCHANGED faults
        /\ work' = [work EXCEPT !.listing[t] = "none", !.task = t, !.back = "reconcile"]
     \/ MayFail("remove") /\ EndJob /\ UNCHANGED <<container, crashes>>
  /\ UNCHANGED <<rows, files, lateRuns, stopping, calls, phase>>

ReconcileDone ==
  /\ pc = "reconcile" /\ work.todo = {} /\ Orphans = {}
  /\ EndJob
  /\ UNCHANGED <<rows, engine, stopping, calls, phase, faults>>

-----------------------------------------------------------------------------
(* #enforceTimeouts: a stalled or overdue task is ended if it still is in  *)
(* the state it was read in, and its container killed in any case.         *)

ReadStalled ==
  /\ pc = "stalled" /\ Goto("fail")
  /\ work' = [work EXCEPT !.todo = {t \in overdue : state[t] = "ACTIVE"}]
  /\ UNCHANGED <<rows, engine, stopping, calls, phase, faults>>

(* Mutant of FailStalled: the container is killed before the row is written. *)
FailStalledKillFirst(t) ==
  /\ pc = "fail" /\ t \in work.todo /\ Goto("kill")
  /\ work' = [work EXCEPT !.todo = @ \ {t}, !.task = t, !.back = "fail"]
  /\ UNCHANGED <<rows, engine, stopping, calls, phase, faults>>

FailStalled(t) ==
  /\ pc = "fail" /\ t \in work.todo /\ Goto("kill")
  /\ Transition(t, {"ACTIVE"}, "FAILED")
  /\ work' = [work EXCEPT !.todo = @ \ {t}, !.task = t, !.back = "fail"]
  /\ UNCHANGED <<removed, created, origin, engine, stopping, calls, phase, faults>>

ReadCanceling ==
  /\ pc = "fail" /\ work.todo = {} /\ Goto("force")
  /\ work' = [work EXCEPT !.todo = {t \in overdue : state[t] = "CANCELING"}]
  /\ UNCHANGED <<rows, engine, stopping, calls, phase, faults>>

ForceCancel(t) ==
  /\ pc = "force" /\ t \in work.todo /\ Goto("kill")
  /\ Transition(t, {"CANCELING"}, "CANCELED")
  /\ work' = [work EXCEPT !.todo = @ \ {t}, !.task = t, !.back = "force"]
  /\ UNCHANGED <<removed, created, origin, engine, stopping, calls, phase, faults>>

TimeoutsDone ==
  /\ pc = "force" /\ work.todo = {}
  /\ EndJob
  /\ UNCHANGED <<rows, engine, stopping, calls, phase, faults>>

Kill ==
  /\ pc = "kill" /\ Goto("remove")
  /\ container' = [container EXCEPT ![work.task] = IF Up(work.task) THEN "exited" ELSE @]
  /\ UNCHANGED <<rows, files, lateRuns, work, stopping, calls, phase, faults>>

-----------------------------------------------------------------------------
(* Containers, the Docker daemon and time.                                 *)

(* The runner writes its result and exits, or exits without one.  A stop   *)
(* by anybody makes it report CANCELED.                                    *)
Exit(t) ==
  /\ Up(t) /\ t \notin Hanging
  /\ container' = [container EXCEPT ![t] = "exited"]
  /\ \E result \in FinishedStates \union {"none"} :
       files' = IF result = "none" \/ files[t] = "none" THEN files ELSE [files EXCEPT ![t] = result]
  /\ UNCHANGED <<rows, lateRuns, job, memory, calls, phase, faults>>

(* Binding the workspace creates its directory again. *)
RunLate(t) ==
  /\ t \in lateRuns /\ lateRuns' = lateRuns \ {t}
  /\ container' = [container EXCEPT ![t] = "running"]
  /\ files' = IF files[t] = "none" THEN [files EXCEPT ![t] = "ready"] ELSE files
  /\ UNCHANGED <<rows, job, memory, calls, phase, faults>>

(* When a clock runs out is of no consequence before enforceTimeouts reads *)
(* it.                                                                     *)
BecomeOverdue(t) ==
  /\ state[t] \in RunningStates /\ t \notin overdue
  /\ pc = "stalled" \/ (pc = "fail" /\ work.todo = {})
  /\ overdue' = overdue \union {t}
  /\ UNCHANGED <<state, removed, created, origin, engine, job, memory, calls, phase, faults>>

(* A wait ends with the container, with a 404, or with the daemon. *)
WaitEnds(t) ==
  /\ watched[t] = "waiting" /\ container[t] \in {"created", "exited"}
  /\ watched' = [watched EXCEPT ![t] = "queued"]
  /\ Enqueue(<<JobOf("collect", t)>>)
  /\ UNCHANGED <<rows, engine, pc, work, stopping, calls, phase, faults>>

WaitThrows(t) ==
  /\ watched[t] = "waiting"
  /\ \/ container[t] = "none" /\ UNCHANGED faults
     \/ MayFail("wait") /\ UNCHANGED crashes
  /\ watched' = [watched EXCEPT ![t] = "no"]
  /\ UNCHANGED <<rows, engine, job, stopping, calls, phase>>

(* Mutant of StopSettles: a stop is forgotten as soon as it is issued. *)
StopForgotten(t) ==
  /\ t \in stopping /\ stopping' = stopping \ {t}
  /\ UNCHANGED <<rows, engine, job, watched, calls, phase, faults>>

(* docker.stop settles when the container has exited, which Docker forces  *)
(* when the grace period is over.                                          *)
StopSettles(t) ==
  /\ t \in stopping /\ stopping' = stopping \ {t}
  /\ \/ container' = [container EXCEPT ![t] = IF Up(t) THEN "exited" ELSE @] /\ UNCHANGED faults
     \/ MayFail("stop") /\ Up(t) /\ UNCHANGED <<container, crashes>>
  /\ UNCHANGED <<rows, files, lateRuns, job, watched, calls, phase>>

-----------------------------------------------------------------------------
(* The process.  start() waits for its reconcile, then for a dispatch, and *)
(* then sets the timer; users' calls are answered all the while.           *)

Boot ==
  /\ phase = "down" /\ phase' = "starting"
  /\ overdue' = overdue \ Running
  /\ Enqueue(<<Job("reconcile"), Job("boot")>>)
  /\ UNCHANGED <<state, removed, created, origin, engine, pc, work, memory, calls, faults>>

BootGoesOn ==
  /\ pc = "idle" /\ queue # <<>>
  /\ \/ Head(queue).kind = "boot" /\ UNCHANGED phase
        /\ queue' = Tail(queue) \o <<Job("dispatch"), Job("started")>>
     \/ Head(queue).kind = "started" /\ phase' = "up" /\ queue' = Tail(queue)
  /\ UNCHANGED <<rows, engine, pc, work, memory, calls, faults>>

(* Mutant of Tick: neither reconciles nor enforces timeouts. *)
TickDispatching ==
  /\ phase = "up" /\ Len(queue) <= MaxQueue
  /\ Enqueue(<<Job("dispatch")>>)
  /\ UNCHANGED <<rows, engine, pc, work, memory, calls, phase, faults>>

Tick ==
  /\ phase = "up" /\ Len(queue) <= MaxQueue
  /\ Enqueue(<<Job("reconcile"), Job("timeouts"), Job("dispatch")>>)
  /\ UNCHANGED <<rows, engine, pc, work, memory, calls, phase, faults>>

(* Rows, containers and workspaces outlive the process, nothing else. *)
Crash ==
  /\ crashes < MaxCrashes /\ crashes' = crashes + 1
  /\ queue' = <<>> /\ pc' = "idle" /\ work' = Work0 /\ phase' = "down"
  /\ watched' = [t \in Tasks |-> "no"] /\ stopping' = {}
  /\ cancels' = [t \in Tasks |-> "none"] /\ resubmits' = [t \in Tasks |-> 0] /\ reborn' = {}
  /\ UNCHANGED <<rows, engine, asked, failures>>

-----------------------------------------------------------------------------

DispatchSteps == CountRunning \/ CountByUser \/ Pick \/ DispatchDone \/ Activate \/ Prepare \/ Run
                 \/ RunFails \/ MarkFailed
CollectSteps == Fetch \/ ReadResult \/ Settle \/ RemoveContainer \/ WipeWorkspace
ReconcileSteps == ListContainers \/ ReadRunning \/ ReconcileDone
                  \/ \E t \in Tasks : ReconcileLost(t) \/ ReconcileRunning(t) \/ ReconcileEnded(t) \/ RemoveOrphan(t)
TimeoutSteps == ReadStalled \/ ReadCanceling \/ TimeoutsDone \/ Kill
                \/ \E t \in Tasks : FailStalled(t) \/ ForceCancel(t)

Supervise == StartJob \/ StopQueued \/ BootGoesOn \/ JobFails
             \/ DispatchSteps \/ CollectSteps \/ ReconcileSteps \/ TimeoutSteps

CancelSteps(t) == CancelPending(t) \/ CancelRunning(t)

UserCalls == \E t \in Tasks : \/ Submit(t) \/ ReadForCancel(t) \/ CancelSteps(t) \/ Remove(t)
                              \/ ReadForResubmit(t) \/ RemoveForResubmit(t)
                              \/ \E u \in Tasks : SubmitAgain(t, u)

Environment == \E t \in Tasks : \/ ReportProgress(t) \/ Exit(t) \/ RunLate(t) \/ BecomeOverdue(t)
                                \/ WaitEnds(t) \/ WaitThrows(t) \/ StopSettles(t)

Next == Supervise \/ UserCalls \/ Environment \/ Boot \/ Tick \/ Crash

Spec == Init /\ [][Next]_vars

(* What the event loop, the timer, the clock and Docker give, and that the *)
(* work of a container that does not hang is finite.                       *)
Fairness ==
  /\ WF_vars(Supervise) /\ WF_vars(Boot) /\ WF_vars(Tick)
  /\ \A t \in Tasks : /\ WF_vars(CancelSteps(t)) /\ WF_vars(Exit(t)) /\ SF_vars(BecomeOverdue(t))
                      /\ WF_vars(WaitEnds(t) \/ WaitThrows(t)) /\ WF_vars(StopSettles(t))

FairSpec == Spec /\ Fairness

-----------------------------------------------------------------------------
(* Properties. *)

(* However dispatches, launches that fail, collects in the middle of a     *)
(* reconcile and restarts follow one another, no more tasks run than the   *)
(* two limits allow (#dispatchPending counts once and then keeps count).   *)
LimitsHold ==
  /\ Cardinality(Running) <= MaxConcurrent
  /\ \A u \in Users : Cardinality(RunningOf(u)) <= MaxConcurrentPerUser

(* While its task is ACTIVE, a container that runs is left alone: a stop, a *)
(* kill or a removal, decided on by a cancel, a reconcile, a collect or    *)
(* the timeouts from rows and listings read before, comes after the row    *)
(* has been moved on.                                                      *)
RunnerLeftAlone ==
  [][\A t \in Tasks : state[t] = "ACTIVE" /\ container[t] = "running"
       => container'[t] = "running" \/ Exit(t)]_vars

(* #outcome: a task is CANCELED only if somebody asked for it, whoever has *)
(* stopped its container, and COMPLETED only if its runner wrote so.       *)
CanceledOnRequest == \A t \in Tasks : state[t] \in {"CANCELING", "CANCELED"} => t \in asked

(* repository.remove answers whether it removed the task, so that of two   *)
(* resubmissions only one runs it again.                                   *)
RerunOnce ==
  \A u, v \in Tasks : origin[u] # NoTask => /\ origin[u] = origin[v] => u = v
                                          /\ origin[u] \notin reborn

(* What makes these inductive: the count a dispatch keeps in hand while    *)
(* rows change beside it,                                                  *)
Counted(S) ==
  /\ work.free + Cardinality(S) <= MaxConcurrent
  /\ \A u \in Users : Cardinality({t \in S : Owner[t] = u}) <= work.busy[u]

Room == work.free > 0 /\ work.busy[Owner[work.task]] < MaxConcurrentPerUser

CountKept ==
  /\ pc = "countByUser" => work.free + Cardinality(Running) <= MaxConcurrent
  /\ pc = "pick" \/ (pc \in {"kill", "remove", "wipe"} /\ work.back = "pick") => Counted(Running)
  /\ pc = "activate" => Counted(Running) /\ Room
  /\ pc \in {"prepare", "run", "launchFailed"} =>
       state[work.task] \in RunningStates /\ Counted(Running \ {work.task}) /\ Room

Canceled(t) == state[t] \in {"CANCELING"} \union FinishedStates

(* what a job has read of a row and what may have become of it since,      *)
ReadsHold ==
  /\ \A t \in Tasks : work.seen[t] = "CANCELING" => Canceled(t)
  /\ pc = "settle" => work.verdict \in FinishedStates /\ (work.verdict = "CANCELED" => Canceled(work.task))
  /\ \A t \in Tasks : /\ cancels[t] # "none" => t \in asked /\ state[t] # "none"
                      /\ resubmits[t] > 0 => Finished(t)

(* and that what is run again has been removed.                            *)
RerunsAreRemoved ==
  /\ reborn \subseteq removed
  /\ \A u \in Tasks : /\ origin[u] # NoTask => origin[u] \in removed
                      /\ state[u] = "none" => origin[u] = NoTask

IInv == LimitsHold /\ CanceledOnRequest /\ RerunOnce /\ CountKept /\ ReadsHold /\ RerunsAreRemoved

(* The rows only ever do what TaskLifecycle says.                          *)
Lifecycle == INSTANCE TaskLifecycle
LifecycleKept == Lifecycle!Spec

(* A cancellation ends, whatever the container, Docker and restarts do     *)
(* (enforceTimeouts).                                                      *)
CancelEnds == \A t \in Tasks : state[t] = "CANCELING" ~> Finished(t)

(* Pending tasks start, and so every task before them ends.                *)
PendingStarts == \A t \in Tasks : state[t] = "PENDING" ~> state[t] # "PENDING"

(* Of a finished task no container remains; its workspace neither, unless  *)
(* the process died between the two removals.                              *)
NothingIsLeft ==
  \A t \in Tasks : Finished(t) ~> container[t] = "none" /\ (files[t] = "none" \/ crashes > 0)

(* A runner is sent one SIGTERM, a second kills it before it has canceled  *)
(* its work: of a cancel and the reconciles that may follow while it is at *)
(* it, one stops it (#stop remembers).  A stop that failed, and one before *)
(* a restart, are forgotten.                                               *)
StoppedOnce ==
  [][failures + crashes = 0 => \A t \in stopping' \ stopping : container[t] # "signalled"]_vars
=============================================================================
