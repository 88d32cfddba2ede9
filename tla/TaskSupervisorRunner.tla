------------------------ MODULE TaskSupervisorRunner ------------------------
(***************************************************************************)
(* The container of an ACTIVE task is left alone (RunnerLeftAlone), and a  *)
(* runner is sent one SIGTERM (StoppedOnce, at the end).  What a job, a    *)
(* queued stop or a wait holds of a task was read before; rows only move   *)
(* on (Ages), so that it is enough to know how far the row had come when   *)
(* it was read.  RunnerInv says so for each of them.                       *)
(***************************************************************************)
EXTENDS TaskSupervisorProofs

Started(t) == state[t] \notin {"none", "PENDING"}

(* Rows move on.                                                           *)
Ages == \A x \in Tasks : (Started(x) => Started(x)') /\ (Canceled(x) => Canceled(x)')

(* A container, a start that may come through and a wait are of a task     *)
(* that has been launched; none is of one that is about to be.             *)
ContainersStarted ==
  \A x \in Tasks : container[x] # "none" \/ x \in lateRuns \/ watched[x] # "no" => Started(x)

(* A stop that is queued or issued is of a task being canceled or ended.   *)
QueueHolds(q) ==
  \A k \in 1 .. Len(q) : /\ q[k].kind = "stop" => Canceled(q[k].task)
                         /\ q[k].kind = "collect" => Started(q[k].task)

StopsAreAsked == QueueHolds(queue) /\ \A x \in stopping : Canceled(x)

(* The job kills and removes containers of tasks that are not ACTIVE any   *)
(* more, creates them for tasks that have none, and what it has read tells *)
(* it which are which.                                                     *)
JobMayEnd ==
  /\ pc \in {"kill", "remove"} => Canceled(work.task)
  /\ pc \in {"fetch", "read", "settle"} => Started(work.task)
  /\ pc \in {"prepare", "run"} => container[work.task] = "none" /\ work.task \notin lateRuns
  /\ \A x \in work.todo : Started(x)
  /\ pc = "force" \/ (pc \in {"kill", "remove", "wipe"} /\ work.back = "force")
       => \A x \in work.todo : Canceled(x)
  /\ \A x \in Tasks : work.listing[x] # "none" =>
       Started(x) /\ (work.seen[x] = "none" /\ pc # "rows" => Canceled(x))

RunnerInv == ContainersStarted /\ StopsAreAsked /\ JobMayEnd

-----------------------------------------------------------------------------
(* What most steps have in common.                                         *)

(* Every step of the lifecycle moves rows on.                              *)
LEMMA AgesStep ==
  ASSUME TypeOK, IInv, [Next]_vars
  PROVE  Ages
<1>1. [Lifecycle!Next]_Lifecycle!vars
  BY LifecycleStep DEF IInv, CountInv
<1>2. ASSUME NEW x \in Tasks, Started(x)
      PROVE  Started(x)'
  <2>1. ASSUME NEW t \in Tasks,
               \/ Lifecycle!Submit(t) \/ Lifecycle!Launch(t) \/ Lifecycle!Ask(t)
               \/ Lifecycle!Cancel(t) \/ Lifecycle!End(t) \/ Lifecycle!Remove(t)
        PROVE  Started(x)'
    BY <1>2, <2>1 DEF Started, TypeOK, RowsOK, Lifecycle!Become, Lifecycle!Submit, Lifecycle!Launch,
       Lifecycle!Ask, Lifecycle!Cancel, Lifecycle!End, Lifecycle!Remove, Lifecycle!FinishedStates
  <2>2. CASE UNCHANGED Lifecycle!vars
    BY <1>2, <2>2 DEF Started, Lifecycle!vars
  <2> QED
    BY <1>1, <2>1, <2>2 DEF Lifecycle!Next
<1>3. \A x \in Tasks : Canceled(x) => Canceled(x)'
  BY <1>1, NoWayBack DEF KeepsPast
<1> QED
  BY <1>2, <1>3 DEF Ages

(* A task that is not ACTIVE and has been launched is canceled or ended.   *)
LEMMA StartedOrCanceled ==
  ASSUME TypeOK, NEW x \in Tasks, Started(x), state[x] # "ACTIVE"
  PROVE  Canceled(x)
  BY DEF TypeOK, RowsOK, Started, Canceled, States, RunningStates

(* A step that launches and waits for nothing new.                         *)
LEMMA ContainersKept ==
  ASSUME RunnerInv, Ages,
         \A x \in Tasks : container[x] = "none" => container'[x] = "none",
         lateRuns' \subseteq lateRuns,
         \A x \in Tasks : watched[x] = "no" => watched'[x] = "no"
  PROVE  ContainersStarted'
  BY DEF RunnerInv, ContainersStarted, Ages, Started

(* A queue that loses its head, or has jobs appended that need nothing.    *)
LEMMA QueueKept ==
  ASSUME TypeOK, RunnerInv, Ages
  PROVE  /\ queue' = queue => QueueHolds(queue)'
         /\ queue # <<>> /\ queue' = Tail(queue) => QueueHolds(queue)'
         /\ queue' = <<>> => QueueHolds(queue)'
<1>1. \A k \in 1 .. Len(queue) : queue[k] \in Jobs
  BY DEF TypeOK, JobOK
<1>2. \A k \in 1 .. Len(queue) : queue[k].kind \in {"stop", "collect"} => queue[k].task \in Tasks
  BY <1>1 DEF Jobs
<1> DEFINE Good(j) == /\ j.kind = "stop" => state'[j.task] \in {"CANCELING"} \union FinishedStates
                      /\ j.kind = "collect" => state'[j.task] \notin {"none", "PENDING"}
<1>3. \A x \in Tasks :
        /\ state[x] \in {"CANCELING"} \union FinishedStates => state'[x] \in {"CANCELING"} \union FinishedStates
        /\ state[x] \notin {"none", "PENDING"} => state'[x] \notin {"none", "PENDING"}
  BY DEF Ages, Started, Canceled
<1>4. \A k \in 1 .. Len(queue) : Good(queue[k])
  BY <1>2, <1>3 DEF RunnerInv, StopsAreAsked, QueueHolds, Canceled, Started
<1>5. ASSUME queue # <<>>, queue' = Tail(queue)
      PROVE  \A k \in 1 .. Len(queue') : Good(queue'[k])
  <2>1. \A k \in 1 .. Len(queue') : k + 1 \in 1 .. Len(queue) /\ queue'[k] = queue[k + 1]
    BY <1>5 DEF TypeOK, JobOK
  <2> QED
    BY <1>4, <2>1
<1>6. (\A k \in 1 .. Len(queue') : Good(queue'[k])) => QueueHolds(queue)'
  BY DEF QueueHolds, Canceled, Started
<1>7. queue' = <<>> => Len(queue') = 0
  OBVIOUS
<1> QED
  BY <1>4, <1>5, <1>6, <1>7

(* Jobs that are appended to the queue, or to the rest of it.              *)
LEMMA QueueGrows ==
  ASSUME TypeOK, RunnerInv, Ages, NEW js \in Seq(Jobs),
         \A k \in 1 .. Len(js) :
           /\ js[k].kind = "stop" => state'[js[k].task] \in {"CANCELING"} \union FinishedStates
           /\ js[k].kind = "collect" => state'[js[k].task] \notin {"none", "PENDING"},
         queue' = queue \o js \/ (queue # <<>> /\ queue' = Tail(queue) \o js)
  PROVE  QueueHolds(queue)'
<1>1. \A k \in 1 .. Len(queue) : queue[k] \in Jobs
  BY DEF TypeOK, JobOK
<1>2. \A k \in 1 .. Len(queue) : queue[k].kind \in {"stop", "collect"} => queue[k].task \in Tasks
  BY <1>1 DEF Jobs
<1> DEFINE Good(j) == /\ j.kind = "stop" => state'[j.task] \in {"CANCELING"} \union FinishedStates
                      /\ j.kind = "collect" => state'[j.task] \notin {"none", "PENDING"}
<1>3. \A x \in Tasks :
        /\ state[x] \in {"CANCELING"} \union FinishedStates => state'[x] \in {"CANCELING"} \union FinishedStates
        /\ state[x] \notin {"none", "PENDING"} => state'[x] \notin {"none", "PENDING"}
  BY DEF Ages, Started, Canceled
<1>4. (\A k \in 1 .. Len(queue) : Good(queue[k])) /\ (\A k \in 1 .. Len(js) : Good(js[k]))
  BY <1>2, <1>3 DEF RunnerInv, StopsAreAsked, QueueHolds, Canceled, Started
<1>5. \A k \in 1 .. Len(queue') : \/ \E i \in 1 .. Len(queue) : queue'[k] = queue[i]
                                  \/ \E i \in 1 .. Len(js) : queue'[k] = js[i]
  <2>1. queue \in Seq(Jobs)
    BY DEF TypeOK, JobOK
  <2>2. CASE queue' = queue \o js
    <3>1. \A k \in 1 .. Len(queue') : k <= Len(queue) \/ k - Len(queue) \in 1 .. Len(js)
      BY <2>1, <2>2
    <3>2. \A k \in 1 .. Len(queue') : queue'[k] = IF k <= Len(queue) THEN queue[k] ELSE js[k - Len(queue)]
      BY <2>1, <2>2
    <3>3. ASSUME NEW k \in 1 .. Len(queue'), k <= Len(queue)
          PROVE  k \in 1 .. Len(queue) /\ queue'[k] = queue[k]
      BY <2>1, <3>2, <3>3
    <3>4. ASSUME NEW k \in 1 .. Len(queue'), ~(k <= Len(queue))
          PROVE  k - Len(queue) \in 1 .. Len(js) /\ queue'[k] = js[k - Len(queue)]
      BY <3>1, <3>2, <3>4
    <3> QED
      BY <3>3, <3>4
  <2>3. CASE queue # <<>> /\ queue' = Tail(queue) \o js
    <3>1. Tail(queue) \in Seq(Jobs) /\ Len(Tail(queue)) = Len(queue) - 1
      BY <2>1, <2>3
    <3>2. \A k \in 1 .. Len(Tail(queue)) : Tail(queue)[k] = queue[k + 1] /\ k + 1 \in 1 .. Len(queue)
      BY <2>1, <2>3
    <3>3. \A k \in 1 .. Len(queue') :
            k \in 1 .. Len(Tail(queue)) \/ k - Len(Tail(queue)) \in 1 .. Len(js)
      BY <2>1, <2>3, <3>1
    <3>4. \A k \in 1 .. Len(queue') :
            queue'[k] = IF k <= Len(Tail(queue)) THEN Tail(queue)[k] ELSE js[k - Len(Tail(queue))]
      BY <2>1, <2>3, <3>1
    <3>5. ASSUME NEW k \in 1 .. Len(queue'), k <= Len(Tail(queue))
          PROVE  k + 1 \in 1 .. Len(queue) /\ queue'[k] = queue[k + 1]
      <4>1. k \in 1 .. Len(Tail(queue))
        BY <2>1, <3>1, <3>5
      <4> QED
        BY <4>1, <3>2, <3>4, <3>5
    <3>6. ASSUME NEW k \in 1 .. Len(queue'), ~(k <= Len(Tail(queue)))
          PROVE  k - Len(Tail(queue)) \in 1 .. Len(js) /\ queue'[k] = js[k - Len(Tail(queue))]
      <4>1. k \notin 1 .. Len(Tail(queue))
        BY <3>6
      <4>2. queue'[k] = js[k - Len(Tail(queue))]
        BY <3>4, <3>6
      <4> QED
        BY <3>3, <4>1, <4>2
    <3> QED
      BY <3>5, <3>6
  <2> QED
    BY <2>2, <2>3
<1>6. \A k \in 1 .. Len(queue') : Good(queue'[k])
  BY <1>4, <1>5
<1> QED
  BY <1>6 DEF QueueHolds, Canceled, Started

(* A step that queues and issues no stop.                                  *)
LEMMA StopsKept ==
  ASSUME TypeOK, RunnerInv, Ages, stopping' \subseteq stopping,
         queue' = queue \/ (queue # <<>> /\ queue' = Tail(queue)) \/ queue' = <<>>
  PROVE  StopsAreAsked'
<1>1. QueueHolds(queue)'
  BY QueueKept
<1>2. \A x \in stopping' : Canceled(x)'
  BY DEF RunnerInv, StopsAreAsked, Ages, TypeOK, ProcessOK
<1> QED
  BY <1>1, <1>2 DEF StopsAreAsked

(* A step that issues no stop.                                             *)
LEMMA StopsIssued ==
  ASSUME TypeOK, RunnerInv, Ages, QueueHolds(queue)', stopping' \subseteq stopping
  PROVE  StopsAreAsked'
  BY DEF RunnerInv, StopsAreAsked, Ages, TypeOK, ProcessOK

(* A step beside the job, or one of it that puts nothing new in its hand.  *)
LEMMA JobKept ==
  ASSUME TypeOK, RunnerInv, Ages,
         \/ /\ UNCHANGED <<pc, work>> /\ lateRuns' \subseteq lateRuns
            /\ \A x \in Tasks : container[x] = "none" => container'[x] = "none"
         \/ /\ pc' \notin {"kill", "remove", "fetch", "read", "settle", "prepare", "run", "force", "wipe"}
            /\ work'.todo \subseteq work.todo
            /\ \A x \in Tasks : work'.listing[x] = "none"
                 \/ (pc # "rows" /\ work'.listing[x] = work.listing[x] /\ work'.seen[x] = work.seen[x])
  PROVE  JobMayEnd'
<1>1. work.todo \subseteq Tasks
  BY DEF TypeOK, JobOK
<1>2. CASE /\ UNCHANGED <<pc, work>> /\ lateRuns' \subseteq lateRuns
           /\ \A x \in Tasks : container[x] = "none" => container'[x] = "none"
  BY <1>1, <1>2 DEF RunnerInv, JobMayEnd, Ages, TypeOK, TaskInHand, Started, Canceled
<1>3. CASE ~(/\ UNCHANGED <<pc, work>> /\ lateRuns' \subseteq lateRuns
             /\ \A x \in Tasks : container[x] = "none" => container'[x] = "none")
  BY <1>1, <1>3 DEF RunnerInv, JobMayEnd, Ages, Started, Canceled
<1> QED
  BY <1>2, <1>3

(* A job that ends has nothing in hand.                                    *)
LEMMA JobEnded ==
  ASSUME pc' = "idle", work' = Work0
  PROVE  JobMayEnd'
  BY DEF Work0, JobMayEnd

-----------------------------------------------------------------------------
(* The actions.                                                            *)

(* Only the row of an ACTIVE task gets a container, a start or a wait.      *)
LEMMA ContainersStep ==
  ASSUME TypeOK, IInv, RunnerInv, Ages, [Next]_vars
  PROVE  ContainersStarted'
<1>1. CASE StartJob
  BY <1>1, ContainersKept DEF StartJob, engine, Goto
<1>2. CASE StopQueued
  BY <1>2, ContainersKept DEF StopQueued, IssueStop
<1>3. CASE BootGoesOn
  BY <1>3, ContainersKept DEF BootGoesOn, engine, memory
<1>4. CASE JobFails
  BY <1>4, ContainersKept DEF JobFails, engine, EndJob
<1>5. CASE CountRunning
  BY <1>5, ContainersKept DEF CountRunning, engine, Goto
<1>6. CASE CountByUser
  BY <1>6, ContainersKept DEF CountByUser, engine, Goto
<1>7. CASE Pick
  BY <1>7, ContainersKept DEF Pick, engine, Goto
<1>8. CASE DispatchDone
  BY <1>8, ContainersKept DEF DispatchDone, engine, Goto, EndJob, TypeOK, ProcessOK
<1>9. CASE Activate
  BY <1>9, ContainersKept DEF Activate, engine, Goto
<1>10. CASE Prepare
  BY <1>10, ContainersKept DEF Prepare, Goto
<1>11. CASE Run
  <2>1. Started(work.task) /\ work.task \in Tasks
    BY <1>11 DEF Run, IInv, CountKept, Started, RunningStates, TypeOK, TaskInHand
  <2> QED
    BY <1>11, <2>1 DEF Run, Watched, rows, RunnerInv, ContainersStarted, Started, TypeOK, EngineOK, ProcessOK
<1>12. CASE RunFails
  <2>1. Started(work.task) /\ work.task \in Tasks
    BY <1>12 DEF RunFails, IInv, CountKept, Started, RunningStates, TypeOK, TaskInHand
  <2> QED
    BY <1>12, <2>1 DEF RunFails, Goto, rows, RunnerInv, ContainersStarted, Started, TypeOK, EngineOK
<1>13. CASE MarkFailed
  BY <1>13, ContainersKept DEF MarkFailed, engine, Goto
<1>14. CASE Fetch
  BY <1>14, ContainersKept DEF Fetch, engine, Goto
<1>15. CASE ReadResult
  BY <1>15, ContainersKept DEF ReadResult, engine, Goto
<1>16. CASE Settle
  BY <1>16, ContainersKept DEF Settle, engine, Goto
<1>17. CASE RemoveContainer
  BY <1>17, ContainersKept DEF RemoveContainer, Goto, TypeOK, EngineOK
<1>18. CASE WipeWorkspace
  <2>1. \A x \in Tasks : watched[x] = "no" => watched'[x] = "no"
    BY <1>18 DEF WipeWorkspace, Return, EndJob, Goto, TypeOK, ProcessOK
  <2> QED
    BY <1>18, <2>1, ContainersKept DEF WipeWorkspace
<1>19. CASE ListContainers
  BY <1>19, ContainersKept DEF ListContainers, engine, Goto
<1>20. CASE ReadRunning
  BY <1>20, ContainersKept DEF ReadRunning, engine, Goto
<1>21. CASE ReconcileDone
  BY <1>21, ContainersKept DEF ReconcileDone, engine, EndJob
<1>22. ASSUME NEW t \in Tasks, ReconcileLost(t)
      PROVE  ContainersStarted'
  BY <1>22, ContainersKept DEF ReconcileLost, engine, Goto
<1>23. ASSUME NEW t \in Tasks, ReconcileRunning(t)
      PROVE  ContainersStarted'
  <2>1. Started(t)
    BY <1>23 DEF ReconcileRunning, RunnerInv, JobMayEnd
  <2>2. \A x \in Tasks : container'[x] # "none" => container[x] # "none"
    BY <1>23 DEF ReconcileRunning, IssueStop, TypeOK, EngineOK
  <2>3. \A x \in Tasks : watched'[x] # "no" => watched[x] # "no" \/ x = t
    BY <1>23 DEF ReconcileRunning, Watched, TypeOK, ProcessOK
  <2> QED
    BY <1>23, <2>1, <2>2, <2>3 DEF ReconcileRunning, rows, RunnerInv, ContainersStarted, Started
<1>24. ASSUME NEW t \in Tasks, ReconcileEnded(t)
      PROVE  ContainersStarted'
  BY <1>24, ContainersKept DEF ReconcileEnded, engine, Goto
<1>25. ASSUME NEW t \in Tasks, RemoveOrphan(t)
      PROVE  ContainersStarted'
  <2>1. \A x \in Tasks : watched[x] = "no" => watched'[x] = "no"
    BY <1>25 DEF RemoveOrphan, EndJob, Goto, TypeOK, ProcessOK
  <2>2. \A x \in Tasks : container[x] = "none" => container'[x] = "none"
    BY <1>25 DEF RemoveOrphan, TypeOK, EngineOK
  <2> QED
    BY <1>25, <2>1, <2>2, ContainersKept DEF RemoveOrphan
<1>26. CASE ReadStalled
  BY <1>26, ContainersKept DEF ReadStalled, engine, Goto
<1>27. CASE ReadCanceling
  BY <1>27, ContainersKept DEF ReadCanceling, engine, Goto
<1>28. CASE TimeoutsDone
  BY <1>28, ContainersKept DEF TimeoutsDone, engine, EndJob
<1>29. CASE Kill
  BY <1>29, ContainersKept DEF Kill, Goto, Up, TypeOK, EngineOK
<1>30. ASSUME NEW t \in Tasks, FailStalled(t)
      PROVE  ContainersStarted'
  BY <1>30, ContainersKept DEF FailStalled, engine, Goto
<1>31. ASSUME NEW t \in Tasks, ForceCancel(t)
      PROVE  ContainersStarted'
  BY <1>31, ContainersKept DEF ForceCancel, engine, Goto
<1>32. ASSUME NEW t \in Tasks, Submit(t)
      PROVE  ContainersStarted'
  BY <1>32, ContainersKept DEF Submit, engine, memory, Enqueue
<1>33. ASSUME NEW t \in Tasks, ReadForCancel(t)
      PROVE  ContainersStarted'
  BY <1>33, ContainersKept DEF ReadForCancel, engine, job, memory
<1>34. ASSUME NEW t \in Tasks, CancelPending(t)
      PROVE  ContainersStarted'
  BY <1>34, ContainersKept DEF CancelPending, engine, job, memory
<1>35. ASSUME NEW t \in Tasks, CancelRunning(t)
      PROVE  ContainersStarted'
  BY <1>35, ContainersKept DEF CancelRunning, engine, memory, Enqueue
<1>36. ASSUME NEW t \in Tasks, Remove(t)
      PROVE  ContainersStarted'
  BY <1>36, ContainersKept DEF Remove, engine, job, memory
<1>37. ASSUME NEW t \in Tasks, ReadForResubmit(t)
      PROVE  ContainersStarted'
  BY <1>37, ContainersKept DEF ReadForResubmit, engine, job, memory
<1>38. ASSUME NEW t \in Tasks, RemoveForResubmit(t)
      PROVE  ContainersStarted'
  BY <1>38, ContainersKept DEF RemoveForResubmit, engine, job, memory
<1>39. ASSUME NEW t \in Tasks, NEW u \in Tasks, SubmitAgain(t, u)
      PROVE  ContainersStarted'
  BY <1>39, ContainersKept DEF SubmitAgain, engine, memory, Enqueue
<1>40. ASSUME NEW t \in Tasks, ReportProgress(t)
      PROVE  ContainersStarted'
  BY <1>40, ContainersKept DEF ReportProgress, engine, job, memory
<1>41. ASSUME NEW t \in Tasks, Exit(t)
      PROVE  ContainersStarted'
  BY <1>41, ContainersKept DEF Exit, memory, Up, TypeOK, EngineOK
<1>42. ASSUME NEW t \in Tasks, RunLate(t)
      PROVE  ContainersStarted'
  BY <1>42 DEF RunLate, rows, memory, RunnerInv, ContainersStarted, Started, TypeOK, EngineOK
<1>43. ASSUME NEW t \in Tasks, BecomeOverdue(t)
      PROVE  ContainersStarted'
  BY <1>43, ContainersKept DEF BecomeOverdue, engine, job, memory
<1>44. ASSUME NEW t \in Tasks, WaitEnds(t)
      PROVE  ContainersStarted'
  BY <1>44, ContainersKept DEF WaitEnds, engine, Enqueue
<1>45. ASSUME NEW t \in Tasks, WaitThrows(t)
      PROVE  ContainersStarted'
  BY <1>45, ContainersKept DEF WaitThrows, engine, job
<1>46. ASSUME NEW t \in Tasks, StopSettles(t)
      PROVE  ContainersStarted'
  BY <1>46, ContainersKept DEF StopSettles, Up, TypeOK, EngineOK
<1>47. CASE Boot
  BY <1>47, ContainersKept DEF Boot, engine, memory, Enqueue
<1>48. CASE Tick
  BY <1>48, ContainersKept DEF Tick, engine, memory, Enqueue
<1>49. CASE Crash
  BY <1>49, ContainersKept DEF Crash, engine
<1>50. CASE UNCHANGED vars
  BY <1>50, ContainersKept DEF vars, engine, memory
<1> QED
  BY <1>1, <1>2, <1>3, <1>4, <1>5, <1>6, <1>7, <1>8, <1>9, <1>10, <1>11, <1>12, <1>13,
     <1>14, <1>15, <1>16, <1>17, <1>18, <1>19, <1>20, <1>21, <1>22, <1>23, <1>24, <1>25,
     <1>26, <1>27, <1>28, <1>29, <1>30, <1>31, <1>32, <1>33, <1>34, <1>35, <1>36, <1>37,
     <1>38, <1>39, <1>40, <1>41, <1>42, <1>43, <1>44, <1>45, <1>46, <1>47, <1>48, <1>49,
     <1>50 DEF Next, Supervise, UserCalls, Environment, CancelSteps, DispatchSteps,
     CollectSteps, ReconcileSteps, TimeoutSteps

(* Stops and collects are queued, and stops issued, for rows moved on.      *)
LEMMA StopsStep ==
  ASSUME TypeOK, IInv, RunnerInv, Ages, [Next]_vars
  PROVE  StopsAreAsked'
<1>1. CASE StartJob
  BY <1>1, StopsKept DEF StartJob, Goto
<1>2. CASE StopQueued
  <2>1. Head(queue).task \in Tasks /\ Canceled(Head(queue).task)
    <3>1. 1 \in 1 .. Len(queue) /\ Head(queue) = queue[1] /\ queue[1] \in Jobs
      BY <1>2 DEF StopQueued, TypeOK, JobOK
    <3> QED
      BY <1>2, <3>1 DEF StopQueued, RunnerInv, StopsAreAsked, QueueHolds, Jobs
  <2>2. QueueHolds(queue)'
    BY <1>2, QueueKept DEF StopQueued
  <2> QED
    BY <1>2, <2>1, <2>2 DEF StopQueued, IssueStop, rows, RunnerInv, StopsAreAsked, Canceled
<1>3. CASE BootGoesOn
  <2>1. CASE queue' = Tail(queue)
    BY <1>3, <2>1, StopsKept DEF BootGoesOn, memory
  <2>2. CASE queue' = Tail(queue) \o <<Job("dispatch"), Job("started")>>
    <3> DEFINE js == <<Job("dispatch"), Job("started")>>
    <3>1. js \in Seq(Jobs) /\ \A k \in 1 .. Len(js) : js[k].kind \notin {"stop", "collect"}
      BY DEF Jobs, Job
    <3>2. queue # <<>> /\ queue' = Tail(queue) \o js
      BY <1>3, <2>2 DEF BootGoesOn
    <3> HIDE DEF js
    <3>3. QueueHolds(queue)'
      BY <3>1, <3>2, QueueGrows
    <3> QED
      BY <1>3, <3>3, StopsIssued DEF BootGoesOn, memory
  <2> QED
    BY <1>3, <2>1, <2>2 DEF BootGoesOn
<1>4. CASE JobFails
  BY <1>4, StopsKept DEF JobFails, EndJob
<1>5. CASE CountRunning
  BY <1>5, StopsKept DEF CountRunning, Goto
<1>6. CASE CountByUser
  BY <1>6, StopsKept DEF CountByUser, Goto
<1>7. CASE Pick
  BY <1>7, StopsKept DEF Pick, Goto
<1>8. CASE DispatchDone
  BY <1>8, StopsKept DEF DispatchDone, Goto, EndJob, TypeOK, JobOK
<1>9. CASE Activate
  BY <1>9, StopsKept DEF Activate, Goto
<1>10. CASE Prepare
  BY <1>10, StopsKept DEF Prepare, Goto
<1>11. CASE Run
  BY <1>11, StopsKept DEF Run, Watched
<1>12. CASE RunFails
  BY <1>12, StopsKept DEF RunFails, Goto
<1>13. CASE MarkFailed
  BY <1>13, StopsKept DEF MarkFailed, Goto
<1>14. CASE Fetch
  BY <1>14, StopsKept DEF Fetch, Goto
<1>15. CASE ReadResult
  BY <1>15, StopsKept DEF ReadResult, Goto
<1>16. CASE Settle
  BY <1>16, StopsKept DEF Settle, Goto
<1>17. CASE RemoveContainer
  BY <1>17, StopsKept DEF RemoveContainer, Goto
<1>18. CASE WipeWorkspace
  <2>1. queue' = queue \/ (queue # <<>> /\ queue' = Tail(queue))
    BY <1>18 DEF WipeWorkspace, Return, Goto, EndJob, TypeOK, JobOK
  <2> QED
    BY <1>18, <2>1, StopsKept DEF WipeWorkspace
<1>19. CASE ListContainers
  BY <1>19, StopsKept DEF ListContainers, Goto
<1>20. CASE ReadRunning
  BY <1>20, StopsKept DEF ReadRunning, Goto
<1>21. CASE ReconcileDone
  BY <1>21, StopsKept DEF ReconcileDone, EndJob
<1>22. ASSUME NEW t \in Tasks, ReconcileLost(t)
      PROVE  StopsAreAsked'
  BY <1>22, StopsKept DEF ReconcileLost, Goto
<1>23. ASSUME NEW t \in Tasks, ReconcileRunning(t)
      PROVE  StopsAreAsked'
  <2>1. stopping' # stopping => Canceled(t)
    BY <1>23 DEF ReconcileRunning, IInv, ReadsHold
  <2>2. QueueHolds(queue)'
    BY <1>23, QueueKept DEF ReconcileRunning
  <2> QED
    BY <1>23, <2>1, <2>2 DEF ReconcileRunning, IssueStop, rows, RunnerInv, StopsAreAsked, Canceled
<1>24. ASSUME NEW t \in Tasks, ReconcileEnded(t)
      PROVE  StopsAreAsked'
  BY <1>24, StopsKept DEF ReconcileEnded, Goto
<1>25. ASSUME NEW t \in Tasks, RemoveOrphan(t)
      PROVE  StopsAreAsked'
  <2>1. queue' = queue \/ (queue # <<>> /\ queue' = Tail(queue))
    BY <1>25 DEF RemoveOrphan, Goto, EndJob, TypeOK, JobOK
  <2> QED
    BY <1>25, <2>1, StopsKept DEF RemoveOrphan
<1>26. CASE ReadStalled
  BY <1>26, StopsKept DEF ReadStalled, Goto
<1>27. CASE ReadCanceling
  BY <1>27, StopsKept DEF ReadCanceling, Goto
<1>28. CASE TimeoutsDone
  BY <1>28, StopsKept DEF TimeoutsDone, EndJob
<1>29. CASE Kill
  BY <1>29, StopsKept DEF Kill, Goto
<1>30. ASSUME NEW t \in Tasks, FailStalled(t)
      PROVE  StopsAreAsked'
  BY <1>30, StopsKept DEF FailStalled, Goto
<1>31. ASSUME NEW t \in Tasks, ForceCancel(t)
      PROVE  StopsAreAsked'
  BY <1>31, StopsKept DEF ForceCancel, Goto
<1>32. ASSUME NEW t \in Tasks, Submit(t)
      PROVE  StopsAreAsked'
  <2>1. QueueHolds(queue)'
    <3> DEFINE js == <<Job("dispatch")>>
    <3>1. js \in Seq(Jobs) /\ \A k \in 1 .. Len(js) : js[k].kind \notin {"stop", "collect"}
      BY DEF Jobs, Job
    <3>2. queue' = queue \o js
      BY <1>32 DEF Submit, Enqueue
    <3> HIDE DEF js
    <3> QED
      BY <3>1, <3>2, QueueGrows
  <2> QED
    BY <1>32, <2>1, StopsIssued DEF Submit, memory
<1>33. ASSUME NEW t \in Tasks, ReadForCancel(t)
      PROVE  StopsAreAsked'
  BY <1>33, StopsKept DEF ReadForCancel, job, memory
<1>34. ASSUME NEW t \in Tasks, CancelPending(t)
      PROVE  StopsAreAsked'
  BY <1>34, StopsKept DEF CancelPending, job, memory
<1>35. ASSUME NEW t \in Tasks, CancelRunning(t)
      PROVE  StopsAreAsked'
  <2>1. CASE state[t] # "ACTIVE"
    BY <1>35, <2>1, StopsKept DEF CancelRunning, memory
  <2>2. CASE state[t] = "ACTIVE"
    <3> DEFINE js == <<JobOf("stop", t)>>
    <3>1. js \in Seq(Jobs) /\ Len(js) = 1 /\ js[1] = JobOf("stop", t)
      BY DEF Jobs, JobOf
    <3>2. queue' = queue \o js /\ state'[t] = "CANCELING"
      BY <1>35, <2>2 DEF CancelRunning, Enqueue, Transition, TypeOK, RowsOK
    <3> HIDE DEF js
    <3>4. \A k \in 1 .. Len(js) : js[k].kind = "stop" /\ js[k].task = t
      BY <3>1 DEF JobOf
    <3>5. \A k \in 1 .. Len(js) :
           /\ js[k].kind = "stop" => state'[js[k].task] \in {"CANCELING"} \union FinishedStates
           /\ js[k].kind = "collect" => state'[js[k].task] \notin {"none", "PENDING"}
      BY <3>2, <3>4
    <3>3. QueueHolds(queue)'
      BY <3>1, <3>2, <3>5, QueueGrows
    <3> QED
      BY <1>35, <3>3, StopsIssued DEF CancelRunning, memory
  <2> QED
    BY <2>1, <2>2
<1>36. ASSUME NEW t \in Tasks, Remove(t)
      PROVE  StopsAreAsked'
  BY <1>36, StopsKept DEF Remove, job, memory
<1>37. ASSUME NEW t \in Tasks, ReadForResubmit(t)
      PROVE  StopsAreAsked'
  BY <1>37, StopsKept DEF ReadForResubmit, job, memory
<1>38. ASSUME NEW t \in Tasks, RemoveForResubmit(t)
      PROVE  StopsAreAsked'
  BY <1>38, StopsKept DEF RemoveForResubmit, job, memory
<1>39. ASSUME NEW t \in Tasks, NEW u \in Tasks, SubmitAgain(t, u)
      PROVE  StopsAreAsked'
  <2>1. QueueHolds(queue)'
    <3> DEFINE js == <<Job("dispatch")>>
    <3>1. js \in Seq(Jobs) /\ \A k \in 1 .. Len(js) : js[k].kind \notin {"stop", "collect"}
      BY DEF Jobs, Job
    <3>2. queue' = queue \o js
      BY <1>39 DEF SubmitAgain, Enqueue
    <3> HIDE DEF js
    <3> QED
      BY <3>1, <3>2, QueueGrows
  <2> QED
    BY <1>39, <2>1, StopsIssued DEF SubmitAgain, memory
<1>40. ASSUME NEW t \in Tasks, ReportProgress(t)
      PROVE  StopsAreAsked'
  BY <1>40, StopsKept DEF ReportProgress, job, memory
<1>41. ASSUME NEW t \in Tasks, Exit(t)
      PROVE  StopsAreAsked'
  BY <1>41, StopsKept DEF Exit, job, memory
<1>42. ASSUME NEW t \in Tasks, RunLate(t)
      PROVE  StopsAreAsked'
  BY <1>42, StopsKept DEF RunLate, job, memory
<1>43. ASSUME NEW t \in Tasks, BecomeOverdue(t)
      PROVE  StopsAreAsked'
  BY <1>43, StopsKept DEF BecomeOverdue, job, memory
<1>44. ASSUME NEW t \in Tasks, WaitEnds(t)
      PROVE  StopsAreAsked'
  <2> DEFINE js == <<JobOf("collect", t)>>
  <2>1. js \in Seq(Jobs) /\ Len(js) = 1 /\ js[1] = JobOf("collect", t)
    BY DEF Jobs, JobOf
  <2>2. queue' = queue \o js
    BY <1>44 DEF WaitEnds, Enqueue
  <2>3. state'[t] \notin {"none", "PENDING"}
    BY <1>44 DEF WaitEnds, rows, RunnerInv, ContainersStarted, Started
  <2> HIDE DEF js
  <2>5. \A k \in 1 .. Len(js) : js[k].kind = "collect" /\ js[k].task = t
    BY <2>1 DEF JobOf
  <2>6. \A k \in 1 .. Len(js) :
         /\ js[k].kind = "stop" => state'[js[k].task] \in {"CANCELING"} \union FinishedStates
         /\ js[k].kind = "collect" => state'[js[k].task] \notin {"none", "PENDING"}
    BY <2>3, <2>5
  <2>4. QueueHolds(queue)'
    BY <2>1, <2>2, <2>6, QueueGrows
  <2> QED
    BY <1>44, <2>4, StopsIssued DEF WaitEnds
<1>45. ASSUME NEW t \in Tasks, WaitThrows(t)
      PROVE  StopsAreAsked'
  BY <1>45, StopsKept DEF WaitThrows, job
<1>46. ASSUME NEW t \in Tasks, StopSettles(t)
      PROVE  StopsAreAsked'
  BY <1>46, StopsKept DEF StopSettles, job
<1>47. CASE Boot
  <2>1. QueueHolds(queue)'
    <3> DEFINE js == <<Job("reconcile"), Job("boot")>>
    <3>1. js \in Seq(Jobs) /\ \A k \in 1 .. Len(js) : js[k].kind \notin {"stop", "collect"}
      BY DEF Jobs, Job
    <3>2. queue' = queue \o js
      BY <1>47 DEF Boot, Enqueue
    <3> HIDE DEF js
    <3> QED
      BY <3>1, <3>2, QueueGrows
  <2> QED
    BY <1>47, <2>1, StopsIssued DEF Boot, memory
<1>48. CASE Tick
  <2>1. QueueHolds(queue)'
    <3> DEFINE js == <<Job("reconcile"), Job("timeouts"), Job("dispatch")>>
    <3>1. js \in Seq(Jobs) /\ \A k \in 1 .. Len(js) : js[k].kind \notin {"stop", "collect"}
      BY DEF Jobs, Job
    <3>2. queue' = queue \o js
      BY <1>48 DEF Tick, Enqueue
    <3> HIDE DEF js
    <3> QED
      BY <3>1, <3>2, QueueGrows
  <2> QED
    BY <1>48, <2>1, StopsIssued DEF Tick, memory
<1>49. CASE Crash
  BY <1>49, StopsKept DEF Crash
<1>50. CASE UNCHANGED vars
  BY <1>50, StopsKept DEF vars, job, memory
<1> QED
  BY <1>1, <1>2, <1>3, <1>4, <1>5, <1>6, <1>7, <1>8, <1>9, <1>10, <1>11, <1>12, <1>13,
     <1>14, <1>15, <1>16, <1>17, <1>18, <1>19, <1>20, <1>21, <1>22, <1>23, <1>24, <1>25,
     <1>26, <1>27, <1>28, <1>29, <1>30, <1>31, <1>32, <1>33, <1>34, <1>35, <1>36, <1>37,
     <1>38, <1>39, <1>40, <1>41, <1>42, <1>43, <1>44, <1>45, <1>46, <1>47, <1>48, <1>49,
     <1>50 DEF Next, Supervise, UserCalls, Environment, CancelSteps, DispatchSteps,
     CollectSteps, ReconcileSteps, TimeoutSteps

(* What the job at the head of the queue may do to the task in its hand.    *)
LEMMA JobStep ==
  ASSUME TypeOK, IInv, RunnerInv, Ages, [Next]_vars
  PROVE  JobMayEnd'
<1>1. CASE StartJob
  <2>1. work'.todo = work.todo /\ work'.listing = work.listing /\ work'.seen = work.seen /\ work'.task = Head(queue).task
    BY <1>1 DEF StartJob, TypeOK, JobOK, TaskInHand
  <2>2. pc' \in {"count", "list", "stalled", "fetch"} /\ (pc' = "fetch" => Head(queue).kind = "collect")
    BY <1>1 DEF StartJob, Goto, First
  <2>3. Head(queue).kind = "collect" => Started(Head(queue).task)
    <3>1. 1 \in 1 .. Len(queue) /\ Head(queue) = queue[1]
      BY <1>1 DEF StartJob, TypeOK, JobOK
    <3> QED
      BY <3>1 DEF RunnerInv, StopsAreAsked, QueueHolds
  <2> QED
    BY <1>1, <2>1, <2>2, <2>3 DEF StartJob, rows, RunnerInv, JobMayEnd, Started, Canceled
<1>2. CASE StopQueued
  BY <1>2, JobKept DEF StopQueued, IssueStop
<1>3. CASE BootGoesOn
  BY <1>3, JobKept DEF BootGoesOn, engine
<1>4. CASE JobFails
  BY <1>4, JobEnded DEF JobFails, EndJob
<1>5. CASE CountRunning
  BY <1>5, JobKept DEF CountRunning, engine, Goto
<1>6. CASE CountByUser
  BY <1>6, JobKept DEF CountByUser, engine, Goto
<1>7. CASE Pick
  BY <1>7, JobKept DEF Pick, engine, Goto
<1>8. CASE DispatchDone
  <2>1. CASE Head(queue).kind = "reconcile"
    BY <1>8, <2>1, JobKept DEF DispatchDone, engine, Goto
  <2>2. CASE Head(queue).kind # "reconcile"
    BY <1>8, <2>2, JobEnded DEF DispatchDone, EndJob
  <2> QED
    BY <2>1, <2>2
<1>9. CASE Activate
  <2>1. (container[work.task] = "none" /\ work.task \notin lateRuns) \/ pc' = "pick"
    BY <1>9 DEF Activate, Goto, TypeOK, TaskInHand, RunnerInv, ContainersStarted, Started
  <2>2. pc' \in {"prepare", "pick"} /\ UNCHANGED work
    BY <1>9 DEF Activate, Goto
  <2>3. \A x \in work.todo : x \in Tasks
    BY DEF TypeOK, JobOK
  <2> QED
    BY <1>9, <2>1, <2>2, <2>3 DEF Activate, engine, Ages, RunnerInv, JobMayEnd, Started, Canceled
<1>10. CASE Prepare
  <2>1. pc' \in {"run", "launchFailed"}
    BY <1>10 DEF Prepare, Goto
  <2> QED
    BY <1>10, <2>1 DEF Prepare, rows, RunnerInv, JobMayEnd, Started, Canceled
<1>11. CASE Run
  BY <1>11, JobKept DEF Run, Watched
<1>12. CASE RunFails
  BY <1>12, JobKept DEF RunFails, Goto
<1>13. CASE MarkFailed
  <2>1. work'.todo = work.todo /\ work'.listing = work.listing /\ work'.seen = work.seen /\ work'.task = work.task /\ work'.back = "pick" /\ work.task \in Tasks
    BY <1>13 DEF MarkFailed, TypeOK, JobOK, TaskInHand
  <2>2. pc' = "remove"
    BY <1>13 DEF MarkFailed, Goto
  <2>3. work.todo \subseteq Tasks
    BY DEF TypeOK, JobOK
  <2>4. state'[work.task] \in {"CANCELING"} \union FinishedStates
    BY <1>13, <2>1 DEF MarkFailed, IInv, CountKept, Transition, TypeOK, RowsOK, Canceled, FinishedStates
  <2> QED
    BY <1>13, <2>1, <2>2, <2>3, <2>4 DEF MarkFailed, Ages, RunnerInv, JobMayEnd, Started, Canceled
<1>14. CASE Fetch
  <2>1. work.task \in Tasks /\ Started(work.task) /\ work.todo \subseteq Tasks
    BY <1>14 DEF Fetch, RunnerInv, JobMayEnd, TypeOK, JobOK, TaskInHand
  <2>2. CASE state[work.task] \in RunningStates
    <3>1. /\ pc' = "read" /\ work'.todo = work.todo /\ work'.listing = work.listing /\ work'.task = work.task
          /\ \A x \in Tasks : work'.seen[x] = IF x = work.task THEN state[x] ELSE work.seen[x]
      BY <1>14, <2>2 DEF Fetch, Goto, TypeOK, JobOK, TaskInHand
    <3>2. state[work.task] # "none"
      BY <2>2 DEF RunningStates
    <3> QED
      BY <1>14, <2>1, <3>1, <3>2 DEF Fetch, rows, RunnerInv, JobMayEnd, Started, Canceled
  <2>3. CASE state[work.task] \notin RunningStates
    <3>1. pc' = "remove" /\ work'.todo = work.todo /\ work'.listing = work.listing /\ work'.seen = work.seen /\ work'.task = work.task /\ work'.back = "count"
      BY <1>14, <2>3 DEF Fetch, Goto, TypeOK, JobOK, TaskInHand
    <3>2. Canceled(work.task)
      BY <2>1, <2>3, StartedOrCanceled DEF RunningStates
    <3> QED
      BY <1>14, <2>1, <3>1, <3>2 DEF Fetch, rows, RunnerInv, JobMayEnd, Started, Canceled
  <2> QED
    BY <2>2, <2>3
<1>15. CASE ReadResult
  <2>1. work'.todo = work.todo /\ work'.listing = work.listing /\ work'.seen = work.seen /\ work'.task = work.task
    BY <1>15 DEF ReadResult, TypeOK, JobOK, TaskInHand
  <2>2. pc' = "settle" /\ UNCHANGED rows
    BY <1>15 DEF ReadResult, Goto
  <2>3. work.todo \subseteq Tasks
    BY DEF TypeOK, JobOK
  <2> QED
    BY <1>15, <2>1, <2>2, <2>3 DEF ReadResult, rows, Ages, RunnerInv, JobMayEnd, Started, Canceled
<1>16. CASE Settle
  <2>1. work'.todo = work.todo /\ work'.listing = work.listing /\ work'.seen = work.seen /\ work'.task = work.task /\ work'.back = "count" /\ work.task \in Tasks
    BY <1>16 DEF Settle, TypeOK, JobOK, TaskInHand
  <2>2. pc' = "remove"
    BY <1>16 DEF Settle, Goto
  <2>3. work.todo \subseteq Tasks
    BY DEF TypeOK, JobOK
  <2>4. state'[work.task] \in {"CANCELING"} \union FinishedStates
    BY <1>16, <2>1, StartedOrCanceled DEF Settle, Transition, IInv, ReadsHold, RunnerInv, JobMayEnd, TypeOK, RowsOK, Canceled, RunningStates
  <2> QED
    BY <1>16, <2>1, <2>2, <2>3, <2>4 DEF Settle, Ages, RunnerInv, JobMayEnd, Started, Canceled
<1>17. CASE RemoveContainer
  <2>1. work'.todo = work.todo /\ work'.listing = work.listing /\ work'.seen = work.seen /\ work'.back \in {work.back, "idle"}
    BY <1>17 DEF RemoveContainer, TypeOK, JobOK, TaskInHand
  <2>2. pc' = "wipe" /\ UNCHANGED rows
    BY <1>17 DEF RemoveContainer, Goto
  <2>3. work.todo \subseteq Tasks
    BY DEF TypeOK, JobOK
  <2> QED
    BY <1>17, <2>1, <2>2, <2>3 DEF RemoveContainer, rows, Ages, RunnerInv, JobMayEnd, Started, Canceled
<1>18. CASE WipeWorkspace
  <2>1. CASE work.back = "idle"
    BY <1>18, <2>1, JobEnded DEF WipeWorkspace, Return, EndJob
  <2>2. CASE work.back # "idle"
    <3>1. pc' = work.back /\ work'.todo = work.todo /\ work'.listing = work.listing /\ work'.seen = work.seen /\ UNCHANGED rows
      BY <1>18, <2>2 DEF WipeWorkspace, Return, Goto, TypeOK, JobOK, TaskInHand
    <3>2. work.back \in {"pick", "count", "reconcile", "fail", "force"}
      BY <2>2 DEF TypeOK, JobOK
    <3> QED
      BY <1>18, <3>1, <3>2 DEF WipeWorkspace, rows, RunnerInv, JobMayEnd, Started, Canceled
  <2> QED
    BY <2>1, <2>2
<1>19. CASE ListContainers
  <2>1. /\ work'.todo = work.todo /\ UNCHANGED rows /\ pc' = "rows"
        /\ \A x \in Tasks : work'.listing[x] # "none" => container[x] # "none"
    BY <1>19 DEF ListContainers, Goto, Up, TypeOK, JobOK, TaskInHand
  <2> QED
    BY <1>19, <2>1 DEF rows, RunnerInv, ContainersStarted, JobMayEnd, Started
<1>20. CASE ReadRunning
  <2>1. /\ work'.todo = Running /\ UNCHANGED rows /\ pc' = "reconcile" /\ work'.listing = work.listing
        /\ \A x \in Tasks : work'.seen[x] = IF x \in Running THEN state[x] ELSE "none"
    BY <1>20 DEF ReadRunning, Goto, rows, TypeOK, JobOK, TaskInHand
  <2>2. \A x \in Running : Started(x) /\ state[x] # "none"
    BY DEF Running, Started, RunningStates
  <2>3. \A x \in Tasks \ Running : Started(x) => Canceled(x)
    BY StartedOrCanceled DEF Running, RunningStates
  <2> QED
    BY <1>20, <2>1, <2>2, <2>3 DEF rows, RunnerInv, JobMayEnd, Started, Canceled
<1>21. CASE ReconcileDone
  BY <1>21, JobEnded DEF ReconcileDone, EndJob
<1>22. ASSUME NEW t \in Tasks, ReconcileLost(t)
      PROVE  JobMayEnd'
  <2>1. work'.todo \subseteq work.todo /\ work'.listing = work.listing /\ work'.seen = work.seen /\ work'.back = "reconcile"
    BY <1>22 DEF ReconcileLost, TypeOK, JobOK, TaskInHand
  <2>2. pc' = "wipe"
    BY <1>22 DEF ReconcileLost, Goto
  <2>3. work.todo \subseteq Tasks
    BY DEF TypeOK, JobOK
  <2> QED
    BY <1>22, <2>1, <2>2, <2>3 DEF ReconcileLost, Ages, RunnerInv, JobMayEnd, Started, Canceled
<1>23. ASSUME NEW t \in Tasks, ReconcileRunning(t)
      PROVE  JobMayEnd'
  BY <1>23, JobKept DEF ReconcileRunning, IssueStop, Watched
<1>24. ASSUME NEW t \in Tasks, ReconcileEnded(t)
      PROVE  JobMayEnd'
  <2>1. work'.todo \subseteq work.todo /\ work'.listing = work.listing /\ work'.seen = work.seen /\ work'.task = t
    BY <1>24 DEF ReconcileEnded, TypeOK, JobOK, TaskInHand
  <2>2. pc' = "fetch" /\ UNCHANGED rows
    BY <1>24 DEF ReconcileEnded, Goto
  <2>3. work.todo \subseteq Tasks
    BY DEF TypeOK, JobOK
  <2> QED
    BY <1>24, <2>1, <2>2, <2>3 DEF ReconcileEnded, rows, Ages, RunnerInv, JobMayEnd, Started, Canceled
<1>25. ASSUME NEW t \in Tasks, RemoveOrphan(t)
      PROVE  JobMayEnd'
  <2>1. CASE pc' = "idle" /\ work' = Work0
    BY <2>1, JobEnded
  <2>2. CASE /\ Goto("wipe")
             /\ work' = [work EXCEPT !.listing[t] = "none", !.task = t, !.back = "reconcile"]
    <3>1. /\ work'.todo = work.todo /\ work'.seen = work.seen /\ work'.back = "reconcile" /\ pc' = "wipe"
          /\ \A x \in Tasks : work'.listing[x] \in {"none", work.listing[x]}
      BY <2>2 DEF Goto, TypeOK, JobOK, TaskInHand
    <3> QED
      BY <1>25, <3>1 DEF RemoveOrphan, rows, RunnerInv, JobMayEnd, Started, Canceled
  <2> QED
    BY <1>25, <2>1, <2>2 DEF RemoveOrphan, EndJob
<1>26. CASE ReadStalled
  <2>1. /\ work'.todo = {x \in overdue : state[x] = "ACTIVE"} /\ UNCHANGED rows /\ pc' = "fail"
        /\ work'.listing = work.listing /\ work'.seen = work.seen
    BY <1>26 DEF ReadStalled, Goto, TypeOK, JobOK, TaskInHand
  <2> QED
    BY <1>26, <2>1 DEF ReadStalled, rows, RunnerInv, JobMayEnd, Started, Canceled
<1>27. CASE ReadCanceling
  <2>1. /\ work'.todo = {x \in overdue : state[x] = "CANCELING"} /\ UNCHANGED rows /\ pc' = "force"
        /\ work'.listing = work.listing /\ work'.seen = work.seen
    BY <1>27 DEF ReadCanceling, Goto, TypeOK, JobOK, TaskInHand
  <2> QED
    BY <1>27, <2>1 DEF ReadCanceling, rows, RunnerInv, JobMayEnd, Started, Canceled
<1>28. CASE TimeoutsDone
  BY <1>28, JobEnded DEF TimeoutsDone, EndJob
<1>29. CASE Kill
  <2>1. work'.todo = work.todo /\ work'.listing = work.listing /\ work'.seen = work.seen /\ work'.task = work.task /\ work'.back = work.back
    BY <1>29 DEF Kill, TypeOK, JobOK, TaskInHand
  <2>2. pc' = "remove" /\ UNCHANGED rows
    BY <1>29 DEF Kill, Goto
  <2>3. work.todo \subseteq Tasks
    BY DEF TypeOK, JobOK
  <2> QED
    BY <1>29, <2>1, <2>2, <2>3 DEF Kill, rows, Ages, RunnerInv, JobMayEnd, Started, Canceled
<1>30. ASSUME NEW t \in Tasks, FailStalled(t)
      PROVE  JobMayEnd'
  <2>1. work'.todo \subseteq work.todo /\ work'.listing = work.listing /\ work'.seen = work.seen /\ work'.task = t /\ work'.back = "fail" /\ t \in work.todo
    BY <1>30 DEF FailStalled, TypeOK, JobOK, TaskInHand
  <2>2. pc' = "kill"
    BY <1>30 DEF FailStalled, Goto
  <2>3. work.todo \subseteq Tasks
    BY DEF TypeOK, JobOK
  <2>4. state'[t] \in {"CANCELING"} \union FinishedStates
    BY <1>30, <2>1, StartedOrCanceled DEF FailStalled, Transition, RunnerInv, JobMayEnd, TypeOK, RowsOK, Canceled, FinishedStates
  <2> QED
    BY <1>30, <2>1, <2>2, <2>3, <2>4 DEF FailStalled, Ages, RunnerInv, JobMayEnd, Started, Canceled
<1>31. ASSUME NEW t \in Tasks, ForceCancel(t)
      PROVE  JobMayEnd'
  <2>1. work'.todo \subseteq work.todo /\ work'.listing = work.listing /\ work'.seen = work.seen /\ work'.task = t /\ work'.back = "force" /\ t \in work.todo
    BY <1>31 DEF ForceCancel, TypeOK, JobOK, TaskInHand
  <2>2. pc' = "kill"
    BY <1>31 DEF ForceCancel, Goto
  <2>3. work.todo \subseteq Tasks
    BY DEF TypeOK, JobOK
  <2> QED
    BY <1>31, <2>1, <2>2, <2>3 DEF ForceCancel, Ages, RunnerInv, JobMayEnd, Started, Canceled
<1>32. ASSUME NEW t \in Tasks, Submit(t)
      PROVE  JobMayEnd'
  BY <1>32, JobKept DEF Submit, engine, Enqueue
<1>33. ASSUME NEW t \in Tasks, ReadForCancel(t)
      PROVE  JobMayEnd'
  BY <1>33, JobKept DEF ReadForCancel, engine, job
<1>34. ASSUME NEW t \in Tasks, CancelPending(t)
      PROVE  JobMayEnd'
  BY <1>34, JobKept DEF CancelPending, engine, job
<1>35. ASSUME NEW t \in Tasks, CancelRunning(t)
      PROVE  JobMayEnd'
  BY <1>35, JobKept DEF CancelRunning, engine, Enqueue
<1>36. ASSUME NEW t \in Tasks, Remove(t)
      PROVE  JobMayEnd'
  BY <1>36, JobKept DEF Remove, engine, job
<1>37. ASSUME NEW t \in Tasks, ReadForResubmit(t)
      PROVE  JobMayEnd'
  BY <1>37, JobKept DEF ReadForResubmit, engine, job
<1>38. ASSUME NEW t \in Tasks, RemoveForResubmit(t)
      PROVE  JobMayEnd'
  BY <1>38, JobKept DEF RemoveForResubmit, engine, job
<1>39. ASSUME NEW t \in Tasks, NEW u \in Tasks, SubmitAgain(t, u)
      PROVE  JobMayEnd'
  BY <1>39, JobKept DEF SubmitAgain, engine, Enqueue
<1>40. ASSUME NEW t \in Tasks, ReportProgress(t)
      PROVE  JobMayEnd'
  BY <1>40, JobKept DEF ReportProgress, engine, job
<1>41. ASSUME NEW t \in Tasks, Exit(t)
      PROVE  JobMayEnd'
  BY <1>41, JobKept DEF Exit, job, Up, TypeOK, EngineOK
<1>42. ASSUME NEW t \in Tasks, RunLate(t)
      PROVE  JobMayEnd'
  <2>1. \A x \in Tasks : x # t => container'[x] = container[x]
    BY <1>42 DEF RunLate, TypeOK, EngineOK
  <2>2. pc \in {"prepare", "run"} => work.task \in Tasks \ {t}
    BY <1>42 DEF RunLate, RunnerInv, JobMayEnd, TypeOK, TaskInHand
  <2> QED
    BY <1>42, <2>1, <2>2 DEF RunLate, rows, job, RunnerInv, JobMayEnd, Started, Canceled
<1>43. ASSUME NEW t \in Tasks, BecomeOverdue(t)
      PROVE  JobMayEnd'
  BY <1>43, JobKept DEF BecomeOverdue, engine, job
<1>44. ASSUME NEW t \in Tasks, WaitEnds(t)
      PROVE  JobMayEnd'
  BY <1>44, JobKept DEF WaitEnds, engine, Enqueue
<1>45. ASSUME NEW t \in Tasks, WaitThrows(t)
      PROVE  JobMayEnd'
  BY <1>45, JobKept DEF WaitThrows, engine, job
<1>46. ASSUME NEW t \in Tasks, StopSettles(t)
      PROVE  JobMayEnd'
  BY <1>46, JobKept DEF StopSettles, job, Up, TypeOK, EngineOK
<1>47. CASE Boot
  BY <1>47, JobKept DEF Boot, engine, Enqueue
<1>48. CASE Tick
  BY <1>48, JobKept DEF Tick, engine, Enqueue
<1>49. CASE Crash
  BY <1>49, JobEnded DEF Crash, EndJob
<1>50. CASE UNCHANGED vars
  BY <1>50, JobKept DEF vars, job, engine
<1> QED
  BY <1>1, <1>2, <1>3, <1>4, <1>5, <1>6, <1>7, <1>8, <1>9, <1>10, <1>11, <1>12, <1>13,
     <1>14, <1>15, <1>16, <1>17, <1>18, <1>19, <1>20, <1>21, <1>22, <1>23, <1>24, <1>25,
     <1>26, <1>27, <1>28, <1>29, <1>30, <1>31, <1>32, <1>33, <1>34, <1>35, <1>36, <1>37,
     <1>38, <1>39, <1>40, <1>41, <1>42, <1>43, <1>44, <1>45, <1>46, <1>47, <1>48, <1>49,
     <1>50 DEF Next, Supervise, UserCalls, Environment, CancelSteps, DispatchSteps,
     CollectSteps, ReconcileSteps, TimeoutSteps

-----------------------------------------------------------------------------
(* The theorem.                                                            *)

(* Before anything is launched there is nothing to stop,                   *)
LEMMA RunnerInit ==
  ASSUME ConstantsAssumption, Init
  PROVE  RunnerInv
<1>1. ContainersStarted /\ StopsAreAsked
  BY DEF Init, ContainersStarted, StopsAreAsked, QueueHolds
<1>2. JobMayEnd
  BY DEF Init, Work0, JobMayEnd
<1> QED
  BY <1>1, <1>2 DEF RunnerInv

(* and every step keeps it so.                                             *)
LEMMA RunnerStep ==
  ASSUME TypeOK, IInv, RunnerInv, [Next]_vars
  PROVE  RunnerInv'
BY AgesStep, ContainersStep, StopsStep, JobStep DEF RunnerInv

(* A container that runs for an ACTIVE task goes on, or exits by itself.   *)
LEMMA LeftAloneStep ==
  ASSUME TypeOK, IInv, RunnerInv, [Next]_vars,
         NEW t \in Tasks, state[t] = "ACTIVE", container[t] = "running"
  PROVE  container'[t] = "running" \/ Exit(t)
<1> DEFINE Left == container'[t] = "running"
<1>1. ~Canceled(t) /\ container \in [Tasks -> {"none", "created", "running", "signalled", "exited"}]
  BY DEF Canceled, FinishedStates, TypeOK, EngineOK
<1>2. CASE UNCHANGED container
  BY <1>2
<1>3. CASE StopQueued
  <2>1. 1 \in 1 .. Len(queue) /\ Head(queue) = queue[1] /\ queue[1] \in Jobs
    BY <1>3 DEF StopQueued, TypeOK, JobOK
  <2>2. Head(queue).task # t
    BY <1>1, <1>3, <2>1 DEF StopQueued, RunnerInv, StopsAreAsked, QueueHolds
  <2> QED
    BY <1>1, <1>3, <2>2 DEF StopQueued, IssueStop
<1>4. CASE Run
  BY <1>1, <1>4 DEF Run, TypeOK, TaskInHand
<1>5. CASE RunFails
  <2>1. work.task # t
    BY <1>5 DEF RunFails, RunnerInv, JobMayEnd
  <2> QED
    BY <1>1, <1>5, <2>1 DEF RunFails
<1>6. CASE RemoveContainer \/ Kill
  <2>1. work.task # t
    BY <1>1, <1>6 DEF RemoveContainer, Kill, RunnerInv, JobMayEnd
  <2> QED
    BY <1>1, <1>6, <2>1 DEF RemoveContainer, Kill
<1>7. ASSUME NEW x \in Tasks, RemoveOrphan(x)
      PROVE  Left
  <2>1. x # t
    BY <1>1, <1>7 DEF RemoveOrphan, Orphans, RunnerInv, JobMayEnd
  <2> QED
    BY <1>1, <1>7, <2>1 DEF RemoveOrphan
<1>8. ASSUME NEW x \in Tasks, ReconcileRunning(x)
      PROVE  Left
  <2>1. work.seen[x] = "CANCELING" => x # t
    BY <1>1 DEF IInv, ReadsHold
  <2> QED
    BY <1>1, <1>8, <2>1 DEF ReconcileRunning, IssueStop
<1>9. ASSUME NEW x \in Tasks, Exit(x)
      PROVE  Left \/ Exit(t)
  <2>1. CASE x = t
    BY <1>9, <2>1
  <2>2. CASE x # t
    BY <1>1, <1>9, <2>2 DEF Exit
  <2> QED
    BY <2>1, <2>2
<1>10. ASSUME NEW x \in Tasks, RunLate(x)
      PROVE  Left
  BY <1>1, <1>10 DEF RunLate
<1>11. ASSUME NEW x \in Tasks, StopSettles(x)
      PROVE  Left
  <2>1. x # t
    BY <1>1, <1>11 DEF StopSettles, RunnerInv, StopsAreAsked
  <2> QED
    BY <1>1, <1>11, <2>1 DEF StopSettles
<1>12. CASE StartJob \/ BootGoesOn \/ JobFails
  BY <1>2, <1>12 DEF StartJob, BootGoesOn, JobFails, engine
<1>13. CASE CountRunning \/ CountByUser \/ Pick \/ DispatchDone \/ Activate \/ Prepare \/ MarkFailed
  BY <1>2, <1>13 DEF CountRunning, CountByUser, Pick, DispatchDone, Activate, Prepare, MarkFailed, engine
<1>14. CASE Fetch \/ ReadResult \/ Settle \/ WipeWorkspace
  BY <1>2, <1>14 DEF Fetch, ReadResult, Settle, WipeWorkspace, engine
<1>15. CASE ListContainers \/ ReadRunning \/ ReconcileDone
  BY <1>2, <1>15 DEF ListContainers, ReadRunning, ReconcileDone, engine
<1>16. ASSUME NEW x \in Tasks, ReconcileLost(x) \/ ReconcileEnded(x)
      PROVE  Left
  BY <1>2, <1>16 DEF ReconcileLost, ReconcileEnded, engine
<1>17. CASE ReadStalled \/ ReadCanceling \/ TimeoutsDone
  BY <1>2, <1>17 DEF ReadStalled, ReadCanceling, TimeoutsDone, engine
<1>18. ASSUME NEW x \in Tasks, FailStalled(x) \/ ForceCancel(x)
      PROVE  Left
  BY <1>2, <1>18 DEF FailStalled, ForceCancel, engine
<1>19. CASE UserCalls
  BY <1>2, <1>19 DEF UserCalls, CancelSteps, Submit, ReadForCancel, CancelPending, CancelRunning, Remove,
     ReadForResubmit, RemoveForResubmit, SubmitAgain, engine
<1>20. ASSUME NEW x \in Tasks,
              ReportProgress(x) \/ BecomeOverdue(x) \/ WaitEnds(x) \/ WaitThrows(x)
      PROVE  Left
  BY <1>2, <1>20 DEF ReportProgress, BecomeOverdue, WaitEnds, WaitThrows, engine
<1>21. CASE Boot \/ Tick \/ Crash \/ UNCHANGED vars
  BY <1>2, <1>21 DEF Boot, Tick, Crash, vars, engine
<1> QED
  BY <1>3, <1>4, <1>5, <1>6, <1>7, <1>8, <1>9, <1>10, <1>11, <1>12, <1>13, <1>14, <1>15, <1>16,
     <1>17, <1>18, <1>19, <1>20, <1>21 DEF Next, Supervise, Environment, DispatchSteps,
     CollectSteps, ReconcileSteps, TimeoutSteps

(* What is queued, read or stopped is of a task that has come far enough.  *)
THEOREM RunnerInvCorrect == Spec => []RunnerInv
<1>1. TypeOK /\ IInv /\ RunnerInv /\ [Next]_vars => RunnerInv'
  BY RunnerStep
<1>2. Init => RunnerInv
  BY RunnerInit, ConstantsAssumption
<1> QED
  BY <1>1, <1>2, IInvCorrect, TypeCorrect, PTL DEF Spec

(* A runner at work on an ACTIVE task is not stopped, killed or removed,   *)
(* however old the rows and listings are that a cancel, a reconcile, a     *)
(* collect or the timeouts act on.                                         *)
THEOREM RunnerLeftAloneCorrect == Spec => RunnerLeftAlone
<1>1. TypeOK /\ IInv /\ RunnerInv /\ [Next]_vars
        => [\A t \in Tasks : state[t] = "ACTIVE" /\ container[t] = "running"
              => container'[t] = "running" \/ Exit(t)]_vars
  BY LeftAloneStep
<1> QED
  BY <1>1, RunnerInvCorrect, IInvCorrect, TypeCorrect, PTL DEF Spec, RunnerLeftAlone

-----------------------------------------------------------------------------
(* A runner is sent one SIGTERM (StoppedOnce).                             *)

(* A stop that has been sent is remembered until the container has exited, *)
(* as long as none failed and the process has not died.                    *)
SignalRemembered ==
  failures + crashes = 0 => \A x \in Tasks : container[x] = "signalled" => x \in stopping

Calmly == UNCHANGED faults \/ failures' + crashes' > 0

(* A step that sends and forgets none.                                     *)
LEMMA SignalKept ==
  ASSUME SignalRemembered, Calmly, stopping' = stopping,
         \A x \in Tasks : container'[x] = "signalled" => container[x] = "signalled"
  PROVE  SignalRemembered'
  BY DEF SignalRemembered, Calmly, faults

(* The one that sends one remembers it.                                    *)
LEMMA SignalIssued ==
  ASSUME SignalRemembered, TypeOK, UNCHANGED faults, NEW t \in Tasks, IssueStop(t)
  PROVE  SignalRemembered'
  BY DEF SignalRemembered, IssueStop, faults, TypeOK, EngineOK, ProcessOK

(* Every step remembers what has been sent, and only the supervisor's own  *)
(* stops come to be in #stopping.                                          *)
LEMMA SignalStep ==
  ASSUME TypeOK, SignalRemembered, [Next]_vars
  PROVE  SignalRemembered'
<1> DEFINE Same == /\ stopping' = stopping
                   /\ \A x \in Tasks : container'[x] = "signalled" => container[x] = "signalled"
<1>0. Calmly /\ Same => SignalRemembered'
  BY SignalKept
<1>t. /\ container \in [Tasks -> {"none", "created", "running", "signalled", "exited"}]
      /\ failures \in Nat /\ crashes \in Nat
  BY DEF TypeOK, EngineOK, ProcessOK
<1>1. CASE StopQueued
  <2>1. Head(queue).task \in Tasks
    <3>1. 1 \in 1 .. Len(queue) /\ Head(queue) = queue[1] /\ queue[1] \in Jobs
      BY <1>1 DEF StopQueued, TypeOK, JobOK
    <3> QED
      BY <1>1, <3>1 DEF StopQueued, Jobs
  <2> QED
    BY <1>1, <2>1, SignalIssued DEF StopQueued
<1>2. ASSUME NEW t \in Tasks, ReconcileRunning(t)
      PROVE  SignalRemembered'
  <2>1. CASE work.seen[t] = "CANCELING"
    BY <1>2, <2>1, SignalIssued DEF ReconcileRunning
  <2>2. CASE work.seen[t] # "CANCELING"
    BY <1>0, <1>2, <2>2 DEF ReconcileRunning, Calmly
  <2> QED
    BY <2>1, <2>2
<1>3. ASSUME NEW t \in Tasks, StopSettles(t)
      PROVE  SignalRemembered'
  BY <1>t, <1>3 DEF StopSettles, MayFail, Up, SignalRemembered, faults
<1>4. CASE Crash
  BY <1>t, <1>4 DEF Crash, SignalRemembered
<1>5. CASE Run \/ RunFails \/ RemoveContainer \/ Kill
  <2>1. Calmly
    BY <1>t, <1>5 DEF Run, RunFails, RemoveContainer, Kill, MayFail, Calmly, faults
  <2>2. Same
    BY <1>t, <1>5 DEF Run, RunFails, RemoveContainer, Kill
  <2> QED
    BY <1>0, <2>1, <2>2
<1>6. ASSUME NEW x \in Tasks, RemoveOrphan(x)
      PROVE  SignalRemembered'
  <2>1. Calmly
    BY <1>t, <1>6 DEF RemoveOrphan, MayFail, Calmly, faults
  <2>2. Same
    BY <1>t, <1>6 DEF RemoveOrphan
  <2> QED
    BY <1>0, <2>1, <2>2
<1>7. ASSUME NEW x \in Tasks, Exit(x) \/ RunLate(x)
      PROVE  SignalRemembered'
  <2>1. Calmly
    BY <1>7 DEF Exit, RunLate, Calmly
  <2>2. Same
    BY <1>t, <1>7 DEF Exit, RunLate, memory
  <2> QED
    BY <1>0, <2>1, <2>2
<1>8. CASE StartJob \/ BootGoesOn \/ JobFails
  BY <1>0, <1>t, <1>8 DEF StartJob, BootGoesOn, JobFails, MayFail, Calmly, engine, memory, faults
<1>9. CASE CountRunning \/ CountByUser \/ Pick \/ DispatchDone \/ Activate \/ Prepare \/ MarkFailed
  BY <1>0, <1>t, <1>9 DEF CountRunning, CountByUser, Pick, DispatchDone, Activate, Prepare, MarkFailed,
     MayFail, Calmly, engine, faults
<1>10. CASE Fetch \/ ReadResult \/ Settle \/ WipeWorkspace
  BY <1>0, <1>10 DEF Fetch, ReadResult, Settle, WipeWorkspace, Calmly, engine
<1>11. CASE ListContainers \/ ReadRunning \/ ReconcileDone
  BY <1>0, <1>11 DEF ListContainers, ReadRunning, ReconcileDone, Calmly, engine
<1>12. ASSUME NEW x \in Tasks, ReconcileLost(x) \/ ReconcileEnded(x)
       PROVE  SignalRemembered'
  BY <1>0, <1>12 DEF ReconcileLost, ReconcileEnded, Calmly, engine
<1>13. CASE ReadStalled \/ ReadCanceling \/ TimeoutsDone
  BY <1>0, <1>13 DEF ReadStalled, ReadCanceling, TimeoutsDone, Calmly, engine
<1>14. ASSUME NEW x \in Tasks, FailStalled(x) \/ ForceCancel(x)
       PROVE  SignalRemembered'
  BY <1>0, <1>14 DEF FailStalled, ForceCancel, Calmly, engine
<1>15. CASE UserCalls
  BY <1>0, <1>15 DEF UserCalls, CancelSteps, Submit, ReadForCancel, CancelPending, CancelRunning, Remove,
     ReadForResubmit, RemoveForResubmit, SubmitAgain, Calmly, engine, memory
<1>16. ASSUME NEW x \in Tasks,
              ReportProgress(x) \/ BecomeOverdue(x) \/ WaitEnds(x) \/ WaitThrows(x)
       PROVE  SignalRemembered'
  BY <1>0, <1>t, <1>16 DEF ReportProgress, BecomeOverdue, WaitEnds, WaitThrows, MayFail, Calmly,
     engine, memory, faults
<1>17. CASE Boot \/ Tick \/ UNCHANGED vars
  BY <1>0, <1>17 DEF Boot, Tick, vars, Calmly, engine, memory
<1> QED
  BY <1>1, <1>2, <1>3, <1>4, <1>5, <1>6, <1>7, <1>8, <1>9, <1>10, <1>11, <1>12, <1>13, <1>14, <1>15,
     <1>16, <1>17 DEF Next, Supervise, Environment, DispatchSteps, CollectSteps, ReconcileSteps, TimeoutSteps

(* While no stop has failed and the process has not died, a runner is sent *)
(* one SIGTERM, though a cancel and any number of reconciles want to stop  *)
(* its container: what #stopping does not hold has not been signalled.     *)
THEOREM StoppedOnceCorrect == Spec => StoppedOnce
<1>1. Init => SignalRemembered
  BY DEF Init, SignalRemembered
<1>2. TypeOK /\ SignalRemembered /\ [Next]_vars => SignalRemembered'
  BY SignalStep
<1>3. TypeOK' /\ SignalRemembered
        => [failures + crashes = 0 => \A t \in stopping' \ stopping : container[t] # "signalled"]_vars
  BY DEF SignalRemembered, TypeOK, ProcessOK
<1> QED
  BY <1>1, <1>2, <1>3, TypeCorrect, PTL DEF Spec, StoppedOnce
=============================================================================
