------------------------ MODULE TaskSupervisorProofs ------------------------
(***************************************************************************)
(* Every record of the task supervisor keeps its type, one lemma per part  *)
(* of TypeOK.  TaskSupervisor implements TaskLifecycle, and IInv is an     *)
(* invariant of it: CountStep keeps the limits and the count a dispatch    *)
(* has in hand; LifecycleStep maps every step to one of the lifecycle,     *)
(* from which NoWayBack has what rows never do; ReadsStep and RerunStep    *)
(* use that.                                                               *)
(***************************************************************************)
EXTENDS TaskSupervisor, FiniteSetTheorems, SequenceTheorems, TLAPS

-----------------------------------------------------------------------------
(* The types.                                                              *)

(* Sets of tasks have a size.                                              *)
LEMMA TasksCount ==
  ASSUME NEW S \in SUBSET Tasks
  PROVE  IsFiniteSet(S) /\ Cardinality(S) \in Nat
  BY ConstantsAssumption, FS_Subset, FS_CardinalityType

(* Running tasks, of all users and of one, can be counted.                 *)
LEMMA RunningCounts ==
  /\ Running \in SUBSET Tasks /\ Cardinality(Running) \in Nat
  /\ \A u \in Users : RunningOf(u) \in SUBSET Tasks /\ Cardinality(RunningOf(u)) \in Nat
<1>1. Running \in SUBSET Tasks
  BY DEF Running
<1>2. ASSUME NEW u \in Users
      PROVE  RunningOf(u) \in SUBSET Tasks
  BY <1>1 DEF RunningOf
<1> QED
  BY <1>1, <1>2, TasksCount

(* The creation time Insert gives a row.                                   *)
LEMMA CreatedNext ==
  Cardinality({u \in Tasks : state[u] # "none"}) + 1 \in Nat
  BY TasksCount

(* Jobs added to the queue leave it a queue of jobs.                       *)
LEMMA JobsTyped ==
  /\ \A k \in {"dispatch", "reconcile", "timeouts", "boot", "started"} : Job(k) \in Jobs
  /\ \A k \in {"collect", "stop"}, t \in Tasks : JobOf(k, t) \in Jobs
  BY DEF Job, JobOf, Jobs

(* So of one, two and three jobs.                                          *)
LEMMA EnqueueType ==
  ASSUME NEW q \in Seq(Jobs)
  PROVE  /\ \A j1 \in Jobs : q \o <<j1>> \in Seq(Jobs) /\ q \o <<j1>> # <<>>
         /\ \A j1, j2 \in Jobs : q \o <<j1, j2>> \in Seq(Jobs) /\ q \o <<j1, j2>> # <<>>
         /\ \A j1, j2, j3 \in Jobs : q \o <<j1, j2, j3>> \in Seq(Jobs) /\ q \o <<j1, j2, j3>> # <<>>
  OBVIOUS

(* The job at the head of the queue, and the task it is about.             *)
LEMMA HeadType ==
  ASSUME JobOK, queue # <<>>
  PROVE  /\ Head(queue) \in Jobs /\ Tail(queue) \in Seq(Jobs)
         /\ Head(queue).task \in Tasks \union {NoTask}
         /\ Head(queue).kind \in {"collect", "stop"} => Head(queue).task \in Tasks
<1>1. Head(queue) \in Jobs /\ Tail(queue) \in Seq(Jobs)
  BY DEF JobOK
<1> QED
  BY <1>1 DEF Jobs

(* What work.f becomes a member of when only that field changes.           *)
WorkType == [task : Tasks \union {NoTask}, free : Int, busy : [Users -> Nat],
             seen : [Tasks -> {"none"} \union RunningStates],
             verdict : {"none"} \union FinishedStates,
             listing : [Tasks -> {"none", "up", "down"}], todo : SUBSET Tasks,
             back : {"idle", "pick", "count", "reconcile", "fail", "force"}]

(* A job that ends or throws leaves nothing in hand.                       *)
LEMMA EndJobType ==
  ASSUME JobOK, pc # "idle", EndJob
  PROVE  JobOK' /\ pc' = "idle"
<1>1. queue' \in Seq(Jobs)
  BY DEF JobOK, EndJob
<1>2. work' = Work0
  BY DEF EndJob
<1> QED
  BY <1>1, <1>2 DEF JobOK, EndJob, Work0, Steps

(* A collect that ends forgets the wait that queued it.                    *)
LEMMA EndWatched ==
  ASSUME JobOK, ProcessOK, pc # "idle", EndJob
  PROVE  watched' \in [Tasks -> {"no", "waiting", "queued"}]
  BY HeadType DEF JobOK, ProcessOK, EndJob

(* Rows: state, removed, created, overdue, origin.                         *)
LEMMA RowsType ==
  ASSUME TypeOK, [Next]_vars
  PROVE  RowsOK'
<1> USE DEF TypeOK
<1>1. CASE StartJob
  BY <1>1 DEF StartJob, RowsOK, rows
<1>2. CASE StopQueued
  BY <1>2 DEF StopQueued, RowsOK, rows
<1>3. CASE BootGoesOn
  BY <1>3 DEF BootGoesOn, RowsOK, rows
<1>4. CASE JobFails
  BY <1>4 DEF JobFails, RowsOK, rows
<1>5. CASE CountRunning
  BY <1>5 DEF CountRunning, RowsOK, rows
<1>6. CASE CountByUser
  BY <1>6 DEF CountByUser, RowsOK, rows
<1>7. CASE Pick
  BY <1>7 DEF Pick, RowsOK, rows
<1>8. CASE DispatchDone
  BY <1>8 DEF DispatchDone, RowsOK, rows
<1>9. CASE Activate
  BY <1>9 DEF Activate, RowsOK, Transition, States, RunningStates
<1>10. CASE Prepare
  BY <1>10 DEF Prepare, RowsOK, rows
<1>11. CASE Run
  BY <1>11 DEF Run, RowsOK, rows
<1>12. CASE RunFails
  BY <1>12 DEF RunFails, RowsOK, rows
<1>13. CASE MarkFailed
  BY <1>13 DEF MarkFailed, RowsOK, Transition, States, FinishedStates
<1>14. CASE Fetch
  BY <1>14 DEF Fetch, RowsOK, rows
<1>15. CASE ReadResult
  BY <1>15 DEF ReadResult, RowsOK, rows
<1>16. CASE Settle
  BY <1>16 DEF Settle, RowsOK, Transition, States, JobOK
<1>17. CASE RemoveContainer
  BY <1>17 DEF RemoveContainer, RowsOK, rows
<1>18. CASE WipeWorkspace
  BY <1>18 DEF WipeWorkspace, RowsOK, rows
<1>19. CASE ListContainers
  BY <1>19 DEF ListContainers, RowsOK, rows
<1>20. CASE ReadRunning
  BY <1>20 DEF ReadRunning, RowsOK, rows
<1>21. CASE ReconcileDone
  BY <1>21 DEF ReconcileDone, RowsOK, rows
<1>22. ASSUME NEW t \in Tasks, ReconcileLost(t)
      PROVE  RowsOK'
  BY <1>22 DEF ReconcileLost, RowsOK, Transition, Interrupted, States, FinishedStates
<1>23. ASSUME NEW t \in Tasks, ReconcileRunning(t)
      PROVE  RowsOK'
  BY <1>23 DEF ReconcileRunning, RowsOK, rows
<1>24. ASSUME NEW t \in Tasks, ReconcileEnded(t)
      PROVE  RowsOK'
  BY <1>24 DEF ReconcileEnded, RowsOK, rows
<1>25. ASSUME NEW t \in Tasks, RemoveOrphan(t)
      PROVE  RowsOK'
  BY <1>25 DEF RemoveOrphan, RowsOK, rows
<1>26. CASE ReadStalled
  BY <1>26 DEF ReadStalled, RowsOK, rows
<1>27. CASE ReadCanceling
  BY <1>27 DEF ReadCanceling, RowsOK, rows
<1>28. CASE TimeoutsDone
  BY <1>28 DEF TimeoutsDone, RowsOK, rows
<1>29. CASE Kill
  BY <1>29 DEF Kill, RowsOK, rows
<1>30. ASSUME NEW t \in Tasks, FailStalled(t)
      PROVE  RowsOK'
  BY <1>30 DEF FailStalled, RowsOK, Transition, States, FinishedStates
<1>31. ASSUME NEW t \in Tasks, ForceCancel(t)
      PROVE  RowsOK'
  BY <1>31 DEF ForceCancel, RowsOK, Transition, States, FinishedStates
<1>32. ASSUME NEW t \in Tasks, Submit(t)
      PROVE  RowsOK'
  BY <1>32, CreatedNext DEF Submit, RowsOK, Insert, States
<1>33. ASSUME NEW t \in Tasks, ReadForCancel(t)
      PROVE  RowsOK'
  BY <1>33 DEF ReadForCancel, RowsOK, rows
<1>34. ASSUME NEW t \in Tasks, CancelPending(t)
      PROVE  RowsOK'
  BY <1>34 DEF CancelPending, RowsOK, Transition, States, FinishedStates
<1>35. ASSUME NEW t \in Tasks, CancelRunning(t)
      PROVE  RowsOK'
  BY <1>35 DEF CancelRunning, RowsOK, Transition, States, RunningStates
<1>36. ASSUME NEW t \in Tasks, Remove(t)
      PROVE  RowsOK'
  BY <1>36 DEF Remove, RowsOK
<1>37. ASSUME NEW t \in Tasks, ReadForResubmit(t)
      PROVE  RowsOK'
  BY <1>37 DEF ReadForResubmit, RowsOK, rows
<1>38. ASSUME NEW t \in Tasks, RemoveForResubmit(t)
      PROVE  RowsOK'
  BY <1>38 DEF RemoveForResubmit, RowsOK
<1>39. ASSUME NEW t \in Tasks, NEW u \in Tasks, SubmitAgain(t, u)
      PROVE  RowsOK'
  BY <1>39, CreatedNext DEF SubmitAgain, RowsOK, Insert, States
<1>40. ASSUME NEW t \in Tasks, ReportProgress(t)
      PROVE  RowsOK'
  BY <1>40 DEF ReportProgress, RowsOK
<1>41. ASSUME NEW t \in Tasks, Exit(t)
      PROVE  RowsOK'
  BY <1>41 DEF Exit, RowsOK, rows
<1>42. ASSUME NEW t \in Tasks, RunLate(t)
      PROVE  RowsOK'
  BY <1>42 DEF RunLate, RowsOK, rows
<1>43. ASSUME NEW t \in Tasks, BecomeOverdue(t)
      PROVE  RowsOK'
  BY <1>43 DEF BecomeOverdue, RowsOK
<1>44. ASSUME NEW t \in Tasks, WaitEnds(t)
      PROVE  RowsOK'
  BY <1>44 DEF WaitEnds, RowsOK, rows
<1>45. ASSUME NEW t \in Tasks, WaitThrows(t)
      PROVE  RowsOK'
  BY <1>45 DEF WaitThrows, RowsOK, rows
<1>46. ASSUME NEW t \in Tasks, StopSettles(t)
      PROVE  RowsOK'
  BY <1>46 DEF StopSettles, RowsOK, rows
<1>47. CASE Boot
  BY <1>47 DEF Boot, RowsOK
<1>48. CASE Tick
  BY <1>48 DEF Tick, RowsOK, rows
<1>49. CASE Crash
  BY <1>49 DEF Crash, RowsOK, rows
<1>50. CASE UNCHANGED vars
  BY <1>50 DEF RowsOK, vars, rows
<1> QED
  BY <1>1, <1>2, <1>3, <1>4, <1>5, <1>6, <1>7, <1>8, <1>9, <1>10, <1>11, <1>12, <1>13,
     <1>14, <1>15, <1>16, <1>17, <1>18, <1>19, <1>20, <1>21, <1>22, <1>23, <1>24, <1>25,
     <1>26, <1>27, <1>28, <1>29, <1>30, <1>31, <1>32, <1>33, <1>34, <1>35, <1>36, <1>37,
     <1>38, <1>39, <1>40, <1>41, <1>42, <1>43, <1>44, <1>45, <1>46, <1>47, <1>48, <1>49,
     <1>50 DEF Next, Supervise, UserCalls, Environment, CancelSteps, DispatchSteps,
     CollectSteps, ReconcileSteps, TimeoutSteps

(* Containers, workspaces and late starts.                                 *)
LEMMA EngineType ==
  ASSUME TypeOK, [Next]_vars
  PROVE  EngineOK'
<1> USE DEF TypeOK
<1>1. CASE StartJob
  BY <1>1 DEF StartJob, EngineOK, engine
<1>2. CASE StopQueued
  BY <1>2 DEF StopQueued, EngineOK, IssueStop
<1>3. CASE BootGoesOn
  BY <1>3 DEF BootGoesOn, EngineOK, engine
<1>4. CASE JobFails
  BY <1>4 DEF JobFails, EngineOK, engine
<1>5. CASE CountRunning
  BY <1>5 DEF CountRunning, EngineOK, engine
<1>6. CASE CountByUser
  BY <1>6 DEF CountByUser, EngineOK, engine
<1>7. CASE Pick
  BY <1>7 DEF Pick, EngineOK, engine
<1>8. CASE DispatchDone
  BY <1>8 DEF DispatchDone, EngineOK, engine
<1>9. CASE Activate
  BY <1>9 DEF Activate, EngineOK, engine
<1>10. CASE Prepare
  BY <1>10 DEF Prepare, EngineOK
<1>11. CASE Run
  BY <1>11 DEF Run, EngineOK
<1>12. CASE RunFails
  BY <1>12 DEF RunFails, EngineOK, TaskInHand
<1>13. CASE MarkFailed
  BY <1>13 DEF MarkFailed, EngineOK, engine
<1>14. CASE Fetch
  BY <1>14 DEF Fetch, EngineOK, engine
<1>15. CASE ReadResult
  BY <1>15 DEF ReadResult, EngineOK, engine
<1>16. CASE Settle
  BY <1>16 DEF Settle, EngineOK, engine
<1>17. CASE RemoveContainer
  BY <1>17 DEF RemoveContainer, EngineOK
<1>18. CASE WipeWorkspace
  BY <1>18 DEF WipeWorkspace, EngineOK
<1>19. CASE ListContainers
  BY <1>19 DEF ListContainers, EngineOK, engine
<1>20. CASE ReadRunning
  BY <1>20 DEF ReadRunning, EngineOK, engine
<1>21. CASE ReconcileDone
  BY <1>21 DEF ReconcileDone, EngineOK, engine
<1>22. ASSUME NEW t \in Tasks, ReconcileLost(t)
      PROVE  EngineOK'
  BY <1>22 DEF ReconcileLost, EngineOK, engine
<1>23. ASSUME NEW t \in Tasks, ReconcileRunning(t)
      PROVE  EngineOK'
  BY <1>23 DEF ReconcileRunning, EngineOK, IssueStop
<1>24. ASSUME NEW t \in Tasks, ReconcileEnded(t)
      PROVE  EngineOK'
  BY <1>24 DEF ReconcileEnded, EngineOK, engine
<1>25. ASSUME NEW t \in Tasks, RemoveOrphan(t)
      PROVE  EngineOK'
  BY <1>25 DEF RemoveOrphan, EngineOK
<1>26. CASE ReadStalled
  BY <1>26 DEF ReadStalled, EngineOK, engine
<1>27. CASE ReadCanceling
  BY <1>27 DEF ReadCanceling, EngineOK, engine
<1>28. CASE TimeoutsDone
  BY <1>28 DEF TimeoutsDone, EngineOK, engine
<1>29. CASE Kill
  BY <1>29 DEF Kill, EngineOK
<1>30. ASSUME NEW t \in Tasks, FailStalled(t)
      PROVE  EngineOK'
  BY <1>30 DEF FailStalled, EngineOK, engine
<1>31. ASSUME NEW t \in Tasks, ForceCancel(t)
      PROVE  EngineOK'
  BY <1>31 DEF ForceCancel, EngineOK, engine
<1>32. ASSUME NEW t \in Tasks, Submit(t)
      PROVE  EngineOK'
  BY <1>32 DEF Submit, EngineOK, engine
<1>33. ASSUME NEW t \in Tasks, ReadForCancel(t)
      PROVE  EngineOK'
  BY <1>33 DEF ReadForCancel, EngineOK, engine
<1>34. ASSUME NEW t \in Tasks, CancelPending(t)
      PROVE  EngineOK'
  BY <1>34 DEF CancelPending, EngineOK, engine
<1>35. ASSUME NEW t \in Tasks, CancelRunning(t)
      PROVE  EngineOK'
  BY <1>35 DEF CancelRunning, EngineOK, engine
<1>36. ASSUME NEW t \in Tasks, Remove(t)
      PROVE  EngineOK'
  BY <1>36 DEF Remove, EngineOK, engine
<1>37. ASSUME NEW t \in Tasks, ReadForResubmit(t)
      PROVE  EngineOK'
  BY <1>37 DEF ReadForResubmit, EngineOK, engine
<1>38. ASSUME NEW t \in Tasks, RemoveForResubmit(t)
      PROVE  EngineOK'
  BY <1>38 DEF RemoveForResubmit, EngineOK, engine
<1>39. ASSUME NEW t \in Tasks, NEW u \in Tasks, SubmitAgain(t, u)
      PROVE  EngineOK'
  BY <1>39 DEF SubmitAgain, EngineOK, engine
<1>40. ASSUME NEW t \in Tasks, ReportProgress(t)
      PROVE  EngineOK'
  BY <1>40 DEF ReportProgress, EngineOK, engine
<1>41. ASSUME NEW t \in Tasks, Exit(t)
      PROVE  EngineOK'
  BY <1>41 DEF Exit, EngineOK, FinishedStates
<1>42. ASSUME NEW t \in Tasks, RunLate(t)
      PROVE  EngineOK'
  BY <1>42 DEF RunLate, EngineOK
<1>43. ASSUME NEW t \in Tasks, BecomeOverdue(t)
      PROVE  EngineOK'
  BY <1>43 DEF BecomeOverdue, EngineOK, engine
<1>44. ASSUME NEW t \in Tasks, WaitEnds(t)
      PROVE  EngineOK'
  BY <1>44 DEF WaitEnds, EngineOK, engine
<1>45. ASSUME NEW t \in Tasks, WaitThrows(t)
      PROVE  EngineOK'
  BY <1>45 DEF WaitThrows, EngineOK, engine
<1>46. ASSUME NEW t \in Tasks, StopSettles(t)
      PROVE  EngineOK'
  BY <1>46 DEF StopSettles, EngineOK
<1>47. CASE Boot
  BY <1>47 DEF Boot, EngineOK, engine
<1>48. CASE Tick
  BY <1>48 DEF Tick, EngineOK, engine
<1>49. CASE Crash
  BY <1>49 DEF Crash, EngineOK, engine
<1>50. CASE UNCHANGED vars
  BY <1>50 DEF EngineOK, vars, engine
<1> QED
  BY <1>1, <1>2, <1>3, <1>4, <1>5, <1>6, <1>7, <1>8, <1>9, <1>10, <1>11, <1>12, <1>13,
     <1>14, <1>15, <1>16, <1>17, <1>18, <1>19, <1>20, <1>21, <1>22, <1>23, <1>24, <1>25,
     <1>26, <1>27, <1>28, <1>29, <1>30, <1>31, <1>32, <1>33, <1>34, <1>35, <1>36, <1>37,
     <1>38, <1>39, <1>40, <1>41, <1>42, <1>43, <1>44, <1>45, <1>46, <1>47, <1>48, <1>49,
     <1>50 DEF Next, Supervise, UserCalls, Environment, CancelSteps, DispatchSteps,
     CollectSteps, ReconcileSteps, TimeoutSteps

(* The queue and what the job at its head holds.                           *)
LEMMA JobType ==
  ASSUME TypeOK, [Next]_vars
  PROVE  JobOK'
<1> USE DEF TypeOK
<1>1. CASE StartJob
  <2>1. work' \in WorkType
    BY <1>1, HeadType DEF StartJob, JobOK, WorkType
  <2>2. pc' \in Steps \ {"idle"} /\ queue' = queue /\ queue # <<>>
    BY <1>1 DEF StartJob, Goto, First, Steps
  <2> QED
    BY <2>1, <2>2 DEF JobOK, WorkType
<1>2. CASE StopQueued
  BY <1>2 DEF StopQueued, JobOK
<1>3. CASE BootGoesOn
  <2>1. Tail(queue) \in Seq(Jobs)
    BY <1>3, HeadType DEF BootGoesOn
  <2>2. queue' \in Seq(Jobs)
    BY <1>3, <2>1, JobsTyped, EnqueueType DEF BootGoesOn
  <2> QED
    BY <1>3, <2>2 DEF BootGoesOn, JobOK
<1>4. CASE JobFails
  BY <1>4, EndJobType DEF JobFails, JobOK
<1>5. CASE CountRunning
  <2>1. MaxConcurrent - Cardinality(Running) \in Int
    BY RunningCounts, ConstantsAssumption
  <2> QED
    BY <1>5, <2>1 DEF CountRunning, JobOK, Goto, Steps
<1>6. CASE CountByUser
  BY <1>6, RunningCounts DEF CountByUser, JobOK, Goto, Steps
<1>7. CASE Pick
  <2>1. PICK t \in Tasks : work' = [work EXCEPT !.task = t]
    BY <1>7 DEF Pick, Startable
  <2> QED
    BY <1>7, <2>1 DEF Pick, JobOK, Goto, Steps
<1>8. CASE DispatchDone
  BY <1>8, EndJobType DEF DispatchDone, JobOK, Goto, Steps
<1>9. CASE Activate
  BY <1>9 DEF Activate, JobOK, Goto, Steps
<1>10. CASE Prepare
  BY <1>10 DEF Prepare, JobOK, Goto, Steps
<1>11. CASE Run
  <2>1. Owner[work.task] \in Users
    BY <1>11, ConstantsAssumption DEF Run, TaskInHand
  <2>2. [work.busy EXCEPT ![Owner[work.task]] = @ + 1] \in [Users -> Nat]
    BY <2>1 DEF JobOK
  <2>3. PICK n \in Int, b \in [Users -> Nat] : work' = [work EXCEPT !.free = n, !.busy = b]
    <3>1. work.free - 1 \in Int
      BY DEF JobOK
    <3> QED
      BY <1>11, <2>2, <3>1 DEF Run
  <2>4. work' \in WorkType
    BY <2>3 DEF JobOK, WorkType
  <2> QED
    BY <1>11, <2>4 DEF Run, JobOK, Steps, WorkType
<1>12. CASE RunFails
  BY <1>12 DEF RunFails, JobOK, Goto, Steps
<1>13. CASE MarkFailed
  BY <1>13 DEF MarkFailed, JobOK, Goto, Steps
<1>14. CASE Fetch
  <2>1. CASE state[work.task] \in RunningStates
    <3>1. work' = [work EXCEPT !.seen = [work.seen EXCEPT ![work.task] = state[work.task]]]
      BY <1>14, <2>1 DEF Fetch, JobOK
    <3>2. [work.seen EXCEPT ![work.task] = state[work.task]] \in [Tasks -> {"none"} \union RunningStates]
      BY <2>1 DEF JobOK
    <3>3. work' \in WorkType
      BY <3>1, <3>2 DEF JobOK, WorkType
    <3> QED
      BY <1>14, <2>1, <3>3 DEF Fetch, JobOK, WorkType, Goto, Steps
  <2>2. CASE state[work.task] \notin RunningStates
    BY <1>14, <2>2 DEF Fetch, JobOK, Goto, Steps
  <2> QED
    BY <2>1, <2>2
<1>15. CASE ReadResult
  BY <1>15 DEF ReadResult, JobOK, Goto, Steps, Outcome, Interrupted, FinishedStates
<1>16. CASE Settle
  BY <1>16 DEF Settle, JobOK, Goto, Steps
<1>17. CASE RemoveContainer
  BY <1>17 DEF RemoveContainer, JobOK, Goto, Steps
<1>18. CASE WipeWorkspace
  <2>1. CASE work.back = "idle"
    BY <1>18, <2>1, EndJobType DEF WipeWorkspace, Return
  <2>2. CASE work.back # "idle"
    <3>1. pc' = work.back /\ queue' = queue /\ queue # <<>> /\ work' = [work EXCEPT !.back = "idle"]
      BY <1>18, <2>2 DEF WipeWorkspace, Return, Goto, JobOK
    <3>2. pc' \in Steps
      BY <3>1 DEF JobOK, Steps
    <3>3. work' \in WorkType
      BY <3>1 DEF JobOK, WorkType
    <3> QED
      BY <3>1, <3>2, <3>3 DEF JobOK, WorkType
  <2> QED
    BY <2>1, <2>2
<1>19. CASE ListContainers
  BY <1>19 DEF ListContainers, JobOK, Goto, Steps
<1>20. CASE ReadRunning
  BY <1>20 DEF ReadRunning, JobOK, Goto, Steps, Running
<1>21. CASE ReconcileDone
  BY <1>21, EndJobType DEF ReconcileDone, JobOK
<1>22. ASSUME NEW t \in Tasks, ReconcileLost(t)
      PROVE  JobOK'
  BY <1>22 DEF ReconcileLost, JobOK, Goto, Steps
<1>23. ASSUME NEW t \in Tasks, ReconcileRunning(t)
      PROVE  JobOK'
  BY <1>23 DEF ReconcileRunning, JobOK
<1>24. ASSUME NEW t \in Tasks, ReconcileEnded(t)
      PROVE  JobOK'
  BY <1>24 DEF ReconcileEnded, JobOK, Goto, Steps
<1>25. ASSUME NEW t \in Tasks, RemoveOrphan(t)
      PROVE  JobOK'
  <2>1. CASE EndJob
    BY <1>25, <2>1, EndJobType DEF RemoveOrphan
  <2>2. CASE /\ Goto("wipe")
             /\ work' = [work EXCEPT !.listing[t] = "none", !.task = t, !.back = "reconcile"]
    <3>1. work' = [work EXCEPT !.listing = [work.listing EXCEPT ![t] = "none"], !.task = t, !.back = "reconcile"]
      BY <2>2 DEF JobOK
    <3>2. [work.listing EXCEPT ![t] = "none"] \in [Tasks -> {"none", "up", "down"}]
      BY DEF JobOK
    <3>3. work' \in WorkType
      BY <3>1, <3>2 DEF JobOK, WorkType
    <3> QED
      BY <1>25, <2>2, <3>3 DEF RemoveOrphan, JobOK, WorkType, Goto, Steps
  <2> QED
    BY <1>25, <2>1, <2>2 DEF RemoveOrphan
<1>26. CASE ReadStalled
  BY <1>26 DEF ReadStalled, JobOK, Goto, Steps, RowsOK
<1>27. CASE ReadCanceling
  BY <1>27 DEF ReadCanceling, JobOK, Goto, Steps, RowsOK
<1>28. CASE TimeoutsDone
  BY <1>28, EndJobType DEF TimeoutsDone, JobOK
<1>29. CASE Kill
  BY <1>29 DEF Kill, JobOK, Goto, Steps
<1>30. ASSUME NEW t \in Tasks, FailStalled(t)
      PROVE  JobOK'
  BY <1>30 DEF FailStalled, JobOK, Goto, Steps
<1>31. ASSUME NEW t \in Tasks, ForceCancel(t)
      PROVE  JobOK'
  BY <1>31 DEF ForceCancel, JobOK, Goto, Steps
<1>32. ASSUME NEW t \in Tasks, Submit(t)
      PROVE  JobOK'
  <2>1. queue' \in Seq(Jobs) /\ queue' # <<>>
    BY <1>32, JobsTyped, EnqueueType DEF Submit, Enqueue, JobOK
  <2> QED
    BY <1>32, <2>1 DEF Submit, JobOK
<1>33. ASSUME NEW t \in Tasks, ReadForCancel(t)
      PROVE  JobOK'
  BY <1>33 DEF ReadForCancel, JobOK, job
<1>34. ASSUME NEW t \in Tasks, CancelPending(t)
      PROVE  JobOK'
  BY <1>34 DEF CancelPending, JobOK, job
<1>35. ASSUME NEW t \in Tasks, CancelRunning(t)
      PROVE  JobOK'
  <2>1. CASE queue' = queue \o <<JobOf("stop", t)>>
    <3>1. queue' \in Seq(Jobs) /\ queue' # <<>>
      BY <2>1, JobsTyped, EnqueueType DEF JobOK
    <3> QED
      BY <1>35, <3>1 DEF CancelRunning, JobOK
  <2>2. CASE queue' = queue
    BY <1>35, <2>2 DEF CancelRunning, JobOK
  <2> QED
    BY <1>35, <2>1, <2>2 DEF CancelRunning, Enqueue
<1>36. ASSUME NEW t \in Tasks, Remove(t)
      PROVE  JobOK'
  BY <1>36 DEF Remove, JobOK, job
<1>37. ASSUME NEW t \in Tasks, ReadForResubmit(t)
      PROVE  JobOK'
  BY <1>37 DEF ReadForResubmit, JobOK, job
<1>38. ASSUME NEW t \in Tasks, RemoveForResubmit(t)
      PROVE  JobOK'
  BY <1>38 DEF RemoveForResubmit, JobOK, job
<1>39. ASSUME NEW t \in Tasks, NEW u \in Tasks, SubmitAgain(t, u)
      PROVE  JobOK'
  <2>1. queue' \in Seq(Jobs) /\ queue' # <<>>
    BY <1>39, JobsTyped, EnqueueType DEF SubmitAgain, Enqueue, JobOK
  <2> QED
    BY <1>39, <2>1 DEF SubmitAgain, JobOK
<1>40. ASSUME NEW t \in Tasks, ReportProgress(t)
      PROVE  JobOK'
  BY <1>40 DEF ReportProgress, JobOK, job
<1>41. ASSUME NEW t \in Tasks, Exit(t)
      PROVE  JobOK'
  BY <1>41 DEF Exit, JobOK, job
<1>42. ASSUME NEW t \in Tasks, RunLate(t)
      PROVE  JobOK'
  BY <1>42 DEF RunLate, JobOK, job
<1>43. ASSUME NEW t \in Tasks, BecomeOverdue(t)
      PROVE  JobOK'
  BY <1>43 DEF BecomeOverdue, JobOK, job
<1>44. ASSUME NEW t \in Tasks, WaitEnds(t)
      PROVE  JobOK'
  <2>1. queue' \in Seq(Jobs) /\ queue' # <<>>
    BY <1>44, JobsTyped, EnqueueType DEF WaitEnds, Enqueue, JobOK
  <2> QED
    BY <1>44, <2>1 DEF WaitEnds, JobOK
<1>45. ASSUME NEW t \in Tasks, WaitThrows(t)
      PROVE  JobOK'
  BY <1>45 DEF WaitThrows, JobOK, job
<1>46. ASSUME NEW t \in Tasks, StopSettles(t)
      PROVE  JobOK'
  BY <1>46 DEF StopSettles, JobOK, job
<1>47. CASE Boot
  <2>1. queue' \in Seq(Jobs) /\ queue' # <<>>
    BY <1>47, JobsTyped, EnqueueType DEF Boot, Enqueue, JobOK
  <2> QED
    BY <1>47, <2>1 DEF Boot, JobOK
<1>48. CASE Tick
  <2>1. queue' \in Seq(Jobs) /\ queue' # <<>>
    BY <1>48, JobsTyped, EnqueueType DEF Tick, Enqueue, JobOK
  <2> QED
    BY <1>48, <2>1 DEF Tick, JobOK
<1>49. CASE Crash
  BY <1>49 DEF Crash, JobOK, Work0, Steps
<1>50. CASE UNCHANGED vars
  BY <1>50 DEF JobOK, vars, job
<1> QED
  BY <1>1, <1>2, <1>3, <1>4, <1>5, <1>6, <1>7, <1>8, <1>9, <1>10, <1>11, <1>12, <1>13,
     <1>14, <1>15, <1>16, <1>17, <1>18, <1>19, <1>20, <1>21, <1>22, <1>23, <1>24, <1>25,
     <1>26, <1>27, <1>28, <1>29, <1>30, <1>31, <1>32, <1>33, <1>34, <1>35, <1>36, <1>37,
     <1>38, <1>39, <1>40, <1>41, <1>42, <1>43, <1>44, <1>45, <1>46, <1>47, <1>48, <1>49,
     <1>50 DEF Next, Supervise, UserCalls, Environment, CancelSteps, DispatchSteps,
     CollectSteps, ReconcileSteps, TimeoutSteps

(* A step that acts on one task holds one.                                 *)
LEMMA TaskInHandKept ==
  ASSUME TypeOK, [Next]_vars
  PROVE  TaskInHand'
<1> USE DEF TypeOK
<1>1. CASE StartJob
  <2>1. pc' # "fetch" => pc' \in {"count", "list", "stalled"}
    BY <1>1 DEF StartJob, Goto, First
  <2>2. pc' = "fetch" => Head(queue).kind = "collect"
    BY <1>1 DEF StartJob, Goto, First
  <2>3. work'.task = Head(queue).task
    BY <1>1 DEF StartJob, JobOK
  <2> QED
    BY <1>1, <2>1, <2>2, <2>3, HeadType DEF TaskInHand, StartJob
<1>2. CASE StopQueued
  BY <1>2 DEF StopQueued, TaskInHand
<1>3. CASE BootGoesOn
  BY <1>3 DEF BootGoesOn, TaskInHand
<1>4. CASE JobFails
  BY <1>4 DEF JobFails, TaskInHand, EndJob, Goto
<1>5. CASE CountRunning
  BY <1>5, RunningCounts DEF CountRunning, TaskInHand, Goto, JobOK
<1>6. CASE CountByUser
  BY <1>6, RunningCounts DEF CountByUser, TaskInHand, Goto, JobOK
<1>7. CASE Pick
  <2>1. PICK t \in Tasks : work' = [work EXCEPT !.task = t]
    BY <1>7 DEF Pick, Startable
  <2> QED
    BY <2>1 DEF TaskInHand, JobOK
<1>8. CASE DispatchDone
  BY <1>8 DEF DispatchDone, TaskInHand, EndJob, Goto
<1>9. CASE Activate
  BY <1>9 DEF Activate, TaskInHand, Goto, JobOK
<1>10. CASE Prepare
  BY <1>10 DEF Prepare, TaskInHand, Goto, JobOK
<1>11. CASE Run
  BY <1>11 DEF Run, TaskInHand, Goto, JobOK
<1>12. CASE RunFails
  BY <1>12 DEF RunFails, TaskInHand, Goto, JobOK
<1>13. CASE MarkFailed
  BY <1>13 DEF MarkFailed, TaskInHand, Goto, JobOK
<1>14. CASE Fetch
  BY <1>14 DEF Fetch, TaskInHand, Goto, JobOK
<1>15. CASE ReadResult
  BY <1>15 DEF ReadResult, TaskInHand, Goto, JobOK
<1>16. CASE Settle
  BY <1>16 DEF Settle, TaskInHand, Goto, JobOK
<1>17. CASE RemoveContainer
  BY <1>17 DEF RemoveContainer, TaskInHand, Goto, JobOK
<1>18. CASE WipeWorkspace
  <2>1. pc' = "idle" \/ pc' = work.back
    BY <1>18 DEF WipeWorkspace, Return, EndJob, Goto
  <2> QED
    BY <2>1 DEF TaskInHand, JobOK
<1>19. CASE ListContainers
  BY <1>19 DEF ListContainers, TaskInHand, Goto, JobOK
<1>20. CASE ReadRunning
  BY <1>20 DEF ReadRunning, TaskInHand, Goto, JobOK
<1>21. CASE ReconcileDone
  BY <1>21 DEF ReconcileDone, TaskInHand, EndJob, Goto
<1>22. ASSUME NEW t \in Tasks, ReconcileLost(t)
      PROVE  TaskInHand'
  BY <1>22 DEF ReconcileLost, TaskInHand, Goto, JobOK
<1>23. ASSUME NEW t \in Tasks, ReconcileRunning(t)
      PROVE  TaskInHand'
  BY <1>23 DEF ReconcileRunning, TaskInHand, Goto, JobOK
<1>24. ASSUME NEW t \in Tasks, ReconcileEnded(t)
      PROVE  TaskInHand'
  BY <1>24 DEF ReconcileEnded, TaskInHand, Goto, JobOK
<1>25. ASSUME NEW t \in Tasks, RemoveOrphan(t)
      PROVE  TaskInHand'
  BY <1>25 DEF RemoveOrphan, TaskInHand, EndJob, Goto, JobOK
<1>26. CASE ReadStalled
  BY <1>26 DEF ReadStalled, TaskInHand, Goto, JobOK
<1>27. CASE ReadCanceling
  BY <1>27 DEF ReadCanceling, TaskInHand, Goto, JobOK
<1>28. CASE TimeoutsDone
  BY <1>28 DEF TimeoutsDone, TaskInHand, EndJob, Goto
<1>29. CASE Kill
  BY <1>29 DEF Kill, TaskInHand, Goto, JobOK
<1>30. ASSUME NEW t \in Tasks, FailStalled(t)
      PROVE  TaskInHand'
  BY <1>30 DEF FailStalled, TaskInHand, Goto, JobOK
<1>31. ASSUME NEW t \in Tasks, ForceCancel(t)
      PROVE  TaskInHand'
  BY <1>31 DEF ForceCancel, TaskInHand, Goto, JobOK
<1>32. ASSUME NEW t \in Tasks, Submit(t)
      PROVE  TaskInHand'
  BY <1>32 DEF Submit, TaskInHand
<1>33. ASSUME NEW t \in Tasks, ReadForCancel(t)
      PROVE  TaskInHand'
  BY <1>33 DEF ReadForCancel, TaskInHand, job
<1>34. ASSUME NEW t \in Tasks, CancelPending(t)
      PROVE  TaskInHand'
  BY <1>34 DEF CancelPending, TaskInHand, job
<1>35. ASSUME NEW t \in Tasks, CancelRunning(t)
      PROVE  TaskInHand'
  BY <1>35 DEF CancelRunning, TaskInHand
<1>36. ASSUME NEW t \in Tasks, Remove(t)
      PROVE  TaskInHand'
  BY <1>36 DEF Remove, TaskInHand, job
<1>37. ASSUME NEW t \in Tasks, ReadForResubmit(t)
      PROVE  TaskInHand'
  BY <1>37 DEF ReadForResubmit, TaskInHand, job
<1>38. ASSUME NEW t \in Tasks, RemoveForResubmit(t)
      PROVE  TaskInHand'
  BY <1>38 DEF RemoveForResubmit, TaskInHand, job
<1>39. ASSUME NEW t \in Tasks, NEW u \in Tasks, SubmitAgain(t, u)
      PROVE  TaskInHand'
  BY <1>39 DEF SubmitAgain, TaskInHand
<1>40. ASSUME NEW t \in Tasks, ReportProgress(t)
      PROVE  TaskInHand'
  BY <1>40 DEF ReportProgress, TaskInHand, job
<1>41. ASSUME NEW t \in Tasks, Exit(t)
      PROVE  TaskInHand'
  BY <1>41 DEF Exit, TaskInHand, job
<1>42. ASSUME NEW t \in Tasks, RunLate(t)
      PROVE  TaskInHand'
  BY <1>42 DEF RunLate, TaskInHand, job
<1>43. ASSUME NEW t \in Tasks, BecomeOverdue(t)
      PROVE  TaskInHand'
  BY <1>43 DEF BecomeOverdue, TaskInHand, job
<1>44. ASSUME NEW t \in Tasks, WaitEnds(t)
      PROVE  TaskInHand'
  BY <1>44 DEF WaitEnds, TaskInHand
<1>45. ASSUME NEW t \in Tasks, WaitThrows(t)
      PROVE  TaskInHand'
  BY <1>45 DEF WaitThrows, TaskInHand, job
<1>46. ASSUME NEW t \in Tasks, StopSettles(t)
      PROVE  TaskInHand'
  BY <1>46 DEF StopSettles, TaskInHand, job
<1>47. CASE Boot
  BY <1>47 DEF Boot, TaskInHand
<1>48. CASE Tick
  BY <1>48 DEF Tick, TaskInHand
<1>49. CASE Crash
  BY <1>49 DEF Crash, TaskInHand
<1>50. CASE UNCHANGED vars
  BY <1>50 DEF TaskInHand, vars, job
<1> QED
  BY <1>1, <1>2, <1>3, <1>4, <1>5, <1>6, <1>7, <1>8, <1>9, <1>10, <1>11, <1>12, <1>13,
     <1>14, <1>15, <1>16, <1>17, <1>18, <1>19, <1>20, <1>21, <1>22, <1>23, <1>24, <1>25,
     <1>26, <1>27, <1>28, <1>29, <1>30, <1>31, <1>32, <1>33, <1>34, <1>35, <1>36, <1>37,
     <1>38, <1>39, <1>40, <1>41, <1>42, <1>43, <1>44, <1>45, <1>46, <1>47, <1>48, <1>49,
     <1>50 DEF Next, Supervise, UserCalls, Environment, CancelSteps, DispatchSteps,
     CollectSteps, ReconcileSteps, TimeoutSteps

(* What lives in the process, calls in flight and the bounds.              *)
LEMMA ProcessType ==
  ASSUME TypeOK, [Next]_vars
  PROVE  ProcessOK'
<1> USE DEF TypeOK
<1>1. CASE StartJob
  BY <1>1 DEF StartJob, ProcessOK, Goto, memory, calls, faults
<1>2. CASE StopQueued
  BY <1>2, HeadType DEF StopQueued, ProcessOK, IssueStop, memory, calls, faults
<1>3. CASE BootGoesOn
  BY <1>3 DEF BootGoesOn, ProcessOK, memory, calls, faults
<1>4. CASE JobFails
  BY <1>4, EndWatched DEF JobFails, ProcessOK, Goto, Return, MayFail, memory, calls, faults
<1>5. CASE CountRunning
  BY <1>5 DEF CountRunning, ProcessOK, Goto, memory, calls, faults
<1>6. CASE CountByUser
  BY <1>6 DEF CountByUser, ProcessOK, Goto, memory, calls, faults
<1>7. CASE Pick
  BY <1>7 DEF Pick, ProcessOK, Goto, memory, calls, faults
<1>8. CASE DispatchDone
  BY <1>8, EndWatched DEF DispatchDone, ProcessOK, Goto, Return, MayFail, memory, calls, faults
<1>9. CASE Activate
  BY <1>9 DEF Activate, ProcessOK, Goto, memory, calls, faults
<1>10. CASE Prepare
  BY <1>10 DEF Prepare, ProcessOK, Goto, MayFail, memory, calls, faults
<1>11. CASE Run
  BY <1>11 DEF Run, ProcessOK, Watched, memory, calls, faults
<1>12. CASE RunFails
  BY <1>12 DEF RunFails, ProcessOK, Goto, MayFail, memory, calls, faults
<1>13. CASE MarkFailed
  BY <1>13 DEF MarkFailed, ProcessOK, Goto, memory, calls, faults
<1>14. CASE Fetch
  BY <1>14 DEF Fetch, ProcessOK, Goto, memory, calls, faults
<1>15. CASE ReadResult
  BY <1>15 DEF ReadResult, ProcessOK, Goto, memory, calls, faults
<1>16. CASE Settle
  BY <1>16 DEF Settle, ProcessOK, Goto, memory, calls, faults
<1>17. CASE RemoveContainer
  BY <1>17 DEF RemoveContainer, ProcessOK, Goto, MayFail, memory, calls, faults
<1>18. CASE WipeWorkspace
  BY <1>18, EndWatched DEF WipeWorkspace, ProcessOK, Goto, Return, MayFail, memory, calls, faults
<1>19. CASE ListContainers
  BY <1>19 DEF ListContainers, ProcessOK, Goto, memory, calls, faults
<1>20. CASE ReadRunning
  BY <1>20 DEF ReadRunning, ProcessOK, Goto, memory, calls, faults
<1>21. CASE ReconcileDone
  BY <1>21, EndWatched DEF ReconcileDone, ProcessOK, Goto, Return, MayFail, memory, calls, faults
<1>22. ASSUME NEW t \in Tasks, ReconcileLost(t)
      PROVE  ProcessOK'
  BY <1>22 DEF ReconcileLost, ProcessOK, Goto, memory, calls, faults
<1>23. ASSUME NEW t \in Tasks, ReconcileRunning(t)
      PROVE  ProcessOK'
  BY <1>23 DEF ReconcileRunning, ProcessOK, IssueStop, Watched, memory, calls, faults
<1>24. ASSUME NEW t \in Tasks, ReconcileEnded(t)
      PROVE  ProcessOK'
  BY <1>24 DEF ReconcileEnded, ProcessOK, Goto, memory, calls, faults
<1>25. ASSUME NEW t \in Tasks, RemoveOrphan(t)
      PROVE  ProcessOK'
  BY <1>25, EndWatched DEF RemoveOrphan, ProcessOK, Goto, Return, MayFail, memory, calls, faults
<1>26. CASE ReadStalled
  BY <1>26 DEF ReadStalled, ProcessOK, Goto, memory, calls, faults
<1>27. CASE ReadCanceling
  BY <1>27 DEF ReadCanceling, ProcessOK, Goto, memory, calls, faults
<1>28. CASE TimeoutsDone
  BY <1>28, EndWatched DEF TimeoutsDone, ProcessOK, Goto, Return, MayFail, memory, calls, faults
<1>29. CASE Kill
  BY <1>29 DEF Kill, ProcessOK, Goto, memory, calls, faults
<1>30. ASSUME NEW t \in Tasks, FailStalled(t)
      PROVE  ProcessOK'
  BY <1>30 DEF FailStalled, ProcessOK, Goto, memory, calls, faults
<1>31. ASSUME NEW t \in Tasks, ForceCancel(t)
      PROVE  ProcessOK'
  BY <1>31 DEF ForceCancel, ProcessOK, Goto, memory, calls, faults
<1>32. ASSUME NEW t \in Tasks, Submit(t)
      PROVE  ProcessOK'
  BY <1>32 DEF Submit, ProcessOK, memory, calls, faults
<1>33. ASSUME NEW t \in Tasks, ReadForCancel(t)
      PROVE  ProcessOK'
  BY <1>33 DEF ReadForCancel, ProcessOK, memory, calls, faults
<1>34. ASSUME NEW t \in Tasks, CancelPending(t)
      PROVE  ProcessOK'
  BY <1>34 DEF CancelPending, ProcessOK, memory, calls, faults
<1>35. ASSUME NEW t \in Tasks, CancelRunning(t)
      PROVE  ProcessOK'
  BY <1>35 DEF CancelRunning, ProcessOK, memory, calls, faults
<1>36. ASSUME NEW t \in Tasks, Remove(t)
      PROVE  ProcessOK'
  BY <1>36 DEF Remove, ProcessOK, memory, calls, faults
<1>37. ASSUME NEW t \in Tasks, ReadForResubmit(t)
      PROVE  ProcessOK'
  BY <1>37 DEF ReadForResubmit, ProcessOK, memory, calls, faults
<1>38. ASSUME NEW t \in Tasks, RemoveForResubmit(t)
      PROVE  ProcessOK'
  BY <1>38 DEF RemoveForResubmit, ProcessOK, memory, calls, faults
<1>39. ASSUME NEW t \in Tasks, NEW u \in Tasks, SubmitAgain(t, u)
      PROVE  ProcessOK'
  BY <1>39 DEF SubmitAgain, ProcessOK, memory, calls, faults
<1>40. ASSUME NEW t \in Tasks, ReportProgress(t)
      PROVE  ProcessOK'
  BY <1>40 DEF ReportProgress, ProcessOK, memory, calls, faults
<1>41. ASSUME NEW t \in Tasks, Exit(t)
      PROVE  ProcessOK'
  BY <1>41 DEF Exit, ProcessOK, memory, calls, faults
<1>42. ASSUME NEW t \in Tasks, RunLate(t)
      PROVE  ProcessOK'
  BY <1>42 DEF RunLate, ProcessOK, memory, calls, faults
<1>43. ASSUME NEW t \in Tasks, BecomeOverdue(t)
      PROVE  ProcessOK'
  BY <1>43 DEF BecomeOverdue, ProcessOK, memory, calls, faults
<1>44. ASSUME NEW t \in Tasks, WaitEnds(t)
      PROVE  ProcessOK'
  BY <1>44 DEF WaitEnds, ProcessOK, memory, calls, faults
<1>45. ASSUME NEW t \in Tasks, WaitThrows(t)
      PROVE  ProcessOK'
  BY <1>45 DEF WaitThrows, ProcessOK, MayFail, memory, calls, faults
<1>46. ASSUME NEW t \in Tasks, StopSettles(t)
      PROVE  ProcessOK'
  BY <1>46 DEF StopSettles, ProcessOK, MayFail, memory, calls, faults
<1>47. CASE Boot
  BY <1>47 DEF Boot, ProcessOK, memory, calls, faults
<1>48. CASE Tick
  BY <1>48 DEF Tick, ProcessOK, memory, calls, faults
<1>49. CASE Crash
  BY <1>49 DEF Crash, ProcessOK, memory, calls, faults
<1>50. CASE UNCHANGED vars
  BY <1>50 DEF ProcessOK, vars, memory, calls, faults
<1> QED
  BY <1>1, <1>2, <1>3, <1>4, <1>5, <1>6, <1>7, <1>8, <1>9, <1>10, <1>11, <1>12, <1>13,
     <1>14, <1>15, <1>16, <1>17, <1>18, <1>19, <1>20, <1>21, <1>22, <1>23, <1>24, <1>25,
     <1>26, <1>27, <1>28, <1>29, <1>30, <1>31, <1>32, <1>33, <1>34, <1>35, <1>36, <1>37,
     <1>38, <1>39, <1>40, <1>41, <1>42, <1>43, <1>44, <1>45, <1>46, <1>47, <1>48, <1>49,
     <1>50 DEF Next, Supervise, UserCalls, Environment, CancelSteps, DispatchSteps,
     CollectSteps, ReconcileSteps, TimeoutSteps

(* TypeOK is an invariant.                                                 *)
THEOREM TypeCorrect == Spec => []TypeOK
<1>1. Init => TypeOK
  BY DEF Init, TypeOK, RowsOK, EngineOK, JobOK, TaskInHand, ProcessOK, Work0, Steps, States
<1>2. TypeOK /\ [Next]_vars => TypeOK'
  BY RowsType, EngineType, JobType, TaskInHandKept, ProcessType DEF TypeOK
<1> QED
  BY <1>1, <1>2, PTL DEF Spec

-----------------------------------------------------------------------------
(* Counting.                                                               *)

OwnedBy(S, u) == {t \in S : Owner[t] = u}

(* A task of a set counts one.                                             *)
LEMMA WithOne ==
  ASSUME NEW S \in SUBSET Tasks, NEW x \in Tasks
  PROVE  /\ x \in S => Cardinality(S) = Cardinality(S \ {x}) + 1
         /\ x \notin S => Cardinality(S \union {x}) = Cardinality(S) + 1
         /\ Cardinality(S) \in Nat /\ Cardinality(S \ {x}) \in Nat
<1>1. IsFiniteSet(S) /\ IsFiniteSet(S \ {x})
  BY TasksCount
<1>2. x \in S => Cardinality(S \ {x}) = Cardinality(S) - 1
  BY <1>1, FS_RemoveElement
<1>3. x \notin S => Cardinality(S \union {x}) = Cardinality(S) + 1
  BY <1>1, FS_AddElement
<1> QED
  BY <1>1, <1>2, <1>3, FS_CardinalityType

(* The tasks of one user among a set can be counted.                       *)
LEMMA OwnedCount ==
  ASSUME NEW S \in SUBSET Tasks, NEW u
  PROVE  OwnedBy(S, u) \in SUBSET Tasks /\ Cardinality(OwnedBy(S, u)) \in Nat
<1>1. OwnedBy(S, u) \in SUBSET Tasks
  BY DEF OwnedBy
<1> QED
  BY <1>1, TasksCount

(* And so among the tasks of its user, and of no other.                    *)
LEMMA OwnedWithOne ==
  ASSUME NEW S \in SUBSET Tasks, NEW x \in S, NEW u
  PROVE  Cardinality(OwnedBy(S, u)) =
           IF u = Owner[x] THEN Cardinality(OwnedBy(S \ {x}, u)) + 1 ELSE Cardinality(OwnedBy(S \ {x}, u))
<1>1. CASE u = Owner[x]
  <2>1. x \in OwnedBy(S, u) /\ OwnedBy(S \ {x}, u) = OwnedBy(S, u) \ {x}
    BY <1>1 DEF OwnedBy
  <2>2. Cardinality(OwnedBy(S, u)) = Cardinality(OwnedBy(S, u) \ {x}) + 1
    BY <2>1, OwnedCount, WithOne
  <2> QED
    BY <1>1, <2>1, <2>2
<1>2. CASE u # Owner[x]
  <2>1. OwnedBy(S \ {x}, u) = OwnedBy(S, u)
    BY <1>2 DEF OwnedBy
  <2> QED
    BY <1>2, <2>1
<1> QED
  BY <1>1, <1>2

-----------------------------------------------------------------------------
(* The limits.                                                             *)

CountInv == LimitsHold /\ CountKept

(* Rows that stay as they are stay within the limits.                      *)
LEMMA SameLimits ==
  ASSUME LimitsHold, UNCHANGED state
  PROVE  LimitsHold'
  BY DEF LimitsHold, RunningOf, Running

(* Tasks that stop running leave room.                                     *)
LEMMA FewerRunning ==
  ASSUME LimitsHold, Running' \in SUBSET Running
  PROVE  LimitsHold'
<1>1. \A S \in SUBSET Tasks : \A R \in SUBSET S : Cardinality(R) <= Cardinality(S)
  BY TasksCount, FS_Subset
<1>2. Running' \in SUBSET Tasks /\ Cardinality(Running') \in Nat /\ Cardinality(Running) \in Nat
  BY RunningCounts, TasksCount
<1>3. Cardinality(Running') <= MaxConcurrent
  BY <1>1, <1>2, RunningCounts, ConstantsAssumption DEF LimitsHold
<1>4. ASSUME NEW u \in Users
      PROVE  Cardinality(RunningOf(u)') <= MaxConcurrentPerUser
  <2>1. RunningOf(u)' \in SUBSET RunningOf(u)
    BY DEF RunningOf
  <2>2. RunningOf(u)' \in SUBSET Tasks
    BY <2>1, RunningCounts
  <2>3. Cardinality(RunningOf(u)') <= Cardinality(RunningOf(u)) /\ Cardinality(RunningOf(u)') \in Nat
    BY <1>1, <2>1, <2>2, RunningCounts, TasksCount
  <2> QED
    BY <2>3, RunningCounts, ConstantsAssumption DEF LimitsHold
<1> QED
  BY <1>3, <1>4 DEF LimitsHold

(* A call beside the job that neither starts nor ends a task.              *)
LEMMA SameCount ==
  ASSUME CountInv, UNCHANGED <<pc, work>>, \/ UNCHANGED state
           \/ \A t \in Tasks : state'[t] \in RunningStates <=> state[t] \in RunningStates,
         TypeOK
  PROVE  CountInv'
<1>1. Running' = Running
  BY DEF Running
<1>2. LimitsHold'
  BY <1>1 DEF CountInv, LimitsHold, RunningOf
<1>3. pc \in {"prepare", "run", "launchFailed"} => (state'[work.task] \in RunningStates <=> state[work.task] \in RunningStates)
  BY DEF TypeOK, TaskInHand
<1> QED
  BY <1>1, <1>2, <1>3 DEF CountInv, CountKept, Counted, Room

(* A row that is inserted is not one of a running task.                    *)
LEMMA InsertRunning ==
  ASSUME TypeOK, NEW x \in Tasks, state[x] = "none", Insert(x)
  PROVE  \A t \in Tasks : state'[t] \in RunningStates <=> state[t] \in RunningStates
  BY DEF TypeOK, RowsOK, Insert, RunningStates

(* Neither call that cancels starts or ends a task.                        *)
LEMMA CancelRunningSame ==
  ASSUME TypeOK, NEW x \in Tasks,
         Transition(x, {"PENDING"}, "CANCELED") \/ Transition(x, {"ACTIVE"}, "CANCELING")
  PROVE  \A t \in Tasks : state'[t] \in RunningStates <=> state[t] \in RunningStates
  BY DEF TypeOK, RowsOK, Transition, RunningStates

(* Every step keeps the limits and the count in hand.                        *)
LEMMA CountStep ==
  ASSUME TypeOK, ReadsHold, CountInv, [Next]_vars
  PROVE  CountInv'
<1>1. CASE StartJob
  <2>1. pc' \in {"count", "list", "stalled", "fetch"}
    BY <1>1 DEF StartJob, Goto, First
  <2> QED
    BY <1>1, <2>1, SameLimits DEF StartJob, rows, CountInv, CountKept
<1>2. CASE StopQueued
  BY <1>2, SameCount DEF StopQueued, rows, job
<1>3. CASE BootGoesOn
  BY <1>3, SameCount DEF BootGoesOn, rows, job
<1>4. CASE JobFails
  BY <1>4, SameLimits DEF JobFails, rows, EndJob, CountInv, CountKept
<1>5. CASE CountRunning
  <2>1. work'.free + Cardinality(Running) <= MaxConcurrent
    BY <1>5, RunningCounts, ConstantsAssumption DEF CountRunning, TypeOK, JobOK
  <2>2. Running' = Running
    BY <1>5 DEF CountRunning, rows, Running
  <2> QED
    BY <1>5, <2>1, <2>2, SameLimits DEF CountRunning, rows, Goto, CountInv, CountKept
<1>6. CASE CountByUser
  <2>1. Running' = Running /\ work'.free = work.free
    BY <1>6 DEF CountByUser, rows, Running, TypeOK, JobOK
  <2>2. work'.free + Cardinality(Running') <= MaxConcurrent
    BY <1>6, <2>1 DEF CountByUser, CountInv, CountKept
  <2>3. ASSUME NEW u \in Users
        PROVE  Cardinality({t \in Running' : Owner[t] = u}) <= work'.busy[u]
    <3>1. work'.busy[u] = Cardinality({t \in Running : Owner[t] = u})
      BY <1>6 DEF CountByUser, TypeOK, JobOK, RunningOf
    <3>2. Cardinality({t \in Running : Owner[t] = u}) \in Nat
      BY RunningCounts DEF RunningOf
    <3> QED
      BY <2>1, <3>1, <3>2
  <2>4. Counted(Running)'
    BY <2>2, <2>3 DEF Counted
  <2> QED
    BY <1>6, <2>4, SameLimits DEF CountByUser, rows, Goto, CountInv, CountKept
<1>7. CASE Pick
  <2>1. Running' = Running /\ state' = state
    BY <1>7 DEF Pick, rows, Running
  <2>2. PICK t \in Tasks : work' = [work EXCEPT !.task = t] /\ work.busy[Owner[t]] < MaxConcurrentPerUser
    BY <1>7 DEF Pick, Startable
  <2>3. work'.free = work.free /\ work'.busy = work.busy /\ work'.task = t
    BY <2>2 DEF TypeOK, JobOK
  <2>4. Counted(Running)'
    BY <1>7, <2>1, <2>3 DEF Pick, CountInv, CountKept, Counted
  <2>5. Room'
    BY <1>7, <2>2, <2>3 DEF Pick, Room
  <2> QED
    BY <1>7, <2>1, <2>4, <2>5, SameLimits DEF Pick, rows, Goto, CountInv, CountKept
<1>8. CASE DispatchDone
  BY <1>8, SameLimits DEF DispatchDone, rows, Goto, EndJob, CountInv, CountKept
<1>9. CASE Activate
  <2>0. work.task \in Tasks /\ Owner[work.task] \in Users
    BY <1>9, ConstantsAssumption DEF Activate, TypeOK, TaskInHand
  <2>1. CASE state[work.task] = "PENDING"
    <3>1. /\ work' = work /\ pc' = "prepare" /\ work.task \notin Running
          /\ Running' = Running \union {work.task} /\ state'[work.task] = "ACTIVE"
      BY <1>9, <2>0, <2>1 DEF Activate, Transition, Goto, Running, RunningStates, TypeOK, RowsOK
    <3>2. Counted(Running) /\ Room
      BY <1>9 DEF Activate, CountInv, CountKept
    <3>3. (Running \ {work.task})' = Running
      BY <3>1
    <3>4. Counted(Running \ {work.task})' /\ Room'
      BY <3>1, <3>2, <3>3 DEF Counted, Room
    <3>5. Cardinality(Running') <= MaxConcurrent
      <4>1. Cardinality(Running') = Cardinality(Running) + 1 /\ Cardinality(Running) \in Nat
        BY <2>0, <3>1, RunningCounts, WithOne
      <4>2. /\ work.free \in Int /\ work.free > 0
            /\ work.free + Cardinality(Running) <= MaxConcurrent
        BY <3>2 DEF Counted, Room, TypeOK, JobOK
      <4> QED
        BY <4>1, <4>2, ConstantsAssumption
    <3>6. ASSUME NEW u \in Users
          PROVE  Cardinality(OwnedBy(Running', u)) <= MaxConcurrentPerUser
      <4>1. Cardinality(OwnedBy(Running, u)) <= work.busy[u] /\ work.busy[u] \in Nat
        BY <3>2 DEF Counted, OwnedBy, TypeOK, JobOK
      <4>2. Cardinality(OwnedBy(Running, u)) <= MaxConcurrentPerUser
        BY DEF CountInv, LimitsHold, RunningOf, OwnedBy
      <4>3. u = Owner[work.task] => work.busy[u] < MaxConcurrentPerUser
        BY <3>2 DEF Room
      <4>4. Running' \ {work.task} = Running /\ work.task \in Running'
        BY <3>1
      <4>5. Running' \in SUBSET Tasks
        BY <2>0, <3>1, RunningCounts
      <4>6. Cardinality(OwnedBy(Running', u)) =
              IF u = Owner[work.task] THEN Cardinality(OwnedBy(Running, u)) + 1
              ELSE Cardinality(OwnedBy(Running, u))
        BY <4>4, <4>5, OwnedWithOne
      <4>7. Cardinality(OwnedBy(Running, u)) \in Nat
        BY OwnedCount, RunningCounts
      <4> QED
        BY <4>1, <4>2, <4>3, <4>6, <4>7, ConstantsAssumption
    <3>7. LimitsHold'
      BY <3>5, <3>6 DEF LimitsHold, RunningOf, OwnedBy
    <3> QED
      BY <3>1, <3>4, <3>7 DEF CountInv, CountKept, RunningStates
  <2>2. CASE state[work.task] # "PENDING"
    <3>1. Running' = Running /\ state' = state /\ work' = work /\ pc' = "pick"
      BY <1>9, <2>2 DEF Activate, Transition, Goto, Running
    <3>2. Counted(Running)'
      BY <1>9, <3>1 DEF Activate, CountInv, CountKept, Counted
    <3> QED
      BY <3>1, <3>2 DEF CountInv, CountKept, LimitsHold, RunningOf
  <2> QED
    BY <2>1, <2>2
<1>10. CASE Prepare
  <2>1. Running' = Running /\ state' = state /\ work' = work
    BY <1>10 DEF Prepare, rows, Running
  <2>2. Counted(Running \ {work.task})' /\ Room'
    BY <1>10, <2>1 DEF Prepare, CountInv, CountKept, Counted, Room
  <2> QED
    BY <1>10, <2>1, <2>2, SameLimits DEF Prepare, rows, Goto, CountInv, CountKept
<1>11. CASE Run
  <2>1. Running' = Running /\ state' = state
    BY <1>11 DEF Run, rows, Running
  <2>2. work.task \in Running /\ Owner[work.task] \in Users
    BY <1>11, ConstantsAssumption DEF Run, CountInv, CountKept, TypeOK, TaskInHand, Running
  <2>3. Counted(Running \ {work.task})
    BY <1>11 DEF Run, CountInv, CountKept
  <2>4. work'.free = work.free - 1
    BY <1>11 DEF Run, TypeOK, JobOK
  <2>5. \A u \in Users : work'.busy[u] = IF u = Owner[work.task] THEN work.busy[u] + 1 ELSE work.busy[u]
    BY <1>11, <2>2 DEF Run, TypeOK, JobOK
  <2>6. work'.free + Cardinality(Running) <= MaxConcurrent
    <3>1. /\ Cardinality(Running) = Cardinality(Running \ {work.task}) + 1
          /\ Cardinality(Running \ {work.task}) \in Nat
      BY <2>2, RunningCounts, WithOne
    <3>2. work.free \in Int /\ work.free + Cardinality(Running \ {work.task}) <= MaxConcurrent
      BY <2>3 DEF Counted, TypeOK, JobOK
    <3> QED
      BY <2>4, <3>1, <3>2, ConstantsAssumption
  <2>7. ASSUME NEW u \in Users
        PROVE  Cardinality(OwnedBy(Running, u)) <= work'.busy[u]
    <3>1. Cardinality(OwnedBy(Running \ {work.task}, u)) <= work.busy[u]
      BY <2>3 DEF Counted, OwnedBy
    <3>2. Cardinality(OwnedBy(Running, u)) =
            IF u = Owner[work.task] THEN Cardinality(OwnedBy(Running \ {work.task}, u)) + 1
            ELSE Cardinality(OwnedBy(Running \ {work.task}, u))
      BY <2>2, RunningCounts, OwnedWithOne
    <3>3. Cardinality(OwnedBy(Running \ {work.task}, u)) \in Nat /\ work.busy[u] \in Nat
      BY OwnedCount, RunningCounts DEF TypeOK, JobOK
    <3> QED
      BY <2>5, <3>1, <3>2, <3>3
  <2>8. Counted(Running)'
    BY <2>1, <2>6, <2>7 DEF Counted, OwnedBy
  <2> QED
    BY <1>11, <2>1, <2>8, SameLimits DEF Run, rows, CountInv, CountKept
<1>12. CASE RunFails
  <2>1. Running' = Running /\ state' = state /\ work' = work
    BY <1>12 DEF RunFails, rows, Running
  <2>2. Counted(Running \ {work.task})' /\ Room'
    BY <1>12, <2>1 DEF RunFails, CountInv, CountKept, Counted, Room
  <2> QED
    BY <1>12, <2>1, <2>2, SameLimits DEF RunFails, rows, Goto, CountInv, CountKept
<1>13. CASE MarkFailed
  <2>1. work.task \in Tasks /\ state[work.task] \in RunningStates /\ Counted(Running \ {work.task})
    BY <1>13 DEF MarkFailed, CountInv, CountKept, TypeOK, TaskInHand
  <2>2. Running' = Running \ {work.task}
    BY <1>13, <2>1 DEF MarkFailed, Transition, Running, RunningStates, TypeOK, RowsOK
  <2>3. work'.free = work.free /\ work'.busy = work.busy /\ pc' = "remove"
    BY <1>13 DEF MarkFailed, Goto, TypeOK, JobOK
  <2>4. Counted(Running)'
    BY <2>1, <2>2, <2>3 DEF Counted
  <2>5. LimitsHold'
    BY <2>2, FewerRunning DEF CountInv
  <2> QED
    BY <2>3, <2>4, <2>5 DEF CountInv, CountKept
<1>14. CASE Fetch
  BY <1>14, SameLimits DEF Fetch, rows, Goto, CountInv, CountKept, TypeOK, JobOK
<1>15. CASE ReadResult
  BY <1>15, SameLimits DEF ReadResult, rows, Goto, CountInv, CountKept, TypeOK, JobOK
<1>16. CASE Settle
  <2>1. Running' \in SUBSET Running
    <3>1. work.task \in Tasks /\ work.verdict \in FinishedStates
      BY <1>16 DEF Settle, TypeOK, TaskInHand, ReadsHold
    <3>2. \A x \in Tasks : state'[x] \in RunningStates => state[x] \in RunningStates
      BY <1>16, <3>1 DEF Settle, Transition, Interrupted, RunningStates, FinishedStates,
         TypeOK, RowsOK
    <3> QED
      BY <3>2 DEF Running
  <2>2. LimitsHold'
    BY <2>1, FewerRunning DEF CountInv
  <2> QED
    BY <1>16, <2>2 DEF Settle, Goto, CountInv, CountKept, TypeOK, JobOK
<1>17. CASE RemoveContainer
  <2>1. Running' = Running /\ work'.free = work.free /\ work'.busy = work.busy
    BY <1>17 DEF RemoveContainer, rows, Running, TypeOK, JobOK
  <2>2. work'.back = "pick" => work.back = "pick"
    BY <1>17 DEF RemoveContainer, TypeOK, JobOK
  <2>3. work'.back = "pick" => Counted(Running)'
    BY <1>17, <2>1, <2>2 DEF RemoveContainer, CountInv, CountKept, Counted
  <2> QED
    BY <1>17, <2>3, SameLimits DEF RemoveContainer, rows, Goto, CountInv, CountKept
<1>18. CASE WipeWorkspace
  <2>1. CASE work.back = "idle"
    BY <1>18, <2>1, SameLimits DEF WipeWorkspace, rows, Return, EndJob, CountInv, CountKept
  <2>2. CASE work.back # "idle"
    <3>1. /\ Running' = Running /\ pc' = work.back
          /\ work'.free = work.free /\ work'.busy = work.busy
      BY <1>18, <2>2 DEF WipeWorkspace, rows, Running, Return, Goto, TypeOK, JobOK
    <3>2. pc' = "pick" => Counted(Running)'
      BY <1>18, <3>1 DEF WipeWorkspace, CountInv, CountKept, Counted
    <3>3. pc' \in {"pick", "count", "reconcile", "fail", "force"}
      BY <2>2, <3>1 DEF TypeOK, JobOK
    <3> QED
      BY <1>18, <3>2, <3>3, SameLimits DEF WipeWorkspace, rows, CountInv, CountKept
  <2> QED
    BY <2>1, <2>2
<1>19. CASE ListContainers
  BY <1>19, SameLimits DEF ListContainers, rows, Goto, CountInv, CountKept, TypeOK, JobOK
<1>20. CASE ReadRunning
  BY <1>20, SameLimits DEF ReadRunning, rows, Goto, CountInv, CountKept, TypeOK, JobOK
<1>21. CASE ReconcileDone
  BY <1>21, SameLimits DEF ReconcileDone, rows, EndJob, CountInv, CountKept
<1>22. ASSUME NEW t \in Tasks, ReconcileLost(t)
      PROVE  CountInv'
  <2>1. Running' \in SUBSET Running
    <3>1. t \in Tasks
      BY <1>22 DEF ReconcileLost, TypeOK, TaskInHand, ReadsHold
    <3>2. \A x \in Tasks : state'[x] \in RunningStates => state[x] \in RunningStates
      BY <1>22, <3>1
         DEF ReconcileLost, Transition, Interrupted, RunningStates, FinishedStates, TypeOK,
             RowsOK
    <3> QED
      BY <3>2 DEF Running
  <2>2. LimitsHold'
    BY <2>1, FewerRunning DEF CountInv
  <2> QED
    BY <1>22, <2>2 DEF ReconcileLost, Goto, CountInv, CountKept, TypeOK, JobOK
<1>23. ASSUME NEW t \in Tasks, ReconcileRunning(t)
      PROVE  CountInv'
  BY <1>23, SameLimits DEF ReconcileRunning, rows, Goto, CountInv, CountKept, TypeOK, JobOK
<1>24. ASSUME NEW t \in Tasks, ReconcileEnded(t)
      PROVE  CountInv'
  BY <1>24, SameLimits DEF ReconcileEnded, rows, Goto, CountInv, CountKept, TypeOK, JobOK
<1>25. ASSUME NEW t \in Tasks, RemoveOrphan(t)
      PROVE  CountInv'
  BY <1>25, SameLimits DEF RemoveOrphan, rows, Goto, EndJob, CountInv, CountKept, TypeOK, JobOK
<1>26. CASE ReadStalled
  BY <1>26, SameLimits DEF ReadStalled, rows, Goto, CountInv, CountKept, TypeOK, JobOK
<1>27. CASE ReadCanceling
  BY <1>27, SameLimits DEF ReadCanceling, rows, Goto, CountInv, CountKept, TypeOK, JobOK
<1>28. CASE TimeoutsDone
  BY <1>28, SameLimits DEF TimeoutsDone, rows, EndJob, CountInv, CountKept
<1>29. CASE Kill
  <2>1. Running' = Running /\ work' = work
    BY <1>29 DEF Kill, rows, Running
  <2>2. work'.back = "pick" => Counted(Running)'
    BY <1>29, <2>1 DEF Kill, CountInv, CountKept, Counted
  <2> QED
    BY <1>29, <2>2, SameLimits DEF Kill, rows, Goto, CountInv, CountKept
<1>30. ASSUME NEW t \in Tasks, FailStalled(t)
      PROVE  CountInv'
  <2>1. Running' \in SUBSET Running
    <3>1. t \in Tasks
      BY <1>30 DEF FailStalled, TypeOK, TaskInHand, ReadsHold
    <3>2. \A x \in Tasks : state'[x] \in RunningStates => state[x] \in RunningStates
      BY <1>30, <3>1
         DEF FailStalled, Transition, Interrupted, RunningStates, FinishedStates, TypeOK,
             RowsOK
    <3> QED
      BY <3>2 DEF Running
  <2>2. LimitsHold'
    BY <2>1, FewerRunning DEF CountInv
  <2> QED
    BY <1>30, <2>2 DEF FailStalled, Goto, CountInv, CountKept, TypeOK, JobOK
<1>31. ASSUME NEW t \in Tasks, ForceCancel(t)
      PROVE  CountInv'
  <2>1. Running' \in SUBSET Running
    <3>1. t \in Tasks
      BY <1>31 DEF ForceCancel, TypeOK, TaskInHand, ReadsHold
    <3>2. \A x \in Tasks : state'[x] \in RunningStates => state[x] \in RunningStates
      BY <1>31, <3>1
         DEF ForceCancel, Transition, Interrupted, RunningStates, FinishedStates, TypeOK,
             RowsOK
    <3> QED
      BY <3>2 DEF Running
  <2>2. LimitsHold'
    BY <2>1, FewerRunning DEF CountInv
  <2> QED
    BY <1>31, <2>2 DEF ForceCancel, Goto, CountInv, CountKept, TypeOK, JobOK
<1>32. ASSUME NEW t \in Tasks, Submit(t)
      PROVE  CountInv'
  BY <1>32, InsertRunning, SameCount DEF Submit
<1>33. ASSUME NEW t \in Tasks, ReadForCancel(t)
      PROVE  CountInv'
  BY <1>33, SameCount DEF ReadForCancel, rows, job
<1>34. ASSUME NEW t \in Tasks, CancelPending(t)
      PROVE  CountInv'
  BY <1>34, CancelRunningSame, SameCount DEF CancelPending, job
<1>35. ASSUME NEW t \in Tasks, CancelRunning(t)
      PROVE  CountInv'
  BY <1>35, CancelRunningSame, SameCount DEF CancelRunning
<1>36. ASSUME NEW t \in Tasks, Remove(t)
      PROVE  CountInv'
  BY <1>36, SameCount DEF Remove, rows, job
<1>37. ASSUME NEW t \in Tasks, ReadForResubmit(t)
      PROVE  CountInv'
  BY <1>37, SameCount DEF ReadForResubmit, rows, job
<1>38. ASSUME NEW t \in Tasks, RemoveForResubmit(t)
      PROVE  CountInv'
  BY <1>38, SameCount DEF RemoveForResubmit, rows, job
<1>39. ASSUME NEW t \in Tasks, NEW u \in Tasks, SubmitAgain(t, u)
      PROVE  CountInv'
  BY <1>39, InsertRunning, SameCount DEF SubmitAgain
<1>40. ASSUME NEW t \in Tasks, ReportProgress(t)
      PROVE  CountInv'
  BY <1>40, SameCount DEF ReportProgress, rows, job
<1>41. ASSUME NEW t \in Tasks, Exit(t)
      PROVE  CountInv'
  BY <1>41, SameCount DEF Exit, rows, job
<1>42. ASSUME NEW t \in Tasks, RunLate(t)
      PROVE  CountInv'
  BY <1>42, SameCount DEF RunLate, rows, job
<1>43. ASSUME NEW t \in Tasks, BecomeOverdue(t)
      PROVE  CountInv'
  BY <1>43, SameCount DEF BecomeOverdue, rows, job
<1>44. ASSUME NEW t \in Tasks, WaitEnds(t)
      PROVE  CountInv'
  BY <1>44, SameCount DEF WaitEnds, rows, job
<1>45. ASSUME NEW t \in Tasks, WaitThrows(t)
      PROVE  CountInv'
  BY <1>45, SameCount DEF WaitThrows, rows, job
<1>46. ASSUME NEW t \in Tasks, StopSettles(t)
      PROVE  CountInv'
  BY <1>46, SameCount DEF StopSettles, rows, job
<1>47. CASE Boot
  BY <1>47, SameCount DEF Boot, rows, job
<1>48. CASE Tick
  BY <1>48, SameCount DEF Tick, rows, job
<1>49. CASE Crash
  BY <1>49, SameLimits DEF Crash, rows, CountInv, CountKept
<1>50. CASE UNCHANGED vars
  BY <1>50, SameCount DEF vars, rows, job
<1> QED
  BY <1>1, <1>2, <1>3, <1>4, <1>5, <1>6, <1>7, <1>8, <1>9, <1>10, <1>11, <1>12, <1>13, <1>14,
     <1>15, <1>16, <1>17, <1>18, <1>19, <1>20, <1>21, <1>22, <1>23, <1>24, <1>25, <1>26, <1>27,
     <1>28, <1>29, <1>30, <1>31, <1>32, <1>33, <1>34, <1>35, <1>36, <1>37, <1>38, <1>39, <1>40,
     <1>41, <1>42, <1>43, <1>44, <1>45, <1>46, <1>47, <1>48, <1>49, <1>50
     DEF Next, Supervise, UserCalls, Environment, CancelSteps, DispatchSteps, CollectSteps,
         ReconcileSteps, TimeoutSteps

-----------------------------------------------------------------------------
(* The lifecycle.                                                          *)

(* The lifecycle counts as the supervisor does.                            *)
LEMMA SameCardinality == \A S : Lifecycle!Cardinality(S) = Cardinality(S)
BY DEF Cardinality, Lifecycle!Cardinality

(* Both have the same tasks running.                                       *)
LEMMA SameRunning ==
  /\ Lifecycle!RunningIn(state) = Running
  /\ \A u : Lifecycle!RunningOf(state, u) = OwnedBy(Running, u)
BY DEF Lifecycle!RunningIn, Lifecycle!RunningOf, Lifecycle!RunningStates, Running,
   RunningStates, OwnedBy

(* Every step of the supervisor, its users and its containers is a step of *)
(* TaskLifecycle or leaves the rows alone: dispatch launches within the    *)
(* limits because its count is kept, and a verdict is CANCELED only if the *)
(* row was read as CANCELING.                                              *)
LEMMA LifecycleStep ==
  ASSUME TypeOK, ReadsHold, CountInv, [Next]_vars
  PROVE  [Lifecycle!Next]_Lifecycle!vars
<1>1. CASE StartJob
  BY <1>1 DEF StartJob, rows, calls, Lifecycle!vars
<1>2. CASE StopQueued
  BY <1>2 DEF StopQueued, rows, calls, Lifecycle!vars
<1>3. CASE BootGoesOn
  BY <1>3 DEF BootGoesOn, rows, calls, Lifecycle!vars
<1>4. CASE JobFails
  BY <1>4 DEF JobFails, rows, calls, Lifecycle!vars
<1>5. CASE CountRunning
  BY <1>5 DEF CountRunning, rows, calls, Lifecycle!vars
<1>6. CASE CountByUser
  BY <1>6 DEF CountByUser, rows, calls, Lifecycle!vars
<1>7. CASE Pick
  BY <1>7 DEF Pick, rows, calls, Lifecycle!vars
<1>8. CASE DispatchDone
  BY <1>8 DEF DispatchDone, rows, calls, Lifecycle!vars
<1>9. CASE Activate
  <2>1. CASE state[work.task] = "PENDING"
    <3>1. work.task \in Tasks /\ Counted(Running) /\ Room
      BY <1>9 DEF Activate, CountInv, CountKept, TypeOK, TaskInHand
    <3>2. /\ Cardinality(Running) \in Nat
          /\ work.free \in Int /\ work.free > 0 /\ work.free + Cardinality(Running) <= MaxConcurrent
      BY <3>1, RunningCounts DEF Counted, Room, TypeOK, JobOK
    <3>3. Cardinality(Lifecycle!RunningIn(state)) < MaxConcurrent
      BY <3>2, SameRunning, ConstantsAssumption
    <3>4. /\ Owner[work.task] \in Users /\ Cardinality(OwnedBy(Running, Owner[work.task])) \in Nat
          /\ Cardinality(OwnedBy(Running, Owner[work.task])) <= work.busy[Owner[work.task]]
          /\ work.busy[Owner[work.task]] \in Nat
          /\ work.busy[Owner[work.task]] < MaxConcurrentPerUser
      <4>1. Owner[work.task] \in Users
        BY <3>1, ConstantsAssumption
      <4>2. Cardinality(OwnedBy(Running, Owner[work.task])) \in Nat
        BY OwnedCount, RunningCounts
      <4>3. Cardinality(OwnedBy(Running, Owner[work.task])) <= work.busy[Owner[work.task]]
        BY <3>1, <4>1 DEF Counted, OwnedBy
      <4>4. work.busy[Owner[work.task]] \in Nat
        BY <4>1 DEF TypeOK, JobOK
      <4> QED
        BY <3>1, <4>1, <4>2, <4>3, <4>4 DEF Room
    <3>5. Cardinality(Lifecycle!RunningOf(state, Owner[work.task])) < MaxConcurrentPerUser
      BY <3>4, SameRunning, ConstantsAssumption
    <3>6. Lifecycle!Launch(work.task)
      <4>1. state' = [state EXCEPT ![work.task] = "ACTIVE"] /\ UNCHANGED <<removed, asked>>
        BY <1>9, <2>1 DEF Activate, Transition, calls
      <4> QED
        BY <2>1, <3>3, <3>5, <4>1, SameCardinality DEF Lifecycle!Launch, Lifecycle!Become
    <3> QED
      BY <3>1, <3>6 DEF Lifecycle!Next
  <2>2. CASE state[work.task] # "PENDING"
    BY <1>9, <2>2 DEF Activate, Transition, calls, Lifecycle!vars
  <2> QED
    BY <2>1, <2>2
<1>10. CASE Prepare
  BY <1>10 DEF Prepare, rows, calls, Lifecycle!vars
<1>11. CASE Run
  BY <1>11 DEF Run, rows, calls, Lifecycle!vars
<1>12. CASE RunFails
  BY <1>12 DEF RunFails, rows, calls, Lifecycle!vars
<1>13. CASE MarkFailed
  <2>1. work.task \in Tasks
    BY <1>13 DEF MarkFailed, TypeOK, TaskInHand
  <2>2. CASE state[work.task] \in RunningStates
    <3>1. Lifecycle!End(work.task)
      BY <1>13, <2>1, <2>2
         DEF MarkFailed, Transition, Interrupted, Canceled, RunningStates, FinishedStates, calls, Lifecycle!End,
             Lifecycle!Become, Lifecycle!RunningStates, Lifecycle!FinishedStates
    <3> QED
      BY <2>1, <3>1 DEF Lifecycle!Next
  <2>3. CASE state[work.task] \notin RunningStates
    BY <1>13, <2>3 DEF MarkFailed, Transition, calls, Lifecycle!vars
  <2> QED
    BY <2>2, <2>3
<1>14. CASE Fetch
  BY <1>14 DEF Fetch, rows, calls, Lifecycle!vars
<1>15. CASE ReadResult
  BY <1>15 DEF ReadResult, rows, calls, Lifecycle!vars
<1>16. CASE Settle
  <2>1. /\ work.task \in Tasks /\ work.verdict \in FinishedStates
        /\ work.verdict = "CANCELED" => Canceled(work.task)
    BY <1>16 DEF Settle, TypeOK, TaskInHand, ReadsHold
  <2>2. CASE state[work.task] \in RunningStates
    <3>1. Lifecycle!End(work.task)
      BY <1>16, <2>1, <2>2
         DEF Settle, Transition, Interrupted, Canceled, RunningStates, FinishedStates, calls, Lifecycle!End,
             Lifecycle!Become, Lifecycle!RunningStates, Lifecycle!FinishedStates
    <3> QED
      BY <2>1, <3>1 DEF Lifecycle!Next
  <2>3. CASE state[work.task] \notin RunningStates
    BY <1>16, <2>3 DEF Settle, Transition, calls, Lifecycle!vars
  <2> QED
    BY <2>2, <2>3
<1>17. CASE RemoveContainer
  BY <1>17 DEF RemoveContainer, rows, calls, Lifecycle!vars
<1>18. CASE WipeWorkspace
  BY <1>18 DEF WipeWorkspace, rows, calls, Lifecycle!vars
<1>19. CASE ListContainers
  BY <1>19 DEF ListContainers, rows, calls, Lifecycle!vars
<1>20. CASE ReadRunning
  BY <1>20 DEF ReadRunning, rows, calls, Lifecycle!vars
<1>21. CASE ReconcileDone
  BY <1>21 DEF ReconcileDone, rows, calls, Lifecycle!vars
<1>22. ASSUME NEW t \in Tasks, ReconcileLost(t)
       PROVE  [Lifecycle!Next]_Lifecycle!vars
  <2>1. t \in Tasks /\ (work.seen[t] = "CANCELING" => Canceled(t))
    BY <1>22 DEF ReadsHold
  <2>2. CASE state[t] \in RunningStates
    <3>1. Lifecycle!End(t)
      BY <1>22, <2>1, <2>2
         DEF ReconcileLost, Transition, Interrupted, Canceled, RunningStates, FinishedStates, calls, Lifecycle!End,
             Lifecycle!Become, Lifecycle!RunningStates, Lifecycle!FinishedStates
    <3> QED
      BY <2>1, <3>1 DEF Lifecycle!Next
  <2>3. CASE state[t] \notin RunningStates
    BY <1>22, <2>3 DEF ReconcileLost, Transition, calls, Lifecycle!vars
  <2> QED
    BY <2>2, <2>3
<1>23. ASSUME NEW t \in Tasks, ReconcileRunning(t)
       PROVE  [Lifecycle!Next]_Lifecycle!vars
  BY <1>23 DEF ReconcileRunning, rows, calls, Lifecycle!vars
<1>24. ASSUME NEW t \in Tasks, ReconcileEnded(t)
       PROVE  [Lifecycle!Next]_Lifecycle!vars
  BY <1>24 DEF ReconcileEnded, rows, calls, Lifecycle!vars
<1>25. ASSUME NEW t \in Tasks, RemoveOrphan(t)
       PROVE  [Lifecycle!Next]_Lifecycle!vars
  BY <1>25 DEF RemoveOrphan, rows, calls, Lifecycle!vars
<1>26. CASE ReadStalled
  BY <1>26 DEF ReadStalled, rows, calls, Lifecycle!vars
<1>27. CASE ReadCanceling
  BY <1>27 DEF ReadCanceling, rows, calls, Lifecycle!vars
<1>28. CASE TimeoutsDone
  BY <1>28 DEF TimeoutsDone, rows, calls, Lifecycle!vars
<1>29. CASE Kill
  BY <1>29 DEF Kill, rows, calls, Lifecycle!vars
<1>30. ASSUME NEW t \in Tasks, FailStalled(t)
       PROVE  [Lifecycle!Next]_Lifecycle!vars
  <2>1. t \in Tasks
    BY <1>30 DEF FailStalled
  <2>2. CASE state[t] \in {"ACTIVE"}
    <3>1. Lifecycle!End(t)
      BY <1>30, <2>1, <2>2
         DEF FailStalled, Transition, Interrupted, Canceled, RunningStates, FinishedStates, calls, Lifecycle!End,
             Lifecycle!Become, Lifecycle!RunningStates, Lifecycle!FinishedStates
    <3> QED
      BY <2>1, <3>1 DEF Lifecycle!Next
  <2>3. CASE state[t] \notin {"ACTIVE"}
    BY <1>30, <2>3 DEF FailStalled, Transition, calls, Lifecycle!vars
  <2> QED
    BY <2>2, <2>3
<1>31. ASSUME NEW t \in Tasks, ForceCancel(t)
       PROVE  [Lifecycle!Next]_Lifecycle!vars
  <2>1. t \in Tasks
    BY <1>31 DEF ForceCancel
  <2>2. CASE state[t] \in {"CANCELING"}
    <3>1. Lifecycle!End(t)
      BY <1>31, <2>1, <2>2
         DEF ForceCancel, Transition, Interrupted, Canceled, RunningStates, FinishedStates, calls, Lifecycle!End,
             Lifecycle!Become, Lifecycle!RunningStates, Lifecycle!FinishedStates
    <3> QED
      BY <2>1, <3>1 DEF Lifecycle!Next
  <2>3. CASE state[t] \notin {"CANCELING"}
    BY <1>31, <2>3 DEF ForceCancel, Transition, calls, Lifecycle!vars
  <2> QED
    BY <2>2, <2>3
<1>32. ASSUME NEW t \in Tasks, Submit(t)
       PROVE  [Lifecycle!Next]_Lifecycle!vars
  <2>1. Lifecycle!Submit(t)
    BY <1>32 DEF Submit, Insert, calls, Lifecycle!Submit, Lifecycle!Become
  <2> QED
    BY <2>1 DEF Lifecycle!Next
<1>33. ASSUME NEW t \in Tasks, ReadForCancel(t)
       PROVE  [Lifecycle!Next]_Lifecycle!vars
  <2>1. Lifecycle!Ask(t)
    BY <1>33 DEF ReadForCancel, rows, Lifecycle!Ask
  <2> QED
    BY <2>1 DEF Lifecycle!Next
<1>34. ASSUME NEW t \in Tasks, CancelPending(t)
       PROVE  [Lifecycle!Next]_Lifecycle!vars
  <2>1. CASE state[t] = "PENDING"
    <3>1. Lifecycle!Cancel(t)
      BY <1>34, <2>1 DEF CancelPending, Transition, ReadsHold, Lifecycle!Cancel, Lifecycle!Become
    <3> QED
      BY <3>1 DEF Lifecycle!Next
  <2>2. CASE state[t] # "PENDING"
    BY <1>34, <2>2 DEF CancelPending, Transition, Lifecycle!vars
  <2> QED
    BY <2>1, <2>2
<1>35. ASSUME NEW t \in Tasks, CancelRunning(t)
       PROVE  [Lifecycle!Next]_Lifecycle!vars
  <2>1. CASE state[t] = "ACTIVE"
    <3>1. Lifecycle!Cancel(t)
      BY <1>35, <2>1 DEF CancelRunning, Transition, ReadsHold, Lifecycle!Cancel, Lifecycle!Become
    <3> QED
      BY <3>1 DEF Lifecycle!Next
  <2>2. CASE state[t] # "ACTIVE"
    BY <1>35, <2>2 DEF CancelRunning, Transition, Lifecycle!vars
  <2> QED
    BY <2>1, <2>2
<1>36. ASSUME NEW t \in Tasks, Remove(t)
       PROVE  [Lifecycle!Next]_Lifecycle!vars
  <2>1. Lifecycle!Remove(t)
    BY <1>36 DEF Remove, Finished, calls, FinishedStates, Lifecycle!Remove, Lifecycle!FinishedStates
  <2> QED
    BY <2>1 DEF Lifecycle!Next
<1>37. ASSUME NEW t \in Tasks, ReadForResubmit(t)
       PROVE  [Lifecycle!Next]_Lifecycle!vars
  BY <1>37 DEF ReadForResubmit, rows, calls, Lifecycle!vars
<1>38. ASSUME NEW t \in Tasks, RemoveForResubmit(t)
       PROVE  [Lifecycle!Next]_Lifecycle!vars
  <2>1. CASE t \in removed
    BY <1>38, <2>1 DEF RemoveForResubmit, Lifecycle!vars
  <2>2. CASE t \notin removed
    <3>1. Lifecycle!Remove(t)
      BY <1>38, <2>2
         DEF RemoveForResubmit, ReadsHold, Finished, FinishedStates, Lifecycle!Remove, Lifecycle!FinishedStates
    <3> QED
      BY <3>1 DEF Lifecycle!Next
  <2> QED
    BY <2>1, <2>2
<1>39. ASSUME NEW t \in Tasks, NEW u \in Tasks, SubmitAgain(t, u)
       PROVE  [Lifecycle!Next]_Lifecycle!vars
  <2>1. Lifecycle!Submit(u)
    BY <1>39 DEF SubmitAgain, Insert, Lifecycle!Submit, Lifecycle!Become
  <2> QED
    BY <2>1 DEF Lifecycle!Next
<1>40. ASSUME NEW t \in Tasks, ReportProgress(t)
       PROVE  [Lifecycle!Next]_Lifecycle!vars
  BY <1>40 DEF ReportProgress, rows, calls, Lifecycle!vars
<1>41. ASSUME NEW t \in Tasks, Exit(t)
       PROVE  [Lifecycle!Next]_Lifecycle!vars
  BY <1>41 DEF Exit, rows, calls, Lifecycle!vars
<1>42. ASSUME NEW t \in Tasks, RunLate(t)
       PROVE  [Lifecycle!Next]_Lifecycle!vars
  BY <1>42 DEF RunLate, rows, calls, Lifecycle!vars
<1>43. ASSUME NEW t \in Tasks, BecomeOverdue(t)
       PROVE  [Lifecycle!Next]_Lifecycle!vars
  BY <1>43 DEF BecomeOverdue, rows, calls, Lifecycle!vars
<1>44. ASSUME NEW t \in Tasks, WaitEnds(t)
       PROVE  [Lifecycle!Next]_Lifecycle!vars
  BY <1>44 DEF WaitEnds, rows, calls, Lifecycle!vars
<1>45. ASSUME NEW t \in Tasks, WaitThrows(t)
       PROVE  [Lifecycle!Next]_Lifecycle!vars
  BY <1>45 DEF WaitThrows, rows, calls, Lifecycle!vars
<1>46. ASSUME NEW t \in Tasks, StopSettles(t)
       PROVE  [Lifecycle!Next]_Lifecycle!vars
  BY <1>46 DEF StopSettles, rows, calls, Lifecycle!vars
<1>47. CASE Boot
  BY <1>47 DEF Boot, rows, calls, Lifecycle!vars
<1>48. CASE Tick
  BY <1>48 DEF Tick, rows, calls, Lifecycle!vars
<1>49. CASE Crash
  BY <1>49 DEF Crash, rows, calls, Lifecycle!vars
<1>50. CASE UNCHANGED vars
  BY <1>50 DEF vars, rows, calls, Lifecycle!vars
<1> QED
  BY <1>1, <1>2, <1>3, <1>4, <1>5, <1>6, <1>7, <1>8, <1>9, <1>10, <1>11, <1>12, <1>13,
     <1>14, <1>15, <1>16, <1>17, <1>18, <1>19, <1>20, <1>21, <1>22, <1>23, <1>24,
     <1>25, <1>26, <1>27, <1>28, <1>29, <1>30, <1>31, <1>32, <1>33, <1>34, <1>35,
     <1>36, <1>37, <1>38, <1>39, <1>40, <1>41, <1>42, <1>43, <1>44, <1>45, <1>46,
     <1>47, <1>48, <1>49, <1>50
     DEF Next, Supervise, UserCalls, Environment, CancelSteps, DispatchSteps, CollectSteps,
         ReconcileSteps, TimeoutSteps

(* What a step leaves true of a task: it exists, it has ended, it is being *)
(* canceled or has ended, and somebody asked for it.                       *)
KeepsPast(t) ==
  /\ state[t] # "none" => state'[t] # "none"
  /\ Finished(t) => state'[t] = state[t]
  /\ Canceled(t) => Canceled(t)'
  /\ t \in asked => t \in asked'
  /\ state'[t] \in {"CANCELING", "CANCELED"} => state[t] \in {"CANCELING", "CANCELED"} \/ t \in asked

(* Every step of the lifecycle does.                                       *)
LEMMA NoWayBack ==
  ASSUME TypeOK, [Lifecycle!Next]_Lifecycle!vars, NEW t \in Tasks
  PROVE  KeepsPast(t)
<1>1. ASSUME NEW x \in Tasks, Lifecycle!Submit(x)
      PROVE  KeepsPast(t)
  BY <1>1 DEF KeepsPast, TypeOK, RowsOK, Finished, Canceled, FinishedStates,
     Lifecycle!Become, Lifecycle!Submit
<1>2. ASSUME NEW x \in Tasks, Lifecycle!Launch(x)
      PROVE  KeepsPast(t)
  BY <1>2 DEF KeepsPast, TypeOK, RowsOK, Finished, Canceled, FinishedStates,
     Lifecycle!Become, Lifecycle!Launch
<1>3. ASSUME NEW x \in Tasks, Lifecycle!Ask(x)
      PROVE  KeepsPast(t)
  BY <1>3 DEF KeepsPast, TypeOK, RowsOK, Finished, Canceled, FinishedStates,
     Lifecycle!Become, Lifecycle!Ask
<1>4. ASSUME NEW x \in Tasks, Lifecycle!Cancel(x)
      PROVE  KeepsPast(t)
  BY <1>4 DEF KeepsPast, TypeOK, RowsOK, Finished, Canceled, FinishedStates,
     Lifecycle!Become, Lifecycle!Cancel
<1>5. ASSUME NEW x \in Tasks, Lifecycle!End(x)
      PROVE  KeepsPast(t)
  BY <1>5
     DEF KeepsPast, TypeOK, RowsOK, Finished, Canceled, FinishedStates, Lifecycle!Become, Lifecycle!End,
         Lifecycle!RunningStates, Lifecycle!FinishedStates, RunningStates
<1>6. ASSUME NEW x \in Tasks, Lifecycle!Remove(x)
      PROVE  KeepsPast(t)
  BY <1>6 DEF KeepsPast, TypeOK, RowsOK, Finished, Canceled, FinishedStates,
     Lifecycle!Become, Lifecycle!Remove
<1>7. CASE UNCHANGED Lifecycle!vars
  BY <1>7 DEF KeepsPast, Lifecycle!vars, Finished, Canceled
<1> QED
  BY <1>1, <1>2, <1>3, <1>4, <1>5, <1>6, <1>7 DEF Lifecycle!Next

-----------------------------------------------------------------------------
(* What has been read.                                                     *)

(* What was true of a row when it was read and still is.                   *)
Later ==
  \A x \in Tasks : /\ state[x] # "none" => state'[x] # "none"
                   /\ state[x] \in FinishedStates => state'[x] \in FinishedStates
                   /\ state[x] \in {"CANCELING"} \union FinishedStates
                        => state'[x] \in {"CANCELING"} \union FinishedStates
                   /\ x \in asked => x \in asked'

(* A step that reads nothing, or reads a row anew.                         *)
LEMMA ReadsKept ==
  ASSUME ReadsHold, Later, UNCHANGED <<cancels, resubmits>>,
         \A x \in Tasks : work'.seen[x] \in {"none", work.seen[x], state[x]},
         pc' # "settle" \/ UNCHANGED <<pc, work>>,
         TypeOK
  PROVE  ReadsHold'
<1>1. \A x \in Tasks : work'.seen[x] = "CANCELING" => state'[x] \in {"CANCELING"} \union FinishedStates
  BY DEF ReadsHold, Later, Canceled
<1>2. pc' = "settle" => /\ work'.verdict \in FinishedStates
                        /\ work'.verdict = "CANCELED"
                             => state'[work'.task] \in {"CANCELING"} \union FinishedStates
  BY DEF ReadsHold, Later, Canceled, TypeOK, TaskInHand
<1>3. \A x \in Tasks : /\ cancels'[x] # "none" => x \in asked' /\ state'[x] # "none"
                       /\ resubmits'[x] > 0 => state'[x] \in FinishedStates
  BY DEF ReadsHold, Later, Finished
<1> QED
  BY <1>1, <1>2, <1>3 DEF ReadsHold, Canceled, Finished

(* A call that reads or acts, beside the job.                              *)
LEMMA CallsKept ==
  ASSUME ReadsHold, Later, UNCHANGED <<pc, work>>, TypeOK,
         \A x \in Tasks : /\ cancels'[x] # "none" => x \in asked' /\ state'[x] # "none"
                          /\ resubmits'[x] > 0 => state'[x] \in FinishedStates
  PROVE  ReadsHold'
<1>1. \A x \in Tasks : work'.seen[x] = "CANCELING" => state'[x] \in {"CANCELING"} \union FinishedStates
  BY DEF ReadsHold, Later, Canceled
<1>2. pc' = "settle" => /\ work'.verdict \in FinishedStates
                        /\ work'.verdict = "CANCELED"
                             => state'[work'.task] \in {"CANCELING"} \union FinishedStates
  BY DEF ReadsHold, Later, Canceled, TypeOK, TaskInHand
<1> QED
  BY <1>1, <1>2 DEF ReadsHold, Canceled, Finished

(* What a job, or a call, has read of a row holds until it is used.        *)
LEMMA ReadsStep ==
  ASSUME TypeOK, ReadsHold, CountInv, [Next]_vars
  PROVE  ReadsHold'
<1>a. Later
  BY LifecycleStep, NoWayBack DEF KeepsPast, Later, Finished, Canceled
<1>1. CASE StartJob
  <2>1. pc' \in {"count", "list", "stalled", "fetch"} /\ work'.seen = work.seen
    BY <1>1 DEF StartJob, Goto, First, TypeOK, JobOK
  <2> QED
    BY <1>1, <1>a, <2>1, ReadsKept DEF StartJob, calls
<1>2. CASE StopQueued
  BY <1>2, <1>a, ReadsKept DEF StopQueued, job, calls
<1>3. CASE BootGoesOn
  BY <1>3, <1>a, ReadsKept DEF BootGoesOn, job, calls
<1>4. CASE JobFails
  BY <1>4, <1>a, ReadsKept DEF JobFails, calls, Return, EndJob, Work0, Goto, TypeOK, JobOK
<1>5. CASE CountRunning
  BY <1>5, <1>a, ReadsKept DEF CountRunning, calls, Goto, TypeOK, JobOK
<1>6. CASE CountByUser
  BY <1>6, <1>a, ReadsKept DEF CountByUser, calls, Goto, TypeOK, JobOK
<1>7. CASE Pick
  BY <1>7, <1>a, ReadsKept DEF Pick, calls, Goto, TypeOK, JobOK
<1>8. CASE DispatchDone
  BY <1>8, <1>a, ReadsKept DEF DispatchDone, calls, Return, EndJob, Work0, Goto, TypeOK, JobOK
<1>9. CASE Activate
  BY <1>9, <1>a, ReadsKept DEF Activate, calls, Goto, TypeOK, JobOK
<1>10. CASE Prepare
  BY <1>10, <1>a, ReadsKept DEF Prepare, calls, Goto, TypeOK, JobOK
<1>11. CASE Run
  BY <1>11, <1>a, ReadsKept DEF Run, calls, Goto, TypeOK, JobOK
<1>12. CASE RunFails
  BY <1>12, <1>a, ReadsKept DEF RunFails, calls, Goto, TypeOK, JobOK
<1>13. CASE MarkFailed
  BY <1>13, <1>a, ReadsKept DEF MarkFailed, calls, Goto, TypeOK, JobOK
<1>14. CASE Fetch
  <2>1. \A x \in Tasks : work'.seen[x] \in {work.seen[x], state[x]}
    BY <1>14 DEF Fetch, TypeOK, JobOK
  <2> QED
    BY <1>14, <1>a, <2>1, ReadsKept DEF Fetch, calls, Goto
<1>15. CASE ReadResult
  <2>1. /\ work'.task = work.task /\ work.task \in Tasks /\ work'.seen = work.seen
        /\ work'.verdict = Outcome(work.seen[work.task], files[work.task])
    BY <1>15 DEF ReadResult, TypeOK, JobOK, TaskInHand
  <2>2. work'.verdict \in FinishedStates
    BY <2>1 DEF Outcome, Interrupted, FinishedStates
  <2>3. work'.verdict = "CANCELED" => work.seen[work.task] = "CANCELING"
    BY <2>1 DEF Outcome, Interrupted
  <2>4. work'.verdict = "CANCELED" => state'[work.task] \in {"CANCELING"} \union FinishedStates
    BY <1>a, <2>1, <2>3 DEF ReadsHold, Canceled, Later
  <2> QED
    BY <1>15, <1>a, <2>1, <2>2, <2>4 DEF ReadResult, calls, ReadsHold, Canceled, Finished, Later
<1>16. CASE Settle
  BY <1>16, <1>a, ReadsKept DEF Settle, calls, Goto, TypeOK, JobOK
<1>17. CASE RemoveContainer
  BY <1>17, <1>a, ReadsKept DEF RemoveContainer, calls, Goto, TypeOK, JobOK
<1>18. CASE WipeWorkspace
  BY <1>18, <1>a, ReadsKept DEF WipeWorkspace, calls, Return, EndJob, Work0, Goto, TypeOK, JobOK
<1>19. CASE ListContainers
  BY <1>19, <1>a, ReadsKept DEF ListContainers, calls, Goto, TypeOK, JobOK
<1>20. CASE ReadRunning
  <2>1. \A x \in Tasks : work'.seen[x] \in {"none", state[x]}
    BY <1>20 DEF ReadRunning, TypeOK, JobOK
  <2> QED
    BY <1>20, <1>a, <2>1, ReadsKept DEF ReadRunning, calls, Goto
<1>21. CASE ReconcileDone
  BY <1>21, <1>a, ReadsKept DEF ReconcileDone, calls, Return, EndJob, Work0, Goto, TypeOK, JobOK
<1>22. ASSUME NEW t \in Tasks, ReconcileLost(t)
       PROVE  ReadsHold'
  BY <1>22, <1>a, ReadsKept DEF ReconcileLost, calls, Goto, TypeOK, JobOK
<1>23. ASSUME NEW t \in Tasks, ReconcileRunning(t)
       PROVE  ReadsHold'
  BY <1>23, <1>a, ReadsKept DEF ReconcileRunning, calls, Goto, TypeOK, JobOK
<1>24. ASSUME NEW t \in Tasks, ReconcileEnded(t)
       PROVE  ReadsHold'
  BY <1>24, <1>a, ReadsKept DEF ReconcileEnded, calls, Goto, TypeOK, JobOK
<1>25. ASSUME NEW t \in Tasks, RemoveOrphan(t)
       PROVE  ReadsHold'
  <2>1. pc' # "settle" /\ UNCHANGED <<cancels, resubmits>>
    BY <1>25 DEF RemoveOrphan, Goto, EndJob, calls
  <2>2. \A x \in Tasks : work'.seen[x] \in {"none", work.seen[x]}
    <3>1. \/ work' = Work0
          \/ work' = [work EXCEPT !.listing[t] = "none", !.task = t, !.back = "reconcile"]
      BY <1>25 DEF RemoveOrphan, EndJob
    <3>2. work' = Work0 => \A x \in Tasks : work'.seen[x] = "none"
      BY DEF Work0
    <3> QED
      BY <3>1, <3>2 DEF TypeOK, JobOK
  <2> QED
    BY <1>a, <2>1, <2>2, ReadsKept
<1>26. CASE ReadStalled
  BY <1>26, <1>a, ReadsKept DEF ReadStalled, calls, Goto, TypeOK, JobOK
<1>27. CASE ReadCanceling
  BY <1>27, <1>a, ReadsKept DEF ReadCanceling, calls, Goto, TypeOK, JobOK
<1>28. CASE TimeoutsDone
  BY <1>28, <1>a, ReadsKept DEF TimeoutsDone, calls, Return, EndJob, Work0, Goto, TypeOK, JobOK
<1>29. CASE Kill
  BY <1>29, <1>a, ReadsKept DEF Kill, calls, Goto, TypeOK, JobOK
<1>30. ASSUME NEW t \in Tasks, FailStalled(t)
       PROVE  ReadsHold'
  BY <1>30, <1>a, ReadsKept DEF FailStalled, calls, Goto, TypeOK, JobOK
<1>31. ASSUME NEW t \in Tasks, ForceCancel(t)
       PROVE  ReadsHold'
  BY <1>31, <1>a, ReadsKept DEF ForceCancel, calls, Goto, TypeOK, JobOK
<1>32. ASSUME NEW t \in Tasks, Submit(t)
       PROVE  ReadsHold'
  BY <1>32, <1>a, ReadsKept DEF Submit, job, calls
<1>33. ASSUME NEW t \in Tasks, ReadForCancel(t)
       PROVE  ReadsHold'
  <2>1. UNCHANGED <<pc, work>>
    BY <1>33 DEF ReadForCancel, job
  <2>2. \A x \in Tasks : /\ cancels'[x] # "none" => x \in asked' /\ state'[x] # "none"
                         /\ resubmits'[x] > 0 => state'[x] \in FinishedStates
    BY <1>33, <1>a DEF ReadForCancel, rows, ReadsHold, Later, Finished, TypeOK, ProcessOK
  <2> QED
    BY <1>a, <2>1, <2>2, CallsKept
<1>34. ASSUME NEW t \in Tasks, CancelPending(t)
       PROVE  ReadsHold'
  <2>1. UNCHANGED <<pc, work>>
    BY <1>34 DEF CancelPending, job
  <2>2. \A x \in Tasks : /\ cancels'[x] # "none" => x \in asked' /\ state'[x] # "none"
                         /\ resubmits'[x] > 0 => state'[x] \in FinishedStates
    BY <1>34, <1>a DEF CancelPending, rows, ReadsHold, Later, Finished, TypeOK, ProcessOK
  <2> QED
    BY <1>a, <2>1, <2>2, CallsKept
<1>35. ASSUME NEW t \in Tasks, CancelRunning(t)
       PROVE  ReadsHold'
  <2>1. UNCHANGED <<pc, work>>
    BY <1>35 DEF CancelRunning, job
  <2>2. \A x \in Tasks : /\ cancels'[x] # "none" => x \in asked' /\ state'[x] # "none"
                         /\ resubmits'[x] > 0 => state'[x] \in FinishedStates
    BY <1>35, <1>a DEF CancelRunning, rows, ReadsHold, Later, Finished, TypeOK, ProcessOK
  <2> QED
    BY <1>a, <2>1, <2>2, CallsKept
<1>36. ASSUME NEW t \in Tasks, Remove(t)
       PROVE  ReadsHold'
  BY <1>36, <1>a, ReadsKept DEF Remove, job, calls
<1>37. ASSUME NEW t \in Tasks, ReadForResubmit(t)
       PROVE  ReadsHold'
  <2>1. UNCHANGED <<pc, work>>
    BY <1>37 DEF ReadForResubmit, job
  <2>2. \A x \in Tasks : /\ cancels'[x] # "none" => x \in asked' /\ state'[x] # "none"
                         /\ resubmits'[x] > 0 => state'[x] \in FinishedStates
    BY <1>37, <1>a DEF ReadForResubmit, rows, ReadsHold, Later, Finished, TypeOK, ProcessOK
  <2> QED
    BY <1>a, <2>1, <2>2, CallsKept
<1>38. ASSUME NEW t \in Tasks, RemoveForResubmit(t)
       PROVE  ReadsHold'
  <2>1. UNCHANGED <<pc, work>>
    BY <1>38 DEF RemoveForResubmit, job
  <2>2. \A x \in Tasks : /\ cancels'[x] # "none" => x \in asked' /\ state'[x] # "none"
                         /\ resubmits'[x] > 0 => state'[x] \in FinishedStates
    BY <1>38, <1>a DEF RemoveForResubmit, rows, ReadsHold, Later, Finished, TypeOK, ProcessOK
  <2> QED
    BY <1>a, <2>1, <2>2, CallsKept
<1>39. ASSUME NEW t \in Tasks, NEW u \in Tasks, SubmitAgain(t, u)
       PROVE  ReadsHold'
  BY <1>39, <1>a, ReadsKept DEF SubmitAgain, job, calls
<1>40. ASSUME NEW t \in Tasks, ReportProgress(t)
       PROVE  ReadsHold'
  BY <1>40, <1>a, ReadsKept DEF ReportProgress, job, calls
<1>41. ASSUME NEW t \in Tasks, Exit(t)
       PROVE  ReadsHold'
  BY <1>41, <1>a, ReadsKept DEF Exit, job, calls
<1>42. ASSUME NEW t \in Tasks, RunLate(t)
       PROVE  ReadsHold'
  BY <1>42, <1>a, ReadsKept DEF RunLate, job, calls
<1>43. ASSUME NEW t \in Tasks, BecomeOverdue(t)
       PROVE  ReadsHold'
  BY <1>43, <1>a, ReadsKept DEF BecomeOverdue, job, calls
<1>44. ASSUME NEW t \in Tasks, WaitEnds(t)
       PROVE  ReadsHold'
  BY <1>44, <1>a, ReadsKept DEF WaitEnds, job, calls
<1>45. ASSUME NEW t \in Tasks, WaitThrows(t)
       PROVE  ReadsHold'
  BY <1>45, <1>a, ReadsKept DEF WaitThrows, job, calls
<1>46. ASSUME NEW t \in Tasks, StopSettles(t)
       PROVE  ReadsHold'
  BY <1>46, <1>a, ReadsKept DEF StopSettles, job, calls
<1>47. CASE Boot
  BY <1>47, <1>a, ReadsKept DEF Boot, job, calls
<1>48. CASE Tick
  BY <1>48, <1>a, ReadsKept DEF Tick, job, calls
<1>49. CASE Crash
  BY <1>49 DEF Crash, Work0, ReadsHold
<1>50. CASE UNCHANGED vars
  BY <1>50, <1>a, ReadsKept DEF vars, job, calls
<1> QED
  BY <1>1, <1>2, <1>3, <1>4, <1>5, <1>6, <1>7, <1>8, <1>9, <1>10, <1>11, <1>12, <1>13,
     <1>14, <1>15, <1>16, <1>17, <1>18, <1>19, <1>20, <1>21, <1>22, <1>23, <1>24,
     <1>25, <1>26, <1>27, <1>28, <1>29, <1>30, <1>31, <1>32, <1>33, <1>34, <1>35,
     <1>36, <1>37, <1>38, <1>39, <1>40, <1>41, <1>42, <1>43, <1>44, <1>45, <1>46,
     <1>47, <1>48, <1>49, <1>50
     DEF Next, Supervise, UserCalls, Environment, CancelSteps, DispatchSteps, CollectSteps,
         ReconcileSteps, TimeoutSteps

-----------------------------------------------------------------------------
(* Reruns.                                                                 *)

RerunInv == RerunOnce /\ RerunsAreRemoved

(* A task is run again by the one call that has removed it.                *)
LEMMA RerunStep ==
  ASSUME TypeOK, ReadsHold, CountInv, RerunInv, [Next]_vars
  PROVE  RerunInv'
<1>a. \A x \in Tasks : state[x] # "none" => state'[x] # "none"
  BY LifecycleStep, NoWayBack DEF KeepsPast
<1>1. CASE StartJob
  BY <1>1, <1>a DEF StartJob, rows, calls, RerunInv, RerunOnce, RerunsAreRemoved
<1>2. CASE StopQueued
  BY <1>2, <1>a DEF StopQueued, rows, calls, RerunInv, RerunOnce, RerunsAreRemoved
<1>3. CASE BootGoesOn
  BY <1>3, <1>a DEF BootGoesOn, rows, calls, RerunInv, RerunOnce, RerunsAreRemoved
<1>4. CASE JobFails
  BY <1>4, <1>a DEF JobFails, rows, calls, RerunInv, RerunOnce, RerunsAreRemoved
<1>5. CASE CountRunning
  BY <1>5, <1>a DEF CountRunning, rows, calls, RerunInv, RerunOnce, RerunsAreRemoved
<1>6. CASE CountByUser
  BY <1>6, <1>a DEF CountByUser, rows, calls, RerunInv, RerunOnce, RerunsAreRemoved
<1>7. CASE Pick
  BY <1>7, <1>a DEF Pick, rows, calls, RerunInv, RerunOnce, RerunsAreRemoved
<1>8. CASE DispatchDone
  BY <1>8, <1>a DEF DispatchDone, rows, calls, RerunInv, RerunOnce, RerunsAreRemoved
<1>9. CASE Activate
  BY <1>9, <1>a DEF Activate, rows, calls, RerunInv, RerunOnce, RerunsAreRemoved
<1>10. CASE Prepare
  BY <1>10, <1>a DEF Prepare, rows, calls, RerunInv, RerunOnce, RerunsAreRemoved
<1>11. CASE Run
  BY <1>11, <1>a DEF Run, rows, calls, RerunInv, RerunOnce, RerunsAreRemoved
<1>12. CASE RunFails
  BY <1>12, <1>a DEF RunFails, rows, calls, RerunInv, RerunOnce, RerunsAreRemoved
<1>13. CASE MarkFailed
  BY <1>13, <1>a DEF MarkFailed, rows, calls, RerunInv, RerunOnce, RerunsAreRemoved
<1>14. CASE Fetch
  BY <1>14, <1>a DEF Fetch, rows, calls, RerunInv, RerunOnce, RerunsAreRemoved
<1>15. CASE ReadResult
  BY <1>15, <1>a DEF ReadResult, rows, calls, RerunInv, RerunOnce, RerunsAreRemoved
<1>16. CASE Settle
  BY <1>16, <1>a DEF Settle, rows, calls, RerunInv, RerunOnce, RerunsAreRemoved
<1>17. CASE RemoveContainer
  BY <1>17, <1>a DEF RemoveContainer, rows, calls, RerunInv, RerunOnce, RerunsAreRemoved
<1>18. CASE WipeWorkspace
  BY <1>18, <1>a DEF WipeWorkspace, rows, calls, RerunInv, RerunOnce, RerunsAreRemoved
<1>19. CASE ListContainers
  BY <1>19, <1>a DEF ListContainers, rows, calls, RerunInv, RerunOnce, RerunsAreRemoved
<1>20. CASE ReadRunning
  BY <1>20, <1>a DEF ReadRunning, rows, calls, RerunInv, RerunOnce, RerunsAreRemoved
<1>21. CASE ReconcileDone
  BY <1>21, <1>a DEF ReconcileDone, rows, calls, RerunInv, RerunOnce, RerunsAreRemoved
<1>22. ASSUME NEW t \in Tasks, ReconcileLost(t)
       PROVE  RerunInv'
  BY <1>22, <1>a DEF ReconcileLost, rows, calls, RerunInv, RerunOnce, RerunsAreRemoved
<1>23. ASSUME NEW t \in Tasks, ReconcileRunning(t)
       PROVE  RerunInv'
  BY <1>23, <1>a DEF ReconcileRunning, rows, calls, RerunInv, RerunOnce, RerunsAreRemoved
<1>24. ASSUME NEW t \in Tasks, ReconcileEnded(t)
       PROVE  RerunInv'
  BY <1>24, <1>a DEF ReconcileEnded, rows, calls, RerunInv, RerunOnce, RerunsAreRemoved
<1>25. ASSUME NEW t \in Tasks, RemoveOrphan(t)
       PROVE  RerunInv'
  BY <1>25, <1>a DEF RemoveOrphan, rows, calls, RerunInv, RerunOnce, RerunsAreRemoved
<1>26. CASE ReadStalled
  BY <1>26, <1>a DEF ReadStalled, rows, calls, RerunInv, RerunOnce, RerunsAreRemoved
<1>27. CASE ReadCanceling
  BY <1>27, <1>a DEF ReadCanceling, rows, calls, RerunInv, RerunOnce, RerunsAreRemoved
<1>28. CASE TimeoutsDone
  BY <1>28, <1>a DEF TimeoutsDone, rows, calls, RerunInv, RerunOnce, RerunsAreRemoved
<1>29. CASE Kill
  BY <1>29, <1>a DEF Kill, rows, calls, RerunInv, RerunOnce, RerunsAreRemoved
<1>30. ASSUME NEW t \in Tasks, FailStalled(t)
       PROVE  RerunInv'
  BY <1>30, <1>a DEF FailStalled, rows, calls, RerunInv, RerunOnce, RerunsAreRemoved
<1>31. ASSUME NEW t \in Tasks, ForceCancel(t)
       PROVE  RerunInv'
  BY <1>31, <1>a DEF ForceCancel, rows, calls, RerunInv, RerunOnce, RerunsAreRemoved
<1>32. ASSUME NEW t \in Tasks, Submit(t)
       PROVE  RerunInv'
  BY <1>32, <1>a DEF Submit, rows, calls, RerunInv, RerunOnce, RerunsAreRemoved
<1>33. ASSUME NEW t \in Tasks, ReadForCancel(t)
       PROVE  RerunInv'
  BY <1>33, <1>a DEF ReadForCancel, rows, calls, RerunInv, RerunOnce, RerunsAreRemoved
<1>34. ASSUME NEW t \in Tasks, CancelPending(t)
       PROVE  RerunInv'
  BY <1>34, <1>a DEF CancelPending, rows, calls, RerunInv, RerunOnce, RerunsAreRemoved
<1>35. ASSUME NEW t \in Tasks, CancelRunning(t)
       PROVE  RerunInv'
  BY <1>35, <1>a DEF CancelRunning, rows, calls, RerunInv, RerunOnce, RerunsAreRemoved
<1>36. ASSUME NEW t \in Tasks, Remove(t)
       PROVE  RerunInv'
  BY <1>36, <1>a DEF Remove, rows, calls, RerunInv, RerunOnce, RerunsAreRemoved
<1>37. ASSUME NEW t \in Tasks, ReadForResubmit(t)
       PROVE  RerunInv'
  BY <1>37, <1>a DEF ReadForResubmit, rows, calls, RerunInv, RerunOnce, RerunsAreRemoved
<1>38. ASSUME NEW t \in Tasks, RemoveForResubmit(t)
       PROVE  RerunInv'
  BY <1>38, <1>a DEF RemoveForResubmit, rows, calls, RerunInv, RerunOnce, RerunsAreRemoved
<1>39. ASSUME NEW t \in Tasks, NEW u \in Tasks, SubmitAgain(t, u)
       PROVE  RerunInv'
  <2>1. /\ \A x \in Tasks : origin'[x] = IF x = u THEN t ELSE origin[x]
        /\ removed' = removed /\ reborn' = reborn \ {t}
    BY <1>39 DEF SubmitAgain, TypeOK, RowsOK
  <2>2. /\ t \in reborn /\ t \in removed /\ state'[u] # "none" /\ \A x \in Tasks : origin[x] # t
    BY <1>39, ConstantsAssumption
       DEF SubmitAgain, Insert, RerunInv, RerunOnce, RerunsAreRemoved, TypeOK, RowsOK
  <2>3. RerunsAreRemoved'
    BY <1>a, <2>1, <2>2 DEF RerunInv, RerunsAreRemoved
  <2>4. RerunOnce'
    BY <2>1, <2>2 DEF RerunInv, RerunOnce
  <2> QED
    BY <2>3, <2>4 DEF RerunInv
<1>40. ASSUME NEW t \in Tasks, ReportProgress(t)
       PROVE  RerunInv'
  BY <1>40, <1>a DEF ReportProgress, rows, calls, RerunInv, RerunOnce, RerunsAreRemoved
<1>41. ASSUME NEW t \in Tasks, Exit(t)
       PROVE  RerunInv'
  BY <1>41, <1>a DEF Exit, rows, calls, RerunInv, RerunOnce, RerunsAreRemoved
<1>42. ASSUME NEW t \in Tasks, RunLate(t)
       PROVE  RerunInv'
  BY <1>42, <1>a DEF RunLate, rows, calls, RerunInv, RerunOnce, RerunsAreRemoved
<1>43. ASSUME NEW t \in Tasks, BecomeOverdue(t)
       PROVE  RerunInv'
  BY <1>43, <1>a DEF BecomeOverdue, rows, calls, RerunInv, RerunOnce, RerunsAreRemoved
<1>44. ASSUME NEW t \in Tasks, WaitEnds(t)
       PROVE  RerunInv'
  BY <1>44, <1>a DEF WaitEnds, rows, calls, RerunInv, RerunOnce, RerunsAreRemoved
<1>45. ASSUME NEW t \in Tasks, WaitThrows(t)
       PROVE  RerunInv'
  BY <1>45, <1>a DEF WaitThrows, rows, calls, RerunInv, RerunOnce, RerunsAreRemoved
<1>46. ASSUME NEW t \in Tasks, StopSettles(t)
       PROVE  RerunInv'
  BY <1>46, <1>a DEF StopSettles, rows, calls, RerunInv, RerunOnce, RerunsAreRemoved
<1>47. CASE Boot
  BY <1>47, <1>a DEF Boot, rows, calls, RerunInv, RerunOnce, RerunsAreRemoved
<1>48. CASE Tick
  BY <1>48, <1>a DEF Tick, rows, calls, RerunInv, RerunOnce, RerunsAreRemoved
<1>49. CASE Crash
  BY <1>49, <1>a DEF Crash, rows, calls, RerunInv, RerunOnce, RerunsAreRemoved
<1>50. CASE UNCHANGED vars
  BY <1>50, <1>a DEF vars, rows, calls, rows, calls, RerunInv, RerunOnce, RerunsAreRemoved
<1> QED
  BY <1>1, <1>2, <1>3, <1>4, <1>5, <1>6, <1>7, <1>8, <1>9, <1>10, <1>11, <1>12, <1>13,
     <1>14, <1>15, <1>16, <1>17, <1>18, <1>19, <1>20, <1>21, <1>22, <1>23, <1>24,
     <1>25, <1>26, <1>27, <1>28, <1>29, <1>30, <1>31, <1>32, <1>33, <1>34, <1>35,
     <1>36, <1>37, <1>38, <1>39, <1>40, <1>41, <1>42, <1>43, <1>44, <1>45, <1>46,
     <1>47, <1>48, <1>49, <1>50
     DEF Next, Supervise, UserCalls, Environment, CancelSteps, DispatchSteps, CollectSteps,
         ReconcileSteps, TimeoutSteps

-----------------------------------------------------------------------------
(* The theorems.                                                           *)

(* The invariant holds initially,                                          *)
LEMMA IInvInit == Init => IInv
<1> SUFFICES ASSUME Init PROVE IInv
  OBVIOUS
<1>1. Running = {} /\ \A u : RunningOf(u) = {}
  BY DEF Init, Running, RunningOf, RunningStates
<1>2. LimitsHold
  BY <1>1, FS_EmptySet, ConstantsAssumption DEF LimitsHold
<1>3. CountKept
  BY DEF Init, CountKept
<1>4. CanceledOnRequest /\ RerunOnce /\ RerunsAreRemoved
  BY DEF Init, CanceledOnRequest, RerunOnce, RerunsAreRemoved
<1>5. ReadsHold
  BY DEF Init, Work0, ReadsHold
<1> QED
  BY <1>2, <1>3, <1>4, <1>5 DEF IInv

(* and every step keeps it.                                                *)
LEMMA IInvStep ==
  ASSUME TypeOK, IInv, [Next]_vars
  PROVE  IInv'
<1>1. ReadsHold /\ CountInv /\ RerunInv /\ CanceledOnRequest
  BY DEF IInv, CountInv, RerunInv
<1>2. CountInv' /\ ReadsHold' /\ RerunInv'
  BY <1>1, CountStep, ReadsStep, RerunStep
<1>3. CanceledOnRequest'
  BY <1>1, LifecycleStep, NoWayBack DEF KeepsPast, CanceledOnRequest
<1> QED
  BY <1>2, <1>3 DEF IInv, CountInv, RerunInv

(* The inductive invariant.                                                *)
THEOREM IInvCorrect == Spec => []IInv
<1>1. TypeOK /\ IInv /\ [Next]_vars => IInv'
  BY IInvStep
<1> QED
  BY <1>1, IInvInit, TypeCorrect, PTL DEF Spec

(* No more tasks run than the limits allow, however launches that fail,    *)
(* collects in the middle of a reconcile and users' calls interleave.      *)
THEOREM LimitsCorrect == Spec => []LimitsHold
<1>1. IInv => LimitsHold
  BY DEF IInv
<1> QED
  BY <1>1, IInvCorrect, PTL

(* A task is CANCELED only if somebody asked for it.                       *)
THEOREM CanceledOnRequestCorrect == Spec => []CanceledOnRequest
<1>1. IInv => CanceledOnRequest
  BY DEF IInv
<1> QED
  BY <1>1, IInvCorrect, PTL

(* However many calls submit a finished task again, one runs it again.     *)
THEOREM RerunOnceCorrect == Spec => []RerunOnce
<1>1. IInv => RerunOnce
  BY DEF IInv
<1> QED
  BY <1>1, IInvCorrect, PTL

(* The supervisor implements the lifecycle: the rows it writes only ever   *)
(* do what TaskLifecycle promises.                                         *)
THEOREM LifecycleCorrect == Spec => LifecycleKept
<1>1. Init => Lifecycle!Init
  BY DEF Init, Lifecycle!Init
<1>2. TypeOK /\ IInv /\ [Next]_vars => [Lifecycle!Next]_Lifecycle!vars
  BY LifecycleStep DEF IInv, CountInv
<1> QED
  BY <1>1, <1>2, IInvCorrect, TypeCorrect, PTL DEF Spec, LifecycleKept, Lifecycle!Spec
=============================================================================
