----------------------- MODULE ProcessingSlotsProofs -----------------------
(***************************************************************************)
(* ProcessingSlots keeps IInv: no container processes files on a slot that *)
(* is not its own, nor more containers than there are slots, whatever gets *)
(* lost, comes late or restarts.  One lemma per action, one step per part  *)
(* of the invariant.                                                       *)
(***************************************************************************)
EXTENDS ProcessingSlots, FiniteSetTheorems, TLAPS

-----------------------------------------------------------------------------
(* Counting.                                                               *)

(* Sets of tasks are finite, and a part of one is no larger.               *)
LEMMA TasksCount ==
  ASSUME NEW S \in SUBSET Tasks
  PROVE  /\ IsFiniteSet(S) /\ Cardinality(S) \in Nat
         /\ \A R \in SUBSET S : Cardinality(R) <= Cardinality(S)
<1>1. IsFiniteSet(S)
  BY SlotsAssumption, FS_Subset
<1>2. \A R \in SUBSET S : Cardinality(R) <= Cardinality(S)
  BY <1>1, FS_Subset
<1> QED
  BY <1>1, <1>2, FS_CardinalityType

(* One more task counts at most one more.                                  *)
LEMMA OneMore ==
  ASSUME NEW S \in SUBSET Tasks, NEW t \in Tasks
  PROVE  Cardinality(S \union {t}) <= Cardinality(S) + 1
<1>1. IsFiniteSet(S) /\ Cardinality(S) \in Nat
  BY TasksCount
<1>2. CASE t \in S
  <2>1. S \union {t} = S
    BY <1>2
  <2>2. Cardinality(S \union {t}) = Cardinality(S)
    BY <2>1, Zenon
  <2> QED
    BY <1>1, <2>2
<1>3. CASE t \notin S
  <2>1. Cardinality(S \union {t}) = Cardinality(S) + 1
    BY <1>1, <1>3, FS_AddElement
  <2> QED
    BY <1>1, <2>1
<1> QED
  BY <1>2, <1>3

(* The count survives every step that gives no slot away and leaves the    *)
(* job where it is.                                                        *)
LEMMA CountStays ==
  ASSUME RowsOK, CountKept, Holders' \subseteq Holders,
         pc' = pc, work'.holders = work.holders, work'.task = work.task,
         pc # "idle" /\ work'.awaited => work.awaited /\ late'[work.task] = late[work.task],
         pc \in {"discard", "forget"} => state'[work.task] = state[work.task]
  PROVE  CountKept'
<1>1. Cardinality(Holders') <= MaxSlots
  <2>1. Holders \in SUBSET Tasks
    BY DEF Holders
  <2>2. Cardinality(Holders) \in Nat /\ Cardinality(Holders') \in Nat
        /\ Cardinality(Holders') <= Cardinality(Holders)
    BY <2>1, TasksCount
  <2> QED
    BY <2>2, SlotsAssumption DEF CountKept
<1> QED
  BY <1>1 DEF CountKept

(* And the end of a job.                                                   *)
LEMMA CountEnds ==
  ASSUME RowsOK, CountKept, Holders' \subseteq Holders, pc' = "idle"
  PROVE  CountKept'
<1>1. Cardinality(Holders') <= MaxSlots
  <2>1. Holders \in SUBSET Tasks
    BY DEF Holders
  <2>2. Cardinality(Holders) \in Nat /\ Cardinality(Holders') \in Nat
        /\ Cardinality(Holders') <= Cardinality(Holders)
    BY <2>1, TasksCount
  <2> QED
    BY <2>2, SlotsAssumption DEF CountKept
<1> QED
  BY <1>1 DEF CountKept

-----------------------------------------------------------------------------
(* The actions.                                                            *)

(* A request is sent by a container that has no slot.                      *)
LEMMA BeginStepStep ==
  ASSUME IInv, NEW t \in Tasks, BeginStep(t)
  PROVE  IInv'
<1> USE DEF NoGrant, RunningStates
<1>1. RowsOK' /\ CallsOK'
  <2>1. RowsOK'
    BY DEF BeginStep, rows, queueVars, client, network, faults, IInv, RowsOK
  <2>2. CallsOK'
    BY DEF BeginStep, rows, queueVars, client, network, faults, IInv, RowsOK, CallsOK
  <2> QED
    BY <2>1, <2>2
<1>2. GrantsGrow'
  BY DEF BeginStep, rows, queueVars, client, network, faults, IInv, RowsOK, GrantsGrow
<1>3. InHand'
  BY DEF BeginStep, rows, queueVars, client, network, faults, IInv, RowsOK, CallsOK, InHand,
     GrantsGrow, Asking
<1>4. CountKept'
  <2>1. Holders' \subseteq Holders
    BY DEF BeginStep, rows, queueVars, client, network, faults, IInv, RowsOK, Holders, Held
  <2> QED
    BY <2>1, CountStays DEF BeginStep, rows, queueVars, client, network, faults, IInv, RowsOK,
       CallsOK, CountKept
<1> QED
  BY <1>1, <1>2, <1>3, <1>4 DEF IInv

(* The slot in hand becomes the one last released.                         *)
LEMMA EndStepStep ==
  ASSUME IInv, NEW t \in Tasks, EndStep(t)
  PROVE  IInv'
<1> USE DEF NoGrant, RunningStates
<1>1. RowsOK' /\ CallsOK'
  <2>1. RowsOK'
    BY DEF EndStep, Processing, Release, rows, queueVars, client, network, faults, IInv, RowsOK
  <2>2. CallsOK'
    BY DEF EndStep, Processing, Release, rows, queueVars, client, network, faults, IInv, RowsOK,
       CallsOK
  <2> QED
    BY <2>1, <2>2
<1>2. GrantsGrow'
  BY DEF EndStep, Processing, Release, rows, queueVars, client, network, faults, IInv, RowsOK,
     GrantsGrow
<1>3. InHand'
  BY DEF EndStep, Processing, Release, rows, queueVars, client, network, faults, IInv, RowsOK,
     CallsOK, InHand, GrantsGrow, Asking
<1>4. CountKept'
  <2>1. Holders' \subseteq Holders
    BY DEF EndStep, Processing, Release, rows, queueVars, client, network, faults, IInv, RowsOK,
       Holders, Held
  <2> QED
    BY <2>1, CountStays DEF EndStep, Processing, Release, rows, queueVars, client, network,
       faults, IInv, RowsOK, CallsOK, CountKept
<1> QED
  BY <1>1, <1>2, <1>3, <1>4 DEF IInv

(* A container that polls has no slot.                                     *)
LEMMA PollStep ==
  ASSUME IInv, NEW t \in Tasks, Poll(t)
  PROVE  IInv'
<1> USE DEF NoGrant, RunningStates
<1>1. RowsOK' /\ CallsOK'
  <2>1. RowsOK'
    BY DEF Poll, rows, queueVars, client, network, faults, IInv, RowsOK
  <2>2. CallsOK'
    BY DEF Poll, rows, queueVars, client, network, faults, IInv, RowsOK, CallsOK
  <2> QED
    BY <2>1, <2>2
<1>2. GrantsGrow'
  BY DEF Poll, rows, queueVars, client, network, faults, IInv, RowsOK, GrantsGrow
<1>3. InHand'
  BY DEF Poll, rows, queueVars, client, network, faults, IInv, RowsOK, CallsOK, InHand,
     GrantsGrow, Asking
<1>4. CountKept'
  <2>1. Holders' \subseteq Holders
    BY DEF Poll, rows, queueVars, client, network, faults, IInv, RowsOK, Holders, Held
  <2> QED
    BY <2>1, CountStays DEF Poll, rows, queueVars, client, network, faults, IInv, RowsOK, CallsOK,
       CountKept
<1> QED
  BY <1>1, <1>2, <1>3, <1>4 DEF IInv

(* Nor has one that gives up on an answer.                                 *)
LEMMA GiveUpStep ==
  ASSUME IInv, NEW t \in Tasks, GiveUp(t)
  PROVE  IInv'
<1> USE DEF NoGrant, RunningStates
<1>1. RowsOK' /\ CallsOK'
  <2>1. RowsOK'
    BY DEF GiveUp, rows, queueVars, client, network, faults, IInv, RowsOK
  <2>2. CallsOK'
    <3>1. late' \in [Tasks -> Nat]
      BY DEF GiveUp, rows, queueVars, client, network, faults, IInv, CallsOK
    <3>2. work' \in [task : Tasks \union {NoTask}, awaited : BOOLEAN, holders : SUBSET Tasks]
      BY DEF GiveUp, rows, queueVars, client, network, faults, IInv, CallsOK
    <3>3. work'.task = work.task
      BY DEF GiveUp, rows, queueVars, client, network, faults, IInv, CallsOK
    <3> QED
      BY <3>1, <3>2, <3>3 DEF GiveUp, rows, queueVars, client, network, faults, IInv, CallsOK
  <2> QED
    BY <2>1, <2>2
<1>2. GrantsGrow'
  BY DEF GiveUp, rows, queueVars, client, network, faults, IInv, RowsOK, GrantsGrow
<1>3. InHand'
  BY DEF GiveUp, rows, queueVars, client, network, faults, IInv, RowsOK, CallsOK, InHand,
     GrantsGrow, Asking
<1>4. CountKept'
  <2>1. Holders' \subseteq Holders
    BY DEF GiveUp, rows, queueVars, client, network, faults, IInv, RowsOK, Holders, Held
  <2>2. pc' = pc /\ work'.holders = work.holders /\ work'.task = work.task
    <3>1. CASE work.task = t /\ work.awaited
      BY <3>1 DEF GiveUp, IInv, CallsOK
    <3>2. CASE ~(work.task = t /\ work.awaited)
      BY <3>2 DEF GiveUp, IInv, CallsOK
    <3> QED
      BY <3>1, <3>2
  <2>3. pc # "idle" /\ work'.awaited => work.awaited /\ late'[work.task] = late[work.task]
    <3>1. CASE work.task = t /\ work.awaited
      BY <3>1 DEF GiveUp, IInv, CallsOK
    <3>2. CASE ~(work.task = t /\ work.awaited)
      BY <3>2 DEF GiveUp, IInv, CallsOK
    <3> QED
      BY <3>1, <3>2
  <2>4. pc \in {"discard", "forget"} => state'[work.task] = state[work.task]
    BY DEF GiveUp, rows
  <2> QED
    BY <2>1, <2>2, <2>3, <2>4, CountStays DEF GiveUp, rows, queueVars, client, network, faults,
       IInv, RowsOK, CallsOK, CountKept
<1> QED
  BY <1>1, <1>2, <1>3, <1>4 DEF IInv

(* The slot last released is not the one in hand.                          *)
LEMMA ReportProgressStep ==
  ASSUME IInv, NEW t \in Tasks, ReportProgress(t)
  PROVE  IInv'
<1> USE DEF NoGrant, RunningStates
<1>1. RowsOK' /\ CallsOK'
  <2>1. RowsOK'
    BY DEF ReportProgress, Release, rows, queueVars, client, network, faults, IInv, RowsOK
  <2>2. CallsOK'
    BY DEF ReportProgress, Release, rows, queueVars, client, network, faults, IInv, RowsOK, CallsOK
  <2> QED
    BY <2>1, <2>2
<1>2. GrantsGrow'
  BY DEF ReportProgress, Release, rows, queueVars, client, network, faults, IInv, RowsOK, GrantsGrow
<1>3. InHand'
  BY DEF ReportProgress, Release, rows, queueVars, client, network, faults, IInv, RowsOK, CallsOK,
     InHand, GrantsGrow, Asking
<1>4. CountKept'
  <2>1. Holders' \subseteq Holders
    BY DEF ReportProgress, Release, rows, queueVars, client, network, faults, IInv, RowsOK,
       Holders, Held
  <2> QED
    BY <2>1, CountStays DEF ReportProgress, Release, rows, queueVars, client, network, faults,
       IInv, RowsOK, CallsOK, CountKept
<1> QED
  BY <1>1, <1>2, <1>3, <1>4 DEF IInv

(* A lost release changes no row.                                          *)
LEMMA LoseReleaseStep ==
  ASSUME IInv, NEW m \in releases, LoseRelease(m)
  PROVE  IInv'
<1> USE DEF NoGrant, RunningStates
<1>1. RowsOK' /\ CallsOK'
  <2>1. RowsOK'
    BY DEF LoseRelease, rows, queueVars, client, network, faults, IInv, RowsOK
  <2>2. CallsOK'
    BY DEF LoseRelease, rows, queueVars, client, network, faults, IInv, RowsOK, CallsOK
  <2> QED
    BY <2>1, <2>2
<1>2. GrantsGrow'
  BY DEF LoseRelease, rows, queueVars, client, network, faults, IInv, RowsOK, GrantsGrow
<1>3. InHand'
  BY DEF LoseRelease, rows, queueVars, client, network, faults, IInv, RowsOK, CallsOK, InHand,
     GrantsGrow, Asking
<1>4. CountKept'
  <2>1. Holders' \subseteq Holders
    BY DEF LoseRelease, rows, queueVars, client, network, faults, IInv, RowsOK, Holders, Held
  <2> QED
    BY <2>1, CountStays DEF LoseRelease, rows, queueVars, client, network, faults, IInv, RowsOK,
       CallsOK, CountKept
<1> QED
  BY <1>1, <1>2, <1>3, <1>4 DEF IInv

(* Nothing is asked for by an abort.                                       *)
LEMMA AbortStep ==
  ASSUME IInv, NEW t \in Tasks, Abort(t)
  PROVE  IInv'
<1> USE DEF NoGrant, RunningStates
<1>1. RowsOK' /\ CallsOK'
  <2>1. RowsOK'
    BY DEF Abort, rows, queueVars, client, network, faults, IInv, RowsOK
  <2>2. CallsOK'
    BY DEF Abort, rows, queueVars, client, network, faults, IInv, RowsOK, CallsOK
  <2> QED
    BY <2>1, <2>2
<1>2. GrantsGrow'
  BY DEF Abort, rows, queueVars, client, network, faults, IInv, RowsOK, GrantsGrow
<1>3. InHand'
  BY DEF Abort, rows, queueVars, client, network, faults, IInv, RowsOK, CallsOK, InHand,
     GrantsGrow, Asking
<1>4. CountKept'
  <2>1. Holders' \subseteq Holders
    BY DEF Abort, rows, queueVars, client, network, faults, IInv, RowsOK, Holders, Held
  <2> QED
    BY <2>1, CountStays DEF Abort, rows, queueVars, client, network, faults, IInv, RowsOK,
       CallsOK, CountKept
<1> QED
  BY <1>1, <1>2, <1>3, <1>4 DEF IInv

(* Who stops waiting has no slot.                                          *)
LEMMA StopWaitingStep ==
  ASSUME IInv, NEW t \in Tasks, StopWaiting(t)
  PROVE  IInv'
<1> USE DEF NoGrant, RunningStates
<1>1. RowsOK' /\ CallsOK'
  <2>1. RowsOK'
    BY DEF StopWaiting, rows, queueVars, client, network, faults, IInv, RowsOK
  <2>2. CallsOK'
    BY DEF StopWaiting, rows, queueVars, client, network, faults, IInv, RowsOK, CallsOK
  <2> QED
    BY <2>1, <2>2
<1>2. GrantsGrow'
  BY DEF StopWaiting, rows, queueVars, client, network, faults, IInv, RowsOK, GrantsGrow
<1>3. InHand'
  BY DEF StopWaiting, rows, queueVars, client, network, faults, IInv, RowsOK, CallsOK, InHand,
     GrantsGrow, Asking
<1>4. CountKept'
  <2>1. Holders' \subseteq Holders
    BY DEF StopWaiting, rows, queueVars, client, network, faults, IInv, RowsOK, Holders, Held
  <2> QED
    BY <2>1, CountStays DEF StopWaiting, rows, queueVars, client, network, faults, IInv, RowsOK,
       CallsOK, CountKept
<1> QED
  BY <1>1, <1>2, <1>3, <1>4 DEF IInv

(* What has exited has nothing in hand.                                    *)
LEMMA ExitStep ==
  ASSUME IInv, NEW t \in Tasks, Exit(t)
  PROVE  IInv'
<1> USE DEF NoGrant, RunningStates
<1>1. RowsOK' /\ CallsOK'
  <2>1. RowsOK'
    BY DEF Exit, Gone, rows, queueVars, client, network, faults, IInv, RowsOK
  <2>2. CallsOK'
    BY DEF Exit, Gone, rows, queueVars, client, network, faults, IInv, RowsOK, CallsOK
  <2> QED
    BY <2>1, <2>2
<1>2. GrantsGrow'
  BY DEF Exit, Gone, rows, queueVars, client, network, faults, IInv, RowsOK, GrantsGrow
<1>3. InHand'
  BY DEF Exit, Gone, rows, queueVars, client, network, faults, IInv, RowsOK, CallsOK, InHand,
     GrantsGrow, Asking
<1>4. CountKept'
  <2>1. Holders' \subseteq Holders
    BY DEF Exit, Gone, rows, queueVars, client, network, faults, IInv, RowsOK, Holders, Held
  <2> QED
    BY <2>1, CountStays DEF Exit, Gone, rows, queueVars, client, network, faults, IInv, RowsOK,
       CallsOK, CountKept
<1> QED
  BY <1>1, <1>2, <1>3, <1>4 DEF IInv

(* The line is no concern of the invariant.                                *)
LEMMA BecomeUnseenStep ==
  ASSUME IInv, NEW t \in Tasks, BecomeUnseen(t)
  PROVE  IInv'
<1> USE DEF NoGrant, RunningStates
<1>1. RowsOK' /\ CallsOK'
  <2>1. RowsOK'
    BY DEF BecomeUnseen, rows, queueVars, client, network, faults, IInv, RowsOK
  <2>2. CallsOK'
    BY DEF BecomeUnseen, rows, queueVars, client, network, faults, IInv, RowsOK, CallsOK
  <2> QED
    BY <2>1, <2>2
<1>2. GrantsGrow'
  BY DEF BecomeUnseen, rows, queueVars, client, network, faults, IInv, RowsOK, GrantsGrow
<1>3. InHand'
  BY DEF BecomeUnseen, rows, queueVars, client, network, faults, IInv, RowsOK, CallsOK, InHand,
     GrantsGrow, Asking
<1>4. CountKept'
  <2>1. Holders' \subseteq Holders
    BY DEF BecomeUnseen, rows, queueVars, client, network, faults, IInv, RowsOK, Holders, Held
  <2> QED
    BY <2>1, CountStays DEF BecomeUnseen, rows, queueVars, client, network, faults, IInv, RowsOK,
       CallsOK, CountKept
<1> QED
  BY <1>1, <1>2, <1>3, <1>4 DEF IInv

(* A release names no grant that is in hand.                               *)
LEMMA ReleaseSlotStep ==
  ASSUME IInv, NEW m \in releases, ReleaseSlot(m)
  PROVE  IInv'
<1> USE DEF NoGrant, RunningStates
<1>1. RowsOK' /\ CallsOK'
  <2>1. RowsOK'
    BY DEF ReleaseSlot, rows, queueVars, client, network, faults, IInv, RowsOK
  <2>2. CallsOK'
    BY DEF ReleaseSlot, rows, queueVars, client, network, faults, IInv, RowsOK, CallsOK
  <2> QED
    BY <2>1, <2>2
<1>2. GrantsGrow'
  BY DEF ReleaseSlot, rows, queueVars, client, network, faults, IInv, RowsOK, GrantsGrow
<1>3. InHand'
  BY DEF ReleaseSlot, rows, queueVars, client, network, faults, IInv, RowsOK, CallsOK, InHand,
     GrantsGrow, Asking
<1>4. CountKept'
  <2>1. Holders' \subseteq Holders
    BY DEF ReleaseSlot, rows, queueVars, client, network, faults, IInv, RowsOK, Holders, Held
  <2> QED
    BY <2>1, CountStays DEF ReleaseSlot, rows, queueVars, client, network, faults, IInv, RowsOK,
       CallsOK, CountKept
<1> QED
  BY <1>1, <1>2, <1>3, <1>4 DEF IInv

(* A task that is canceled keeps its slot.                                 *)
LEMMA CancelStep ==
  ASSUME IInv, NEW t \in Tasks, Cancel(t)
  PROVE  IInv'
<1> USE DEF NoGrant, RunningStates
<1>1. RowsOK' /\ CallsOK'
  <2>1. RowsOK'
    BY DEF Cancel, rows, queueVars, client, network, faults, IInv, RowsOK
  <2>2. CallsOK'
    BY DEF Cancel, rows, queueVars, client, network, faults, IInv, RowsOK, CallsOK
  <2> QED
    BY <2>1, <2>2
<1>2. GrantsGrow'
  BY DEF Cancel, rows, queueVars, client, network, faults, IInv, RowsOK, GrantsGrow
<1>3. InHand'
  BY DEF Cancel, rows, queueVars, client, network, faults, IInv, RowsOK, CallsOK, InHand,
     GrantsGrow, Asking
<1>4. CountKept'
  <2>1. Holders' \subseteq Holders
    BY DEF Cancel, rows, queueVars, client, network, faults, IInv, RowsOK, Holders, Held
  <2> QED
    BY <2>1, CountStays DEF Cancel, rows, queueVars, client, network, faults, IInv, RowsOK,
       CallsOK, CountKept
<1> QED
  BY <1>1, <1>2, <1>3, <1>4 DEF IInv

(* An orphan goes with all it has in hand.                                 *)
LEMMA RemoveOrphanStep ==
  ASSUME IInv, NEW t \in Tasks, RemoveOrphan(t)
  PROVE  IInv'
<1> USE DEF NoGrant, RunningStates
<1>1. RowsOK' /\ CallsOK'
  <2>1. RowsOK'
    BY DEF RemoveOrphan, Gone, rows, queueVars, client, network, faults, IInv, RowsOK
  <2>2. CallsOK'
    BY DEF RemoveOrphan, Gone, rows, queueVars, client, network, faults, IInv, RowsOK, CallsOK
  <2> QED
    BY <2>1, <2>2
<1>2. GrantsGrow'
  BY DEF RemoveOrphan, Gone, rows, queueVars, client, network, faults, IInv, RowsOK, GrantsGrow
<1>3. InHand'
  BY DEF RemoveOrphan, Gone, rows, queueVars, client, network, faults, IInv, RowsOK, CallsOK,
     InHand, GrantsGrow, Asking
<1>4. CountKept'
  <2>1. Holders' \subseteq Holders
    BY DEF RemoveOrphan, Gone, rows, queueVars, client, network, faults, IInv, RowsOK, Holders, Held
  <2> QED
    BY <2>1, CountStays DEF RemoveOrphan, Gone, rows, queueVars, client, network, faults, IInv,
       RowsOK, CallsOK, CountKept
<1> QED
  BY <1>1, <1>2, <1>3, <1>4 DEF IInv

(* A restart ends the job; what was read is forgotten.                     *)
LEMMA CrashStep ==
  ASSUME IInv, Crash
  PROVE  IInv'
<1> USE DEF NoGrant, RunningStates
<1>1. RowsOK' /\ CallsOK'
  <2>1. RowsOK'
    BY DEF Crash, EndJob, Work0, rows, queueVars, client, network, faults, IInv, RowsOK
  <2>2. CallsOK'
    BY DEF Crash, EndJob, Work0, rows, queueVars, client, network, faults, IInv, RowsOK, CallsOK
  <2> QED
    BY <2>1, <2>2
<1>2. GrantsGrow'
  BY DEF Crash, EndJob, Work0, rows, queueVars, client, network, faults, IInv, RowsOK, GrantsGrow
<1>3. InHand'
  BY DEF Crash, EndJob, Work0, rows, queueVars, client, network, faults, IInv, RowsOK, CallsOK,
     InHand, GrantsGrow, Asking
<1>4. CountKept'
  <2>1. Holders' \subseteq Holders
    BY DEF Crash, EndJob, Work0, rows, queueVars, client, network, faults, IInv, RowsOK, Holders,
       Held
  <2> QED
    BY <2>1, CountEnds DEF Crash, EndJob, Work0, rows, queueVars, client, network, faults, IInv,
       RowsOK, CallsOK, CountKept
<1> QED
  BY <1>1, <1>2, <1>3, <1>4 DEF IInv

(* The task whose slot is forgotten has ended.                             *)
LEMMA ForgetStep ==
  ASSUME IInv, Forget
  PROVE  IInv'
<1> USE DEF NoGrant, RunningStates
<1>1. RowsOK' /\ CallsOK'
  <2>1. RowsOK'
    BY DEF Forget, EndJob, Work0, rows, queueVars, client, network, faults, IInv, RowsOK
  <2>2. CallsOK'
    BY DEF Forget, EndJob, Work0, rows, queueVars, client, network, faults, IInv, RowsOK, CallsOK
  <2> QED
    BY <2>1, <2>2
<1>2. GrantsGrow'
  BY DEF Forget, EndJob, Work0, rows, queueVars, client, network, faults, IInv, RowsOK, GrantsGrow
<1>3. InHand'
  BY DEF Forget, EndJob, Work0, rows, queueVars, client, network, faults, IInv, RowsOK, CallsOK,
     InHand, GrantsGrow, Asking, CountKept
<1>4. CountKept'
  <2>1. Holders' \subseteq Holders
    BY DEF Forget, EndJob, Work0, rows, queueVars, client, network, faults, IInv, RowsOK, Holders,
       Held
  <2> QED
    BY <2>1, CountEnds DEF Forget, EndJob, Work0, rows, queueVars, client, network, faults, IInv,
       RowsOK, CallsOK, CountKept
<1> QED
  BY <1>1, <1>2, <1>3, <1>4 DEF IInv

(* A request is read of a container that has no slot in hand.              *)
LEMMA ReadHoldersStep ==
  ASSUME IInv, NEW t \in Tasks, ReadHolders(t)
  PROVE  IInv'
<1> USE DEF NoGrant, RunningStates
<1>0. work' = [task |-> t, awaited |-> late[t] = 0, holders |-> Holders]
  BY DEF ReadHolders, Holders
<1>1. RowsOK' /\ CallsOK'
  <2>1. RowsOK'
    BY DEF ReadHolders, rows, client, IInv, RowsOK
  <2>2. late' \in [Tasks -> Nat]
    BY DEF ReadHolders, IInv, CallsOK
  <2>3. work' \in [task : Tasks \union {NoTask}, awaited : BOOLEAN, holders : SUBSET Tasks]
        /\ work'.task \in Tasks
    BY <1>0 DEF Holders
  <2> QED
    BY <2>1, <2>2, <2>3 DEF ReadHolders, client, IInv, CallsOK
<1>2. GrantsGrow'
  BY DEF ReadHolders, rows, client, IInv, GrantsGrow
<1>3. hand[t] = NoGrant
  BY DEF ReadHolders, IInv, RowsOK, CallsOK, InHand, Asking
<1>4. InHand'
  <2>1. \A u \in Tasks : u # t => late'[u] = late[u]
    BY DEF ReadHolders, IInv, CallsOK
  <2>2. work'.task = t
    BY <1>0
  <2> QED
    BY <1>3, <2>1, <2>2 DEF ReadHolders, rows, client, IInv, InHand, Asking
<1>5. CountKept'
  <2>1. Holders' = Holders
    BY DEF ReadHolders, rows, Holders, Held
  <2>2. work'.holders = Holders /\ work'.task = t /\ (work'.awaited => late[t] = 0)
    BY <1>0
  <2>3. work'.awaited => late'[t] = 0
    BY <2>2 DEF ReadHolders, IInv, CallsOK
  <2> QED
    BY <2>1, <2>2, <2>3 DEF ReadHolders, IInv, CountKept
<1> QED
  BY <1>1, <1>2, <1>4, <1>5 DEF IInv

(* An answer is a job's end, and takes nothing from anybody.               *)
LEMMA AnswerEnds ==
  ASSUME IInv, NEW g \in Nat, Answer(g), pc \in {"holders", "grant"}
  PROVE  /\ hand' \in [Tasks -> Nat] /\ asking' \in [Tasks -> {"no", "sent", "sleeping"}]
         /\ pc' = "idle" /\ work' = Work0
         /\ \A t \in Tasks : t # work.task => hand'[t] = hand[t] /\ asking'[t] = asking[t]
         /\ hand[work.task] = NoGrant
         /\ hand'[work.task] \in {NoGrant, g}
         /\ hand'[work.task] # NoGrant => asking'[work.task] = "no" /\ late[work.task] = 0
<1> USE DEF NoGrant
<1>1. work.task \in Tasks /\ hand[work.task] = NoGrant /\ (work.awaited => late[work.task] = 0)
  BY DEF IInv, CallsOK, RowsOK, InHand, Asking, CountKept
<1> QED
  BY <1>1 DEF Answer, EndJob, IInv, RowsOK, CallsOK

(* The parts that an answer leaves alone when no slot is granted.          *)
LEMMA RefusedStep ==
  ASSUME IInv, Answer(NoGrant), pc \in {"holders", "grant"},
         UNCHANGED <<rows, released, network>>
  PROVE  IInv'
<1> USE DEF NoGrant, RunningStates
<1>1. hand' = hand /\ pc' = "idle" /\ work' = Work0
      /\ asking' \in [Tasks -> {"no", "sent", "sleeping"}]
      /\ \A t \in Tasks : hand[t] # NoGrant => t # work.task /\ asking'[t] = asking[t]
  <2>1. \A t \in Tasks : hand'[t] = hand[t]
    BY AnswerEnds
  <2>2. hand' = hand
    BY <2>1, AnswerEnds DEF IInv, RowsOK
  <2> QED
    BY <2>2, AnswerEnds
<1>2. RowsOK' /\ CallsOK'
  BY <1>1 DEF Work0, rows, network, IInv, RowsOK, CallsOK
<1>3. GrantsGrow'
  BY <1>1 DEF rows, network, IInv, GrantsGrow
<1>4. InHand'
  BY <1>1 DEF rows, network, IInv, InHand, Asking
<1>5. CountKept'
  <2>1. Holders' = Holders
    BY DEF rows, Holders, Held
  <2> QED
    BY <1>1, <2>1, CountEnds DEF IInv
<1> QED
  BY <1>2, <1>3, <1>4, <1>5 DEF IInv

(* A new grant is newer than every one that is about, so that no release   *)
(* names it; it was counted if it leaves room for one.                     *)
LEMMA GrantedStep ==
  ASSUME IInv, Grant(work.task), pc \in {"holders", "grant"},
         UNCHANGED <<state, released, network>>,
         Cardinality(Holders') <= MaxSlots
  PROVE  IInv'
<1> USE DEF NoGrant, RunningStates
<1> DEFINE t == work.task  g == granted[t] + 1
<1>0. t \in Tasks /\ g \in Nat /\ g > 0
  BY DEF IInv, RowsOK, CallsOK
<1>1. granted' = [granted EXCEPT ![t] = g] /\ slot' = [slot EXCEPT ![t] = g] /\ Answer(g)
  <2>1. granted' = [granted EXCEPT ![t] = g]
    BY DEF Grant
  <2>2. granted'[t] = g
    BY <1>0, <2>1 DEF IInv, RowsOK
  <2> QED
    BY <2>1, <2>2 DEF Grant
<1>2. RowsOK' /\ CallsOK'
  <2>1. hand' \in [Tasks -> Nat] /\ asking' \in [Tasks -> {"no", "sent", "sleeping"}]
        /\ pc' = "idle" /\ work' = Work0
    BY <1>0, <1>1, AnswerEnds
  <2>2. slot' \in [Tasks -> Nat] /\ granted' \in [Tasks -> Nat]
    BY <1>0, <1>1 DEF IInv, RowsOK
  <2>3. Work0 \in [task : Tasks \union {NoTask}, awaited : BOOLEAN, holders : SUBSET Tasks]
    BY DEF Work0
  <2>4. RowsOK'
    BY <2>1, <2>2 DEF network, IInv, RowsOK
  <2>5. CallsOK'
    BY <2>1, <2>3 DEF network, IInv, CallsOK
  <2> QED
    BY <2>4, <2>5
<1>3. \A u \in Tasks : u # t => slot'[u] = slot[u] /\ granted'[u] = granted[u]
                                /\ hand'[u] = hand[u] /\ asking'[u] = asking[u]
  BY <1>0, <1>1, AnswerEnds DEF IInv, RowsOK
<1>4. slot'[t] = g /\ granted'[t] = g /\ hand'[t] \in {NoGrant, g}
      /\ (hand'[t] # NoGrant => asking'[t] = "no" /\ late[t] = 0)
  BY <1>0, <1>1, AnswerEnds DEF IInv, RowsOK
<1>5. GrantsGrow'
  <2>1. \A u \in Tasks : granted[u] <= granted'[u]
    BY <1>0, <1>3, <1>4 DEF IInv, RowsOK
  <2>2. \A u \in Tasks : slot'[u] <= granted'[u] /\ hand'[u] <= granted'[u]
    BY <1>0, <1>3, <1>4 DEF IInv, GrantsGrow
  <2>3. \A u \in Tasks : released[u] <= granted'[u]
    BY <2>1, <1>2 DEF IInv, RowsOK, GrantsGrow
  <2>4. \A m \in releases : m.grant <= granted'[m.task]
    BY <2>1, <1>2 DEF IInv, RowsOK, GrantsGrow
  <2> QED
    BY <2>2, <2>3, <2>4 DEF GrantsGrow, network
<1>6. InHand'
  <2> SUFFICES ASSUME NEW u \in Tasks, hand'[u] # NoGrant
               PROVE  /\ ~Asking(u)' /\ released'[u] # hand'[u]
                      /\ \A m \in releases' : m.task = u => m.grant # hand'[u]
                      /\ (state'[u] \in RunningStates => slot'[u] = hand'[u])
    BY DEF InHand
  <2>1. CASE u = t
    <3>1. hand'[t] = g /\ slot'[t] = g /\ late'[t] = 0 /\ asking'[t] = "no" /\ pc' = "idle"
      BY <2>1, <1>0, <1>1, <1>4, AnswerEnds DEF network
    <3>2. released[t] < g
      BY <1>0 DEF IInv, RowsOK, GrantsGrow
    <3>3. \A m \in releases : m.task = t => m.grant < g
      BY <1>0 DEF IInv, RowsOK, GrantsGrow
    <3> QED
      BY <2>1, <1>0, <3>1, <3>2, <3>3 DEF Asking, network, IInv, RowsOK
  <2>2. CASE u # t
    <3>1. pc' = "idle"
      BY <1>0, <1>1, AnswerEnds
    <3> QED
      BY <2>2, <1>3, <3>1 DEF IInv, InHand, Asking, network
  <2> QED
    BY <2>1, <2>2
<1>7. CountKept'
  BY <1>0, <1>1, AnswerEnds DEF CountKept
<1> QED
  BY <1>2, <1>5, <1>6, <1>7 DEF IInv

(* Who holds a slot and has it renewed holds one slot still.               *)
LEMMA RenewSlotStep ==
  ASSUME IInv, RenewSlot
  PROVE  IInv'
<1> USE DEF NoGrant, RunningStates
<1>1. CASE Held(work.task) /\ state[work.task] \in RunningStates
  <2>1. work.task \in Holders
    BY <1>1 DEF RenewSlot, IInv, CallsOK, Holders
  <2>2. slot' = [slot EXCEPT ![work.task] = granted'[work.task]] /\ Grant(work.task)
    BY <1>1 DEF RenewSlot, Grant
  <2>3. Holders' \subseteq Holders
    BY <2>1, <2>2 DEF RenewSlot, IInv, RowsOK, Holders, Held
  <2>4. Cardinality(Holders') <= MaxSlots
    <3>1. Holders \in SUBSET Tasks
      BY DEF Holders
    <3>2. Cardinality(Holders) \in Nat /\ Cardinality(Holders') \in Nat
          /\ Cardinality(Holders') <= Cardinality(Holders)
      BY <2>3, <3>1, TasksCount
    <3> QED
      BY <3>2, SlotsAssumption DEF IInv, CountKept
  <2> QED
    BY <2>2, <2>4, GrantedStep DEF RenewSlot, network
<1>2. CASE ~(Held(work.task) /\ state[work.task] \in RunningStates)
  BY <1>2, RefusedStep DEF RenewSlot, rows, network
<1> QED
  BY <1>1, <1>2

(* A slot is in turn only if one was free of the holders read.             *)
LEMMA JoinLineStep ==
  ASSUME IInv, LineOK, JoinLine
  PROVE  IInv'
<1> USE DEF NoGrant, RunningStates
<1>1. CASE Answer(NoGrant)
  BY <1>1, RefusedStep DEF JoinLine, rows, network
<1>2. CASE ~Answer(NoGrant)
  <2>1. \A S \in SUBSET Tasks : \A e : \A w \in InTurn(S, e) : Free > 0
    <3>1. Free \in Int
      BY TasksCount, SlotsAssumption DEF IInv, CallsOK, Free
    <3>2. \A S \in SUBSET Tasks : Cardinality(S) \in Nat
      BY TasksCount
    <3> QED
      BY <3>1, <3>2 DEF InTurn
  <2>2. {w \in waiters \union {work.task} : w = work.task \/ w \notin unseen} \in SUBSET Tasks
    BY DEF JoinLine, IInv, CallsOK, LineOK
  <2>3. Free > 0 /\ pc' = "grant" /\ UNCHANGED <<work, asking, hand>>
    BY <1>2, <2>1, <2>2, Zenon DEF JoinLine, Request
  <2>4. RowsOK' /\ CallsOK'
    BY <2>3 DEF JoinLine, rows, network, IInv, RowsOK, CallsOK
  <2>5. GrantsGrow'
    BY <2>3 DEF JoinLine, rows, network, IInv, GrantsGrow
  <2>6. InHand'
    BY <2>3 DEF JoinLine, rows, network, IInv, InHand, Asking
  <2>7. CountKept'
    <3>1. Cardinality(work.holders) \in Nat
      BY TasksCount DEF IInv, CallsOK
    <3>2. Cardinality(work.holders) < MaxSlots
      BY <2>3, <3>1, SlotsAssumption DEF Free
    <3>3. Holders' = Holders
      BY DEF JoinLine, rows, Holders, Held
    <3> QED
      BY <2>3, <3>2, <3>3 DEF JoinLine, network, IInv, CountKept
  <2> QED
    BY <2>4, <2>5, <2>6, <2>7 DEF IInv
<1> QED
  BY <1>1, <1>2

(* With the slot granted, the holders are those counted and one more.      *)
LEMMA GrantSlotStep ==
  ASSUME IInv, GrantSlot
  PROVE  IInv'
<1> USE DEF NoGrant, RunningStates
<1>1. CASE state[work.task] = "ACTIVE" /\ ~Held(work.task)
  <2>1. slot' = [slot EXCEPT ![work.task] = granted'[work.task]] /\ Grant(work.task)
    BY <1>1 DEF GrantSlot, Grant
  <2>2. Holders' \subseteq work.holders \union {work.task}
    <3>1. Holders \subseteq work.holders
      BY DEF GrantSlot, IInv, CountKept
    <3> QED
      BY <2>1, <3>1 DEF GrantSlot, IInv, RowsOK, Holders, Held
  <2>3. Cardinality(Holders') <= MaxSlots
    <3>1. work.holders \in SUBSET Tasks /\ work.task \in Tasks
      BY DEF GrantSlot, IInv, CallsOK
    <3>2. work.holders \union {work.task} \in SUBSET Tasks
      BY <3>1
    <3>3. Cardinality(Holders') <= Cardinality(work.holders \union {work.task})
      BY <2>2, <3>2, TasksCount
    <3>4. Cardinality(work.holders \union {work.task}) <= Cardinality(work.holders) + 1
      BY <3>1, OneMore
    <3>5. Cardinality(work.holders) \in Nat /\ Cardinality(work.holders \union {work.task}) \in Nat
          /\ Cardinality(Holders') \in Nat
      BY <2>2, <3>1, <3>2, TasksCount
    <3>6. Cardinality(work.holders) < MaxSlots
      BY DEF GrantSlot, IInv, CountKept
    <3> QED
      BY <3>3, <3>4, <3>5, <3>6, SlotsAssumption
  <2> QED
    BY <2>1, <2>3, GrantedStep DEF GrantSlot, network
<1>2. CASE ~(state[work.task] = "ACTIVE" /\ ~Held(work.task))
  BY <1>2, RefusedStep DEF GrantSlot, rows, network
<1> QED
  BY <1>1, <1>2

(* A task that ends keeps its slot, and is no holder any more.             *)
LEMMA EndStepOfTask ==
  ASSUME IInv, NEW t \in Tasks, End(t)
  PROVE  IInv'
<1> USE DEF NoGrant, RunningStates
<1>0. work' = [task |-> t, awaited |-> FALSE, holders |-> {}]
  BY DEF End, Work0
<1>1. RowsOK' /\ CallsOK'
  <2>1. RowsOK'
    BY DEF End, client, network, IInv, RowsOK
  <2>2. work' \in [task : Tasks \union {NoTask}, awaited : BOOLEAN, holders : SUBSET Tasks]
        /\ work'.task \in Tasks
    BY <1>0
  <2> QED
    BY <2>1, <2>2 DEF End, client, network, IInv, CallsOK
<1>2. GrantsGrow'
  BY DEF End, client, network, IInv, GrantsGrow
<1>3. InHand'
  BY <1>0 DEF End, client, network, IInv, RowsOK, InHand, Asking
<1>4. CountKept'
  <2>1. Holders' \subseteq Holders /\ state'[t] = "ENDED"
    BY DEF End, IInv, RowsOK, Holders, Held
  <2>2. Cardinality(Holders') <= MaxSlots
    <3>1. Holders \in SUBSET Tasks
      BY DEF Holders
    <3>2. Cardinality(Holders) \in Nat /\ Cardinality(Holders') \in Nat
          /\ Cardinality(Holders') <= Cardinality(Holders)
      BY <2>1, <3>1, TasksCount
    <3> QED
      BY <3>2, SlotsAssumption DEF IInv, CountKept
  <2> QED
    BY <1>0, <2>1, <2>2 DEF End, CountKept
<1> QED
  BY <1>1, <1>2, <1>3, <1>4 DEF IInv

(* With its container the slot in hand is gone.                            *)
LEMMA DiscardStep ==
  ASSUME IInv, Discard
  PROVE  IInv'
<1> USE DEF NoGrant, RunningStates
<1>1. work.task \in Tasks /\ state[work.task] = "ENDED" /\ Holders' = Holders
  BY DEF Discard, rows, Holders, Held, IInv, CallsOK, CountKept
<1>2. CASE Gone(work.task) /\ pc' = "forget" /\ UNCHANGED <<work, faults>>
  <2>1. RowsOK' /\ CallsOK'
    BY <1>1, <1>2 DEF Discard, Gone, rows, IInv, RowsOK, CallsOK
  <2>2. GrantsGrow'
    BY <1>1, <1>2 DEF Discard, Gone, rows, IInv, RowsOK, GrantsGrow
  <2>3. InHand'
    BY <1>1, <1>2 DEF Discard, Gone, rows, IInv, RowsOK, CallsOK, InHand, Asking
  <2>4. CountKept'
    BY <1>1, <1>2 DEF Discard, rows, IInv, CountKept
  <2> QED
    BY <2>1, <2>2, <2>3, <2>4 DEF IInv
<1>3. CASE EndJob /\ UNCHANGED <<client, late>>
  <2>1. RowsOK' /\ CallsOK'
    BY <1>3 DEF Discard, EndJob, Work0, rows, client, IInv, RowsOK, CallsOK
  <2>2. GrantsGrow'
    BY <1>3 DEF Discard, rows, client, IInv, GrantsGrow
  <2>3. InHand'
    BY <1>3 DEF Discard, EndJob, rows, client, IInv, InHand, Asking
  <2>4. CountKept'
    BY <1>1, <1>3, CountEnds DEF EndJob, IInv
  <2> QED
    BY <2>1, <2>2, <2>3, <2>4 DEF IInv
<1> QED
  BY <1>2, <1>3 DEF Discard

-----------------------------------------------------------------------------
(* The line: who has waited longest, of any of the waiters,                *)
LEMMA OrderedPart ==
  ASSUME NEW S, NEW T \in SUBSET S, NEW e, Orders(e, S)
  PROVE  Orders(e \cap (T \X T), T)
BY DEF Orders

(* and with one more that begins to wait.                                  *)
LEMMA OrderedJoined ==
  ASSUME NEW S, NEW t, t \notin S, NEW e \in SUBSET (S \X S), Orders(e, S)
  PROVE  Orders(e \union (S \X {t}), S \union {t})
BY DEF Orders

(* Those that remain in line are still in line.                            *)
LEMMA RemainOrdered ==
  ASSUME NEW S \in SUBSET Tasks, NEW T \in SUBSET S, NEW e, Orders(e, S), Remain(T, e),
         unseen' \subseteq T
  PROVE  LineOK'
<1>1. Orders(ahead', waiters')
  BY OrderedPart DEF Remain
<1> QED
  BY <1>1 DEF Remain, LineOK

(* A request joins the line at its end, if it is not in line.              *)
LEMMA RequestLine ==
  ASSUME LineOK, NEW t \in Tasks, Request(t)
  PROVE  LineOK'
<1> DEFINE earlier == IF t \in waiters THEN ahead ELSE ahead \union (waiters \X {t})
           waiting == {w \in waiters \union {t} : w = t \/ w \notin unseen}
<1>1. Orders(earlier, waiters \union {t})
  <2>1. CASE t \in waiters
    <3>1. waiters \union {t} = waiters
      BY <2>1
    <3> QED
      BY <2>1, <3>1 DEF LineOK
  <2>2. CASE t \notin waiters
    BY <2>2, OrderedJoined DEF LineOK
  <2> QED
    BY <2>1, <2>2
<1>2. \E T \in {waiting, waiting \ {t}} : Remain(T, earlier) /\ unseen' = {}
  BY Zenon DEF Request
<1> HIDE DEF earlier
<1>3. \A T \in {waiting, waiting \ {t}} : T \subseteq waiters \union {t}
  OBVIOUS
<1>4. waiters \union {t} \in SUBSET Tasks
  BY DEF LineOK
<1> QED
  BY <1>1, <1>2, <1>3, <1>4, RemainOrdered

(* Every step leaves a line.                                               *)
LEMMA LineStep ==
  ASSUME IInv, LineOK, [Next]_vars
  PROVE  LineOK'
<1>1. CASE UNCHANGED line
  BY <1>1 DEF line, LineOK
<1>2. CASE JoinLine
  <2>1. work.task \in Tasks
    BY <1>2 DEF JoinLine, IInv, CallsOK
  <2> QED
    BY <1>1, <1>2, <2>1, RequestLine DEF JoinLine
<1>3. CASE Forget
  <2>1. Remain(waiters \ {work.task}, ahead) /\ unseen' = unseen \ {work.task}
    BY <1>3 DEF Forget
  <2> QED
    BY <2>1, RemainOrdered DEF LineOK
<1>4. CASE Crash
  BY <1>4 DEF Crash, LineOK, Orders
<1>5. ASSUME NEW t \in Tasks, BecomeUnseen(t)
      PROVE  LineOK'
  BY <1>5 DEF BecomeUnseen, LineOK
<1>6. CASE RenewSlot \/ GrantSlot \/ Discard
  BY <1>1, <1>6 DEF RenewSlot, GrantSlot, Discard
<1>7. ASSUME NEW t \in Tasks,
             Container(t) \/ ReadHolders(t) \/ Cancel(t) \/ End(t) \/ RemoveOrphan(t)
      PROVE  UNCHANGED line
  BY <1>7 DEF Container, BeginStep, EndStep, Poll, GiveUp, ReportProgress, Abort, StopWaiting,
     Exit, ReadHolders, Cancel, End, RemoveOrphan, queueVars
<1>8. ASSUME NEW m \in releases, LoseRelease(m) \/ ReleaseSlot(m)
      PROVE  UNCHANGED line
  BY <1>8 DEF LoseRelease, ReleaseSlot, queueVars
<1> QED
  BY <1>1, <1>2, <1>3, <1>4, <1>5, <1>6, <1>7, <1>8 DEF Next, Serve, vars, queueVars

-----------------------------------------------------------------------------
(* The theorems.                                                           *)

(* Nobody has a slot to begin with.                                        *)
LEMMA InitIInv ==
  ASSUME Init
  PROVE  IInv
<1> USE DEF NoGrant, RunningStates
<1>1. RowsOK /\ CallsOK
  BY DEF Init, Work0, RowsOK, CallsOK
<1>2. InHand /\ GrantsGrow
  BY DEF Init, InHand, GrantsGrow
<1>3. CountKept
  <2>1. Holders = {}
    BY DEF Init, Holders, Held
  <2>2. Cardinality(Holders) = 0
    BY <2>1, FS_EmptySet
  <2> QED
    BY <2>2, SlotsAssumption DEF Init, CountKept
<1> QED
  BY <1>1, <1>2, <1>3 DEF IInv

(* Every step, one case for each action.                                   *)
LEMMA StepIInv ==
  ASSUME IInv, LineOK, [Next]_vars
  PROVE  IInv'
<1>1. CASE Serve
  BY <1>1, RenewSlotStep, JoinLineStep, GrantSlotStep, DiscardStep, ForgetStep DEF Serve
<1>2. CASE Crash
  BY <1>2, CrashStep
<1>3. ASSUME NEW t \in Tasks, Container(t)
      PROVE  IInv'
  BY <1>3, BeginStepStep, EndStepStep, PollStep, GiveUpStep, ReportProgressStep, AbortStep,
     StopWaitingStep, ExitStep DEF Container
<1>4. ASSUME NEW t \in Tasks,
             ReadHolders(t) \/ BecomeUnseen(t) \/ Cancel(t) \/ End(t) \/ RemoveOrphan(t)
      PROVE  IInv'
  BY <1>4, ReadHoldersStep, BecomeUnseenStep, CancelStep, EndStepOfTask, RemoveOrphanStep
<1>5. ASSUME NEW m \in releases, LoseRelease(m) \/ ReleaseSlot(m)
      PROVE  IInv'
  BY <1>5, LoseReleaseStep, ReleaseSlotStep
<1>6. CASE UNCHANGED vars
  BY <1>6 DEF vars, rows, queueVars, client, network, IInv, RowsOK, CallsOK, InHand, GrantsGrow,
     CountKept, Asking, Holders, Held
<1> QED
  BY <1>1, <1>2, <1>3, <1>4, <1>5, <1>6 DEF Next

(* The inductive invariant: what containers, releases on their way and the *)
(* job at the head of the queue know of grants (#requestSlot).             *)
THEOREM IInvCorrect == Spec => []IInv
<1>1. Init => IInv /\ LineOK
  BY InitIInv DEF Init, LineOK, Orders
<1>2. IInv /\ LineOK /\ [Next]_vars => (IInv /\ LineOK)'
  BY StepIInv, LineStep
<1> QED
  BY <1>1, <1>2, PTL DEF Spec

(* A container processes on the grant its task's row has: no release, late *)
(* or repeated, clears a newer grant (#releaseSlot, renewSlot).            *)
THEOREM ProcessingHoldsCorrect == Spec => []ProcessingHolds
<1>1. IInv => ProcessingHolds
  BY DEF IInv, RowsOK, InHand, ProcessingHolds, Using, Processing
<1> QED
  BY <1>1, IInvCorrect, PTL

(* No more containers of running tasks process at once than there are      *)
(* slots (#requestSlot, LocalProcessingSlots.request).                     *)
THEOREM SlotsAreEnoughCorrect == Spec => []SlotsAreEnough
<1>1. ASSUME IInv
      PROVE  SlotsAreEnough
  <2> DEFINE U == {t \in Using : state[t] \in RunningStates}
  <2>1. U \subseteq Holders /\ Holders \in SUBSET Tasks
    BY <1>1 DEF IInv, InHand, Using, Processing, Holders, Held
  <2>2. Cardinality(U) <= Cardinality(Holders) /\ Cardinality(U) \in Nat /\ Cardinality(Holders) \in Nat
    BY <2>1, TasksCount
  <2>3. Cardinality(Holders) <= MaxSlots
    BY <1>1 DEF IInv, CountKept
  <2> QED
    BY <2>2, <2>3, SlotsAssumption DEF SlotsAreEnough
<1>2. IInv => SlotsAreEnough
  BY <1>1
<1> QED
  BY <1>2, IInvCorrect, PTL

-----------------------------------------------------------------------------
(* No slot is out of sight: who is asked about waits for the answer,       *)
WaitsOn == \A t \in Tasks : t \in up \ aborted /\ Asking(t) => asking[t] # "no"

Sight == WaitsOn /\ SlotIsInSight

(* so that a slot granted to a request that was given up on is renewed.    *)
(* Here are the steps of containers,                                       *)
LEMMA SightOfContainer ==
  ASSUME IInv, Sight, NEW t \in Tasks, Container(t)
  PROVE  Sight'
<1> USE DEF NoGrant, RunningStates
<1>1. CASE BeginStep(t)
  <2>1. WaitsOn'
    BY <1>1 DEF BeginStep, rows, queueVars, client, network, faults, IInv, RowsOK, CallsOK,
       InHand, Asking, Sight, WaitsOn
  <2>2. SlotIsInSight'
    BY <1>1 DEF BeginStep, rows, queueVars, client, network, faults, IInv, RowsOK, CallsOK,
       InHand, Asking, Held,
       Sight, SlotIsInSight
  <2> QED
    BY <2>1, <2>2 DEF Sight
<1>2. CASE EndStep(t)
  <2>1. WaitsOn'
    BY <1>2 DEF EndStep, Processing, Release, rows, queueVars, client, network, faults, IInv,
       RowsOK, CallsOK, InHand, Asking, Sight, WaitsOn
  <2>2. SlotIsInSight'
    <3>1. state[t] \in RunningStates => slot[t] = hand[t]
      BY <1>2 DEF EndStep, Processing, IInv, InHand
    <3>2. hand'[t] = hand[t] \/ released'[t] = hand[t]
      BY <1>2 DEF EndStep, IInv, RowsOK
    <3>3. \A u \in Tasks : u # t => hand'[u] = hand[u] /\ released'[u] = released[u]
      BY <1>2 DEF EndStep, IInv, RowsOK
    <3> QED
      BY <1>2, <3>1, <3>2, <3>3 DEF EndStep, rows, Held, Sight, SlotIsInSight
  <2> QED
    BY <2>1, <2>2 DEF Sight
<1>3. CASE Poll(t)
  <2>1. WaitsOn'
    BY <1>3 DEF Poll, rows, queueVars, client, network, faults, IInv, RowsOK, CallsOK, InHand,
       Asking, Sight, WaitsOn
  <2>2. SlotIsInSight'
    BY <1>3 DEF Poll, rows, queueVars, client, network, faults, IInv, RowsOK, CallsOK, InHand,
       Asking, Held,
       Sight, SlotIsInSight
  <2> QED
    BY <2>1, <2>2 DEF Sight
<1>4. CASE GiveUp(t)
  <2>1. WaitsOn'
    BY <1>4 DEF GiveUp, rows, queueVars, client, network, faults, IInv, RowsOK, CallsOK, InHand,
       Asking, Sight, WaitsOn
  <2>2. SlotIsInSight'
    BY <1>4 DEF GiveUp, rows, queueVars, client, network, faults, IInv, RowsOK, CallsOK, InHand,
       Asking, Held,
       Sight, SlotIsInSight
  <2> QED
    BY <2>1, <2>2 DEF Sight
<1>5. CASE ReportProgress(t)
  <2>1. WaitsOn'
    BY <1>5 DEF ReportProgress, Release, rows, queueVars, client, network, faults, IInv, RowsOK,
       CallsOK, InHand, Asking, Sight, WaitsOn
  <2>2. SlotIsInSight'
    BY <1>5 DEF ReportProgress, Release, rows, queueVars, client, network, faults, IInv, RowsOK,
       CallsOK, InHand, Asking, Held,
       Sight, SlotIsInSight
  <2> QED
    BY <2>1, <2>2 DEF Sight
<1>6. CASE Abort(t)
  <2>1. WaitsOn'
    BY <1>6 DEF Abort, rows, queueVars, client, network, faults, IInv, RowsOK, CallsOK, InHand,
       Asking, Sight, WaitsOn
  <2>2. SlotIsInSight'
    BY <1>6 DEF Abort, rows, queueVars, client, network, faults, IInv, RowsOK, CallsOK, InHand,
       Asking, Held,
       Sight, SlotIsInSight
  <2> QED
    BY <2>1, <2>2 DEF Sight
<1>7. CASE StopWaiting(t)
  <2>1. WaitsOn'
    BY <1>7 DEF StopWaiting, rows, queueVars, client, network, faults, IInv, RowsOK, CallsOK,
       InHand, Asking, Sight, WaitsOn
  <2>2. SlotIsInSight'
    BY <1>7 DEF StopWaiting, rows, queueVars, client, network, faults, IInv, RowsOK, CallsOK,
       InHand, Asking, Held,
       Sight, SlotIsInSight
  <2> QED
    BY <2>1, <2>2 DEF Sight
<1>8. CASE Exit(t)
  <2>1. WaitsOn'
    BY <1>8 DEF Exit, Gone, rows, queueVars, client, network, faults, IInv, RowsOK, CallsOK,
       InHand, Asking, Sight, WaitsOn
  <2>2. SlotIsInSight'
    BY <1>8 DEF Exit, Gone, rows, queueVars, client, network, faults, IInv, RowsOK, CallsOK,
       InHand, Asking, Held,
       Sight, SlotIsInSight
  <2> QED
    BY <2>1, <2>2 DEF Sight
<1> QED
  BY <1>1, <1>2, <1>3, <1>4, <1>5, <1>6, <1>7, <1>8 DEF Container

(* an answer,                                                              *)
LEMMA SightOfAnswer ==
  ASSUME IInv, Sight, NEW g \in Nat, Answer(g), pc \in {"holders", "grant"},
         UNCHANGED <<state, up, aborted, released, network>>,
         \/ g = NoGrant /\ UNCHANGED slot
         \/ g # NoGrant /\ slot' = [slot EXCEPT ![work.task] = g]
  PROVE  Sight'
<1> USE DEF NoGrant, RunningStates
<1> DEFINE t == work.task
<1>0. t \in Tasks /\ pc' = "idle"
  BY AnswerEnds DEF IInv, CallsOK
<1>1. \A u \in Tasks : u # t => hand'[u] = hand[u] /\ asking'[u] = asking[u] /\ slot'[u] = slot[u]
  BY <1>0, AnswerEnds DEF IInv, RowsOK
<1>2. t \in up \ aborted =>
        asking'[t] # "no" \/ (hand'[t] = g /\ slot'[t] = g /\ g # NoGrant)
  <2>1. t \in up \ aborted => asking[t] # "no"
    BY <1>0 DEF Sight, WaitsOn, Asking
  <2>2. CASE work.awaited /\ asking[t] = "sent"
    <3>1. asking' = [asking EXCEPT ![t] = IF g = NoGrant THEN "sleeping" ELSE "no"]
          /\ hand' = [hand EXCEPT ![t] = g]
      BY <2>2 DEF Answer
    <3>2. asking'[t] = (IF g = NoGrant THEN "sleeping" ELSE "no") /\ hand'[t] = g
      BY <1>0, <3>1 DEF IInv, RowsOK, CallsOK
    <3>3. g # NoGrant => slot'[t] = g
      BY <1>0 DEF IInv, RowsOK
    <3> QED
      BY <3>2, <3>3
  <2>3. CASE ~(work.awaited /\ asking[t] = "sent")
    <3>1. asking' = asking
      BY <2>3 DEF Answer
    <3> QED
      BY <2>1, <3>1
  <2> QED
    BY <2>2, <2>3
<1>3. t \in up \ aborted => asking'[t] # "no" \/ late'[t] = 0
  <2>1. hand'[t] # NoGrant => late[t] = 0
    BY <1>0, AnswerEnds
  <2> QED
    BY <1>2, <2>1 DEF network
<1>4. WaitsOn'
  <2> SUFFICES ASSUME NEW u \in (up \ aborted)', u \in Tasks, Asking(u)'
               PROVE  asking'[u] # "no"
    BY DEF WaitsOn
  <2>1. CASE u = t
    BY <2>1, <1>0, <1>3 DEF Asking
  <2>2. CASE u # t
    BY <2>2, <1>0, <1>1 DEF Asking, Sight, WaitsOn, network
  <2> QED
    BY <2>1, <2>2
<1>5. SlotIsInSight'
  <2> SUFFICES ASSUME NEW u \in (up \ aborted)', u \in Tasks, Held(u)', state'[u] \in RunningStates
               PROVE  slot'[u] \in {hand'[u], released'[u]} \/ asking'[u] # "no"
    BY DEF SlotIsInSight
  <2>1. CASE u = t
    BY <2>1, <1>2 DEF SlotIsInSight
  <2>2. CASE u # t
    BY <2>2, <1>1 DEF Sight, SlotIsInSight, Held
  <2> QED
    BY <2>1, <2>2
<1> QED
  BY <1>4, <1>5 DEF Sight

(* and what remains of the supervisor.                                     *)
LEMMA SightOfServe ==
  ASSUME IInv, Sight, Serve
  PROVE  Sight'
<1> USE DEF NoGrant, RunningStates
<1>0. ASSUME Grant(work.task), pc \in {"holders", "grant"},
             UNCHANGED <<state, up, aborted, released, network>>
      PROVE  Sight'
  <2>1. granted'[work.task] = granted[work.task] + 1 /\ granted'[work.task] \in Nat \ {0}
    BY <1>0 DEF Grant, IInv, RowsOK, CallsOK
  <2> QED
    BY <1>0, <2>1, SightOfAnswer DEF Grant
<1>1. CASE RenewSlot
  BY <1>0, <1>1, SightOfAnswer DEF RenewSlot
<1>2. CASE GrantSlot
  BY <1>0, <1>2, SightOfAnswer DEF GrantSlot
<1>3. CASE JoinLine
  <2>1. CASE Answer(NoGrant)
    BY <1>3, <2>1, SightOfAnswer DEF JoinLine, rows
  <2>2. CASE ~Answer(NoGrant)
    <3>1. pc' = "grant" /\ UNCHANGED <<work, asking, hand>>
      BY <1>3, <2>2, Zenon DEF JoinLine, Request
    <3>2. WaitsOn'
      BY <1>3, <3>1 DEF JoinLine, network, Asking, Sight, WaitsOn
    <3>3. SlotIsInSight'
      BY <1>3, <3>1 DEF JoinLine, rows, Held, Sight, SlotIsInSight
    <3> QED
      BY <3>2, <3>3 DEF Sight
  <2> QED
    BY <2>1, <2>2
<1>4. CASE Discard
  <2>1. WaitsOn'
    BY <1>4 DEF Discard, Gone, EndJob, Work0, rows, client, IInv, CallsOK, Asking, Sight, WaitsOn
  <2>2. SlotIsInSight'
    <3>1. work.task \in Tasks
      BY <1>4 DEF Discard, IInv, CallsOK
    <3>2. CASE Gone(work.task)
      BY <1>4, <3>1, <3>2 DEF Discard, Gone, rows, IInv, RowsOK, CallsOK, Held,
         Sight, SlotIsInSight
    <3>3. CASE UNCHANGED client
      BY <1>4, <3>3 DEF Discard, rows, client, Held, Sight, SlotIsInSight
    <3> QED
      BY <1>4, <3>2, <3>3 DEF Discard
  <2> QED
    BY <2>1, <2>2 DEF Sight
<1>5. CASE Forget
  <2>1. WaitsOn'
    BY <1>5 DEF Forget, EndJob, client, network, Asking, Sight, WaitsOn
  <2>2. SlotIsInSight'
    BY <1>5 DEF Forget, client, IInv, RowsOK, CallsOK, Held, Sight, SlotIsInSight
  <2> QED
    BY <2>1, <2>2 DEF Sight
<1> QED
  BY <1>1, <1>2, <1>3, <1>4, <1>5 DEF Serve

(* A slot leaves the hand only to be repeated as released, and enters a    *)
(* row only for a container that is asking.                                *)
LEMMA SightStep ==
  ASSUME IInv, Sight, [Next]_vars
  PROVE  Sight'
<1> USE DEF NoGrant, RunningStates
<1>1. CASE Crash
  <2>1. WaitsOn'
    BY <1>1 DEF Crash, EndJob, rows, network, IInv, CallsOK, Asking, Sight, WaitsOn
  <2>2. SlotIsInSight'
    BY <1>1 DEF Crash, rows, IInv, CallsOK, Held, Sight, SlotIsInSight
  <2> QED
    BY <2>1, <2>2 DEF Sight
<1>2. ASSUME NEW t \in Tasks, ReadHolders(t)
      PROVE  Sight'
  <2>1. WaitsOn'
    BY <1>2 DEF ReadHolders, rows, queueVars, client, network, faults, IInv, RowsOK, CallsOK,
       Asking, Sight, WaitsOn
  <2>2. SlotIsInSight'
    BY <1>2 DEF ReadHolders, rows, queueVars, client, network, faults, IInv, RowsOK, CallsOK,
       Held, Sight, SlotIsInSight
  <2> QED
    BY <2>1, <2>2 DEF Sight
<1>3. ASSUME NEW t \in Tasks, BecomeUnseen(t)
      PROVE  Sight'
  <2>1. WaitsOn'
    BY <1>3 DEF BecomeUnseen, rows, queueVars, client, network, faults, IInv, RowsOK, CallsOK,
       Asking, Sight, WaitsOn
  <2>2. SlotIsInSight'
    BY <1>3 DEF BecomeUnseen, rows, queueVars, client, network, faults, IInv, RowsOK, CallsOK,
       Held, Sight, SlotIsInSight
  <2> QED
    BY <2>1, <2>2 DEF Sight
<1>4. ASSUME NEW t \in Tasks, Cancel(t)
      PROVE  Sight'
  <2>1. WaitsOn'
    BY <1>4 DEF Cancel, rows, queueVars, client, network, faults, IInv, RowsOK, CallsOK, Asking,
       Sight, WaitsOn
  <2>2. SlotIsInSight'
    BY <1>4 DEF Cancel, rows, queueVars, client, network, faults, IInv, RowsOK, CallsOK, Held,
       Sight, SlotIsInSight
  <2> QED
    BY <2>1, <2>2 DEF Sight
<1>5. ASSUME NEW t \in Tasks, End(t)
      PROVE  Sight'
  <2>1. WaitsOn'
    BY <1>5 DEF End, Work0, rows, queueVars, client, network, faults, IInv, RowsOK, CallsOK,
       Asking, Sight, WaitsOn
  <2>2. SlotIsInSight'
    BY <1>5 DEF End, Work0, rows, queueVars, client, network, faults, IInv, RowsOK, CallsOK, Held,
       Sight, SlotIsInSight
  <2> QED
    BY <2>1, <2>2 DEF Sight
<1>6. ASSUME NEW t \in Tasks, RemoveOrphan(t)
      PROVE  Sight'
  <2>1. WaitsOn'
    BY <1>6 DEF RemoveOrphan, Gone, rows, queueVars, client, network, faults, IInv, RowsOK,
       CallsOK, Asking, Sight, WaitsOn
  <2>2. SlotIsInSight'
    BY <1>6 DEF RemoveOrphan, Gone, rows, queueVars, client, network, faults, IInv, RowsOK,
       CallsOK, Held, Sight, SlotIsInSight
  <2> QED
    BY <2>1, <2>2 DEF Sight
<1>7. ASSUME NEW m \in releases, LoseRelease(m)
      PROVE  Sight'
  <2>1. WaitsOn'
    BY <1>7 DEF LoseRelease, rows, queueVars, client, network, faults, IInv, RowsOK, CallsOK,
       Asking, Sight, WaitsOn
  <2>2. SlotIsInSight'
    BY <1>7 DEF LoseRelease, rows, queueVars, client, network, faults, IInv, RowsOK, CallsOK,
       Held, Sight, SlotIsInSight
  <2> QED
    BY <2>1, <2>2 DEF Sight
<1>8. ASSUME NEW m \in releases, ReleaseSlot(m)
      PROVE  Sight'
  <2>1. WaitsOn'
    BY <1>8 DEF ReleaseSlot, rows, queueVars, client, network, faults, IInv, RowsOK, CallsOK,
       Asking, Sight, WaitsOn
  <2>2. SlotIsInSight'
    BY <1>8 DEF ReleaseSlot, rows, queueVars, client, network, faults, IInv, RowsOK, CallsOK,
       Held, Sight, SlotIsInSight
  <2> QED
    BY <2>1, <2>2 DEF Sight
<1>9. CASE UNCHANGED vars
  BY <1>9 DEF vars, rows, queueVars, client, network, Asking, Held, Sight, WaitsOn, SlotIsInSight
<1> QED
  BY <1>1, <1>2, <1>3, <1>4, <1>5, <1>6, <1>7, <1>8, <1>9, SightOfContainer, SightOfServe DEF Next

(* A slot in a row is one its container has, asks for again or has given   *)
(* back and keeps giving back (LocalProcessing, reportProgress).           *)
THEOREM SlotIsInSightCorrect == Spec => []SlotIsInSight
<1>1. Init => Sight
  BY DEF Init, NoGrant, Asking, Held, Sight, WaitsOn, SlotIsInSight
<1>2. IInv /\ Sight /\ [Next]_vars => Sight'
  BY SightStep
<1>3. Sight => SlotIsInSight
  BY DEF Sight
<1> QED
  BY <1>1, <1>2, <1>3, IInvCorrect, PTL DEF Spec

-----------------------------------------------------------------------------
(* While no kill fails and nothing restarts, the tasks that end are the    *)
(* one at the head of the queue and those whose container is gone, so that *)
(* every slot in a row is one that was granted when it was free.           *)
AllHeld == {t \in Tasks : Held(t)}

EndedKept ==
  /\ \A t \in Tasks : state[t] = "ENDED" =>
       (pc \in {"discard", "forget"} /\ work.task = t) \/ (t \notin up /\ ~Held(t))
  /\ pc = "forget" => work.task \notin up /\ hand[work.task] = NoGrant
  /\ \A t \in Tasks : hand[t] # NoGrant => slot[t] = hand[t]
  /\ Cardinality(AllHeld) <= MaxSlots

Calm == failures + crashes = 0

Kept == failures \in Nat /\ crashes \in Nat /\ (Calm => EndedKept)

(* Faults are only counted up.                                             *)
LEMMA StaysCalm ==
  ASSUME Kept, [Next]_vars
  PROVE  failures' \in Nat /\ crashes' \in Nat /\ (Calm' => Calm /\ UNCHANGED <<failures, crashes>>)
<1>1. CASE UNCHANGED <<failures, crashes>>
  BY <1>1 DEF Kept, Calm
<1>2. CASE failures' = failures + 1 /\ crashes' = crashes
  BY <1>2 DEF Kept, Calm
<1>3. CASE crashes' = crashes + 1 /\ failures' = failures
  BY <1>3 DEF Kept, Calm
<1>4. CASE Serve
  BY <1>1, <1>2, <1>4 DEF Serve, RenewSlot, JoinLine, GrantSlot, Discard, Forget, faults
<1>5. CASE Crash
  BY <1>3, <1>5 DEF Crash
<1>6. ASSUME NEW t \in Tasks,
             \/ Container(t) \/ ReadHolders(t) \/ BecomeUnseen(t)
             \/ Cancel(t) \/ End(t) \/ RemoveOrphan(t)
      PROVE  UNCHANGED <<failures, crashes>>
  BY <1>6 DEF Container, BeginStep, EndStep, Poll, GiveUp, ReportProgress, Abort, StopWaiting,
     Exit, ReadHolders, BecomeUnseen, Cancel, End, RemoveOrphan, network, faults
<1>7. ASSUME NEW m \in releases, LoseRelease(m) \/ ReleaseSlot(m)
      PROVE  UNCHANGED <<failures, crashes>>
  BY <1>7 DEF LoseRelease, ReleaseSlot, faults
<1>8. CASE UNCHANGED vars
  BY <1>1, <1>8 DEF vars, faults
<1> QED
  BY <1>1, <1>4, <1>5, <1>6, <1>7, <1>8 DEF Next

(* Steps that leave the rows and the job alone.                            *)
LEMMA EndedStays ==
  ASSUME RowsOK, CallsOK, EndedKept, UNCHANGED <<state, slot, pc>>, work'.task = work.task, up' \subseteq up,
         \A t \in Tasks : hand'[t] \in {hand[t], NoGrant}
  PROVE  EndedKept'
BY DEF RowsOK, CallsOK, EndedKept, AllHeld, Held

(* No more slots are held when some are given back.                        *)
LEMMA FewerHeld ==
  ASSUME EndedKept, AllHeld' \subseteq AllHeld
  PROVE  Cardinality(AllHeld') <= MaxSlots
<1>1. AllHeld \in SUBSET Tasks
  BY DEF AllHeld
<1>2. Cardinality(AllHeld) \in Nat /\ Cardinality(AllHeld') \in Nat
      /\ Cardinality(AllHeld') <= Cardinality(AllHeld)
  BY <1>1, TasksCount
<1> QED
  BY <1>2, SlotsAssumption DEF EndedKept

(* A slot goes to a task that runs, and is the one its container is told.  *)
LEMMA EndedOfAnswer ==
  ASSUME IInv, EndedKept, NEW g \in Nat, Answer(g), pc \in {"holders", "grant"},
         UNCHANGED <<state, up>>, Cardinality(AllHeld') <= MaxSlots,
         \/ g = NoGrant /\ UNCHANGED slot
         \/ /\ g # NoGrant /\ slot' = [slot EXCEPT ![work.task] = g]
            /\ state[work.task] \in RunningStates
  PROVE  EndedKept'
<1> USE DEF NoGrant, RunningStates
<1>0. work.task \in Tasks /\ pc' = "idle" /\ hand[work.task] = NoGrant
  BY AnswerEnds DEF IInv, CallsOK, InHand, Asking
<1>1. \A u \in Tasks : u # work.task => hand'[u] = hand[u] /\ slot'[u] = slot[u]
  BY <1>0, AnswerEnds DEF IInv, RowsOK
<1>2. hand'[work.task] \in {NoGrant, slot'[work.task]}
  BY <1>0 DEF Answer, IInv, RowsOK
<1>3. \A u \in Tasks : state'[u] = "ENDED" => u \notin up' /\ ~Held(u)'
  BY <1>0, <1>1 DEF EndedKept, Held
<1>4. \A u \in Tasks : hand'[u] # NoGrant => slot'[u] = hand'[u]
  BY <1>1, <1>2 DEF EndedKept
<1> QED
  BY <1>0, <1>3, <1>4 DEF EndedKept

(* The jobs of the queue, one after another: nothing else ends meanwhile,  *)
LEMMA EndedOfServe ==
  ASSUME IInv, EndedKept, Serve, failures \in Nat, UNCHANGED <<failures, crashes>>
  PROVE  EndedKept'
<1> USE DEF NoGrant, RunningStates
<1>0. work.task \in Tasks
  BY DEF Serve, RenewSlot, JoinLine, GrantSlot, Discard, Forget, IInv, CallsOK
<1>1. CASE RenewSlot
  <2>1. CASE Held(work.task) /\ state[work.task] \in RunningStates
    <3>1. slot' = [slot EXCEPT ![work.task] = granted'[work.task]] /\ Answer(granted'[work.task])
      BY <1>1, <2>1 DEF RenewSlot, Grant
    <3>2. granted'[work.task] = granted[work.task] + 1 /\ granted'[work.task] \in Nat \ {0}
      BY <1>0, <1>1, <2>1 DEF RenewSlot, Grant, IInv, RowsOK
    <3>3. AllHeld' \subseteq AllHeld
      BY <1>0, <2>1, <3>1 DEF AllHeld, Held, IInv, RowsOK
    <3> QED
      BY <1>1, <2>1, <3>1, <3>2, <3>3, FewerHeld, EndedOfAnswer DEF RenewSlot
  <2>2. CASE ~(Held(work.task) /\ state[work.task] \in RunningStates)
    <3>1. UNCHANGED slot /\ Answer(NoGrant)
      BY <1>1, <2>2 DEF RenewSlot
    <3>2. AllHeld' \subseteq AllHeld
      BY <3>1 DEF AllHeld, Held
    <3> QED
      BY <1>1, <3>1, <3>2, FewerHeld, EndedOfAnswer DEF RenewSlot
  <2> QED
    BY <2>1, <2>2
<1>2. CASE JoinLine
  <2>1. AllHeld' \subseteq AllHeld
    BY <1>2 DEF JoinLine, rows, AllHeld, Held
  <2>2. CASE Answer(NoGrant)
    BY <1>2, <2>1, <2>2, FewerHeld, EndedOfAnswer DEF JoinLine, rows
  <2>3. CASE ~Answer(NoGrant)
    <3>1. pc' = "grant" /\ UNCHANGED <<work, hand>>
      BY <1>2, <2>3, Zenon DEF JoinLine, Request
    <3> QED
      BY <1>2, <2>1, <3>1, FewerHeld DEF JoinLine, rows, EndedKept, Held
  <2> QED
    BY <2>2, <2>3
<1>3. CASE GrantSlot
  <2>1. CASE state[work.task] = "ACTIVE" /\ ~Held(work.task)
    <3>1. slot' = [slot EXCEPT ![work.task] = granted'[work.task]] /\ Answer(granted'[work.task])
      BY <1>3, <2>1 DEF GrantSlot, Grant
    <3>2. granted'[work.task] = granted[work.task] + 1 /\ granted'[work.task] \in Nat \ {0}
      BY <1>0, <1>3, <2>1 DEF GrantSlot, Grant, IInv, RowsOK
    <3>3. AllHeld' \subseteq Holders \union {work.task}
      <4>1. AllHeld \subseteq Holders
        BY <1>3 DEF GrantSlot, EndedKept, AllHeld, Holders, IInv, RowsOK
      <4> QED
        BY <1>0, <3>1, <4>1 DEF AllHeld, Held, IInv, RowsOK
    <3>4. Holders \subseteq work.holders /\ Cardinality(work.holders) < MaxSlots
          /\ work.holders \in SUBSET Tasks
      BY <1>3 DEF GrantSlot, IInv, CountKept, CallsOK
    <3>5. Cardinality(AllHeld') <= MaxSlots
      <4>1. AllHeld' \in SUBSET (work.holders \union {work.task})
        BY <3>3, <3>4
      <4>2. work.holders \union {work.task} \in SUBSET Tasks
        BY <1>0, <3>4
      <4>3. Cardinality(AllHeld') <= Cardinality(work.holders \union {work.task})
        BY <4>1, <4>2, TasksCount
      <4>4. Cardinality(work.holders \union {work.task}) <= Cardinality(work.holders) + 1
        BY <1>0, <3>4, OneMore
      <4>5. Cardinality(work.holders) \in Nat /\ Cardinality(AllHeld') \in Nat
            /\ Cardinality(work.holders \union {work.task}) \in Nat
        BY <3>4, <4>1, <4>2, TasksCount
      <4> QED
        BY <3>4, <4>3, <4>4, <4>5, SlotsAssumption
    <3> QED
      BY <1>3, <2>1, <3>1, <3>2, <3>5, EndedOfAnswer DEF GrantSlot
  <2>2. CASE ~(state[work.task] = "ACTIVE" /\ ~Held(work.task))
    <3>1. UNCHANGED slot /\ Answer(NoGrant)
      BY <1>3, <2>2 DEF GrantSlot
    <3>2. AllHeld' \subseteq AllHeld
      BY <3>1 DEF AllHeld, Held
    <3> QED
      BY <1>3, <3>1, <3>2, FewerHeld, EndedOfAnswer DEF GrantSlot
  <2> QED
    BY <2>1, <2>2
<1>4. CASE Discard
  <2>1. Gone(work.task) /\ pc' = "forget" /\ UNCHANGED work
    BY <1>4 DEF Discard
  <2>2. AllHeld' \subseteq AllHeld
    BY <1>4 DEF Discard, rows, AllHeld, Held
  <2> QED
    BY <1>0, <1>4, <2>1, <2>2, FewerHeld DEF Discard, Gone, rows, IInv, RowsOK, EndedKept, Held
<1>5. CASE Forget
  <2>1. AllHeld' \subseteq AllHeld
    BY <1>0, <1>5 DEF Forget, AllHeld, Held, IInv, RowsOK
  <2>2. hand[work.task] = NoGrant
    BY <1>5 DEF Forget, EndedKept
  <2> QED
    BY <1>0, <1>5, <2>1, <2>2, FewerHeld DEF Forget, EndJob, client, IInv, RowsOK, EndedKept, Held
<1> QED
  BY <1>1, <1>2, <1>3, <1>4, <1>5 DEF Serve

(* and what containers and the network do takes no slot.                   *)
LEMMA KeptStep ==
  ASSUME IInv, Kept, [Next]_vars
  PROVE  Kept'
<1> USE DEF NoGrant, RunningStates
<1>0. failures' \in Nat /\ crashes' \in Nat /\ (Calm' => Calm /\ UNCHANGED <<failures, crashes>>)
  BY StaysCalm
<1> SUFFICES ASSUME Calm'
             PROVE  EndedKept'
  BY <1>0 DEF Kept
<1>1. IInv /\ RowsOK /\ CallsOK /\ EndedKept /\ failures \in Nat /\ crashes \in Nat
  BY <1>0 DEF Kept, IInv
<1>2. failures' = failures /\ crashes' = crashes
  BY <1>0
<1>3. CASE Serve
  BY <1>1, <1>2, <1>3, EndedOfServe
<1>4. CASE Crash
  BY <1>1, <1>2, <1>4 DEF Crash
<1>5. ASSUME NEW t \in Tasks, Container(t)
      PROVE  EndedKept'
  <2>1. UNCHANGED <<state, slot, pc>> /\ work'.task = work.task /\ up' \subseteq up
    BY <1>1, <1>5 DEF Container, BeginStep, EndStep, Poll, GiveUp, ReportProgress, Abort,
       StopWaiting, Exit, Gone, rows, queueVars, client, CallsOK, IInv
  <2>2. hand' \in {hand, [hand EXCEPT ![t] = NoGrant]}
    BY <1>1, <1>5 DEF Container, BeginStep, EndStep, Poll, GiveUp, ReportProgress, Abort,
       StopWaiting, Exit, Gone, client
  <2>3. \A u \in Tasks : hand'[u] \in {hand[u], NoGrant}
    BY <1>1, <2>2 DEF RowsOK
  <2> QED
    BY <1>1, <2>1, <2>3, EndedStays
<1>6. ASSUME NEW t \in Tasks, ReadHolders(t)
      PROVE  EndedKept'
  <2>1. AllHeld' \subseteq AllHeld
    BY <1>6 DEF ReadHolders, rows, AllHeld, Held
  <2> QED
    BY <1>1, <1>6, <2>1, FewerHeld DEF ReadHolders, rows, client, EndedKept, Held
<1>7. ASSUME NEW t \in Tasks, BecomeUnseen(t)
      PROVE  EndedKept'
  BY <1>1, <1>7, EndedStays DEF BecomeUnseen, rows, client
<1>8. ASSUME NEW t \in Tasks, Cancel(t)
      PROVE  EndedKept'
  <2>1. AllHeld' \subseteq AllHeld
    BY <1>8 DEF Cancel, AllHeld, Held
  <2>2. \A u \in Tasks : state'[u] = "ENDED" => state[u] = "ENDED"
    BY <1>1, <1>8 DEF Cancel, RowsOK
  <2> QED
    BY <1>1, <1>8, <2>1, <2>2, FewerHeld DEF Cancel, queueVars, client, EndedKept, Held
<1>9. ASSUME NEW t \in Tasks, End(t)
      PROVE  EndedKept'
  <2>1. AllHeld' \subseteq AllHeld
    BY <1>9 DEF End, AllHeld, Held
  <2>2. pc' = "discard" /\ work'.task = t
    BY <1>9 DEF End, Work0
  <2>3. \A u \in Tasks : state'[u] = "ENDED" => u = t \/ state[u] = "ENDED"
    BY <1>1, <1>9 DEF End, RowsOK
  <2> QED
    BY <1>1, <1>9, <2>1, <2>2, <2>3, FewerHeld DEF End, client, EndedKept, Held
<1>10. ASSUME NEW t \in Tasks, RemoveOrphan(t)
       PROVE  EndedKept'
  <2>1. UNCHANGED <<state, slot, pc>> /\ work'.task = work.task /\ up' \subseteq up
    BY <1>10 DEF RemoveOrphan, Gone, rows, queueVars
  <2>2. \A u \in Tasks : hand'[u] \in {hand[u], NoGrant}
    BY <1>1, <1>10 DEF RemoveOrphan, Gone, RowsOK
  <2> QED
    BY <1>1, <2>1, <2>2, EndedStays
<1>11. ASSUME NEW m \in releases, LoseRelease(m)
       PROVE  EndedKept'
  BY <1>1, <1>11, EndedStays DEF LoseRelease, rows, queueVars, client
<1>12. ASSUME NEW m \in releases, ReleaseSlot(m)
       PROVE  EndedKept'
  <2>1. m.task \in Tasks
    BY <1>1 DEF RowsOK
  <2>2. AllHeld' \subseteq AllHeld
    BY <1>1, <1>12, <2>1 DEF ReleaseSlot, AllHeld, Held, RowsOK
  <2>3. \A u \in Tasks : hand[u] # NoGrant => slot'[u] = slot[u]
    BY <1>1, <1>12, <2>1 DEF ReleaseSlot, RowsOK, IInv, InHand, EndedKept
  <2>4. \A u \in Tasks : slot'[u] \in {slot[u], NoGrant}
    BY <1>1, <1>12, <2>1 DEF ReleaseSlot, RowsOK
  <2> QED
    BY <1>1, <1>12, <2>2, <2>3, <2>4, FewerHeld DEF ReleaseSlot, queueVars, client, EndedKept, Held
<1>13. CASE UNCHANGED vars
  BY <1>1, <1>13, EndedStays DEF vars, rows, queueVars, client
<1> QED
  BY <1>3, <1>4, <1>5, <1>6, <1>7, <1>8, <1>9, <1>10, <1>11, <1>12, <1>13 DEF Next

(* "A task that ended still holds its slot until its container is gone"    *)
(* (#forgetSlot): while no kill fails and nothing restarts, no more        *)
(* containers process than there are slots, those of ended tasks included. *)
THEOREM EndedHoldsUntilGoneCorrect == Spec => []EndedHoldsUntilGone
<1>1. ASSUME Init
      PROVE  Kept
  <2>1. AllHeld = {}
    BY <1>1 DEF Init, AllHeld, Held, NoGrant
  <2>2. Cardinality(AllHeld) = 0
    BY <2>1, FS_EmptySet
  <2> QED
    BY <1>1, <2>2, SlotsAssumption DEF Init, Kept, EndedKept, NoGrant
<1>2. IInv /\ Kept /\ [Next]_vars => Kept'
  BY KeptStep
<1>3. ASSUME Kept, Calm
      PROVE  Cardinality(Using) <= MaxSlots
  <2>1. Using \in SUBSET AllHeld /\ AllHeld \in SUBSET Tasks
    BY <1>3 DEF Kept, EndedKept, Using, Processing, AllHeld, Held
  <2>2. Cardinality(Using) <= Cardinality(AllHeld) /\ Cardinality(Using) \in Nat
        /\ Cardinality(AllHeld) \in Nat
    BY <2>1, TasksCount
  <2> QED
    BY <1>3, <2>2, SlotsAssumption DEF Kept, EndedKept
<1>4. Kept => EndedHoldsUntilGone
  BY <1>3 DEF EndedHoldsUntilGone, Calm
<1> QED
  BY <1>1, <1>2, <1>4, IInvCorrect, PTL DEF Spec

-----------------------------------------------------------------------------
(* What else has a type.                                                   *)
ClientOK ==
  /\ up \subseteq Tasks /\ aborted \subseteq up /\ steps \in [Tasks -> 0 .. MaxSteps]
  /\ givenUp \in Nat /\ lost \in Nat /\ failures \in Nat /\ crashes \in Nat

(* Containers that run, and the bounds' counters.                          *)
LEMMA ClientStep ==
  ASSUME IInv, ClientOK, [Next]_vars
  PROVE  ClientOK'
<1>1. CASE UNCHANGED <<up, aborted, steps, faults>>
  BY <1>1 DEF faults, ClientOK
<1>2. ASSUME NEW t \in Tasks, Gone(t), UNCHANGED faults
      PROVE  ClientOK'
  BY <1>2, SlotsAssumption DEF Gone, faults, ClientOK
<1>3. ASSUME NEW t \in Tasks, Container(t)
      PROVE  ClientOK'
  <2>1. CASE BeginStep(t) \/ EndStep(t) \/ StopWaiting(t)
    <3>1. steps' \in [Tasks -> 0 .. MaxSteps]
      BY <1>3, <2>1, SlotsAssumption DEF BeginStep, EndStep, StopWaiting, ClientOK
    <3> QED
      BY <2>1, <3>1 DEF BeginStep, EndStep, StopWaiting, faults, ClientOK, network
  <2>2. CASE Abort(t)
    BY <2>2 DEF Abort, faults, ClientOK
  <2>3. CASE GiveUp(t)
    BY <2>3 DEF GiveUp, ClientOK
  <2>4. CASE Exit(t)
    BY <1>2, <2>4 DEF Exit
  <2>5. CASE Poll(t) \/ ReportProgress(t)
    BY <1>1, <2>5 DEF Poll, ReportProgress, client, network
  <2> QED
    BY <1>3, <2>1, <2>2, <2>3, <2>4, <2>5 DEF Container
<1>4. CASE Discard
  <2>1. work.task \in Tasks
    BY <1>4 DEF Discard, IInv, CallsOK
  <2>2. CASE Gone(work.task) /\ UNCHANGED faults
    BY <1>2, <2>1, <2>2
  <2>3. CASE failures' = failures + 1 /\ UNCHANGED <<client, givenUp, lost, crashes>>
    BY <2>3 DEF client, ClientOK
  <2> QED
    BY <1>4, <2>2, <2>3 DEF Discard
<1>5. ASSUME NEW t \in Tasks, RemoveOrphan(t)
      PROVE  ClientOK'
  BY <1>2, <1>5 DEF RemoveOrphan
<1>6. CASE Crash
  BY <1>6 DEF Crash, ClientOK
<1>7. ASSUME NEW m \in releases, LoseRelease(m)
      PROVE  ClientOK'
  BY <1>7 DEF LoseRelease, client, ClientOK
<1>8. CASE RenewSlot \/ JoinLine \/ GrantSlot \/ Forget
  BY <1>1, <1>8 DEF RenewSlot, JoinLine, GrantSlot, Forget, client
<1>9. ASSUME NEW t \in Tasks, ReadHolders(t) \/ BecomeUnseen(t) \/ Cancel(t) \/ End(t)
      PROVE  ClientOK'
  BY <1>1, <1>9 DEF ReadHolders, BecomeUnseen, Cancel, End, client
<1>10. ASSUME NEW m \in releases, ReleaseSlot(m)
       PROVE  ClientOK'
  BY <1>1, <1>10 DEF ReleaseSlot, client
<1>11. CASE UNCHANGED vars
  BY <1>1, <1>11 DEF vars, client
<1> QED
  BY <1>3, <1>4, <1>5, <1>6, <1>7, <1>8, <1>9, <1>10, <1>11 DEF Next, Serve

(* Every variable has its type: those who wait are in an order, whoever    *)
(* joins, is dropped or is granted a slot (LocalProcessingSlots).          *)
THEOREM TypeCorrect == Spec => []TypeOK
<1>1. Init => LineOK /\ ClientOK
  BY SlotsAssumption DEF Init, LineOK, Orders, ClientOK
<1>2. IInv /\ LineOK /\ ClientOK /\ [Next]_vars => (LineOK /\ ClientOK)'
  BY LineStep, ClientStep
<1>3. IInv /\ LineOK /\ ClientOK => TypeOK
  BY DEF IInv, ClientOK, TypeOK
<1> QED
  BY <1>1, <1>2, <1>3, IInvCorrect, PTL DEF Spec
=============================================================================
