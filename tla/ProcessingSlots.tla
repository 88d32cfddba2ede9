--------------------------- MODULE ProcessingSlots ---------------------------
(***************************************************************************)
(* Local processing slots: a container asks the task manager for one of    *)
(* MaxSlots before it downloads or processes files, and gives it back      *)
(* after (src/modules/task: LocalProcessing, SepalClient; task-manager:    *)
(* ContainerSupervisor, LocalProcessingSlots, TaskRepository).  Answers    *)
(* get lost, releases arrive late or again, tasks are canceled and end at  *)
(* any moment.  The supervisor handles one call at a time, between two     *)
(* other jobs of its queue; how tasks start is in TaskSupervisor.          *)
(***************************************************************************)
EXTENDS Integers, FiniteSets

CONSTANTS
  Tasks, NoTask,
  Owner,         \* the user of each task
  MaxSlots,
  MaxGrants,     \* bound: with as many grants a container begins no more steps
  MaxSteps,      \* bound on the steps a container runs at once
  Punctual,      \* containers that wait ask again within 30 s
  Cancelable,    \* tasks their users cancel
  Failing,       \* {"kill"} or {}
  MaxGivenUp,    \* bound on answers that do not come
  MaxLost,       \* bound on releases lost
  MaxFailures, MaxCrashes

ASSUME SlotsAssumption ==
  /\ IsFiniteSet(Tasks) /\ NoTask \notin Tasks
  /\ Cancelable \subseteq Tasks /\ Punctual \in BOOLEAN
  /\ MaxSlots \in Nat /\ MaxGrants \in Nat /\ MaxSteps \in Nat
  /\ MaxGivenUp \in Nat /\ MaxLost \in Nat /\ MaxFailures \in Nat /\ MaxCrashes \in Nat

VARIABLES
  state, slot,      \* table task: state, slot_time (which names the grant)
  granted,          \* the last time a slot of the task was granted at
  waiters, ahead,   \* #waiters, and which began to wait (since) before which
  unseen,           \* waiters not seen for ABANDONED_AFTER_MS
  pc, work,         \* the job at the head of the queue and what it holds
  up, aborted,      \* containers that run; those whose signal has been aborted
  steps, hand, released, \* LocalProcessing: #steps, #slot, #releasedSlot
  asking,           \* #requestUntilGranted: a request is out, or the poll sleeps
  late,             \* requests nobody waits for any more, not yet handled
  releases,         \* releases on their way
  givenUp, lost, failures, crashes

rows == <<state, slot, granted>>

NoGrant == 0
line == <<waiters, ahead, unseen>>
queueVars == <<line, pc, work>>
client == <<up, aborted, steps, hand, released, asking>>
network == <<late, releases>>
faults == <<givenUp, lost, failures, crashes>>
vars == <<rows, queueVars, client, network, faults>>

RunningStates == {"ACTIVE", "CANCELING"}
Held(t) == slot[t] # NoGrant
Processing(t) == t \in up /\ hand[t] # NoGrant
Release(t, g) == [task |-> t, grant |-> g]
Work0 == [task |-> NoTask, awaited |-> FALSE, holders |-> {}]

RowsOK ==
  /\ state \in [Tasks -> RunningStates \union {"ENDED"}]
  /\ slot \in [Tasks -> Nat] /\ granted \in [Tasks -> Nat]
  /\ hand \in [Tasks -> Nat] /\ released \in [Tasks -> Nat]
  /\ releases \subseteq [task : Tasks, grant : Nat]

CallsOK ==
  /\ asking \in [Tasks -> {"no", "sent", "sleeping"}] /\ late \in [Tasks -> Nat]
  /\ pc \in {"idle", "holders", "grant", "discard", "forget"}
  /\ work \in [task : Tasks \union {NoTask}, awaited : BOOLEAN, holders : SUBSET Tasks]
  /\ pc # "idle" => work.task \in Tasks

(* Of any two in S one has waited longer. *)
Orders(earlier, S) ==
  /\ \A v, w \in S : v # w => (<<v, w>> \in earlier <=> <<w, v>> \notin earlier)
  /\ \A v, w, x \in S :
       <<v, w>> \in earlier /\ <<w, x>> \in earlier => <<v, x>> \in earlier /\ v # x

LineOK ==
  /\ waiters \subseteq Tasks /\ unseen \subseteq waiters
  /\ ahead \subseteq waiters \X waiters /\ Orders(ahead, waiters)

TypeOK ==
  /\ RowsOK /\ CallsOK /\ LineOK
  /\ up \subseteq Tasks /\ aborted \subseteq up
  /\ steps \in [Tasks -> 0 .. MaxSteps]
  /\ givenUp \in Nat /\ lost \in Nat /\ failures \in Nat /\ crashes \in Nat

Init ==
  /\ state = [t \in Tasks |-> "ACTIVE"] /\ slot = [t \in Tasks |-> NoGrant]
  /\ granted = [t \in Tasks |-> NoGrant]
  /\ waiters = {} /\ ahead = {} /\ unseen = {} /\ pc = "idle" /\ work = Work0
  /\ up = Tasks /\ aborted = {}
  /\ steps = [t \in Tasks |-> 0] /\ hand = [t \in Tasks |-> NoGrant]
  /\ released = [t \in Tasks |-> NoGrant] /\ asking = [t \in Tasks |-> "no"]
  /\ late = [t \in Tasks |-> 0] /\ releases = {}
  /\ givenUp = 0 /\ lost = 0 /\ failures = 0 /\ crashes = 0

-----------------------------------------------------------------------------
(* The container.  Steps that run at once share one acquisition.           *)

BeginStep(t) ==
  /\ t \in up \ aborted /\ steps[t] < MaxSteps /\ granted[t] < MaxGrants
  /\ steps' = [steps EXCEPT ![t] = @ + 1]
  /\ asking' = IF hand[t] = NoGrant /\ asking[t] = "no"
               THEN [asking EXCEPT ![t] = "sent"] ELSE asking
  /\ UNCHANGED <<rows, queueVars, up, aborted, hand, released, network, faults>>

(* Mutant of EndStep: reports do not learn which slot was released. *)
EndStepUnrecorded(t) ==
  /\ Processing(t) /\ steps[t] > 0
  /\ steps' = [steps EXCEPT ![t] = @ - 1]
  /\ IF steps[t] = 1
     THEN /\ hand' = [hand EXCEPT ![t] = NoGrant]
          /\ releases' = releases \union {Release(t, hand[t])}
     ELSE UNCHANGED <<hand, releases>>
  /\ UNCHANGED <<rows, queueVars, up, aborted, released, asking, late, faults>>

(* The last step to end releases the slot and does not wait for that. *)
EndStep(t) ==
  /\ Processing(t) /\ steps[t] > 0
  /\ steps' = [steps EXCEPT ![t] = @ - 1]
  /\ IF steps[t] = 1
     THEN /\ hand' = [hand EXCEPT ![t] = NoGrant] /\ released' = [released EXCEPT ![t] = hand[t]]
          /\ releases' = releases \union {Release(t, hand[t])}
     ELSE UNCHANGED <<hand, released, releases>>
  /\ UNCHANGED <<rows, queueVars, up, aborted, asking, late, faults>>

Poll(t) ==
  /\ t \in up \ aborted /\ asking[t] = "sleeping"
  /\ asking' = [asking EXCEPT ![t] = "sent"]
  /\ UNCHANGED <<rows, queueVars, up, aborted, steps, hand, released, network, faults>>

(* No answer came, or an error: the request is sent again, at once or with *)
(* the next poll.  The first one may still be handled, before the next.    *)
GiveUp(t) ==
  /\ t \in up /\ asking[t] = "sent" /\ givenUp < MaxGivenUp /\ givenUp' = givenUp + 1
  /\ asking' = [asking EXCEPT ![t] = "sleeping"]
  /\ IF work.task = t /\ work.awaited
     THEN work' = [work EXCEPT !.awaited = FALSE] /\ UNCHANGED late
     ELSE UNCHANGED work /\ late' \in {late, [late EXCEPT ![t] = @ + 1]}
  /\ UNCHANGED <<rows, line, pc, up, aborted, steps, hand, released, releases,
                 lost, failures, crashes>>

(* Mutant of ReportProgress: nothing is repeated. *)
ReportProgressOnly(t) ==
  /\ t \in up /\ state[t] \in RunningStates /\ UNCHANGED vars

(* Every report repeats the slot last released. *)
ReportProgress(t) ==
  /\ t \in up /\ state[t] \in RunningStates /\ released[t] # NoGrant
  /\ releases' = releases \union {Release(t, released[t])}
  /\ UNCHANGED <<rows, queueVars, client, late, faults>>

LoseRelease(m) ==
  /\ m \in releases /\ lost < MaxLost /\ lost' = lost + 1
  /\ releases' = releases \ {m}
  /\ UNCHANGED <<rows, queueVars, client, late, givenUp, failures, crashes>>

(* SIGTERM, or a step that failed, aborts the signal; steps that wait end. *)
Abort(t) ==
  /\ t \in up \ aborted /\ aborted' = aborted \union {t}
  /\ UNCHANGED <<rows, queueVars, up, steps, hand, released, asking, network, faults>>

StopWaiting(t) ==
  /\ t \in up \cap aborted /\ asking[t] = "sleeping"
  /\ asking' = [asking EXCEPT ![t] = "no"] /\ steps' = [steps EXCEPT ![t] = 0]
  /\ UNCHANGED <<rows, queueVars, up, aborted, hand, released, network, faults>>

(* What remains of a container is what it has sent. *)
Gone(t) ==
  /\ up' = up \ {t} /\ steps' = [steps EXCEPT ![t] = 0] /\ hand' = [hand EXCEPT ![t] = NoGrant]
  /\ asking' = [asking EXCEPT ![t] = "no"]
  /\ aborted' = aborted \ {t} /\ released' = [released EXCEPT ![t] = NoGrant]
  /\ late' = IF asking[t] = "sent" /\ ~(work.task = t /\ work.awaited)
             THEN [late EXCEPT ![t] = @ + 1] ELSE late

Exit(t) ==
  /\ t \in up /\ Gone(t)
  /\ UNCHANGED <<rows, queueVars, releases, faults>>

-----------------------------------------------------------------------------
(* #requestSlot.                                                           *)

EndJob == pc' = "idle" /\ work' = Work0

(* Mutant of ReadHolders: tasks being canceled do not count. *)
ReadActiveHolders(t) ==
  /\ pc = "idle" /\ pc' = "holders"
  /\ \/ late[t] > 0 /\ late' = [late EXCEPT ![t] = @ - 1]
     \/ late[t] = 0 /\ asking[t] = "sent" /\ UNCHANGED late
  /\ work' = [task |-> t, awaited |-> late[t] = 0,
              holders |-> {u \in Tasks : Held(u) /\ state[u] = "ACTIVE"}]
  /\ UNCHANGED <<rows, line, client, releases, faults>>

(* A request that its container waits for, after those it does not.        *)
ReadHolders(t) ==
  /\ pc = "idle" /\ pc' = "holders"
  /\ \/ late[t] > 0 /\ late' = [late EXCEPT ![t] = @ - 1]
     \/ late[t] = 0 /\ asking[t] = "sent" /\ UNCHANGED late
  /\ work' = [task |-> t, awaited |-> late[t] = 0,
              holders |-> {u \in Tasks : Held(u) /\ state[u] \in RunningStates}]
  /\ UNCHANGED <<rows, line, client, releases, faults>>

Answer(g) ==
  LET t == work.task IN
  /\ EndJob
  /\ IF work.awaited /\ asking[t] = "sent"
     THEN /\ asking' = [asking EXCEPT ![t] = IF g = NoGrant THEN "sleeping" ELSE "no"]
          /\ hand' = [hand EXCEPT ![t] = g]
     ELSE UNCHANGED <<asking, hand>>

(* The slot time is set to the clock's time, and answered. *)
Grant(t) ==
  /\ granted' = [granted EXCEPT ![t] = @ + 1] /\ slot' = [slot EXCEPT ![t] = granted'[t]]
  /\ Answer(granted'[t])

RenewSlot ==
  /\ pc = "holders" /\ work.task \in work.holders
  /\ IF Held(work.task) /\ state[work.task] \in RunningStates
     THEN Grant(work.task)
     ELSE UNCHANGED <<slot, granted>> /\ Answer(NoGrant)
  /\ UNCHANGED <<state, line, up, aborted, steps, released, network, faults>>

HeldBy(user) == Cardinality({u \in work.holders : Owner[u] = user})

(* Fewest slots held by its user first, then who has waited longest. *)
Before(earlier, v, w) ==
  \/ HeldBy(Owner[v]) < HeldBy(Owner[w])
  \/ HeldBy(Owner[v]) = HeldBy(Owner[w]) /\ <<v, w>> \in earlier

Free == MaxSlots - Cardinality(work.holders)

(* Mutant of InTurn: one too many. *)
InTurnOfOneMore(waiting, earlier) ==
  {w \in waiting : Cardinality({v \in waiting : Before(earlier, v, w)}) <= Free}

(* Those for whom there are free slots. *)
InTurn(waiting, earlier) ==
  {w \in waiting : Cardinality({v \in waiting : Before(earlier, v, w)}) < Free}

Remain(waiting, earlier) == waiters' = waiting /\ ahead' = earlier \cap (waiting \X waiting)

(* Mutant of Request: who asks again begins to wait anew. *)
RequestAnew(t) ==
  LET waiting == {w \in waiters \union {t} : w = t \/ w \notin unseen}
      earlier == ahead \union (waiters \X {t})
  IN  /\ unseen' = {}
      /\ IF t \in InTurn(waiting, earlier)
         THEN Remain(waiting \ {t}, earlier) /\ pc' = "grant" /\ UNCHANGED <<work, asking, hand>>
         ELSE Remain(waiting, earlier) /\ Answer(NoGrant)

(* LocalProcessingSlots.request: the abandoned are dropped first. *)
Request(t) ==
  LET waiting == {w \in waiters \union {t} : w = t \/ w \notin unseen}
      earlier == IF t \in waiters THEN ahead ELSE ahead \union (waiters \X {t})
  IN  /\ unseen' = {}
      /\ IF t \in InTurn(waiting, earlier)
         THEN Remain(waiting \ {t}, earlier) /\ pc' = "grant" /\ UNCHANGED <<work, asking, hand>>
         ELSE Remain(waiting, earlier) /\ Answer(NoGrant)

JoinLine ==
  /\ pc = "holders" /\ work.task \notin work.holders
  /\ IF state[work.task] = "ACTIVE" THEN Request(work.task)
     ELSE Answer(NoGrant) /\ UNCHANGED line
  /\ UNCHANGED <<rows, up, aborted, steps, released, network, faults>>

GrantSlot ==
  /\ pc = "grant"
  /\ IF state[work.task] = "ACTIVE" /\ ~Held(work.task)
     THEN Grant(work.task)
     ELSE UNCHANGED <<slot, granted>> /\ Answer(NoGrant)
  /\ UNCHANGED <<state, line, up, aborted, steps, released, network, faults>>

(* A container that waits asks every ten seconds. *)
BecomeUnseen(t) ==
  /\ t \in waiters \ unseen /\ (Punctual => asking[t] = "no")
  /\ unseen' = unseen \union {t}
  /\ UNCHANGED <<rows, waiters, ahead, pc, work, client, network, faults>>

-----------------------------------------------------------------------------
(* #releaseSlot with a grant, by a release or a progress report.           *)

(* Mutant of ReleaseSlot: whatever grant the task holds. *)
ReleaseAnySlot(m) ==
  /\ pc = "idle" /\ m \in releases /\ releases' = releases \ {m}
  /\ slot' = [slot EXCEPT ![m.task] = NoGrant]
  /\ UNCHANGED <<state, granted, queueVars, client, late, faults>>

ReleaseSlot(m) ==
  /\ pc = "idle" /\ m \in releases /\ releases' = releases \ {m}
  /\ slot' = IF slot[m.task] = m.grant THEN [slot EXCEPT ![m.task] = NoGrant] ELSE slot
  /\ UNCHANGED <<state, granted, queueVars, client, late, faults>>

-----------------------------------------------------------------------------
(* The rest of the supervisor: a task is canceled; a task ends, because    *)
(* its container did or for a timeout; what has ended is discarded.        *)

Cancel(t) ==
  /\ t \in Cancelable /\ state[t] = "ACTIVE" /\ state' = [state EXCEPT ![t] = "CANCELING"]
  /\ UNCHANGED <<slot, granted, queueVars, client, network, faults>>

(* Mutant of End: the slot is forgotten, the container left to a reconcile. *)
EndForgetting(t) ==
  /\ pc = "idle" /\ state[t] \in RunningStates
  /\ state' = [state EXCEPT ![t] = "ENDED"]
  /\ pc' = "forget" /\ work' = [Work0 EXCEPT !.task = t]
  /\ UNCHANGED <<slot, granted, line, client, network, faults>>

End(t) ==
  /\ pc = "idle" /\ state[t] \in RunningStates
  /\ state' = [state EXCEPT ![t] = "ENDED"]
  /\ pc' = "discard" /\ work' = [Work0 EXCEPT !.task = t]
  /\ UNCHANGED <<slot, granted, line, client, network, faults>>

Discard ==
  /\ pc = "discard"
  /\ \/ Gone(work.task) /\ pc' = "forget" /\ UNCHANGED <<work, faults>>
     \/ /\ "kill" \in Failing /\ failures < MaxFailures /\ failures' = failures + 1
        /\ work.task \in up /\ EndJob /\ UNCHANGED <<client, late, givenUp, lost, crashes>>
  /\ UNCHANGED <<rows, line, releases>>

(* #forgetSlot *)
Forget ==
  /\ pc = "forget" /\ EndJob
  /\ Remain(waiters \ {work.task}, ahead) /\ unseen' = unseen \ {work.task}
  /\ slot' = [slot EXCEPT ![work.task] = NoGrant]
  /\ UNCHANGED <<state, granted, client, network, faults>>

(* A reconcile removes the container of a task that has ended. *)
RemoveOrphan(t) ==
  /\ pc = "idle" /\ state[t] = "ENDED" /\ t \in up /\ Gone(t)
  /\ UNCHANGED <<rows, queueVars, releases, faults>>

(* The line is in memory only; a request that is being handled gets no     *)
(* answer.                                                                 *)
Crash ==
  /\ crashes < MaxCrashes /\ crashes' = crashes + 1
  /\ waiters' = {} /\ ahead' = {} /\ unseen' = {} /\ EndJob
  /\ asking' = IF work.awaited /\ asking[work.task] = "sent"
               THEN [asking EXCEPT ![work.task] = "sleeping"] ELSE asking
  /\ UNCHANGED <<rows, up, aborted, steps, hand, released, network, givenUp, lost, failures>>

-----------------------------------------------------------------------------

Serve == RenewSlot \/ JoinLine \/ GrantSlot \/ Discard \/ Forget

Container(t) == \/ BeginStep(t) \/ EndStep(t) \/ Poll(t) \/ GiveUp(t) \/ ReportProgress(t)
                \/ Abort(t) \/ StopWaiting(t) \/ Exit(t)

Next ==
  \/ Serve \/ Crash
  \/ \E t \in Tasks : \/ Container(t) \/ ReadHolders(t) \/ BecomeUnseen(t)
                      \/ Cancel(t) \/ End(t) \/ RemoveOrphan(t)
  \/ \E m \in releases : LoseRelease(m) \/ ReleaseSlot(m)

Spec == Init /\ [][Next]_vars

(* The queue serves its jobs in turn, which are many: what waits in it is  *)
(* served although it is not at the head all the time.  A container's      *)
(* steps end, its polls and heartbeats go on while it runs; what is        *)
(* canceled is stopped and what has exited is collected (TaskSupervisor).  *)
Fairness ==
  /\ WF_vars(Serve)
  /\ \A t \in Tasks :
       /\ WF_vars(EndStep(t) \/ Poll(t) \/ StopWaiting(t)) /\ WF_vars(ReportProgress(t))
       /\ WF_vars((state[t] = "CANCELING" /\ Abort(t)) \/ (t \in aborted /\ Exit(t)))
       /\ WF_vars(asking[t] = "no" /\ BecomeUnseen(t))
       /\ SF_vars(ReadHolders(t)) /\ SF_vars((t \notin up /\ End(t)) \/ RemoveOrphan(t))
       /\ \A g \in 1 .. MaxGrants + MaxGivenUp :
            SF_vars(Release(t, g) \in releases /\ ReleaseSlot(Release(t, g)))

FairSpec == Spec /\ Fairness

-----------------------------------------------------------------------------
(* Properties. *)

Using == {t \in Tasks : Processing(t)}

(* Of the containers of running tasks no more process files at once than   *)
(* there are slots, whichever answers, releases and restarts come between  *)
(* (#requestSlot counts holders and grants later).                         *)
SlotsAreEnough == Cardinality({t \in Using : state[t] \in RunningStates}) <= MaxSlots

(* A container that processes has the slot in its task's row, by the grant *)
(* it was answered: a late or repeated release never clears a newer grant  *)
(* (#releaseSlot, renewSlot).                                              *)
ProcessingHolds == \A t \in Using : state[t] \in RunningStates => slot[t] = hand[t]

(* What makes these inductive: a container that has a slot has asked for   *)
(* nothing else, and no release names it; a new grant is newer than all;   *)
Asking(t) == late[t] > 0 \/ asking[t] # "no" \/ (pc \in {"holders", "grant"} /\ work.task = t)

InHand ==
  \A t \in Tasks : hand[t] # NoGrant =>
    /\ ~Asking(t) /\ released[t] # hand[t]
    /\ \A m \in releases : m.task = t => m.grant # hand[t]
    /\ (state[t] \in RunningStates => slot[t] = hand[t])

GrantsGrow ==
  /\ \A t \in Tasks : slot[t] <= granted[t] /\ hand[t] <= granted[t] /\ released[t] <= granted[t]
  /\ \A m \in releases : m.grant <= granted[m.task]

(* who holds a slot when it is granted was counted when the job read the   *)
(* holders; and what has been read of a task still is so.                  *)
Holders == {t \in Tasks : Held(t) /\ state[t] \in RunningStates}

CountKept ==
  /\ Cardinality(Holders) <= MaxSlots
  /\ pc \in {"holders", "grant"} =>
       Holders \subseteq work.holders /\ (work.awaited => late[work.task] = 0)
  /\ pc = "grant" => Cardinality(work.holders) < MaxSlots
  /\ pc \in {"discard", "forget"} => state[work.task] = "ENDED"

IInv == RowsOK /\ CallsOK /\ InHand /\ GrantsGrow /\ CountKept

(* A slot in a row is never out of its container's sight: the container    *)
(* has it, or asks again and has it renewed, or repeats its release until  *)
(* it arrives, or is about to exit (LocalProcessing, ProgressReporter).    *)
SlotIsInSight ==
  \A t \in Tasks : t \in up \ aborted /\ Held(t) /\ state[t] \in RunningStates
    => slot[t] \in {hand[t], released[t]} \/ asking[t] # "no"

(* Who waits is granted a slot, unless its container ends or is aborted:   *)
(* those ahead in the line that stop asking are dropped, and slots whose   *)
(* release got lost or whose container has exited come back.               *)
WaiterIsGranted == \A t \in Tasks : asking[t] # "no" ~> asking[t] = "no"

(* "A task that ended still holds its slot until its container is gone"    *)
(* (#forgetSlot): with those of ended tasks too, no more containers        *)
(* process than there are slots, while no kill fails and nothing restarts. *)
EndedHoldsUntilGone == failures + crashes = 0 => Cardinality(Using) <= MaxSlots
=============================================================================
