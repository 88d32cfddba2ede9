---------------------------- MODULE TaskLifecycle ----------------------------
(***************************************************************************)
(* What the task manager promises about a task, whatever containers,      *)
(* restarts and failures do meanwhile (src/modules/task-manager): a task   *)
(* is launched at most once and only within the limits, what has ended     *)
(* stays as it ended, and nobody's task is canceled unasked.               *)
(* TaskSupervisor implements this specification.                           *)
(***************************************************************************)
EXTENDS Integers, FiniteSets

CONSTANTS Tasks, Users, Owner, MaxConcurrent, MaxConcurrentPerUser

VARIABLES
  state,    \* the state of each task; "none" before it is submitted
  removed,  \* tasks their user has removed from the list
  asked     \* tasks somebody has asked to cancel

vars == <<state, removed, asked>>

RunningStates == {"ACTIVE", "CANCELING"}
FinishedStates == {"COMPLETED", "CANCELED", "FAILED"}
States == {"none", "PENDING"} \union RunningStates \union FinishedStates

RunningIn(s) == {t \in Tasks : s[t] \in RunningStates}
RunningOf(s, u) == {t \in RunningIn(s) : Owner[t] = u}

Become(t, s) == state' = [state EXCEPT ![t] = s]

Init == state = [t \in Tasks |-> "none"] /\ removed = {} /\ asked = {}

Submit(t) ==
  /\ state[t] = "none" /\ Become(t, "PENDING")
  /\ UNCHANGED <<removed, asked>>

Launch(t) ==
  /\ state[t] = "PENDING"
  /\ Cardinality(RunningIn(state)) < MaxConcurrent
  /\ Cardinality(RunningOf(state, Owner[t])) < MaxConcurrentPerUser
  /\ Become(t, "ACTIVE")
  /\ UNCHANGED <<removed, asked>>

Ask(t) ==
  /\ state[t] # "none" /\ asked' = asked \union {t}
  /\ UNCHANGED <<state, removed>>

Cancel(t) ==
  /\ t \in asked
  /\ \/ state[t] = "PENDING" /\ Become(t, "CANCELED")
     \/ state[t] = "ACTIVE" /\ Become(t, "CANCELING")
  /\ UNCHANGED <<removed, asked>>

(* Only a task that is being canceled may end as canceled. *)
End(t) ==
  /\ state[t] \in RunningStates
  /\ \E s \in FinishedStates :
       /\ s = "CANCELED" => state[t] = "CANCELING"
       /\ Become(t, s)
  /\ UNCHANGED <<removed, asked>>

Remove(t) ==
  /\ state[t] \in FinishedStates /\ removed' = removed \union {t}
  /\ UNCHANGED <<state, asked>>

Next == \E t \in Tasks : Submit(t) \/ Launch(t) \/ Ask(t) \/ Cancel(t) \/ End(t) \/ Remove(t)

Spec == Init /\ [][Next]_vars
=============================================================================
