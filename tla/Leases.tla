------------------------------- MODULE Leases -------------------------------
(***************************************************************************)
(* What the worker promises about instances and sessions, whatever tags,   *)
(* claims, rows, containers, sweeps and restarts do meanwhile              *)
(* (src/modules/worker): a session is given one clean instance and keeps   *)
(* it until the session is over for good, what it runs runs on that        *)
(* instance, and the instance is given to another only after all of it has *)
(* been taken down.  InstanceAllocation implements this specification.     *)
(***************************************************************************)
CONSTANTS Instances, Sessions, NoSession

VARIABLES
  stage,   \* of each session: "new", "asking", "open" or "over"
  lessee,  \* the session each instance is given to
  used,    \* the sessions that have containers on each instance
  gone     \* instances given back to the hosting service

vars == <<stage, lessee, used, gone>>

Init ==
  /\ stage = [s \in Sessions |-> "new"] /\ lessee = [i \in Instances |-> NoSession]
  /\ used = [i \in Instances |-> {}] /\ gone = {}

Moves(s, from, to) == stage[s] = from /\ stage' = [stage EXCEPT ![s] = to]

(* Nobody has it, or whoever has it is done with it. *)
Returnable(i) == lessee[i] = NoSession \/ stage[lessee[i]] = "over"

Ask(s) == Moves(s, "new", "asking") /\ UNCHANGED <<lessee, used, gone>>

Lease(i, s) ==
  /\ stage[s] = "asking" /\ \A j \in Instances : lessee[j] # s
  /\ lessee[i] = NoSession /\ used[i] = {} /\ i \notin gone
  /\ lessee' = [lessee EXCEPT ![i] = s]
  /\ UNCHANGED <<stage, used, gone>>

Open(i, s) ==
  /\ lessee[i] = s /\ Moves(s, "asking", "open")
  /\ UNCHANGED <<lessee, used, gone>>

Use(i, s) ==
  /\ lessee[i] = s /\ stage[s] \in {"open", "over"}
  /\ used' = [used EXCEPT ![i] = {s}]
  /\ UNCHANGED <<stage, lessee, gone>>

TakeDown(i) == used' = [used EXCEPT ![i] = {}] /\ UNCHANGED <<stage, lessee, gone>>

Close(s) == Moves(s, "open", "over") /\ UNCHANGED <<lessee, used, gone>>

(* Some requests fail; all that are under way when the process dies. *)
GiveUp(S) ==
  /\ \A s \in S : stage[s] = "asking"
  /\ stage' = [s \in Sessions |-> IF s \in S THEN "over" ELSE stage[s]]
  /\ UNCHANGED <<lessee, used, gone>>

Return(i) ==
  /\ lessee[i] # NoSession /\ Returnable(i) /\ used[i] = {}
  /\ lessee' = [lessee EXCEPT ![i] = NoSession]
  /\ UNCHANGED <<stage, used, gone>>

Vanish(i) ==
  /\ Returnable(i) /\ gone' = gone \union {i}
  /\ lessee' = [lessee EXCEPT ![i] = NoSession] /\ used' = [used EXCEPT ![i] = {}]

Discard(i) == Vanish(i) /\ UNCHANGED stage

(* The request's own launch failed. *)
LaunchFails(i, s) == Vanish(i) /\ Moves(s, "asking", "over")

Next ==
  \/ \E s \in Sessions : Ask(s) \/ Close(s)
  \/ \E i \in Instances, s \in Sessions : Lease(i, s) \/ Open(i, s) \/ Use(i, s) \/ LaunchFails(i, s)
  \/ \E i \in Instances : TakeDown(i) \/ Return(i) \/ Discard(i)
  \/ \E S \in SUBSET Sessions : GiveUp(S)

Spec == Init /\ [][Next]_vars
=============================================================================
