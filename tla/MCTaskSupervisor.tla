-------------------------- MODULE MCTaskSupervisor --------------------------
(* Instances of TaskSupervisor for TLC.                                    *)
EXTENDS TaskSupervisor, TLC

CONSTANTS t1, t2, t3, alice, bob

MCOwner == [t \in Tasks |-> IF t = t3 THEN bob ELSE alice]

Symmetry == Permutations(Tasks)
=============================================================================
