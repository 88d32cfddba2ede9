------------------------- MODULE MCProcessingSlots -------------------------
(* Instances of ProcessingSlots for TLC.                                   *)
EXTENDS ProcessingSlots, TLC

CONSTANTS t1, t2, t3, alice, bob

MCOwner == [t \in Tasks |-> IF t = t3 THEN bob ELSE alice]

Symmetry == Permutations(Tasks \ {t3})
=============================================================================
