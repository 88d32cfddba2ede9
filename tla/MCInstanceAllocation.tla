------------------------ MODULE MCInstanceAllocation ------------------------
(***************************************************************************)
(* InstanceAllocation on small fleets.  Sessions and instances are         *)
(* interchangeable in every safety property; the liveness runs use no      *)
(* symmetry.                                                               *)
(***************************************************************************)
EXTENDS InstanceAllocation, TLC

Symmetry == Permutations(Sessions) \union Permutations(Instances)
=============================================================================
