--------------------------- MODULE MCBusinessOps ----------------------------
(* Instances of BusinessOps for model checking. *)
EXTENDS BusinessOps, TLC

MCSymmetry == Permutations(KeyValues)
=============================================================================
