------------------------- MODULE MCRuntimeReconcile -------------------------
(* Instances of RuntimeReconcile for TLC. *)
EXTENDS RuntimeReconcile, TLC

ReloadSymmetry == Permutations(Reloads)
=============================================================================
