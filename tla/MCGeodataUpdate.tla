--------------------------- MODULE MCGeodataUpdate ---------------------------
(* Instances of GeodataUpdate for TLC. *)
EXTENDS GeodataUpdate, TLC

KindSymmetry == Permutations(Kinds)
=============================================================================
