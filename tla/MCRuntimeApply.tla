--------------------------- MODULE MCRuntimeApply ---------------------------
(* Instances of RuntimeApply for TLC: the constants are numbers, given in the *)
(* cfg files.                                                                 *)
EXTENDS RuntimeApply
=============================================================================
