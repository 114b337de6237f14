-------------------------- MODULE MCGenerationDrain --------------------------
(* Instances of GenerationDrain for TLC. *)
EXTENDS GenerationDrain
=============================================================================
