------------------------ MODULE MCSingleFlightOwner ------------------------
(* Small instances of SingleFlightOwner: a builder, an observer and a third   *)
(* caller that drains, retries, fails or closes under them.                   *)
EXTENDS SingleFlightOwner, TLC

MCSymmetry == Permutations(Actors)
=============================================================================
