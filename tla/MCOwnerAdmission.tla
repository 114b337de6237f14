-------------------------- MODULE MCOwnerAdmission --------------------------
(* Small instances of OwnerAdmission: two bytes of budget, one caller that     *)
(* needs both of them and callers that need one, so that the count, the bytes  *)
(* and the head of the line all bind.                                          *)
EXTENDS OwnerAdmission, TLC

CONSTANTS big       \* the call that asks for two bytes

MCCharge == [c \in Calls |-> IF c = big THEN 2 ELSE 1]
MCSymmetry == Permutations(Calls \ {big}) \union Permutations(Controls)
=============================================================================
