--------------------------- MODULE AdmissionPool ---------------------------
(***************************************************************************)
(* What physical-owner admission promises its callers, without the lock,   *)
(* the waiter queue or the notifications: a pool of owner slots and bytes   *)
(* that is granted only while it is open, is drained by releases alone, and *)
(* closes only once nothing is charged to it.                               *)
(***************************************************************************)
EXTENDS Integers, FiniteSets

CONSTANTS Calls,        \* callers that may be granted one reservation each
          ChargeOf,     \* the bytes each caller asks for
          MaxOwners,    \* budget.max_active_owners
          MaxBytes      \* budget.max_charged_bytes

VARIABLES phase, held, bytes

poolVars == <<phase, held, bytes>>

Init == /\ phase = "Open"
        /\ held = {}
        /\ bytes = 0

\* A reservation is handed out: only while open, only within both limits.
Grant(c) == /\ phase = "Open"
            /\ c \notin held
            /\ Cardinality(held) < MaxOwners
            /\ bytes + ChargeOf[c] <= MaxBytes
            /\ held' = held \union {c}
            /\ bytes' = bytes + ChargeOf[c]
            /\ UNCHANGED phase

\* A reservation is dropped: it gives back exactly what it was charged.
Release(c) == /\ c \in held
              /\ held' = held \ {c}
              /\ bytes' = bytes - ChargeOf[c]
              /\ UNCHANGED phase

Drain == /\ phase = "Open"
         /\ phase' = "Draining"
         /\ UNCHANGED <<held, bytes>>

Close == /\ phase = "Draining"
         /\ held = {}
         /\ phase' = "Closed"
         /\ UNCHANGED <<held, bytes>>

Next == \/ \E c \in Calls : Grant(c) \/ Release(c)
        \/ Drain
        \/ Close

Spec == Init /\ [][Next]_poolVars
=============================================================================
