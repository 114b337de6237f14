CONSTANTS
    big = big
    Calls = {big, c1, c2}
    Controls = {d1}
    ChargeOf <- MCCharge
    MaxOwners = 2
    MaxBytes = 2
    TicketSpace = 3
    NoCall = NoCall
SPECIFICATION Spec
CHECK_DEADLOCK FALSE
SYMMETRY MCSymmetry
INVARIANTS ChargesCounted NoLostWakeup RegistrationsMatch
PROPERTIES ImplementsPool AdmittedInOrder
