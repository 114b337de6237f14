CONSTANTS
    big = big
    Calls = {big, c1}
    Controls = {d1}
    ChargeOf <- MCCharge
    MaxOwners = 2
    MaxBytes = 2
    TicketSpace = 2
    NoCall = NoCall
SPECIFICATION FairSpec
CHECK_DEADLOCK FALSE
INVARIANTS DrainedIsFinal NoMissedDrain NoMissedLastRelease
PROPERTIES DrainWaitReturns FrontIsServed
