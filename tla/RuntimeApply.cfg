SPECIFICATION Spec
CONSTANTS
    MaxGeneration = 3
    MaxFaults = 2
    MaxCrashes = 2
INVARIANTS
    CrashSafe
    ApplyOutcome
PROPERTY
    RecoveryKeepsCommitted
CHECK_DEADLOCK FALSE
