SPECIFICATION Spec
CONSTANTS
    MaxGeneration = 2
    MaxFaults = 0
    MaxCrashes = 2
INVARIANT
    RecoverySucceeds
CHECK_DEADLOCK FALSE
