SPECIFICATION FairSpec
CONSTANTS
    Kinds = {geosite}
    MaxUpdates = 3
    MaxFaults = 2
    MaxCrashes = 2
INVARIANTS
    PairIntact
    RollbackPossible
    NeverReverts
PROPERTY
    StartsSettle
CHECK_DEADLOCK FALSE
