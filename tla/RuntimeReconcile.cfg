SPECIFICATION FairSpec
CONSTANTS
    Reloads = {r1, r2}
    Stops = {s1}
    NoThread = none
    MaxVersion = 2
    MaxPanics = 1
INVARIANTS
    StopSupersedes
    AppliesInEpochOrder
    LeadIsJoinable
PROPERTY EveryoneAnswered
CHECK_DEADLOCK FALSE
