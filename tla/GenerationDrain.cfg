SPECIFICATION FairSpec
CONSTANTS
    MaxGeneration = 2
    MaxRetired = 1
    TcpLimit = 1
    Workloads = {{"tcp"}, {"udp"}}
    MaxRefused = 1
INVARIANTS
    ServingIsOpen
    SnapshotRestorable
    NothingForgotten
    AcceptorNotStranded
PROPERTY RetirementEnds
CHECK_DEADLOCK FALSE
