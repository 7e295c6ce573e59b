SPECIFICATION FairSpec
CONSTANTS
    Clusters = {"c1", "c2"}
    SecurityGroups = {"s1", "s2"}
    Paused = {"s2"}
    ClusterWorkers = 2
    GroupWorkers = 1
    Named = TRUE
    Object = {"mesh"}
    Change = {"lt"}
    WritesTo <- MCWritesTo
    None = None
    MaxWrites = 3
    MaxFaults = 2
INVARIANTS
    TypeOK
    EveryTargetReported
    LastAttemptOnly
    CleanExit
    PhasesApart
PROPERTIES
    OutcomeFinal
    Finishes
CHECK_DEADLOCK FALSE
