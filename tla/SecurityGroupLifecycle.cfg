SPECIFICATION FairSpec
CONSTANTS
    Pool = {"p1", "p2"}
    Cluster = {"c1"}
    ClusterOf <- MCClusterOf
    Late = {"p2"}
    References <- MCReferences
    MaxEdits = 1
    MaxFaults = 1
CHECK_DEADLOCK FALSE
INVARIANTS
    TypeOK
    AppliedIsSo
PROPERTIES
    GoesCleanly
    Attaches
    DeletionEnds
    PoolsReleased
