SPECIFICATION FairSpec
CONSTANTS
    Pool = {"p1", "p2"}
    Cluster = {"c1"}
    ClusterOf <- MCClusterOf
    Late = {"p2"}
    References <- MCReferences
    MaxEdits = 0
    MaxFaults = 0
CHECK_DEADLOCK FALSE
INVARIANT NothingLeft
