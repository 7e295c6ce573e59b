SPECIFICATION FairSpec
CONSTANTS
    SG = {"sg1", "sg2"}
    Base = "nodes"
    Pool = {"asg", "vng"}
    Cluster = {"A"}
    Instance = {"i-asg", "i-vng"}
    ClusterOf <- MCClusterOf
    KindOf <- MCKindOf
    PoolOf <- MCPoolOf
    Bare = {}
    Refs <- LiveRefs
    Deletable = {}
    NoOne = NoOne
    MaxEdits = 0
    MaxFaults = 1
PROPERTIES
    Converges
    LockGranted
