SPECIFICATION Spec
CONSTANTS
    SG = {"sg1", "sg2"}
    Base = "nodes"
    Pool = {"asg", "bare"}
    Cluster = {"A"}
    Instance = {"i-asg"}
    ClusterOf <- MCClusterOf
    KindOf <- MCKindOf
    PoolOf <- MCPoolOf
    Bare = {"bare"}
    Refs <- AsgRefs
    Deletable = {"sg2"}
    NoOne = NoOne
    MaxEdits = 0
    MaxFaults = 1
INVARIANTS
    TypeOK
    OneWriterPerPool
    NoLockLeaked
    AttachedStays
    DetachedBeforeDeleted
PROPERTIES
    ImplementsPoolGroups
    OwnMembershipOnly
    NeverRolledBack
