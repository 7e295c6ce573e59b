SPECIFICATION Spec
CONSTANTS
    SG = {"sg1", "sg2"}
    Base = "nodes"
    Pool = {"vng", "karpenter"}
    Cluster = {"A"}
    Instance = {"i-karpenter"}
    ClusterOf <- MCClusterOf
    KindOf <- MCKindOf
    PoolOf <- MCPoolOf
    Bare = {}
    Refs <- SpotRefs
    Deletable = {"sg2"}
    NoOne = NoOne
    MaxEdits = 1
    MaxFaults = 1
INVARIANTS
    AttachedStays
    DetachedBeforeDeleted
PROPERTIES
    ImplementsPoolGroups
    OwnMembershipOnly
