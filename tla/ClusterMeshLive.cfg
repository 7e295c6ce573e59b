SPECIFICATION FairSpec
CONSTANTS
    Cluster = {"A", "B"}
    Mesh = {"m"}
    None = None
    Inside <- OwnNames
    Workers = 1
    CacheLag = {"meshes"}
    MaxEdits = 1
    MaxInfo = 1
    MaxFaults = 1
INVARIANTS
    OnePeeringPerPair
    PeeringsJoinMembers
PROPERTIES
    MembersOnlyByOwn
    ImplementsMeshLinks
    Converges
    ReportSettles
