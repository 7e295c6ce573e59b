SPECIFICATION Spec
CONSTANTS
    Cluster = {A, B, C}
    Mesh = {"m", "n"}
    None = None
    Inside <- OwnNames
    Workers = 1
    CacheLag = {}
    MaxEdits = 1
    MaxInfo = 1
    MaxFaults = 0
SYMMETRY Alike
INVARIANTS
    OnePeeringPerPair
    PeeringsJoinMembers
PROPERTIES
    UnpeeredByOwn
