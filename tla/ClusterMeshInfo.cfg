SPECIFICATION Spec
CONSTANTS
    Cluster = {"A", "B"}
    Mesh = {"m"}
    None = None
    Inside <- OwnNames
    Workers = 1
    CacheLag = {}
    MaxEdits = 1
    MaxInfo = 2
    MaxFaults = 0
INVARIANTS
    NoSelfPeering
