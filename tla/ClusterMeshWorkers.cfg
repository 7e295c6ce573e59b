SPECIFICATION Spec
CONSTANTS
    Cluster = {A, B}
    Mesh = {"m"}
    None = None
    Inside <- OwnNames
    Workers = 2
    CacheLag = {"peerings"}
    MaxEdits = 1
    MaxInfo = 2
    MaxFaults = 0
SYMMETRY Alike
INVARIANTS
    TypeOK
PROPERTIES
    MembersOnlyByOwn
