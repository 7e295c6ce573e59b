SPECIFICATION Spec
CONSTANTS
    Cluster = {"A", "AB", "C"}
    Mesh = {"m"}
    None = None
    Inside <- NestedNames
    Workers = 1
    CacheLag = {}
    MaxEdits = 1
    MaxInfo = 1
    MaxFaults = 0
PROPERTIES
    UnpeeredByOwn
