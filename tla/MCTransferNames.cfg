CONSTANTS
    s = s
    Owners <- OnlyS
    Nodes = {s, r}
    NoNode = NoNode
    Files = {f, g}
    NoFile = NoFile
    Name <- OneName
    NbChunks = 1
    NumWorkers = 3
    MaxManifests = 2
    MaxFaults = 0
SPECIFICATION Spec
CHECK_DEADLOCK FALSE
INVARIANT SavedIsOnDisk
