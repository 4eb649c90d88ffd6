CONSTANTS
    s = s
    Owners <- OnlyS
    Nodes = {s, r}
    NoNode = NoNode
    Files = {f}
    NoFile = NoFile
    Name <- OneName
    NbChunks = 2
    NumWorkers = 2
    MaxManifests = 2
    MaxFaults = 1
SPECIFICATION FairSpec
CHECK_DEADLOCK FALSE
INVARIANTS
    TypeOK
    NothingLost
    CompleteIsWhole
    SavedIsMended
PROPERTIES
    ImplementsSharing
    ManifestLeadsToFile
