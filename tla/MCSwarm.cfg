CONSTANTS
    Workers = {w1, w2}
    Peers = {p1, p2}
    NoPeer = NoPeer
    NbChunks = 2
    MaxSources = 2
    MaxBad = 1
SPECIFICATION FairSpec
INVARIANTS
    TypeOK
    NoChunkStranded
    FinalizeHasAll
    GapHasWriter
    FinishedWhole
    QueueGrowth
PROPERTIES
    ImplementsDownload
    DownloadCompletes
    WorkersStop
