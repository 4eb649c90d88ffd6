CONSTANTS
    Workers = {w1, w2, w3}
    Peers = {p1}
    NoPeer = NoPeer
    NbChunks = 2
    MaxSources = 1
    MaxBad = 1
SPECIFICATION Spec
INVARIANT AnnouncedFileIntact
