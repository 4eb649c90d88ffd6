CONSTANTS
    Peers = {p1}
    Scans = {s1, s2}
    HelloInterval = 6
    RetryInterval = 1
    PeerTimeout = 18
    CleanupInterval = 6
    Jitter = 1
    MaxLost = 2
SPECIFICATION FairSpec
INVARIANTS
    TypeOK
    LivePeerKept
    DeadPeerGone
PROPERTIES
    StoppedPeerForgotten
    RunningPeerFound
