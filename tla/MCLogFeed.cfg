CONSTANTS
    LogCap = 3
    PageCap = 2
    Slots = {s1, s2}
    MaxLogs = 4
    MaxReloads = 1
    MaxRestarts = 1
SPECIFICATION FairSpec
INVARIANTS
    TypeOK
    SkipsExplained
    OnceInOrder
    StopsAtCap
PROPERTIES
    EveryEntryShown
