CONSTANTS
    Nodes = {a, b}
    NoNode = NoNode
    Sizes <- BoundarySizes
    MaxMsgs = 1
    MaxCrashes = 3
SPECIFICATION FairSpec
INVARIANTS
    TypeOK
    SenderIsIdentity
    ShownIsJournaled
PROPERTIES
    IdentityKept
    ImplementsMailbox
    SentIsShown
    ComesBack
CHECK_DEADLOCK FALSE
