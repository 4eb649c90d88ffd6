CONSTANTS
    Nodes = {a, b, c}
    NoNode = NoNode
    Sizes <- BoundarySizes
    MaxMsgs = 1
    MaxCrashes = 0
SPECIFICATION FairSpec
PROPERTIES
    RoutedIsReceived
CHECK_DEADLOCK FALSE
