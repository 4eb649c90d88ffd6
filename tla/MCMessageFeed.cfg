CONSTANTS
    Writers = {w1, w2, w3}
    MsgCap = 3
    MaxMsgs = 6
    MaxPolls = 2
SPECIFICATION FairSpec
INVARIANTS
    TypeOK
    MessagesBounded
    TrimKeepsNewest
PROPERTY ShownBelowCap
