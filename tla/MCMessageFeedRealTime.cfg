CONSTANTS
    Writers = {w1}
    MsgCap = 2
    MaxMsgs = 3
    MaxPolls = 1
SPECIFICATION FairSpec
PROPERTY ReceivedInRealTime
