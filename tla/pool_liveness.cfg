SPECIFICATION FairSpec
CONSTANTS
    n1 = n1
    n2 = n2
    n3 = n3
    NoNode = NoNode
    Nodes <- mcOneNode
    MaxPendingNodes = 1
    NumRetries = 2
    NumRetriesInv = 1
    TxMaxRetr = 2
    TxDelay = 1
    InviteTimeout = 1
    MaxMsgs = 2
    MallocFails = FALSE
    Replies <- mcTalk
PROPERTY Drains
