SPECIFICATION DSpec
CONSTANTS
    n1 = n1
    n2 = n2
    NoNode = NoNode
    Nodes <- mcOneNode
    MaxPendingNodes = 1
    NumRetries = 1
    NumRetriesInv = 1
    TxMaxRetr = 3
    TxDelay = 0
    InviteTimeout = 0
    MaxMsgs = 1
    MallocFails = FALSE
    Replies <- mcOneKicks
    AckBound = 2
    SentBound = 3
INVARIANT NoSilentLoss
