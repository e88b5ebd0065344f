SPECIFICATION DSpec
CONSTANTS
    n1 = n1
    n2 = n2
    NoNode = NoNode
    Nodes <- mcNodes
    MaxPendingNodes = 1
    NumRetries = 1
    NumRetriesInv = 1
    TxMaxRetr = 1
    TxDelay = 0
    InviteTimeout = 0
    MaxMsgs = 2
    MallocFails = TRUE
    Replies <- mcReplies
    AckBound = 1
    SentBound = 0
SYMMETRY mcSymmetry
CONSTRAINT mcUnraced
INVARIANTS SentOnAsk KeptOrEnded
PROPERTIES Implements AcksOwn
