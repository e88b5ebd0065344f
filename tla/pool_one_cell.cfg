SPECIFICATION ASpec
CONSTANTS
    n1 = n1
    n2 = n2
    n3 = n3
    NoNode = NoNode
    Nodes <- mcNodes
    MaxPendingNodes = 1
    NumRetries = 1
    NumRetriesInv = 1
    TxMaxRetr = 2
    TxDelay = 1
    InviteTimeout = 1
    MaxMsgs = 2
    MallocFails = TRUE
    Replies <- mcReplies
SYMMETRY mcSymmetry
INVARIANTS TypeOK WorkerCellStable AttemptsBound FifoOrder
