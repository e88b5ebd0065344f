SPECIFICATION Spec
CONSTANTS
    n1 = n1
    n2 = n2
    n3 = n3
    NoNode = NoNode
    Nodes <- mcThreeNodes
    MaxPendingNodes = 2
    NumRetries = 1
    NumRetriesInv = 1
    TxMaxRetr = 1
    TxDelay = 0
    InviteTimeout = 1
    MaxMsgs = 2
    MallocFails = FALSE
    Replies <- mcMembership
SYMMETRY mcSymmetryOfThree
INVARIANTS UniqueCell WorkerCellStable FifoOrder
