SPECIFICATION FairSpec
CONSTANTS
    Devices = 1
    StaticDevs = 1
    PoolSize = 1
    QueueSize = 1
    Ready = 1
INVARIANTS TypeOK WholeCommands
PROPERTIES ListsToAsker AllReturn
