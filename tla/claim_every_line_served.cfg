SPECIFICATION Spec
CONSTANTS
    Lines = 2
    Burst = 2
    QueueSize = 2
INVARIANT EveryLineServed
