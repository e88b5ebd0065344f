SPECIFICATION FairSpec
CONSTANTS
    Lines = 2
    Burst = 2
    QueueSize = 1
INVARIANTS TypeOK Delivers
PROPERTIES OneForOne HandedOn
