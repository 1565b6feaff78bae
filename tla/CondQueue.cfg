CONSTANTS
    Producers = {p1, p2}
    Consumers = {c1, c2}
    QUEUE_SIZE = 2
    N = 2
    SENTINEL = SENTINEL
    NoThread = NoThread
SPECIFICATION FairSpec
INVARIANTS NoLostWakeup
PROPERTIES ImplementsFifo Termination
