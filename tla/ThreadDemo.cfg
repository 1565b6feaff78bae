CONSTANTS
    N_THREADS = 4
    NT = 3
    N = 4
    ITERS = 2
    Limit = 10
    Rounds = 100
    QUEUE_SIZE = 8
    Permits = 5
    Items = 10
    SENTINEL = SENTINEL
    NR = 3
    Writers <- DemoWriters
SPECIFICATION DemoSpec
INVARIANTS NoOrphanedSleeper NoLostUpdate SlotsDisjoint StableUnderLock
PROPERTIES RingIsFifo DemosEnd
