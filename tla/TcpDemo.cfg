CONSTANTS
    Dialer = l1
    Lockstep = {l1}
    Free = {n1}
    MESSAGES = 2
    WIDTH = 2
    BYTES = 2
    MAX_EVENTS = 2
    MaxFds = 2
    Failing = {l1}
    Addresses = 2
    Served = 2
    None = None
SPECIFICATION DemoSpec
INVARIANTS EventHolds UsableOrNone
PROPERTIES ClosesFollow ClientFinishes ShutdownHappens
