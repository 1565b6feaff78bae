CONSTANTS
    Users = {u1, u2}
    a = a
    b = b
    Byte = {a, b}
    Data <- SomeData
    BUF_SIZE = 2
    MaxCount = 2
    MaxCalls = 3
    MaxLoads = 2
    Junk = Junk
    NoUser = NoUser
    Readers = {r1, r2}
    Counts <- SomeCounts
    MaxWrites = 2
    Page = 2
SPECIFICATION KernelSpec
INVARIANTS NoUseAfterFree NothingLeaked NothingAfterUnload GreetingsInRange
PROPERTIES ImplementsStream CallsAndUnloadsReturn
