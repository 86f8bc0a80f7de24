SPECIFICATION FairSpec
CONSTANTS
    f = f
    c = c
    r = r
    Thread = {f, c, r}
    Created <- AllCreated
    Task <- TaskOf
    Arg <- EndlessArg
    Fd <- FdOf
    TableSize = 1024
    SharedSlot = TRUE
    Timeslice = 1
    Number <- ClobberNumber
    WriterLeaves = TRUE
    MaxWrites = 3
INVARIANTS
    QueuesExact
    SwitchesWhereAllowed
    PreemptionAlive
PROPERTIES
    NoStarvation
    FifoServed
