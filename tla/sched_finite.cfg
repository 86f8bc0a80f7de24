SPECIFICATION FedSpec
CONSTANTS
    f = f
    c = c
    r = r
    Thread = {f, c, r}
    Created <- AllCreated
    Task <- TaskOf
    Arg <- FiniteArg
    Fd <- FdOf
    TableSize = 1024
    SharedSlot = FALSE
    Timeslice = 1
    Number <- MCNumber
    WriterLeaves = FALSE
    MaxWrites = 3
INVARIANTS
    TypeOK
    JumpsToReady
    BestSum
    CountedOnce
PROPERTIES
    AllFinish
