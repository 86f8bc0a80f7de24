SPECIFICATION FairSpec
CONSTANTS
    f = f
    c = c
    r = r
    Thread = {f, r}
    Created <- SampleCreated
    Task <- SampleTask
    Arg <- SampleArg
    Fd <- SampleFd
    TableSize = 1024
    SharedSlot = TRUE
    Timeslice = 1
    Number <- SampleNumber
    WriterLeaves = FALSE
    MaxWrites = 2
INVARIANTS
    CountedOnce
