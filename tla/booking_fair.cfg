SPECIFICATION FairSpec
CONSTANTS
    Server = {r1, w1}
    Reader = {r1}
    MaxConn <- MCMaxConn2
    NumRecords = 1
    WordMax = 31
    InitFile <- MCInitFile
    AliasFd = 0
    Line <- MCLine
    IdOf <- MCIdOf
    Args <- MCArgs
    ExitLine = "exit"
    BlankLine = "blank"
    GarbledLine = "garbled"
    Fragment = "fragment"
    Interrupt = "interrupt"
    Chunk <- MCChunkFair
    CutStages = {1}
    NoId = NoId
    NoView = NoView
    BadToken = BadToken
    NoToken = NoToken
    MaxBacklog = 1
    MaxInbox = 1
    MaxLeak = 0
INVARIANTS
    Exclusion
    NoOrphanLock
    OpenIsWatched
PROPERTIES
    Answered
