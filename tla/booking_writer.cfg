SPECIFICATION Spec
CONSTANTS
    Server = {w1}
    Reader = {}
    MaxConn <- MCMaxConn2
    NumRecords = 2
    WordMax = 31
    InitFile <- MCInitFile
    AliasFd = 0
    Line <- MCLine
    IdOf <- MCIdOf
    Args <- MCArgs
    ExitLine = "exit"
    BlankLine = "blank"
    GarbledLine = "garbled"
    Fragment = "fragment"
    Interrupt = "interrupt"
    Chunk <- MCChunkWriter
    CutStages = {0, 1}
    NoId = NoId
    NoView = NoView
    BadToken = BadToken
    NoToken = NoToken
    MaxBacklog = 1
    MaxInbox = 1
    MaxLeak = 0
INVARIANTS
    ViewCurrent
    LockAccounting
    BookingLegal
    OpenIsWatched
