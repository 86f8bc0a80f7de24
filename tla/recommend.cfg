SPECIFICATION FairSpec
CONSTANTS
    Title <- MCTitle
    Film <- MCFilm
    Request <- MCRequest
    Cases <- MCCases
    Small = 4
    MaxReq = 3
    Room = 2
    Buffer = 5
    Dirty <- MCDirty
    NoFile = NoFile
INVARIANTS
    TypeOK
    RaceFree
    PartsSorted
    NoneLost
    CrashOnlyOnNothing
PROPERTIES
    ImplementsRecommender
    AnswersCome
