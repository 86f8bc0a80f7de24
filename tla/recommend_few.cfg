SPECIFICATION Spec
CONSTANTS
    Title <- MCTitle
    Film <- MCFilm
    Request <- MCRequest
    Cases <- MCCasesFew
    Small = 4
    MaxReq = 3
    Room = 2
    Buffer = 5
    Dirty <- MCDirty
    NoFile = NoFile
INVARIANT
    Delivered
