SPECIFICATION Spec
SYMMETRY TextSymmetry
CONSTANTS
    MaxId = 2
    Texts = {a, b}
    Blank = blank
    MaxTime = 3
    Fresh = Fresh
    Gone = Gone
    PageSize = 2
    MaxPages = 3
    Threshold = 2
    SyncPinned = FALSE
    SyncArchived = FALSE
    EditFields = {"text"}
    SameSecond = FALSE
    CanAbort = FALSE
    RequestsFail = FALSE
    StorageFull = FALSE
    CanRestore = FALSE
PROPERTY RemoteLastWriterWins
CHECK_DEADLOCK FALSE
