SPECIFICATION Spec
SYMMETRY TextSymmetry
CONSTRAINT Bounded
CONSTANTS
    MaxId = 2
    Texts = {a, b}
    Blank = blank
    MaxTime = 3
    ShortTime = 2
    Fresh = Fresh
    Gone = Gone
    PageSize = 1
    MaxPages = 3
    Threshold = 0
    SyncPinned = FALSE
    SyncArchived = FALSE
    EditFields = {"text"}
    SameSecond = FALSE
    CanAbort = TRUE
    RequestsFail = TRUE
    StorageFull = TRUE
    CanRestore = TRUE
INVARIANT SyncedPairsAgree
PROPERTY RemoteDeletesJustified
CHECK_DEADLOCK FALSE
