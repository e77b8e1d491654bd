SPECIFICATION Spec
SYMMETRY TextSymmetry
CONSTANTS
    MaxId = 3
    Texts = {a, b, blank}
    Blank = blank
    MaxTime = 2
    Fresh = Fresh
    Gone = Gone
    PageSize = 1
    MaxPages = 3
    Threshold = 2
    SyncPinned = FALSE
    SyncArchived = FALSE
    EditFields = {"text"}
    SameSecond = FALSE
    CanAbort = TRUE
    RequestsFail = FALSE
    StorageFull = FALSE
    CanRestore = FALSE
INVARIANT CursorCovers
CHECK_DEADLOCK FALSE
