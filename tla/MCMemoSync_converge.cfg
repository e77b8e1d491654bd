SPECIFICATION FairSpec
CONSTANTS
    MaxId = 2
    Texts = {a, b}
    Blank = blank
    MaxTime = 3
    Fresh = Fresh
    Gone = Gone
    PageSize = 3
    MaxPages = 3
    Threshold = 3
    SyncPinned = TRUE
    SyncArchived = TRUE
    EditFields = {"text", "vis", "pin", "st"}
    SameSecond = FALSE
    CanAbort = FALSE
    RequestsFail = FALSE
    StorageFull = FALSE
    CanRestore = FALSE
PROPERTY Converges
CHECK_DEADLOCK FALSE
