SPECIFICATION Spec
SYMMETRY TextSymmetry
CONSTANTS
    MaxId = 3
    Texts = {a, b, blank}
    Blank = blank
    MaxTime = 3
    Fresh = Fresh
    Gone = Gone
    PageSize = 3
    MaxPages = 3
    Threshold = 1
    SyncPinned = FALSE
    SyncArchived = FALSE
    EditFields = {"text"}
    SameSecond = FALSE
    CanAbort = FALSE
    RequestsFail = FALSE
    StorageFull = FALSE
    CanRestore = FALSE
INVARIANTS SyncedPairsAgree NoUnconfirmedMassDeletion NoDuplicates CursorCovers
PROPERTY LocalDeletesJustified
CHECK_DEADLOCK FALSE
