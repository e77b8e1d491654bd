SPECIFICATION PartsSpec
CONSTANTS
    Parents = {p, q}
    MaxComment = 2
    Texts = {a, b}
    NewTexts = {a}
    MaxTime = 2
    LongTime = 3
    Fresh = Fresh
    Gone = Gone
    Faults = {"fail", "lost", "refuse", "die"}
    MaxFaults = 1
    EditsAtReread = FALSE
    Files = {f, g, h}
    Workers = 2
    MaxRetries = 1
    MaxVersion = 3
    MaxTransferFaults = 1
INVARIANTS SyncedCommentsAgree NoDuplicates SyncedRefsAgree
PROPERTIES DeletesJustified Converges TransfersEnd
CHECK_DEADLOCK FALSE
