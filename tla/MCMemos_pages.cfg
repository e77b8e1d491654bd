SPECIFICATION MemosSpec
CONSTANTS
    m1 = m1
    k1 = k1
    Top = {m1}
    Parent <- OneComment
    Buffer = 2
    Ops = {o1}
    MaxValue = 2
    MaxFaults = 2
    home = home
    edit = edit
    f1 = f1
    Editors = {home, edit}
    Kind <- EditorKind
    FilesOf <- FileForEdit
    Preferences <- AllDrafts
    MaxText = 2
    MaxEditorFaults = 1
INVARIANTS ListsFresh DetailsFresh NoPhantoms DraftsFollow
PROPERTY TextKept
CHECK_DEADLOCK FALSE
