SPECIFICATION PagesSpec
CONSTANTS
    Calls = {c1, c2}
    MaxValue = 2
    MaxChanges = 3
    MaxFaults = 1
    Tabs = {t1, t2}
    Servers = {s1, s2}
    MaxPreferences = 2
    MaxRuns = 2
    Pages = {p1}
    Overlap = FALSE
    MaxInstanceEdits = 3
    MaxInstanceFaults = 1
    Items = {i1, i2}
    Existing = {i1}
    New = new
    Ops = {o1, o2}
    Patience = {TRUE, FALSE}
    MaxTyped = 1
    MaxListFaults = 1
    Tags = {t1, t2}
    Words = {w1}
    Dates = {d1}
    Paths = {home, explore}
    DetailPaths = {memo}
    Shortcuts = {h1}
    MaxEvents = 3
    Memos = {m1, m2, m3}
    PageSize = 1
    MaxMemoChanges = 2
    MaxSwitches = 2
    Images = {g1, g2}
    Texts = {u1, u2}
    Empty = empty
    MaxActs = 6
    Files = {f1, f2, f3}
    MaxFileChanges = 2
    MaxFileFaults = 1
    Lats = {a1, a2}
    Lngs = {b1}
    Invalid = x
    MaxPicks = 4
    Offers = {c1, c2}
    Undefined = undefined
    MaxWords = 2
    MaxKeys = 5
    Notes = {n1, n2}
    MaxNoteChanges = 5
    MaxNoteFaults = 1
    Themes = {default, dark}
    DarkThemes = {dark}
    MaxThemes = 3
    MaxFailures = 1
    FocusTags = {t1}
    Patient = {TRUE, FALSE}
    MaxBody = 2
    MaxClicks = 5
    Windows = {w1, w2}
    Hooks = {k1, k2}
    Fonts = {serif}
    MaxEditorEdits = 5
    MaxRefused = 1
    Cards = {m1, m2, m3}
    Heights = {1, 2}
    MaxColumns = 2
    Steady = {TRUE, FALSE}
    MaxLayouts = 2
    Requests = {o1, o2}
    Unhurried = {TRUE, FALSE}
    MaxToggles = 3
    MaxToggleFaults = 1
INVARIANTS SettingsSettle PagesAgree ErrorIsOfLastRun SavesChangeWhatWasTyped ItemsKeepTheirOwn TakenWhereFound UnreadAreKept ListsShowTheServer EffectsSettle
PROPERTY RendersEnd
CHECK_DEADLOCK FALSE
