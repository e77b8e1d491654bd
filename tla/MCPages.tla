-------------------------------- MODULE MCPages --------------------------------
(***************************************************************************)
(* Small instances of the parts of the web pages that do not meet in the   *)
(* code: UserSettings, and under names of their own the other modules      *)
(* instantiated below.  A behaviour is one of a single part; `part` says   *)
(* of which, and the others stay as they start.                            *)
(***************************************************************************)
EXTENDS UserSettings, Sequences

CONSTANTS
    Tabs, Servers, MaxPreferences, MaxRuns,                      \* SyncSettings
    Pages, Overlap, MaxInstanceEdits, MaxInstanceFaults,         \* InstanceSettings
    Items, Existing, New, Ops, Patience, MaxTyped, MaxListFaults, \* SettingLists
    Tags, Words, Dates, Paths, DetailPaths, Shortcuts, MaxEvents, \* MemoFilters
    Memos, PageSize, MaxMemoChanges, MaxSwitches,                \* PagedList
    Images, Texts, Empty, MaxActs,                               \* AccountForms
    Files, MaxFileChanges, MaxFileFaults,                        \* AttachmentsPage
    Lats, Lngs, Invalid, MaxPicks,                               \* MemoLocation
    Offers, Undefined, MaxWords, MaxKeys,                        \* Suggestions
    Notes, MaxNoteChanges, MaxNoteFaults,                        \* Inbox
    Themes, DarkThemes, MaxThemes, MaxFailures,                  \* AppShell
    FocusTags, Patient, MaxBody, MaxClicks,                      \* FocusEditor
    Windows, Hooks, Fonts, MaxEditorEdits, MaxRefused,           \* EditorPreferences
    Cards, Heights, MaxColumns, Steady, MaxLayouts,              \* Masonry
    Requests, Unhurried, MaxToggles, MaxToggleFaults             \* TaskList

ASSUME SyncSettingsAssumption ==
    "none" \notin Servers /\ "none" \notin Tabs /\ {MaxPreferences, MaxRuns} \subseteq Nat
ASSUME InstanceSettingsAssumption ==
    Overlap \in BOOLEAN /\ {MaxInstanceEdits, MaxInstanceFaults} \subseteq Nat
ASSUME SettingListsAssumption ==
    /\ Existing \subseteq Items /\ New \notin Items
    /\ Patience \subseteq BOOLEAN /\ {MaxTyped, MaxListFaults} \subseteq Nat
ASSUME MemoFiltersAssumption == MaxEvents \in Nat /\ Paths \cap DetailPaths = {}
ASSUME PagedListAssumption == PageSize \in Nat \ {0} /\ {MaxMemoChanges, MaxSwitches} \subseteq Nat
ASSUME AccountFormsAssumption == Empty \notin Images \cup Texts /\ MaxActs \in Nat
ASSUME MemoLocationAssumption == Invalid \notin Lats \cup Lngs /\ MaxPicks \in Nat
ASSUME SuggestionsAssumption == Undefined \notin Offers /\ {MaxWords, MaxKeys} \subseteq Nat
ASSUME AppShellAssumption == DarkThemes \subseteq Themes /\ {MaxThemes, MaxFailures} \subseteq Nat
ASSUME BoundsAssumption == {MaxFileChanges, MaxFileFaults, MaxNoteChanges, MaxNoteFaults,
    MaxBody, MaxClicks, MaxEditorEdits, MaxRefused, MaxLayouts, MaxToggles, MaxToggleFaults} \subseteq Nat
ASSUME MasonryAssumption ==
    Heights \subseteq Nat \ {0} /\ MaxColumns \in Nat \ {0} /\ Steady \cup Unhurried \subseteq BOOLEAN

(* The texts of TaskList: two tasks in bulleted lists, one in a numbered   *)
(* list, and what looks like one in a block of code.                       *)
Task(kind, ready) == [kind |-> kind, done |-> ready]
TaskTexts == {<<Task("code", FALSE), Task("bullet", FALSE), Task("numbered", FALSE), Task("bullet", TRUE)>>}

VARIABLES
    part,
    prefs, copy, status, shown, events, job, lock, last, picked, preferences, runs,
    instance, settings, section, instanceForm, entered, profile, saves, styles, meant, unsure,
        edits, instanceFaults,
    kind, patient, list, used, listed, subject, open, form, confirm, op, missed, typed, listFaults,
    bar, seen, filters, queued, lastUrl, lastStore, shortcut, shortcuts, wanted, acts,
    memos, unused, news, order, pages, stale, fetch, lost, memoChanges, switches,
    account, currentUser, dialogs, state, touched, reading, updates, password, newPassword,
        newPasswordAgain, agreed, accountActs,
    files, filesShown, token, filesListing, more, sweep, doomed, attached, deleted, behind,
        fileChanges, fileFaults,
    picker, position, inputs, placeholder, initialized, locating, waiting, debounced, asking, names,
        displayName, place, picks,
    words, cursor, items, popup, selectedIndex, suggestions, taken, keys,
    notes, gone, inbox, tab, noteList, listing, stage, requests, failed, unread, noteChanges, noteFaults,
    theme, phase, calls, style, color, fill, found, themes, failures,
    calm, content, focus, exiting, vditor, captured, vditorText, late, due, untold, saving, dark, vdark,
        typedIn, inFocus, unheard, body, clicks,
    stored, mounted, has, font, told, early, refused, editorEdits,
    steady, memoList, columns, tall, prefix, itemHeights, distribution, laidUnder, unlaid, timer, layouts,
    unhurried, inDetail, text, read, refetch, event, update, clicked, rolledBack, toggles, toggleFaults

sync == <<prefs, copy, status, shown, events, job, lock, last, picked, preferences, runs>>
inst == <<instance, settings, section, instanceForm, entered, profile, saves, styles, meant, unsure,
          edits, instanceFaults>>
lists == <<kind, patient, list, used, listed, subject, open, form, confirm, op, missed, typed, listFaults>>
filter == <<bar, seen, filters, queued, lastUrl, lastStore, shortcut, shortcuts, wanted, acts>>
paged == <<memos, unused, news, order, pages, stale, fetch, lost, memoChanges, switches>>
forms == <<account, currentUser, dialogs, state, touched, reading, updates, password, newPassword,
           newPasswordAgain, agreed, accountActs>>
attachments == <<files, filesShown, token, filesListing, more, sweep, doomed, attached, deleted, behind,
                 fileChanges, fileFaults>>
location == <<picker, position, inputs, placeholder, initialized, locating, waiting, debounced, asking,
              names, displayName, place, picks>>
typing == <<words, cursor, items, popup, selectedIndex, suggestions, taken, keys>>
notices == <<notes, gone, inbox, tab, noteList, listing, stage, requests, failed, unread, noteChanges,
             noteFaults>>
shell == <<theme, phase, calls, style, color, fill, found, themes, failures>>
focusing == <<calm, content, focus, exiting, vditor, captured, vditorText, late, due, untold, saving, dark,
              vdark, typedIn, inFocus, unheard, body, clicks>>
choices == <<stored, mounted, has, font, told, early, refused, editorEdits>>
masonry == <<steady, memoList, columns, tall, prefix, itemHeights, distribution, laidUnder, unlaid, timer,
             layouts>>
checkboxes == <<unhurried, inDetail, text, read, refetch, event, update, clicked, rolledBack, toggles, toggleFaults>>
allVars == <<part, vars, sync, inst, lists, filter, paged, forms, attachments, location, typing, notices,
             shell, focusing, choices, masonry, checkboxes>>

S == INSTANCE SyncSettings WITH chosen <- picked, edits <- preferences, MaxEdits <- MaxPreferences
I == INSTANCE InstanceSettings WITH
        server <- instance, known <- settings, form <- instanceForm, typed <- entered, call <- saves,
        doubtful <- unsure, faults <- instanceFaults,
        MaxEdits <- MaxInstanceEdits, MaxFaults <- MaxInstanceFaults
L == INSTANCE SettingLists WITH
        server <- list, doubtful <- missed, faults <- listFaults, MaxFaults <- MaxListFaults
F == INSTANCE MemoFilters WITH events <- acts, Hasty <- FALSE
P == INSTANCE PagedList WITH server <- memos, changes <- memoChanges, MaxChanges <- MaxMemoChanges
A == INSTANCE AccountForms WITH server <- account, open <- dialogs, acts <- accountActs
D == INSTANCE AttachmentsPage WITH
        server <- files, shown <- filesShown, listing <- filesListing, changes <- fileChanges,
        faults <- fileFaults, MaxChanges <- MaxFileChanges, MaxFaults <- MaxFileFaults
G == INSTANCE MemoLocation WITH open <- picker
T == INSTANCE Suggestions WITH position <- popup, Stray <- FALSE
N == INSTANCE Inbox WITH
        server <- notes, open <- inbox, filter <- tab, list <- noteList, changes <- noteChanges,
        faults <- noteFaults, MaxChanges <- MaxNoteChanges, MaxFaults <- MaxNoteFaults
B == INSTANCE AppShell WITH seen <- found
E == INSTANCE FocusEditor WITH patient <- calm, shown <- vditorText, gone <- untold
C == INSTANCE EditorPreferences WITH used <- mounted
M == INSTANCE Masonry WITH due <- unlaid
K == INSTANCE TaskList WITH Memos0 <- TaskTexts, wanted <- clicked

(* The other parts stay at one of their initial states.                    *)
Parts == {"user", "sync", "instance", "lists", "filters", "memos", "account", "files", "location",
          "suggestions", "inbox", "app", "focus", "choices", "masonry", "tasks"}
PagesInit ==
    /\ part \in Parts
    /\ Init /\ (part # "user" => server = Default)
    /\ S!Init /\ I!Init
    /\ L!Init /\ (part # "lists" => kind = "idp" /\ patient)
    /\ F!Init /\ (part # "filters" => filters = <<>> /\ bar = [path |-> CHOOSE p \in Paths : TRUE, query |-> <<>>])
    /\ P!Init /\ (part # "memos" => memos = <<>>)
    /\ A!Init /\ (part # "account" => account["username"] = CHOOSE t \in Texts : TRUE)
    /\ D!Init /\ (part # "files" => files = <<>>)
    /\ G!Init /\ (part # "location" => place = <<>>)
    /\ T!Init /\ (part # "suggestions" => items = <<>>)
    /\ N!Init /\ (part # "inbox" => \A n \in Notes : notes[n] = "none")
    /\ B!Init /\ (part # "app" => theme = (CHOOSE t \in Themes : TRUE) /\ style = "Light")
    /\ E!Init /\ (part # "focus" => calm = CHOOSE b \in Patient : TRUE)
    /\ C!Init
    /\ M!Init /\ prefix = 0
    /\ part # "masonry" => memoList = <<>> /\ steady = (CHOOSE b \in Steady : TRUE)
                           /\ tall = [m \in Cards |-> CHOOSE h \in Heights : TRUE]
    /\ K!Init /\ (part # "tasks" => ~inDetail /\ unhurried = CHOOSE b \in Unhurried : TRUE)

At(p) == part = p /\ part' = part
UserPart ==
    /\ At("user") /\ Next
    /\ UNCHANGED <<sync, inst, lists, filter, paged, forms, attachments, location, typing, notices,
                   shell, focusing, choices, masonry, checkboxes>>
SyncPart ==
    /\ At("sync") /\ S!Next
    /\ UNCHANGED <<vars, inst, lists, filter, paged, forms, attachments, location, typing, notices,
                   shell, focusing, choices, masonry, checkboxes>>
InstancePart ==
    /\ At("instance") /\ I!Next
    /\ UNCHANGED <<vars, sync, lists, filter, paged, forms, attachments, location, typing, notices,
                   shell, focusing, choices, masonry, checkboxes>>
ListPart ==
    /\ At("lists") /\ L!Next
    /\ UNCHANGED <<vars, sync, inst, filter, paged, forms, attachments, location, typing, notices,
                   shell, focusing, choices, masonry, checkboxes>>
FilterPart ==
    /\ At("filters") /\ F!Next
    /\ UNCHANGED <<vars, sync, inst, lists, paged, forms, attachments, location, typing, notices,
                   shell, focusing, choices, masonry, checkboxes>>
MemoPart ==
    /\ At("memos") /\ P!Next
    /\ UNCHANGED <<vars, sync, inst, lists, filter, forms, attachments, location, typing, notices,
                   shell, focusing, choices, masonry, checkboxes>>
AccountPart ==
    /\ At("account") /\ A!Next
    /\ UNCHANGED <<vars, sync, inst, lists, filter, paged, attachments, location, typing, notices,
                   shell, focusing, choices, masonry, checkboxes>>
FilePart ==
    /\ At("files") /\ D!Next
    /\ UNCHANGED <<vars, sync, inst, lists, filter, paged, forms, location, typing, notices,
                   shell, focusing, choices, masonry, checkboxes>>
LocationPart ==
    /\ At("location") /\ G!Next
    /\ UNCHANGED <<vars, sync, inst, lists, filter, paged, forms, attachments, typing, notices,
                   shell, focusing, choices, masonry, checkboxes>>
SuggestionPart ==
    /\ At("suggestions") /\ T!Next
    /\ UNCHANGED <<vars, sync, inst, lists, filter, paged, forms, attachments, location, notices,
                   shell, focusing, choices, masonry, checkboxes>>
InboxPart ==
    /\ At("inbox") /\ N!Next
    /\ UNCHANGED <<vars, sync, inst, lists, filter, paged, forms, attachments, location, typing,
                   shell, focusing, choices, masonry, checkboxes>>
AppPart ==
    /\ At("app") /\ B!Next
    /\ UNCHANGED <<vars, sync, inst, lists, filter, paged, forms, attachments, location, typing,
                   notices, focusing, choices, masonry, checkboxes>>
FocusPart ==
    /\ At("focus") /\ E!Next
    /\ UNCHANGED <<vars, sync, inst, lists, filter, paged, forms, attachments, location, typing, notices,
                   shell, choices, masonry, checkboxes>>
ChoicePart ==
    /\ At("choices") /\ C!Next
    /\ UNCHANGED <<vars, sync, inst, lists, filter, paged, forms, attachments, location, typing, notices,
                   shell, focusing, masonry, checkboxes>>

MasonryPart ==
    /\ At("masonry") /\ M!Next
    /\ UNCHANGED <<vars, sync, inst, lists, filter, paged, forms, attachments, location, typing, notices,
                   shell, focusing, choices, checkboxes>>
TaskPart ==
    /\ At("tasks") /\ K!Next
    /\ UNCHANGED <<vars, sync, inst, lists, filter, paged, forms, attachments, location, typing, notices,
                   shell, focusing, choices, masonry>>

PagesNext ==
    \/ UserPart \/ SyncPart \/ InstancePart \/ ListPart \/ FilterPart \/ MemoPart
    \/ AccountPart \/ FilePart \/ LocationPart \/ SuggestionPart \/ InboxPart \/ AppPart
    \/ FocusPart \/ ChoicePart \/ MasonryPart \/ TaskPart

RenderFilters ==
    /\ At("filters") /\ F!RenderFilters
    /\ UNCHANGED <<vars, sync, inst, lists, paged, forms, attachments, location, typing, notices,
                   shell, focusing, choices, masonry, checkboxes>>
RenderAddress ==
    /\ At("filters") /\ F!RenderAddress
    /\ UNCHANGED <<vars, sync, inst, lists, paged, forms, attachments, location, typing, notices,
                   shell, focusing, choices, masonry, checkboxes>>

PagesSpec ==
    PagesInit /\ [][PagesNext]_allVars /\ WF_allVars(RenderFilters) /\ WF_allVars(RenderAddress)

(* The properties of the parts under plain names: see there.               *)
PagesAgree == S!PagesAgree
ErrorIsOfLastRun == S!ErrorIsOfLastRun
RendersEnd == F!RendersEnd

(* What dialogs and forms send or delete is what the user has typed, taken *)
(* or read there.                                                          *)
SavesChangeWhatWasTyped == I!SavesChangeWhatWasTyped /\ A!UpdatesWhatWasTyped /\ E!NothingOverwritten
ItemsKeepTheirOwn == L!ItemsKeepTheirOwn /\ K!TasksKeepTheirOwn
TakenWhereFound == T!TakenWhereFound
UnreadAreKept == N!UnreadAreKept

(* Lists at rest show what the server has.                                 *)
ListsShowTheServer == L!ListSettles /\ P!PagesFresh /\ D!FilesFresh

(* Effects and events that follow a change come to rest where the last one  *)
(* left off.                                                               *)
EffectsSettle ==
    /\ C!CopiesAgree
    /\ F!FiltersSettle /\ G!NamesSettle /\ B!BarFollows
    /\ E!FocusAsAsked /\ E!VditorFollows /\ M!LayoutSettles
================================================================================
