# Memore in TLA+

Memore is a local-first Memos: a Go server with an SQL store, a React client,
and shells (Wails, Android) that run both on one device. What sets it apart
from Memos is the two-way synchronisation between the server on the device (the
*local* backend) and a Memos instance elsewhere (the *remote*). It runs in the
browser, without a transaction anywhere, against two servers that other people
use meanwhile, and remembers what it knows in localStorage. This directory
models that core and the stateful parts of the pages, checks it with TLC and
proves its safety with TLAPS.

## Inventory

| Component (source) | State | Hard because | Correct when | Module |
|---|---|---|---|---|
| Memo API (`server/router/api/v1/memo_service.go`, `store/memo.go`) | rows with content, visibility, pinned, state, times | paging by offset, times in seconds, times set by clients | ids are not reused; the order is total | `MemoTable` |
| Sync tab lock (`web/src/lib/memore-sync.ts` 336-532) | one localStorage entry per remote server: owner, lock id, expiry | several processes, timers that run late, dead pages | one task per server; a dead lock expires; nobody frees a lock of another | `SyncTabLock` |
| Push and pull (`memore-sync.ts` 945-1318, 1461-2550) | imported names, bindings, cursor; locals of a run | everything changes between two requests; runs die; pages shift | no edit is taken for synchronised, deletions are justified, the sides converge | `SyncState`, `MemoPush`, `MemoPull`, `MemoSync` |
| Triggers (`useMemoreTriggeredSync.ts`, `useMemoreStartupSync.ts`) | running and pending flags, startup key | closures over old preferences, failures at any await | a change is pushed in the end; the lock is held while working and only then | `TriggeredSync` |
| Comment sync (`memore-sync.ts` 2759-3102) | comment bindings | saved only at the end; answers lost | as for memos | `CommentSync` |
| Attachment transfer (`memore-sync.ts` 684-943) | attachment bindings, references of a memo | concurrent workers, retries, partial failure | what is recorded as synchronised refers to the same files | `AttachmentSync` |
| Sync settings (`useMemoreSyncPreferences.ts`, `useMemoreSyncRuntimeStatus.ts`, `PreferencesSection.tsx`) | preferences and status in localStorage, copies in pages | whole copies written, events between tabs | copies agree; an error belongs to the last run | `SyncSettings` |
| Refresh tokens (`store/user_setting.go`, `auth_service.go`) | one list per user | read, changed and written without a lock, each of which may fail | a refresh that meets no other is granted | `RefreshTokens` |
| Session (`connect.ts`, `auth-state.ts`, `AuthContext.tsx`) | access token in memory and localStorage, one refresh at a time, broadcast | expiry at any moment, two tabs, one cookie, methods that are served to guests | a page with a user asks as a guest only after a refresh has failed it; every request ends | `Session` |
| Live refresh and memo queries (`sse_hub.go`, `useLiveMemoRefresh.ts`, `useMemoQueries.ts`) | query cache, stream with a buffer, optimistic changes | events dropped, answers late, rollbacks | a page at rest is fresh | `LiveMemos` |
| Memo editor (`components/MemoEditor`) | text, draft, save in progress | a debounce shared by all editors; saves end late | drafts follow their editor; a text leaves it only when saved | `MemoEditor` |
| Focus mode (`VditorFocusEditor.tsx`) | text in two places | Vditor tells late or never | nothing typed is overwritten | `FocusEditor` |
| Place of a memo (`InsertMenu.tsx`, `useLocation.ts`) | position, name, debounce | look-ups end in any order | a name belongs to its position | `MemoLocation` |
| Suggestions (`useSuggestions.ts`) | popup, selection | handlers of the first render | what is taken is what was found | `Suggestions` |
| Tasks (`TaskListItem.tsx`, `markdown-manipulation.ts`) | a memo's text | found by position | only the task clicked changes | `TaskList` |
| Filters (`MemoFilterContext.tsx`) | filters in state and address | two effects, one in each direction | they agree and come to rest | `MemoFilters` |
| Memo list (`PagedMemoList.tsx`) | pages by offset | requests cancel each other | no gaps or duplicates at rest | `PagedList` |
| Masonry (`useMasonryLayout.ts`) | columns, heights, timer | the timer has the list of its time | every memo once, columns even | `Masonry` |
| Attachments page (`pages/Attachments.tsx`) | list by offset, a sweep | files attached meanwhile | the list is the server's | `AttachmentsPage` |
| General settings (`user_service.go`, `AuthContext.tsx`) | setting, copies | read, change, write of the whole, a read error that is dropped | settles to what was chosen, but for fields that were lost on the way | `UserSettings` |
| Account dialogs (`UpdateAccountDialog.tsx`, `ChangeMemberPasswordDialog.tsx`) | forms, account of the page | the account is old | only what was typed is sent | `AccountForms` |
| Instance settings (`InstanceContext.tsx`, sections) | settings, forms | whole settings sent from stale forms | a save changes what was typed | `InstanceSettings` |
| Lists of the settings (shortcuts, webhooks, access tokens, members, identity providers) | list, dialog, confirmation | forms outlive their dialog | an item keeps its own text | `SettingLists` |
| Inbox (`Inboxes.tsx`, `MemoCommentMessage.tsx`) | notifications, listing | handled elsewhere | the unread are kept | `Inbox` |
| Theme and status bar (`App.tsx`, `theme.ts`) | theme, plugin calls | runs overtake each other | the bar has the page's colours | `AppShell` |
| Editor preferences (`useMemoreEditorPreferences.ts`) | one item, many copies | events within and between pages | the copies agree | `EditorPreferences` |

Components interact so: a change in the editor dispatches a trigger; the hook
takes the tab lock of the configured server; under it a push, a pull and a
comment sync run one after the other, calling the local API (Connect) and the
remote one (REST); attachments are transferred in the middle of a push or a
pull; the metadata in localStorage carries over from one run to the next. The
settings page starts single runs under the same lock, and changes the metadata
without it. Every request of the page goes through the session's interceptor.
Saves, deletions and reactions have the queries fetched again, and the server
tells the other pages of them by events. The other parts of the pages share
nothing but the server with each other.

## Modules

| Module | Models |
|---|---|
| `MemoTable` | a memo server as its clients see it: table, create, update with mask, delete, order and pages |
| `SyncMutex` | abstract: at most one tab inside |
| `SyncTabLock` | the lock in localStorage; implements `SyncMutex` |
| `SyncState` | both tables, the clock, the metadata, the run in progress; users, settings page, what push and pull share |
| `MemoPush`, `MemoPull` | `syncMemoreLocalMemosToRemote`, `syncMemoreRemoteMemosToLocal`, one action per request |
| `MemoSync` | both with the users, fairness, properties |
| `TriggeredSync` | the hooks: when runs start, queue, ask and end |
| `CommentSync`, `AttachmentSync` | the other two functions of a run |
| `RefreshTokens`, `Session` | the server's and the client's part of a session; the second extends the first |
| `LiveMemos`, `MemoEditor` | the pages that show and write memos |
| `SyncSettings`, `UserSettings`, `InstanceSettings`, `SettingLists`, `AccountForms`, `EditorPreferences` | the settings |
| `MemoFilters`, `PagedList`, `Masonry`, `AttachmentsPage`, `Inbox`, `AppShell` | the other pages |
| `FocusEditor`, `MemoLocation`, `Suggestions`, `TaskList` | the other parts of the editor |
| `SyncTabLock_proofs`, `TriggeredSync_proofs`, `MemoSync_proofs`, `Session_proofs` | lemmas and theorems about one component |
| `MCSyncParts_proofs`, `MCMemos_proofs`, `MCPages_proofs`, `MCPagesForms_proofs` | lemmas and theorems about the parts these modules hold; `MCPagesForms_proofs` has the dialogs, forms and effects of `MCPages`, `MCPages_proofs` the rest |
| `MC*` | the instances for TLC |

`MCSyncParts`, `MCMemos` and `MCPages` each hold several parts that do not meet
in the code: a variable `part` says which part a behaviour is of, and the others
stay as they start. It is the sum of the parts, not their product, and no
property relates two of them. `MCSyncTabLock` holds two instances of `SyncTabLock`
with different constants in the same way, and beside them `TriggeredSync`, which
has the lock of each server as a variable that is free or held; `MCSession` two
cases of one module, one tab with everything and two tabs that only refresh.

Definitions with the name of another one and a suffix, marked "Mutant", are
plausible bugs in the definition; each property was seen to fail with one. A
comment that begins "Not so" states what a reader might expect and the code does
not do; such definitions are in no run.

### MemoTable

Both servers run the same code. A table maps ids to `Fresh`, `Gone` or a memo.
Contents are model values, one of which (`Blank`) is empty; a time is a second.
`CreateMemo` ignores pinned and state because the handler does; `UpdateMemo`
stamps the current second unless the mask has `update_time`; `Before` is
`ORDER BY updated_ts DESC, id DESC`, `Page` and `HasMore` the offset paging
with its limit + 1 probe.

### SyncTabLock

`store` is the entry, with the time left to it instead of a date; `pc[t]` is
where tab `t` is in `runMemoreSyncTaskWithLock`; `due[t]` is the time left until
its renewal timer should fire. Each load-then-write section of the code is two
steps. `AtomicStorage` says whether sections of two tabs exclude each other,
which no browser promises; `MaxLate` how late a timer may be; `WithReset` whether
the user resets. `Tick` is the passing of one unit; a unit is 10 s in the
instances, so 18 of them are the time to live and 3 the renewal interval.

### SyncState, MemoPush, MemoPull, MemoSync

`local` and `remote` are the tables, `disk` the three maps of localStorage for
one server, `backup` an exported file, `asked` the pending confirmation, and
`run` the local variables of the function in progress (the comment above `Idle`
gives the name of each in the code). `run.pc` is the request to make next. One
action is one request with the synchronous code after its answer, so the users
may act between any two requests, and exactly there.

Order: the code treats the memos of a page one by one in list order, as the
model does (`Head`); the probes and deletions of a sweep are in the order of a
JavaScript object, which the model leaves open. Of two remote memos bound to
one local memo, `Lookups` may keep either. In a failing run (`RequestsFail`)
each request about one memo may fail, as far as the code tolerates it; `Abort`
is any way out in the middle: an exception, a failed list, a closed page.
`Writes` are the three `setItem` calls of a save, whose errors are swallowed.

Edits of the model are to one field at a time and, unless `SameSecond`, no two
are made in one second. A user may edit a memo to `Blank`, which stands for
removing its text and its attachments.

### TriggeredSync

`hook` is the triggered run with what it awaits, `startup` the startup run of each
server: after a change of the server or of the token another one may start while the
first is still under way, and `key` (`startupSyncKeyRef`) is what keeps one from
starting twice. `lock` is the lock of each server as `SyncMutex` promises it, `prefs`
the present preferences and `lag` one change per server that is followed: unread,
read by the push in progress, or none. `RunCycle` is `runSyncCycle` up to its first
await, `Finish` the `finally` block, which runs a pending trigger in the same closure.
A run that has changed something holds no lock any more while its queries are fetched
again ("invalidating"), and a trigger that comes then still waits for its end. The
preferences are looked at only when no run is in progress: a trigger that comes
during one is remembered even if synchronisation is off by then.

### CommentSync, AttachmentSync

`CommentSync`: the two tables of comments, `disk` the bindings as last saved,
`run` the locals of `syncMemoreComments`. Unlike those of memos, bindings are
saved once, at the end, so `Die` loses what the run has learnt, and a lost answer
leaves a comment the run does not know of. `Faults` names the kinds of faults
that happen, `MaxFaults` how many. `org` is no field of the code: it tells
comments apart whose texts are equal, for `Converges` and `NoDuplicates`.

`AttachmentSync`: one bound memo. `job[f]` is the request a worker makes next
for file `f`; `References` is the list the memo is given afterwards, in the order
of the other side, without those that failed. `SyncedRefsAgree` therefore says that
what is recorded as equal refers to the same files in the same order but for the
failures; `README.en.md:354` ("Always synced") leaves that out. `SetMemoAttachments`
deletes what is not in its list and then attaches from the end, one by one, so a
request that fails may have done any part of it (`AttachesLast`, `WriteFails`); and an
answer may be lost after all of it.

### RefreshTokens, Session

A token is the number of the call that issued it: the call gives the access token to
the page and the refresh token to the cookie. Each change of the list is a read
(`ReadList`) and a write (`AddToken`, `RemoveToken`), rotation is an addition and a
removal, and steps of other calls, of other tabs or of a page that has gone, come
in between. Either half may fail (`StoreFails`): a refresh is then refused, but a
sign-in goes on with a cookie that is not listed, and a removal leaves the old token
where it is. `clean` says that no call of another page has been in progress with this
one; it and `session` are read by the properties only.

`cookie` is the one of the browser, `stored` the access token in localStorage, `tab[t]`
what the page of a tab does and at which kind of route, `req[t][r]` a request from
its preflight check to its answer, the one retry included, `channel[t]` what the
other tab has broadcast. `near` and `expired` move forward by the clock, at any moment.
The server refuses a token that has expired only for a protected method; it answers a
request of a public one as a guest's (`Answer`; `connect_interceptors.go` 213-229).

### LiveMemos, MemoEditor

`LiveMemos`: `cache[q]` is a query of React Query (its data, whether it is stale,
the fetch under way with what the server has read for it); `op[o]` a mutation with
the snapshot its rollback would restore; `stream` the events between hub and page.
A memo is the number of its last change. `lost` has the queries that an event
dropped by the hub, a lost connection or a failed fetch was about, `late` those
that were given an answer another change had overtaken: the program has no means
to make up for either before the next event or return to the page, so the
freshness properties except them.

`MemoEditor`: `pending` is the one call `cacheService.save` has to make for all
editors, `job[e]` a save from the state it began with to `onConfirm`, `behind` the
editors whose last text the debounce has dropped for another editor's.

### The other parts of the pages

Each module names its files in the header and in the comments of its actions. They
follow one pattern. Variables are React state, refs, localStorage and what the
server has; an effect or a handler is an action that uses what its render saw; a
request is one step or two, sent and answered, and the server acts in one of them. What
comes from elsewhere (other devices, other tabs, the browser's back button) is an
action of its own. `patient`, `calm`, `steady`, `unhurried`, `Hasty`, `Stray` and the
`Overlap` of `InstanceSettings` say whether the user waits for the page; a run has the
values under which the property holds, or both with the property saying for which it is meant.

In `UserSettings` nobody waits: changes overlap, and what may be lost on the way is
said of each field. A field is in `doubtful` when its last change has failed or has met
with another, or when a change of another field has emptied it, because that change
found no setting stored (the page shows defaults then) or could not read it, an error
`UpdateUserSetting` drops. In `TaskList` an update may reach the server although its
answer does not: the page takes the change back (`rolledBack`) and shows the old text
until it is fetched again.

## Runs

| Run | Question and answer |
|---|---|
| `lock` | Three tabs, atomic sections. Timers up to 140 s late (`RenewInterval + MaxLate < TTL`): mutual exclusion; the lock implements `SyncMutex`; a dead lock expires. Timers later than the time to live and forced releases: a tab that lost the lock never takes away another's. The hooks of one tab with two servers, other holders, failures, dialogs and preferences that change at any time: locks are held exactly while working, a remembered trigger is always taken up |
| `sync_text` | Two texts and the empty one, three memos, no faults: synchronised pairs agree, there are no duplicates, the cursor covers what it has passed, deletions are justified and confirmed |
| `sync_faults` | Failing requests, runs that die anywhere, refused bindings, one memo per page, threshold 0, and metadata that is reset, exported and imported at any time: synchronised pairs agree, remote deletions are justified |
| `sync_converge` | Text, visibility, pinned and archived edited on both sides, conflicts included, both toggles on: both sides become equal |
| `sync_push_overwrites` | A push replaces a remote memo that was modified later (finding) |
| `sync_resume` | A pull that dies after a page leaves the cursor past memos it has not read (finding) |
| `trigger_startup` | A change made while the startup run has the lock is dropped (finding) |
| `sync_parts` | Comments of two memos, and of one for longer, with one fault of each kind; three files, two workers, one retry: what is recorded as synchronised agrees, deletions are justified, comments are not doubled without a fault, both sides become equal, transfers end |
| `session` | One tab that signs in and out, at private and public routes, with one lost call, answer or failure of the store; and two tabs that go on with one session without faults. Calls overlap as they like. Two tokens are issued, a tab has one request besides that of its start: a refresh no other page has disturbed is granted, a page with a user asks as a guest only after a refresh, every request ends |
| `session_rotation` | Two tabs that refresh with one cookie write the list one after the other, each without the token of the other, so that the cookie is not listed (finding) |
| `memos` | One memo with a comment, a buffer of two events, two faults; two editors, two texts, one fault: pages at rest are fresh, given-up changes leave nothing behind, drafts follow their editor, texts are kept until saved |
| `pages` | The sixteen other parts with two or three of everything: see their properties |

Bounds. All are constants of the configurations. `MaxId` memos per side and
behaviour, `MaxTime` seconds, each with one edit or creation, `PageSize`,
`MaxPages` scaled down from 100 and 20; `Threshold` is 0 to 3, around the 2 of the code
(`memore-sync.ts` 94). Two or three memos are enough for what the properties are about: a pair, and a third memo that
shifts a page or shares a binding; a conflict takes three seconds, the creation
and an edit on each side. `sync_faults` has a CONSTRAINT: two memos on a side only in the
first two seconds and before any export, one memo for longer. The tables are bounded, so `CHECK_DEADLOCK FALSE` is
set: when ids and seconds are used up and nothing is bound, users and runs may be
unable to do anything new. The same holds for the pages, whose users and faults
are counted (`Max...`): two tabs or two editors suffice for a race, two values
for a change that is overwritten, and one fault for a request that is lost
between two others that are not. `memos` has two faults because an update fails
for good only when its retry fails too.

`Converges` speaks of behaviours in which no creation was refused because the
tables of the model are full (`Refused`), and `CursorCovers` of states with ids
left: a server has no such limit. `StorageFull` lets localStorage refuse the
bindings, by far the longest of the three values a save writes. One file is
exported.

Fairness. `SyncTabLock`: time passes, synchronous code ends, due timers fire.
`MemoSync`: a run in progress goes on (requests are answered or time out), and
runs of both directions start again and again (strong, since a run of the other
direction disables a start; triggers, startup and the button start them).
`TriggeredSync`: requests are answered, the user answers the dialog, other
holders release the lock, and the effect of the startup run runs after its render.
`CommentSync`, `AttachmentSync`: a run goes on, and there is always another.
`Session`: the server goes on with its calls and answers requests, pages handle what
they are answered; weak fairness for each tab and for each request. `MemoFilters`: React
renders what has changed. Nothing makes a user act or a tab start.

## Counterexamples

TLC finds the following with the constants named, beside the findings above. Each
is an expectation of the documentation, of a comment or of a user that the code
does not meet; the number of runs is kept small, so they are told and not
repeated.

Synchronisation. `LocalLastWriterWins` (a pull overwrites a local memo edited between
its `getMemo` and its `updateMemo`); a pull of metadata undoes a change of visibility
that has not been pushed; a memo created by a run loses its pin, and the pair is
recorded as synchronised, whereas `README.en.md:60` has pins travel both ways;
with `SameSecond` two edits in one second, the later of which is never seen; with
pages of one memo the offset moves and the sides stay different; a run that dies
between a creation and the save creates the memo again (`NoDuplicates` with
`CanAbort`). `LocalDeletesJustified` fails with aborts, and after a reset, since a
duplicate remote memo is then bound to the same local memo by its fingerprint and
deleting one of the two deletes the local memo and next the other; with edits of
visibility and aborts such a duplicate is taken for equal when it is not
(`SyncedPairsAgree`); `CursorCovers`
fails with failing requests too, when one memo is created and another archived between
the scans of the two states, and with several pages when a remote memo is deleted
between two of them: the rest moves up, and the first of the next page is
never read; emptying a memo is never synchronised. The lock: without
`AtomicStorage` two tabs both verify their entry, and with timers as late as the
time to live a task whose entry has expired runs on beside another, since nobody
looks at what the renewal returns (`README.en.md:371` says the lock prevents that).
Triggers: with two servers a pending trigger runs with the preferences of an
earlier render, against the wrong one. Comments: with `EditsAtReread` an edit between
the write and the reading that follows it is taken for what was written. A memo
whose attachments could not be transferred stays without them (`AlwaysSynced`).

Session. Besides the finding: a refresh of one tab is denied after that of another has
removed the token it was sent with, and the page is sent to the sign-in page although
its session lasts; the same happens after an answer was lost, and after a sign-in
whose token the store failed to add, which the server only logs. A broadcast that comes
late replaces a newer token by an older one. After a refresh that failed before the
first try (`connect.ts` 140-143) a request goes out with its old token, and if its
method is public the page with a user is answered what a guest would see: this is what
the comment above (133-136) means to avoid, and `GuestsOnlyAfterRefresh` has it as its
one exception, together with a refresh that takes longer than its token lives.

Memos. An answer that another change has overtaken stays on the page
(`DetailsFreshAlways`); a comment whose creation is told before its relation is
written shows in the list of memos (`NoCommentsInLists`); edits of comments are
not told to the page of the memo (`CommentsFresh`); of two changes at once the
rollback of one brings back the other (`NoPhantoms` with two `Ops`). Typing in one
editor drops the draft of another (`AutoSaved`), what is typed during a save goes
with it (`TypedTextKept`), saving a text undoes a change of visibility made
elsewhere (`StaysPublic`), and a draft may outlive its memo (`SavedDraftsGone`).

Settings. Of two changes that overlap one is lost at the server, and the page shows
what it fetched last; the first change of a new user stores the two other fields empty,
where the page has shown defaults; a read that fails wipes them too, and the change is
answered as a success (`SettingsSettle` without `doubtful`). Two pages
lose a change of one another (`SavesChangeWhatWasTyped`); `RunningIsTrue`, `PreferencesKept`, `StyleIsTheSetting`,
`TypedStays`, `SavesAreSent`, `PageAgrees` are stated where they fail. Other parts:
`FiltersSettle` with `Hasty`, `PagesAlwaysFresh`, `PlaceHasItsName`, `AlwaysNamed`,
`TypedNameKept`, `ChoiceKept`, `OnlyUnusedDeleted` (a file attached between the listing
and the deletion is deleted from its memo), `TakenWhereFound` with `Stray`,
`ArchivedIsShown`, `ThemeIsSeen`, `TogglesKeptInTurn` (and a click after an answer was
lost sends the text the page has gone back to); tasks of numbered lists and in
quotations are counted on the page but not found in the text, so that their
checkboxes do nothing.

## Proofs

Every safety property of a passing run but `CursorCovers` is stated by a theorem, for
every value of the constants, under the assumptions the modules name: sizes are naturals,
page size and page limit positive (`MemoTableAssumption`, `MemoSyncAssumption`,
`PagedListAssumption`, ...), `Fresh` and `Gone` are no memos
(`FreshGoneAreNoMemos`). Where a theorem has a condition of its own, it is the
one of the run, or "Counterexamples" has what happens without it. The lock's
`NoStealingLate` is `NoStealing` of `SyncTabLock` at the second instance.

What a module computes by recursion over a list (`Keep`, `Pushed`,
`Distribution`, and `FlattenSeq` of the community modules) is proved by an induction
without an induction theorem: the indices for which the claim holds are a set,
what is left out has no least element (`LeastExists`), so nothing is (`UpTo`).

**The lock** (`SyncTabLock_proofs`). `TimelyAndUndisturbed` - sections are atomic,
`RenewInterval + MaxLate < TTL`, no forced release - is an assumption of each
theorem; under "Counterexamples" are the ones that show it is needed. `LockInv` strengthens mutual exclusion: a tab past its acquisition owns the entry
and knows how long it has left, `TTL - RenewInterval + due`, which the bound on
`due` keeps positive until the timer has fired (`OwnerInv`); at most one tab is
between the steps of a section, and none begins to acquire while the entry is
held (`SectionInv`). From it follow `MutualExclusionHolds` and `ImplementsMutex`: every
step is a step of `SyncMutex` or a stutter.

What is left of it when timers are as late as they like and the user resets is
`NobodySteals`, from `AtomicStorage` alone: a tab in the middle of an acquisition has
seen no entry and a tab in the middle of another section owns it (`OwnSections`), so an
entry that has not expired leaves its owner only by a step of its own or a reset.

**Triggers** (`TriggeredSync_proofs`), for any set of servers; `TriggeredSyncAssumption` is
an assumption of each theorem, and TLC evaluates it for the instance in `MCSyncTabLock`. `LockedWhileWorking`
is not inductive, since a run that ended without knowing its server would free
another lock; `ServersKnown` says that it does know.

**Memo synchronisation, types** (`MemoSync_proofs`). `TypeOK` does not say what
record `run` is, so `SyncTyped` does; and a request about the memo in hand needs
one, bound: `ItemInHand`. `NextId` and `First` are choices from sets, which have to be
shown to have a least or a first element (`LeastExists`, `GreatestExists`).

**Memo synchronisation, safety** (`MemoSync_proofs`), with every fault, toggle and
size at once, which no run could check. `SyncInv` adds to `LookupsMatch`:

- `BindingsKnown`: whatever is bound, in the run, on disk or in the exported file,
  has once existed on the remote. Without it a new remote memo could take the
  key of a binding that an import brings back, and the lookup of another local
  memo would point to it.
- `PullInv`: a pull has no lookup, and the memos of its page have existed.
- `SweepInv`: what a push takes for orphans is in the lookup and gone locally; as
  ids are not reused, gone is for ever (`Grows`), so the finding does not go
  stale between probe and deletion.
- `CountInv`: orphans left plus deletions made are at most the threshold, or the
  user has confirmed.

A step is treated by what it does to the tables (`UserEffects`, `PushEffects`,
`PullEffects`), to the stored bindings (`StoredBindings`) - together `Kept` - and
to the run. `LookupsAlwaysMatch` and `NoMassDeletion` follow at once;
`RemoteDeletesAreJustified` because only `PushDelete` makes a live remote memo
gone on behalf of a run, and its orphan is bound to what it deletes.

**Memo synchronisation, the two sides** (`MemoSync_proofs`), with conditions that
the counterexamples above show to be needed or that bound what is proved.

- `PairsAgree`: if users edit texts alone and no two memos in one second, a memo that
  is passed over is equal on both sides - with every fault, restored metadata, any page
  size. `StampInv` says why: an update time tells the text of whatever has it, in either
  table or in the page of a run, however old that page is (`TimesTell`), since a run
  writes only copies of what it has in hand with the time they have (`PageMade`); and
  a binding has one time for both memos, or none for the local one (`OneTimes`,
  `BindingsMade`). Once visibility is edited too, a pull may write fields one by one
  and stamp the present second on what it writes, so that a time no longer tells the
  content; and with runs that die in between, a copy of a memo bound to the same local one
  is then taken for equal when it is not. (The visibility that `SyncedPairsAgree` compares
  is, under these conditions, the same on all memos.) `sync_faults` has the same
  conditions; `sync_text` has them without faults.
- `MemosOnce` and `LocalDeletesAreJustified`: as long as no run is cut off, no save refused
  and nothing restored (`NoLoss`; requests about one memo may fail), no memo is there twice
  and a pull deletes a local memo only if all remote memos bound to it are gone.
  `OnceInv` relates the two tables by the time of creation, which no step changes: two
  live memos have the same one exactly if they are bound to each other, and a live local
  memo has one binding (`Paired`). It says the same of each memo of the page in hand and
  the other table (`PushMatched`, `PullMatched`), since the memo may have been
  changed or deleted since it was listed; a push finds every binding of such a memo
  in its lookup (`LooksFound`); a fingerprint is of a memo that has existed and, if it
  still does, has its time (`PrintsKnown`). So a push creates only what is not there,
  and a pull that recognises a memo by its fingerprint recognises a deleted one. For
  the deletion, the orphan was gone when it was probed and ids are not reused; that
  there is no other binding to the same memo is `Paired`.

A step is treated in two halves for `OnceInv`: what it does to the tables in general
(`Evolves`: one memo may be new, later than all others; `Rewrites`: none is) and what it
does to the page and the bindings.

**Comments** (`MCSyncParts_proofs`), for any comments, edits and faults. The argument is
about staleness: a binding one of whose two comments has been changed or is gone is
stale, and stays so, because update times only grow and ids are not reused
(`StaleKept`). `SafeInv` says that bindings are sound (`BindingsInv`: one local comment
each, of the memo it says, at times the two have had), that what a run has in its
queue has no binding that is not stale, neither of the run nor stored (`PushQueueInv`,
`PullQueueInv`), that a run changes a stored binding only for a reason (`DiskInv`,
needed since the run may die and leave the stored one), and that what it is about to
delete has lost its counterpart (`TargetInv`, `SweepInv`). From it follow `OneCounterpart`,
`SameMemo` and `DeletionsJustified`. `SyncedAgree` adds `AgreeInv`, a binding that is not
stale has equal texts, and `RereadInv` for the moment between a write and the reading of
its time; its hypothesis `EditsAtReread = FALSE` excludes the edit told of above.
`CommentsOnce` says of behaviours in which no run has died and no answer been lost (`Calm`)
that two comments of one origin are bound to each other, those in the queue included.

**Attachments** (`MCSyncParts_proofs`), for any files, workers, retries and faults.
`SyncedRefsAlwaysAgree` rests on what is known of a transfer under way (`JobInv`): the
memo it has read has changed since both sides were recorded as equal, and is as
it was read unless it has changed again. When the references are written, the
other side has those of the files that have a counterpart, in order, which is
what `Keep` returns.

**Session** (`Session_proofs`), for any tabs and faults; calls overlap, the store fails.
`GuestInv` has the types and says of a page what it holds (`PageOK`) and waits for
(`CallsOK`), and of a call that it issues a newer token than it was sent with
(`TokenInv`). `GuestsAskAfterRefresh` follows step by step (`NextGood`): a token is given
to a request when it is issued, where one near its end is refreshed first, or by the
refresh the request has waited for. `RefreshesGranted` needs to know where a call of a
session that is kept has come to: until a refresh has added its token the list has that
of the cookie, and afterwards its own, also in what it has read (`StageInv`). That no
write of another comes in between is not assumed but derived for `clean` calls (`PairInv`):
two calls in progress are both unclean unless they are a refresh and a sign-out of one
page, and then the session is over (`OutInv`).

**Live refresh and queries** (`MCMemos_proofs`), for any memos, comments, buffer, changes
and failures. `ListsAreFresh` and `DetailsAreFresh` speak of a page at rest; `Fresh` says of
every query what holds on the way there: as long as it is shown, not lost and no event is
coming for it, what a fetch has read is what the server has, and so is what is
cached unless a fetch is under way, an answer was overtaken, or a change is
shown before it is made. `NoPhantomsApart` has the condition that no two updates of
one memo are under way at once (`Apart`), without which one rolls back to the value of
the other; `NoPhantomsAlone` derives it for a user who makes one change at a
time. `RealInv` says that what is read, shown or kept for a rollback was made by the
server, or is being tried.

**Memo editor** (`MCMemos_proofs`), for any editors, files, texts and failures.
`EditorsInv` says that the texts of two editors are different (`TextsOwned`), that the draft
or the pending call has the text of an open editor (`CaughtAt`), and that a text is
taken from an editor only after its save has been answered (`PostedAt`). From
it follow `DraftsAlwaysFollow` and, as a property of steps, `PostedBeforeTaken`.

**Sync settings** (`MCPages_proofs`), for any tabs and servers, with the
assumption that `"none"` names no server. A page whose events have been handled
has the preferences and the status of localStorage (`PagesAlwaysAgree`): the invariant says of
each page and each of its two copies that the copy is the stored one or the event
is still to come. The error of a phase is that of the last run that ended
(`ErrorAlwaysOfLastRun`), for which it must be known that each write of the status
is of the server it names.

**User settings** (`MCPages_proofs`), for any number of changes under way, at once or not,
and any faults. `SettingsAlwaysSettle`: a field that is not doubtful is as chosen at the
server, in the selects and on the page. `UserInv` says so of every field that no change
under way is about (`OthersSettled`), of each change what it has read or fetched of the
other fields (`Seen`), and that a change whose field is not doubtful is the only one under
way, and how far it has come (`Own`).

**Inbox** (`MCPages_proofs`). `UnreadAlwaysKept`, for any notifications and failures and however
old the list is: a deletion is asked for only of what is archived or was handled
elsewhere, and neither is ever undone, nor an id used again (`NoteInv`).

**Suggestions** (`MCPages_proofs`). `TakenAlwaysWhereFound`: while a popup is shown its
suggestions are those of the word at the cursor, and the selection is one of them
(`PopupOfWord`). The selection is an index and stays when items come; that it
remains one of the suggestions needs their number, which is that of the items the
word finds (`Keep` again).

**Lists and tasks** (`MCPages_proofs`). `ItemsAlwaysKeepTheirOwn`: a form has a text of the item
its dialog is about, or of none, and so has a request (`OwnInv`); and the text a click on
a checkbox sends differs in the task that was clicked, because the position of a
task counts the same lines on the page and in the text (`Pushed`), and the texts
the page may have differ in checkboxes only (`TextsAlike`).

**Lists at rest** (`MCPages_proofs`). `ListsAlwaysShowTheServer` has three parts.

- Lists of the settings (`AloneInv`), for a user who waits: there is one request, what it
  has read or fetched is the server's list, and a webhook or a token whose
  deletion has been answered is all the page has too much.
- Attachments (`FilesInv`): unless something has happened that the page is not told
  of, it has the server's first files and the token is where they go on.
- Memos (`PagedInv`): an order that has heard of the last change, and whose refetch
  was not lost, is stale, or being fetched, or `Whole`: its pages are those of the
  server's list by offset, all but the last with more to come. What a refetch has
  got so far is the same with more to come after each, so that the next page continues it.
  That such pages show no gap and no duplicate is `PagesJoin`.

**Forms** (`MCPagesForms_proofs`). `SavesAlwaysChangeWhatWasTyped`, for one page of the settings
whose user waits for a save (`Overlap = FALSE`, at most one page): the page has what the server has
but for a save it has yet to hear of (`PageKnows`), a form and what a save sends
differ from it in what was typed (`FormsTyped`), so that the server has what was meant
(`Meant`). The dialogs of the account need no condition: what has not been touched is as
the page had it, and no mask has it (`AccountInv`). Focus mode has `calm`, as its
property has: the text outside it is that of Vditor unless a call of Vditor is to
come, and nothing is saved or left meanwhile (`FocusInv`).

**Effects** (`MCPagesForms_proofs`). `EffectsAlwaysSettle` is six invariants.

- `ChoiceInv`: components have what is stored unless their page is to hear of it;
  the font of a page follows, but for a component mounted early.
- `FilterInv`: both refs have the filters of the last render, which are those of
  the address or of the address last rendered; what the user wants is queued in
  the first case and in the address in the second. So the two effects do not
  undo each other.
- `NamesInv`: the name shown is that of the position the debounce has let through.
- `ShellInv`: runs of the plugin calls take turns, so that the run of the last theme is
  behind all others, and what it has set is not undone (`Newest`).
- `FocusInv` as above.
- `MasonryInv`: columns laid out by the present list, columns and heights are even
  (`GoodLayout`): each memo in one column, once; a column's height is the sum of
  its cards; and none is higher than another by more than its last card, since a
  card goes to a lowest one.

## Only model-checked

Liveness is out of TLAPS's reach here: `DeadLockExpires`, `Converges` of memos
and of comments, `PendingTaken`, `TransfersEnd`, `RequestsEnd`, `RendersEnd`.
`CursorCovers` is checked for
pages that hold all memos, runs that are not cut off and requests that do not fail; in
general it does not hold, as the findings and counterexamples show.
`SyncedPairsAgree` is proved for edits of texts only; with edits of visibility it
is not known beyond what TLC has tried.

## Not modelled

- Text in, text out: the filter engine, Markdown, RSS, MCP, the SQL of the drivers and
  of the migrations. The order in which the migrator stores its version is listed
  as a hazard.
- I/O with one request and one answer: e-mail, webhooks, identity providers, S3, file
  serving, the presign and payload runners, process start and shutdown.
- `plugin/cron` and `plugin/scheduler`, which nothing in the program uses; the store cache,
  whose item count only decides when it cleans up.
- Sign-up and OAuth. `storeOAuthState` is called nowhere; the page comes back from
  the provider into the sign-in that `Session` has.
- The Android back button (`App.tsx` 268-315), gestures, rendering, menus, dialogs whose state is
  one flag, translations.
- Generated code: the protocol classes of `proto/gen` and `web/src/types/proto`.
- A third replica that pushes old update times past a cursor. It needs a third pair
  of tables, which the instances above leave no room for.

## Further work

`PairsAgree` with edits of visibility, for runs that are not cut off; a third
replica, once instances with three pairs of tables can be checked.
