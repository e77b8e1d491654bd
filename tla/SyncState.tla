------------------------------- MODULE SyncState -------------------------------
(***************************************************************************)
(* The two-way synchronisation of web/src/lib/memore-sync.ts: a push       *)
(* (syncMemoreLocalMemosToRemote) and a pull                               *)
(* (syncMemoreRemoteMemosToLocal) between the local backend of the app and *)
(* a remote Memos instance, while the user edits the local memos and       *)
(* somebody else (another device, the remote's own pages) the remote ones. *)
(*                                                                         *)
(* One step is one request to a server with the bookkeeping that follows   *)
(* its answer, so that the two users may act between any two requests.     *)
(* What a run has learnt is in `run`, the local variables of the function, *)
(* and is lost with it; `disk` is what localStorage keeps of it.           *)
(*                                                                         *)
(* Runs exclude each other (SyncTabLock).  Attachments, comments and the   *)
(* dry run, which changes nothing, are not modelled here.                  *)
(*                                                                         *)
(* This module has the state, the users and what the two directions share; *)
(* MemoPush and MemoPull have the two directions, MemoSync puts them       *)
(* together and states what they achieve.                                  *)
(***************************************************************************)
EXTENDS MemoTable

CONSTANTS
    PageSize, MaxPages,        \* input.pageSize, input.maxPages
    Threshold,                 \* SYNC_DELETION_CONFIRM_THRESHOLD
    SyncPinned, SyncArchived,  \* the optional toggles
    EditFields,                \* what the users edit: a subset of Fields
    SameSecond,                \* two edits may fall into the same second
    CanAbort,                  \* a run may end early: error, closed tab, crash
    RequestsFail,              \* a request about one memo may fail
    StorageFull,               \* localStorage may refuse to take the bindings
    CanRestore                 \* the user resets, exports and imports the metadata

ASSUME MemoSyncAssumption ==
    /\ PageSize \in Nat \ {0} /\ MaxPages \in Nat \ {0} /\ Threshold \in Nat
    /\ {SyncPinned, SyncArchived, SameSecond, CanAbort, RequestsFail, StorageFull,
        CanRestore} \subseteq BOOLEAN
    /\ EditFields \subseteq {"text", "vis", "pin", "st"}

VARIABLES
    local, remote,  \* the memo tables of the two servers
    clock,          \* the current second
    disk,           \* the sync metadata in localStorage
    backup,         \* the last file the metadata was exported to
    run,            \* the run in progress
    asked           \* a run has stopped to have its deletions confirmed

vars == <<local, remote, clock, disk, backup, run, asked>>

(* bindings[r] = [local, rut, lut]: the local memo bound to remote memo r, *)
(* and the update times of the two when they were last known to agree.     *)
Binding == [local : Ids, rut : 0..MaxTime, lut : 0..MaxTime]

NoMap == [x \in {} |-> x]
EmptyDisk == [imported |-> {}, bindings |-> NoMap, cursor |-> 0]

(* pc         the request to make next                                     *)
(* confirm    input.confirmDeletions                                       *)
(* imported, bindings  working copies of what disk keeps                   *)
(* look       localMemoBindingLookup: the remote name of a bound memo      *)
(* queue      the memos of the page in hand that are still to be treated   *)
(* offset, pages, more  pageToken, pages fetched, a next page exists       *)
(* state      pullState                                                    *)
(* floor, latest, stopped, complete  lastPullCursor,                       *)
(*            latestObservedRemoteUpdateTime, stateStoppedByPullCursor,    *)
(*            allStatesFullyScanned                                        *)
(* prints     localContentFingerprints, by the name of the memo            *)
(* target, mask  the memo and the fields a follow-up request is about      *)
(* seen, todo, orphans, deleted  the deletion sweep                        *)
RunStates ==
    {"idle", "pushList", "pushItem", "pushArchive", "pushProbe", "pushDelete",
     "pullList", "pullItem", "pullRead", "pullMeta", "pullWrite", "pullArchive",
     "pullProbe", "pullDelete"}

Idle ==
    [pc |-> "idle", confirm |-> FALSE, imported |-> {}, bindings |-> NoMap,
     look |-> NoMap, queue |-> NoMap, offset |-> 0, pages |-> 0, more |-> FALSE,
     state |-> "NORMAL", floor |-> 0, latest |-> 0, stopped |-> FALSE,
     complete |-> TRUE, prints |-> NoMap, target |-> 0, mask |-> {},
     seen |-> {}, todo |-> {}, orphans |-> {}, deleted |-> 0]

Put(f, k, v) == [x \in DOMAIN f \cup {k} |-> IF x = k THEN v ELSE f[x]]
Drop(f, k) == Restrict(f, DOMAIN f \ {k})

Init ==
    /\ local = EmptyTable /\ remote = EmptyTable
    /\ clock = 0
    /\ disk = EmptyDisk /\ backup = EmptyDisk
    /\ run = Idle
    /\ asked = FALSE

--------------------------------------------------------------------------------
(* The users.  A creation or an edit is stamped with the second it is made *)
(* in; unless SameSecond, no two of them share one.                        *)
Stamps == (clock + (IF SameSecond THEN 0 ELSE 1)) .. (clock + 1)
Now(t) == t \in Stamps /\ t > 0 /\ t <= MaxTime /\ clock' = t

NewMemo(text, t) ==
    [text |-> text, vis |-> "PRIVATE", pin |-> FALSE, st |-> "NORMAL", ct |-> t, ut |-> t]

Values(f) ==
    CASE f = "text" -> Texts
      [] f = "vis"  -> {"PRIVATE", "PUBLIC"}
      [] f = "pin"  -> BOOLEAN
      [] f = "st"   -> {"NORMAL", "ARCHIVED"}

Edited(m, f, v, t) == UpdateMemo(m, [m EXCEPT ![f] = v], {f}, t)

LocalCreate ==
    /\ Unused(local) # {}
    /\ \E t \in Stamps, text \in Texts \ {Blank} :
         Now(t) /\ local' = [local EXCEPT ![NextId(local)] = NewMemo(text, t)]
    /\ UNCHANGED <<remote, disk, backup, run, asked>>

LocalEdit ==
    /\ \E i \in Live(local), t \in Stamps, f \in EditFields :
         \E v \in Values(f) \ {local[i][f]} :
           Now(t) /\ local' = [local EXCEPT ![i] = Edited(@, f, v, t)]
    /\ UNCHANGED <<remote, disk, backup, run, asked>>

LocalDelete ==
    /\ \E i \in Live(local) : local' = DeleteMemo(local, i)
    /\ UNCHANGED <<remote, clock, disk, backup, run, asked>>

RemoteCreate ==
    /\ Unused(remote) # {}
    /\ \E t \in Stamps, text \in Texts \ {Blank} :
         Now(t) /\ remote' = [remote EXCEPT ![NextId(remote)] = NewMemo(text, t)]
    /\ UNCHANGED <<local, disk, backup, run, asked>>

RemoteEdit ==
    /\ \E i \in Live(remote), t \in Stamps, f \in EditFields :
         \E v \in Values(f) \ {remote[i][f]} :
           Now(t) /\ remote' = [remote EXCEPT ![i] = Edited(@, f, v, t)]
    /\ UNCHANGED <<local, disk, backup, run, asked>>

RemoteDelete ==
    /\ \E i \in Live(remote) : remote' = DeleteMemo(remote, i)
    /\ UNCHANGED <<local, clock, disk, backup, run, asked>>

(* The buttons of the settings page, at any time, during a run too.  (They *)
(* also release the tab lock: SyncTabLock.)  Bounds of the model: one file *)
(* is exported, with something in it, and the others are pressed after it. *)
ResetMetadata ==
    /\ CanRestore /\ backup # EmptyDisk
    /\ disk' = EmptyDisk
    /\ UNCHANGED <<local, remote, clock, backup, run, asked>>

ExportMetadata ==
    /\ CanRestore /\ backup = EmptyDisk /\ disk # EmptyDisk
    /\ backup' = disk
    /\ UNCHANGED <<local, remote, clock, disk, run, asked>>

(* A file without a cursor leaves the present one. *)
ImportMetadata ==
    /\ CanRestore /\ backup # EmptyDisk
    /\ disk' = [backup EXCEPT !.cursor = IF @ = 0 THEN disk.cursor ELSE @]
    /\ UNCHANGED <<local, remote, clock, backup, run, asked>>

--------------------------------------------------------------------------------
(* What the runs have in common. *)
Head == First(run.queue)
Rest == Drop(run.queue, Head)
AtItem(pc) == run.pc = pc /\ DOMAIN run.queue # {}

(* updateMask of a push and updateMaskPaths of a pull. *)
MetaMask == (IF SyncPinned THEN {"pin"} ELSE {}) \cup (IF SyncArchived THEN {"st"} ELSE {})
SyncMask == {"text", "vis", "ct", "ut"} \cup MetaMask

Bound(l, rut, lut) == [local |-> l, rut |-> rut, lut |-> lut]

(* setImportedRemoteMemoNameSet and setRemoteMemoBindings. *)
Saved == [disk EXCEPT !.imported = run.imported, !.bindings = run.bindings]

(* Mutant: the cursor is the time of the save instead of the latest update *)
(* time seen.                                                              *)
SavedWithNow == [Saved EXCEPT !.cursor = clock]

SavedWithCursor == [Saved EXCEPT !.cursor = IF run.latest = 0 THEN @ ELSE run.latest]

(* The three values are written one by one, and a write that localStorage  *)
(* refuses is passed over in silence.  Bound of the model: it may refuse   *)
(* the bindings, which are by far the longest.                             *)
Writes(new) ==
    {new} \cup (IF StorageFull THEN {[new EXCEPT !.bindings = disk.bindings]} ELSE {})

(* Mutant: one deletion too many goes through unasked. *)
NeedsConfirmationLate == Cardinality(run.orphans) > Threshold + 1 /\ ~run.confirm

(* Too many deletions for a run nobody has confirmed. *)
NeedsConfirmation == Cardinality(run.orphans) > Threshold /\ ~run.confirm

StopToAsk ==
    /\ NeedsConfirmation
    /\ run' = Idle /\ asked' = TRUE
    /\ UNCHANGED <<local, remote, clock, disk, backup>>

(* A request about the memo in hand fails: failedCount, next memo.  A      *)
(* server that has used up the ids of the model refuses to create.         *)
Skip(pc, refused) ==
    /\ AtItem(pc)
    /\ RequestsFail \/ refused
    /\ run' = [run EXCEPT !.queue = Rest]
    /\ UNCHANGED <<local, remote, clock, disk, backup, asked>>

(* An exception, a list or authentication error, the end of the page: the  *)
(* function returns or dies without saving what it has learnt since the    *)
(* last page.                                                              *)
Abort ==
    /\ CanAbort /\ run.pc # "idle"
    /\ run' = Idle
    /\ UNCHANGED <<local, remote, clock, disk, backup, asked>>

(* The user answers the confirmation dialog only after a run has asked. *)
MayConfirm(confirm) == confirm => asked
================================================================================
