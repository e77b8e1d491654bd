-------------------------------- MODULE MemoPush --------------------------------
(***************************************************************************)
(* Push, syncMemoreLocalMemosToRemote of web/src/lib/memore-sync.ts: local *)
(* memos whose update time differs from the one they were bound with are   *)
(* sent to the remote, and remote memos whose local counterpart is gone    *)
(* are deleted.  SyncState describes the state.                            *)
(***************************************************************************)
EXTENDS SyncState

(* buildLocalMemoPushBindingLookup: of two remote memos bound to one local *)
(* memo, the one whose binding was stored last is kept.                    *)
Lookups(bindings) ==
    LET bound == {bindings[r].local : r \in DOMAIN bindings}
    IN  {f \in [bound -> DOMAIN bindings] : \A l \in bound : bindings[f[l]].local = l}

StartPush(confirm) ==
    /\ run.pc = "idle" /\ MayConfirm(confirm)
    /\ \E look \in Lookups(disk.bindings) :
         run' = [Idle EXCEPT !.pc = "pushList", !.confirm = confirm, !.look = look,
                             !.imported = disk.imported, !.bindings = disk.bindings]
    /\ asked' = (asked /\ confirm)
    /\ UNCHANGED <<local, remote, clock, disk, backup>>

(* The memo has nothing to push: it is empty, or it still has the update   *)
(* time it was bound with.                                                 *)
UpToDate(l) ==
    /\ l \in DOMAIN run.look
    /\ run.bindings[run.look[l]].lut # 0
    /\ run.bindings[run.look[l]].lut = local[l].ut

PushList ==
    /\ run.pc = "pushList"
    /\ LET page == Page(local, Live(local), run.offset, PageSize)
           toPush == {l \in page : local[l].text # Blank /\ ~UpToDate(l)}
       IN  run' = [run EXCEPT !.pc = "pushItem",
                              !.queue = Restrict(local, toPush),
                              !.seen = @ \cup page,
                              !.pages = @ + 1,
                              !.offset = @ + PageSize,
                              !.more = HasMore(Live(local), run.offset, PageSize)]
    /\ UNCHANGED <<local, remote, clock, disk, backup, asked>>

(* Mutant: the binding records the present local update time instead of    *)
(* that of the memo that was sent.                                         *)
PushUpdateRestamped ==
    /\ AtItem("pushItem") /\ Head \in DOMAIN run.look
    /\ LET m == run.queue[Head]
           r == run.look[Head]
       IN  /\ r \in Live(remote)
           /\ remote' = [remote EXCEPT ![r] = UpdateMemo(@, m, SyncMask, clock)]
           /\ run' = [run EXCEPT !.queue = Rest,
                                 !.bindings = Put(@, r, Bound(Head, m.ut,
                                     IF Head \in Live(local) THEN local[Head].ut ELSE m.ut)),
                                 !.imported = @ \cup {r}]
    /\ UNCHANGED <<local, clock, disk, backup, asked>>

(* PATCH of the bound remote memo, whatever has happened to it since. *)
PushUpdate ==
    /\ AtItem("pushItem") /\ Head \in DOMAIN run.look
    /\ LET m == run.queue[Head]
           r == run.look[Head]
       IN  /\ r \in Live(remote)
           /\ remote' = [remote EXCEPT ![r] = UpdateMemo(@, m, SyncMask, clock)]
           /\ run' = [run EXCEPT !.queue = Rest,
                                 !.bindings = Put(@, r, Bound(Head, m.ut, m.ut)),
                                 !.imported = @ \cup {r}]
    /\ UNCHANGED <<local, clock, disk, backup, asked>>

(* The PATCH answers 404: the binding goes, the memo is created anew. *)
PushUpdateMissing ==
    /\ AtItem("pushItem") /\ Head \in DOMAIN run.look
    /\ run.look[Head] \notin Live(remote)
    /\ run' = [run EXCEPT !.bindings = Drop(@, run.look[Head]), !.look = Drop(@, Head)]
    /\ UNCHANGED <<local, remote, clock, disk, backup, asked>>

(* Mutant: the new remote memo is not bound to the local one. *)
PushCreateUnbound ==
    /\ AtItem("pushItem") /\ Head \notin DOMAIN run.look
    /\ Unused(remote) # {}
    /\ remote' = [remote EXCEPT ![NextId(remote)] = CreateMemo(run.queue[Head])]
    /\ run' = [run EXCEPT !.queue = Rest, !.imported = @ \cup {NextId(remote)}]
    /\ UNCHANGED <<local, clock, disk, backup, asked>>

PushCreate ==
    /\ AtItem("pushItem") /\ Head \notin DOMAIN run.look
    /\ Unused(remote) # {}
    /\ LET m == run.queue[Head]
           r == NextId(remote)
       IN  /\ remote' = [remote EXCEPT ![r] = CreateMemo(m)]
           /\ run' = [run EXCEPT !.queue = Rest,
                                 !.look = Put(@, Head, r),
                                 !.bindings = Put(@, r, Bound(Head, m.ut, m.ut)),
                                 !.imported = @ \cup {r},
                                 !.target = r,
                                 !.pc = IF SyncArchived /\ m.st = "ARCHIVED"
                                          THEN "pushArchive" ELSE @]
    /\ UNCHANGED <<local, clock, disk, backup, asked>>

(* A second request archives the memo just created; its failure is ignored. *)
PushArchive ==
    /\ run.pc = "pushArchive"
    /\ \/ /\ run.target \in Live(remote)
          /\ remote' = [remote EXCEPT ![run.target] =
                          UpdateMemo(@, [@ EXCEPT !["st"] = "ARCHIVED"], {"st"}, clock)]
       \/ /\ RequestsFail \/ run.target \notin Live(remote)
          /\ UNCHANGED remote
    /\ run' = [run EXCEPT !.pc = "pushItem", !.target = 0]
    /\ UNCHANGED <<local, clock, disk, backup, asked>>

PushSkip == Skip("pushItem", Head \notin DOMAIN run.look /\ Unused(remote) = {})

(* The page is done and its bindings are saved. *)
PushPageDone ==
    /\ run.pc = "pushItem" /\ DOMAIN run.queue = {}
    /\ disk' \in Writes(Saved)
    /\ run' = IF run.more /\ run.pages < MaxPages
                THEN [run EXCEPT !.pc = "pushList"]
                ELSE [run EXCEPT !.pc = "pushProbe",
                                 !.todo = IF run.more THEN {} ELSE DOMAIN run.look \ run.seen]
    /\ UNCHANGED <<local, remote, clock, backup, asked>>

(* Mutant: a failed request is taken for "not found". *)
PushProbeFailedIsGone ==
    /\ run.pc = "pushProbe"
    /\ \E l \in run.todo :
         \/ run' = [run EXCEPT !.todo = @ \ {l},
                               !.orphans = IF local[l] = Gone THEN @ \cup {l} ELSE @]
         \/ RequestsFail /\ run' = [run EXCEPT !.todo = @ \ {l}, !.orphans = @ \cup {l}]
    /\ UNCHANGED <<local, remote, clock, disk, backup, asked>>

(* getMemo of a bound memo no page has shown: is it gone? *)
PushProbe ==
    /\ run.pc = "pushProbe"
    /\ \E l \in run.todo :
         \/ run' = [run EXCEPT !.todo = @ \ {l},
                               !.orphans = IF local[l] = Gone THEN @ \cup {l} ELSE @]
         \/ RequestsFail /\ run' = [run EXCEPT !.todo = @ \ {l}]
    /\ UNCHANGED <<local, remote, clock, disk, backup, asked>>

PushSweep ==
    /\ run.pc = "pushProbe" /\ run.todo = {}
    /\ \/ StopToAsk
       \/ /\ ~NeedsConfirmation
          /\ run' = [run EXCEPT !.pc = "pushDelete"]
          /\ UNCHANGED <<local, remote, clock, disk, backup, asked>>

(* deleteRemoteMemoByName; the answer 404 counts as done. *)
RemoteAfterDelete(r) == IF r \in Live(remote) THEN DeleteMemo(remote, r) ELSE remote

(* The remote memo bound to an orphan is deleted. *)
PushDelete ==
    /\ run.pc = "pushDelete"
    /\ \E l \in run.orphans :
         LET r == run.look[l]
         IN  \/ /\ remote' = RemoteAfterDelete(r)
                /\ run' = [run EXCEPT !.orphans = @ \ {l}, !.deleted = @ + 1,
                                      !.bindings = Drop(@, r), !.look = Drop(@, l),
                                      !.imported = @ \ {r}]
             \/ /\ RequestsFail
                /\ run' = [run EXCEPT !.orphans = @ \ {l}]
                /\ UNCHANGED remote
    /\ UNCHANGED <<local, clock, disk, backup, asked>>

PushDone ==
    /\ run.pc = "pushDelete" /\ run.orphans = {}
    /\ disk' \in Writes(Saved)
    /\ run' = Idle
    /\ UNCHANGED <<local, remote, clock, backup, asked>>

Push ==
    \/ \E confirm \in BOOLEAN : StartPush(confirm)
    \/ PushList \/ PushUpdate \/ PushUpdateMissing \/ PushCreate \/ PushArchive
    \/ PushSkip \/ PushPageDone \/ PushProbe \/ PushSweep \/ PushDelete \/ PushDone
================================================================================
