-------------------------------- MODULE MemoPull --------------------------------
(***************************************************************************)
(* Pull, syncMemoreRemoteMemosToLocal of web/src/lib/memore-sync.ts: the   *)
(* remote memos, newest first and down to the cursor of the last pull, are *)
(* imported, merged into the local memos they are bound to, or recognised  *)
(* by their fingerprint; local memos whose remote counterpart is gone are  *)
(* deleted.  SyncState describes the state.                                *)
(***************************************************************************)
EXTENDS SyncState

(* computeContentFingerprint hashes the first 200 characters of the        *)
(* content and the creation time.  Contents that differ are taken to       *)
(* differ there, and hashes not to collide.                                *)
Fingerprint(m) == <<m.text, m.ct>>

(* With a metadata toggle on, lastPullCursor is undefined: everything is   *)
(* scanned.  The fingerprints are those of the memos of one listMemos.     *)
StartPull(confirm) ==
    /\ run.pc = "idle" /\ MayConfirm(confirm)
    /\ LET known == {l \in Live(local) : local[l].text # Blank}
           prints == [l \in known |-> Fingerprint(local[l])]
       IN  \E loaded \in {prints} \cup (IF RequestsFail THEN {NoMap} ELSE {}) :
             run' = [Idle EXCEPT !.pc = "pullList", !.confirm = confirm,
                                 !.imported = disk.imported, !.bindings = disk.bindings,
                                 !.floor = IF MetaMask # {} THEN 0 ELSE disk.cursor,
                                 !.latest = disk.cursor, !.prints = loaded]
    /\ asked' = FALSE
    /\ UNCHANGED <<local, remote, clock, disk, backup>>

Later(S, default) == CHOOSE t \in S \cup {default} : \A u \in S \cup {default} : u <= t

(* parseRemoteMemoForImport passes over memos that are empty. *)
Importable(m) == m.text # Blank

(* One page of memos in one state.  The first memo that is not newer than  *)
(* the cursor ends the scan of that state.                                     *)
PullList ==
    /\ run.pc = "pullList"
    /\ LET listed == {r \in Live(remote) : remote[r].st = run.state}
           page == Page(remote, listed, run.offset, PageSize)
           known == {r \in page : run.floor # 0 /\ remote[r].ut <= run.floor}
           read == (page \ known) \cup (IF known = {} THEN {} ELSE {First(Restrict(remote, known))})
       IN  run' = [run EXCEPT !.pc = "pullItem",
                              !.queue = Restrict(remote, {r \in page \ known : Importable(remote[r])}),
                              !.seen = @ \cup read,
                              !.latest = Later({remote[r].ut : r \in read}, @),
                              !.stopped = known # {},
                              !.pages = @ + 1,
                              !.offset = @ + PageSize,
                              !.more = HasMore(listed, run.offset, PageSize)]
    /\ UNCHANGED <<local, remote, clock, disk, backup, asked>>

IsBound == Head \in DOMAIN run.bindings
BoundLocal == run.bindings[Head].local
SameTime == run.bindings[Head].rut = run.queue[Head].ut

(* The fields of the bound local memo that metadata sync would change. *)
Differing ==
    {f \in {"vis"} \cup MetaMask : local[BoundLocal][f] # run.queue[Head][f]}

(* The remote memo has the update time of its binding: getMemo of the      *)
(* local one, to see whether visibility, pinned or state differ ...        *)
PullUnchanged ==
    /\ AtItem("pullItem") /\ IsBound /\ SameTime
    /\ run' = IF BoundLocal \in Live(local) /\ Differing # {}
                THEN [run EXCEPT !.pc = "pullRead"]
                ELSE [run EXCEPT !.queue = Rest]
    /\ UNCHANGED <<local, remote, clock, disk, backup, asked>>

(* ... and another getMemo, to see which do. *)
PullReadMeta ==
    /\ run.pc = "pullRead"
    /\ \/ /\ BoundLocal \in Live(local)
          /\ run' = IF Differing = {}
                      THEN [run EXCEPT !.pc = "pullItem", !.queue = Rest]
                      ELSE [run EXCEPT !.pc = "pullMeta", !.mask = Differing]
       \/ /\ RequestsFail \/ BoundLocal \notin Live(local)
          /\ run' = [run EXCEPT !.pc = "pullItem", !.queue = Rest]
    /\ UNCHANGED <<local, remote, clock, disk, backup, asked>>

(* updateMemo of those fields alone; the binding keeps its times. *)
PullMeta ==
    /\ run.pc = "pullMeta"
    /\ \/ /\ BoundLocal \in Live(local)
          /\ local' = [local EXCEPT ![BoundLocal] =
                         UpdateMemo(@, run.queue[Head], run.mask, clock)]
       \/ /\ RequestsFail \/ BoundLocal \notin Live(local)
          /\ UNCHANGED local
    /\ run' = [run EXCEPT !.pc = "pullItem", !.queue = Rest, !.mask = {}]
    /\ UNCHANGED <<remote, clock, disk, backup, asked>>

(* Both sides have changed since they were bound, and the local one later. *)
KeepsLocal ==
    LET b == run.bindings[Head]
        ut == local[b.local].ut
    IN  b.lut # 0 /\ ut # b.lut /\ b.rut # 0 /\ ut > run.queue[Head].ut

(* The remote memo has changed: getMemo of the local one.  If that is gone *)
(* the binding goes too, and the memo will be imported.                    *)
PullChanged ==
    /\ AtItem("pullItem") /\ IsBound /\ ~SameTime
    /\ run' = IF BoundLocal \notin Live(local)
                THEN [run EXCEPT !.bindings = Drop(@, Head), !.imported = @ \ {Head}]
                ELSE IF KeepsLocal THEN [run EXCEPT !.queue = Rest]
                                   ELSE [run EXCEPT !.pc = "pullWrite"]
    /\ UNCHANGED <<local, remote, clock, disk, backup, asked>>

(* updateMemo with the remote content and times. *)
PullWrite ==
    /\ run.pc = "pullWrite"
    /\ \/ LET m == run.queue[Head]
          IN  /\ BoundLocal \in Live(local)
              /\ local' = [local EXCEPT ![BoundLocal] = UpdateMemo(@, m, SyncMask, clock)]
              /\ run' = [run EXCEPT !.pc = "pullItem", !.queue = Rest,
                                    !.bindings = Put(@, Head, Bound(BoundLocal, m.ut, m.ut)),
                                    !.imported = @ \cup {Head}]
       \/ /\ RequestsFail \/ BoundLocal \notin Live(local)
          /\ run' = [run EXCEPT !.pc = "pullItem", !.queue = Rest]
          /\ UNCHANGED local
    /\ UNCHANGED <<remote, clock, disk, backup, asked>>

(* Known but not bound: imported once, and its binding was dropped. *)
PullKnown ==
    /\ AtItem("pullItem") /\ ~IsBound /\ Head \in run.imported
    /\ run' = [run EXCEPT !.queue = Rest]
    /\ UNCHANGED <<local, remote, clock, disk, backup, asked>>

IsNew == AtItem("pullItem") /\ ~IsBound /\ Head \notin run.imported
Twins == {l \in DOMAIN run.prints : run.prints[l] = Fingerprint(run.queue[Head])}

(* A local memo has the same fingerprint: bound to it, and to no local     *)
(* update time, instead of imported.                                       *)
PullAdopt ==
    /\ IsNew
    /\ \E l \in Twins :
         run' = [run EXCEPT !.queue = Rest,
                            !.bindings = Put(@, Head, Bound(l, run.queue[Head].ut, 0)),
                            !.imported = @ \cup {Head}]
    /\ UNCHANGED <<local, remote, clock, disk, backup, asked>>

PullCreate ==
    /\ IsNew /\ Twins = {} /\ Unused(local) # {}
    /\ LET m == run.queue[Head]
           l == NextId(local)
       IN  /\ local' = [local EXCEPT ![l] = CreateMemo(m)]
           /\ run' = [run EXCEPT !.queue = Rest,
                                 !.bindings = Put(@, Head, Bound(l, m.ut, m.ut)),
                                 !.imported = @ \cup {Head},
                                 !.prints = Put(@, l, Fingerprint(m)),
                                 !.target = l,
                                 !.pc = IF SyncArchived /\ m.st = "ARCHIVED"
                                          THEN "pullArchive" ELSE @]
    /\ UNCHANGED <<remote, clock, disk, backup, asked>>

(* A second request archives the memo just created; its failure is ignored. *)
PullArchive ==
    /\ run.pc = "pullArchive"
    /\ \/ /\ run.target \in Live(local)
          /\ local' = [local EXCEPT ![run.target] =
                         UpdateMemo(@, [@ EXCEPT !["st"] = "ARCHIVED"], {"st"}, clock)]
       \/ /\ RequestsFail \/ run.target \notin Live(local)
          /\ UNCHANGED local
    /\ run' = [run EXCEPT !.pc = "pullItem", !.target = 0]
    /\ UNCHANGED <<remote, clock, disk, backup, asked>>

PullSkip == Skip("pullItem", IsNew /\ Twins = {} /\ Unused(local) = {})

(* The page is done; bindings and cursor are saved.  The scan of the other *)
(* state does not begin once MaxPages pages have been read.                *)
PullPageDone ==
    /\ run.pc = "pullItem" /\ DOMAIN run.queue = {}
    /\ disk' \in Writes(SavedWithCursor)
    /\ LET unread == run.more /\ ~run.stopped
           complete == run.complete /\ ~(unread /\ run.pages >= MaxPages)
       IN  run' = IF unread /\ run.pages < MaxPages
                    THEN [run EXCEPT !.pc = "pullList"]
                    ELSE IF run.state = "NORMAL" /\ run.pages < MaxPages
                    THEN [run EXCEPT !.pc = "pullList", !.state = "ARCHIVED", !.offset = 0]
                    ELSE [run EXCEPT !.pc = "pullProbe", !.complete = complete,
                                     !.todo = IF complete THEN DOMAIN run.bindings \ run.seen
                                                          ELSE {}]
    /\ UNCHANGED <<local, remote, clock, backup, asked>>

(* What checkRemoteMemoByName finds of a memo: the answer is 404. *)
NotFound(r) == remote[r] = Gone

(* Mutant: a memo no page has shown is taken for deleted. *)
PullProbeUnasked ==
    /\ run.pc = "pullProbe"
    /\ \E r \in run.todo :
         run' = [run EXCEPT !.todo = @ \ {r}, !.orphans = @ \cup {r}]
    /\ UNCHANGED <<local, remote, clock, disk, backup, asked>>

(* GET of a bound memo no page has shown: is it gone? *)
PullProbe ==
    /\ run.pc = "pullProbe"
    /\ \E r \in run.todo :
         \/ run' = [run EXCEPT !.todo = @ \ {r},
                               !.orphans = IF NotFound(r) THEN @ \cup {r} ELSE @]
         \/ RequestsFail /\ run' = [run EXCEPT !.todo = @ \ {r}]
    /\ UNCHANGED <<local, remote, clock, disk, backup, asked>>

PullSweep ==
    /\ run.pc = "pullProbe" /\ run.todo = {}
    /\ \/ StopToAsk
       \/ /\ ~NeedsConfirmation
          /\ run' = [run EXCEPT !.pc = "pullDelete"]
          /\ UNCHANGED <<local, remote, clock, disk, backup, asked>>

(* deleteMemo of the local memo bound to an orphan; NotFound counts as done. *)
PullDelete ==
    /\ run.pc = "pullDelete"
    /\ \E r \in run.orphans :
         LET l == run.bindings[r].local
         IN  \/ /\ local' = IF l \in Live(local) THEN DeleteMemo(local, l) ELSE local
                /\ run' = [run EXCEPT !.orphans = @ \ {r}, !.deleted = @ + 1,
                                      !.bindings = Drop(@, r), !.imported = @ \ {r}]
             \/ /\ RequestsFail
                /\ run' = [run EXCEPT !.orphans = @ \ {r}]
                /\ UNCHANGED local
    /\ UNCHANGED <<remote, clock, disk, backup, asked>>

PullDone ==
    /\ run.pc = "pullDelete" /\ run.orphans = {}
    /\ disk' \in Writes(SavedWithCursor)
    /\ run' = Idle
    /\ UNCHANGED <<local, remote, clock, backup, asked>>

Pull ==
    \/ \E confirm \in BOOLEAN : StartPull(confirm)
    \/ PullList \/ PullUnchanged \/ PullReadMeta \/ PullMeta
    \/ PullChanged \/ PullWrite
    \/ PullKnown \/ PullAdopt \/ PullCreate \/ PullArchive \/ PullSkip
    \/ PullPageDone \/ PullProbe \/ PullSweep \/ PullDelete \/ PullDone
================================================================================
