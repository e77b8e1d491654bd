-------------------------------- MODULE MemoSync --------------------------------
(***************************************************************************)
(* Push and pull together, with both users at work, and what they achieve. *)
(***************************************************************************)
EXTENDS MemoPush, MemoPull

LocalUser == LocalCreate \/ LocalEdit \/ LocalDelete
RemoteUser == RemoteCreate \/ RemoteEdit \/ RemoteDelete

SettingsPage == ResetMetadata \/ ExportMetadata \/ ImportMetadata

Next == LocalUser \/ RemoteUser \/ Push \/ Pull \/ Abort \/ SettingsPage

(* A run that has begun goes on, and runs in both directions are started   *)
(* again and again: by edits, at startup, by the user's button.            *)
Fairness ==
    /\ WF_vars(run.pc # "idle" /\ (Push \/ Pull))
    /\ SF_vars(StartPush(FALSE)) /\ SF_vars(StartPull(FALSE))

Spec == Init /\ [][Next]_vars
FairSpec == Spec /\ Fairness

--------------------------------------------------------------------------------
IsMap(f, S, R) == DOMAIN f \subseteq S /\ \A x \in DOMAIN f : f[x] \in R

TypeOK ==
    /\ local \in Table /\ remote \in Table
    /\ clock \in 0..MaxTime /\ asked \in BOOLEAN
    /\ \A d \in {disk, backup} :
         d.imported \subseteq Ids /\ IsMap(d.bindings, Ids, Binding) /\ d.cursor \in 0..MaxTime
    /\ run.pc \in RunStates
    /\ {run.confirm, run.more, run.stopped, run.complete} \subseteq BOOLEAN
    /\ IsMap(run.bindings, Ids, Binding)
    /\ IsMap(run.look, Ids, Ids)
    /\ IsMap(run.queue, Ids, Memo)
    /\ IsMap(run.prints, Ids, Texts \X (0..MaxTime))
    /\ {run.offset, run.pages, run.deleted} \subseteq Nat
    /\ {run.floor, run.latest} \subseteq 0..MaxTime
    /\ run.state \in {"NORMAL", "ARCHIVED"} /\ run.target \in Ids \cup {0}
    /\ run.mask \subseteq Fields
    /\ run.imported \cup run.seen \cup run.todo \cup run.orphans \subseteq Ids

(* The lookup of a push is the inverse of its bindings, always. *)
LookupsMatch ==
    \A l \in DOMAIN run.look :
      run.look[l] \in DOMAIN run.bindings /\ run.bindings[run.look[l]].local = l

(* The rule that skips a memo is sound.  A memo is left alone when its     *)
(* update times are still those of its binding; then the two sides are     *)
(* equal, so an edit on either side can only be missing on the other while *)
(* its binding still shows it as unsynchronised.                           *)
SyncedPairsAgree ==
    \A B \in {disk.bindings, run.bindings} : \A r \in DOMAIN B :
      LET l == B[r].local
      IN  /\ r \in Live(remote) /\ l \in Live(local)
          /\ B[r].rut = remote[r].ut /\ B[r].lut = local[l].ut
          => local[l].text = remote[r].text /\ local[l].vis = remote[r].vis

(* The later modification wins: no push replaces a remote memo by one with *)
(* an earlier update time.                                                 *)
RemoteLastWriterWins ==
    [][\A r \in Live(remote) \cap Live(remote)' :
         run' # run => remote'[r].ut >= remote[r].ut]_vars

(* A push deletes a remote memo only when the local memo it was bound to   *)
(* has been deleted, however long ago that was established.                *)
RemoteDeletesJustified ==
    [][\A r \in Live(remote) : remote'[r] = Gone /\ run' # run =>
         r \in DOMAIN run.bindings /\ local[run.bindings[r].local] = Gone]_vars

(* A pull deletes a local memo only when every remote memo it is bound to  *)
(* has been deleted.                                                       *)
LocalDeletesJustified ==
    [][\A l \in Live(local) : local'[l] = Gone /\ run' # run =>
         \A r \in DOMAIN run.bindings : run.bindings[r].local = l => remote[r] = Gone]_vars

(* No run deletes more than the threshold without the user's word. *)
NoUnconfirmedMassDeletion == run.deleted > Threshold => run.confirm

(* No memo is there twice on one side: a memo and its copies share the     *)
(* time of creation.                                                       *)
NoDuplicates ==
    \A T \in {local, remote} : \A i, j \in Live(T) : T[i].ct = T[j].ct => i = j

(* A table of the model that has run out of ids takes no memo any more,    *)
(* which a server does not do.                                             *)
HasIds == Unused(local) # {} /\ Unused(remote) # {}

(* Between two runs, every remote memo the cursor has passed is known, so  *)
(* that a later pull, which stops at the cursor, has nothing to miss.      *)
CursorCovers ==
    run.pc = "idle" /\ HasIds =>
      \A r \in Live(remote) :
        remote[r].text # Blank /\ remote[r].ut <= disk.cursor => r \in disk.imported

(* What synchronisation carries of the memos of a table. *)
Contents(T) == {Restrict(T[i], SyncMask \ {"ut"}) : i \in Live(T)}

(* The model runs out of ids in the middle of a run.                       *)
Refused ==
    \/ AtItem("pushItem") /\ Head \notin DOMAIN run.look /\ Unused(remote) = {}
    \/ IsNew /\ Twins = {} /\ Unused(local) = {}

(* Once the users stop, the two sides become equal and stay so.            *)
Converges == []~Refused => <>[](Contents(local) = Contents(remote))

--------------------------------------------------------------------------------
(* Expectations the code does not meet either; the configurations with     *)
(* their counterexamples are named in the README.                          *)

(* No pull replaces a local memo by one with an earlier update time. *)
LocalLastWriterWins ==
    [][\A l \in Live(local) \cap Live(local)' :
         run' # run => local'[l].ut >= local[l].ut]_vars

(* A pull does not undo a change of visibility that is later than what the *)
(* remote memo has to say.                                                 *)
VisibilityKept ==
    [][\A l \in Live(local) \cap Live(local)' :
         run' # run /\ local'[l].vis # local[l].vis
         => local[l].ut <= run.queue[Head].ut]_vars

(* SyncedPairsAgree of pinned, once the toggle "Sync pinned status" is on. *)
SyncedPinsAgree ==
    SyncPinned =>
      \A B \in {disk.bindings, run.bindings} : \A r \in DOMAIN B :
        LET l == B[r].local
        IN  /\ r \in Live(remote) /\ l \in Live(local)
            /\ B[r].rut = remote[r].ut /\ B[r].lut = local[l].ut
            => local[l].pin = remote[r].pin
================================================================================
