------------------------------ MODULE CommentSync ------------------------------
(***************************************************************************)
(* The synchronisation of comments, syncMemoreComments of                  *)
(* web/src/lib/memore-sync.ts, which follows every push and pull: for each *)
(* bound pair of memos the local comments are pushed, then the remote ones *)
(* pulled.  A comment is a memo of its own with a relation to its parent;  *)
(* its content and visibility travel together and are one `text` here.     *)
(*                                                                         *)
(* One step is one request with the bookkeeping that follows its answer;   *)
(* the users of both sides act between any two of them.  The bindings are  *)
(* written to localStorage only when the run ends, so that a page that     *)
(* dies takes with it what the run has learnt.  The pairs of memos do not  *)
(* change here: MemoSync has their life.                                   *)
(***************************************************************************)
EXTENDS Integers, FiniteSets, Functions

CONSTANTS
    Parents,        \* the bound pairs of memos
    MaxComment,     \* the last comment id a side can hand out
    Texts, NewTexts,  \* those a comment may have, and be created with
    MaxTime,        \* the last second of a behaviour
    Fresh, Gone,
    Faults,         \* the kinds of faults that happen
    MaxFaults,      \* how many happen in a behaviour
    EditsAtReread   \* a user may edit a comment between updateMemo and getMemo

(* "fail"    a request fails and has had no effect                         *)
(* "lost"    the remote does what it is asked, and its answer is lost      *)
(* "refuse"  the remote answers a DELETE by an error status                *)
(* "die"     the page dies in the middle of a run                          *)
FaultKinds == {"fail", "lost", "refuse", "die"}

ASSUME CommentSyncAssumption ==
    /\ MaxComment \in Nat /\ MaxTime \in Nat /\ MaxFaults \in Nat
    /\ Parents # {} /\ Fresh # Gone /\ NewTexts \subseteq Texts
    /\ Faults \subseteq FaultKinds /\ EditsAtReread \in BOOLEAN

Ids == 1..MaxComment

(* `org` is no field of the code: the second the comment was first written *)
(* in, which its copy on the other side shares.                            *)
Comment == [parent : Parents, text : Texts, ut : 0..MaxTime, org : 0..MaxTime]
ASSUME FreshGoneAreNoComments == Fresh \notin Comment /\ Gone \notin Comment
Table == [Ids -> Comment \cup {Fresh, Gone}]

VARIABLES
    local, remote,  \* the comments of the two sides
    clock,          \* the current second
    disk,           \* the comment bindings in localStorage
    run,            \* the local variables of the run in progress
    faults          \* how many faults have happened, and of which kinds

vars == <<local, remote, clock, disk, run, faults>>

Live(T) == {i \in Ids : T[i] \notin {Fresh, Gone}}
Unused(T) == {i \in Ids : T[i] = Fresh}
NextId(T) == CHOOSE i \in Unused(T) : \A j \in Unused(T) : i <= j

(* ListMemoComments: the comments with a relation to the memo. *)
CommentsOf(T, p) == {i \in Live(T) : T[i].parent = p}

(* A bound remote comment: its local one, its parent, and the update times *)
(* of the two when they were last known to agree.                          *)
CommentBinding == [local : Ids, parent : Parents, rut : 0..MaxTime, lut : 0..MaxTime]

NoMap == [x \in {} |-> x]
Put(f, k, v) == [x \in DOMAIN f \cup {k} |-> IF x = k THEN v ELSE f[x]]
Drop(f, k) == Restrict(f, DOMAIN f \ {k})

(* pc        the request to make next                                      *)
(* bindings  commentBindings                                               *)
(* todo      memos whose comments are still to be listed                   *)
(* memo      the memo in hand                                              *)
(* queue     its comments that are still to be treated                     *)
(* seen      seenLocalCommentNames, seenRemoteCommentNames                 *)
(* sweep     the bindings the deletion loop has still to look at           *)
(* target    the remote comment a follow-up request is about               *)
RunStates ==
    {"idle", "pushList", "pushItem", "pushSweep", "pushDelete",
     "pullList", "pullItem", "pullReread", "pullSweep"}

Idle ==
    [pc |-> "idle", bindings |-> NoMap, todo |-> {}, memo |-> CHOOSE p \in Parents : TRUE,
     queue |-> NoMap, seen |-> {}, sweep |-> {}, target |-> 0]

Init ==
    /\ local = [i \in Ids |-> Fresh] /\ remote = [i \in Ids |-> Fresh]
    /\ clock = 0
    /\ disk = NoMap
    /\ run = Idle
    /\ faults = [count |-> 0, kinds |-> {}]

Fault(k) ==
    /\ k \in Faults /\ faults.count < MaxFaults
    /\ faults' = [count |-> faults.count + 1, kinds |-> faults.kinds \cup {k}]
NoFault == UNCHANGED faults

--------------------------------------------------------------------------------
(* The users.  No two of their edits share a second. *)
Now == clock + 1
MayEdit == run.pc = "pullReread" => EditsAtReread
Tick == clock < MaxTime /\ clock' = Now /\ UNCHANGED <<disk, run, faults>>

Creates(T, new) ==
    \E p \in Parents, text \in NewTexts :
      new = [T EXCEPT ![NextId(T)] = [parent |-> p, text |-> text, ut |-> Now, org |-> Now]]

Edits(T, new) ==
    \E i \in Live(T) : \E text \in Texts \ {T[i].text} :
      new = [T EXCEPT ![i].text = text, ![i].ut = Now]

Deletes(T, new) == \E i \in Live(T) : new = [T EXCEPT ![i] = Gone]

LocalCreate == Unused(local) # {} /\ Tick /\ Creates(local, local') /\ UNCHANGED remote
LocalEdit == MayEdit /\ Tick /\ Edits(local, local') /\ UNCHANGED remote
LocalDelete == Deletes(local, local') /\ UNCHANGED <<remote, clock, disk, run, faults>>
RemoteCreate == Unused(remote) # {} /\ Tick /\ Creates(remote, remote') /\ UNCHANGED local
RemoteEdit == Tick /\ Edits(remote, remote') /\ UNCHANGED local
RemoteDelete == Deletes(remote, remote') /\ UNCHANGED <<local, clock, disk, run, faults>>

LocalUser == LocalCreate \/ LocalEdit \/ LocalDelete
RemoteUser == RemoteCreate \/ RemoteEdit \/ RemoteDelete

--------------------------------------------------------------------------------
(* What the two directions share. *)
Later(i) == \A j \in DOMAIN run.queue : j <= i
Item == CHOOSE i \in DOMAIN run.queue : Later(i)
Rest == Drop(run.queue, Item)
AtItem(pc) == run.pc = pc /\ DOMAIN run.queue # {}

(* A comment whose update time is still that of its binding is passed over. *)
Listed(T, p, same) == [i \in CommentsOf(T, p) \ same |-> T[i]]

(* localCommentToRemote, which the run keeps beside its bindings. *)
RemoteOf(l) == {r \in DOMAIN run.bindings : run.bindings[r].local = l}

(* The bindings of a memo whose comment the listing has not shown. *)
Unseen(side) ==
    {r \in DOMAIN run.bindings :
       /\ run.bindings[r].parent = run.memo
       /\ (IF side = "local" THEN run.bindings[r].local ELSE r) \notin run.seen}

(* `continue` or failedCount: on to the next comment. *)
SkipItem(pc, refused) ==
    /\ AtItem(pc) /\ (Fault("fail") \/ (refused /\ NoFault))
    /\ run' = [run EXCEPT !.queue = Rest]
    /\ UNCHANGED <<local, remote, clock, disk>>

(* Mutant: a listing that fails counts as an empty one. *)
SkipMemoEmpty(pc) ==
    /\ run.pc = pc /\ Fault("fail")
    /\ \E p \in run.todo :
         run' = [run EXCEPT !.pc = IF pc = "pushList" THEN "pushItem" ELSE "pullItem",
                            !.todo = @ \ {p}, !.memo = p, !.queue = NoMap, !.seen = {}]
    /\ UNCHANGED <<local, remote, clock, disk>>

(* listMemoComments fails: on to the next memo. *)
SkipMemo(pc) ==
    /\ run.pc = pc /\ Fault("fail")
    /\ \E p \in run.todo : run' = [run EXCEPT !.todo = @ \ {p}]
    /\ UNCHANGED <<local, remote, clock, disk>>

Start ==
    /\ run.pc = "idle"
    /\ run' = [Idle EXCEPT !.pc = "pushList", !.bindings = disk, !.todo = Parents]
    /\ UNCHANGED <<local, remote, clock, disk, faults>>

--------------------------------------------------------------------------------
(* Push. *)
LocalName(r) == run.bindings[r].local

PushList ==
    /\ run.pc = "pushList"
    /\ \E p \in run.todo :
         LET same == {l \in Live(local) : \E r \in RemoteOf(l) : run.bindings[r].lut = local[l].ut}
         IN  run' = [run EXCEPT !.pc = "pushItem", !.todo = @ \ {p}, !.memo = p,
                                !.queue = Listed(local, p, same), !.seen = CommentsOf(local, p)]
    /\ UNCHANGED <<local, remote, clock, disk, faults>>

(* Mutant: the update time of the local comment is read after the answer. *)
PushUpdateRestamped ==
    /\ AtItem("pushItem")
    /\ \E r \in RemoteOf(Item) \cap Live(remote) :
         /\ remote' = [remote EXCEPT ![r].text = run.queue[Item].text, ![r].ut = clock]
         /\ run' = [run EXCEPT !.queue = Rest, !.bindings[r].rut = clock,
                               !.bindings[r].lut = IF local[Item] = Gone THEN @ ELSE local[Item].ut]
         /\ NoFault
    /\ UNCHANGED <<local, clock, disk>>

(* PATCH of content and visibility; nobody looks at what the remote comment *)
(* has become meanwhile.                                                    *)
PushUpdate ==
    /\ AtItem("pushItem")
    /\ \E r \in RemoteOf(Item) \cap Live(remote) :
         /\ remote' = [remote EXCEPT ![r].text = run.queue[Item].text, ![r].ut = clock]
         /\ \/ /\ run' = [run EXCEPT !.queue = Rest, !.bindings[r].rut = clock,
                                     !.bindings[r].lut = run.queue[Item].ut]
               /\ NoFault
            \/ Fault("lost") /\ run' = [run EXCEPT !.queue = Rest]
    /\ UNCHANGED <<local, clock, disk>>

(* Mutant: what has been created is not bound. *)
PushCreateUnbound ==
    /\ AtItem("pushItem") /\ RemoteOf(Item) = {} /\ Unused(remote) # {}
    /\ remote' = [remote EXCEPT ![NextId(remote)] = [run.queue[Item] EXCEPT !.ut = clock]]
    /\ run' = [run EXCEPT !.queue = Rest]
    /\ UNCHANGED <<local, clock, disk, faults>>

PushCreate ==
    /\ AtItem("pushItem") /\ RemoteOf(Item) = {} /\ Unused(remote) # {}
    /\ LET r == NextId(remote)
           c == run.queue[Item]
       IN  /\ remote' = [remote EXCEPT ![r] = [c EXCEPT !.ut = clock]]
           /\ \/ /\ run' = [run EXCEPT !.queue = Rest, !.bindings = Put(@, r,
                      [local |-> Item, parent |-> run.memo, rut |-> clock, lut |-> c.ut])]
                 /\ NoFault
              \/ Fault("lost") /\ run' = [run EXCEPT !.queue = Rest]
    /\ UNCHANGED <<local, clock, disk>>

(* The remote comment is gone, or (the model's bound) no id is left. *)
PushRefused ==
    IF RemoteOf(Item) = {} THEN Unused(remote) = {} ELSE RemoteOf(Item) \cap Live(remote) = {}

PushSkip == SkipItem("pushItem", PushRefused)

PushItemsDone ==
    /\ run.pc = "pushItem" /\ DOMAIN run.queue = {}
    /\ run' = [run EXCEPT !.pc = "pushSweep", !.sweep = Unseen("local")]
    /\ UNCHANGED <<local, remote, clock, disk, faults>>

(* getMemo of a comment the list has not shown.  Only NotFound lets the    *)
(* deletion go on; any other answer keeps the binding.                     *)
PushProbe ==
    /\ run.pc = "pushSweep"
    /\ \E r \in run.sweep :
         \/ /\ local[LocalName(r)] = Gone
            /\ run' = [run EXCEPT !.pc = "pushDelete", !.sweep = @ \ {r}, !.target = r]
            /\ NoFault
         \/ /\ (local[LocalName(r)] # Gone /\ NoFault) \/ Fault("fail")
            /\ run' = [run EXCEPT !.sweep = @ \ {r}]
    /\ UNCHANGED <<local, remote, clock, disk>>

(* DELETE.  The status of the answer is not looked at, so that a refusal   *)
(* drops the binding too; an exception keeps it.                           *)
PushDelete ==
    /\ run.pc = "pushDelete"
    /\ \/ /\ remote' = [remote EXCEPT ![run.target] = Gone] /\ NoFault
          /\ run' = [run EXCEPT !.pc = "pushSweep", !.bindings = Drop(@, run.target)]
       \/ /\ UNCHANGED remote /\ Fault("refuse")
          /\ run' = [run EXCEPT !.pc = "pushSweep", !.bindings = Drop(@, run.target)]
       \/ /\ \/ UNCHANGED remote /\ Fault("fail")
             \/ remote' = [remote EXCEPT ![run.target] = Gone] /\ Fault("lost")
          /\ run' = [run EXCEPT !.pc = "pushSweep"]
    /\ UNCHANGED <<local, clock, disk>>

PushMemoDone ==
    /\ run.pc = "pushSweep" /\ run.sweep = {}
    /\ run' = [run EXCEPT !.pc = "pushList"]
    /\ UNCHANGED <<local, remote, clock, disk, faults>>

PushDone ==
    /\ run.pc = "pushList" /\ run.todo = {}
    /\ run' = [run EXCEPT !.pc = "pullList", !.todo = Parents]
    /\ UNCHANGED <<local, remote, clock, disk, faults>>

Push ==
    \/ PushList \/ SkipMemo("pushList") \/ PushUpdate \/ PushCreate \/ PushSkip
    \/ PushItemsDone \/ PushProbe \/ PushDelete \/ PushMemoDone \/ PushDone

--------------------------------------------------------------------------------
(* Pull. *)
PullList ==
    /\ run.pc = "pullList"
    /\ \E p \in run.todo :
         LET same == {r \in Live(remote) : r \in DOMAIN run.bindings /\ run.bindings[r].rut = remote[r].ut}
         IN  run' = [run EXCEPT !.pc = "pullItem", !.todo = @ \ {p}, !.memo = p,
                                !.queue = Listed(remote, p, same), !.seen = CommentsOf(remote, p)]
    /\ UNCHANGED <<local, remote, clock, disk, faults>>

(* Mutant: the comment counts as read as it is by now, not as it was listed. *)
PullUpdateUnread ==
    /\ AtItem("pullItem") /\ Item \in DOMAIN run.bindings
    /\ local[LocalName(Item)] # Gone
    /\ local' = [local EXCEPT ![LocalName(Item)].text = run.queue[Item].text,
                              ![LocalName(Item)].ut = clock]
    /\ run' = [run EXCEPT !.pc = "pullReread", !.queue = Rest, !.target = Item,
                          !.bindings[Item].rut = IF remote[Item] = Gone THEN @ ELSE remote[Item].ut]
    /\ UNCHANGED <<remote, clock, disk, faults>>

(* updateMemo, after which the remote side counts as read ... *)
PullUpdate ==
    /\ AtItem("pullItem") /\ Item \in DOMAIN run.bindings
    /\ local[LocalName(Item)] # Gone
    /\ local' = [local EXCEPT ![LocalName(Item)].text = run.queue[Item].text,
                              ![LocalName(Item)].ut = clock]
    /\ run' = [run EXCEPT !.pc = "pullReread", !.queue = Rest, !.target = Item,
                          !.bindings[Item].rut = run.queue[Item].ut]
    /\ UNCHANGED <<remote, clock, disk, faults>>

(* ... and getMemo for the update time of the local one. *)
PullReread ==
    /\ run.pc = "pullReread"
    /\ \/ /\ local[LocalName(run.target)] # Gone /\ NoFault
          /\ run' = [run EXCEPT !.pc = "pullItem",
                                !.bindings[run.target].lut = local[LocalName(run.target)].ut]
       \/ /\ local[LocalName(run.target)] = Gone /\ NoFault
          /\ run' = [run EXCEPT !.pc = "pullItem", !.bindings = Drop(@, run.target)]
       \/ Fault("fail") /\ run' = [run EXCEPT !.pc = "pullItem"]
    /\ UNCHANGED <<local, remote, clock, disk>>

(* The local comment is NotFound: the next run takes the remote one for new. *)
PullUnbind ==
    /\ AtItem("pullItem") /\ Item \in DOMAIN run.bindings
    /\ local[LocalName(Item)] = Gone
    /\ run' = [run EXCEPT !.queue = Rest, !.bindings = Drop(@, Item)]
    /\ UNCHANGED <<local, remote, clock, disk, faults>>

PullCreate ==
    /\ AtItem("pullItem") /\ Item \notin DOMAIN run.bindings /\ Unused(local) # {}
    /\ LET l == NextId(local)
           c == run.queue[Item]
       IN  /\ local' = [local EXCEPT ![l] = [c EXCEPT !.ut = clock]]
           /\ run' = [run EXCEPT !.queue = Rest, !.bindings = Put(@, Item,
                [local |-> l, parent |-> run.memo, rut |-> c.ut, lut |-> clock])]
    /\ UNCHANGED <<remote, clock, disk, faults>>

PullSkip == SkipItem("pullItem", Item \notin DOMAIN run.bindings /\ Unused(local) = {})

PullItemsDone ==
    /\ run.pc = "pullItem" /\ DOMAIN run.queue = {}
    /\ run' = [run EXCEPT !.pc = "pullSweep", !.sweep = Unseen("remote")]
    /\ UNCHANGED <<local, remote, clock, disk, faults>>

(* deleteMemo of the local comment, without asking the remote again. *)
PullDelete ==
    /\ run.pc = "pullSweep"
    /\ \E r \in run.sweep :
         \/ /\ local' = [local EXCEPT ![LocalName(r)] = Gone] /\ NoFault
            /\ run' = [run EXCEPT !.sweep = @ \ {r}, !.bindings = Drop(@, r)]
         \/ /\ UNCHANGED local /\ Fault("fail")
            /\ run' = [run EXCEPT !.sweep = @ \ {r}]
    /\ UNCHANGED <<remote, clock, disk>>

PullMemoDone ==
    /\ run.pc = "pullSweep" /\ run.sweep = {}
    /\ run' = [run EXCEPT !.pc = "pullList"]
    /\ UNCHANGED <<local, remote, clock, disk, faults>>

(* setCommentBindings, the only save of a run. *)
Save ==
    /\ run.pc = "pullList" /\ run.todo = {}
    /\ disk' = run.bindings /\ run' = Idle
    /\ UNCHANGED <<local, remote, clock, faults>>

Pull ==
    \/ PullList \/ SkipMemo("pullList") \/ PullUpdate \/ PullReread \/ PullUnbind
    \/ PullCreate \/ PullSkip \/ PullItemsDone \/ PullDelete \/ PullMemoDone \/ Save

Die ==
    /\ run.pc # "idle" /\ Fault("die")
    /\ run' = Idle
    /\ UNCHANGED <<local, remote, clock, disk>>

Next == LocalUser \/ RemoteUser \/ Start \/ Push \/ Pull \/ Die

Spec == Init /\ [][Next]_vars

(* A run that has begun goes on, and runs follow each other. *)
FairSpec == Spec /\ WF_vars(Start \/ Push \/ Pull)

--------------------------------------------------------------------------------
IsBindings(B) == DOMAIN B \subseteq Ids /\ \A r \in DOMAIN B : B[r] \in CommentBinding

(* Types: tables of comments, bindings over ids, and a request about a     *)
(* comment in hand only while there is one and it is bound.                *)
TypeOK ==
    /\ local \in Table /\ remote \in Table /\ clock \in 0..MaxTime
    /\ faults.count \in 0..MaxFaults /\ faults.kinds \subseteq Faults
    /\ IsBindings(disk) /\ IsBindings(run.bindings)
    /\ run.pc \in RunStates /\ run.todo \subseteq Parents /\ run.memo \in Parents
    /\ DOMAIN run.queue \subseteq Ids /\ \A i \in DOMAIN run.queue : run.queue[i] \in Comment
    /\ run.seen \subseteq Ids /\ run.sweep \subseteq DOMAIN run.bindings
    /\ run.pc \in {"pushDelete", "pullReread"} => run.target \in DOMAIN run.bindings

(* A comment has one counterpart: no two bindings share a local comment,   *)
(* which would make the two of them overwrite each other for ever.         *)
BindingsInjective ==
    \A B \in {disk, run.bindings} : \A r, s \in DOMAIN B :
      B[r].local = B[s].local => r = s

(* A comment and its counterpart hang on the two sides of one pair of      *)
(* memos: nothing moves a comment to another memo.                         *)
CounterpartsShareMemo ==
    \A B \in {disk, run.bindings} : \A r \in DOMAIN B :
      /\ r \in Live(remote) => remote[r].parent = B[r].parent
      /\ B[r].local \in Live(local) => local[B[r].local].parent = B[r].parent

(* The rule that passes a comment over is sound: while both update times   *)
(* are those of the binding, the two sides are equal.                      *)
SyncedCommentsAgree ==
    \A B \in {disk, run.bindings} : \A r \in DOMAIN B :
      LET l == B[r].local
      IN  /\ r \in Live(remote) /\ l \in Live(local)
          /\ B[r].rut = remote[r].ut /\ B[r].lut = local[l].ut
          => local[l].text = remote[r].text

(* A run deletes a remote comment only after the local one it was bound to *)
(* is gone, and a local one only after the remote one is.                  *)
DeletesJustified ==
    [][run' # run =>
         /\ \A r \in Live(remote) : remote'[r] = Gone =>
              r \in DOMAIN run.bindings /\ local[run.bindings[r].local] = Gone
         /\ \A l \in Live(local) : local'[l] = Gone =>
              \E r \in DOMAIN run.bindings : run.bindings[r].local = l /\ remote[r] = Gone]_vars

(* As long as no run has died and no answer been lost, no comment is there *)
(* twice on one side.                                                      *)
NoDuplicates ==
    faults.kinds \cap {"die", "lost"} = {} =>
    \A T \in {local, remote} : \A i, j \in Live(T) : T[i].org = T[j].org => i = j

(* The comments of the two sides, memo by memo. *)
Contents(T) == {<<T[i].parent, T[i].org, T[i].text>> : i \in Live(T)}
Refused ==
    \/ AtItem("pushItem") /\ RemoteOf(Item) = {} /\ Unused(remote) = {}
    \/ AtItem("pullItem") /\ Item \notin DOMAIN run.bindings /\ Unused(local) = {}

(* Once the users stop, every memo has the same comments on both sides.    *)
Converges == []~Refused => <>[](Contents(local) = Contents(remote))
================================================================================
