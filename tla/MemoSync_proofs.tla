----------------------------- MODULE MemoSync_proofs -----------------------------
(***************************************************************************)
(* What the memo synchronisation promises for any tables, page sizes,      *)
(* thresholds, toggles and faults: it is type correct, the lookup of a     *)
(* push is the inverse of its bindings, a push deletes only what the user  *)
(* has deleted, and no run deletes more than the threshold unasked.  And   *)
(* of the two sides, on conditions that each theorem names: what is left   *)
(* alone is equal on both (SyncedPairsAgree), no memo is there twice       *)
(* (NoDuplicates), and a pull deletes only what the remote has deleted     *)
(* (LocalDeletesJustified).                                                *)
(*                                                                         *)
(* TypeOK is not inductive: it says nothing of the domains of `run`, and a *)
(* request about the memo in hand needs one to be in hand.  SyncTyped says *)
(* which record `run` is, and ItemInHand that between the requests about   *)
(* one memo its page is not empty and the memo is bound.                   *)
(*                                                                         *)
(* Nor are the other three.  A new remote memo must not be bound already   *)
(* (BindingsKnown, also of the bindings of a file that may be imported), a *)
(* pull must not bind what has never existed (PullInv), and what a sweep   *)
(* has found gone must be gone and stay so (SweepInv), and has been        *)
(* counted (CountInv).                                                     *)
(*                                                                         *)
(* Of equal memos, StampInv: an update time tells the text of whatever has *)
(* it, in either table or in the page a run has in hand.  For the others,  *)
(* OnceInv: two live memos have one time of creation exactly if they are   *)
(* bound to each other.  Both speak of pages that are older than the       *)
(* tables, for the users go on between any two requests.                   *)
(***************************************************************************)
EXTENDS MemoSync, WellFoundedInduction, FiniteSetTheorems, TLAPS

USE MemoTableAssumption, MemoSyncAssumption

--------------------------------------------------------------------------------
(* What the operations of a memo table return: the next id is one that has *)
(* not been handed out, the first memo of a list is on the list, and memos *)
(* stay memos.  First, least and greatest elements.                        *)

(* A set of naturals that is not empty has a least element ... *)
LEMMA LeastExists ==
  ASSUME NEW S \in SUBSET Nat, S # {}
  PROVE  \E x \in S : \A y \in S : x <= y
<1> DEFINE R == OpToRel(<, Nat)
<1>1. PICK x \in S : \A y \in S : ~(<<y, x>> \in R)
  <2> HIDE DEF R
  <2>1. IsWellFoundedOn(R, Nat)
    BY NatLessThanWellFounded DEF R
  <2> QED
    BY <2>1, WFMin
<1>2. \A y \in S : ~(y < x)
  BY <1>1 DEF OpToRel
<1> QED
  BY <1>2

(* ... and, if it is bounded, a greatest one. *)
LEMMA GreatestExists ==
  ASSUME NEW n \in Nat, NEW S \in SUBSET (0..n), S # {}
  PROVE  \E x \in S : \A y \in S : y <= x
<1> DEFINE T == {n - x : x \in S}
<1>0. \A x \in S : n - x \in Nat
  OBVIOUS
<1>1. T \in SUBSET Nat /\ T # {}
  <2>1. T \subseteq Nat
    BY <1>0
  <2>2. PICK x \in S : TRUE
    OBVIOUS
  <2>3. n - x \in T
    BY <2>2
  <2> QED
    BY <2>1, <2>3
<1>2. PICK t \in T : \A u \in T : t <= u
  BY <1>1, LeastExists
<1>3. PICK x \in S : t = n - x
  OBVIOUS
<1>4. \A y \in S : n - x <= n - y
  BY <1>2, <1>3
<1> QED
  BY <1>4

(* NextId hands out an id that is still fresh. *)
LEMMA NextIdFresh ==
  ASSUME NEW T, Unused(T) # {}
  PROVE  NextId(T) \in Ids /\ T[NextId(T)] = Fresh
<1>1. Unused(T) \in SUBSET Nat
  BY DEF Unused, Ids
<1>2. \E i \in Unused(T) : \A j \in Unused(T) : i <= j
  BY <1>1, LeastExists
<1>3. NextId(T) \in Unused(T)
  BY <1>2 DEF NextId
<1> QED
  BY <1>3 DEF Unused

(* The first memo of a list that is not empty is one of the list. *)
LEMMA FirstListed ==
  ASSUME NEW T, DOMAIN T \subseteq Ids, DOMAIN T # {},
         \A i \in DOMAIN T : T[i].ut \in 0..MaxTime
  PROVE  First(T) \in DOMAIN T
<1> DEFINE S == {T[i].ut : i \in DOMAIN T}
<1>1. PICK t \in S : \A u \in S : u <= t
  <2>1. S \in SUBSET (0..MaxTime) /\ S # {}
    OBVIOUS
  <2> HIDE DEF S
  <2> QED
    BY <2>1, GreatestExists
<1> DEFINE L == {i \in DOMAIN T : T[i].ut = t}
<1>2. PICK i \in L : \A j \in L : j <= i
  <2>1. L \in SUBSET (0..MaxId) /\ L # {}
    BY <1>1 DEF Ids
  <2> HIDE DEF L
  <2> QED
    BY <2>1, GreatestExists
<1>3. \A j \in DOMAIN T \ {i} : Before(T, i, j)
  <2> TAKE j \in DOMAIN T \ {i}
  <2>1. i \in Int /\ j \in Int /\ T[i].ut = t /\ T[j].ut <= t /\ T[j].ut \in Int /\ t \in Int
    BY <1>1, <1>2 DEF Ids
  <2>2. T[j].ut = t => j <= i
    BY <1>2
  <2> QED
    BY <2>1, <2>2 DEF Before
<1>4. \E k \in DOMAIN T : \A j \in DOMAIN T \ {k} : Before(T, k, j)
  BY <1>2, <1>3
<1> QED
  BY <1>4 DEF First

(* A created memo is a memo, and so is an updated one. *)
LEMMA CreateMemoType ==
  ASSUME NEW m \in Memo
  PROVE  CreateMemo(m) \in Memo
BY DEF CreateMemo, Memo

LEMMA UpdateMemoType ==
  ASSUME NEW old \in Memo, NEW m \in Memo, NEW mask, NEW now \in 0..MaxTime
  PROVE  UpdateMemo(old, m, mask, now) \in Memo
<1> DEFINE new == [f \in Fields |-> IF f \in mask THEN m[f] ELSE old[f]]
<1>1. new \in Memo
  BY DEF Memo, Fields
<1> QED
  BY <1>1 DEF UpdateMemo, Memo

--------------------------------------------------------------------------------
(* The functions from a part of S to R. *)
Partial(S, R) == UNION {[D -> R] : D \in SUBSET S}

Disks == [imported : SUBSET Ids, bindings : Partial(Ids, Binding), cursor : 0..MaxTime]

Runs ==
    [pc : RunStates, confirm : BOOLEAN, imported : SUBSET Ids,
     bindings : Partial(Ids, Binding), look : Partial(Ids, Ids), queue : Partial(Ids, Memo),
     offset : Nat, pages : Nat, more : BOOLEAN, state : {"NORMAL", "ARCHIVED"},
     floor : 0..MaxTime, latest : 0..MaxTime, stopped : BOOLEAN, complete : BOOLEAN,
     prints : Partial(Ids, Texts \X (0..MaxTime)), target : Ids \cup {0},
     mask : SUBSET Fields, seen : SUBSET Ids, todo : SUBSET Ids, orphans : SUBSET Ids,
     deleted : Nat]

SyncTyped ==
    /\ local \in Table /\ remote \in Table
    /\ clock \in 0..MaxTime /\ asked \in BOOLEAN
    /\ disk \in Disks /\ backup \in Disks
    /\ run \in Runs

ItemInHand ==
    run.pc \in {"pullRead", "pullMeta", "pullWrite"} =>
      DOMAIN run.queue # {} /\ Head \in DOMAIN run.bindings

TypeInv == SyncTyped /\ ItemInHand

--------------------------------------------------------------------------------
(* Partial functions: what they are, and that Put, Drop and Restrict keep  *)
(* them.                                                                   *)
LEMMA PartialMember ==
  ASSUME NEW S, NEW R, NEW f
  PROVE  f \in Partial(S, R) <=> f \in [DOMAIN f -> R] /\ DOMAIN f \subseteq S
<1>1. ASSUME f \in Partial(S, R) PROVE f \in [DOMAIN f -> R] /\ DOMAIN f \subseteq S
  <2>1. PICK D \in SUBSET S : f \in [D -> R]
    BY <1>1 DEF Partial
  <2> QED
    BY <2>1
<1>2. ASSUME f \in [DOMAIN f -> R], DOMAIN f \subseteq S PROVE f \in Partial(S, R)
  BY <1>2 DEF Partial
<1> QED
  BY <1>1, <1>2

LEMMA PartialValue ==
  ASSUME NEW S, NEW R, NEW f \in Partial(S, R), NEW x \in DOMAIN f
  PROVE  x \in S /\ f[x] \in R
BY PartialMember

LEMMA NoMapPartial == ASSUME NEW S, NEW R PROVE NoMap \in Partial(S, R)
BY PartialMember DEF NoMap

LEMMA PutPartial ==
  ASSUME NEW S, NEW R, NEW f \in Partial(S, R), NEW k \in S, NEW v \in R
  PROVE  Put(f, k, v) \in Partial(S, R)
<1>1. Put(f, k, v) \in [DOMAIN f \cup {k} -> R] /\ DOMAIN f \cup {k} \subseteq S
  BY PartialMember DEF Put
<1> QED
  BY <1>1, PartialMember

LEMMA RestrictPartial ==
  ASSUME NEW S, NEW R, NEW f, NEW D \in SUBSET S, \A x \in D : f[x] \in R
  PROVE  Restrict(f, D) \in Partial(S, R)
<1>1. Restrict(f, D) \in [D -> R]
  BY DEF Restrict
<1> QED
  BY <1>1, PartialMember

LEMMA DropPartial ==
  ASSUME NEW S, NEW R, NEW f \in Partial(S, R), NEW k
  PROVE  Drop(f, k) \in Partial(S, R)
<1>1. DOMAIN f \ {k} \in SUBSET S /\ \A x \in DOMAIN f \ {k} : f[x] \in R
  BY PartialMember
<1> QED
  BY <1>1, RestrictPartial DEF Drop

(* The memo in hand is one of the page, and a memo. *)
LEMMA HeadInQueue ==
  ASSUME SyncTyped, DOMAIN run.queue # {}
  PROVE  /\ Head \in DOMAIN run.queue /\ Head \in Ids
         /\ run.queue[Head] \in Memo
         /\ Rest \in Partial(Ids, Memo)
<1>1. run.queue \in Partial(Ids, Memo)
  BY DEF SyncTyped, Runs
<1>2. DOMAIN run.queue \subseteq Ids /\ \A i \in DOMAIN run.queue : run.queue[i] \in Memo
  BY <1>1, PartialMember
<1>3. \A i \in DOMAIN run.queue : run.queue[i].ut \in 0..MaxTime
  BY <1>2 DEF Memo
<1>4. Head \in DOMAIN run.queue
  BY <1>2, <1>3, FirstListed DEF Head
<1> QED
  BY <1>1, <1>2, <1>4, DropPartial DEF Rest

(* A live memo is a memo, and a write to a table leaves a table. *)
LEMMA LiveMemo ==
  ASSUME NEW T \in Table, NEW i \in Live(T)
  PROVE  i \in Ids /\ T[i] \in Memo
BY DEF Table, Live

LEMMA TableWrite ==
  ASSUME NEW T \in Table, NEW i \in Ids, NEW m \in Memo \cup {Fresh, Gone}
  PROVE  [T EXCEPT ![i] = m] \in Table
BY DEF Table

LEMMA TableDelete ==
  ASSUME NEW T \in Table, NEW i \in Live(T)
  PROVE  DeleteMemo(T, i) \in Table
BY TableWrite, LiveMemo DEF DeleteMemo

LEMMA BoundType ==
  ASSUME NEW l \in Ids, NEW rut \in 0..MaxTime, NEW lut \in 0..MaxTime
  PROVE  Bound(l, rut, lut) \in Binding
BY DEF Bound, Binding

(* What a save may leave on disk. *)
LEMMA WritesType ==
  ASSUME SyncTyped
  PROVE  Writes(Saved) \subseteq Disks /\ Writes(SavedWithCursor) \subseteq Disks
<1>1. disk \in Disks /\ run.imported \in SUBSET Ids /\ run.bindings \in Partial(Ids, Binding)
      /\ run.latest \in 0..MaxTime
  BY DEF SyncTyped, Runs
<1>2. Saved \in Disks
  BY <1>1 DEF Disks, Saved
<1>3. SavedWithCursor \in Disks
  BY <1>1, <1>2 DEF Disks, SavedWithCursor
<1>4. ASSUME NEW new \in Disks PROVE Writes(new) \subseteq Disks
  BY <1>1, <1>4 DEF Disks, Writes
<1> QED
  BY <1>2, <1>3, <1>4

(* A run begins, and the metadata are reset, to these. *)
LEMMA IdleType == Idle \in Runs /\ EmptyDisk \in Disks
<1>1. /\ NoMap \in Partial(Ids, Binding) /\ NoMap \in Partial(Ids, Ids)
      /\ NoMap \in Partial(Ids, Memo) /\ NoMap \in Partial(Ids, Texts \X (0..MaxTime))
  BY NoMapPartial
<1>2. EmptyDisk \in Disks
  BY <1>1 DEF EmptyDisk, Disks
<1> DEFINE P == Texts \X (0..MaxTime)
<1>3. Idle \in Runs
  <2>1. NoMap \in Partial(Ids, P)
    BY <1>1
  <2> HIDE DEF P
  <2>2. Idle \in [pc : RunStates, confirm : BOOLEAN, imported : SUBSET Ids,
     bindings : Partial(Ids, Binding), look : Partial(Ids, Ids), queue : Partial(Ids, Memo),
     offset : Nat, pages : Nat, more : BOOLEAN, state : {"NORMAL", "ARCHIVED"},
     floor : 0..MaxTime, latest : 0..MaxTime, stopped : BOOLEAN, complete : BOOLEAN,
     prints : Partial(Ids, P), target : Ids \cup {0},
     mask : SUBSET Fields, seen : SUBSET Ids, todo : SUBSET Ids, orphans : SUBSET Ids,
     deleted : Nat]
    BY <1>1, <2>1 DEF Idle, RunStates
  <2> QED
    BY <2>2 DEF Runs, P
<1> QED
  BY <1>2, <1>3

--------------------------------------------------------------------------------
LEMMA InitTyped == Init => TypeInv
<1> SUFFICES ASSUME Init PROVE TypeInv
  OBVIOUS
<1>1. local \in Table /\ remote \in Table
  BY DEF Init, EmptyTable, Table
<1>2. clock \in 0..MaxTime
  BY DEF Init
<1>2a. asked \in BOOLEAN
  BY Zenon DEF Init
<1>3. disk \in Disks /\ backup \in Disks /\ run \in Runs
  BY IdleType DEF Init
<1>4. ItemInHand
  BY DEF Init, ItemInHand, Idle
<1> QED
  BY <1>1, <1>2, <1>2a, <1>3, <1>4 DEF TypeInv, SyncTyped

(* What the users write, and when. *)
LEMMA StampType ==
  ASSUME SyncTyped, NEW t, Now(t)
  PROVE  t \in 0..MaxTime /\ clock' = t
BY DEF Now, Stamps, SyncTyped

LEMMA NewMemoType ==
  ASSUME NEW text \in Texts, NEW t \in 0..MaxTime
  PROVE  NewMemo(text, t) \in Memo
BY DEF NewMemo, Memo

LEMMA EditedType ==
  ASSUME NEW m \in Memo, NEW f \in EditFields, NEW v \in Values(f), NEW t \in 0..MaxTime
  PROVE  Edited(m, f, v, t) \in Memo
<1>1. f \in {"text", "vis", "pin", "st"}
  OBVIOUS
<1>2. [m EXCEPT ![f] = v] \in Memo
  <2>1. CASE f = "text"
    BY <2>1 DEF Values, Memo
  <2>2. CASE f = "vis"
    BY <2>2 DEF Values, Memo
  <2>3. CASE f = "pin"
    BY <2>3 DEF Values, Memo
  <2>4. CASE f = "st"
    BY <2>4 DEF Values, Memo
  <2> QED
    BY <1>1, <2>1, <2>2, <2>3, <2>4
<1> QED
  BY <1>2, UpdateMemoType DEF Edited

LEMMA UsersTyped ==
  ASSUME TypeInv, LocalUser \/ RemoteUser
  PROVE  TypeInv'
<1>0. SyncTyped /\ ItemInHand
  BY DEF TypeInv
<1>1. CASE LocalCreate
  <2>1. PICK t \in Stamps, text \in Texts \ {Blank} :
          Now(t) /\ local' = [local EXCEPT ![NextId(local)] = NewMemo(text, t)]
    BY <1>1 DEF LocalCreate
  <2>2. t \in 0..MaxTime /\ clock' \in 0..MaxTime
    BY <1>0, <2>1, StampType
  <2>3. local' \in Table
    BY <1>0, <1>1, <2>1, <2>2, NewMemoType, NextIdFresh, TableWrite DEF LocalCreate, SyncTyped
  <2> QED
    BY <1>0, <1>1, <2>2, <2>3 DEF LocalCreate, TypeInv, SyncTyped, ItemInHand, Head
<1>2. CASE LocalEdit
  <2>1. PICK i \in Live(local), t \in Stamps, f \in EditFields :
          \E v \in Values(f) \ {local[i][f]} :
            Now(t) /\ local' = [local EXCEPT ![i] = Edited(@, f, v, t)]
    BY <1>2 DEF LocalEdit
  <2>2. PICK v \in Values(f) : Now(t) /\ local' = [local EXCEPT ![i] = Edited(local[i], f, v, t)]
    BY <2>1
  <2>3. t \in 0..MaxTime /\ clock' \in 0..MaxTime
    BY <1>0, <2>2, StampType
  <2>4. local' \in Table
    BY <1>0, <2>2, <2>3, LiveMemo, EditedType, TableWrite DEF SyncTyped
  <2> QED
    BY <1>0, <1>2, <2>3, <2>4 DEF LocalEdit, TypeInv, SyncTyped, ItemInHand, Head
<1>3. CASE LocalDelete
  <2>1. local' \in Table
    BY <1>0, <1>3, TableDelete DEF LocalDelete, SyncTyped
  <2> QED
    BY <1>0, <1>3, <2>1 DEF LocalDelete, TypeInv, SyncTyped, ItemInHand, Head
<1>4. CASE RemoteCreate
  <2>1. PICK t \in Stamps, text \in Texts \ {Blank} :
          Now(t) /\ remote' = [remote EXCEPT ![NextId(remote)] = NewMemo(text, t)]
    BY <1>4 DEF RemoteCreate
  <2>2. t \in 0..MaxTime /\ clock' \in 0..MaxTime
    BY <1>0, <2>1, StampType
  <2>3. remote' \in Table
    BY <1>0, <1>4, <2>1, <2>2, NewMemoType, NextIdFresh, TableWrite DEF RemoteCreate, SyncTyped
  <2> QED
    BY <1>0, <1>4, <2>2, <2>3 DEF RemoteCreate, TypeInv, SyncTyped, ItemInHand, Head
<1>5. CASE RemoteEdit
  <2>1. PICK i \in Live(remote), t \in Stamps, f \in EditFields :
          \E v \in Values(f) \ {remote[i][f]} :
            Now(t) /\ remote' = [remote EXCEPT ![i] = Edited(@, f, v, t)]
    BY <1>5 DEF RemoteEdit
  <2>2. PICK v \in Values(f) : Now(t) /\ remote' = [remote EXCEPT ![i] = Edited(remote[i], f, v, t)]
    BY <2>1
  <2>3. t \in 0..MaxTime /\ clock' \in 0..MaxTime
    BY <1>0, <2>2, StampType
  <2>4. remote' \in Table
    BY <1>0, <2>2, <2>3, LiveMemo, EditedType, TableWrite DEF SyncTyped
  <2> QED
    BY <1>0, <1>5, <2>3, <2>4 DEF RemoteEdit, TypeInv, SyncTyped, ItemInHand, Head
<1>6. CASE RemoteDelete
  <2>1. remote' \in Table
    BY <1>0, <1>6, TableDelete DEF RemoteDelete, SyncTyped
  <2> QED
    BY <1>0, <1>6, <2>1 DEF RemoteDelete, TypeInv, SyncTyped, ItemInHand, Head
<1> QED
  BY <1>1, <1>2, <1>3, <1>4, <1>5, <1>6 DEF LocalUser, RemoteUser

LEMMA SettingsTyped ==
  ASSUME TypeInv, SettingsPage
  PROVE  TypeInv'
<1>0. SyncTyped /\ ItemInHand
  BY DEF TypeInv
<1>1. disk' \in Disks /\ backup' \in Disks
  <2>1. CASE ResetMetadata
    BY <1>0, <2>1, IdleType DEF ResetMetadata, SyncTyped
  <2>2. CASE ExportMetadata
    BY <1>0, <2>2 DEF ExportMetadata, SyncTyped
  <2>3. CASE ImportMetadata
    BY <1>0, <2>3 DEF ImportMetadata, SyncTyped, Disks
  <2> QED
    BY <2>1, <2>2, <2>3 DEF SettingsPage
<1> QED
  BY <1>0, <1>1 DEF SettingsPage, ResetMetadata, ExportMetadata, ImportMetadata,
                    TypeInv, SyncTyped, ItemInHand, Head
--------------------------------------------------------------------------------
(* Push, action by action. *)
LEMMA StartPushTyped ==
  ASSUME TypeInv, NEW confirm \in BOOLEAN, StartPush(confirm)
  PROVE  TypeInv'
<1>0. SyncTyped
  BY DEF TypeInv
<1>1. PICK look \in Lookups(disk.bindings) :
        run' = [Idle EXCEPT !.pc = "pushList", !.confirm = confirm, !.look = look,
                            !.imported = disk.imported, !.bindings = disk.bindings]
  BY DEF StartPush
<1>2. disk.bindings \in Partial(Ids, Binding) /\ disk.imported \in SUBSET Ids
  BY <1>0 DEF SyncTyped, Disks
<1>3. look \in Partial(Ids, Ids)
  <2>1. \A r \in DOMAIN disk.bindings : r \in Ids /\ disk.bindings[r].local \in Ids
    <3>1. \A r \in DOMAIN disk.bindings : r \in Ids /\ disk.bindings[r] \in Binding
      BY <1>2, PartialValue
    <3> QED
      BY <3>1 DEF Binding
  <2> DEFINE bound == {disk.bindings[r].local : r \in DOMAIN disk.bindings}
  <2>2. bound \subseteq Ids /\ DOMAIN disk.bindings \subseteq Ids
    BY <2>1
  <2>3. look \in [bound -> DOMAIN disk.bindings]
    BY DEF Lookups
  <2> HIDE DEF bound
  <2> QED
    BY <2>2, <2>3, PartialMember
<1>4. run' \in Runs
  <2>1. /\ Idle \in Runs /\ "pushList" \in RunStates /\ confirm \in BOOLEAN
        /\ disk.bindings \in Partial(Ids, Binding) /\ disk.imported \in SUBSET Ids
        /\ look \in Partial(Ids, Ids)
    BY <1>2, <1>3, IdleType DEF RunStates
  <2> HIDE <1>2
  <2> QED
    BY ZenonT(60), <2>1, <1>1 DEF Runs
<1>5. run'.pc = "pushList"
  BY <1>1 DEF Idle
<1>6. asked' \in BOOLEAN
  BY Zenon, <1>0 DEF StartPush, SyncTyped
<1> QED
  BY <1>0, <1>4, <1>5, <1>6 DEF StartPush, TypeInv, SyncTyped, ItemInHand

LEMMA PushListTyped ==
  ASSUME TypeInv, PushList
  PROVE  TypeInv'
<1>0. SyncTyped
  BY DEF TypeInv
<1> DEFINE page == Page(local, Live(local), run.offset, PageSize)
           toPush == {l \in page : local[l].text # Blank /\ ~UpToDate(l)}
           queue == Restrict(local, toPush)
<1>1. page \in SUBSET Ids /\ toPush \in SUBSET Live(local)
  BY DEF Page, Live
<1>2. queue \in Partial(Ids, Memo)
  BY <1>0, <1>1, LiveMemo, RestrictPartial DEF SyncTyped, Live
<1>3. run' = [run EXCEPT !.pc = "pushItem",
                         !.queue = queue,
                         !.seen = @ \cup page,
                         !.pages = @ + 1,
                         !.offset = @ + PageSize,
                         !.more = HasMore(Live(local), run.offset, PageSize)]
  BY DEF PushList
<1>4. HasMore(Live(local), run.offset, PageSize) \in BOOLEAN
  BY SMT DEF HasMore
<1> HIDE DEF page, toPush, queue
<1>5. run' \in Runs
  <2>1. run \in Runs /\ run.pages + 1 \in Nat /\ run.offset + PageSize \in Nat
        /\ run.seen \cup page \in SUBSET Ids
    BY <1>0, <1>1 DEF SyncTyped, Runs
  <2> QED
    BY ZenonT(60), <2>1, <1>2, <1>3, <1>4 DEF Runs, RunStates
<1>6. run'.pc = "pushItem"
  BY <1>0, <1>3 DEF SyncTyped, Runs
<1> QED
  BY <1>0, <1>5, <1>6 DEF PushList, TypeInv, SyncTyped, ItemInHand

(* The bindings and the page of a run in which a memo has been treated. *)
LEMMA BoundNow ==
  ASSUME SyncTyped, NEW r \in Ids, NEW l \in Ids, NEW rut \in 0..MaxTime, NEW lut \in 0..MaxTime
  PROVE  Put(run.bindings, r, Bound(l, rut, lut)) \in Partial(Ids, Binding)
<1>1. run.bindings \in Partial(Ids, Binding)
  BY DEF SyncTyped, Runs
<1> QED
  BY <1>1, BoundType, PutPartial

LEMMA PushUpdateTyped ==
  ASSUME TypeInv, PushUpdate
  PROVE  TypeInv'
<1>0. SyncTyped
  BY DEF TypeInv
<1> DEFINE m == run.queue[Head]
           r == run.look[Head]
           bound == Put(run.bindings, r, Bound(Head, m.ut, m.ut))
<1>1. DOMAIN run.queue # {} /\ run.pc = "pushItem"
  BY DEF PushUpdate, AtItem
<1>2. Head \in Ids /\ m \in Memo /\ Rest \in Partial(Ids, Memo) /\ r \in Ids
  <2>1. run.look \in Partial(Ids, Ids)
    BY <1>0 DEF SyncTyped, Runs
  <2> QED
    BY <1>0, <1>1, <2>1, HeadInQueue, PartialValue DEF PushUpdate
<1>3. bound \in Partial(Ids, Binding)
  BY <1>0, <1>2, BoundNow DEF Memo
<1>4. remote' \in Table
  <2>1. UpdateMemo(remote[r], m, SyncMask, clock) \in Memo
    BY <1>0, <1>2, LiveMemo, UpdateMemoType DEF PushUpdate, SyncTyped
  <2> QED
    BY <1>0, <1>2, <2>1, TableWrite DEF PushUpdate, SyncTyped
<1>5. run' = [run EXCEPT !.queue = Rest, !.bindings = bound, !.imported = @ \cup {r}]
  BY DEF PushUpdate
<1>6. run' \in Runs
  <2>1. run.imported \cup {r} \in SUBSET Ids /\ run \in Runs
    BY <1>0, <1>2 DEF SyncTyped, Runs
  <2> HIDE DEF bound, r, m
  <2> QED
    BY <2>1, <1>2, <1>3, <1>5 DEF Runs
<1>7. run'.pc = "pushItem"
  BY <1>0, <1>1, <1>5 DEF SyncTyped, Runs
<1> QED
  BY <1>0, <1>4, <1>6, <1>7 DEF PushUpdate, TypeInv, SyncTyped, ItemInHand

LEMMA PushUpdateMissingTyped ==
  ASSUME TypeInv, PushUpdateMissing
  PROVE  TypeInv'
<1>0. SyncTyped
  BY DEF TypeInv
<1> DEFINE unbound == Drop(run.bindings, run.look[Head])
           look == Drop(run.look, Head)
<1>1. unbound \in Partial(Ids, Binding) /\ look \in Partial(Ids, Ids)
  BY <1>0, DropPartial DEF SyncTyped, Runs
<1>2. run' = [run EXCEPT !.bindings = unbound, !.look = look]
  BY DEF PushUpdateMissing
<1> HIDE DEF unbound, look
<1>3. run' \in Runs
  BY <1>0, <1>1, <1>2 DEF SyncTyped, Runs
<1>4. run'.pc = "pushItem"
  BY <1>0, <1>2 DEF SyncTyped, Runs, PushUpdateMissing, AtItem
<1> QED
  BY <1>0, <1>3, <1>4 DEF PushUpdateMissing, TypeInv, SyncTyped, ItemInHand

LEMMA PushCreateTyped ==
  ASSUME TypeInv, PushCreate
  PROVE  TypeInv'
<1>0. SyncTyped
  BY DEF TypeInv
<1> DEFINE m == run.queue[Head]
           r == NextId(remote)
           bound == Put(run.bindings, r, Bound(Head, m.ut, m.ut))
           look == Put(run.look, Head, r)
           pc == IF SyncArchived /\ m.st = "ARCHIVED" THEN "pushArchive" ELSE run.pc
<1>1. DOMAIN run.queue # {} /\ run.pc = "pushItem"
  BY DEF PushCreate, AtItem
<1>2. Head \in Ids /\ m \in Memo /\ Rest \in Partial(Ids, Memo) /\ r \in Ids
  BY <1>0, <1>1, HeadInQueue, NextIdFresh DEF PushCreate
<1>3. bound \in Partial(Ids, Binding)
  BY <1>0, <1>2, BoundNow DEF Memo
<1>4. look \in Partial(Ids, Ids)
  BY <1>0, <1>2, PutPartial DEF SyncTyped, Runs
<1>5. remote' \in Table
  BY <1>0, <1>2, CreateMemoType, TableWrite DEF PushCreate, SyncTyped
<1>6. run' = [run EXCEPT !.queue = Rest, !.look = look, !.bindings = bound,
                         !.imported = @ \cup {r}, !.target = r, !.pc = pc]
  BY DEF PushCreate
<1>7. pc \in {"pushItem", "pushArchive"}
  BY <1>1
<1> HIDE DEF bound, look, pc, r, m
<1>8. run' \in Runs
  <2>1. run.imported \cup {r} \in SUBSET Ids /\ run \in Runs
        /\ r \in Ids \cup {0} /\ pc \in RunStates
    BY <1>0, <1>2, <1>7 DEF SyncTyped, Runs, RunStates
  <2> QED
    BY <2>1, <1>2, <1>3, <1>4, <1>6 DEF Runs
<1>9. run'.pc \in {"pushItem", "pushArchive"}
  BY <1>0, <1>6, <1>7 DEF SyncTyped, Runs
<1> QED
  BY <1>0, <1>5, <1>8, <1>9 DEF PushCreate, TypeInv, SyncTyped, ItemInHand

(* Archiving a live memo leaves a memo. *)
LEMMA ArchiveType ==
  ASSUME SyncTyped, NEW m \in Memo
  PROVE  UpdateMemo(m, [m EXCEPT !["st"] = "ARCHIVED"], {"st"}, clock) \in Memo
<1>1. [m EXCEPT !["st"] = "ARCHIVED"] \in Memo
  BY DEF Memo
<1> QED
  BY <1>1, UpdateMemoType DEF SyncTyped

LEMMA PushArchiveTyped ==
  ASSUME TypeInv, PushArchive
  PROVE  TypeInv'
<1>0. SyncTyped
  BY DEF TypeInv
<1>1. remote' \in Table
  <2>1. CASE /\ run.target \in Live(remote)
             /\ remote' = [remote EXCEPT ![run.target] =
                             UpdateMemo(@, [@ EXCEPT !["st"] = "ARCHIVED"], {"st"}, clock)]
    BY <1>0, <2>1, LiveMemo, ArchiveType, TableWrite DEF SyncTyped
  <2>2. CASE UNCHANGED remote
    BY <1>0, <2>2 DEF SyncTyped
  <2> QED
    BY <2>1, <2>2 DEF PushArchive
<1>2. run' = [run EXCEPT !.pc = "pushItem", !.target = 0]
  BY DEF PushArchive
<1>3. run' \in Runs /\ run'.pc = "pushItem"
  BY ZenonT(60), <1>0, <1>2 DEF SyncTyped, Runs, RunStates
<1> QED
  BY <1>0, <1>1, <1>3 DEF PushArchive, TypeInv, SyncTyped, ItemInHand

(* A memo is passed over, by a push or by a pull. *)
LEMMA SkipTyped ==
  ASSUME TypeInv, NEW pc \in {"pushItem", "pullItem"}, NEW refused, Skip(pc, refused)
  PROVE  TypeInv'
<1>0. SyncTyped
  BY DEF TypeInv
<1>1. DOMAIN run.queue # {} /\ run.pc = pc /\ run' = [run EXCEPT !.queue = Rest]
  BY DEF Skip, AtItem
<1>2. run' \in Runs
  BY <1>0, <1>1, HeadInQueue DEF SyncTyped, Runs
<1>3. run'.pc = pc
  BY <1>0, <1>1 DEF SyncTyped, Runs
<1> QED
  BY <1>0, <1>2, <1>3 DEF Skip, TypeInv, SyncTyped, ItemInHand

LEMMA PushPageDoneTyped ==
  ASSUME TypeInv, PushPageDone
  PROVE  TypeInv'
<1>0. SyncTyped
  BY DEF TypeInv
<1>1. disk' \in Disks
  BY <1>0, WritesType DEF PushPageDone
<1>2. run' \in Runs /\ run'.pc \in {"pushList", "pushProbe"}
  <2> DEFINE todo == IF run.more THEN {} ELSE DOMAIN run.look \ run.seen
  <2>1. todo \in SUBSET Ids
    BY <1>0, PartialMember DEF SyncTyped, Runs
  <2>2. \/ run' = [run EXCEPT !.pc = "pushList"]
        \/ run' = [run EXCEPT !.pc = "pushProbe", !.todo = todo]
    BY DEF PushPageDone
  <2> HIDE DEF todo
  <2>3. run \in Runs /\ {"pushList", "pushProbe"} \subseteq RunStates
    BY <1>0 DEF SyncTyped, RunStates
  <2>4. CASE run' = [run EXCEPT !.pc = "pushList"]
    BY <2>3, <2>4 DEF Runs
  <2>5. CASE run' = [run EXCEPT !.pc = "pushProbe", !.todo = todo]
    BY <2>1, <2>3, <2>5 DEF Runs
  <2> QED
    BY <2>2, <2>4, <2>5
<1> QED
  BY <1>0, <1>1, <1>2 DEF PushPageDone, TypeInv, SyncTyped, ItemInHand

LEMMA PushProbeTyped ==
  ASSUME TypeInv, PushProbe
  PROVE  TypeInv'
<1>0. SyncTyped
  BY DEF TypeInv
<1>1. PICK l \in run.todo :
        \/ run' = [run EXCEPT !.todo = @ \ {l},
                              !.orphans = IF local[l] = Gone THEN @ \cup {l} ELSE @]
        \/ run' = [run EXCEPT !.todo = @ \ {l}]
  BY DEF PushProbe
<1>2. run' \in Runs /\ run'.pc = "pushProbe"
  <2> DEFINE orphans == IF local[l] = Gone THEN run.orphans \cup {l} ELSE run.orphans
  <2>1. /\ run \in Runs /\ run.pc = "pushProbe"
        /\ run.todo \ {l} \in SUBSET Ids /\ orphans \in SUBSET Ids
    BY <1>0 DEF PushProbe, SyncTyped, Runs
  <2>2. \/ run' = [run EXCEPT !.todo = @ \ {l}, !.orphans = orphans]
        \/ run' = [run EXCEPT !.todo = @ \ {l}]
    BY <1>1
  <2> HIDE DEF orphans
  <2>3. CASE run' = [run EXCEPT !.todo = @ \ {l}, !.orphans = orphans]
    BY <2>1, <2>3 DEF Runs
  <2>4. CASE run' = [run EXCEPT !.todo = @ \ {l}]
    BY <2>1, <2>4 DEF Runs
  <2> QED
    BY <2>2, <2>3, <2>4
<1> QED
  BY <1>0, <1>2 DEF PushProbe, TypeInv, SyncTyped, ItemInHand

(* A run ends, or stops to ask. *)
LEMMA EndsTyped ==
  ASSUME TypeInv, run' = Idle, UNCHANGED <<local, remote, clock, backup>>,
         disk' \in Disks, asked' \in BOOLEAN
  PROVE  TypeInv'
<1>1. run' \in Runs /\ run'.pc = "idle"
  BY IdleType DEF Idle
<1> QED
  BY <1>1 DEF TypeInv, SyncTyped, ItemInHand

LEMMA StopToAskTyped ==
  ASSUME TypeInv, StopToAsk
  PROVE  TypeInv'
<1>1. asked' \in BOOLEAN
  BY Zenon DEF StopToAsk
<1>2. disk' \in Disks
  BY DEF StopToAsk, TypeInv, SyncTyped
<1> QED
  BY <1>1, <1>2, EndsTyped DEF StopToAsk

LEMMA PushSweepTyped ==
  ASSUME TypeInv, PushSweep
  PROVE  TypeInv'
<1>1. CASE StopToAsk
  BY <1>1, StopToAskTyped
<1>2. CASE /\ run' = [run EXCEPT !.pc = "pushDelete"]
           /\ UNCHANGED <<local, remote, clock, disk, backup, asked>>
  <2>1. run' \in Runs /\ run'.pc = "pushDelete"
    BY <1>2 DEF TypeInv, SyncTyped, Runs, RunStates
  <2> QED
    BY <1>2, <2>1 DEF TypeInv, SyncTyped, ItemInHand
<1> QED
  BY <1>1, <1>2 DEF PushSweep

LEMMA PushDeleteTyped ==
  ASSUME TypeInv, PushDelete
  PROVE  TypeInv'
<1>0. SyncTyped
  BY DEF TypeInv
<1>1. PICK l \in run.orphans :
        LET r == run.look[l]
        IN  \/ /\ remote' = IF r \in Live(remote) THEN DeleteMemo(remote, r) ELSE remote
               /\ run' = [run EXCEPT !.orphans = @ \ {l}, !.deleted = @ + 1,
                                     !.bindings = Drop(@, r), !.look = Drop(@, l),
                                     !.imported = @ \ {r}]
            \/ /\ run' = [run EXCEPT !.orphans = @ \ {l}]
               /\ UNCHANGED remote
  BY DEF PushDelete, RemoteAfterDelete
<1> DEFINE r == run.look[l]
           unbound == Drop(run.bindings, r)
           look == Drop(run.look, l)
<1>2. unbound \in Partial(Ids, Binding) /\ look \in Partial(Ids, Ids)
  BY <1>0, DropPartial DEF SyncTyped, Runs
<1>3. remote' \in Table
  BY <1>0, <1>1, TableDelete DEF SyncTyped
<1>4. run' \in Runs /\ run'.pc = "pushDelete"
  <2>1. \/ run' = [run EXCEPT !.orphans = @ \ {l}, !.deleted = @ + 1, !.bindings = unbound,
                              !.look = look, !.imported = @ \ {r}]
        \/ run' = [run EXCEPT !.orphans = @ \ {l}]
    BY <1>1
  <2> HIDE DEF unbound, look, r
  <2>2. run \in Runs /\ run.pc = "pushDelete"
    BY <1>0 DEF SyncTyped, PushDelete, RemoteAfterDelete
  <2>3. run.deleted + 1 \in Nat /\ run.orphans \ {l} \in SUBSET Ids
        /\ run.imported \ {r} \in SUBSET Ids
    BY <2>2 DEF Runs
  <2>4. CASE run' = [run EXCEPT !.orphans = @ \ {l}]
    BY <2>2, <2>3, <2>4 DEF Runs
  <2>5. CASE run' = [run EXCEPT !.orphans = @ \ {l}, !.deleted = @ + 1,
                               !.bindings = unbound, !.look = look, !.imported = @ \ {r}]
    BY <1>2, <2>2, <2>3, <2>5 DEF Runs
  <2> QED
    BY <2>1, <2>4, <2>5
<1> QED
  BY <1>0, <1>3, <1>4 DEF PushDelete, RemoteAfterDelete, TypeInv, SyncTyped, ItemInHand

LEMMA PushDoneTyped ==
  ASSUME TypeInv, PushDone
  PROVE  TypeInv'
<1>1. disk' \in Disks /\ asked' \in BOOLEAN
  BY WritesType DEF PushDone, TypeInv, SyncTyped
<1> QED
  BY <1>1, EndsTyped DEF PushDone

LEMMA PushTyped ==
  ASSUME TypeInv, Push
  PROVE  TypeInv'
<1>1. CASE PushSkip
  BY <1>1, SkipTyped DEF PushSkip
<1> QED
  BY <1>1, StartPushTyped, PushListTyped, PushUpdateTyped, PushUpdateMissingTyped,
     PushCreateTyped, PushArchiveTyped, PushPageDoneTyped, PushProbeTyped,
     PushSweepTyped, PushDeleteTyped, PushDoneTyped DEF Push

LEMMA AbortTyped ==
  ASSUME TypeInv, Abort
  PROVE  TypeInv'
<1>1. disk' \in Disks /\ asked' \in BOOLEAN
  BY DEF Abort, TypeInv, SyncTyped
<1> QED
  BY <1>1, EndsTyped DEF Abort

--------------------------------------------------------------------------------
(* Pull, action by action. *)
LEMMA StartPullTyped ==
  ASSUME TypeInv, NEW confirm \in BOOLEAN, StartPull(confirm)
  PROVE  TypeInv'
<1>0. SyncTyped
  BY DEF TypeInv
<1> DEFINE P == Texts \X (0..MaxTime)
           known == {l \in Live(local) : local[l].text # Blank}
           prints == [l \in known |-> Fingerprint(local[l])]
           floor == IF MetaMask # {} THEN 0 ELSE disk.cursor
<1>1. prints \in Partial(Ids, P) /\ NoMap \in Partial(Ids, P)
  <2>1. known \subseteq Ids /\ \A l \in known : Fingerprint(local[l]) \in P
    BY <1>0, LiveMemo DEF Memo, Fingerprint, SyncTyped, Live
  <2>2. prints \in [known -> P]
    BY <2>1
  <2> HIDE DEF known, P
  <2> QED
    BY <2>1, <2>2, PartialMember, NoMapPartial
<1>2. PICK loaded \in Partial(Ids, P) :
        run' = [Idle EXCEPT !.pc = "pullList", !.confirm = confirm,
                            !.imported = disk.imported, !.bindings = disk.bindings,
                            !.floor = floor, !.latest = disk.cursor, !.prints = loaded]
  <2>1. PICK loaded \in {prints} \cup (IF RequestsFail THEN {NoMap} ELSE {}) :
        run' = [Idle EXCEPT !.pc = "pullList", !.confirm = confirm,
                            !.imported = disk.imported, !.bindings = disk.bindings,
                            !.floor = floor, !.latest = disk.cursor, !.prints = loaded]
    BY Zenon DEF StartPull
  <2> HIDE DEF prints, P, floor
  <2>2. loaded \in Partial(Ids, P)
    BY <1>1
  <2> QED
    BY <2>1, <2>2
<1>3. run' \in Runs
  <2>1. /\ Idle \in Runs /\ "pullList" \in RunStates /\ confirm \in BOOLEAN
        /\ disk.bindings \in Partial(Ids, Binding) /\ disk.imported \in SUBSET Ids
        /\ disk.cursor \in 0..MaxTime
    BY <1>0, IdleType DEF RunStates, SyncTyped, Disks
  <2>2. floor \in 0..MaxTime
    BY <2>1
  <2> HIDE DEF floor, prints
  <2> QED
    BY ZenonT(60), <2>1, <2>2, <1>2 DEF Runs
<1>4. run'.pc = "pullList"
  BY <1>2 DEF Idle
<1>5. asked' \in BOOLEAN
  BY Zenon DEF StartPull
<1> QED
  BY <1>0, <1>3, <1>4, <1>5 DEF StartPull, TypeInv, SyncTyped, ItemInHand

(* The latest of some times is a time. *)
LEMMA LaterType ==
  ASSUME NEW S \in SUBSET (0..MaxTime), NEW default \in 0..MaxTime
  PROVE  Later(S, default) \in 0..MaxTime
<1>1. S \cup {default} \in SUBSET (0..MaxTime) /\ S \cup {default} # {}
  OBVIOUS
<1>2. \E t \in S \cup {default} : \A u \in S \cup {default} : u <= t
  BY <1>1, GreatestExists
<1>3. Later(S, default) \in S \cup {default}
  BY <1>2 DEF Later
<1> QED
  BY <1>1, <1>3

LEMMA PullListTyped ==
  ASSUME TypeInv, PullList
  PROVE  TypeInv'
<1>0. SyncTyped
  BY DEF TypeInv
<1> DEFINE listed == {r \in Live(remote) : remote[r].st = run.state}
           page == Page(remote, listed, run.offset, PageSize)
           known == {r \in page : run.floor # 0 /\ remote[r].ut <= run.floor}
           read == (page \ known) \cup (IF known = {} THEN {} ELSE {First(Restrict(remote, known))})
           fresh == {r \in page \ known : remote[r].text # Blank}
           queue == Restrict(remote, fresh)
           latest == Later({remote[r].ut : r \in read}, run.latest)
           stopped == known # {}
           more == HasMore(listed, run.offset, PageSize)
<1>1. run' = [run EXCEPT !.pc = "pullItem", !.queue = queue, !.seen = @ \cup read,
                         !.latest = latest, !.stopped = stopped, !.pages = @ + 1,
                         !.offset = @ + PageSize, !.more = more]
  BY DEF PullList, Importable
<1>2. page \subseteq Live(remote) /\ known \subseteq page
  BY DEF Page
<1>3. \A r \in Live(remote) : r \in Ids /\ remote[r] \in Memo /\ remote[r].ut \in 0..MaxTime
  BY <1>0, LiveMemo DEF SyncTyped, Memo
<1> HIDE DEF page, known
<1>4. read \subseteq Live(remote)
  <2> SUFFICES ASSUME known # {} PROVE First(Restrict(remote, known)) \in known
    BY <1>2
  <2>1. DOMAIN Restrict(remote, known) = known
        /\ \A r \in known : Restrict(remote, known)[r] = remote[r]
    BY DEF Restrict
  <2>2. known \subseteq Ids /\ \A r \in known : Restrict(remote, known)[r].ut \in 0..MaxTime
    BY <1>2, <1>3, <2>1
  <2> QED
    BY <2>1, <2>2, FirstListed
<1>5. queue \in Partial(Ids, Memo)
  <2>1. fresh \in SUBSET Ids /\ \A r \in fresh : remote[r] \in Memo
    BY <1>2, <1>3
  <2> HIDE DEF fresh
  <2> QED
    BY <2>1, RestrictPartial
<1> HIDE DEF read, listed
<1>6. latest \in 0..MaxTime
  <2>1. {remote[r].ut : r \in read} \in SUBSET (0..MaxTime)
    BY <1>3, <1>4
  <2>2. run.latest \in 0..MaxTime
    BY <1>0 DEF SyncTyped, Runs
  <2> QED
    BY <2>1, <2>2, LaterType
<1>7. more \in BOOLEAN
  BY SMT DEF HasMore
<1>8. stopped \in BOOLEAN
  OBVIOUS
<1> HIDE DEF queue, latest, stopped, more
<1>9. run' \in Runs
  <2>1. /\ run \in Runs /\ run.pages + 1 \in Nat /\ run.offset + PageSize \in Nat
        /\ run.seen \cup read \in SUBSET Ids /\ "pullItem" \in RunStates
    BY <1>0, <1>3, <1>4 DEF SyncTyped, Runs, RunStates
  <2> DEFINE half == [run EXCEPT !.pc = "pullItem", !.seen = @ \cup read, !.pages = @ + 1,
                                 !.offset = @ + PageSize]
  <2>2. half \in Runs
    BY <2>1 DEF Runs
  <2>3. run' = [half EXCEPT !.queue = queue, !.latest = latest, !.stopped = stopped,
                            !.more = more]
    BY <2>1, <1>1 DEF Runs
  <2> HIDE DEF half
  <2> QED
    BY ZenonT(60), <2>2, <2>3, <1>5, <1>6, <1>7, <1>8 DEF Runs
<1>10. run'.pc = "pullItem"
  BY <1>0, <1>1 DEF SyncTyped, Runs
<1> QED
  BY <1>0, <1>9, <1>10 DEF PullList, Importable, TypeInv, SyncTyped, ItemInHand

(* The memo in hand goes, nothing else: Rest is a page again. *)
LEMMA PassedOver ==
  ASSUME SyncTyped, DOMAIN run.queue # {}, run' = [run EXCEPT !.queue = Rest]
  PROVE  run' \in Runs /\ run'.pc = run.pc
BY HeadInQueue DEF SyncTyped, Runs

LEMMA PullUnchangedTyped ==
  ASSUME TypeInv, PullUnchanged
  PROVE  TypeInv'
<1>0. SyncTyped /\ run.pc = "pullItem" /\ DOMAIN run.queue # {} /\ Head \in DOMAIN run.bindings
  BY DEF TypeInv, PullUnchanged, AtItem, IsBound
<1>1. run' \in Runs /\ ItemInHand'
  <2>1. CASE run' = [run EXCEPT !.pc = "pullRead"]
    <3>1. run' \in Runs
      BY <1>0, <2>1 DEF SyncTyped, Runs, RunStates
    <3>2. run'.queue = run.queue /\ run'.bindings = run.bindings
      BY <1>0, <2>1 DEF SyncTyped, Runs
    <3> QED
      BY <1>0, <3>1, <3>2 DEF ItemInHand, Head
  <2>2. CASE run' = [run EXCEPT !.queue = Rest]
    BY <1>0, <2>2, PassedOver DEF ItemInHand
  <2> QED
    BY <2>1, <2>2 DEF PullUnchanged
<1> QED
  BY <1>0, <1>1 DEF PullUnchanged, TypeInv, SyncTyped

(* Between two requests about a memo, it is in hand and bound. *)
LEMMA InHand ==
  ASSUME TypeInv, run.pc \in {"pullRead", "pullMeta", "pullWrite"}
  PROVE  /\ DOMAIN run.queue # {} /\ Head \in DOMAIN run.bindings /\ Head \in Ids
         /\ run.queue[Head] \in Memo /\ Rest \in Partial(Ids, Memo)
         /\ BoundLocal \in Ids
<1>1. SyncTyped /\ DOMAIN run.queue # {} /\ Head \in DOMAIN run.bindings
  BY DEF TypeInv, ItemInHand
<1>2. run.bindings[Head] \in Binding
  BY <1>1, PartialValue DEF SyncTyped, Runs
<1> QED
  BY <1>1, <1>2, HeadInQueue DEF BoundLocal, Binding

LEMMA PullReadMetaTyped ==
  ASSUME TypeInv, PullReadMeta
  PROVE  TypeInv'
<1>0. SyncTyped /\ run \in Runs /\ run.pc = "pullRead"
  BY DEF TypeInv, SyncTyped, PullReadMeta
<1>1. Differing \in SUBSET Fields
  BY DEF Differing, MetaMask, Fields
<1>2. run' \in Runs /\ ItemInHand'
  <2>1. CASE run' = [run EXCEPT !.pc = "pullItem", !.queue = Rest]
    <3>1. run' \in Runs /\ run'.pc = "pullItem"
      BY ZenonT(60), <1>0, <2>1, InHand DEF Runs, RunStates
    <3> QED
      BY <3>1 DEF ItemInHand
  <2>2. CASE run' = [run EXCEPT !.pc = "pullMeta", !.mask = Differing]
    <3> HIDE DEF Differing
    <3>1. run' \in Runs
      BY ZenonT(60), <1>0, <1>1, <2>2 DEF Runs, RunStates
    <3>2. run'.queue = run.queue /\ run'.bindings = run.bindings
      BY <1>0, <2>2 DEF Runs
    <3> QED
      BY <1>0, <3>1, <3>2, InHand DEF ItemInHand, Head
  <2> QED
    BY <2>1, <2>2 DEF PullReadMeta
<1> QED
  BY <1>0, <1>2 DEF PullReadMeta, TypeInv, SyncTyped

(* A write of the remote memo, or of some of its fields, into the local one. *)
LEMMA MergedType ==
  ASSUME TypeInv, run.pc \in {"pullMeta", "pullWrite"}, BoundLocal \in Live(local), NEW mask
  PROVE  [local EXCEPT ![BoundLocal] = UpdateMemo(@, run.queue[Head], mask, clock)] \in Table
<1>1. local \in Table /\ clock \in 0..MaxTime
  BY DEF TypeInv, SyncTyped
<1>2. UpdateMemo(local[BoundLocal], run.queue[Head], mask, clock) \in Memo
  BY <1>1, InHand, LiveMemo, UpdateMemoType
<1> QED
  BY <1>1, <1>2, InHand, TableWrite

LEMMA PullMetaTyped ==
  ASSUME TypeInv, PullMeta
  PROVE  TypeInv'
<1>0. SyncTyped /\ run \in Runs /\ run.pc = "pullMeta"
  BY DEF TypeInv, SyncTyped, PullMeta
<1>1. local' \in Table
  <2>1. CASE UNCHANGED local
    BY <1>0, <2>1 DEF SyncTyped
  <2> QED
    BY <1>0, <2>1, MergedType DEF PullMeta
<1>2. run' = [run EXCEPT !.pc = "pullItem", !.queue = Rest, !.mask = {}]
  BY DEF PullMeta
<1>3. run' \in Runs /\ run'.pc = "pullItem"
  BY ZenonT(60), <1>0, <1>2, InHand DEF Runs, RunStates
<1> QED
  BY <1>0, <1>1, <1>3 DEF PullMeta, TypeInv, SyncTyped, ItemInHand

LEMMA PullChangedTyped ==
  ASSUME TypeInv, PullChanged
  PROVE  TypeInv'
<1>0. SyncTyped /\ run \in Runs /\ run.pc = "pullItem" /\ DOMAIN run.queue # {}
      /\ Head \in DOMAIN run.bindings
  BY DEF TypeInv, SyncTyped, PullChanged, AtItem, IsBound
<1>1. run' \in Runs /\ ItemInHand'
  <2> DEFINE unbound == Drop(run.bindings, Head)
  <2>1. CASE run' = [run EXCEPT !.bindings = unbound, !.imported = @ \ {Head}]
    <3>1. unbound \in Partial(Ids, Binding) /\ run.imported \ {Head} \in SUBSET Ids
      BY <1>0, DropPartial DEF Runs
    <3> HIDE DEF unbound
    <3>2. run' \in Runs /\ run'.pc = "pullItem"
      BY <1>0, <2>1, <3>1 DEF Runs
    <3> QED
      BY <3>2 DEF ItemInHand
  <2>2. CASE run' = [run EXCEPT !.queue = Rest]
    BY <1>0, <2>2, PassedOver DEF ItemInHand
  <2>3. CASE run' = [run EXCEPT !.pc = "pullWrite"]
    <3>1. run' \in Runs
      BY <1>0, <2>3 DEF Runs, RunStates
    <3>2. run'.queue = run.queue /\ run'.bindings = run.bindings
      BY <1>0, <2>3 DEF Runs
    <3> QED
      BY <1>0, <3>1, <3>2 DEF ItemInHand, Head
  <2> QED
    BY <2>1, <2>2, <2>3 DEF PullChanged
<1> QED
  BY <1>0, <1>1 DEF PullChanged, TypeInv, SyncTyped

LEMMA PullWriteTyped ==
  ASSUME TypeInv, PullWrite
  PROVE  TypeInv'
<1>0. SyncTyped /\ run \in Runs /\ run.pc = "pullWrite"
  BY DEF TypeInv, SyncTyped, PullWrite
<1> DEFINE m == run.queue[Head]
           bound == Put(run.bindings, Head, Bound(BoundLocal, m.ut, m.ut))
<1>1. local' \in Table
  <2>1. CASE UNCHANGED local
    BY <1>0, <2>1 DEF SyncTyped
  <2> QED
    BY <1>0, <2>1, MergedType DEF PullWrite
<1>2. \/ run' = [run EXCEPT !.pc = "pullItem", !.queue = Rest, !.bindings = bound,
                            !.imported = @ \cup {Head}]
      \/ run' = [run EXCEPT !.pc = "pullItem", !.queue = Rest]
  BY DEF PullWrite
<1>3. bound \in Partial(Ids, Binding)
  BY <1>0, InHand, BoundNow DEF Memo
<1> HIDE DEF bound
<1>4. run' \in Runs /\ run'.pc = "pullItem"
  <2>1. CASE run' = [run EXCEPT !.pc = "pullItem", !.queue = Rest]
    BY ZenonT(60), <1>0, <2>1, InHand DEF Runs, RunStates
  <2>2. CASE run' = [run EXCEPT !.pc = "pullItem", !.queue = Rest, !.bindings = bound,
                                !.imported = @ \cup {Head}]
    <3>1. run.imported \cup {Head} \in SUBSET Ids /\ Rest \in Partial(Ids, Memo)
      BY <1>0, InHand DEF Runs
    <3> QED
      BY ZenonT(60), <1>0, <1>3, <2>2, <3>1 DEF Runs, RunStates
  <2> QED
    BY <1>2, <2>1, <2>2
<1> QED
  BY <1>0, <1>1, <1>4 DEF PullWrite, TypeInv, SyncTyped, ItemInHand

LEMMA PullKnownTyped ==
  ASSUME TypeInv, PullKnown
  PROVE  TypeInv'
<1>1. SyncTyped /\ run.pc = "pullItem" /\ DOMAIN run.queue # {}
  BY DEF TypeInv, PullKnown, AtItem
<1>2. run' \in Runs /\ run'.pc = "pullItem"
  BY <1>1, PassedOver DEF PullKnown
<1> QED
  BY <1>1, <1>2 DEF PullKnown, TypeInv, SyncTyped, ItemInHand

LEMMA PullAdoptTyped ==
  ASSUME TypeInv, PullAdopt
  PROVE  TypeInv'
<1>0. SyncTyped /\ run \in Runs /\ run.pc = "pullItem" /\ DOMAIN run.queue # {}
  BY DEF TypeInv, SyncTyped, PullAdopt, IsNew, AtItem
<1>1. PICK l \in Twins :
        run' = [run EXCEPT !.queue = Rest,
                           !.bindings = Put(@, Head, Bound(l, run.queue[Head].ut, 0)),
                           !.imported = @ \cup {Head}]
  BY DEF PullAdopt
<1> DEFINE bound == Put(run.bindings, Head, Bound(l, run.queue[Head].ut, 0))
<1>2. Head \in Ids /\ run.queue[Head] \in Memo /\ Rest \in Partial(Ids, Memo)
  BY <1>0, HeadInQueue
<1>3. l \in Ids
  BY <1>0, PartialValue DEF Twins, Runs
<1>4. bound \in Partial(Ids, Binding)
  <2>1. run.queue[Head].ut \in 0..MaxTime /\ 0 \in 0..MaxTime
    BY <1>2 DEF Memo
  <2> QED
    BY <1>0, <1>2, <1>3, <2>1, BoundNow
<1>5. run' \in Runs /\ run'.pc = "pullItem"
  <2>1. run' = [run EXCEPT !.queue = Rest, !.bindings = bound, !.imported = @ \cup {Head}]
    BY <1>1
  <2> HIDE DEF bound
  <2>2. run.imported \cup {Head} \in SUBSET Ids
    BY <1>0, <1>2 DEF Runs
  <2> QED
    BY <1>0, <1>2, <1>4, <2>1, <2>2 DEF Runs
<1> QED
  BY <1>0, <1>5 DEF PullAdopt, TypeInv, SyncTyped, ItemInHand

LEMMA PullCreateTyped ==
  ASSUME TypeInv, PullCreate
  PROVE  TypeInv'
<1>0. SyncTyped /\ run \in Runs /\ run.pc = "pullItem" /\ DOMAIN run.queue # {}
  BY DEF TypeInv, SyncTyped, PullCreate, IsNew, AtItem
<1> DEFINE P == Texts \X (0..MaxTime)
           m == run.queue[Head]
           l == NextId(local)
           bound == Put(run.bindings, Head, Bound(l, m.ut, m.ut))
           prints == Put(run.prints, l, Fingerprint(m))
           pc == IF SyncArchived /\ m.st = "ARCHIVED" THEN "pullArchive" ELSE run.pc
<1>1. run' = [run EXCEPT !.queue = Rest, !.bindings = bound, !.imported = @ \cup {Head},
                         !.prints = prints, !.target = l, !.pc = pc]
  BY DEF PullCreate
<1>2. Head \in Ids /\ m \in Memo /\ Rest \in Partial(Ids, Memo) /\ l \in Ids
  BY <1>0, HeadInQueue, NextIdFresh DEF PullCreate
<1>3. bound \in Partial(Ids, Binding)
  BY <1>0, <1>2, BoundNow DEF Memo
<1>4. prints \in Partial(Ids, P)
  <2>1. Fingerprint(m) \in P
    BY <1>2 DEF Fingerprint, Memo
  <2> QED
    BY <1>0, <1>2, <2>1, PutPartial DEF Runs
<1>5. local' \in Table
  BY <1>0, <1>2, CreateMemoType, TableWrite DEF PullCreate, SyncTyped
<1>6. pc \in {"pullItem", "pullArchive"}
  BY <1>0
<1> HIDE DEF bound, prints, pc, l, m
<1>7. run' \in Runs
  <2>1. run.imported \cup {Head} \in SUBSET Ids /\ l \in Ids \cup {0} /\ pc \in RunStates
    BY <1>0, <1>2, <1>6 DEF Runs, RunStates
  <2> QED
    BY <2>1, <1>0, <1>1, <1>2, <1>3, <1>4 DEF Runs
<1>8. run'.pc \in {"pullItem", "pullArchive"}
  BY <1>0, <1>1, <1>6 DEF Runs
<1> QED
  BY <1>0, <1>5, <1>7, <1>8 DEF PullCreate, TypeInv, SyncTyped, ItemInHand

LEMMA PullArchiveTyped ==
  ASSUME TypeInv, PullArchive
  PROVE  TypeInv'
<1>0. SyncTyped
  BY DEF TypeInv
<1>1. local' \in Table
  <2>1. CASE /\ run.target \in Live(local)
             /\ local' = [local EXCEPT ![run.target] =
                            UpdateMemo(@, [@ EXCEPT !["st"] = "ARCHIVED"], {"st"}, clock)]
    BY <1>0, <2>1, LiveMemo, ArchiveType, TableWrite DEF SyncTyped
  <2>2. CASE UNCHANGED local
    BY <1>0, <2>2 DEF SyncTyped
  <2> QED
    BY <2>1, <2>2 DEF PullArchive
<1>2. run' = [run EXCEPT !.pc = "pullItem", !.target = 0]
  BY DEF PullArchive
<1>3. run' \in Runs /\ run'.pc = "pullItem"
  BY ZenonT(60), <1>0, <1>2 DEF SyncTyped, Runs, RunStates
<1> QED
  BY <1>0, <1>1, <1>3 DEF PullArchive, TypeInv, SyncTyped, ItemInHand

LEMMA PullPageDoneTyped ==
  ASSUME TypeInv, PullPageDone
  PROVE  TypeInv'
<1>0. SyncTyped /\ run \in Runs
  BY DEF TypeInv, SyncTyped
<1>1. disk' \in Disks
  BY <1>0, WritesType DEF PullPageDone
<1> DEFINE unread == run.more /\ ~run.stopped
           complete == run.complete /\ ~(unread /\ run.pages >= MaxPages)
           todo == IF complete THEN DOMAIN run.bindings \ run.seen ELSE {}
<1>2. \/ run' = [run EXCEPT !.pc = "pullList"]
      \/ run' = [run EXCEPT !.pc = "pullList", !.state = "ARCHIVED", !.offset = 0]
      \/ run' = [run EXCEPT !.pc = "pullProbe", !.complete = complete, !.todo = todo]
  BY DEF PullPageDone
<1>3. complete \in BOOLEAN
  <2>1. run.complete \in BOOLEAN
    BY <1>0 DEF Runs
  <2> HIDE DEF unread
  <2> QED
    BY <2>1
<1>4. todo \in SUBSET Ids
  BY <1>0, PartialMember DEF Runs
<1> HIDE DEF complete, todo
<1>5. run' \in Runs /\ run'.pc \in {"pullList", "pullProbe"}
  <2>1. CASE run' = [run EXCEPT !.pc = "pullList"]
    BY <1>0, <2>1 DEF Runs, RunStates
  <2>2. CASE run' = [run EXCEPT !.pc = "pullList", !.state = "ARCHIVED", !.offset = 0]
    BY ZenonT(60), <1>0, <2>2 DEF Runs, RunStates
  <2>3. CASE run' = [run EXCEPT !.pc = "pullProbe", !.complete = complete, !.todo = todo]
    BY ZenonT(60), <1>0, <1>3, <1>4, <2>3 DEF Runs, RunStates
  <2> QED
    BY <1>2, <2>1, <2>2, <2>3
<1> QED
  BY <1>0, <1>1, <1>5 DEF PullPageDone, TypeInv, SyncTyped, ItemInHand

LEMMA PullProbeTyped ==
  ASSUME TypeInv, PullProbe
  PROVE  TypeInv'
<1>0. SyncTyped
  BY DEF TypeInv
<1>1. PICK r \in run.todo :
        \/ run' = [run EXCEPT !.todo = @ \ {r},
                              !.orphans = IF remote[r] = Gone THEN @ \cup {r} ELSE @]
        \/ run' = [run EXCEPT !.todo = @ \ {r}]
  BY DEF PullProbe, NotFound
<1>2. run' \in Runs /\ run'.pc = "pullProbe"
  <2> DEFINE orphans == IF remote[r] = Gone THEN run.orphans \cup {r} ELSE run.orphans
  <2>1. /\ run \in Runs /\ run.pc = "pullProbe"
        /\ run.todo \ {r} \in SUBSET Ids /\ orphans \in SUBSET Ids
    BY <1>0 DEF PullProbe, NotFound, SyncTyped, Runs
  <2>2. \/ run' = [run EXCEPT !.todo = @ \ {r}, !.orphans = orphans]
        \/ run' = [run EXCEPT !.todo = @ \ {r}]
    BY <1>1
  <2> HIDE DEF orphans
  <2>3. CASE run' = [run EXCEPT !.todo = @ \ {r}, !.orphans = orphans]
    BY <2>1, <2>3 DEF Runs
  <2>4. CASE run' = [run EXCEPT !.todo = @ \ {r}]
    BY <2>1, <2>4 DEF Runs
  <2> QED
    BY <2>2, <2>3, <2>4
<1> QED
  BY <1>0, <1>2 DEF PullProbe, NotFound, TypeInv, SyncTyped, ItemInHand

LEMMA PullSweepTyped ==
  ASSUME TypeInv, PullSweep
  PROVE  TypeInv'
<1>1. CASE StopToAsk
  BY <1>1, StopToAskTyped
<1>2. CASE /\ run' = [run EXCEPT !.pc = "pullDelete"]
           /\ UNCHANGED <<local, remote, clock, disk, backup, asked>>
  <2>1. run' \in Runs /\ run'.pc = "pullDelete"
    BY <1>2 DEF TypeInv, SyncTyped, Runs, RunStates
  <2> QED
    BY <1>2, <2>1 DEF TypeInv, SyncTyped, ItemInHand
<1> QED
  BY <1>1, <1>2 DEF PullSweep

LEMMA PullDeleteTyped ==
  ASSUME TypeInv, PullDelete
  PROVE  TypeInv'
<1>0. SyncTyped
  BY DEF TypeInv
<1>1. PICK r \in run.orphans :
        LET l == run.bindings[r].local
        IN  \/ /\ local' = IF l \in Live(local) THEN DeleteMemo(local, l) ELSE local
               /\ run' = [run EXCEPT !.orphans = @ \ {r}, !.deleted = @ + 1,
                                     !.bindings = Drop(@, r), !.imported = @ \ {r}]
            \/ /\ run' = [run EXCEPT !.orphans = @ \ {r}]
               /\ UNCHANGED local
  BY DEF PullDelete
<1> DEFINE unbound == Drop(run.bindings, r)
<1>2. unbound \in Partial(Ids, Binding)
  BY <1>0, DropPartial DEF SyncTyped, Runs
<1>3. local' \in Table
  BY <1>0, <1>1, TableDelete DEF SyncTyped
<1>4. run' \in Runs /\ run'.pc = "pullDelete"
  <2>1. \/ run' = [run EXCEPT !.orphans = @ \ {r}, !.deleted = @ + 1, !.bindings = unbound,
                              !.imported = @ \ {r}]
        \/ run' = [run EXCEPT !.orphans = @ \ {r}]
    BY <1>1
  <2> HIDE DEF unbound
  <2>2. run \in Runs /\ run.pc = "pullDelete"
    BY <1>0 DEF SyncTyped, PullDelete
  <2>3. run.deleted + 1 \in Nat /\ run.orphans \ {r} \in SUBSET Ids
        /\ run.imported \ {r} \in SUBSET Ids
    BY <2>2 DEF Runs
  <2>4. CASE run' = [run EXCEPT !.orphans = @ \ {r}]
    BY <2>2, <2>3, <2>4 DEF Runs
  <2>5. CASE run' = [run EXCEPT !.orphans = @ \ {r}, !.deleted = @ + 1, !.bindings = unbound,
                               !.imported = @ \ {r}]
    BY <1>2, <2>2, <2>3, <2>5 DEF Runs
  <2> QED
    BY <2>1, <2>4, <2>5
<1> QED
  BY <1>0, <1>3, <1>4 DEF PullDelete, TypeInv, SyncTyped, ItemInHand

LEMMA PullDoneTyped ==
  ASSUME TypeInv, PullDone
  PROVE  TypeInv'
<1>1. disk' \in Disks /\ asked' \in BOOLEAN
  BY WritesType DEF PullDone, TypeInv, SyncTyped
<1> QED
  BY <1>1, EndsTyped DEF PullDone

LEMMA PullTyped ==
  ASSUME TypeInv, Pull
  PROVE  TypeInv'
<1>1. CASE PullSkip
  BY <1>1, SkipTyped DEF PullSkip
<1> QED
  BY <1>1, StartPullTyped, PullListTyped, PullUnchangedTyped, PullReadMetaTyped,
     PullMetaTyped, PullChangedTyped, PullWriteTyped, PullKnownTyped, PullAdoptTyped,
     PullCreateTyped, PullArchiveTyped, PullPageDoneTyped, PullProbeTyped,
     PullSweepTyped, PullDeleteTyped, PullDoneTyped DEF Pull

--------------------------------------------------------------------------------
LEMMA StepTyped == TypeInv /\ [Next]_vars => TypeInv'
<1> SUFFICES ASSUME TypeInv, [Next]_vars PROVE TypeInv'
  OBVIOUS
<1>1. CASE UNCHANGED vars
  BY <1>1 DEF vars, TypeInv, SyncTyped, ItemInHand, Head
<1> QED
  BY <1>1, UsersTyped, SettingsTyped, PushTyped, PullTyped, AbortTyped DEF Next

(* The values of every variable, of the metadata on disk and of a run stay *)
(* what they are meant to be, and a request about the memo in hand always  *)
(* has one.                                                                *)
THEOREM SyncTypeInvariant == Spec => []TypeInv
<1> QED
  BY InitTyped, StepTyped, PTL DEF Spec

LEMMA TypeInvMeansTypeOK == TypeInv => TypeOK
<1> SUFFICES ASSUME TypeInv PROVE TypeOK
  OBVIOUS
<1>0. SyncTyped
  BY DEF TypeInv
<1>1. ASSUME NEW S, NEW R, NEW f \in Partial(S, R) PROVE IsMap(f, S, R)
  BY <1>1, PartialMember DEF IsMap
<1>2. /\ disk.imported \subseteq Ids /\ disk.bindings \in Partial(Ids, Binding)
      /\ disk.cursor \in 0..MaxTime
      /\ backup.imported \subseteq Ids /\ backup.bindings \in Partial(Ids, Binding)
      /\ backup.cursor \in 0..MaxTime
  BY <1>0 DEF SyncTyped, Disks
<1>3. run \in Runs
  BY <1>0 DEF SyncTyped
<1>4. \A d \in {disk, backup} :
        d.imported \subseteq Ids /\ IsMap(d.bindings, Ids, Binding) /\ d.cursor \in 0..MaxTime
  BY <1>1, <1>2
<1>5. {run.confirm, run.more, run.stopped, run.complete} \subseteq BOOLEAN
  BY <1>3 DEF Runs
<1>6. /\ IsMap(run.bindings, Ids, Binding) /\ IsMap(run.look, Ids, Ids)
      /\ IsMap(run.queue, Ids, Memo) /\ IsMap(run.prints, Ids, Texts \X (0..MaxTime))
  BY <1>1, <1>3 DEF Runs
<1>7. /\ {run.offset, run.pages, run.deleted} \subseteq Nat
      /\ {run.floor, run.latest} \subseteq 0..MaxTime
      /\ run.state \in {"NORMAL", "ARCHIVED"} /\ run.target \in Ids \cup {0}
      /\ run.mask \subseteq Fields /\ run.pc \in RunStates
      /\ run.imported \cup run.seen \cup run.todo \cup run.orphans \subseteq Ids
  BY <1>3 DEF Runs
<1> QED
  BY <1>0, <1>4, <1>5, <1>6, <1>7 DEF TypeOK, SyncTyped

(* The type invariant of the runs, for any tables and any bounds.          *)
THEOREM TypeCorrect == Spec => []TypeOK
<1> QED
  BY SyncTypeInvariant, TypeInvMeansTypeOK, PTL

--------------------------------------------------------------------------------
(* Beyond the types: the states of a run, and what is known of them.       *)
PushWork == {"pushList", "pushItem", "pushArchive"}
PullWork == {"pullList", "pullItem", "pullRead", "pullMeta", "pullWrite", "pullArchive"}
PushStates == PushWork \cup {"pushProbe", "pushDelete"}
PullStates == PullWork \cup {"pullProbe", "pullDelete"}

(* Keys of remote memos that exist or have existed. *)
Known(B) == \A r \in DOMAIN B : remote[r] # Fresh
BindingsKnown == Known(disk.bindings) /\ Known(backup.bindings) /\ Known(run.bindings)

PullInv ==
    run.pc \in PullStates =>
      DOMAIN run.look = {} /\ \A r \in DOMAIN run.queue : remote[r] # Fresh

SweepInv ==
    run.pc \in PushStates =>
      /\ run.orphans \subseteq DOMAIN run.look
      /\ \A l \in run.orphans : local[l] = Gone
      /\ run.pc \in PushWork => run.orphans = {}
      /\ run.pc = "pushProbe" => run.todo \subseteq DOMAIN run.look

CountInv ==
    /\ run.pc \notin {"pushDelete", "pullDelete"} => run.deleted = 0
    /\ run.pc \in {"pushDelete", "pullDelete"} =>
         run.confirm \/ Cardinality(run.orphans) + run.deleted <= Threshold

SyncInv == BindingsKnown /\ PullInv /\ LookupsMatch /\ SweepInv /\ CountInv

--------------------------------------------------------------------------------
(* What a step does to a table: what has been handed out stays so, what is *)
(* gone stays gone, and most steps delete nothing.                         *)
Grows(T, U) ==
    \A i \in Ids : (T[i] # Fresh => U[i] # Fresh) /\ (T[i] = Gone => U[i] = Gone)
Spares(T, U) == \A i \in Ids : T[i] # Gone => U[i] # Gone

LEMMA WriteKeeps ==
  ASSUME NEW T \in Table, NEW i \in Ids, T[i] # Gone, NEW m \in Memo
  PROVE  Grows(T, [T EXCEPT ![i] = m]) /\ Spares(T, [T EXCEPT ![i] = m])
<1>1. m # Fresh /\ m # Gone
  BY FreshGoneAreNoMemos
<1> QED
  BY <1>1 DEF Grows, Spares, Table

LEMMA DeleteKeeps ==
  ASSUME NEW T \in Table, NEW i
  PROVE  Grows(T, DeleteMemo(T, i))
BY DEF Grows, DeleteMemo, Table

LEMMA SameKeeps == ASSUME NEW T PROVE Grows(T, T) /\ Spares(T, T)
BY DEF Grows, Spares

LEMMA LiveIsNotGone ==
  ASSUME NEW T, NEW i \in Live(T)
  PROVE  i \in Ids /\ T[i] # Gone /\ T[i] # Fresh
BY DEF Live

LEMMA CreationKeeps ==
  ASSUME NEW T \in Table, Unused(T) # {}, NEW m \in Memo
  PROVE  LET U == [T EXCEPT ![NextId(T)] = m]
         IN  Grows(T, U) /\ Spares(T, U) /\ U[NextId(T)] # Fresh
<1>1. NextId(T) \in Ids /\ T[NextId(T)] # Gone
  BY NextIdFresh
<1>2. m # Fresh
  BY FreshGoneAreNoMemos
<1> QED
  BY <1>1, <1>2, WriteKeeps DEF Table

LEMMA UserEffects ==
  ASSUME TypeInv, LocalUser \/ RemoteUser
  PROVE  Grows(local, local') /\ Grows(remote, remote')
<1>0. SyncTyped /\ local \in Table /\ remote \in Table
  BY DEF TypeInv, SyncTyped
<1>1. CASE LocalCreate
  <2>1. PICK t \in Stamps, text \in Texts \ {Blank} :
          Now(t) /\ local' = [local EXCEPT ![NextId(local)] = NewMemo(text, t)]
    BY <1>1 DEF LocalCreate
  <2>2. NewMemo(text, t) \in Memo
    BY <1>0, <2>1, StampType, NewMemoType
  <2> QED
    BY <1>0, <1>1, <2>1, <2>2, CreationKeeps, SameKeeps DEF LocalCreate
<1>2. CASE LocalEdit
  <2>1. PICK i \in Live(local), t \in Stamps, f \in EditFields :
          \E v \in Values(f) \ {local[i][f]} :
            Now(t) /\ local' = [local EXCEPT ![i] = Edited(@, f, v, t)]
    BY <1>2 DEF LocalEdit
  <2>2. PICK v \in Values(f) : Now(t) /\ local' = [local EXCEPT ![i] = Edited(local[i], f, v, t)]
    BY <2>1
  <2>3. Edited(local[i], f, v, t) \in Memo
    BY <1>0, <2>2, StampType, LiveMemo, EditedType
  <2> QED
    BY <1>0, <1>2, <2>2, <2>3, LiveIsNotGone, WriteKeeps, SameKeeps DEF LocalEdit
<1>3. CASE LocalDelete
  BY <1>0, <1>3, DeleteKeeps, SameKeeps DEF LocalDelete
<1>4. CASE RemoteCreate
  <2>1. PICK t \in Stamps, text \in Texts \ {Blank} :
          Now(t) /\ remote' = [remote EXCEPT ![NextId(remote)] = NewMemo(text, t)]
    BY <1>4 DEF RemoteCreate
  <2>2. NewMemo(text, t) \in Memo
    BY <1>0, <2>1, StampType, NewMemoType
  <2> QED
    BY <1>0, <1>4, <2>1, <2>2, CreationKeeps, SameKeeps DEF RemoteCreate
<1>5. CASE RemoteEdit
  <2>1. PICK i \in Live(remote), t \in Stamps, f \in EditFields :
          \E v \in Values(f) \ {remote[i][f]} :
            Now(t) /\ remote' = [remote EXCEPT ![i] = Edited(@, f, v, t)]
    BY <1>5 DEF RemoteEdit
  <2>2. PICK v \in Values(f) : Now(t) /\ remote' = [remote EXCEPT ![i] = Edited(remote[i], f, v, t)]
    BY <2>1
  <2>3. Edited(remote[i], f, v, t) \in Memo
    BY <1>0, <2>2, StampType, LiveMemo, EditedType
  <2> QED
    BY <1>0, <1>5, <2>2, <2>3, LiveIsNotGone, WriteKeeps, SameKeeps DEF RemoteEdit
<1>6. CASE RemoteDelete
  BY <1>0, <1>6, DeleteKeeps, SameKeeps DEF RemoteDelete
<1> QED
  BY <1>1, <1>2, <1>3, <1>4, <1>5, <1>6 DEF LocalUser, RemoteUser

LEMMA PushEffects ==
  ASSUME TypeInv, Push
  PROVE  /\ local' = local
         /\ Grows(remote, remote')
         /\ Spares(remote, remote') \/ PushDelete
<1>0. SyncTyped /\ remote \in Table /\ clock \in 0..MaxTime
  BY DEF TypeInv, SyncTyped
<1>1. CASE PushUpdate
  <2> DEFINE r == run.look[Head]
             m == UpdateMemo(remote[r], run.queue[Head], SyncMask, clock)
  <2>1. r \in Live(remote) /\ remote' = [remote EXCEPT ![r] = m] /\ DOMAIN run.queue # {}
    BY <1>1 DEF PushUpdate, AtItem
  <2>2. m \in Memo
    BY <1>0, <2>1, HeadInQueue, LiveMemo, UpdateMemoType
  <2>3. local' = local
    BY <1>1 DEF PushUpdate
  <2> HIDE DEF m, r
  <2>4. r \in Ids /\ remote[r] # Gone
    BY <2>1, LiveIsNotGone
  <2> QED
    BY <1>0, <2>1, <2>2, <2>3, <2>4, WriteKeeps
<1>2. CASE PushCreate
  <2>1. CreateMemo(run.queue[Head]) \in Memo
    BY <1>0, <1>2, HeadInQueue, CreateMemoType DEF PushCreate, AtItem
  <2> QED
    BY <1>0, <1>2, <2>1, CreationKeeps DEF PushCreate
<1>3. CASE PushArchive
  <2>1. CASE UNCHANGED remote
    BY <1>3, <2>1, SameKeeps DEF PushArchive
  <2>2. CASE /\ run.target \in Live(remote)
             /\ remote' = [remote EXCEPT ![run.target] =
                             UpdateMemo(@, [@ EXCEPT !["st"] = "ARCHIVED"], {"st"}, clock)]
    <3>1. UpdateMemo(remote[run.target], [remote[run.target] EXCEPT !["st"] = "ARCHIVED"],
                     {"st"}, clock) \in Memo
      BY <1>0, <2>2, LiveMemo, ArchiveType
    <3> QED
      BY <1>0, <1>3, <2>2, <3>1, LiveIsNotGone, WriteKeeps DEF PushArchive
  <2> QED
    BY <1>3, <2>1, <2>2 DEF PushArchive
<1>4. CASE PushDelete
  <2>1. local' = local /\ \E r : remote' = remote \/ remote' = DeleteMemo(remote, r)
    BY <1>4 DEF PushDelete, RemoteAfterDelete
  <2> QED
    BY <1>0, <1>4, <2>1, DeleteKeeps, SameKeeps
<1>5. CASE UNCHANGED <<local, remote>>
  BY <1>5, SameKeeps
<1> QED
  BY <1>1, <1>2, <1>3, <1>4, <1>5 DEF Push, StartPush, PushList, PushUpdateMissing, PushSkip,
     Skip, PushPageDone, PushProbe, PushSweep, StopToAsk, PushDone

LEMMA PullEffects ==
  ASSUME TypeInv, Pull
  PROVE  /\ remote' = remote
         /\ Grows(local, local')
         /\ Spares(local, local') \/ PullDelete
<1>0. SyncTyped /\ local \in Table /\ clock \in 0..MaxTime
  BY DEF TypeInv, SyncTyped
<1>1. ASSUME run.pc \in {"pullMeta", "pullWrite"}, BoundLocal \in Live(local), NEW mask
      PROVE  LET U == [local EXCEPT ![BoundLocal] =
                         UpdateMemo(@, run.queue[Head], mask, clock)]
             IN  Grows(local, U) /\ Spares(local, U)
  <2>1. UpdateMemo(local[BoundLocal], run.queue[Head], mask, clock) \in Memo
    BY <1>0, <1>1, InHand, LiveMemo, UpdateMemoType
  <2> QED
    BY <1>0, <1>1, <2>1, LiveIsNotGone, WriteKeeps
<1>2. CASE PullMeta
  BY <1>1, <1>2, SameKeeps DEF PullMeta
<1>3. CASE PullWrite
  BY <1>1, <1>3, SameKeeps DEF PullWrite
<1>4. CASE PullCreate
  <2>1. CreateMemo(run.queue[Head]) \in Memo
    BY <1>0, <1>4, HeadInQueue, CreateMemoType DEF PullCreate, IsNew, AtItem
  <2> QED
    BY <1>0, <1>4, <2>1, CreationKeeps DEF PullCreate
<1>5. CASE PullArchive
  <2>1. CASE UNCHANGED local
    BY <1>5, <2>1, SameKeeps DEF PullArchive
  <2>2. CASE /\ run.target \in Live(local)
             /\ local' = [local EXCEPT ![run.target] =
                            UpdateMemo(@, [@ EXCEPT !["st"] = "ARCHIVED"], {"st"}, clock)]
    <3>1. UpdateMemo(local[run.target], [local[run.target] EXCEPT !["st"] = "ARCHIVED"],
                     {"st"}, clock) \in Memo
      BY <1>0, <2>2, LiveMemo, ArchiveType
    <3> QED
      BY <1>0, <1>5, <2>2, <3>1, LiveIsNotGone, WriteKeeps DEF PullArchive
  <2> QED
    BY <1>5, <2>1, <2>2 DEF PullArchive
<1>6. CASE PullDelete
  <2>1. remote' = remote /\ \E l : local' = local \/ local' = DeleteMemo(local, l)
    BY <1>6 DEF PullDelete
  <2> QED
    BY <1>0, <1>6, <2>1, DeleteKeeps, SameKeeps
<1>7. CASE UNCHANGED <<local, remote>>
  BY <1>7, SameKeeps
<1> QED
  BY <1>2, <1>3, <1>4, <1>5, <1>6, <1>7 DEF Pull, StartPull, PullList, Importable, PullUnchanged,
     PullReadMeta, PullChanged, PullKnown, PullAdopt, PullSkip, Skip, PullPageDone, PullProbe, NotFound,
     PullSweep, StopToAsk, PullDone

--------------------------------------------------------------------------------
(* What every step keeps: both tables grow, and the bindings of disk and   *)
(* of backup come from bindings that were known.                           *)
Kept ==
    /\ Grows(local, local') /\ Grows(remote, remote')
    /\ Known(disk.bindings)' /\ Known(backup.bindings)'
    /\ \A r \in DOMAIN run.bindings \cup DOMAIN disk.bindings : remote'[r] # Fresh

LEMMA StoredBindings ==
  ASSUME TypeInv, [Next]_vars
  PROVE  /\ disk'.bindings \in {disk.bindings, backup.bindings, run.bindings, NoMap}
         /\ backup'.bindings \in {disk.bindings, backup.bindings}
<1>0. disk \in Disks /\ backup \in Disks
  BY DEF TypeInv, SyncTyped
<1>1. ASSUME NEW new \in {Saved, SavedWithCursor}, disk' \in Writes(new)
      PROVE  disk'.bindings \in {disk.bindings, run.bindings}
  <2>1. new.bindings = run.bindings /\ "bindings" \in DOMAIN new
    BY <1>0, <1>1 DEF Saved, SavedWithCursor, Disks
  <2>2. disk' = new \/ disk' = [new EXCEPT !.bindings = disk.bindings]
    BY <1>1 DEF Writes
  <2> QED
    BY <2>1, <2>2
<1>3. CASE ImportMetadata
  BY <1>0, <1>3 DEF ImportMetadata, Disks
<1>4. CASE ExportMetadata
  <2>1. disk' = disk /\ backup' = disk
    BY <1>4 DEF ExportMetadata
  <2> QED
    BY <2>1
<1>5. CASE \/ disk' \in Writes(Saved) /\ backup' = backup
           \/ disk' \in Writes(SavedWithCursor) /\ backup' = backup
  BY <1>1, <1>5
<1>6. CASE disk' = disk /\ backup' = backup
  BY <1>6
<1>7. CASE Push
  BY ZenonT(60), <1>5, <1>6, <1>7 DEF Push, StartPush, PushList, PushUpdate, PushUpdateMissing, PushCreate,
     PushArchive, PushSkip, Skip, PushPageDone, PushProbe, PushSweep, StopToAsk, PushDelete, RemoteAfterDelete,
     PushDone
<1>8. CASE Pull
  BY <1>5, <1>6, <1>8 DEF Pull, StartPull, PullList, Importable, PullUnchanged, PullReadMeta, PullMeta,
     PullChanged, PullWrite, PullKnown, PullAdopt, PullCreate, PullArchive, PullSkip, Skip,
     PullPageDone, PullProbe, NotFound, PullSweep, StopToAsk, PullDelete, PullDone
<1>9. CASE LocalUser \/ RemoteUser \/ Abort \/ UNCHANGED vars
  BY <1>6, <1>9 DEF LocalUser, LocalCreate, LocalEdit, LocalDelete, RemoteUser, RemoteCreate,
     RemoteEdit, RemoteDelete, Abort, vars
<1>10. CASE ResetMetadata
  BY <1>10 DEF ResetMetadata, EmptyDisk
<1> QED
  BY <1>3, <1>4, <1>7, <1>8, <1>9, <1>10 DEF Next, SettingsPage

LEMMA StepKeeps ==
  ASSUME TypeInv, BindingsKnown, [Next]_vars
  PROVE  Kept
<1>1. Grows(local, local') /\ Grows(remote, remote')
  <2>1. CASE SettingsPage \/ Abort \/ UNCHANGED vars
    BY <2>1, SameKeeps DEF SettingsPage, ResetMetadata, ExportMetadata, ImportMetadata, Abort, vars
  <2>2. CASE LocalUser \/ RemoteUser
    BY <2>2, UserEffects
  <2>3. CASE Push
    BY <2>3, PushEffects, SameKeeps
  <2>4. CASE Pull
    BY <2>4, PullEffects, SameKeeps
  <2> QED
    BY <2>1, <2>2, <2>3, <2>4 DEF Next
<1>2. ASSUME NEW B \in {disk.bindings, backup.bindings, run.bindings, NoMap}
      PROVE  \A r \in DOMAIN B : remote'[r] # Fresh
  <2>1. B \in Partial(Ids, Binding) /\ Known(B)
    BY NoMapPartial DEF BindingsKnown, Known, NoMap, TypeInv, SyncTyped, Disks, Runs
  <2> QED
    BY <1>1, <2>1, PartialMember DEF Known, Grows
<1> QED
  BY <1>1, <1>2, StoredBindings DEF Kept, Known

(* A step that leaves the run alone. *)
LEMMA RunAlone ==
  ASSUME TypeInv, SyncInv, Kept, run' = run
  PROVE  SyncInv'
<1>1. run.queue \in Partial(Ids, Memo) /\ run.orphans \subseteq Ids
  BY DEF TypeInv, SyncTyped, Runs
<1>2. BindingsKnown'
  BY DEF BindingsKnown, Known, Kept
<1>3. PullInv'
  BY <1>1, PartialMember DEF SyncInv, PullInv, Kept, Grows
<1>4. LookupsMatch' /\ CountInv'
  BY DEF SyncInv, LookupsMatch, CountInv
<1>5. SweepInv'
  BY <1>1 DEF SyncInv, SweepInv, Kept, Grows
<1> QED
  BY <1>2, <1>3, <1>4, <1>5 DEF SyncInv

(* A step that ends the run. *)
LEMMA RunEnds ==
  ASSUME Kept, run' = Idle
  PROVE  SyncInv'
<1>1. /\ run'.pc = "idle" /\ DOMAIN run'.bindings = {} /\ DOMAIN run'.look = {}
      /\ run'.deleted = 0
  BY DEF Idle, NoMap
<1> QED
  BY <1>1 DEF SyncInv, BindingsKnown, Known, Kept, PullInv, LookupsMatch, SweepInv, CountInv,
     PushStates, PushWork, PullStates, PullWork

(* A step at work on the memos: sweep and deletions are still to come.     *)
LEMMA PushWorks ==
  ASSUME Kept, run.pc \in PushWork, SyncInv, run'.pc \in PushWork,
         run'.orphans = run.orphans, run'.deleted = run.deleted,
         \A r \in DOMAIN run'.bindings : r \in DOMAIN run.bindings \/ remote'[r] # Fresh,
         LookupsMatch'
  PROVE  SyncInv'
<1>1. run.orphans = {} /\ run.deleted = 0
  BY DEF SyncInv, SweepInv, CountInv, PushStates, PushWork
<1>2. BindingsKnown'
  BY DEF BindingsKnown, Known, Kept
<1>3. PullInv' /\ SweepInv' /\ CountInv'
  BY <1>1 DEF PullInv, SweepInv, CountInv, PushWork, PullStates, PullWork
<1> QED
  BY <1>2, <1>3 DEF SyncInv

LEMMA PullWorks ==
  ASSUME Kept, run.pc \in PullWork, SyncInv, run'.pc \in PullWork,
         run'.look = run.look, run'.deleted = run.deleted,
         \A r \in DOMAIN run'.queue : remote'[r] # Fresh,
         \A r \in DOMAIN run'.bindings : r \in DOMAIN run.bindings \/ remote'[r] # Fresh
  PROVE  SyncInv'
<1>1. DOMAIN run.look = {} /\ run.deleted = 0
  BY DEF SyncInv, PullInv, CountInv, PullStates, PullWork
<1>2. BindingsKnown'
  BY DEF BindingsKnown, Known, Kept
<1>3. PullInv' /\ SweepInv' /\ CountInv' /\ LookupsMatch'
  BY <1>1 DEF PullInv, SweepInv, CountInv, LookupsMatch, PushStates, PushWork, PullWork
<1> QED
  BY <1>2, <1>3 DEF SyncInv

(* Orphans are finitely many, and one that is taken is counted. *)
LEMMA OrphansCounted ==
  ASSUME NEW S \in SUBSET Ids
  PROVE  /\ Cardinality(S) \in Nat
         /\ \A x \in S : Cardinality(S \ {x}) = Cardinality(S) - 1
<1>1. IsFiniteSet(Ids)
  BY FS_Interval DEF Ids
<1>2. IsFiniteSet(S)
  BY <1>1, FS_Subset
<1> QED
  BY <1>2, FS_CardinalityType, FS_RemoveElement

--------------------------------------------------------------------------------
(* Push. *)
LEMMA StartPushKeeps ==
  ASSUME TypeInv, SyncInv, Kept, NEW confirm \in BOOLEAN, StartPush(confirm)
  PROVE  SyncInv'
<1>1. PICK look \in Lookups(disk.bindings) :
        run' = [Idle EXCEPT !.pc = "pushList", !.confirm = confirm, !.look = look,
                            !.imported = disk.imported, !.bindings = disk.bindings]
  BY DEF StartPush
<1>2. /\ run'.pc = "pushList" /\ run'.look = look /\ run'.bindings = disk.bindings
      /\ run'.orphans = {} /\ run'.deleted = 0
  BY <1>1 DEF Idle
<1>3. BindingsKnown'
  BY <1>2 DEF BindingsKnown, Known, Kept
<1>4. LookupsMatch'
  <2> DEFINE bound == {disk.bindings[r].local : r \in DOMAIN disk.bindings}
  <2>1. look \in [bound -> DOMAIN disk.bindings]
        /\ \A l \in bound : disk.bindings[look[l]].local = l
    BY DEF Lookups
  <2> HIDE DEF bound
  <2>2. \A l \in DOMAIN look :
          look[l] \in DOMAIN disk.bindings /\ disk.bindings[look[l]].local = l
    BY <2>1
  <2> QED
    BY <1>2, <2>2 DEF LookupsMatch
<1>5. PullInv' /\ SweepInv' /\ CountInv'
  BY <1>2 DEF PullInv, SweepInv, CountInv, PullStates, PullWork
<1> QED
  BY <1>3, <1>4, <1>5 DEF SyncInv

(* LookupsMatch says this of the lookup and the bindings of the run.       *)
Matches(b, look) ==
    \A l \in DOMAIN look : look[l] \in DOMAIN b /\ b[look[l]].local = l

(* A lookup that is put beside its binding, or goes with it, leaves the    *)
(* others as they are.                                                     *)
LEMMA PairPut ==
  ASSUME NEW b, NEW look, Matches(b, look), NEW l, NEW r, NEW rut, NEW lut,
         l \in DOMAIN look => look[l] = r,
         l \notin DOMAIN look => r \notin DOMAIN b
  PROVE  Matches(Put(b, r, Bound(l, rut, lut)), Put(look, l, r))
BY DEF Matches, Put, Bound

LEMMA PairDropped ==
  ASSUME NEW b, NEW look, Matches(b, look), NEW l \in DOMAIN look
  PROVE  /\ Matches(Drop(b, look[l]), Drop(look, l))
         /\ DOMAIN Drop(look, l) = DOMAIN look \ {l}
         /\ DOMAIN Drop(b, look[l]) \subseteq DOMAIN b
BY DEF Matches, Drop, Restrict

LEMMA PushUpdateKeeps ==
  ASSUME TypeInv, SyncInv, Kept, PushUpdate
  PROVE  SyncInv'
<1> DEFINE m == run.queue[Head]
           r == run.look[Head]
<1>0. run \in Runs /\ run.pc = "pushItem" /\ Head \in DOMAIN run.look /\ LookupsMatch
  BY DEF TypeInv, SyncTyped, PushUpdate, AtItem, SyncInv
<1>1. run' = [run EXCEPT !.queue = Rest, !.bindings = Put(@, r, Bound(Head, m.ut, m.ut)),
                         !.imported = @ \cup {r}]
  BY DEF PushUpdate
<1>2. /\ run'.pc = "pushItem" /\ run'.look = run.look
      /\ run'.orphans = run.orphans /\ run'.deleted = run.deleted
      /\ run'.bindings = Put(run.bindings, r, Bound(Head, m.ut, m.ut))
  BY <1>0, <1>1 DEF Runs
<1>3. r \in DOMAIN run.bindings
  BY <1>0 DEF LookupsMatch
<1>4. DOMAIN run'.bindings = DOMAIN run.bindings
  BY <1>2, <1>3 DEF Put
<1>5. LookupsMatch'
  BY <1>0, <1>2, <1>3 DEF LookupsMatch, Put, Bound
<1> QED
  BY <1>0, <1>2, <1>4, <1>5, PushWorks DEF PushWork

LEMMA PushUpdateMissingKeeps ==
  ASSUME TypeInv, SyncInv, Kept, PushUpdateMissing
  PROVE  SyncInv'
<1>0. run \in Runs /\ run.pc = "pushItem" /\ Head \in DOMAIN run.look /\ LookupsMatch
  BY DEF TypeInv, SyncTyped, PushUpdateMissing, AtItem, SyncInv
<1>1. /\ run'.pc = "pushItem" /\ run'.orphans = run.orphans /\ run'.deleted = run.deleted
      /\ run'.look = Drop(run.look, Head)
      /\ run'.bindings = Drop(run.bindings, run.look[Head])
  BY <1>0 DEF PushUpdateMissing, Runs
<1>2. LookupsMatch' /\ DOMAIN run'.bindings \subseteq DOMAIN run.bindings
  <2>1. Matches(run.bindings, run.look)
    BY <1>0 DEF LookupsMatch, Matches
  <2>2. /\ Matches(Drop(run.bindings, run.look[Head]), Drop(run.look, Head))
        /\ DOMAIN Drop(run.bindings, run.look[Head]) \subseteq DOMAIN run.bindings
    BY <1>0, <2>1, PairDropped, Zenon
  <2> QED
    BY <1>1, <2>2 DEF LookupsMatch, Matches
<1> QED
  BY <1>0, <1>1, <1>2, PushWorks DEF PushWork

LEMMA PushCreateKeeps ==
  ASSUME TypeInv, SyncInv, Kept, PushCreate
  PROVE  SyncInv'
<1> DEFINE m == run.queue[Head]
           r == NextId(remote)
           pc == IF SyncArchived /\ m.st = "ARCHIVED" THEN "pushArchive" ELSE run.pc
<1>0. run \in Runs /\ run.pc = "pushItem" /\ Head \notin DOMAIN run.look /\ LookupsMatch
      /\ remote \in Table /\ DOMAIN run.queue # {} /\ SyncTyped
  BY DEF TypeInv, SyncTyped, PushCreate, AtItem, SyncInv
<1>1. run' = [run EXCEPT !.queue = Rest, !.look = Put(@, Head, r),
                         !.bindings = Put(@, r, Bound(Head, m.ut, m.ut)),
                         !.imported = @ \cup {r}, !.target = r, !.pc = pc]
  BY DEF PushCreate
<1>2. pc \in PushWork
  BY <1>0 DEF PushWork
<1>3. remote[r] = Fresh /\ remote'[r] # Fresh
  <2>1. CreateMemo(m) \in Memo
    BY <1>0, HeadInQueue, CreateMemoType
  <2> QED
    BY <1>0, <2>1, NextIdFresh, CreationKeeps DEF PushCreate
<1>4. r \notin DOMAIN run.bindings
  BY <1>3 DEF SyncInv, BindingsKnown, Known
<1> HIDE DEF r, pc, m
<1>5. /\ run'.pc \in PushWork /\ run'.orphans = run.orphans /\ run'.deleted = run.deleted
      /\ run'.look = Put(run.look, Head, r)
      /\ run'.bindings = Put(run.bindings, r, Bound(Head, m.ut, m.ut))
  BY <1>0, <1>1, <1>2 DEF Runs
<1>6. LookupsMatch'
  <2>1. Matches(run.bindings, run.look)
    BY <1>0 DEF LookupsMatch, Matches
  <2>2. Matches(run'.bindings, run'.look)
    BY <1>0, <1>4, <1>5, <2>1, PairPut
  <2> QED
    BY <2>2 DEF LookupsMatch, Matches
<1>7. DOMAIN run'.bindings = DOMAIN run.bindings \cup {r}
  BY <1>5 DEF Put
<1> QED
  BY <1>0, <1>3, <1>5, <1>6, <1>7, PushWorks DEF PushWork

(* A list, an archiving or a failed request changes neither lookup nor     *)
(* bindings.                                                               *)
LEMMA PushQuiet ==
  ASSUME TypeInv, SyncInv, Kept, PushList \/ PushArchive \/ PushSkip
  PROVE  SyncInv'
<1>0. run \in Runs /\ LookupsMatch
  BY DEF TypeInv, SyncTyped, SyncInv
<1>1. /\ run.pc \in PushWork /\ run'.pc \in PushWork
      /\ run'.orphans = run.orphans /\ run'.deleted = run.deleted
      /\ run'.look = run.look /\ run'.bindings = run.bindings
  <2>1. CASE PushList
    BY <1>0, <2>1 DEF PushList, PushWork, Runs
  <2>2. CASE PushArchive
    <3>1. run.pc = "pushArchive" /\ run' = [run EXCEPT !.pc = "pushItem", !.target = 0]
      BY <2>2 DEF PushArchive
    <3> QED
      BY <1>0, <3>1 DEF PushWork, Runs
  <2>3. CASE PushSkip
    BY <1>0, <2>3 DEF PushSkip, Skip, AtItem, PushWork, Runs
  <2> QED
    BY <2>1, <2>2, <2>3
<1>2. LookupsMatch'
  BY <1>0, <1>1 DEF LookupsMatch
<1> QED
  BY <1>1, <1>2, PushWorks

LEMMA PushPageDoneKeeps ==
  ASSUME TypeInv, SyncInv, Kept, PushPageDone
  PROVE  SyncInv'
<1> DEFINE todo == IF run.more THEN {} ELSE DOMAIN run.look \ run.seen
<1>0. /\ run \in Runs /\ run.pc = "pushItem" /\ LookupsMatch /\ SyncInv
      /\ run.orphans = {} /\ run.deleted = 0
  BY DEF TypeInv, SyncTyped, PushPageDone, SyncInv, SweepInv, CountInv, PushStates, PushWork
<1>1. CASE run' = [run EXCEPT !.pc = "pushList"]
  <2>1. /\ run'.pc = "pushList" /\ run'.orphans = run.orphans /\ run'.deleted = run.deleted
        /\ run'.look = run.look /\ run'.bindings = run.bindings
    BY <1>0, <1>1 DEF Runs
  <2>2. LookupsMatch'
    BY <1>0, <2>1 DEF LookupsMatch
  <2> QED
    BY <1>0, <2>1, <2>2, PushWorks DEF PushWork
<1>2. CASE run' = [run EXCEPT !.pc = "pushProbe", !.todo = todo]
  <2>1. /\ run'.pc = "pushProbe" /\ run'.orphans = {} /\ run'.deleted = 0
        /\ run'.look = run.look /\ run'.bindings = run.bindings
        /\ run'.todo = todo
    BY <1>0, <1>2 DEF Runs
  <2>2. BindingsKnown'
    BY <2>1 DEF BindingsKnown, Known, Kept
  <2>3. LookupsMatch'
    BY <1>0, <2>1 DEF LookupsMatch
  <2>4. PullInv' /\ CountInv'
    BY <2>1 DEF PullInv, CountInv, PullStates, PullWork
  <2>5. SweepInv'
    BY <2>1 DEF SweepInv, PushWork
  <2> QED
    BY <2>2, <2>3, <2>4, <2>5 DEF SyncInv
<1> QED
  BY <1>1, <1>2 DEF PushPageDone

LEMMA PushProbeKeeps ==
  ASSUME TypeInv, SyncInv, Kept, PushProbe
  PROVE  SyncInv'
<1>0. /\ run \in Runs /\ run.pc = "pushProbe" /\ LookupsMatch /\ SweepInv /\ CountInv
      /\ run.orphans \subseteq Ids
  BY DEF TypeInv, SyncTyped, Runs, PushProbe, SyncInv
<1>1. PICK l \in run.todo :
        \/ run' = [run EXCEPT !.todo = @ \ {l},
                              !.orphans = IF local[l] = Gone THEN @ \cup {l} ELSE @]
        \/ run' = [run EXCEPT !.todo = @ \ {l}]
  BY DEF PushProbe
<1>2. l \in Ids /\ l \in DOMAIN run.look /\ run.todo \subseteq DOMAIN run.look
      /\ run.orphans \subseteq DOMAIN run.look /\ \A k \in run.orphans : local[k] = Gone
  BY <1>0 DEF SweepInv, PushStates, Runs
<1>3. /\ run'.pc = "pushProbe" /\ run'.deleted = run.deleted
      /\ run'.look = run.look /\ run'.bindings = run.bindings
      /\ run'.todo \subseteq run.todo
      /\ run'.orphans = run.orphans \/ (local[l] = Gone /\ run'.orphans = run.orphans \cup {l})
  <2>1. CASE run' = [run EXCEPT !.todo = @ \ {l}]
    BY <1>0, <2>1 DEF Runs
  <2>2. CASE run' = [run EXCEPT !.todo = @ \ {l},
                                !.orphans = IF local[l] = Gone THEN @ \cup {l} ELSE @]
    BY <1>0, <2>2 DEF Runs
  <2> QED
    BY <1>1, <2>1, <2>2
<1>4. BindingsKnown'
  BY <1>3 DEF BindingsKnown, Known, Kept
<1>5. LookupsMatch'
  BY <1>0, <1>3 DEF LookupsMatch
<1>6. PullInv' /\ CountInv'
  BY <1>0, <1>3 DEF PullInv, CountInv, PullStates, PullWork
<1>7. SweepInv'
  <2>1. \A k \in run'.orphans : k \in Ids /\ k \in DOMAIN run.look /\ local'[k] = Gone
    BY <1>0, <1>2, <1>3 DEF Kept, Grows
  <2> QED
    BY <1>2, <1>3, <2>1 DEF SweepInv, PushWork
<1> QED
  BY <1>4, <1>5, <1>6, <1>7 DEF SyncInv

(* The sweep goes on to delete only what it may. *)
LEMMA PushSweepKeeps ==
  ASSUME TypeInv, SyncInv, Kept, PushSweep
  PROVE  SyncInv'
<1>1. CASE StopToAsk
  BY <1>1, RunEnds DEF StopToAsk
<1>2. CASE ~NeedsConfirmation /\ run' = [run EXCEPT !.pc = "pushDelete"]
           /\ UNCHANGED <<local, remote, clock, disk, backup, asked>>
  <2>0. /\ run \in Runs /\ run.pc = "pushProbe" /\ LookupsMatch /\ SweepInv /\ CountInv
        /\ run.orphans \subseteq Ids
    BY DEF TypeInv, SyncTyped, Runs, PushSweep, SyncInv
  <2>1. /\ run'.pc = "pushDelete" /\ run'.orphans = run.orphans /\ run'.deleted = 0
        /\ run'.look = run.look /\ run'.bindings = run.bindings /\ run'.confirm = run.confirm
    BY <1>2, <2>0 DEF Runs, CountInv
  <2>2. BindingsKnown'
    BY <2>1 DEF BindingsKnown, Known, Kept
  <2>3. LookupsMatch'
    BY <2>0, <2>1 DEF LookupsMatch
  <2>4. PullInv'
    BY <2>1 DEF PullInv, PullStates, PullWork
  <2>5. SweepInv'
    BY <1>2, <2>0, <2>1 DEF SweepInv, PushStates, PushWork
  <2>6. CountInv'
    <3>1. Cardinality(run.orphans) \in Nat
      BY <2>0, OrphansCounted
    <3> QED
      BY <1>2, <2>1, <3>1 DEF CountInv, NeedsConfirmation
  <2> QED
    BY <2>2, <2>3, <2>4, <2>5, <2>6 DEF SyncInv
<1> QED
  BY <1>1, <1>2 DEF PushSweep

LEMMA PushDeleteKeeps ==
  ASSUME TypeInv, SyncInv, Kept, PushDelete
  PROVE  SyncInv'
<1>0. /\ run \in Runs /\ run.pc = "pushDelete" /\ LookupsMatch /\ SweepInv /\ CountInv
      /\ run.orphans \subseteq Ids /\ run.deleted \in Nat
  BY DEF TypeInv, SyncTyped, Runs, PushDelete, RemoteAfterDelete, SyncInv
<1>1. run.orphans \subseteq DOMAIN run.look /\ \A k \in run.orphans : local[k] = Gone
  BY <1>0 DEF SweepInv, PushStates
<1>2. PICK l \in run.orphans :
        \/ run' = [run EXCEPT !.orphans = @ \ {l}, !.deleted = @ + 1,
                              !.bindings = Drop(@, run.look[l]), !.look = Drop(@, l),
                              !.imported = @ \ {run.look[l]}]
        \/ run' = [run EXCEPT !.orphans = @ \ {l}]
  BY DEF PushDelete, RemoteAfterDelete
<1>3. /\ run'.pc = "pushDelete" /\ run'.confirm = run.confirm /\ run'.orphans = run.orphans \ {l}
      /\ \/ /\ run'.deleted = run.deleted + 1 /\ run'.look = Drop(run.look, l)
            /\ run'.bindings = Drop(run.bindings, run.look[l])
         \/ run'.deleted = run.deleted /\ run'.look = run.look /\ run'.bindings = run.bindings
  <2>1. CASE run' = [run EXCEPT !.orphans = @ \ {l}]
    BY <1>0, <2>1 DEF Runs
  <2>2. CASE run' = [run EXCEPT !.orphans = @ \ {l}, !.deleted = @ + 1,
                                !.bindings = Drop(@, run.look[l]), !.look = Drop(@, l),
                                !.imported = @ \ {run.look[l]}]
    BY <1>0, <2>2 DEF Runs
  <2> QED
    BY <1>2, <2>1, <2>2
<1>4. /\ LookupsMatch' /\ DOMAIN run'.bindings \subseteq DOMAIN run.bindings
      /\ run'.orphans \subseteq DOMAIN run'.look
  <2>1. l \in DOMAIN run.look /\ Matches(run.bindings, run.look)
    BY <1>0, <1>1 DEF LookupsMatch, Matches
  <2>2. /\ Matches(Drop(run.bindings, run.look[l]), Drop(run.look, l))
        /\ DOMAIN Drop(run.bindings, run.look[l]) \subseteq DOMAIN run.bindings
        /\ DOMAIN Drop(run.look, l) = DOMAIN run.look \ {l}
    BY <2>1, PairDropped, Zenon
  <2>3. CASE run'.look = run.look /\ run'.bindings = run.bindings
    BY <1>1, <1>3, <2>1, <2>3 DEF LookupsMatch, Matches
  <2>4. CASE run'.look = Drop(run.look, l) /\ run'.bindings = Drop(run.bindings, run.look[l])
    BY <1>1, <1>3, <2>2, <2>4 DEF LookupsMatch, Matches
  <2> QED
    BY <1>3, <2>3, <2>4
<1>5. BindingsKnown'
  BY <1>3, <1>4 DEF BindingsKnown, Known, Kept
<1>6. PullInv'
  BY <1>3 DEF PullInv, PullStates, PullWork
<1>7. SweepInv'
  BY <1>0, <1>1, <1>3, <1>4 DEF SweepInv, PushWork, Kept, Grows
<1>8. CountInv'
  <2>1. /\ Cardinality(run.orphans) \in Nat
        /\ Cardinality(run.orphans \ {l}) = Cardinality(run.orphans) - 1
    BY <1>0, OrphansCounted
  <2> QED
    BY <1>0, <1>3, <2>1 DEF CountInv
<1> QED
  BY <1>4, <1>5, <1>6, <1>7, <1>8 DEF SyncInv

LEMMA PushKeeps ==
  ASSUME TypeInv, SyncInv, Kept, Push
  PROVE  SyncInv'
<1>1. CASE PushDone
  BY <1>1, RunEnds DEF PushDone
<1> QED
  BY <1>1, StartPushKeeps, PushUpdateKeeps, PushUpdateMissingKeeps, PushCreateKeeps,
     PushQuiet, PushPageDoneKeeps, PushProbeKeeps, PushSweepKeeps, PushDeleteKeeps DEF Push

--------------------------------------------------------------------------------
(* Pull. *)
LEMMA StartPullKeeps ==
  ASSUME Kept, NEW confirm \in BOOLEAN, StartPull(confirm)
  PROVE  SyncInv'
<1>1. /\ run'.pc = "pullList" /\ DOMAIN run'.look = {} /\ DOMAIN run'.queue = {}
      /\ run'.bindings = disk.bindings /\ run'.deleted = 0
  BY DEF StartPull, Idle, NoMap
<1>2. BindingsKnown'
  BY <1>1 DEF BindingsKnown, Known, Kept
<1>3. PullInv' /\ LookupsMatch' /\ SweepInv' /\ CountInv'
  BY <1>1 DEF PullInv, LookupsMatch, SweepInv, CountInv, PushStates, PushWork
<1> QED
  BY <1>2, <1>3 DEF SyncInv

LEMMA PullListKeeps ==
  ASSUME TypeInv, SyncInv, Kept, PullList
  PROVE  SyncInv'
<1> DEFINE listed == {r \in Live(remote) : remote[r].st = run.state}
           page == Page(remote, listed, run.offset, PageSize)
           known == {r \in page : run.floor # 0 /\ remote[r].ut <= run.floor}
           fresh == {r \in page \ known : remote[r].text # Blank}
<1>0. run \in Runs /\ run.pc = "pullList"
  BY DEF TypeInv, SyncTyped, PullList, Importable
<1>1. /\ run'.pc = "pullItem" /\ run'.look = run.look /\ run'.deleted = run.deleted
      /\ run'.bindings = run.bindings /\ run'.queue = Restrict(remote, fresh)
  BY <1>0 DEF PullList, Importable, Runs
<1>2. fresh \subseteq Live(remote)
  BY DEF Page
<1> HIDE DEF fresh
<1>3. \A r \in DOMAIN run'.queue : remote'[r] # Fresh
  BY <1>1, <1>2 DEF Restrict, Live, Kept, Grows
<1> QED
  BY <1>0, <1>1, <1>3, PullWorks DEF PullWork

(* The page in hand, and what is left of it, has existed.                  *)
LEMMA QueueKnown ==
  ASSUME TypeInv, SyncInv, Kept, run.pc \in PullStates
  PROVE  /\ \A r \in DOMAIN run.queue : remote'[r] # Fresh
         /\ \A r \in DOMAIN Rest : remote'[r] # Fresh
<1>1. run.queue \in Partial(Ids, Memo)
  BY DEF TypeInv, SyncTyped, Runs
<1>2. \A r \in DOMAIN run.queue : r \in Ids /\ remote[r] # Fresh
  BY <1>1, PartialMember DEF SyncInv, PullInv
<1>3. DOMAIN Rest \subseteq DOMAIN run.queue
  BY DEF Rest, Drop, Restrict
<1> QED
  BY <1>2, <1>3 DEF Kept, Grows

(* Requests that bind nothing. *)
LEMMA PullQuiet ==
  ASSUME TypeInv, SyncInv, Kept,
         PullUnchanged \/ PullReadMeta \/ PullMeta \/ PullKnown \/ PullArchive \/ PullSkip
  PROVE  SyncInv'
<1>0. run \in Runs
  BY DEF TypeInv, SyncTyped
<1>1. /\ run.pc \in PullWork /\ run'.pc \in PullWork
      /\ run'.deleted = run.deleted /\ run'.look = run.look /\ run'.bindings = run.bindings
      /\ run'.queue \in {run.queue, Rest}
  <2>1. CASE PullUnchanged
    BY <1>0, <2>1 DEF PullUnchanged, AtItem, PullWork, Runs
  <2>2. CASE PullReadMeta
    BY ZenonT(60), <1>0, <2>2 DEF PullReadMeta, PullWork, Runs
  <2>3. CASE PullMeta
    BY <1>0, <2>3 DEF PullMeta, PullWork, Runs
  <2>4. CASE PullKnown
    BY <1>0, <2>4 DEF PullKnown, AtItem, PullWork, Runs
  <2>5. CASE PullArchive
    BY <1>0, <2>5 DEF PullArchive, PullWork, Runs
  <2>6. CASE PullSkip
    BY <1>0, <2>6 DEF PullSkip, Skip, AtItem, PullWork, Runs
  <2> QED
    BY <2>1, <2>2, <2>3, <2>4, <2>5, <2>6
<1> QED
  BY <1>1, QueueKnown, PullWorks DEF PullStates

(* Requests that bind, or unbind, the memo in hand. *)
LEMMA PullBinds ==
  ASSUME TypeInv, SyncInv, Kept, PullChanged \/ PullWrite \/ PullAdopt \/ PullCreate
  PROVE  SyncInv'
<1>0. run \in Runs /\ SyncTyped
  BY DEF TypeInv, SyncTyped
<1>1. Head \in DOMAIN run.queue
  <2>1. CASE PullWrite
    BY <1>0, <2>1, InHand, HeadInQueue DEF PullWrite
  <2>2. CASE PullChanged \/ PullAdopt \/ PullCreate
    BY <1>0, <2>2, HeadInQueue DEF PullChanged, PullAdopt, PullCreate, IsNew, AtItem
  <2> QED
    BY <2>1, <2>2
<1>2. /\ run.pc \in PullWork /\ run'.pc \in PullWork
      /\ run'.deleted = run.deleted /\ run'.look = run.look
      /\ run'.queue \in {run.queue, Rest}
      /\ DOMAIN run'.bindings \subseteq DOMAIN run.bindings \cup {Head}
  <2>1. CASE PullChanged
    BY <1>0, <2>1 DEF PullChanged, AtItem, PullWork, Runs, Drop, Restrict
  <2>2. CASE PullWrite
    <3>1. \/ \E b : run' = [run EXCEPT !.pc = "pullItem", !.queue = Rest,
                                 !.bindings = Put(@, Head, b), !.imported = @ \cup {Head}]
          \/ run' = [run EXCEPT !.pc = "pullItem", !.queue = Rest]
      BY <2>2 DEF PullWrite
    <3>2. run.pc = "pullWrite"
      BY <2>2 DEF PullWrite
    <3> QED
      BY ZenonT(60), <1>0, <3>1, <3>2 DEF PullWork, Runs, Put
  <2>3. CASE PullAdopt
    BY ZenonT(60), <1>0, <2>3 DEF PullAdopt, IsNew, AtItem, PullWork, Runs, Put
  <2>4. CASE PullCreate
    BY <1>0, <2>4 DEF PullCreate, IsNew, AtItem, PullWork, Runs, Put
  <2> QED
    BY <2>1, <2>2, <2>3, <2>4
<1>3. remote'[Head] # Fresh
  BY <1>1, <1>2, QueueKnown DEF PullStates
<1> QED
  BY <1>2, <1>3, QueueKnown, PullWorks DEF PullStates

(* The sweep of a pull, from the end of the scan to its last deletion.     *)
LEMMA PullSweeps ==
  ASSUME Kept, SyncInv, run.pc \in PullStates, run'.pc \in {"pullProbe", "pullDelete"},
         run'.look = run.look, \A r \in DOMAIN run'.queue : remote'[r] # Fresh,
         DOMAIN run'.bindings \subseteq DOMAIN run.bindings, CountInv'
  PROVE  SyncInv'
<1>1. DOMAIN run.look = {}
  BY DEF SyncInv, PullInv
<1>2. BindingsKnown'
  BY DEF BindingsKnown, Known, Kept
<1>3. PullInv' /\ LookupsMatch' /\ SweepInv'
  BY <1>1 DEF PullInv, LookupsMatch, SweepInv, PushStates, PushWork
<1> QED
  BY <1>2, <1>3 DEF SyncInv

LEMMA PullPageDoneKeeps ==
  ASSUME TypeInv, SyncInv, Kept, PullPageDone
  PROVE  SyncInv'
<1> DEFINE unread == run.more /\ ~run.stopped
           complete == run.complete /\ ~(unread /\ run.pages >= MaxPages)
           todo == IF complete THEN DOMAIN run.bindings \ run.seen ELSE {}
<1>0. run \in Runs /\ run.pc = "pullItem" /\ run.deleted = 0
  BY DEF TypeInv, SyncTyped, PullPageDone, SyncInv, CountInv
<1>1. \/ run' = [run EXCEPT !.pc = "pullList"]
      \/ run' = [run EXCEPT !.pc = "pullList", !.state = "ARCHIVED", !.offset = 0]
      \/ run' = [run EXCEPT !.pc = "pullProbe", !.complete = complete, !.todo = todo]
  BY DEF PullPageDone
<1> HIDE DEF complete, todo
<1>2. /\ run'.pc \in {"pullList", "pullProbe"} /\ run'.look = run.look
      /\ run'.bindings = run.bindings /\ run'.queue = run.queue /\ run'.deleted = 0
  <2>1. CASE run' = [run EXCEPT !.pc = "pullList"]
    BY <1>0, <2>1 DEF Runs
  <2>2. CASE run' = [run EXCEPT !.pc = "pullList", !.state = "ARCHIVED", !.offset = 0]
    BY <1>0, <2>2 DEF Runs
  <2>3. CASE run' = [run EXCEPT !.pc = "pullProbe", !.complete = complete, !.todo = todo]
    BY <1>0, <2>3 DEF Runs
  <2> QED
    BY <1>1, <2>1, <2>2, <2>3
<1>3. \A r \in DOMAIN run'.queue : remote'[r] # Fresh
  BY <1>0, <1>2, QueueKnown DEF PullStates, PullWork
<1>4. CASE run'.pc = "pullList"
  BY <1>0, <1>2, <1>3, <1>4, PullWorks DEF PullWork
<1>5. CASE run'.pc = "pullProbe"
  <2>1. CountInv'
    BY <1>2, <1>5 DEF CountInv
  <2> QED
    BY <1>0, <1>2, <1>3, <1>5, <2>1, PullSweeps DEF PullStates, PullWork
<1> QED
  BY <1>2, <1>4, <1>5

LEMMA PullProbeKeeps ==
  ASSUME TypeInv, SyncInv, Kept, PullProbe
  PROVE  SyncInv'
<1>0. run \in Runs /\ run.pc = "pullProbe" /\ run.deleted = 0
  BY DEF TypeInv, SyncTyped, PullProbe, NotFound, SyncInv, CountInv
<1>1. /\ run'.pc = "pullProbe" /\ run'.look = run.look /\ run'.deleted = 0
      /\ run'.bindings = run.bindings /\ run'.queue = run.queue
  BY ZenonT(60), <1>0 DEF PullProbe, NotFound, Runs
<1>2. \A r \in DOMAIN run'.queue : remote'[r] # Fresh
  BY <1>0, <1>1, QueueKnown DEF PullStates
<1>3. CountInv'
  BY <1>1 DEF CountInv
<1> QED
  BY <1>0, <1>1, <1>2, <1>3, PullSweeps DEF PullStates

LEMMA PullSweepKeeps ==
  ASSUME TypeInv, SyncInv, Kept, PullSweep
  PROVE  SyncInv'
<1>1. CASE StopToAsk
  BY <1>1, RunEnds DEF StopToAsk
<1>2. CASE ~NeedsConfirmation /\ run' = [run EXCEPT !.pc = "pullDelete"]
           /\ UNCHANGED <<local, remote, clock, disk, backup, asked>>
  <2>0. run \in Runs /\ run.pc = "pullProbe" /\ run.deleted = 0 /\ run.orphans \subseteq Ids
    BY DEF TypeInv, SyncTyped, Runs, PullSweep, SyncInv, CountInv
  <2>1. /\ run'.pc = "pullDelete" /\ run'.look = run.look /\ run'.deleted = 0
        /\ run'.orphans = run.orphans /\ run'.confirm = run.confirm
        /\ run'.bindings = run.bindings /\ run'.queue = run.queue
    BY <1>2, <2>0 DEF Runs
  <2>2. \A r \in DOMAIN run'.queue : remote'[r] # Fresh
    BY <2>0, <2>1, QueueKnown DEF PullStates
  <2>3. CountInv'
    <3>1. Cardinality(run.orphans) \in Nat
      BY <2>0, OrphansCounted
    <3> QED
      BY <1>2, <2>1, <3>1 DEF CountInv, NeedsConfirmation
  <2> QED
    BY <2>0, <2>1, <2>2, <2>3, PullSweeps DEF PullStates
<1> QED
  BY <1>1, <1>2 DEF PullSweep

LEMMA PullDeleteKeeps ==
  ASSUME TypeInv, SyncInv, Kept, PullDelete
  PROVE  SyncInv'
<1>0. /\ run \in Runs /\ run.pc = "pullDelete" /\ CountInv
      /\ run.orphans \subseteq Ids /\ run.deleted \in Nat
  BY DEF TypeInv, SyncTyped, Runs, PullDelete, SyncInv
<1>1. PICK o \in run.orphans :
        \/ run' = [run EXCEPT !.orphans = @ \ {o}, !.deleted = @ + 1,
                              !.bindings = Drop(@, o), !.imported = @ \ {o}]
        \/ run' = [run EXCEPT !.orphans = @ \ {o}]
  BY DEF PullDelete
<1>2. /\ run'.pc = "pullDelete" /\ run'.confirm = run.confirm /\ run'.orphans = run.orphans \ {o}
      /\ run'.look = run.look /\ run'.queue = run.queue
      /\ run'.deleted \in {run.deleted, run.deleted + 1}
      /\ run'.bindings \in {run.bindings, Drop(run.bindings, o)}
  BY ZenonT(60), <1>0, <1>1 DEF Runs
<1>3. DOMAIN run'.bindings \subseteq DOMAIN run.bindings
  BY <1>2 DEF Drop, Restrict
<1>4. \A r \in DOMAIN run'.queue : remote'[r] # Fresh
  BY <1>0, <1>2, QueueKnown DEF PullStates
<1>5. CountInv'
  <2>1. /\ Cardinality(run.orphans) \in Nat
        /\ Cardinality(run.orphans \ {o}) = Cardinality(run.orphans) - 1
    BY <1>0, OrphansCounted
  <2> QED
    BY <1>0, <1>2, <2>1 DEF CountInv
<1> QED
  BY <1>0, <1>2, <1>3, <1>4, <1>5, PullSweeps DEF PullStates

LEMMA PullKeeps ==
  ASSUME TypeInv, SyncInv, Kept, Pull
  PROVE  SyncInv'
<1>1. CASE PullDone
  BY <1>1, RunEnds DEF PullDone
<1> QED
  BY <1>1, StartPullKeeps, PullListKeeps, PullQuiet, PullBinds, PullPageDoneKeeps,
     PullProbeKeeps, PullSweepKeeps, PullDeleteKeeps DEF Pull

--------------------------------------------------------------------------------
LEMMA InitInv == Init => SyncInv
<1> SUFFICES ASSUME Init PROVE SyncInv
  OBVIOUS
<1>1. /\ disk.bindings = NoMap /\ backup.bindings = NoMap /\ run.bindings = NoMap
      /\ run.look = NoMap /\ run.pc = "idle" /\ run.deleted = 0
  BY DEF Init, EmptyDisk, Idle
<1>2. DOMAIN NoMap = {}
  BY DEF NoMap
<1> QED
  BY <1>1, <1>2 DEF SyncInv, BindingsKnown, Known, PullInv, LookupsMatch, SweepInv, CountInv,
     PushStates, PushWork, PullStates, PullWork

LEMMA StepInv == TypeInv /\ SyncInv /\ [Next]_vars => SyncInv'
<1> SUFFICES ASSUME TypeInv, SyncInv, [Next]_vars PROVE SyncInv'
  OBVIOUS
<1>0. Kept
  BY StepKeeps DEF SyncInv
<1>1. CASE LocalUser \/ RemoteUser \/ SettingsPage \/ UNCHANGED vars
  <2>1. run' = run
    BY <1>1 DEF LocalUser, LocalCreate, LocalEdit, LocalDelete, RemoteUser, RemoteCreate,
       RemoteEdit, RemoteDelete, SettingsPage, ResetMetadata, ExportMetadata, ImportMetadata, vars
  <2> QED
    BY <1>0, <2>1, RunAlone
<1>2. CASE Push
  BY <1>0, <1>2, PushKeeps
<1>3. CASE Pull
  BY <1>0, <1>3, PullKeeps
<1>4. CASE Abort
  BY <1>0, <1>4, RunEnds DEF Abort
<1> QED
  BY <1>1, <1>2, <1>3, <1>4 DEF Next

(* The strengthened invariant holds of every behaviour, with every fault.  *)
THEOREM SyncInvariant == Spec => [](TypeInv /\ SyncInv)
<1>1. Init => TypeInv /\ SyncInv
  BY InitTyped, InitInv
<1>2. TypeInv /\ SyncInv /\ [Next]_vars => (TypeInv /\ SyncInv)'
  BY StepTyped, StepInv
<1> QED
  BY <1>1, <1>2, PTL DEF Spec

(* The lookup of a push is always the inverse of its bindings: a push      *)
(* never PATCHes or deletes a remote memo bound to another local one.      *)
THEOREM LookupsAlwaysMatch == Spec => []LookupsMatch
<1>1. SyncInv => LookupsMatch
  BY DEF SyncInv
<1> QED
  BY <1>1, SyncInvariant, PTL

(* No run, push or pull, deletes more than the threshold unconfirmed,      *)
(* whatever fails and however often it is repeated.                        *)
THEOREM NoMassDeletion == Spec => []NoUnconfirmedMassDeletion
<1>1. TypeInv /\ SyncInv => NoUnconfirmedMassDeletion
  <2> SUFFICES ASSUME TypeInv, SyncInv, run.deleted > Threshold PROVE run.confirm
    BY DEF NoUnconfirmedMassDeletion
  <2>1. run.orphans \subseteq Ids /\ run.deleted \in Nat
    BY DEF TypeInv, SyncTyped, Runs
  <2>2. Cardinality(run.orphans) \in Nat
    BY <2>1, OrphansCounted
  <2> QED
    BY <2>1, <2>2 DEF SyncInv, CountInv
<1> QED
  BY <1>1, SyncInvariant, PTL

LEMMA DeletionJustified ==
  ASSUME TypeInv, SyncInv, [Next]_vars, run' # run,
         NEW r \in Live(remote), remote'[r] = Gone
  PROVE  r \in DOMAIN run.bindings /\ local[run.bindings[r].local] = Gone
<1>0. r \in Ids /\ remote[r] # Gone
  BY LiveIsNotGone
<1>1. PushDelete
  <2>1. CASE LocalUser \/ RemoteUser \/ SettingsPage \/ UNCHANGED vars
    BY <2>1 DEF LocalUser, LocalCreate, LocalEdit, LocalDelete, RemoteUser, RemoteCreate,
       RemoteEdit, RemoteDelete, SettingsPage, ResetMetadata, ExportMetadata, ImportMetadata, vars
  <2>2. CASE Push
    BY <1>0, <2>2, PushEffects DEF Spares
  <2>3. CASE Pull
    BY <1>0, <2>3, PullEffects
  <2>4. CASE Abort
    BY <1>0, <2>4 DEF Abort
  <2> QED
    BY <2>1, <2>2, <2>3, <2>4 DEF Next
<1>2. PICK l \in run.orphans :
        remote' = IF run.look[l] \in Live(remote) THEN DeleteMemo(remote, run.look[l]) ELSE remote
  <2>1. remote' # remote
    BY <1>0
  <2> QED
    BY <1>1, <2>1 DEF PushDelete, RemoteAfterDelete
<1>3. r = run.look[l]
  BY <1>0, <1>2 DEF DeleteMemo, TypeInv, SyncTyped, Table
<1>4. l \in DOMAIN run.look /\ local[l] = Gone
  BY <1>1 DEF PushDelete, RemoteAfterDelete, SyncInv, SweepInv, PushStates
<1> QED
  BY <1>3, <1>4 DEF SyncInv, LookupsMatch

(* A push deletes a remote memo only if the local memo it is bound to is   *)
(* gone, however long ago that was established and whatever the users did  *)
(* to the memos and to the metadata in the meantime.                       *)
THEOREM RemoteDeletesAreJustified == Spec => RemoteDeletesJustified
<1> DEFINE Justified ==
      \A r \in Live(remote) : remote'[r] = Gone /\ run' # run =>
        r \in DOMAIN run.bindings /\ local[run.bindings[r].local] = Gone
<1>1. TypeInv /\ SyncInv /\ [Next]_vars => [Justified]_vars
  BY DeletionJustified
<1>2. [][Justified]_vars => RemoteDeletesJustified
  BY DEF RemoteDeletesJustified
<1> HIDE DEF Justified
<1> QED
  BY <1>1, <1>2, SyncInvariant, PTL DEF Spec

--------------------------------------------------------------------------------
(* A memo that is left alone is equal on both sides, provided that users   *)
(* edit the text alone and no two of them in the same second.  Then an     *)
(* update time tells the text: whatever has it, in a table or in the page  *)
(* in hand, says the same; and a binding has one update time for both      *)
(* memos, or none for the local one.                                       *)
Memos(T) == {T[i] : i \in Live(T)}
InPage(q) == {q[i] : i \in DOMAIN q}
Versions == Memos(local) \cup Memos(remote) \cup InPage(run.queue)

Plain(m, now) ==
    m.vis = "PRIVATE" /\ ~m.pin /\ m.st = "NORMAL" /\ m.ut # 0 /\ m.ut <= now

OneTime(B) == \A r \in DOMAIN B : B[r].lut \in {0, B[r].rut}

AllPlain == \A m \in Versions : Plain(m, clock)
TimesTell == \A m, n \in Versions : m.ut = n.ut => m.text = n.text
OneTimes == OneTime(disk.bindings) /\ OneTime(backup.bindings) /\ OneTime(run.bindings)
NoMetadata == run.pc \notin {"pullRead", "pullMeta", "pushArchive", "pullArchive"}

StampInv == AllPlain /\ TimesTell /\ OneTimes /\ NoMetadata

(* The memo as it was written, wherever it is. *)
SameVersion(n, m) ==
    n.text = m.text /\ n.vis = m.vis /\ n.pin = m.pin /\ n.st = m.st /\ n.ut = m.ut

LEMMA VersionsTyped ==
  ASSUME SyncTyped
  PROVE  clock \in Int /\ \A m \in Versions : m \in Memo /\ m.ut \in Int
<1>1. local \in Table /\ remote \in Table /\ run.queue \in Partial(Ids, Memo) /\ clock \in Int
  BY DEF SyncTyped, Runs
<1>2. \A m \in Memos(local) \cup Memos(remote) : m \in Memo
  BY <1>1, LiveMemo DEF Memos
<1>3. \A m \in InPage(run.queue) : m \in Memo
  BY <1>1, PartialValue DEF InPage
<1> QED
  BY <1>1, <1>2, <1>3 DEF Versions, Memo

(* A write to a table adds one version to those of the table at most. *)
LEMMA WriteVersions ==
  ASSUME NEW T, NEW U, NEW m, \A j \in Ids : U[j] = T[j] \/ U[j] = m
  PROVE  Memos(U) \subseteq Memos(T) \cup {m}
BY DEF Memos, Live

LEMMA DeleteVersions ==
  ASSUME NEW T \in Table, NEW i
  PROVE  Memos(DeleteMemo(T, i)) \subseteq Memos(T)
BY DEF Memos, Live, Table, DeleteMemo

LEMMA PageVersions ==
  ASSUME NEW T, NEW S \in SUBSET Live(T)
  PROVE  InPage(Restrict(T, S)) \subseteq Memos(T)
BY DEF InPage, Restrict, Memos

LEMMA NoVersions == InPage(NoMap) = {}
BY DEF InPage, NoMap

LEMMA RestVersions == InPage(Rest) \subseteq InPage(run.queue)
BY DEF InPage, Rest, Drop, Restrict

(* Copies of versions tell what these tell. *)
LEMMA Copied ==
  ASSUME AllPlain, TimesTell, clock' = clock,
         \A n \in Versions' : \E m \in Versions : SameVersion(n, m)
  PROVE  AllPlain' /\ TimesTell'
<1>1. \A n \in Versions' : Plain(n, clock')
  BY DEF AllPlain, SameVersion, Plain
<1>2. \A k, n \in Versions' : k.ut = n.ut => k.text = n.text
  BY DEF TimesTell, SameVersion
<1> QED
  BY <1>1, <1>2 DEF AllPlain, TimesTell

(* A version of a later second tells its own text. *)
LEMMA Authored ==
  ASSUME SyncTyped, SyncTyped', AllPlain, TimesTell, NEW a, clock < clock', Plain(a, clock'), a.ut = clock',
         \A n \in Versions' : n \in Versions \/ n = a
  PROVE  AllPlain' /\ TimesTell'
<1>0. clock \in Int /\ clock' \in Int /\ \A m \in Versions : m.ut \in Int /\ m.ut <= clock
  BY VersionsTyped DEF AllPlain, Plain, SyncTyped
<1>1. \A n \in Versions' : Plain(n, clock')
  BY <1>0 DEF AllPlain, Plain
<1>2. \A k, n \in Versions' : k.ut = n.ut => k.text = n.text
  BY <1>0 DEF TimesTell
<1> QED
  BY <1>1, <1>2 DEF AllPlain, TimesTell

LEMMA SameIsCopy == \A n : SameVersion(n, n)
BY DEF SameVersion

(* What a push or a pull writes is the memo in hand. *)
LEMMA UpdateCopies ==
  ASSUME NEW old \in Memo, NEW m \in Memo, NEW t, Plain(old, t), Plain(m, t)
  PROVE  SameVersion(UpdateMemo(old, m, SyncMask, t), m)
<1>1. {"text", "vis", "ct", "ut"} \subseteq SyncMask
  BY DEF SyncMask
<1>2. UpdateMemo(old, m, SyncMask, t) = [f \in Fields |-> IF f \in SyncMask THEN m[f] ELSE old[f]]
  BY <1>1 DEF UpdateMemo
<1> QED
  BY <1>1, <1>2 DEF Fields, SameVersion, Plain, Memo

LEMMA CreateCopies ==
  ASSUME NEW m \in Memo, NEW t, Plain(m, t)
  PROVE  SameVersion(CreateMemo(m), m)
BY DEF CreateMemo, SameVersion, Plain, Memo
--------------------------------------------------------------------------------
(* The steps of the users. *)
LEMMA EditedPlain ==
  ASSUME NEW m \in Memo, NEW v, NEW t \in 0..MaxTime, t > 0, Plain(m, clock)
  PROVE  Plain(Edited(m, "text", v, t), t) /\ Edited(m, "text", v, t).ut = t
<1> DEFINE e == [m EXCEPT !["text"] = v]
           n == [f \in Fields |-> IF f \in {"text"} THEN e[f] ELSE m[f]]
<1>1. Edited(m, "text", v, t) = [n EXCEPT !["ut"] = t]
  BY DEF Edited, UpdateMemo
<1>2. /\ [n EXCEPT !["ut"] = t].vis = m.vis /\ [n EXCEPT !["ut"] = t].pin = m.pin
      /\ [n EXCEPT !["ut"] = t].st = m.st /\ [n EXCEPT !["ut"] = t].ut = t
  BY DEF Fields
<1>3. /\ Edited(m, "text", v, t).vis = m.vis /\ Edited(m, "text", v, t).pin = m.pin
      /\ Edited(m, "text", v, t).st = m.st /\ Edited(m, "text", v, t).ut = t
  BY <1>1, <1>2
<1> HIDE DEF n, e
<1> QED
  BY <1>3 DEF Plain

LEMMA NewPlain ==
  ASSUME NEW text, NEW t \in 0..MaxTime, t > 0
  PROVE  Plain(NewMemo(text, t), t) /\ NewMemo(text, t).ut = t
BY DEF NewMemo, Plain

LEMMA UsersTell ==
  ASSUME TypeInv, TypeInv', StampInv, EditFields \subseteq {"text"}, SameSecond = FALSE,
         LocalUser \/ RemoteUser
  PROVE  AllPlain' /\ TimesTell'
<1>0. /\ SyncTyped /\ SyncTyped' /\ AllPlain /\ TimesTell /\ local \in Table /\ remote \in Table
      /\ \A t : Now(t) => t \in 0..MaxTime /\ t > 0 /\ clock < t /\ clock' = t
  BY DEF TypeInv, SyncTyped, StampInv, Now, Stamps
<1>1. ASSUME NEW T, NEW i \in Live(T), NEW f \in EditFields, NEW v, NEW t, Now(t),
             T \in {local, remote}
      PROVE  Plain(Edited(T[i], f, v, t), t) /\ Edited(T[i], f, v, t).ut = t
  <2>1. T[i] \in Memo /\ Plain(T[i], clock) /\ f = "text"
    BY <1>0, <1>1, LiveMemo DEF AllPlain, Versions, Memos
  <2> QED
    BY <1>0, <1>1, <2>1, EditedPlain
<1>2. CASE LocalCreate
  <2>1. PICK t \in Stamps, text \in Texts \ {Blank} :
          Now(t) /\ local' = [local EXCEPT ![NextId(local)] = NewMemo(text, t)]
    BY <1>2 DEF LocalCreate
  <2>2. remote' = remote /\ run' = run
    BY <1>2 DEF LocalCreate
  <2>3. \A j \in Ids : local'[j] = local[j] \/ local'[j] = NewMemo(text, t)
    BY <1>0, <2>1 DEF Table
  <2>4. Memos(local') \subseteq Memos(local) \cup {NewMemo(text, t)}
    BY <2>3, WriteVersions
  <2>5. \A n \in Versions' : n \in Versions \/ n = NewMemo(text, t)
    BY <2>2, <2>4 DEF Versions
  <2> QED
    BY <1>0, <2>1, <2>5, NewPlain, Authored
<1>3. CASE RemoteCreate
  <2>1. PICK t \in Stamps, text \in Texts \ {Blank} :
          Now(t) /\ remote' = [remote EXCEPT ![NextId(remote)] = NewMemo(text, t)]
    BY <1>3 DEF RemoteCreate
  <2>2. local' = local /\ run' = run
    BY <1>3 DEF RemoteCreate
  <2>3. \A j \in Ids : remote'[j] = remote[j] \/ remote'[j] = NewMemo(text, t)
    BY <1>0, <2>1 DEF Table
  <2>4. Memos(remote') \subseteq Memos(remote) \cup {NewMemo(text, t)}
    BY <2>3, WriteVersions
  <2>5. \A n \in Versions' : n \in Versions \/ n = NewMemo(text, t)
    BY <2>2, <2>4 DEF Versions
  <2> QED
    BY <1>0, <2>1, <2>5, NewPlain, Authored
<1>4. CASE LocalEdit
  <2>1. PICK i \in Live(local), t \in Stamps, f \in EditFields :
          \E v \in Values(f) \ {local[i][f]} :
            Now(t) /\ local' = [local EXCEPT ![i] = Edited(@, f, v, t)]
    BY <1>4 DEF LocalEdit
  <2>2. PICK v \in Values(f) : Now(t) /\ local' = [local EXCEPT ![i] = Edited(local[i], f, v, t)]
    BY <2>1
  <2>3. remote' = remote /\ run' = run
    BY <1>4 DEF LocalEdit
  <2> DEFINE e == Edited(local[i], f, v, t)
  <2>4. Now(t) /\ Plain(e, t) /\ e.ut = t /\ \A j \in Ids : local'[j] = local[j] \/ local'[j] = e
    BY <1>0, <1>1, <2>2 DEF Table
  <2> HIDE DEF e
  <2>5. \A n \in Versions' : n \in Versions \/ n = e
    BY <2>3, <2>4, WriteVersions DEF Versions
  <2> QED
    BY <1>0, <2>4, <2>5, Authored
<1>5. CASE RemoteEdit
  <2>1. PICK i \in Live(remote), t \in Stamps, f \in EditFields :
          \E v \in Values(f) \ {remote[i][f]} :
            Now(t) /\ remote' = [remote EXCEPT ![i] = Edited(@, f, v, t)]
    BY <1>5 DEF RemoteEdit
  <2>2. PICK v \in Values(f) : Now(t) /\ remote' = [remote EXCEPT ![i] = Edited(remote[i], f, v, t)]
    BY <2>1
  <2>3. local' = local /\ run' = run
    BY <1>5 DEF RemoteEdit
  <2> DEFINE e == Edited(remote[i], f, v, t)
  <2>4. Now(t) /\ Plain(e, t) /\ e.ut = t /\ \A j \in Ids : remote'[j] = remote[j] \/ remote'[j] = e
    BY <1>0, <1>1, <2>2 DEF Table
  <2> HIDE DEF e
  <2>5. \A n \in Versions' : n \in Versions \/ n = e
    BY <2>3, <2>4, WriteVersions DEF Versions
  <2> QED
    BY <1>0, <2>4, <2>5, Authored
<1>6. CASE LocalDelete \/ RemoteDelete
  <2>1. clock' = clock /\ \A n \in Versions' : n \in Versions
    BY <1>0, <1>6, DeleteVersions DEF LocalDelete, RemoteDelete, Versions
  <2> QED
    BY <1>0, <2>1, SameIsCopy, Copied
<1> QED
  BY <1>2, <1>3, <1>4, <1>5, <1>6 DEF LocalUser, RemoteUser

(* A step that writes no memo: what is in hand afterwards was in a table   *)
(* or in hand before.                                                      *)
LEMMA NothingWritten ==
  ASSUME StampInv, clock' = clock, Memos(local)' \subseteq Versions, Memos(remote)' \subseteq Versions,
         InPage(run'.queue) \subseteq Versions
  PROVE  AllPlain' /\ TimesTell'
<1>1. \A n \in Versions' : n \in Versions
  BY DEF Versions
<1> QED
  BY <1>1, SameIsCopy, Copied DEF StampInv

(* A step that writes the memo m, which is in hand, as n. *)
LEMMA InHandWritten ==
  ASSUME StampInv, clock' = clock, NEW n, NEW m \in Versions, SameVersion(n, m),
         Memos(local)' \subseteq Versions \cup {n}, Memos(remote)' \subseteq Versions \cup {n},
         InPage(run'.queue) \subseteq Versions
  PROVE  AllPlain' /\ TimesTell'
<1>1. \A k \in Versions' : k \in Versions \/ k = n
  BY DEF Versions
<1> QED
  BY <1>1, SameIsCopy, Copied DEF StampInv
--------------------------------------------------------------------------------
(* Where the page in hand and the bindings of a run come from.             *)
PageMade ==
    \/ run'.queue \in {run.queue, Rest, NoMap}
    \/ \E S \in SUBSET Live(local) : run'.queue = Restrict(local, S)
    \/ \E S \in SUBSET Live(remote) : run'.queue = Restrict(remote, S)

BindingsMade ==
    \/ run'.bindings \in {run.bindings, disk.bindings, NoMap}
    \/ \E r : run'.bindings = Drop(run.bindings, r)
    \/ \E r, l, t : \E u \in {0, t} : run'.bindings = Put(run.bindings, r, Bound(l, t, u))

LEMMA PushMakes ==
  ASSUME TypeInv, Push
  PROVE  PageMade /\ BindingsMade
<1>0. run \in Runs
  BY DEF TypeInv, SyncTyped
<1>1. ASSUME NEW confirm \in BOOLEAN, StartPush(confirm)
      PROVE  run'.queue = NoMap /\ run'.bindings = disk.bindings
  <2>1. PICK look : run' = [Idle EXCEPT !.pc = "pushList", !.confirm = confirm, !.look = look,
                             !.imported = disk.imported, !.bindings = disk.bindings]
    BY <1>1 DEF StartPush
  <2> QED
    BY <2>1 DEF Idle
<1>2. CASE PushList
  <2> DEFINE page == Page(local, Live(local), run.offset, PageSize)
             S == {l \in page : local[l].text # Blank /\ ~UpToDate(l)}
  <2>1. S \in SUBSET Live(local)
    BY DEF Page
  <2>2. run'.queue = Restrict(local, S) /\ run'.bindings = run.bindings
    BY <1>0, <1>2 DEF PushList, Runs
  <2> HIDE DEF S
  <2> QED
    BY <2>1, <2>2 DEF PageMade, BindingsMade
<1>3. CASE PushUpdate
  <2>1. /\ run'.queue = Rest
        /\ run'.bindings = Put(run.bindings, run.look[Head],
                               Bound(Head, run.queue[Head].ut, run.queue[Head].ut))
    BY <1>0, <1>3 DEF PushUpdate, Runs
  <2> QED
    BY <2>1 DEF PageMade, BindingsMade
<1>4. CASE PushUpdateMissing
  <2>1. run'.queue = run.queue /\ run'.bindings = Drop(run.bindings, run.look[Head])
    BY <1>0, <1>4 DEF PushUpdateMissing, Runs
  <2> QED
    BY <2>1 DEF PageMade, BindingsMade
<1>5. CASE PushCreate
  <2>1. /\ run'.queue = Rest
        /\ run'.bindings = Put(run.bindings, NextId(remote),
                               Bound(Head, run.queue[Head].ut, run.queue[Head].ut))
    BY <1>0, <1>5 DEF PushCreate, Runs
  <2> QED
    BY <2>1 DEF PageMade, BindingsMade
<1>6. CASE PushArchive \/ PushSkip \/ PushPageDone
  <2>1. run'.queue \in {run.queue, Rest} /\ run'.bindings = run.bindings
    <3>1. CASE PushArchive \/ PushSkip
      BY ZenonT(60), <1>0, <3>1 DEF PushArchive, PushSkip, Skip, Runs
    <3>2. CASE PushPageDone
      BY <1>0, <3>2 DEF PushPageDone, Runs
    <3> QED
      BY <1>6, <3>1, <3>2
  <2> QED
    BY <2>1 DEF PageMade, BindingsMade
<1>7. CASE PushProbe
  BY ZenonT(60), <1>0, <1>7 DEF PushProbe, Runs, PageMade, BindingsMade
<1>8. CASE PushSweep \/ PushDone
  BY <1>0, <1>8 DEF PushSweep, StopToAsk, PushDone, Idle, Runs, PageMade, BindingsMade
<1>9. CASE PushDelete
  <2>1. PICK l : \/ run' = [run EXCEPT !.orphans = @ \ {l}, !.deleted = @ + 1,
                                      !.bindings = Drop(@, run.look[l]), !.look = Drop(@, l),
                                      !.imported = @ \ {run.look[l]}]
                 \/ run' = [run EXCEPT !.orphans = @ \ {l}]
    BY <1>9 DEF PushDelete
  <2>2. /\ run'.queue = run.queue
        /\ run'.bindings = run.bindings \/ run'.bindings = Drop(run.bindings, run.look[l])
    BY ZenonT(60), <1>0, <2>1 DEF Runs
  <2> QED
    BY <2>2 DEF PageMade, BindingsMade
<1> QED
  BY <1>1, <1>2, <1>3, <1>4, <1>5, <1>6, <1>7, <1>8, <1>9 DEF Push, PageMade, BindingsMade

LEMMA PullMakes ==
  ASSUME TypeInv, Pull
  PROVE  PageMade /\ BindingsMade
<1>0. run \in Runs
  BY DEF TypeInv, SyncTyped
<1>1. ASSUME NEW confirm \in BOOLEAN, StartPull(confirm)
      PROVE  run'.queue = NoMap /\ run'.bindings = disk.bindings
  BY <1>1 DEF StartPull, Idle
<1>2. CASE PullList
  <2> DEFINE listed == {r \in Live(remote) : remote[r].st = run.state}
             page == Page(remote, listed, run.offset, PageSize)
             known == {r \in page : run.floor # 0 /\ remote[r].ut <= run.floor}
             S == {r \in page \ known : Importable(remote[r])}
  <2>1. S \in SUBSET Live(remote)
    BY DEF Page
  <2>2. run'.queue = Restrict(remote, S) /\ run'.bindings = run.bindings
    BY <1>0, <1>2 DEF PullList, Runs
  <2> HIDE DEF S
  <2> QED
    BY <2>1, <2>2 DEF PageMade, BindingsMade
<1>3. CASE PullUnchanged \/ PullKnown \/ PullArchive \/ PullSkip \/ PullMeta
  <2>1. run'.queue \in {run.queue, Rest} /\ run'.bindings = run.bindings
    BY ZenonT(60), <1>0, <1>3 DEF PullUnchanged, PullKnown, PullArchive, PullSkip, Skip, PullMeta, Runs
  <2> QED
    BY <2>1 DEF PageMade, BindingsMade
<1>4. CASE PullReadMeta
  <2>1. \/ run' = [run EXCEPT !.pc = "pullItem", !.queue = Rest]
        \/ run' = [run EXCEPT !.pc = "pullMeta", !.mask = Differing]
    BY <1>4 DEF PullReadMeta
  <2>2. run'.queue \in {run.queue, Rest} /\ run'.bindings = run.bindings
    BY ZenonT(60), <1>0, <2>1 DEF Runs
  <2> QED
    BY <2>2 DEF PageMade, BindingsMade
<1>5. CASE PullChanged
  <2>1. \/ run' = [run EXCEPT !.bindings = Drop(@, Head), !.imported = @ \ {Head}]
        \/ run' = [run EXCEPT !.queue = Rest]
        \/ run' = [run EXCEPT !.pc = "pullWrite"]
    BY <1>5 DEF PullChanged
  <2>2. /\ run'.queue \in {run.queue, Rest}
        /\ run'.bindings = run.bindings \/ run'.bindings = Drop(run.bindings, Head)
    BY ZenonT(60), <1>0, <2>1 DEF Runs
  <2> QED
    BY <2>2 DEF PageMade, BindingsMade
<1>6. CASE PullWrite
  <2> DEFINE b == Bound(BoundLocal, run.queue[Head].ut, run.queue[Head].ut)
  <2>1. \/ run' = [run EXCEPT !.pc = "pullItem", !.queue = Rest,
                              !.bindings = Put(@, Head, b), !.imported = @ \cup {Head}]
        \/ run' = [run EXCEPT !.pc = "pullItem", !.queue = Rest]
    BY <1>6 DEF PullWrite
  <2> HIDE DEF b
  <2>2. /\ run'.queue = Rest
        /\ run'.bindings = run.bindings \/ run'.bindings = Put(run.bindings, Head, b)
    BY ZenonT(60), <1>0, <2>1 DEF Runs
  <2> QED
    BY <2>2 DEF PageMade, BindingsMade, b
<1>7. CASE PullAdopt
  <2>1. PICK l : run' = [run EXCEPT !.queue = Rest,
                            !.bindings = Put(@, Head, Bound(l, run.queue[Head].ut, 0)),
                            !.imported = @ \cup {Head}]
    BY <1>7 DEF PullAdopt
  <2>2. run'.queue = Rest /\ run'.bindings = Put(run.bindings, Head, Bound(l, run.queue[Head].ut, 0))
    BY <1>0, <2>1 DEF Runs
  <2> QED
    BY <2>2 DEF PageMade, BindingsMade
<1>8. CASE PullCreate
  <2>1. /\ run'.queue = Rest
        /\ run'.bindings = Put(run.bindings, Head,
                               Bound(NextId(local), run.queue[Head].ut, run.queue[Head].ut))
    BY <1>0, <1>8 DEF PullCreate, Runs
  <2> QED
    BY <2>1 DEF PageMade, BindingsMade
<1>9. CASE PullPageDone
  <2>1. run'.queue = run.queue /\ run'.bindings = run.bindings
    BY <1>0, <1>9 DEF PullPageDone, Runs
  <2> QED
    BY <2>1 DEF PageMade, BindingsMade
<1>10. CASE PullProbe
  BY ZenonT(60), <1>0, <1>10 DEF PullProbe, Runs, PageMade, BindingsMade
<1>11. CASE PullSweep \/ PullDone
  BY <1>0, <1>11 DEF PullSweep, StopToAsk, PullDone, Idle, Runs, PageMade, BindingsMade
<1>12. CASE PullDelete
  <2>1. PICK r : \/ run' = [run EXCEPT !.orphans = @ \ {r}, !.deleted = @ + 1,
                                      !.bindings = Drop(@, r), !.imported = @ \ {r}]
                 \/ run' = [run EXCEPT !.orphans = @ \ {r}]
    BY <1>12 DEF PullDelete
  <2>2. run'.queue = run.queue /\ run'.bindings \in {run.bindings, Drop(run.bindings, r)}
    BY ZenonT(60), <1>0, <2>1 DEF Runs
  <2> QED
    BY <2>2 DEF PageMade, BindingsMade
<1> QED
  BY <1>1, <1>2, <1>3, <1>4, <1>5, <1>6, <1>7, <1>8, <1>9, <1>10, <1>11, <1>12
     DEF Pull, PageMade, BindingsMade
--------------------------------------------------------------------------------
(* The steps of the runs. *)
LEMMA PageOfVersions ==
  ASSUME PageMade
  PROVE  InPage(run'.queue) \subseteq Versions
<1>1. CASE run'.queue \in {run.queue, Rest, NoMap}
  BY <1>1, RestVersions, NoVersions DEF Versions
<1>2. CASE \E S \in SUBSET Live(local) : run'.queue = Restrict(local, S)
  BY <1>2, PageVersions DEF Versions
<1>3. CASE \E S \in SUBSET Live(remote) : run'.queue = Restrict(remote, S)
  BY <1>3, PageVersions DEF Versions
<1> QED
  BY <1>1, <1>2, <1>3 DEF PageMade

LEMMA OneTimeMade ==
  ASSUME OneTimes, BindingsMade
  PROVE  OneTime(run'.bindings)
<1>1. CASE run'.bindings \in {run.bindings, disk.bindings, NoMap}
  BY <1>1 DEF OneTimes, OneTime, NoMap
<1>2. ASSUME NEW r, run'.bindings = Drop(run.bindings, r)
      PROVE  OneTime(run'.bindings)
  BY <1>2 DEF OneTimes, OneTime, Drop, Restrict
<1>3. ASSUME NEW r, NEW l, NEW t, NEW u \in {0, t}, run'.bindings = Put(run.bindings, r, Bound(l, t, u))
      PROVE  OneTime(run'.bindings)
  BY <1>3 DEF OneTimes, OneTime, Put, Bound
<1> QED
  BY <1>1, <1>2, <1>3 DEF BindingsMade

LEMMA OneTimesKept ==
  ASSUME TypeInv, OneTimes, [Next]_vars, OneTime(run'.bindings)
  PROVE  OneTimes'
<1>1. OneTime(NoMap)
  BY DEF OneTime, NoMap
<1>2. OneTime(disk'.bindings) /\ OneTime(backup'.bindings)
  BY <1>1, StoredBindings DEF OneTimes
<1> QED
  BY <1>2 DEF OneTimes

(* The memo in hand, and what it is written over. *)
LEMMA HandVersion ==
  ASSUME TypeInv, StampInv, DOMAIN run.queue # {}
  PROVE  /\ run.queue[Head] \in Versions /\ run.queue[Head] \in Memo
         /\ Plain(run.queue[Head], clock)
<1>1. Head \in DOMAIN run.queue /\ run.queue[Head] \in Memo
  BY HeadInQueue DEF TypeInv
<1> QED
  BY <1>1 DEF StampInv, AllPlain, Versions, InPage

LEMMA LiveVersion ==
  ASSUME TypeInv, StampInv, NEW T \in {local, remote}, NEW i \in Live(T)
  PROVE  T[i] \in Memo /\ Plain(T[i], clock) /\ i \in Ids /\ T \in Table
<1>1. T \in Table
  BY DEF TypeInv, SyncTyped
<1> QED
  BY <1>1, LiveMemo DEF StampInv, AllPlain, Versions, Memos

LEMMA PushTells ==
  ASSUME TypeInv, StampInv, Push
  PROVE  StampInv'
<1>0. run \in Runs /\ local \in Table /\ remote \in Table /\ clock' = clock /\ local' = local
  BY DEF TypeInv, SyncTyped, Push, StartPush, PushList, PushUpdate, PushUpdateMissing, PushCreate,
     PushArchive, PushSkip, Skip, PushPageDone, PushProbe, PushSweep, StopToAsk, PushDelete, PushDone
<1>1. InPage(run'.queue) \subseteq Versions
  BY PushMakes, PageOfVersions
<1>2. OneTimes'
  BY PushMakes, OneTimeMade, OneTimesKept DEF StampInv, Next
<1> DEFINE m == run.queue[Head]
<1>3. ASSUME NEW n, SameVersion(n, m), m \in Versions, NEW i, remote' = [remote EXCEPT ![i] = n]
      PROVE  AllPlain' /\ TimesTell'
  <2>1. \A j \in Ids : remote'[j] = remote[j] \/ remote'[j] = n
    BY <1>0, <1>3 DEF Table
  <2>2. Memos(local)' \subseteq Versions \cup {n} /\ Memos(remote)' \subseteq Versions \cup {n}
    BY <1>0, <2>1, WriteVersions DEF Versions
  <2> QED
    BY <1>0, <1>1, <1>3, <2>2, InHandWritten
<1>4. CASE PushUpdate
  <2> DEFINE r == run.look[Head]
             n == UpdateMemo(remote[r], m, SyncMask, clock)
  <2>1. DOMAIN run.queue # {} /\ r \in Live(remote) /\ remote' = [remote EXCEPT ![r] = n]
    BY <1>4 DEF PushUpdate, AtItem
  <2>2. run'.pc = "pushItem"
    BY <1>0, <1>4 DEF PushUpdate, AtItem, Runs
  <2>3. m \in Versions /\ SameVersion(n, m)
    BY <2>1, HandVersion, LiveVersion, UpdateCopies
  <2> HIDE DEF n, m, r
  <2> QED
    BY <1>2, <1>3, <2>1, <2>2, <2>3 DEF StampInv, NoMetadata
<1>5. CASE PushCreate
  <2>1. DOMAIN run.queue # {} /\ remote' = [remote EXCEPT ![NextId(remote)] = CreateMemo(m)]
    BY <1>5 DEF PushCreate, AtItem
  <2>2. m \in Versions /\ SameVersion(CreateMemo(m), m) /\ m.st = "NORMAL"
    BY <2>1, HandVersion, CreateCopies DEF Plain
  <2>3. run'.pc = "pushItem"
    BY <1>0, <1>5, <2>2 DEF PushCreate, AtItem, Runs
  <2> HIDE DEF m
  <2> QED
    BY <1>2, <1>3, <2>1, <2>2, <2>3 DEF StampInv, NoMetadata
<1>6. CASE PushDelete
  <2>1. \E r : remote' = remote \/ remote' = DeleteMemo(remote, r)
    BY <1>6 DEF PushDelete, RemoteAfterDelete
  <2>2. Memos(local)' \subseteq Versions /\ Memos(remote)' \subseteq Versions
    BY <1>0, <2>1, DeleteVersions DEF Versions
  <2>3. AllPlain' /\ TimesTell'
    BY <1>0, <1>1, <2>2, NothingWritten
  <2>4. run'.pc = "pushDelete"
    BY ZenonT(60), <1>0, <1>6 DEF PushDelete, Runs
  <2> QED
    BY <1>2, <2>3, <2>4 DEF StampInv, NoMetadata
<1>7. CASE PushArchive
  BY <1>7 DEF PushArchive, StampInv, NoMetadata
<1>8. CASE \/ \E confirm \in BOOLEAN : StartPush(confirm)
           \/ PushList \/ PushUpdateMissing \/ PushSkip \/ PushPageDone \/ PushProbe
           \/ PushSweep \/ PushDone
  <2>1. Memos(local)' \subseteq Versions /\ Memos(remote)' \subseteq Versions
    <3>1. remote' = remote
      BY <1>8 DEF StartPush, PushList, PushUpdateMissing, PushSkip, Skip, PushPageDone, PushProbe,
         PushSweep, StopToAsk, PushDone
    <3> QED
      BY <1>0, <3>1 DEF Versions
  <2>2. AllPlain' /\ TimesTell'
    BY <1>0, <1>1, <2>1, NothingWritten
  <2>3. run'.pc \in {"idle", "pushList", "pushItem", "pushProbe", "pushDelete"}
    <3>1. CASE \E confirm \in BOOLEAN : StartPush(confirm)
      BY <3>1 DEF StartPush, Idle
    <3>2. CASE PushProbe
      BY ZenonT(60), <1>0, <3>2 DEF PushProbe, Runs
    <3>3. CASE PushList \/ PushUpdateMissing \/ PushSkip \/ PushPageDone
      BY ZenonT(60), <1>0, <3>3 DEF PushList, PushUpdateMissing, PushSkip, Skip, AtItem, PushPageDone, Runs
    <3>4. CASE PushSweep \/ PushDone
      BY <1>0, <3>4 DEF PushSweep, StopToAsk, PushDone, Idle, Runs
    <3> QED
      BY <1>8, <3>1, <3>2, <3>3, <3>4
  <2> QED
    BY <1>2, <2>2, <2>3 DEF StampInv, NoMetadata
<1> QED
  BY SMTT(30), <1>4, <1>5, <1>6, <1>7, <1>8 DEF Push

(* Bound memos of the same update time differ in nothing that metadata     *)
(* sync would look at.                                                     *)
LEMMA NothingDiffers ==
  ASSUME TypeInv, StampInv, DOMAIN run.queue # {}, BoundLocal \in Live(local)
  PROVE  Differing = {}
<1>1. Plain(run.queue[Head], clock) /\ Plain(local[BoundLocal], clock)
      /\ run.queue[Head] \in Memo /\ local[BoundLocal] \in Memo
  BY HandVersion, LiveVersion
<1> QED
  BY <1>1 DEF Differing, MetaMask, Plain, Memo

LEMMA PullTells ==
  ASSUME TypeInv, StampInv, Pull
  PROVE  StampInv'
<1>0. run \in Runs /\ local \in Table /\ remote \in Table /\ clock' = clock /\ remote' = remote
  BY PullEffects DEF TypeInv, SyncTyped, Pull, StartPull, PullList, PullUnchanged, PullReadMeta, PullMeta,
     PullChanged, PullWrite, PullKnown, PullAdopt, PullCreate, PullArchive, PullSkip, Skip,
     PullPageDone, PullProbe, PullSweep, StopToAsk, PullDelete, PullDone
<1>1. InPage(run'.queue) \subseteq Versions
  BY PullMakes, PageOfVersions
<1>2. OneTimes'
  BY PullMakes, OneTimeMade, OneTimesKept DEF StampInv, Next
<1> DEFINE m == run.queue[Head]
<1>3. ASSUME NEW n, SameVersion(n, m), m \in Versions, NEW i, local' = [local EXCEPT ![i] = n]
      PROVE  AllPlain' /\ TimesTell'
  <2>1. \A j \in Ids : local'[j] = local[j] \/ local'[j] = n
    BY <1>0, <1>3 DEF Table
  <2>2. Memos(local)' \subseteq Versions \cup {n} /\ Memos(remote)' \subseteq Versions \cup {n}
    BY <1>0, <2>1, WriteVersions DEF Versions
  <2> QED
    BY <1>0, <1>1, <1>3, <2>2, InHandWritten
<1>a. ASSUME local' = local PROVE AllPlain' /\ TimesTell'
  BY <1>0, <1>1, <1>a, NothingWritten DEF Versions
<1>4. CASE PullWrite
  <2> DEFINE n == UpdateMemo(local[BoundLocal], m, SyncMask, clock)
  <2>1. \/ BoundLocal \in Live(local) /\ local' = [local EXCEPT ![BoundLocal] = n]
        \/ local' = local
    BY <1>4 DEF PullWrite
  <2>2. run'.pc = "pullItem" /\ DOMAIN run.queue # {}
    BY ZenonT(60), <1>0, <1>4 DEF PullWrite, Runs, TypeInv, ItemInHand
  <2>3. BoundLocal \in Live(local) => m \in Versions /\ SameVersion(n, m)
    BY <2>2, HandVersion, LiveVersion, UpdateCopies
  <2> HIDE DEF n, m
  <2> QED
    BY <1>2, <1>3, <1>a, <2>1, <2>2, <2>3 DEF StampInv, NoMetadata
<1>5. CASE PullCreate
  <2>1. DOMAIN run.queue # {} /\ local' = [local EXCEPT ![NextId(local)] = CreateMemo(m)]
    BY <1>5 DEF PullCreate, IsNew, AtItem
  <2>2. m \in Versions /\ SameVersion(CreateMemo(m), m) /\ m.st = "NORMAL"
    BY <2>1, HandVersion, CreateCopies DEF Plain
  <2>3. run'.pc = "pullItem"
    BY <1>0, <1>5, <2>2 DEF PullCreate, IsNew, AtItem, Runs
  <2> HIDE DEF m
  <2> QED
    BY <1>2, <1>3, <2>1, <2>2, <2>3 DEF StampInv, NoMetadata
<1>6. CASE PullDelete
  <2>1. \E l : local' = local \/ local' = DeleteMemo(local, l)
    BY <1>6 DEF PullDelete
  <2>2. Memos(local)' \subseteq Versions /\ Memos(remote)' \subseteq Versions
    BY <1>0, <2>1, DeleteVersions DEF Versions
  <2>3. AllPlain' /\ TimesTell'
    BY <1>0, <1>1, <2>2, NothingWritten
  <2>4. run'.pc = "pullDelete"
    BY ZenonT(60), <1>0, <1>6 DEF PullDelete, Runs
  <2> QED
    BY <1>2, <2>3, <2>4 DEF StampInv, NoMetadata
<1>7. CASE PullReadMeta \/ PullMeta \/ PullArchive
  BY <1>7 DEF PullReadMeta, PullMeta, PullArchive, StampInv, NoMetadata
<1>8. CASE PullUnchanged
  <2>1. BoundLocal \in Live(local) => Differing = {}
    BY <1>8, NothingDiffers DEF PullUnchanged, AtItem
  <2>2. local' = local /\ run'.pc = "pullItem"
    BY <1>0, <1>8, <2>1 DEF PullUnchanged, AtItem, Runs
  <2> QED
    BY <1>2, <1>a, <2>2 DEF StampInv, NoMetadata
<1>9. CASE \/ \E confirm \in BOOLEAN : StartPull(confirm)
           \/ PullList \/ PullChanged \/ PullKnown \/ PullAdopt \/ PullSkip \/ PullPageDone
           \/ PullProbe \/ PullSweep \/ PullDone
  <2>1. local' = local
    BY <1>9 DEF StartPull, PullList, PullChanged, PullKnown, PullAdopt, PullSkip, Skip, PullPageDone,
       PullProbe, PullSweep, StopToAsk, PullDone
  <2>2. run'.pc \in {"idle", "pullList", "pullItem", "pullWrite", "pullProbe", "pullDelete"}
    <3>1. CASE \E confirm \in BOOLEAN : StartPull(confirm)
      BY <3>1 DEF StartPull, Idle
    <3>2. CASE PullProbe
      BY ZenonT(60), <1>0, <3>2 DEF PullProbe, Runs
    <3>3. CASE PullList \/ PullKnown \/ PullSkip
      BY ZenonT(60), <1>0, <3>3 DEF PullList, PullKnown, PullSkip, Skip, AtItem, Runs
    <3>7. CASE PullChanged
      BY <1>0, <3>7 DEF PullChanged, AtItem, Runs
    <3>4. CASE PullAdopt
      BY <1>0, <3>4 DEF PullAdopt, IsNew, AtItem, Runs
    <3>5. CASE PullPageDone
      BY <1>0, <3>5 DEF PullPageDone, Runs
    <3>6. CASE PullSweep \/ PullDone
      BY <1>0, <3>6 DEF PullSweep, StopToAsk, PullDone, Idle, Runs
    <3> QED
      BY <1>9, <3>1, <3>2, <3>3, <3>4, <3>5, <3>6, <3>7
  <2> QED
    BY SMTT(30), <1>2, <1>a, <2>1, <2>2 DEF StampInv, NoMetadata
<1> QED
  BY <1>4, <1>5, <1>6, <1>7, <1>8, <1>9 DEF Pull

LEMMA StampStep ==
  ASSUME TypeInv, TypeInv', StampInv, EditFields \subseteq {"text"}, SameSecond = FALSE, [Next]_vars
  PROVE  StampInv'
<1>1. CASE Push
  BY <1>1, PushTells
<1>2. CASE Pull
  BY <1>2, PullTells
<1>3. CASE LocalUser \/ RemoteUser
  <2>1. run' = run
    BY <1>3 DEF LocalUser, LocalCreate, LocalEdit, LocalDelete, RemoteUser, RemoteCreate,
       RemoteEdit, RemoteDelete
  <2>2. OneTimes'
    BY <2>1, OneTimesKept DEF StampInv, OneTimes
  <2> QED
    BY <1>3, <2>1, <2>2, UsersTell DEF StampInv, NoMetadata
<1>4. CASE SettingsPage \/ Abort \/ UNCHANGED vars
  <2>1. /\ clock' = clock /\ local' = local /\ remote' = remote
        /\ run' = run \/ run' = Idle
    BY <1>4 DEF SettingsPage, ResetMetadata, ExportMetadata, ImportMetadata, Abort, vars
  <2>2. /\ Idle.queue = NoMap /\ Idle.bindings = NoMap /\ Idle.pc = "idle"
    BY DEF Idle
  <2>3. OneTime(run'.bindings) /\ InPage(run'.queue) \subseteq Versions
    BY <2>1, <2>2, NoVersions DEF StampInv, OneTimes, OneTime, NoMap, Versions
  <2>4. OneTimes' /\ AllPlain' /\ TimesTell'
    BY <2>1, <2>3, OneTimesKept, NothingWritten DEF StampInv, Versions
  <2> QED
    BY <2>1, <2>2, <2>4 DEF StampInv, NoMetadata
<1> QED
  BY <1>1, <1>2, <1>3, <1>4 DEF Next

LEMMA StampInit == Init => StampInv
<1> SUFFICES ASSUME Init PROVE StampInv
  OBVIOUS
<1>1. /\ Memos(local) = {} /\ Memos(remote) = {}
  BY DEF Init, EmptyTable, Memos, Live
<1>2. /\ InPage(run.queue) = {} /\ run.pc = "idle"
  BY NoVersions DEF Init, Idle
<1>3. OneTimes
  BY DEF Init, EmptyDisk, Idle, OneTimes, OneTime, NoMap
<1> QED
  BY <1>1, <1>2, <1>3 DEF StampInv, AllPlain, TimesTell, NoMetadata, Versions

(* The rule that skips a memo is sound, with every fault, as long as the   *)
(* users edit the text alone and no two of them in the same second: what   *)
(* still has the update times of its binding is equal on both sides.       *)
THEOREM PairsAgree ==
  ASSUME EditFields \subseteq {"text"}, SameSecond = FALSE
  PROVE  Spec => []SyncedPairsAgree
<1>1. TypeInv /\ TypeInv' /\ StampInv /\ [Next]_vars => StampInv'
  BY StampStep
<1>2. TypeInv /\ StampInv => SyncedPairsAgree
  <2> SUFFICES ASSUME TypeInv, StampInv, NEW B \in {disk.bindings, run.bindings}, NEW r \in DOMAIN B,
                      r \in Live(remote), B[r].local \in Live(local),
                      B[r].rut = remote[r].ut, B[r].lut = local[B[r].local].ut
               PROVE  local[B[r].local].text = remote[r].text /\ local[B[r].local].vis = remote[r].vis
    BY DEF SyncedPairsAgree
  <2>1. B[r].lut \in {0, B[r].rut}
    BY DEF StampInv, OneTimes, OneTime
  <2>2. Plain(local[B[r].local], clock) /\ Plain(remote[r], clock)
    BY LiveVersion
  <2>3. local[B[r].local] \in Versions /\ remote[r] \in Versions
    BY DEF Versions, Memos
  <2> QED
    BY <2>1, <2>2, <2>3 DEF Plain, StampInv, TimesTell
<1> QED
  BY <1>1, <1>2, StampInit, SyncInvariant, PTL DEF Spec

--------------------------------------------------------------------------------
(* No memo is there twice, provided that no run is cut off and no binding  *)
(* is lost or restored, and that no two memos are created in the same      *)
(* second.  Then two live memos have the same time of creation exactly if  *)
(* they are bound to each other, in the tables as well as in the page in   *)
(* hand, and a live local memo is bound to one remote memo at most.        *)
Binds(B, r, l) == r \in DOMAIN B /\ B[r].local = l

Created(T, now) == \A i \in Live(T) : T[i].ct <= now
Once(T) == \A i, j \in Live(T) : T[i].ct = T[j].ct => i = j

Paired(L, R, B) ==
    /\ \A l \in Live(L), r \in Live(R) : L[l].ct = R[r].ct <=> Binds(B, r, l)
    /\ \A r, l \in Ids : Binds(B, r, l) => L[l] # Fresh /\ R[r] # Fresh
    /\ \A l \in Live(L), r, s \in Ids : Binds(B, r, l) /\ Binds(B, s, l) => r = s

Matched(L, R, B, now) ==
    Created(L, now) /\ Created(R, now) /\ Once(L) /\ Once(R) /\ Paired(L, R, B)

(* The page q of the table T. *)
Listed(T, q, now) ==
    /\ \A i \in DOMAIN q :
         T[i] # Fresh /\ q[i].ct <= now /\ (i \in Live(T) => q[i].ct = T[i].ct)
    /\ \A i, j \in DOMAIN q : q[i].ct = q[j].ct => i = j
    /\ \A i \in DOMAIN q, j \in Live(T) : q[i].ct = T[j].ct => i = j

PushMatched(R, B, q) ==
    \A l \in DOMAIN q, r \in Live(R) : q[l].ct = R[r].ct <=> Binds(B, r, l)
PullMatched(L, B, q) ==
    \A r \in DOMAIN q, l \in Live(L) : q[r].ct = L[l].ct <=> Binds(B, r, l)

LooksFound(L, B, q, look) ==
    \A r, l \in Ids :
      Binds(B, r, l) /\ (l \in Live(L) \/ l \in DOMAIN q) => l \in DOMAIN look /\ look[l] = r
PrintsKnown(L, prints) ==
    \A l \in DOMAIN prints : L[l] # Fresh /\ (l \in Live(L) => prints[l][2] = L[l].ct)

PushPage(L, R, B, q, look, now) ==
    Listed(L, q, now) /\ PushMatched(R, B, q) /\ LooksFound(L, B, q, look)
PullPage(L, R, B, q, prints, now) ==
    Listed(R, q, now) /\ PullMatched(L, B, q) /\ PrintsKnown(L, prints)

--------------------------------------------------------------------------------
(* What the users do to a table, and a run that gives no memo another time *)
(* of creation: one memo at most is new, and later than all others.        *)
Evolves(T, U, now) ==
    /\ \A i \in Ids : T[i] # Fresh => U[i] # Fresh
    /\ \A i \in Live(U) :
         \/ i \in Live(T) /\ U[i].ct = T[i].ct
         \/ T[i] = Fresh /\ U[i].ct > now
    /\ \A i, j \in Live(U) : T[i] = Fresh /\ T[j] = Fresh => i = j
Rewrites(T, U) ==
    /\ \A i \in Ids : T[i] # Fresh => U[i] # Fresh
    /\ \A i \in Live(U) : i \in Live(T) /\ U[i].ct = T[i].ct

LEMMA LiveTyped ==
  ASSUME NEW T \in Table
  PROVE  \A i \in Live(T) : i \in Ids /\ T[i].ct \in Int /\ T[i] # Fresh /\ T[i] # Gone
BY LiveMemo DEF Memo, Live

LEMMA PageTyped ==
  ASSUME NEW q \in Partial(Ids, Memo)
  PROVE  \A i \in DOMAIN q : i \in Ids /\ q[i] \in Memo /\ q[i].ct \in Int
<1>1. \A i \in DOMAIN q : i \in Ids /\ q[i] \in Memo
  BY PartialMember
<1> QED
  BY <1>1 DEF Memo

LEMMA RewritesEvolves ==
  ASSUME NEW T, NEW U, NEW now, Rewrites(T, U)
  PROVE  Evolves(T, U, now)
BY DEF Rewrites, Evolves, Live

LEMMA MatchedEvolves ==
  ASSUME NEW L \in Table, NEW R \in Table, NEW B, NEW now \in Int, Matched(L, R, B, now),
         NEW L2 \in Table, NEW R2 \in Table, NEW now2 \in Int, now <= now2,
         Created(L2, now2), Created(R2, now2),
         \/ Evolves(L, L2, now) /\ Rewrites(R, R2)
         \/ Rewrites(L, L2) /\ Evolves(R, R2, now)
  PROVE  Matched(L2, R2, B, now2)
<1>1. Evolves(L, L2, now) /\ Evolves(R, R2, now)
  BY RewritesEvolves
<1>2. /\ \A i \in Live(L) \cup Live(L2) : i \in Ids
      /\ \A i \in Live(R) \cup Live(R2) : i \in Ids
      /\ \A i \in Live(L) : L[i].ct \in Int /\ L[i].ct <= now /\ L[i] # Fresh
      /\ \A i \in Live(R) : R[i].ct \in Int /\ R[i].ct <= now /\ R[i] # Fresh
      /\ \A i \in Live(L2) : L2[i].ct \in Int
      /\ \A i \in Live(R2) : R2[i].ct \in Int
  BY LiveTyped DEF Matched, Created
<1>3. Once(L2) /\ Once(R2)
  BY <1>1, <1>2 DEF Matched, Once, Evolves
<1>4. \A l \in Live(L2), r \in Live(R2) : L2[l].ct = R2[r].ct <=> Binds(B, r, l)
  <2> SUFFICES ASSUME NEW l \in Live(L2), NEW r \in Live(R2)
               PROVE  L2[l].ct = R2[r].ct <=> Binds(B, r, l)
    OBVIOUS
  <2>1. CASE l \in Live(L) /\ r \in Live(R)
    BY <1>1, <1>2, <2>1 DEF Matched, Paired, Evolves
  <2>2. CASE L[l] = Fresh
    <3>1. L2[l].ct > now /\ ~Binds(B, r, l) /\ r \in Live(R) /\ R2[r].ct = R[r].ct
      BY <1>1, <1>2, <2>2 DEF Matched, Paired, Evolves, Rewrites
    <3> QED
      BY <1>2, <3>1
  <2>3. CASE R[r] = Fresh
    <3>1. R2[r].ct > now /\ ~Binds(B, r, l) /\ l \in Live(L) /\ L2[l].ct = L[l].ct
      BY <1>1, <1>2, <2>3 DEF Matched, Paired, Evolves, Rewrites
    <3> QED
      BY <1>2, <3>1
  <2> QED
    BY <1>1, <2>1, <2>2, <2>3 DEF Evolves
<1>5. \A r, l \in Ids : Binds(B, r, l) => L2[l] # Fresh /\ R2[r] # Fresh
  BY <1>1 DEF Matched, Paired, Evolves
<1>6. \A l \in Live(L2), r, s \in Ids : Binds(B, r, l) /\ Binds(B, s, l) => r = s
  BY <1>1, <1>2 DEF Matched, Paired, Evolves
<1> QED
  BY <1>3, <1>4, <1>5, <1>6 DEF Matched, Paired

LEMMA ListedEvolves ==
  ASSUME NEW T \in Table, NEW U \in Table, NEW q \in Partial(Ids, Memo), NEW now \in Int,
         NEW now2 \in Int, now <= now2, Listed(T, q, now), Evolves(T, U, now)
  PROVE  Listed(U, q, now2)
<1>1. \A i \in DOMAIN q : i \in Ids /\ q[i].ct \in Int
  BY PageTyped
<1>2. \A i \in Live(U) : i \in Ids /\ U[i].ct \in Int
  BY LiveTyped
<1>3. \A i \in DOMAIN q :
         U[i] # Fresh /\ q[i].ct <= now2 /\ (i \in Live(U) => q[i].ct = U[i].ct)
  BY <1>1 DEF Listed, Evolves
<1>4. \A i \in DOMAIN q, j \in Live(U) : q[i].ct = U[j].ct => i = j
  BY <1>1, <1>2 DEF Listed, Evolves
<1> QED
  BY <1>3, <1>4 DEF Listed

LEMMA PushPageEvolves ==
  ASSUME NEW L \in Table, NEW R \in Table, NEW B, NEW now \in Int, Matched(L, R, B, now),
         NEW L2 \in Table, NEW R2 \in Table, NEW now2 \in Int, now <= now2,
         Evolves(L, L2, now), Evolves(R, R2, now),
         NEW q \in Partial(Ids, Memo), NEW look, PushPage(L, R, B, q, look, now)
  PROVE  PushPage(L2, R2, B, q, look, now2)
<1>1. \A i \in DOMAIN q : i \in Ids /\ q[i].ct \in Int /\ q[i].ct <= now
  BY PageTyped DEF PushPage, Listed
<1>2. /\ \A i \in Live(R2) : i \in Ids /\ R2[i].ct \in Int
      /\ \A i \in Live(L2) : i \in Ids
  BY LiveTyped
<1>3. Listed(L2, q, now2)
  BY ListedEvolves DEF PushPage
<1>4. PushMatched(R2, B, q)
  BY <1>1, <1>2 DEF PushPage, PushMatched, Evolves, Matched, Paired
<1>5. LooksFound(L2, B, q, look)
  BY <1>2 DEF PushPage, LooksFound, Evolves, Matched, Paired
<1> QED
  BY <1>3, <1>4, <1>5 DEF PushPage

LEMMA PullPageEvolves ==
  ASSUME NEW L \in Table, NEW R \in Table, NEW B, NEW now \in Int, Matched(L, R, B, now),
         NEW L2 \in Table, NEW R2 \in Table, NEW now2 \in Int, now <= now2,
         Evolves(L, L2, now), Evolves(R, R2, now),
         NEW q \in Partial(Ids, Memo), NEW prints, DOMAIN prints \subseteq Ids,
         PullPage(L, R, B, q, prints, now)
  PROVE  PullPage(L2, R2, B, q, prints, now2)
<1>1. \A i \in DOMAIN q : i \in Ids /\ q[i].ct \in Int /\ q[i].ct <= now
  BY PageTyped DEF PullPage, Listed
<1>2. \A i \in Live(L2) : i \in Ids /\ L2[i].ct \in Int
  BY LiveTyped
<1>3. Listed(R2, q, now2)
  BY ListedEvolves DEF PullPage
<1>4. PullMatched(L2, B, q)
  BY <1>1, <1>2 DEF PullPage, PullMatched, Evolves, Matched, Paired
<1>5. PrintsKnown(L2, prints)
  BY <1>2 DEF PullPage, PrintsKnown, Evolves
<1> QED
  BY <1>3, <1>4, <1>5 DEF PullPage
--------------------------------------------------------------------------------
(* What the steps of a run do to the page and to the bindings.             *)
LEMMA PutBinds ==
  ASSUME NEW B, NEW k, NEW x, NEW rut, NEW lut
  PROVE  \A r, l : Binds(Put(B, k, Bound(x, rut, lut)), r, l)
                  <=> (r = k /\ l = x) \/ (r # k /\ Binds(B, r, l))
BY DEF Binds, Put, Bound

LEMMA DropBinds ==
  ASSUME NEW B, NEW k
  PROVE  \A r, l : Binds(Drop(B, k), r, l) <=> r # k /\ Binds(B, r, l)
BY DEF Binds, Drop, Restrict

(* A page as it is listed. *)
LEMMA PageListed ==
  ASSUME NEW T \in Table, NEW now, Created(T, now), Once(T), NEW S \in SUBSET Live(T)
  PROVE  Listed(T, Restrict(T, S), now)
BY LiveTyped DEF Listed, Created, Once, Restrict

(* The rest of a page. *)
LEMMA RestOfPage ==
  ASSUME NEW q, NEW k
  PROVE  /\ DOMAIN Drop(q, k) = DOMAIN q \ {k}
         /\ \A i \in DOMAIN Drop(q, k) : Drop(q, k)[i] = q[i]
BY DEF Drop, Restrict

LEMMA RestListed ==
  ASSUME NEW T, NEW q, NEW now, Listed(T, q, now), NEW k
  PROVE  Listed(T, Drop(q, k), now)
<1> DEFINE p == Drop(q, k)
<1>1. \A i \in DOMAIN p : i \in DOMAIN q /\ p[i] = q[i]
  BY RestOfPage
<1> HIDE DEF p
<1>2. Listed(T, p, now)
  BY <1>1 DEF Listed
<1> QED
  BY <1>2 DEF p

(* The memo in hand has been created on the other side, and is bound.      *)
LEMMA CreatedAndBound ==
  ASSUME NEW L \in Table, NEW R \in Table, NEW B, NEW now \in Int, Matched(L, R, B, now),
         NEW R2 \in Table, NEW n \in Ids, R[n] = Fresh, n \in Live(R2),
         \A j \in Ids \ {n} : R2[j] = R[j],
         NEW h \in Ids, L[h] # Fresh, R2[n].ct <= now, 
         h \in Live(L) => R2[n].ct = L[h].ct,
         \A r \in Ids : ~Binds(B, r, h),
         \A l \in Live(L) : L[l].ct = R2[n].ct => l = h,
         \A r \in Live(R) : R[r].ct # R2[n].ct,
         NEW C, \A r, l : Binds(C, r, l) <=> (r = n /\ l = h) \/ (r # n /\ Binds(B, r, l))
  PROVE  Matched(L, R2, C, now)
<1>1. /\ \A i \in Live(R2) : i = n \/ (i \in Live(R) /\ R2[i] = R[i])
      /\ n \notin Live(R) /\ \A i \in Live(R2) : i \in Ids
      /\ \A i \in Live(L) : i \in Ids
  BY LiveTyped DEF Live
<1>2. Created(R2, now) /\ Once(R2)
  BY <1>1 DEF Matched, Created, Once
<1>3. \A l \in Live(L), r \in Live(R2) : L[l].ct = R2[r].ct <=> Binds(C, r, l)
  BY <1>1 DEF Matched, Paired
<1>4. \A r, l \in Ids : Binds(C, r, l) => L[l] # Fresh /\ R2[r] # Fresh
  BY <1>1 DEF Matched, Paired, Live
<1>5. \A l \in Live(L), r, s \in Ids : Binds(C, r, l) /\ Binds(C, s, l) => r = s
  BY <1>1 DEF Matched, Paired
<1> QED
  BY <1>2, <1>3, <1>4, <1>5 DEF Matched, Paired

LEMMA ImportedAndBound ==
  ASSUME NEW L \in Table, NEW R \in Table, NEW B, NEW now \in Int, Matched(L, R, B, now),
         NEW L2 \in Table, NEW n \in Ids, L[n] = Fresh, n \in Live(L2),
         \A j \in Ids \ {n} : L2[j] = L[j],
         NEW h \in Ids, R[h] # Fresh, L2[n].ct <= now,
         h \in Live(R) => L2[n].ct = R[h].ct,
         \A l \in Ids : ~Binds(B, h, l),
         \A r \in Live(R) : R[r].ct = L2[n].ct => r = h,
         \A l \in Live(L) : L[l].ct # L2[n].ct,
         NEW C, \A r, l : Binds(C, r, l) <=> (r = h /\ l = n) \/ (r # h /\ Binds(B, r, l))
  PROVE  Matched(L2, R, C, now)
<1>1. /\ \A i \in Live(L2) : i = n \/ (i \in Live(L) /\ L2[i] = L[i])
      /\ n \notin Live(L) /\ \A i \in Live(L2) : i \in Ids
      /\ \A i \in Live(R) : i \in Ids
      /\ \A r \in Ids : ~Binds(B, r, n)
  BY LiveTyped DEF Live, Matched, Paired
<1>2. Created(L2, now) /\ Once(L2)
  BY <1>1 DEF Matched, Created, Once
<1>3. \A l \in Live(L2), r \in Live(R) : L2[l].ct = R[r].ct <=> Binds(C, r, l)
  BY <1>1 DEF Matched, Paired
<1>4. \A r, l \in Ids : Binds(C, r, l) => L2[l] # Fresh /\ R[r] # Fresh
  BY <1>1 DEF Matched, Paired, Live
<1>5. \A l \in Live(L2), r, s \in Ids : Binds(C, r, l) /\ Binds(C, s, l) => r = s
  BY <1>1 DEF Matched, Paired
<1> QED
  BY <1>2, <1>3, <1>4, <1>5 DEF Matched, Paired

(* A binding to a local memo that is gone, and one that goes.              *)
LEMMA BoundToGone ==
  ASSUME NEW L \in Table, NEW R \in Table, NEW B, NEW now \in Int, Matched(L, R, B, now),
         NEW h \in Ids, NEW x \in Ids, R[h] # Fresh, L[x] = Gone,
         \A l \in Ids : ~Binds(B, h, l),
         NEW C, \A r, l : Binds(C, r, l) <=> (r = h /\ l = x) \/ (r # h /\ Binds(B, r, l))
  PROVE  Matched(L, R, C, now)
<1>1. /\ x \notin Live(L) /\ \A l \in Live(L) : l \in Ids
      /\ \A r \in Live(R) : r \in Ids
  BY DEF Live
<1>2. \A l \in Live(L) : \A r : Binds(C, r, l) <=> Binds(B, r, l)
  BY <1>1
<1>3. \A r, l \in Ids : Binds(C, r, l) => L[l] # Fresh /\ R[r] # Fresh
  BY DEF Matched, Paired
<1> QED
  BY <1>1, <1>2, <1>3 DEF Matched, Paired

LEMMA BindingGoes ==
  ASSUME NEW L \in Table, NEW R \in Table, NEW B, NEW now \in Int, Matched(L, R, B, now),
         NEW k, k \in Live(R) => \A l \in Live(L) : ~Binds(B, k, l),
         NEW C, \A r, l : Binds(C, r, l) <=> r # k /\ Binds(B, r, l)
  PROVE  Matched(L, R, C, now)
<1>1. \A l \in Live(L), r \in Live(R) : Binds(C, r, l) <=> Binds(B, r, l)
  OBVIOUS
<1> QED
  BY <1>1 DEF Matched, Paired

LEMMA SameBinds ==
  ASSUME NEW L, NEW R, NEW B, NEW now, Matched(L, R, B, now),
         NEW C, \A r, l : Binds(C, r, l) <=> Binds(B, r, l)
  PROVE  Matched(L, R, C, now)
BY DEF Matched, Paired

(* What is written over a memo. *)
LEMMA UpdateRewrites ==
  ASSUME NEW T \in Table, NEW i \in Live(T), NEW m \in Memo, NEW mask, NEW now \in 0..MaxTime,
         "ct" \in mask => m.ct = T[i].ct
  PROVE  /\ [T EXCEPT ![i] = UpdateMemo(@, m, mask, now)] \in Table
         /\ Rewrites(T, [T EXCEPT ![i] = UpdateMemo(@, m, mask, now)])
<1> DEFINE n == UpdateMemo(T[i], m, mask, now)
<1>1. i \in Ids /\ T[i] \in Memo /\ n \in Memo
  BY LiveMemo, UpdateMemoType
<1>2. n.ct = T[i].ct
  <2> DEFINE k == [f \in Fields |-> IF f \in mask THEN m[f] ELSE T[i][f]]
  <2>1. n = IF "ut" \in mask THEN k ELSE [k EXCEPT !["ut"] = now]
    BY DEF UpdateMemo
  <2>2. "ct" \in DOMAIN k /\ k["ct"] = T[i].ct
    BY DEF Fields
  <2> HIDE DEF k, n
  <2> QED
    BY <2>1, <2>2
<1> HIDE DEF n
<1>3. [T EXCEPT ![i] = n] \in Table
  BY <1>1, TableWrite
<1>4. Rewrites(T, [T EXCEPT ![i] = n])
  BY <1>1, <1>2, FreshGoneAreNoMemos DEF Rewrites, Live, Table
<1> QED
  BY <1>3, <1>4 DEF n

LEMMA DeleteRewrites ==
  ASSUME NEW T \in Table, NEW i
  PROVE  DeleteMemo(T, i) \in Table /\ Rewrites(T, DeleteMemo(T, i))
BY FreshGoneAreNoMemos DEF Rewrites, Live, Table, DeleteMemo

LEMMA SameRewrites == ASSUME NEW T PROVE Rewrites(T, T)
BY DEF Rewrites, Live

LEMMA RewritesCreated ==
  ASSUME NEW T, NEW U, NEW now, Created(T, now), Rewrites(T, U)
  PROVE  Created(U, now)
BY DEF Created, Rewrites
--------------------------------------------------------------------------------
(* Between two runs the bindings are those of the disk. *)
Bindings == IF run.pc = "idle" THEN disk.bindings ELSE run.bindings

OnceInv ==
    /\ Matched(local, remote, Bindings, clock)
    /\ run.pc \in PushWork =>
         PushPage(local, remote, run.bindings, run.queue, run.look, clock)
    /\ run.pc \in PullWork =>
         /\ PullPage(local, remote, run.bindings, run.queue, run.prints, clock)
         /\ run.orphans = {}
    /\ run.mask \subseteq {"vis", "pin", "st"}
    /\ run.pc \in {"pushProbe", "pullProbe"} => disk.bindings = run.bindings
    /\ run.pc \in {"pullProbe", "pullDelete"} =>
         /\ run.orphans \subseteq DOMAIN run.bindings
         /\ \A r \in run.orphans : remote[r] = Gone
    /\ run.pc = "pullProbe" => run.todo \subseteq DOMAIN run.bindings

LEMMA CreationEvolves ==
  ASSUME NEW T \in Table, NEW U, NEW text \in Texts, NEW t \in 0..MaxTime, NEW now \in 0..MaxTime, now < t,
         Unused(T) # {}, U = [T EXCEPT ![NextId(T)] = NewMemo(text, t)], Created(T, now)
  PROVE  Evolves(T, U, now) /\ Created(U, t)
<1> DEFINE n == NextId(T)
           m == NewMemo(text, t)
<1>1. n \in Ids /\ T[n] = Fresh /\ m \in Memo /\ m.ct = t
  BY NextIdFresh, NewMemoType DEF NewMemo
<1>2. /\ \A i \in Live(U) : i \in Ids /\ (i = n \/ (i \in Live(T) /\ U[i] = T[i]))
      /\ U[n] = m /\ m # Fresh
  BY <1>1, FreshGoneAreNoMemos DEF Live, Table
<1>3. \A i \in Ids : T[i] # Fresh => U[i] = T[i]
  BY <1>1 DEF Table
<1>4. \A i \in Live(T) : T[i] # Fresh /\ T[i].ct \in Int
  BY LiveTyped
<1> HIDE DEF n, m
<1>5. Evolves(T, U, now)
  BY <1>1, <1>2, <1>3, <1>4 DEF Evolves
<1>6. Created(U, t)
  BY <1>1, <1>2, <1>4 DEF Created
<1> QED
  BY <1>5, <1>6

LEMMA EditRewrites ==
  ASSUME NEW T \in Table, NEW i \in Live(T), NEW f \in EditFields, NEW v \in Values(f), NEW t \in 0..MaxTime
  PROVE  Rewrites(T, [T EXCEPT ![i] = Edited(T[i], f, v, t)])
<1>1. T[i] \in Memo /\ f # "ct" /\ i \in Ids
  BY LiveMemo
<1>2. [T[i] EXCEPT ![f] = v].ct = T[i].ct
  BY <1>1 DEF Memo
<1>3. Edited(T[i], f, v, t) \in Memo
  BY <1>1, EditedType
<1>4. Edited(T[i], f, v, t).ct = T[i].ct
  <2> DEFINE e == [T[i] EXCEPT ![f] = v]
             k == [g \in Fields |-> IF g \in {f} THEN e[g] ELSE T[i][g]]
  <2>1. Edited(T[i], f, v, t) = IF "ut" \in {f} THEN k ELSE [k EXCEPT !["ut"] = t]
    BY DEF Edited, UpdateMemo
  <2>2. "ct" \in DOMAIN k /\ k["ct"] = T[i].ct
    BY <1>1 DEF Fields
  <2> HIDE DEF k, e
  <2> QED
    BY <2>1, <2>2
<1> DEFINE n == Edited(T[i], f, v, t)
<1> HIDE DEF n
<1>5. n \in Memo /\ n.ct = T[i].ct
  BY <1>3, <1>4 DEF n
<1>6. Rewrites(T, [T EXCEPT ![i] = n])
  BY <1>1, <1>5, FreshGoneAreNoMemos DEF Rewrites, Live, Table
<1> QED
  BY <1>6 DEF n

LEMMA UsersEvolve ==
  ASSUME TypeInv, Created(local, clock), Created(remote, clock), SameSecond = FALSE,
         LocalUser \/ RemoteUser
  PROVE  /\ clock <= clock' /\ Created(local, clock)' /\ Created(remote, clock)'
         /\ \/ Evolves(local, local', clock) /\ Rewrites(remote, remote')
            \/ Rewrites(local, local') /\ Evolves(remote, remote', clock)
         /\ run' = run /\ disk' = disk
<1>0. /\ local \in Table /\ remote \in Table /\ clock \in 0..MaxTime
      /\ \A t : Now(t) => t \in 0..MaxTime /\ clock < t /\ clock' = t
  BY DEF TypeInv, SyncTyped, Now, Stamps
<1>a. ASSUME NEW T, NEW now \in Int, clock <= now, T \in Table, Created(T, clock) PROVE Created(T, now)
  BY <1>0, <1>a, LiveTyped DEF Created
<1>1. CASE LocalCreate
  <2>1. PICK t \in Stamps, text \in Texts \ {Blank} :
          Now(t) /\ local' = [local EXCEPT ![NextId(local)] = NewMemo(text, t)]
    BY <1>1 DEF LocalCreate
  <2>2. Unused(local) # {} /\ remote' = remote /\ run' = run /\ disk' = disk
    BY <1>1 DEF LocalCreate
  <2>3. t \in 0..MaxTime /\ clock < t /\ clock' = t /\ text \in Texts
    BY <1>0, <2>1
  <2>4. Evolves(local, local', clock) /\ Created(local', t)
    BY <1>0, <2>1, <2>2, <2>3, CreationEvolves
  <2> QED
    BY <1>0, <1>a, <2>2, <2>3, <2>4, SameRewrites
<1>2. CASE RemoteCreate
  <2>1. PICK t \in Stamps, text \in Texts \ {Blank} :
          Now(t) /\ remote' = [remote EXCEPT ![NextId(remote)] = NewMemo(text, t)]
    BY <1>2 DEF RemoteCreate
  <2>2. Unused(remote) # {} /\ local' = local /\ run' = run /\ disk' = disk
    BY <1>2 DEF RemoteCreate
  <2>3. t \in 0..MaxTime /\ clock < t /\ clock' = t /\ text \in Texts
    BY <1>0, <2>1
  <2>4. Evolves(remote, remote', clock) /\ Created(remote', t)
    BY <1>0, <2>1, <2>2, <2>3, CreationEvolves
  <2> QED
    BY <1>0, <1>a, <2>2, <2>3, <2>4, SameRewrites
<1>3. CASE LocalEdit
  <2>1. PICK i \in Live(local), t \in Stamps, f \in EditFields :
          \E v \in Values(f) \ {local[i][f]} :
            Now(t) /\ local' = [local EXCEPT ![i] = Edited(@, f, v, t)]
    BY <1>3 DEF LocalEdit
  <2>2. PICK v \in Values(f) : Now(t) /\ local' = [local EXCEPT ![i] = Edited(local[i], f, v, t)]
    BY <2>1
  <2>3. remote' = remote /\ run' = run /\ disk' = disk
    BY <1>3 DEF LocalEdit
  <2>4. t \in 0..MaxTime /\ clock < t /\ clock' = t
    BY <1>0, <2>2
  <2>5. Rewrites(local, local')
    BY <1>0, <2>2, <2>4, EditRewrites
  <2>6. Created(local', clock) /\ \A j \in Live(local') : local'[j].ct \in Int
    BY <1>0, <2>5, RewritesCreated, LiveTyped DEF Rewrites
  <2>7. Created(local', t)
    BY <1>0, <2>4, <2>6 DEF Created
  <2> QED
    BY <1>0, <1>a, <2>3, <2>4, <2>5, <2>7, SameRewrites, RewritesEvolves
<1>4. CASE RemoteEdit
  <2>1. PICK i \in Live(remote), t \in Stamps, f \in EditFields :
          \E v \in Values(f) \ {remote[i][f]} :
            Now(t) /\ remote' = [remote EXCEPT ![i] = Edited(@, f, v, t)]
    BY <1>4 DEF RemoteEdit
  <2>2. PICK v \in Values(f) : Now(t) /\ remote' = [remote EXCEPT ![i] = Edited(remote[i], f, v, t)]
    BY <2>1
  <2>3. local' = local /\ run' = run /\ disk' = disk
    BY <1>4 DEF RemoteEdit
  <2>4. t \in 0..MaxTime /\ clock < t /\ clock' = t
    BY <1>0, <2>2
  <2>5. Rewrites(remote, remote')
    BY <1>0, <2>2, <2>4, EditRewrites
  <2>6. Created(remote', clock) /\ \A j \in Live(remote') : remote'[j].ct \in Int
    BY <1>0, <2>5, RewritesCreated, LiveTyped DEF Rewrites
  <2>7. Created(remote', t)
    BY <1>0, <2>4, <2>6 DEF Created
  <2> QED
    BY <1>0, <1>a, <2>3, <2>4, <2>5, <2>7, SameRewrites, RewritesEvolves
<1>5. CASE LocalDelete
  <2>1. \E i : local' = DeleteMemo(local, i)
    BY <1>5 DEF LocalDelete
  <2>2. clock' = clock /\ remote' = remote /\ run' = run /\ disk' = disk
    BY <1>5 DEF LocalDelete
  <2>3. Rewrites(local, local')
    BY <1>0, <2>1, DeleteRewrites
  <2>4. Created(local', clock)
    BY <2>3, RewritesCreated
  <2> QED
    BY <1>0, <2>2, <2>3, <2>4, SameRewrites, RewritesEvolves
<1>6. CASE RemoteDelete
  <2>1. \E i : remote' = DeleteMemo(remote, i)
    BY <1>6 DEF RemoteDelete
  <2>2. clock' = clock /\ local' = local /\ run' = run /\ disk' = disk
    BY <1>6 DEF RemoteDelete
  <2>3. Rewrites(remote, remote')
    BY <1>0, <2>1, DeleteRewrites
  <2>4. Created(remote', clock)
    BY <2>3, RewritesCreated
  <2> QED
    BY <1>0, <2>2, <2>3, <2>4, SameRewrites, RewritesEvolves
<1> QED
  BY <1>1, <1>2, <1>3, <1>4, <1>5, <1>6 DEF LocalUser, RemoteUser

(* A step that leaves the run and the bindings on disk alone.              *)
LEMMA OnceUsers ==
  ASSUME TypeInv, TypeInv', SyncInv, OnceInv, SameSecond = FALSE, LocalUser \/ RemoteUser
  PROVE  OnceInv'
<1>0. /\ local \in Table /\ remote \in Table /\ clock \in Int
      /\ local' \in Table /\ remote' \in Table /\ clock' \in Int
      /\ run.queue \in Partial(Ids, Memo) /\ DOMAIN run.prints \subseteq Ids /\ run.orphans \subseteq Ids
  <2>1. run.prints \in Partial(Ids, Texts \X (0..MaxTime)) /\ run.queue \in Partial(Ids, Memo)
        /\ run.orphans \subseteq Ids
    BY DEF TypeInv, SyncTyped, Runs
  <2>2. DOMAIN run.prints \subseteq Ids
    BY <2>1, PartialMember
  <2> QED
    BY <2>1, <2>2 DEF TypeInv, SyncTyped
<1>1. /\ clock <= clock' /\ Created(local', clock') /\ Created(remote', clock')
      /\ \/ Evolves(local, local', clock) /\ Rewrites(remote, remote')
         \/ Rewrites(local, local') /\ Evolves(remote, remote', clock)
      /\ run' = run /\ disk' = disk
  BY UsersEvolve DEF OnceInv, Matched
<1>2. Evolves(local, local', clock) /\ Evolves(remote, remote', clock)
  BY <1>1, RewritesEvolves
<1>3. Matched(local, remote, Bindings, clock)'
  <2>1. Bindings' = Bindings
    BY <1>1 DEF Bindings
  <2>2. Matched(local', remote', Bindings, clock')
    BY <1>0, <1>1, MatchedEvolves DEF OnceInv
  <2> QED
    BY <2>1, <2>2
<1>4. run.pc \in PushWork => PushPage(local', remote', run.bindings, run.queue, run.look, clock')
  <2> SUFFICES ASSUME run.pc \in PushWork
               PROVE  PushPage(local', remote', run.bindings, run.queue, run.look, clock')
    OBVIOUS
  <2>1. Matched(local, remote, run.bindings, clock)
    BY DEF OnceInv, Bindings, PushWork
  <2> QED
    BY <1>0, <1>1, <1>2, <2>1, PushPageEvolves DEF OnceInv
<1>5. run.pc \in PullWork => PullPage(local', remote', run.bindings, run.queue, run.prints, clock')
  <2> SUFFICES ASSUME run.pc \in PullWork
               PROVE  PullPage(local', remote', run.bindings, run.queue, run.prints, clock')
    OBVIOUS
  <2>1. Matched(local, remote, run.bindings, clock)
    BY DEF OnceInv, Bindings, PullWork
  <2> QED
    BY <1>0, <1>1, <1>2, <2>1, PullPageEvolves DEF OnceInv
<1>6. \A r \in Ids : remote[r] = Gone => remote'[r] = Gone
  BY UserEffects DEF Grows
<1> QED
  BY <1>0, <1>1, <1>3, <1>4, <1>5, <1>6 DEF OnceInv
--------------------------------------------------------------------------------
(* Push, action by action. *)
LEMMA OnceTyped ==
  ASSUME TypeInv
  PROVE  /\ run \in Runs /\ local \in Table /\ remote \in Table /\ clock \in 0..MaxTime /\ clock \in Int
         /\ run.queue \in Partial(Ids, Memo) /\ DOMAIN run.prints \subseteq Ids
<1>1. run.prints \in Partial(Ids, Texts \X (0..MaxTime)) /\ run.queue \in Partial(Ids, Memo)
  BY DEF TypeInv, SyncTyped, Runs
<1>2. DOMAIN run.prints \subseteq Ids
  BY <1>1, PartialMember
<1> QED
  BY <1>1, <1>2 DEF TypeInv, SyncTyped

LEMMA OnceInPush ==
  ASSUME OnceInv, run.pc \in PushWork, run'.pc \in PushWork, run'.mask = run.mask,
         Matched(local', remote', run'.bindings, clock'),
         PushPage(local', remote', run'.bindings, run'.queue, run'.look, clock')
  PROVE  OnceInv'
BY DEF OnceInv, Bindings, PushWork, PullWork

LEMMA OncePushing ==
  ASSUME OnceInv, run.pc \in PushWork
  PROVE  /\ Matched(local, remote, run.bindings, clock)
         /\ PushPage(local, remote, run.bindings, run.queue, run.look, clock)
BY DEF OnceInv, Bindings, PushWork

LEMMA OnceStartPush ==
  ASSUME TypeInv, OnceInv, NEW confirm \in BOOLEAN, StartPush(confirm)
  PROVE  OnceInv'
<1>1. PICK look \in Lookups(disk.bindings) :
        run' = [Idle EXCEPT !.pc = "pushList", !.confirm = confirm, !.look = look,
                            !.imported = disk.imported, !.bindings = disk.bindings]
  BY DEF StartPush
<1>2. /\ run'.pc = "pushList" /\ run'.look = look /\ run'.bindings = disk.bindings
      /\ run'.queue = NoMap /\ run'.mask = {} /\ run.pc = "idle"
  BY <1>1 DEF Idle, StartPush
<1>3. local' = local /\ remote' = remote /\ clock' = clock
  BY DEF StartPush
<1>4. Matched(local, remote, disk.bindings, clock)
  BY <1>2 DEF OnceInv, Bindings
<1>5. LooksFound(local, disk.bindings, NoMap, look)
  <2> DEFINE bound == {disk.bindings[r].local : r \in DOMAIN disk.bindings}
  <2>1. look \in [bound -> DOMAIN disk.bindings]
        /\ \A l \in bound : disk.bindings[look[l]].local = l
    BY DEF Lookups
  <2>2. \A r, l \in Ids : Binds(disk.bindings, r, l) => l \in bound
    BY DEF Binds
  <2>3. disk.bindings \in Partial(Ids, Binding)
    BY DEF TypeInv, SyncTyped, Disks
  <2>4. DOMAIN disk.bindings \subseteq Ids
    BY <2>3, PartialMember
  <2> HIDE DEF bound
  <2>5. \A r, l \in Ids : Binds(disk.bindings, r, l) =>
           l \in DOMAIN look /\ look[l] \in Ids /\ Binds(disk.bindings, look[l], l)
    BY <2>1, <2>2, <2>4 DEF Binds
  <2> QED
    BY <1>4, <2>5 DEF LooksFound, Matched, Paired, NoMap
<1>6. PushPage(local, remote, disk.bindings, NoMap, look, clock)
  BY <1>5 DEF PushPage, Listed, PushMatched, NoMap
<1> QED
  BY <1>2, <1>3, <1>4, <1>6 DEF OnceInv, Bindings, PushWork, PullWork

LEMMA OncePushList ==
  ASSUME TypeInv, OnceInv, PushList
  PROVE  OnceInv'
<1> DEFINE page == Page(local, Live(local), run.offset, PageSize)
           S == {l \in page : local[l].text # Blank /\ ~UpToDate(l)}
<1>0. run \in Runs /\ run.pc \in PushWork /\ local \in Table
  BY OnceTyped DEF PushList, PushWork
<1>1. S \in SUBSET Live(local)
  BY DEF Page
<1>2. /\ run'.pc = "pushItem" /\ run'.look = run.look /\ run'.bindings = run.bindings
      /\ run'.queue = Restrict(local, S) /\ run'.mask = run.mask
      /\ local' = local /\ remote' = remote /\ clock' = clock
  BY <1>0 DEF PushList, Runs
<1> HIDE DEF S
<1> DEFINE q == Restrict(local, S)
<1>3. DOMAIN q = S /\ \A l \in S : q[l] = local[l]
  BY DEF Restrict
<1>4. /\ Matched(local, remote, run.bindings, clock)
      /\ PushPage(local, remote, run.bindings, run.queue, run.look, clock)
  BY <1>0, OncePushing
<1>5. Listed(local, q, clock)
  BY <1>0, <1>1, <1>4, PageListed DEF Matched
<1> HIDE DEF q
<1>6. PushMatched(remote, run.bindings, q)
  BY <1>1, <1>3, <1>4 DEF PushMatched, Matched, Paired
<1>7. LooksFound(local, run.bindings, q, run.look)
  BY <1>1, <1>3, <1>4 DEF PushPage, LooksFound
<1> QED
  BY <1>0, <1>2, <1>4, <1>5, <1>6, <1>7, OnceInPush DEF PushPage, PushWork, q

(* The rest of the page, the bindings being the same. *)
LEMMA OncePushRest ==
  ASSUME TypeInv, OnceInv, run.pc \in PushWork, run'.pc \in PushWork, run'.mask = run.mask,
         run'.queue \in {run.queue, Rest}, run'.look = run.look, local' = local, clock' = clock,
         \A r, l : Binds(run'.bindings, r, l) <=> Binds(run.bindings, r, l),
         remote' \in Table, Rewrites(remote, remote')
  PROVE  OnceInv'
<1>0. /\ local \in Table /\ remote \in Table /\ clock \in Int /\ run.queue \in Partial(Ids, Memo)
  BY OnceTyped
<1>1. /\ Matched(local, remote, run.bindings, clock)
      /\ PushPage(local, remote, run.bindings, run.queue, run.look, clock)
  BY OncePushing
<1>2. /\ Evolves(local, local, clock) /\ Evolves(remote, remote', clock) /\ Created(remote', clock)
  BY <1>1, SameRewrites, RewritesEvolves, RewritesCreated DEF Matched
<1>3. Matched(local, remote', run.bindings, clock)
  BY <1>0, <1>1, <1>2, SameRewrites, MatchedEvolves DEF Matched
<1>4. PushPage(local, remote', run.bindings, run.queue, run.look, clock)
  BY <1>0, <1>1, <1>2, PushPageEvolves
<1>5. Matched(local, remote', run'.bindings, clock)
  BY <1>3, SameBinds
<1>6. PushPage(local, remote', run'.bindings, run.queue, run.look, clock)
  BY <1>4 DEF PushPage, PushMatched, LooksFound
<1>7. PushPage(local, remote', run'.bindings, Rest, run.look, clock)
  <2>1. /\ DOMAIN Rest = DOMAIN run.queue \ {Head} /\ \A i \in DOMAIN Rest : Rest[i] = run.queue[i]
    BY RestOfPage DEF Rest
  <2>2. Listed(local, Rest, clock)
    BY <1>6, RestListed DEF PushPage, Rest
  <2> QED
    BY <1>6, <2>1, <2>2 DEF PushPage, PushMatched, LooksFound
<1> QED
  BY <1>5, <1>6, <1>7, OnceInPush

LEMMA OncePushUpdate ==
  ASSUME TypeInv, SyncInv, OnceInv, PushUpdate
  PROVE  OnceInv'
<1> DEFINE m == run.queue[Head]
           r == run.look[Head]
<1>0. /\ run \in Runs /\ remote \in Table /\ clock \in 0..MaxTime /\ run.pc = "pushItem"
      /\ Head \in DOMAIN run.look /\ DOMAIN run.queue # {} /\ LookupsMatch
  BY OnceTyped DEF PushUpdate, AtItem, SyncInv
<1>1. /\ r \in Live(remote) /\ local' = local /\ clock' = clock
      /\ remote' = [remote EXCEPT ![r] = UpdateMemo(@, m, SyncMask, clock)]
  BY DEF PushUpdate
<1>2. /\ run'.pc = "pushItem" /\ run'.mask = run.mask /\ run'.look = run.look /\ run'.queue = Rest
      /\ run'.bindings = Put(run.bindings, r, Bound(Head, m.ut, m.ut))
  BY <1>0 DEF PushUpdate, Runs
<1>3. Head \in DOMAIN run.queue /\ m \in Memo
  BY <1>0, HeadInQueue DEF TypeInv
<1>4. Binds(run.bindings, r, Head)
  BY <1>0 DEF LookupsMatch, Binds
<1>5. m.ct = remote[r].ct
  BY <1>0, <1>1, <1>3, <1>4, OncePushing DEF PushPage, PushMatched, PushWork
<1> HIDE DEF m, r
<1>6. \A s, l : Binds(run'.bindings, s, l) <=> Binds(run.bindings, s, l)
  <2>1. \A s, l : Binds(run'.bindings, s, l)
                   <=> (s = r /\ l = Head) \/ (s # r /\ Binds(run.bindings, s, l))
    BY <1>2, PutBinds
  <2>2. \A l : Binds(run.bindings, r, l) <=> l = Head
    BY <1>4 DEF Binds
  <2> QED
    BY <2>1, <2>2
<1>7. remote' \in Table /\ Rewrites(remote, remote')
  BY <1>0, <1>1, <1>3, <1>5, UpdateRewrites
<1> QED
  BY <1>0, <1>1, <1>2, <1>6, <1>7, OncePushRest DEF PushWork

LEMMA OncePushUpdateMissing ==
  ASSUME TypeInv, SyncInv, OnceInv, PushUpdateMissing
  PROVE  OnceInv'
<1> DEFINE k == run.look[Head]
<1>0. /\ run \in Runs /\ local \in Table /\ remote \in Table /\ clock \in Int /\ run.pc = "pushItem"
      /\ Head \in DOMAIN run.look /\ DOMAIN run.queue # {} /\ LookupsMatch /\ k \notin Live(remote)
  BY OnceTyped DEF PushUpdateMissing, AtItem, SyncInv
<1>1. /\ run'.pc = "pushItem" /\ run'.mask = run.mask /\ run'.look = Drop(run.look, Head)
      /\ run'.queue = run.queue /\ run'.bindings = Drop(run.bindings, k)
      /\ local' = local /\ remote' = remote /\ clock' = clock
  BY <1>0 DEF PushUpdateMissing, Runs
<1>2. /\ Matched(local, remote, run.bindings, clock)
      /\ PushPage(local, remote, run.bindings, run.queue, run.look, clock)
  BY <1>0, OncePushing DEF PushWork
<1>3. Head \in DOMAIN run.queue
  BY <1>0, HeadInQueue DEF TypeInv
<1>4. Binds(run.bindings, k, Head)
  BY <1>0 DEF LookupsMatch, Binds
<1>5. /\ \A r, l : Binds(run'.bindings, r, l) <=> r # k /\ Binds(run.bindings, r, l)
      /\ \A l \in DOMAIN run.look : l # Head => l \in DOMAIN run'.look /\ run'.look[l] = run.look[l]
  <2>1. \A r, l : Binds(run'.bindings, r, l) <=> r # k /\ Binds(run.bindings, r, l)
    BY <1>1, DropBinds
  <2>2. /\ DOMAIN run'.look = DOMAIN run.look \ {Head}
        /\ \A l \in DOMAIN run'.look : run'.look[l] = run.look[l]
    <3> DEFINE d == Drop(run.look, Head)
    <3>1. DOMAIN d = DOMAIN run.look \ {Head} /\ \A l \in DOMAIN d : d[l] = run.look[l]
      BY RestOfPage
    <3>2. run'.look = d
      BY <1>1
    <3> HIDE DEF d
    <3> QED
      BY <3>1, <3>2
  <2> QED
    BY <2>1, <2>2
<1>6. Matched(local, remote, run'.bindings, clock)
  BY <1>0, <1>2, <1>5, BindingGoes
<1>7. PushMatched(remote, run'.bindings, run.queue)
  BY <1>0, <1>2, <1>5 DEF PushPage, PushMatched
<1>8. LooksFound(local, run'.bindings, run.queue, run'.look)
  <2> HIDE DEF k
  <2> SUFFICES ASSUME NEW r \in Ids, NEW l \in Ids, Binds(run'.bindings, r, l),
                      l \in Live(local) \/ l \in DOMAIN run.queue
               PROVE  l \in DOMAIN run'.look /\ run'.look[l] = r
    BY DEF LooksFound
  <2>1. Binds(run.bindings, r, l) /\ r # k
    BY <1>5
  <2>2. l \in DOMAIN run.look /\ run.look[l] = r
    BY <1>2, <2>1 DEF PushPage, LooksFound
  <2>3. l # Head
    BY <2>1, <2>2 DEF k
  <2> QED
    BY <1>5, <2>2, <2>3
<1> QED
  BY <1>0, <1>1, <1>2, <1>6, <1>7, <1>8, OnceInPush DEF PushPage, PushWork

LEMMA OncePushCreate ==
  ASSUME TypeInv, SyncInv, OnceInv, PushCreate
  PROVE  OnceInv'
<1> DEFINE m == run.queue[Head]
           n == NextId(remote)
           pc == IF SyncArchived /\ m.st = "ARCHIVED" THEN "pushArchive" ELSE run.pc
<1>0. /\ run \in Runs /\ local \in Table /\ remote \in Table /\ clock \in Int /\ run.pc = "pushItem"
      /\ Head \notin DOMAIN run.look /\ DOMAIN run.queue # {} /\ Unused(remote) # {}
      /\ run.queue \in Partial(Ids, Memo)
  BY OnceTyped DEF PushCreate, AtItem
<1>1. /\ remote' = [remote EXCEPT ![n] = CreateMemo(m)] /\ local' = local /\ clock' = clock
      /\ run' = [run EXCEPT !.queue = Rest, !.look = Put(@, Head, n),
                            !.bindings = Put(@, n, Bound(Head, m.ut, m.ut)),
                            !.imported = @ \cup {n}, !.target = n, !.pc = pc]
  BY DEF PushCreate
<1>2. pc \in PushWork
  BY <1>0 DEF PushWork
<1>3. n \in Ids /\ remote[n] = Fresh
  BY <1>0, NextIdFresh
<1>4. /\ Head \in DOMAIN run.queue /\ Head \in Ids /\ m \in Memo
      /\ CreateMemo(m) \in Memo /\ CreateMemo(m).ct = m.ct
  <2>1. Head \in DOMAIN run.queue /\ Head \in Ids /\ m \in Memo
    BY <1>0, HeadInQueue DEF TypeInv
  <2>2. CreateMemo(m).ct = m.ct
    BY <2>1 DEF CreateMemo, Memo
  <2> QED
    BY <2>1, <2>2, CreateMemoType
<1> HIDE DEF n, pc, m
<1>5. /\ run'.pc \in PushWork /\ run'.mask = run.mask /\ run'.queue = Rest
      /\ run'.look = Put(run.look, Head, n)
      /\ run'.bindings = Put(run.bindings, n, Bound(Head, m.ut, m.ut))
  BY <1>0, <1>1, <1>2 DEF Runs
<1>6. /\ Matched(local, remote, run.bindings, clock)
      /\ PushPage(local, remote, run.bindings, run.queue, run.look, clock)
  BY <1>0, OncePushing DEF PushWork
<1>7. /\ remote' \in Table /\ n \in Live(remote') /\ remote'[n].ct = m.ct
      /\ \A j \in Ids \ {n} : remote'[j] = remote[j]
  <2>1. remote' \in Table
    BY <1>0, <1>1, <1>3, <1>4, TableWrite
  <2> QED
    BY <1>0, <1>1, <1>3, <1>4, <2>1, FreshGoneAreNoMemos DEF Table, Live
<1>8. \A r \in Ids : ~Binds(run.bindings, r, Head)
  BY <1>0, <1>4, <1>6 DEF PushPage, LooksFound
<1>9. /\ local[Head] # Fresh /\ m.ct <= clock /\ (Head \in Live(local) => m.ct = local[Head].ct)
      /\ \A l \in Live(local) : local[l].ct = m.ct => l = Head
      /\ \A l \in DOMAIN run.queue : run.queue[l].ct = m.ct => l = Head
  BY <1>4, <1>6 DEF PushPage, Listed, m
<1>10. \A r \in Live(remote) : r \in Ids /\ remote[r].ct # m.ct
  BY <1>4, <1>6, <1>8 DEF PushPage, PushMatched, m, Live
<1>11. \A r, l : Binds(run'.bindings, r, l) <=> (r = n /\ l = Head) \/ (r # n /\ Binds(run.bindings, r, l))
  BY <1>5, PutBinds
<1>12. Matched(local, remote', run'.bindings, clock)
  BY <1>0, <1>3, <1>4, <1>6, <1>7, <1>8, <1>9, <1>10, <1>11, CreatedAndBound
<1>13. /\ DOMAIN Rest = DOMAIN run.queue \ {Head} /\ \A l \in DOMAIN Rest : Rest[l] = run.queue[l]
  BY RestOfPage DEF Rest
<1>14. Listed(local, Rest, clock)
  BY <1>6, RestListed DEF PushPage, Rest
<1>15. PushMatched(remote', run'.bindings, Rest)
  <2> SUFFICES ASSUME NEW l \in DOMAIN Rest, NEW r \in Live(remote')
               PROVE  Rest[l].ct = remote'[r].ct <=> Binds(run'.bindings, r, l)
    BY DEF PushMatched
  <2>1. l \in DOMAIN run.queue /\ l # Head /\ Rest[l] = run.queue[l]
    BY <1>13
  <2>2. CASE r = n
    BY <1>7, <1>9, <1>11, <2>1, <2>2
  <2>3. CASE r # n
    <3>1. r \in Live(remote) /\ remote'[r] = remote[r]
      BY <1>7, <2>3 DEF Live
    <3> QED
      BY <1>6, <1>11, <2>1, <2>3, <3>1 DEF PushPage, PushMatched
  <2> QED
    BY <2>2, <2>3
<1>16. LooksFound(local, run'.bindings, Rest, run'.look)
  <2>1. \A l \in DOMAIN run.look : l \in DOMAIN run'.look /\ (l # Head => run'.look[l] = run.look[l])
    BY <1>5 DEF Put
  <2>2. Head \in DOMAIN run'.look /\ run'.look[Head] = n
    BY <1>5 DEF Put
  <2> SUFFICES ASSUME NEW r \in Ids, NEW l \in Ids, Binds(run'.bindings, r, l),
                      l \in Live(local) \/ l \in DOMAIN Rest
               PROVE  l \in DOMAIN run'.look /\ run'.look[l] = r
    BY DEF LooksFound
  <2>3. CASE l = Head
    BY <1>8, <1>11, <2>2, <2>3
  <2>4. CASE l # Head
    <3>1. Binds(run.bindings, r, l) /\ (l \in Live(local) \/ l \in DOMAIN run.queue)
      BY <1>11, <1>13, <2>4
    <3>2. l \in DOMAIN run.look /\ run.look[l] = r
      BY <1>6, <3>1 DEF PushPage, LooksFound
    <3> QED
      BY <2>1, <2>4, <3>2
  <2> QED
    BY <2>3, <2>4
<1> QED
  BY <1>0, <1>1, <1>5, <1>12, <1>14, <1>15, <1>16, OnceInPush DEF PushPage, PushWork
LEMMA OncePushArchive ==
  ASSUME TypeInv, TypeInv', OnceInv, PushArchive
  PROVE  OnceInv'
<1> DEFINE t == run.target
<1>0. /\ run \in Runs /\ remote \in Table /\ clock \in 0..MaxTime /\ run.pc = "pushArchive"
      /\ remote' \in Table
  BY OnceTyped DEF PushArchive, TypeInv, SyncTyped
<1>1. /\ run'.pc = "pushItem" /\ run'.mask = run.mask /\ run'.look = run.look
      /\ run'.queue = run.queue /\ run'.bindings = run.bindings
      /\ local' = local /\ clock' = clock
  BY <1>0 DEF PushArchive, Runs
<1>2. Rewrites(remote, remote')
  <2>1. CASE remote' = remote
    BY <2>1, SameRewrites
  <2>2. CASE remote' # remote
    <3>1. /\ t \in Live(remote)
          /\ remote' = [remote EXCEPT ![t] = UpdateMemo(@, [@ EXCEPT !["st"] = "ARCHIVED"], {"st"}, clock)]
      BY <2>2 DEF PushArchive
    <3> DEFINE m == [remote[t] EXCEPT !["st"] = "ARCHIVED"]
    <3>2. m \in Memo
      BY <1>0, <3>1, LiveMemo DEF Memo
    <3> DEFINE mask == {"st"}
    <3>3. remote' = [remote EXCEPT ![t] = UpdateMemo(@, m, mask, clock)] /\ "ct" \notin mask
      BY <3>1
    <3>4. t \in Live(remote)
      BY <3>1
    <3> HIDE DEF m, t, mask
    <3> QED
      BY <1>0, <3>2, <3>3, <3>4, UpdateRewrites
  <2> QED
    BY <2>1, <2>2
<1> QED
  BY <1>0, <1>1, <1>2, OncePushRest DEF PushWork

LEMMA OncePushSkip ==
  ASSUME TypeInv, OnceInv, PushSkip
  PROVE  OnceInv'
<1>0. run \in Runs /\ run.pc = "pushItem" /\ remote \in Table
  BY OnceTyped DEF PushSkip, Skip, AtItem
<1>1. /\ run'.pc = "pushItem" /\ run'.mask = run.mask /\ run'.look = run.look
      /\ run'.queue = Rest /\ run'.bindings = run.bindings
      /\ local' = local /\ clock' = clock /\ remote' = remote
  BY <1>0 DEF PushSkip, Skip, Runs
<1> QED
  BY <1>0, <1>1, SameRewrites, OncePushRest DEF PushWork

LEMMA OncePushPageDone ==
  ASSUME TypeInv, OnceInv, StorageFull = FALSE, PushPageDone
  PROVE  OnceInv'
<1>0. run \in Runs /\ run.pc = "pushItem"
  BY OnceTyped DEF PushPageDone
<1>1. /\ local' = local /\ clock' = clock /\ remote' = remote
      /\ run'.mask = run.mask /\ run'.look = run.look /\ run'.queue = run.queue
      /\ run'.bindings = run.bindings /\ run'.pc \in {"pushList", "pushProbe"}
  BY <1>0 DEF PushPageDone, Runs
<1>2. disk'.bindings = run.bindings
  <2>1. disk \in Disks /\ disk' = Saved
    BY DEF PushPageDone, Writes, TypeInv, SyncTyped
  <2> QED
    BY <2>1 DEF Saved, Disks
<1>3. /\ Matched(local, remote, run.bindings, clock)
      /\ PushPage(local, remote, run.bindings, run.queue, run.look, clock)
  BY <1>0, OncePushing DEF PushWork
<1> QED
  BY <1>1, <1>2, <1>3 DEF OnceInv, Bindings, PushWork, PullWork

(* The sweep of a push. *)
LEMMA OncePushProbe ==
  ASSUME TypeInv, OnceInv, PushProbe
  PROVE  OnceInv'
<1>0. run \in Runs /\ run.pc = "pushProbe"
  BY OnceTyped DEF PushProbe
<1>1. /\ local' = local /\ clock' = clock /\ remote' = remote /\ disk' = disk
      /\ run'.mask = run.mask /\ run'.bindings = run.bindings /\ run'.pc = "pushProbe"
  BY ZenonT(60), <1>0 DEF PushProbe, Runs
<1> QED
  BY <1>0, <1>1 DEF OnceInv, Bindings, PushWork, PullWork

(* A run that stops to ask, or goes on to delete. *)
LEMMA OnceSweep ==
  ASSUME TypeInv, OnceInv, PushSweep \/ PullSweep
  PROVE  OnceInv'
<1>0. run \in Runs /\ run.pc \in {"pushProbe", "pullProbe"} /\ disk.bindings = run.bindings
  BY OnceTyped DEF PushSweep, PullSweep, OnceInv
<1>1. local' = local /\ clock' = clock /\ remote' = remote /\ disk' = disk
  BY DEF PushSweep, PullSweep, StopToAsk
<1>2. CASE run' = Idle
  <2>1. run'.pc = "idle" /\ run'.mask = {}
    BY <1>2 DEF Idle
  <2> QED
    BY <1>0, <1>1, <2>1 DEF OnceInv, Bindings, PushWork, PullWork
<1>3. CASE run' = [run EXCEPT !.pc = "pushDelete"] /\ run.pc = "pushProbe"
  <2>1. run'.pc = "pushDelete" /\ run'.mask = run.mask /\ run'.bindings = run.bindings
    BY <1>0, <1>3 DEF Runs
  <2> QED
    BY <1>0, <1>1, <1>3, <2>1 DEF OnceInv, Bindings, PushWork, PullWork
<1>4. CASE run' = [run EXCEPT !.pc = "pullDelete"] /\ run.pc = "pullProbe"
  <2>1. /\ run'.pc = "pullDelete" /\ run'.mask = run.mask /\ run'.bindings = run.bindings
        /\ run'.todo = run.todo /\ run'.orphans = run.orphans
    BY <1>0, <1>4 DEF Runs
  <2> QED
    BY <1>0, <1>1, <1>4, <2>1 DEF OnceInv, Bindings, PushWork, PullWork
<1> QED
  BY <1>0, <1>2, <1>3, <1>4 DEF PushSweep, PullSweep, StopToAsk

LEMMA OncePushDelete ==
  ASSUME TypeInv, TypeInv', OnceInv, PushDelete
  PROVE  OnceInv'
<1>0. /\ run \in Runs /\ run.pc = "pushDelete" /\ local \in Table /\ remote \in Table /\ clock \in Int
      /\ remote' \in Table
  BY OnceTyped DEF PushDelete, TypeInv, SyncTyped
<1>1. /\ local' = local /\ clock' = clock /\ run'.mask = run.mask /\ run'.pc = "pushDelete"
  BY ZenonT(60), <1>0 DEF PushDelete, Runs
<1>2. Matched(local, remote, run.bindings, clock)
  BY <1>0 DEF OnceInv, Bindings
<1>3. Matched(local, remote', run'.bindings, clock)
  <2>1. PICK l \in run.orphans :
          \/ /\ remote' = RemoteAfterDelete(run.look[l])
             /\ run'.bindings = Drop(run.bindings, run.look[l])
          \/ run'.bindings = run.bindings /\ remote' = remote
    BY ZenonT(60), <1>0 DEF PushDelete, Runs
  <2> DEFINE r == run.look[l]
  <2>2. CASE remote' = RemoteAfterDelete(r) /\ run'.bindings = Drop(run.bindings, r)
    <3>1. r \notin Live(remote') /\ Rewrites(remote, remote')
      BY <1>0, <2>2, DeleteRewrites, SameRewrites DEF RemoteAfterDelete, DeleteMemo, Live, Table
    <3>2. Matched(local, remote', run.bindings, clock)
      BY <1>0, <1>2, <3>1, SameRewrites, RewritesEvolves, RewritesCreated, MatchedEvolves DEF Matched
    <3>3. \A s, k : Binds(run'.bindings, s, k) <=> s # r /\ Binds(run.bindings, s, k)
      BY <2>2, DropBinds
    <3> HIDE DEF r
    <3> QED
      BY <1>0, <3>1, <3>2, <3>3, BindingGoes
  <2>3. CASE run'.bindings = run.bindings /\ remote' = remote
    BY <1>2, <2>3
  <2> QED
    BY <2>1, <2>2, <2>3
<1> QED
  BY <1>0, <1>1, <1>3 DEF OnceInv, Bindings, PushWork, PullWork

(* A run ends and its bindings are saved. *)
LEMMA OnceDone ==
  ASSUME TypeInv, OnceInv, StorageFull = FALSE, PushDone \/ PullDone
  PROVE  OnceInv'
<1>0. disk \in Disks /\ run.pc \in {"pushDelete", "pullDelete"}
  BY DEF PushDone, PullDone, TypeInv, SyncTyped
<1>1. local' = local /\ clock' = clock /\ remote' = remote
  BY DEF PushDone, PullDone
<1>2. run'.pc = "idle" /\ run'.mask = {}
  BY DEF PushDone, PullDone, Idle
<1>3. disk'.bindings = run.bindings
  <2>1. disk' \in {Saved, SavedWithCursor}
    BY DEF PushDone, PullDone, Writes
  <2> QED
    BY <1>0, <2>1 DEF Saved, SavedWithCursor, Disks
<1> QED
  BY <1>0, <1>1, <1>2, <1>3 DEF OnceInv, Bindings, PushWork, PullWork

LEMMA OncePush ==
  ASSUME TypeInv, TypeInv', SyncInv, OnceInv, StorageFull = FALSE, Push
  PROVE  OnceInv'
BY OnceStartPush, OncePushList, OncePushUpdate, OncePushUpdateMissing, OncePushCreate,
   OncePushArchive, OncePushSkip, OncePushPageDone, OncePushProbe, OnceSweep, OncePushDelete,
   OnceDone DEF Push
--------------------------------------------------------------------------------
(* Pull, action by action. *)
LEMMA OncePulling ==
  ASSUME OnceInv, run.pc \in PullWork
  PROVE  /\ Matched(local, remote, run.bindings, clock) /\ run.orphans = {}
         /\ PullPage(local, remote, run.bindings, run.queue, run.prints, clock)
BY DEF OnceInv, Bindings, PullWork

LEMMA OnceInPull ==
  ASSUME OnceInv, run.pc \in PullWork, run'.pc \in PullWork, run'.mask \subseteq {"vis", "pin", "st"},
         run'.orphans = run.orphans,
         Matched(local', remote', run'.bindings, clock'),
         PullPage(local', remote', run'.bindings, run'.queue, run'.prints, clock')
  PROVE  OnceInv'
BY DEF OnceInv, Bindings, PushWork, PullWork

LEMMA OnceStartPull ==
  ASSUME TypeInv, OnceInv, NEW confirm \in BOOLEAN, StartPull(confirm)
  PROVE  OnceInv'
<1> DEFINE known == {l \in Live(local) : local[l].text # Blank}
           all == [l \in known |-> Fingerprint(local[l])]
<1>1. PICK loaded \in {all} \cup {NoMap} :
        run' = [Idle EXCEPT !.pc = "pullList", !.confirm = confirm,
                            !.imported = disk.imported, !.bindings = disk.bindings,
                            !.floor = IF MetaMask # {} THEN 0 ELSE disk.cursor,
                            !.latest = disk.cursor, !.prints = loaded]
  BY DEF StartPull
<1>2. /\ run'.pc = "pullList" /\ run'.prints = loaded /\ run'.bindings = disk.bindings
      /\ run'.queue = NoMap /\ run'.mask = {} /\ run'.orphans = {} /\ run.pc = "idle"
  BY <1>1 DEF Idle, StartPull
<1>3. local' = local /\ remote' = remote /\ clock' = clock
  BY DEF StartPull
<1>4. Matched(local, remote, disk.bindings, clock)
  BY <1>2 DEF OnceInv, Bindings
<1>5. PrintsKnown(local, loaded)
  <2>1. PrintsKnown(local, all)
    BY DEF PrintsKnown, Fingerprint, Live
  <2>2. PrintsKnown(local, NoMap)
    BY DEF PrintsKnown, NoMap
  <2> HIDE DEF all
  <2> QED
    BY <2>1, <2>2
<1>6. PullPage(local, remote, disk.bindings, NoMap, loaded, clock)
  BY <1>5 DEF PullPage, Listed, PullMatched, NoMap
<1> QED
  BY <1>2, <1>3, <1>4, <1>6 DEF OnceInv, Bindings, PushWork, PullWork

LEMMA OncePullList ==
  ASSUME TypeInv, OnceInv, PullList
  PROVE  OnceInv'
<1> DEFINE listed == {r \in Live(remote) : remote[r].st = run.state}
           page == Page(remote, listed, run.offset, PageSize)
           known == {r \in page : run.floor # 0 /\ remote[r].ut <= run.floor}
           S == {r \in page \ known : Importable(remote[r])}
<1>0. run \in Runs /\ run.pc \in PullWork /\ remote \in Table
  BY OnceTyped DEF PullList, PullWork
<1>1. S \in SUBSET Live(remote)
  BY DEF Page
<1>2. /\ run'.pc = "pullItem" /\ run'.bindings = run.bindings /\ run'.prints = run.prints
      /\ run'.queue = Restrict(remote, S) /\ run'.mask = run.mask /\ run'.orphans = run.orphans
      /\ local' = local /\ remote' = remote /\ clock' = clock
  BY <1>0 DEF PullList, Runs
<1> HIDE DEF S
<1> DEFINE q == Restrict(remote, S)
<1>3. DOMAIN q = S /\ \A r \in S : q[r] = remote[r]
  BY DEF Restrict
<1>4. /\ Matched(local, remote, run.bindings, clock)
      /\ PullPage(local, remote, run.bindings, run.queue, run.prints, clock)
  BY <1>0, OncePulling
<1>5. Listed(remote, q, clock)
  BY <1>0, <1>1, <1>4, PageListed DEF Matched
<1> HIDE DEF q
<1>6. PullMatched(local, run.bindings, q)
  BY <1>1, <1>3, <1>4 DEF PullMatched, Matched, Paired
<1>7. run.mask \subseteq {"vis", "pin", "st"}
  BY DEF OnceInv
<1> QED
  BY <1>0, <1>2, <1>4, <1>5, <1>6, <1>7, OnceInPull DEF PullPage, PullWork, q

(* The rest of the page, the bindings being the same. *)
LEMMA OncePullRest ==
  ASSUME TypeInv, OnceInv, run.pc \in PullWork, run'.pc \in PullWork,
         run'.mask \subseteq {"vis", "pin", "st"}, run'.orphans = run.orphans,
         run'.queue \in {run.queue, Rest}, run'.prints = run.prints,
         remote' = remote, clock' = clock,
         \A r, l : Binds(run'.bindings, r, l) <=> Binds(run.bindings, r, l),
         local' \in Table, Rewrites(local, local')
  PROVE  OnceInv'
<1>0. /\ local \in Table /\ remote \in Table /\ clock \in Int /\ run.queue \in Partial(Ids, Memo)
      /\ DOMAIN run.prints \subseteq Ids
  BY OnceTyped
<1>1. /\ Matched(local, remote, run.bindings, clock)
      /\ PullPage(local, remote, run.bindings, run.queue, run.prints, clock)
  BY OncePulling
<1>2. /\ Evolves(remote, remote, clock) /\ Evolves(local, local', clock) /\ Created(local', clock)
  BY <1>1, SameRewrites, RewritesEvolves, RewritesCreated DEF Matched
<1>3. Matched(local', remote, run.bindings, clock)
  BY <1>0, <1>1, <1>2, SameRewrites, MatchedEvolves DEF Matched
<1>4. PullPage(local', remote, run.bindings, run.queue, run.prints, clock)
  BY <1>0, <1>1, <1>2, PullPageEvolves
<1>5. Matched(local', remote, run'.bindings, clock)
  BY <1>3, SameBinds
<1>6. PullPage(local', remote, run'.bindings, run.queue, run.prints, clock)
  BY <1>4 DEF PullPage, PullMatched
<1>7. PullPage(local', remote, run'.bindings, Rest, run.prints, clock)
  <2>1. /\ DOMAIN Rest = DOMAIN run.queue \ {Head} /\ \A i \in DOMAIN Rest : Rest[i] = run.queue[i]
    BY RestOfPage DEF Rest
  <2>2. Listed(remote, Rest, clock)
    BY <1>6, RestListed DEF PullPage, Rest
  <2> QED
    BY <1>6, <2>1, <2>2 DEF PullPage, PullMatched
<1> QED
  BY <1>5, <1>6, <1>7, OnceInPull

(* The steps that write no memo and change no binding. *)
LEMMA OncePullQuiet ==
  ASSUME TypeInv, OnceInv, PullUnchanged \/ PullReadMeta \/ PullKnown \/ PullSkip
  PROVE  OnceInv'
<1>0. run \in Runs /\ run.pc \in PullWork /\ local \in Table /\ run.mask \subseteq {"vis", "pin", "st"}
  BY OnceTyped DEF PullUnchanged, PullReadMeta, PullKnown, PullSkip, IsNew, Skip, AtItem, PullWork, OnceInv
<1>1. local' = local /\ remote' = remote /\ clock' = clock
  BY DEF PullUnchanged, PullReadMeta, PullKnown, PullSkip, Skip
<1>2. Differing \subseteq {"vis", "pin", "st"}
  BY DEF Differing, MetaMask
<1>3. \/ run' = [run EXCEPT !.pc = "pullRead"]
      \/ run' = [run EXCEPT !.queue = Rest]
      \/ run' = [run EXCEPT !.pc = "pullItem", !.queue = Rest]
      \/ run' = [run EXCEPT !.pc = "pullMeta", !.mask = Differing]
  BY DEF PullUnchanged, PullReadMeta, PullKnown, PullSkip, Skip
<1> HIDE DEF PullWork
<1>4. /\ run'.pc \in {"pullRead", run.pc, "pullItem", "pullMeta"}
      /\ run'.mask \in {run.mask, Differing} /\ run'.orphans = run.orphans
      /\ run'.queue \in {run.queue, Rest} /\ run'.prints = run.prints
      /\ run'.bindings = run.bindings
  BY ZenonT(60), <1>0, <1>3 DEF Runs
<1>5. run'.pc \in PullWork /\ run'.mask \subseteq {"vis", "pin", "st"}
  BY <1>0, <1>2, <1>4 DEF PullWork
<1> QED
  BY <1>0, <1>1, <1>4, <1>5, SameRewrites, OncePullRest

(* A local memo is written, by the fields that differ or by a follow-up. *)
LEMMA OncePullMeta ==
  ASSUME TypeInv, TypeInv', OnceInv, PullMeta
  PROVE  OnceInv'
<1> DEFINE m == run.queue[Head]
           t == BoundLocal
<1>0. /\ run \in Runs /\ local \in Table /\ clock \in 0..MaxTime /\ run.pc = "pullMeta"
      /\ local' \in Table /\ run.mask \subseteq {"vis", "pin", "st"}
  BY OnceTyped DEF PullMeta, TypeInv, SyncTyped, OnceInv
<1>1. /\ run'.pc = "pullItem" /\ run'.mask = {} /\ run'.prints = run.prints
      /\ run'.queue = Rest /\ run'.bindings = run.bindings /\ run'.orphans = run.orphans
      /\ remote' = remote /\ clock' = clock
  BY <1>0 DEF PullMeta, Runs
<1>2. Rewrites(local, local')
  <2>1. CASE local' = local
    BY <2>1, SameRewrites
  <2>2. CASE local' # local
    <3>1. t \in Live(local) /\ local' = [local EXCEPT ![t] = UpdateMemo(@, m, run.mask, clock)]
      BY <2>2 DEF PullMeta
    <3>2. m \in Memo
      BY <1>0, InHand DEF TypeInv
    <3>3. "ct" \notin run.mask
      BY <1>0
    <3> HIDE DEF m, t
    <3> QED
      BY <1>0, <3>1, <3>2, <3>3, UpdateRewrites
  <2> QED
    BY <2>1, <2>2
<1> QED
  BY <1>0, <1>1, <1>2, OncePullRest DEF PullWork

LEMMA OncePullArchive ==
  ASSUME TypeInv, TypeInv', OnceInv, PullArchive
  PROVE  OnceInv'
<1> DEFINE t == run.target
<1>0. /\ run \in Runs /\ local \in Table /\ clock \in 0..MaxTime /\ run.pc = "pullArchive"
      /\ local' \in Table /\ run.mask \subseteq {"vis", "pin", "st"}
  BY OnceTyped DEF PullArchive, TypeInv, SyncTyped, OnceInv
<1>1. /\ run'.pc = "pullItem" /\ run'.mask = run.mask /\ run'.prints = run.prints
      /\ run'.queue = run.queue /\ run'.bindings = run.bindings /\ run'.orphans = run.orphans
      /\ remote' = remote /\ clock' = clock
  BY <1>0 DEF PullArchive, Runs
<1>2. Rewrites(local, local')
  <2>1. CASE local' = local
    BY <2>1, SameRewrites
  <2>2. CASE local' # local
    <3>1. /\ t \in Live(local)
          /\ local' = [local EXCEPT ![t] = UpdateMemo(@, [@ EXCEPT !["st"] = "ARCHIVED"], {"st"}, clock)]
      BY <2>2 DEF PullArchive
    <3> DEFINE m == [local[t] EXCEPT !["st"] = "ARCHIVED"]
               mask == {"st"}
    <3>2. m \in Memo
      BY <1>0, <3>1, LiveMemo DEF Memo
    <3>3. local' = [local EXCEPT ![t] = UpdateMemo(@, m, mask, clock)] /\ "ct" \notin mask
      BY <3>1
    <3>4. t \in Live(local)
      BY <3>1
    <3> HIDE DEF m, t, mask
    <3> QED
      BY <1>0, <3>2, <3>3, <3>4, UpdateRewrites
  <2> QED
    BY <2>1, <2>2
<1> QED
  BY <1>0, <1>1, <1>2, OncePullRest DEF PullWork

LEMMA OncePullWrite ==
  ASSUME TypeInv, TypeInv', SyncInv, OnceInv, PullWrite
  PROVE  OnceInv'
<1> DEFINE m == run.queue[Head]
           t == BoundLocal
<1>0. /\ run \in Runs /\ local \in Table /\ clock \in 0..MaxTime /\ run.pc = "pullWrite"
      /\ local' \in Table /\ run.mask \subseteq {"vis", "pin", "st"}
  BY OnceTyped DEF PullWrite, TypeInv, SyncTyped, OnceInv
<1>1. /\ run'.pc = "pullItem" /\ run'.mask = run.mask /\ run'.prints = run.prints
      /\ run'.queue = Rest /\ run'.orphans = run.orphans
      /\ remote' = remote /\ clock' = clock
  BY ZenonT(60), <1>0 DEF PullWrite, Runs
<1>2. m \in Memo /\ Head \in DOMAIN run.queue /\ Head \in DOMAIN run.bindings
  BY <1>0, InHand, HeadInQueue DEF TypeInv
<1>3. Binds(run.bindings, Head, t)
  BY <1>2 DEF Binds, BoundLocal
<1>4. CASE local' = local /\ run'.bindings = run.bindings
  BY <1>0, <1>1, <1>4, SameRewrites, OncePullRest DEF PullWork
<1>5. CASE /\ t \in Live(local) /\ local' = [local EXCEPT ![t] = UpdateMemo(@, m, SyncMask, clock)]
           /\ run'.bindings = Put(run.bindings, Head, Bound(t, m.ut, m.ut))
  <2>1. m.ct = local[t].ct
    BY <1>0, <1>2, <1>3, <1>5, OncePulling DEF PullPage, PullMatched, PullWork
  <2> HIDE DEF m, t
  <2>2. Rewrites(local, local')
    BY <1>0, <1>2, <1>5, <2>1, UpdateRewrites
  <2>3. \A s, l : Binds(run'.bindings, s, l) <=> Binds(run.bindings, s, l)
    <3>1. \A s, l : Binds(run'.bindings, s, l)
                     <=> (s = Head /\ l = t) \/ (s # Head /\ Binds(run.bindings, s, l))
      BY <1>5, PutBinds
    <3>2. \A l : Binds(run.bindings, Head, l) <=> l = t
      BY <1>3 DEF Binds
    <3> QED
      BY <3>1, <3>2
  <2> QED
    BY <1>0, <1>1, <2>2, <2>3, OncePullRest DEF PullWork
<1>6. \/ local' = local /\ run'.bindings = run.bindings
      \/ /\ t \in Live(local) /\ local' = [local EXCEPT ![t] = UpdateMemo(@, m, SyncMask, clock)]
         /\ run'.bindings = Put(run.bindings, Head, Bound(t, m.ut, m.ut))
  BY ZenonT(60), <1>0 DEF PullWrite, Runs
<1> QED
  BY <1>4, <1>5, <1>6
--------------------------------------------------------------------------------

(* The local memo is gone, and the binding with it. *)
LEMMA OncePullChanged ==
  ASSUME TypeInv, SyncInv, OnceInv, PullChanged
  PROVE  OnceInv'
<1>0. /\ run \in Runs /\ local \in Table /\ remote \in Table /\ clock \in Int /\ run.pc = "pullItem"
      /\ run.mask \subseteq {"vis", "pin", "st"}
  BY OnceTyped DEF PullChanged, AtItem, OnceInv
<1>1. local' = local /\ remote' = remote /\ clock' = clock
  BY DEF PullChanged
<1>2. CASE \/ run' = [run EXCEPT !.queue = Rest]
           \/ run' = [run EXCEPT !.pc = "pullWrite"]
  <2>1. /\ run'.pc \in {run.pc, "pullWrite"} /\ run'.mask = run.mask /\ run'.orphans = run.orphans
        /\ run'.queue \in {run.queue, Rest} /\ run'.prints = run.prints
        /\ run'.bindings = run.bindings
    BY <1>0, <1>2 DEF Runs
  <2> QED
    BY <1>0, <1>1, <2>1, SameRewrites, OncePullRest DEF PullWork
<1>3. CASE /\ BoundLocal \notin Live(local)
           /\ run' = [run EXCEPT !.bindings = Drop(@, Head), !.imported = @ \ {Head}]
  <2>1. /\ run'.pc = "pullItem" /\ run'.mask = run.mask /\ run'.orphans = run.orphans
        /\ run'.queue = run.queue /\ run'.prints = run.prints
        /\ run'.bindings = Drop(run.bindings, Head)
    BY <1>0, <1>3 DEF Runs
  <2>2. \A r, l : Binds(run'.bindings, r, l) <=> r # Head /\ Binds(run.bindings, r, l)
    BY <2>1, DropBinds
  <2>3. \A l \in Live(local) : ~Binds(run.bindings, Head, l)
    BY <1>3 DEF Binds, BoundLocal
  <2>4. /\ Matched(local, remote, run.bindings, clock)
        /\ PullPage(local, remote, run.bindings, run.queue, run.prints, clock)
    BY <1>0, OncePulling DEF PullWork
  <2>5. Matched(local, remote, run'.bindings, clock)
    BY <1>0, <2>2, <2>3, <2>4, BindingGoes
  <2>6. PullMatched(local, run'.bindings, run.queue)
    BY <2>2, <2>3, <2>4 DEF PullPage, PullMatched
  <2> QED
    BY <1>0, <1>1, <2>1, <2>4, <2>5, <2>6, OnceInPull DEF PullPage, PullWork
<1> QED
  BY <1>2, <1>3 DEF PullChanged

(* What is in hand is neither bound nor known to the other side. *)
LEMMA PullItem ==
  ASSUME TypeInv, OnceInv, IsNew
  PROVE  LET m == run.queue[Head]
         IN  /\ Head \in DOMAIN run.queue /\ Head \in Ids /\ m \in Memo
             /\ remote[Head] # Fresh /\ m.ct <= clock
             /\ Head \in Live(remote) => m.ct = remote[Head].ct
             /\ \A r \in Live(remote) : remote[r].ct = m.ct => r = Head
             /\ \A r \in DOMAIN run.queue : run.queue[r].ct = m.ct => r = Head
             /\ \A l : ~Binds(run.bindings, Head, l)
             /\ \A l \in Live(local) : local[l].ct # m.ct
<1> DEFINE m == run.queue[Head]
<1>1. run.pc = "pullItem" /\ DOMAIN run.queue # {} /\ Head \notin DOMAIN run.bindings
  BY DEF IsNew, AtItem, IsBound
<1>2. Head \in DOMAIN run.queue /\ Head \in Ids /\ m \in Memo
  BY <1>1, HeadInQueue DEF TypeInv
<1>3. PullPage(local, remote, run.bindings, run.queue, run.prints, clock)
  BY <1>1, OncePulling DEF PullWork
<1>4. \A l : ~Binds(run.bindings, Head, l)
  BY <1>1 DEF Binds
<1>5. \A l \in Live(local) : local[l].ct # m.ct
  BY <1>2, <1>3, <1>4 DEF PullPage, PullMatched
<1>6. /\ remote[Head] # Fresh /\ m.ct <= clock
      /\ Head \in Live(remote) => m.ct = remote[Head].ct
      /\ \A r \in Live(remote) : remote[r].ct = m.ct => r = Head
      /\ \A r \in DOMAIN run.queue : run.queue[r].ct = m.ct => r = Head
  BY <1>2, <1>3 DEF PullPage, Listed
<1> QED
  BY <1>2, <1>4, <1>5, <1>6

(* A local memo of the same fingerprint is gone. *)
LEMMA OncePullAdopt ==
  ASSUME TypeInv, OnceInv, PullAdopt
  PROVE  OnceInv'
<1> DEFINE m == run.queue[Head]
<1>0. /\ run \in Runs /\ local \in Table /\ remote \in Table /\ clock \in Int /\ run.pc = "pullItem"
      /\ run.mask \subseteq {"vis", "pin", "st"} /\ DOMAIN run.prints \subseteq Ids
  BY OnceTyped DEF PullAdopt, IsNew, AtItem, OnceInv
<1>1. PICK l \in Twins :
        run' = [run EXCEPT !.queue = Rest, !.bindings = Put(@, Head, Bound(l, m.ut, 0)),
                           !.imported = @ \cup {Head}]
  BY DEF PullAdopt
<1>2. /\ local' = local /\ remote' = remote /\ clock' = clock
      /\ run'.pc = "pullItem" /\ run'.mask = run.mask /\ run'.orphans = run.orphans
      /\ run'.queue = Rest /\ run'.prints = run.prints
      /\ run'.bindings = Put(run.bindings, Head, Bound(l, m.ut, 0))
  BY <1>0, <1>1 DEF PullAdopt, Runs
<1>3. l \in DOMAIN run.prints /\ run.prints[l] = <<m.text, m.ct>> /\ l \in Ids
  BY <1>0 DEF Twins, Fingerprint
<1>4. /\ Head \in DOMAIN run.queue /\ Head \in Ids /\ remote[Head] # Fresh
      /\ \A k : ~Binds(run.bindings, Head, k)
      /\ \A k \in Live(local) : local[k].ct # m.ct
  BY PullItem DEF PullAdopt
<1>5. /\ Matched(local, remote, run.bindings, clock)
      /\ PullPage(local, remote, run.bindings, run.queue, run.prints, clock)
  BY <1>0, OncePulling DEF PullWork
<1>6. run.prints[l][2] = m.ct
  BY <1>3
<1> HIDE DEF m
<1>7. local[l] = Gone
  <2>1. local[l] # Fresh /\ l \notin Live(local)
    BY <1>3, <1>4, <1>5, <1>6 DEF PullPage, PrintsKnown
  <2> QED
    BY <1>0, <1>3, <2>1 DEF Live
<1>8. \A r, k : Binds(run'.bindings, r, k)
                 <=> (r = Head /\ k = l) \/ (r # Head /\ Binds(run.bindings, r, k))
  BY <1>2, PutBinds
<1>9. Matched(local, remote, run'.bindings, clock)
  BY <1>0, <1>3, <1>4, <1>5, <1>7, <1>8, BoundToGone
<1>10. DOMAIN Rest = DOMAIN run.queue \ {Head} /\ \A i \in DOMAIN Rest : Rest[i] = run.queue[i]
  BY RestOfPage DEF Rest
<1>11. Listed(remote, Rest, clock)
  BY <1>5, RestListed DEF PullPage, Rest
<1>12. PullMatched(local, run'.bindings, Rest)
  BY <1>5, <1>8, <1>10 DEF PullPage, PullMatched
<1> QED
  BY <1>0, <1>2, <1>5, <1>9, <1>11, <1>12, OnceInPull DEF PullPage, PullWork

(* The memo is new to the local side. *)
LEMMA OncePullCreate ==
  ASSUME TypeInv, SyncInv, OnceInv, PullCreate
  PROVE  OnceInv'
<1> DEFINE m == run.queue[Head]
           n == NextId(local)
           pc == IF SyncArchived /\ m.st = "ARCHIVED" THEN "pullArchive" ELSE run.pc
           print == Fingerprint(m)
<1>0. /\ run \in Runs /\ local \in Table /\ remote \in Table /\ clock \in Int /\ run.pc = "pullItem"
      /\ Unused(local) # {} /\ run.mask \subseteq {"vis", "pin", "st"} /\ DOMAIN run.prints \subseteq Ids
  BY OnceTyped DEF PullCreate, IsNew, AtItem, OnceInv
<1>1. /\ local' = [local EXCEPT ![n] = CreateMemo(m)] /\ remote' = remote /\ clock' = clock
      /\ run' = [run EXCEPT !.queue = Rest,
                            !.bindings = Put(@, Head, Bound(n, m.ut, m.ut)),
                            !.imported = @ \cup {Head}, !.prints = Put(@, n, print),
                            !.target = n, !.pc = pc]
  BY DEF PullCreate
<1>2. pc \in PullWork
  BY <1>0 DEF PullWork
<1>3. n \in Ids /\ local[n] = Fresh
  BY <1>0, NextIdFresh
<1>4. /\ Head \in DOMAIN run.queue /\ Head \in Ids /\ m \in Memo
      /\ remote[Head] # Fresh /\ m.ct <= clock
      /\ (Head \in Live(remote) => m.ct = remote[Head].ct)
      /\ \A r \in Live(remote) : remote[r].ct = m.ct => r = Head
      /\ \A r \in DOMAIN run.queue : run.queue[r].ct = m.ct => r = Head
      /\ \A l : ~Binds(run.bindings, Head, l)
      /\ \A l \in Live(local) : local[l].ct # m.ct
  BY PullItem DEF PullCreate
<1>5. CreateMemo(m) \in Memo /\ CreateMemo(m).ct = m.ct /\ print[2] = m.ct
  <2>1. CreateMemo(m).ct = m.ct
    BY <1>4 DEF CreateMemo, Memo
  <2> QED
    BY <1>4, <2>1, CreateMemoType DEF Fingerprint
<1> HIDE DEF n, pc, m, print
<1>6. /\ run'.pc \in PullWork /\ run'.mask = run.mask /\ run'.queue = Rest
      /\ run'.orphans = run.orphans /\ run'.prints = Put(run.prints, n, print)
      /\ run'.bindings = Put(run.bindings, Head, Bound(n, m.ut, m.ut))
  BY <1>0, <1>1, <1>2 DEF Runs
<1>7. /\ Matched(local, remote, run.bindings, clock)
      /\ PullPage(local, remote, run.bindings, run.queue, run.prints, clock)
  BY <1>0, OncePulling DEF PullWork
<1>8. /\ local' \in Table /\ n \in Live(local') /\ local'[n].ct = m.ct
      /\ \A j \in Ids \ {n} : local'[j] = local[j]
  <2>1. local' \in Table
    BY <1>0, <1>1, <1>3, <1>5, TableWrite
  <2> QED
    BY <1>0, <1>1, <1>3, <1>5, <2>1, FreshGoneAreNoMemos DEF Table, Live
<1>9. \A r, l : Binds(run'.bindings, r, l) <=> (r = Head /\ l = n) \/ (r # Head /\ Binds(run.bindings, r, l))
  BY <1>6, PutBinds
<1>10. Matched(local', remote, run'.bindings, clock)
  BY <1>0, <1>3, <1>4, <1>7, <1>8, <1>9, ImportedAndBound
<1>11. DOMAIN Rest = DOMAIN run.queue \ {Head} /\ \A i \in DOMAIN Rest : Rest[i] = run.queue[i]
  BY RestOfPage DEF Rest
<1>12. Listed(remote, Rest, clock)
  BY <1>7, RestListed DEF PullPage, Rest
<1>13. \A l \in Live(local') : l = n \/ (l \in Live(local) /\ local'[l] = local[l])
  BY <1>8 DEF Live
<1>14. \A r \in Ids : ~Binds(run.bindings, r, n)
  BY <1>3, <1>7 DEF Matched, Paired
<1>15. \A r \in DOMAIN run.queue : r \in Ids
  BY OnceTyped, PartialMember
<1>16. PullMatched(local', run'.bindings, Rest)
  <2> SUFFICES ASSUME NEW r \in DOMAIN Rest, NEW l \in Live(local')
               PROVE  Rest[r].ct = local'[l].ct <=> Binds(run'.bindings, r, l)
    BY DEF PullMatched
  <2>1. r \in DOMAIN run.queue /\ r # Head /\ Rest[r] = run.queue[r] /\ r \in Ids
    BY <1>11, <1>15
  <2>2. CASE l = n
    BY <1>4, <1>8, <1>9, <1>14, <2>1, <2>2
  <2>3. CASE l # n
    BY <1>7, <1>9, <1>13, <2>1, <2>3 DEF PullPage, PullMatched
  <2> QED
    BY <2>2, <2>3
<1>17. PrintsKnown(local', run'.prints)
  <2>1. /\ DOMAIN run'.prints = DOMAIN run.prints \cup {n} /\ run'.prints[n] = print
        /\ \A l \in DOMAIN run.prints : l # n => run'.prints[l] = run.prints[l]
    BY <1>6 DEF Put
  <2>2. \A l \in Ids \ {n} : l \in Live(local') <=> l \in Live(local)
    BY <1>8 DEF Live
  <2>3. local'[n] # Fresh
    BY <1>8 DEF Live
  <2> QED
    BY <1>0, <1>5, <1>7, <1>8, <2>1, <2>2, <2>3 DEF PullPage, PrintsKnown
<1> QED
  BY <1>0, <1>1, <1>6, <1>10, <1>12, <1>16, <1>17, OnceInPull DEF PullPage, PullWork

LEMMA OncePullPageDone ==
  ASSUME TypeInv, OnceInv, StorageFull = FALSE, PullPageDone
  PROVE  OnceInv'
<1>0. run \in Runs /\ run.pc = "pullItem" /\ disk \in Disks
  BY OnceTyped DEF PullPageDone, TypeInv, SyncTyped
<1>1. /\ local' = local /\ clock' = clock /\ remote' = remote
      /\ run'.mask = run.mask /\ run'.prints = run.prints /\ run'.queue = run.queue
      /\ run'.bindings = run.bindings /\ run'.orphans = run.orphans
      /\ \/ run'.pc = "pullList"
         \/ run'.pc = "pullProbe" /\ run'.todo \in {DOMAIN run.bindings \ run.seen, {}}
  <2> DEFINE unread == run.more /\ ~run.stopped
             complete == run.complete /\ ~(unread /\ run.pages >= MaxPages)
  <2>1. \/ run' = [run EXCEPT !.pc = "pullList"]
        \/ run' = [run EXCEPT !.pc = "pullList", !.state = "ARCHIVED", !.offset = 0]
        \/ run' = [run EXCEPT !.pc = "pullProbe", !.complete = complete,
                              !.todo = IF complete THEN DOMAIN run.bindings \ run.seen ELSE {}]
    BY DEF PullPageDone
  <2> HIDE DEF complete
  <2>2. CASE run' = [run EXCEPT !.pc = "pullList"]
    BY <1>0, <2>2 DEF PullPageDone, Runs
  <2>3. CASE run' = [run EXCEPT !.pc = "pullList", !.state = "ARCHIVED", !.offset = 0]
    BY <1>0, <2>3 DEF PullPageDone, Runs
  <2>4. CASE run' = [run EXCEPT !.pc = "pullProbe", !.complete = complete,
                              !.todo = IF complete THEN DOMAIN run.bindings \ run.seen ELSE {}]
    BY <1>0, <2>4 DEF PullPageDone, Runs
  <2> QED
    BY <2>1, <2>2, <2>3, <2>4
<1>2. disk'.bindings = run.bindings
  <2>1. disk' = SavedWithCursor
    BY DEF PullPageDone, Writes
  <2> QED
    BY <1>0, <2>1 DEF Saved, SavedWithCursor, Disks
<1>3. /\ Matched(local, remote, run.bindings, clock) /\ run.orphans = {}
      /\ PullPage(local, remote, run.bindings, run.queue, run.prints, clock)
  BY <1>0, OncePulling DEF PullWork
<1>4. CASE run'.pc = "pullList"
  BY <1>1, <1>2, <1>3, <1>4 DEF OnceInv, Bindings, PushWork, PullWork
<1>5. CASE run'.pc = "pullProbe" /\ run'.todo \in {DOMAIN run.bindings \ run.seen, {}}
  BY <1>1, <1>2, <1>3, <1>5 DEF OnceInv, Bindings, PushWork, PullWork
<1> QED
  BY <1>1, <1>4, <1>5

LEMMA OncePullProbe ==
  ASSUME TypeInv, OnceInv, PullProbe
  PROVE  OnceInv'
<1>0. run \in Runs /\ run.pc = "pullProbe" /\ run.todo \cup run.orphans \subseteq DOMAIN run.bindings
      /\ \A r \in run.orphans : remote[r] = Gone
  BY OnceTyped DEF PullProbe, OnceInv
<1>1. PICK r \in run.todo :
        \/ run' = [run EXCEPT !.todo = @ \ {r},
                              !.orphans = IF NotFound(r) THEN @ \cup {r} ELSE @]
        \/ run' = [run EXCEPT !.todo = @ \ {r}]
  BY DEF PullProbe
<1>2. /\ local' = local /\ clock' = clock /\ remote' = remote /\ disk' = disk
      /\ run'.mask = run.mask /\ run'.bindings = run.bindings /\ run'.pc = "pullProbe"
      /\ run'.todo = run.todo \ {r}
      /\ \/ run'.orphans = run.orphans
         \/ run'.orphans = run.orphans \cup {r} /\ remote[r] = Gone
  <2>1. local' = local /\ clock' = clock /\ remote' = remote /\ disk' = disk
    BY DEF PullProbe
  <2>2. CASE \/ run' = [run EXCEPT !.todo = @ \ {r}]
             \/ run' = [run EXCEPT !.todo = @ \ {r}, !.orphans = @]
    <3>1. /\ run'.mask = run.mask /\ run'.bindings = run.bindings /\ run'.pc = "pullProbe"
          /\ run'.todo = run.todo \ {r} /\ run'.orphans = run.orphans
      BY ZenonT(60), <1>0, <2>2 DEF Runs
    <3> QED
      BY <2>1, <3>1
  <2>3. CASE /\ run' = [run EXCEPT !.todo = @ \ {r}, !.orphans = @ \cup {r}]
             /\ remote[r] = Gone
    BY <1>0, <2>1, <2>3 DEF Runs
  <2> QED
    BY <1>1, <2>2, <2>3 DEF NotFound
<1> QED
  BY <1>0, <1>2 DEF OnceInv, Bindings, PushWork, PullWork

LEMMA OncePullDelete ==
  ASSUME TypeInv, TypeInv', OnceInv, PullDelete
  PROVE  OnceInv'
<1>0. /\ run \in Runs /\ run.pc = "pullDelete" /\ local \in Table /\ remote \in Table /\ clock \in Int
      /\ local' \in Table /\ run.orphans \subseteq DOMAIN run.bindings
      /\ \A r \in run.orphans : remote[r] = Gone
  BY OnceTyped DEF PullDelete, TypeInv, SyncTyped, OnceInv
<1>1. PICK r \in run.orphans :
        \/ /\ local' = IF run.bindings[r].local \in Live(local)
                         THEN DeleteMemo(local, run.bindings[r].local) ELSE local
           /\ run' = [run EXCEPT !.orphans = @ \ {r}, !.deleted = @ + 1,
                                 !.bindings = Drop(@, r), !.imported = @ \ {r}]
        \/ run' = [run EXCEPT !.orphans = @ \ {r}] /\ local' = local
  BY DEF PullDelete
<1>2. /\ remote' = remote /\ clock' = clock /\ run'.mask = run.mask /\ run'.pc = "pullDelete"
      /\ run'.orphans = run.orphans \ {r}
      /\ run'.bindings = run.bindings \/ run'.bindings = Drop(run.bindings, r)
  <2>1. CASE run' = [run EXCEPT !.orphans = @ \ {r}]
    BY <1>0, <2>1 DEF PullDelete, Runs
  <2>2. CASE run' = [run EXCEPT !.orphans = @ \ {r}, !.deleted = @ + 1,
                                !.bindings = Drop(@, r), !.imported = @ \ {r}]
    <3> DEFINE B == Drop(run.bindings, r)
    <3>1. run' = [run EXCEPT !.orphans = @ \ {r}, !.deleted = @ + 1,
                             !.bindings = B, !.imported = @ \ {r}]
      BY <2>2
    <3> HIDE DEF B
    <3>2. /\ run'.mask = run.mask /\ run'.pc = "pullDelete"
          /\ run'.orphans = run.orphans \ {r} /\ run'.bindings = B
      BY <1>0, <3>1 DEF Runs
    <3> QED
      BY <3>2 DEF PullDelete, B
  <2> QED
    BY <1>1, <2>1, <2>2
<1>3. Rewrites(local, local')
  BY <1>0, <1>1, DeleteRewrites, SameRewrites
<1>4. Matched(local', remote, run.bindings, clock)
  <2>1. Matched(local, remote, run.bindings, clock)
    BY <1>0 DEF OnceInv, Bindings
  <2> QED
    BY <1>0, <1>3, <2>1, SameRewrites, RewritesEvolves, RewritesCreated, MatchedEvolves DEF Matched
<1>5. DOMAIN Drop(run.bindings, r) = DOMAIN run.bindings \ {r}
  BY RestOfPage
<1>6. CASE run'.bindings = run.bindings
  BY <1>0, <1>2, <1>4, <1>6 DEF OnceInv, Bindings, PushWork, PullWork
<1>7. CASE run'.bindings = Drop(run.bindings, r)
  <2>1. \A s, k : Binds(run'.bindings, s, k) <=> s # r /\ Binds(run.bindings, s, k)
    BY <1>7, DropBinds
  <2>2. r \notin Live(remote)
    BY <1>0 DEF Live
  <2>3. Matched(local', remote, run'.bindings, clock)
    BY <1>0, <1>4, <2>1, <2>2, BindingGoes
  <2>4. run'.orphans \subseteq DOMAIN run'.bindings
    BY <1>0, <1>2, <1>5, <1>7
  <2> QED
    BY <1>0, <1>2, <2>3, <2>4 DEF OnceInv, Bindings, PushWork, PullWork
<1> QED
  BY <1>2, <1>6, <1>7

LEMMA OncePull ==
  ASSUME TypeInv, TypeInv', SyncInv, OnceInv, StorageFull = FALSE, Pull
  PROVE  OnceInv'
BY OnceStartPull, OncePullList, OncePullQuiet, OncePullMeta, OncePullChanged, OncePullWrite,
   OncePullAdopt, OncePullCreate, OncePullArchive, OncePullPageDone, OncePullProbe, OnceSweep,
   OncePullDelete, OnceDone DEF Pull
--------------------------------------------------------------------------------
LEMMA OnceInit == Init => OnceInv
<1> SUFFICES ASSUME Init PROVE OnceInv
  OBVIOUS
<1>1. /\ run.pc = "idle" /\ run.mask = {} /\ disk.bindings = NoMap
  BY DEF Init, Idle, EmptyDisk
<1>2. Live(local) = {} /\ Live(remote) = {} /\ DOMAIN NoMap = {}
  BY DEF Init, Live, EmptyTable, NoMap
<1>3. Matched(local, remote, NoMap, clock)
  BY <1>2 DEF Matched, Created, Once, Paired, Binds
<1> QED
  BY <1>1, <1>3 DEF OnceInv, Bindings, PushWork, PullWork

(* No run is cut off and no binding is lost or restored, and no two memos  *)
(* are created in the same second.                                         *)
NoLoss == ~CanAbort /\ ~StorageFull /\ ~CanRestore /\ ~SameSecond

LEMMA OnceStep == NoLoss /\ TypeInv /\ SyncInv /\ OnceInv /\ [Next]_vars => OnceInv'
<1> SUFFICES ASSUME NoLoss, TypeInv, SyncInv, OnceInv, [Next]_vars PROVE OnceInv'
  OBVIOUS
<1>0. TypeInv'
  BY StepTyped
<1>1. CanAbort = FALSE /\ StorageFull = FALSE /\ CanRestore = FALSE /\ SameSecond = FALSE
  BY DEF NoLoss, MemoSyncAssumption
<1>2. CASE LocalUser \/ RemoteUser
  BY <1>0, <1>1, <1>2, OnceUsers
<1>3. CASE Push
  BY <1>0, <1>1, <1>3, OncePush
<1>4. CASE Pull
  BY <1>0, <1>1, <1>4, OncePull
<1>5. CASE Abort \/ SettingsPage
  BY <1>1, <1>5 DEF Abort, SettingsPage, ResetMetadata, ExportMetadata, ImportMetadata
<1>6. CASE UNCHANGED vars
  BY <1>6 DEF vars, OnceInv, Bindings
<1> QED
  BY <1>2, <1>3, <1>4, <1>5, <1>6 DEF Next

(* On these conditions the times of creation and the bindings go together, *)
(* in the tables and in the page in hand, in every state.                  *)
THEOREM OnceInvariant ==
  ASSUME NoLoss
  PROVE  Spec => [](TypeInv /\ SyncInv /\ OnceInv)
<1>1. Init => TypeInv /\ SyncInv /\ OnceInv
  BY InitTyped, InitInv, OnceInit
<1>2. TypeInv /\ SyncInv /\ OnceInv /\ [Next]_vars => (TypeInv /\ SyncInv /\ OnceInv)'
  BY StepTyped, StepInv, OnceStep
<1> QED
  BY <1>1, <1>2, PTL DEF Spec

(* No memo is there twice on one side, whatever requests fail and          *)
(* whatever the users do between them.                                     *)
THEOREM MemosOnce ==
  ASSUME NoLoss
  PROVE  Spec => []NoDuplicates
<1>1. OnceInv => NoDuplicates
  BY DEF OnceInv, Matched, Once, NoDuplicates
<1> QED
  BY <1>1, OnceInvariant, PTL

LEMMA LocalDeletionJustified ==
  ASSUME TypeInv, OnceInv, NoLoss, [Next]_vars, run' # run,
         NEW l \in Live(local), local'[l] = Gone,
         NEW r \in DOMAIN run.bindings, run.bindings[r].local = l
  PROVE  remote[r] = Gone
<1>0. l \in Ids /\ local[l] # Gone
  BY LiveIsNotGone
<1>1. PullDelete
  <2>1. CASE LocalUser \/ RemoteUser \/ SettingsPage \/ UNCHANGED vars
    BY <2>1 DEF LocalUser, LocalCreate, LocalEdit, LocalDelete, RemoteUser, RemoteCreate,
       RemoteEdit, RemoteDelete, SettingsPage, ResetMetadata, ExportMetadata, ImportMetadata, vars
  <2>2. CASE Push
    BY <1>0, <2>2, PushEffects
  <2>3. CASE Pull
    BY <1>0, <2>3, PullEffects DEF Spares
  <2>4. CASE Abort
    BY <1>0, <2>4 DEF Abort
  <2> QED
    BY <2>1, <2>2, <2>3, <2>4 DEF Next
<1>2. PICK s \in run.orphans :
        local' = IF run.bindings[s].local \in Live(local)
                   THEN DeleteMemo(local, run.bindings[s].local) ELSE local
  <2>1. local' # local
    BY <1>0
  <2> QED
    BY <1>1, <2>1 DEF PullDelete
<1>3. l = run.bindings[s].local
  BY <1>0, <1>2 DEF DeleteMemo, TypeInv, SyncTyped, Table
<1>4. /\ s \in DOMAIN run.bindings /\ remote[s] = Gone
      /\ Matched(local, remote, run.bindings, clock)
  BY <1>1 DEF PullDelete, OnceInv, Bindings
<1>5. DOMAIN run.bindings \subseteq Ids
  <2>1. run.bindings \in Partial(Ids, Binding)
    BY DEF TypeInv, SyncTyped, Runs
  <2> QED
    BY <2>1, PartialMember
<1>6. Binds(run.bindings, r, l) /\ Binds(run.bindings, s, l)
  BY <1>3, <1>4 DEF Binds
<1>7. r = s
  BY <1>0, <1>4, <1>5, <1>6 DEF Matched, Paired
<1> QED
  BY <1>4, <1>7

(* A pull deletes a local memo only if every remote memo bound to it is    *)
(* gone: there is one at most.                                             *)
THEOREM LocalDeletesAreJustified ==
  ASSUME NoLoss
  PROVE  Spec => LocalDeletesJustified
<1> DEFINE Justified ==
      \A l \in Live(local) : local'[l] = Gone /\ run' # run =>
        \A r \in DOMAIN run.bindings : run.bindings[r].local = l => remote[r] = Gone
<1>1. TypeInv /\ SyncInv /\ OnceInv /\ [Next]_vars => [Justified]_vars
  BY LocalDeletionJustified
<1>2. [][Justified]_vars => LocalDeletesJustified
  BY DEF LocalDeletesJustified
<1> HIDE DEF Justified
<1> QED
  BY <1>1, <1>2, OnceInvariant, PTL DEF Spec

================================================================================
