--------------------------- MODULE MCSyncParts_proofs ---------------------------
(***************************************************************************)
(* The synchronisation of comments, for any comments, edits and faults:    *)
(* a comment has one counterpart, of the same memo; a run deletes only     *)
(* what has been deleted at the other side; what is bound at the times two *)
(* comments have agrees, unless somebody edits in the instant before the   *)
(* comment is read again; and no comment is there twice as long as no run  *)
(* has died and no answer has been lost.                                   *)
(*                                                                         *)
(* The argument is about staleness.  A binding says what has been true of  *)
(* two comments at two times.  The times only grow, a comment that is gone *)
(* never comes back, and so a binding one of whose comments has changed or *)
(* gone stays stale whatever happens next; and of the comments a run has   *)
(* in its queue all bindings, its own and those stored, are stale.  That   *)
(* is why a run that goes on with an old list does not bind what differs.  *)
(*                                                                         *)
(* At the end, of attachments: a memo that both sides have as recorded     *)
(* refers to the same files, in the same order, but for those of which a   *)
(* transfer has failed.                                                    *)
(***************************************************************************)
EXTENDS MCSyncParts, SequenceTheorems, WellFoundedInduction, TLAPS

USE CommentSyncAssumption, FreshGoneAreNoComments

(* A set of naturals that is not empty has a least element ... *)
LEMMA LeastExists ==
  ASSUME NEW S \in SUBSET Nat, S # {}
  PROVE  \E x \in S : \A y \in S : x <= y
<1> DEFINE R == OpToRel(<, Nat)
<1>1. PICK x \in S : \A y \in S : ~(<<y, x>> \in R)
  <2> HIDE DEF R
  <2>1. IsWellFoundedOn(R, Nat)
    BY NatLessThanWellFounded DEF R
  <2> QED
    BY <2>1, WFMin
<1>2. \A y \in S : ~(y < x)
  BY <1>1 DEF OpToRel
<1> QED
  BY <1>2

(* ... and, if it is bounded, a greatest one. *)
LEMMA GreatestExists ==
  ASSUME NEW n \in Nat, NEW S \in SUBSET (0..n), S # {}
  PROVE  \E x \in S : \A y \in S : y <= x
<1> DEFINE T == {n - x : x \in S}
<1>0. \A x \in S : n - x \in Nat
  OBVIOUS
<1>1. T \in SUBSET Nat /\ T # {}
  <2>1. T \subseteq Nat
    BY <1>0
  <2>2. PICK x \in S : TRUE
    OBVIOUS
  <2>3. n - x \in T
    BY <2>2
  <2> QED
    BY <2>1, <2>3
<1>2. PICK t \in T : \A u \in T : t <= u
  BY <1>1, LeastExists
<1>3. PICK x \in S : t = n - x
  OBVIOUS
<1>4. \A y \in S : n - x <= n - y
  BY <1>2, <1>3
<1> QED
  BY <1>4

(***************************************************************************)
(* Comments, their bindings and the queue of a run.                        *)
(***************************************************************************)
Maps(R) == UNION {[D -> R] : D \in SUBSET Ids}
Runs ==
    [pc : RunStates, bindings : Maps(CommentBinding), todo : SUBSET Parents, memo : Parents,
     queue : Maps(Comment), seen : SUBSET Ids, sweep : SUBSET Ids, target : Ids \cup {0}]
FaultCount == [count : 0..MaxFaults, kinds : SUBSET Faults]

TypeInv ==
    /\ local \in Table /\ remote \in Table /\ clock \in 0..MaxTime
    /\ faults \in FaultCount /\ disk \in Maps(CommentBinding) /\ run \in Runs
SweepType ==
    /\ run.sweep \subseteq DOMAIN run.bindings
    /\ run.pc \notin {"pushSweep", "pushDelete", "pullSweep"} => run.sweep = {}
    /\ run.pc = "pushDelete" => run.target \in DOMAIN run.bindings \ run.sweep
    /\ run.pc = "pullReread" => run.target \in DOMAIN run.bindings
    /\ run.pc = "idle" => run.bindings = NoMap

LEMMA MapMember ==
  ASSUME NEW R, NEW f
  PROVE  f \in Maps(R) <=> f \in [DOMAIN f -> R] /\ DOMAIN f \subseteq Ids
<1>1. ASSUME f \in Maps(R) PROVE f \in [DOMAIN f -> R] /\ DOMAIN f \subseteq Ids
  <2>1. PICK D \in SUBSET Ids : f \in [D -> R]
    BY <1>1 DEF Maps
  <2> QED
    BY <2>1
<1>2. ASSUME f \in [DOMAIN f -> R], DOMAIN f \subseteq Ids PROVE f \in Maps(R)
  BY <1>2 DEF Maps
<1> QED
  BY <1>1, <1>2

LEMMA MapPut ==
  ASSUME NEW R, NEW f \in Maps(R), NEW k \in Ids, NEW v \in R
  PROVE  /\ Put(f, k, v) \in Maps(R) /\ DOMAIN Put(f, k, v) = DOMAIN f \cup {k}
         /\ Put(f, k, v)[k] = v /\ \A x \in DOMAIN f \ {k} : Put(f, k, v)[x] = f[x]
<1>1. Put(f, k, v) \in [DOMAIN f \cup {k} -> R] /\ DOMAIN f \cup {k} \subseteq Ids
  BY MapMember DEF Put
<1>2. Put(f, k, v) \in Maps(R)
  BY <1>1, MapMember
<1> QED
  BY <1>1, <1>2 DEF Put

LEMMA MapDrop ==
  ASSUME NEW R, NEW f \in Maps(R), NEW k
  PROVE  /\ Drop(f, k) \in Maps(R) /\ DOMAIN Drop(f, k) = DOMAIN f \ {k}
         /\ \A x \in DOMAIN f \ {k} : Drop(f, k)[x] = f[x]
<1>1. Drop(f, k) \in [DOMAIN f \ {k} -> R] /\ DOMAIN f \ {k} \subseteq Ids
  BY MapMember DEF Drop, Restrict
<1>2. Drop(f, k) \in Maps(R)
  BY <1>1, MapMember
<1> QED
  BY <1>1, <1>2 DEF Drop, Restrict

LEMMA MapEmpty == ASSUME NEW R PROVE NoMap \in Maps(R) /\ DOMAIN NoMap = {}
BY MapMember DEF NoMap

LEMMA ListedMap ==
  ASSUME NEW T \in Table, NEW p, NEW S
  PROVE  /\ Listed(T, p, S) \in Maps(Comment) /\ CommentsOf(T, p) \in SUBSET Ids
         /\ DOMAIN Listed(T, p, S) = CommentsOf(T, p) \ S
<1>1. CommentsOf(T, p) \subseteq Ids /\ \A i \in CommentsOf(T, p) : T[i] \in Comment
  BY DEF CommentsOf, Live, Table
<1>2. Listed(T, p, S) \in [CommentsOf(T, p) \ S -> Comment]
  BY <1>1 DEF Listed
<1> QED
  BY <1>1, <1>2, MapMember

LEMMA ListedValue ==
  ASSUME NEW T, NEW p, NEW S, NEW i \in CommentsOf(T, p) \ S
  PROVE  Listed(T, p, S)[i] = T[i]
BY DEF Listed

(* The first comment of a queue, and the id that is handed out. *)
LEMMA ItemListed ==
  ASSUME run \in Runs, DOMAIN run.queue # {}
  PROVE  /\ Item \in DOMAIN run.queue /\ Item \in Ids /\ run.queue[Item] \in Comment
         /\ Rest \in Maps(Comment) /\ DOMAIN Rest = DOMAIN run.queue \ {Item}
         /\ \A i \in DOMAIN run.queue \ {Item} : Rest[i] = run.queue[i]
<1>1. run.queue \in Maps(Comment)
  BY DEF Runs
<1>2. run.queue \in [DOMAIN run.queue -> Comment] /\ DOMAIN run.queue \subseteq Ids
  BY <1>1, MapMember
<1>3. DOMAIN run.queue \in SUBSET (0..MaxComment)
  BY <1>2 DEF Ids
<1>4. \E i \in DOMAIN run.queue : Later(i)
  BY <1>3, GreatestExists DEF Later
<1>5. Item \in DOMAIN run.queue
  BY <1>4 DEF Item
<1>6. ASSUME NEW k
      PROVE  /\ Drop(run.queue, k) \in Maps(Comment) /\ DOMAIN Drop(run.queue, k) = DOMAIN run.queue \ {k}
             /\ \A x \in DOMAIN run.queue \ {k} : Drop(run.queue, k)[x] = run.queue[x]
  BY <1>1, MapDrop
<1>7. Item \in Ids /\ run.queue[Item] \in Comment
  BY <1>2, <1>5
<1> HIDE DEF Item
<1> QED
  BY <1>5, <1>6, <1>7 DEF Rest

LEMMA NextIdFresh ==
  ASSUME NEW T, Unused(T) # {}
  PROVE  NextId(T) \in Ids /\ T[NextId(T)] = Fresh
<1>1. Unused(T) \in SUBSET Nat
  BY DEF Unused, Ids
<1>2. \E i \in Unused(T) : \A j \in Unused(T) : i <= j
  BY <1>1, LeastExists
<1>3. NextId(T) \in Unused(T)
  BY <1>2 DEF NextId
<1> QED
  BY <1>3 DEF Unused

LEMMA FaultType ==
  ASSUME faults \in FaultCount
  PROVE  /\ \A k : Fault(k) => faults' \in FaultCount /\ faults'.kinds = faults.kinds \cup {k}
         /\ NoFault => faults' = faults
<1>1. ASSUME NEW k, Fault(k) PROVE faults' \in FaultCount /\ faults'.kinds = faults.kinds \cup {k}
  BY <1>1 DEF Fault, FaultCount
<1> QED
  BY <1>1 DEF NoFault

(* Whatever fields an action gives a run, it stays a run. *)
LEMMA RunFields ==
  ASSUME run \in Runs
  PROVE  /\ run.pc \in RunStates /\ run.bindings \in Maps(CommentBinding)
         /\ run.todo \in SUBSET Parents /\ run.memo \in Parents /\ run.queue \in Maps(Comment)
         /\ run.seen \in SUBSET Ids /\ run.sweep \in SUBSET Ids /\ run.target \in Ids \cup {0}
         /\ DOMAIN run.bindings \subseteq Ids /\ DOMAIN run.queue \subseteq Ids
         /\ \A r \in DOMAIN run.bindings : run.bindings[r] \in CommentBinding
         /\ \A i \in DOMAIN run.queue : run.queue[i] \in Comment
<1>1. run.bindings \in Maps(CommentBinding) /\ run.queue \in Maps(Comment)
  BY DEF Runs
<1>2. /\ run.bindings \in [DOMAIN run.bindings -> CommentBinding]
      /\ DOMAIN run.bindings \subseteq Ids /\ DOMAIN run.queue \subseteq Ids
      /\ run.queue \in [DOMAIN run.queue -> Comment]
  BY <1>1, MapMember
<1> QED
  BY <1>1, <1>2 DEF Runs

--------------------------------------------------------------------------------
(* What a step makes of a table: a comment that is gone stays gone, and one *)
(* that stays keeps its memo and the second it was first written in and    *)
(* grows no younger.                                                       *)
Kept(c, d) == c.ut <= d.ut /\ c.parent = d.parent /\ c.org = d.org
Grows(T, U) ==
    \A i \in Ids :
      /\ T[i] # Fresh => U[i] # Fresh
      /\ T[i] = Gone => U[i] = Gone
      /\ i \in Live(T) /\ i \in Live(U) => Kept(T[i], U[i])

LEMMA SameGrows == ASSUME NEW T \in Table PROVE Grows(T, T)
BY DEF Grows, Table, Live, Comment, Kept

LEMMA LiveComment ==
  ASSUME NEW T \in Table, NEW i
  PROVE  i \in Live(T) <=> i \in Ids /\ T[i] \in Comment
BY DEF Live, Table

LEMMA WriteGrows ==
  ASSUME NEW T \in Table, NEW i \in Live(T), NEW c \in Comment, Kept(T[i], c)
  PROVE  /\ [T EXCEPT ![i] = c] \in Table /\ Grows(T, [T EXCEPT ![i] = c])
         /\ Live([T EXCEPT ![i] = c]) = Live(T)
BY DEF Grows, Table, Live, Comment, Kept

LEMMA CreateGrows ==
  ASSUME NEW T \in Table, NEW i \in Ids, T[i] = Fresh, NEW c \in Comment
  PROVE  /\ [T EXCEPT ![i] = c] \in Table /\ Grows(T, [T EXCEPT ![i] = c])
         /\ Live([T EXCEPT ![i] = c]) = Live(T) \cup {i}
BY DEF Grows, Table, Live, Comment, Kept

LEMMA DeleteGrows ==
  ASSUME NEW T \in Table, NEW i \in Ids, T[i] # Fresh
  PROVE  /\ [T EXCEPT ![i] = Gone] \in Table /\ Grows(T, [T EXCEPT ![i] = Gone])
         /\ Live([T EXCEPT ![i] = Gone]) = Live(T) \ {i}
BY DEF Grows, Table, Live, Comment, Kept

(* A binding b of the remote comment r is stale when one of the two is gone *)
(* or has been written since the binding was; it will never be otherwise.  *)
Stale(L, R, b, r) ==
    \/ L[b.local] = Gone \/ R[r] = Gone
    \/ b.lut < L[b.local].ut \/ b.rut < R[r].ut

(* What every binding says is or has been true: it is about comments that  *)
(* have existed, of its memo, at times they have had ...                   *)
Sound(L, R, b, r) ==
    /\ L[b.local] # Fresh /\ R[r] # Fresh
    /\ b.local \in Live(L) => b.lut <= L[b.local].ut /\ L[b.local].parent = b.parent
    /\ r \in Live(R) => b.rut <= R[r].ut /\ R[r].parent = b.parent

(* ... and as long as it is not stale the two are equal.                   *)
Agrees(L, R, b, r) == Stale(L, R, b, r) \/ L[b.local].text = R[r].text

LEMMA StaleKept ==
  ASSUME NEW L \in Table, NEW L2 \in Table, Grows(L, L2),
         NEW R \in Table, NEW R2 \in Table, Grows(R, R2),
         NEW b \in CommentBinding, NEW r \in Ids, Sound(L, R, b, r), Stale(L, R, b, r)
  PROVE  Stale(L2, R2, b, r)
<1>1. /\ b.local \in Ids /\ b.lut \in 0..MaxTime /\ b.rut \in 0..MaxTime
      /\ L[b.local] # Fresh /\ R[r] # Fresh
  BY DEF CommentBinding, Sound
<1> SUFFICES ASSUME L2[b.local] # Gone, R2[r] # Gone PROVE Stale(L2, R2, b, r)
  BY DEF Stale
<1>2. /\ L2[b.local] # Fresh /\ L[b.local] # Gone /\ R2[r] # Fresh /\ R[r] # Gone
  BY <1>1 DEF Grows
<1>3. /\ L[b.local] \in Comment /\ L2[b.local] \in Comment /\ R[r] \in Comment /\ R2[r] \in Comment
      /\ L[b.local].ut <= L2[b.local].ut /\ R[r].ut <= R2[r].ut
  BY <1>1, <1>2 DEF Grows, Live, Table, Kept
<1> QED
  BY <1>1, <1>2, <1>3 DEF Stale, Comment

LEMMA SoundKept ==
  ASSUME NEW L \in Table, NEW L2 \in Table, Grows(L, L2),
         NEW R \in Table, NEW R2 \in Table, Grows(R, R2),
         NEW b \in CommentBinding, NEW r \in Ids, Sound(L, R, b, r)
  PROVE  Sound(L2, R2, b, r)
<1>1. b.local \in Ids /\ b.lut \in 0..MaxTime /\ b.rut \in 0..MaxTime
  BY DEF CommentBinding
<1>2. L2[b.local] # Fresh /\ R2[r] # Fresh
  BY <1>1 DEF Sound, Grows
<1>3. ASSUME b.local \in Live(L2) PROVE b.lut <= L2[b.local].ut /\ L2[b.local].parent = b.parent
  <2>1. b.local \in Live(L)
    BY <1>1, <1>3 DEF Grows, Live, Sound
  <2>2. L[b.local] \in Comment /\ L2[b.local] \in Comment
    BY <1>3, <2>1, LiveComment
  <2> QED
    BY <1>1, <1>3, <2>1, <2>2 DEF Grows, Kept, Sound, Comment
<1>4. ASSUME r \in Live(R2) PROVE b.rut <= R2[r].ut /\ R2[r].parent = b.parent
  <2>1. r \in Live(R)
    BY <1>4 DEF Grows, Live, Sound
  <2>2. R[r] \in Comment /\ R2[r] \in Comment
    BY <1>4, <2>1, LiveComment
  <2> QED
    BY <1>1, <1>4, <2>1, <2>2 DEF Grows, Kept, Sound, Comment
<1> QED
  BY <1>2, <1>3, <1>4 DEF Sound

(* A comment q of a queue, as it was listed of the table T for the memo p.  *)
WasListed(T, q, i, p, now) ==
    /\ T[i] # Fresh /\ q.parent = p /\ q.ut <= now /\ q.org <= now
    /\ i \in Live(T) => /\ q.parent = T[i].parent /\ q.org = T[i].org /\ q.ut <= T[i].ut
                        /\ q.ut = T[i].ut => q.text = T[i].text

--------------------------------------------------------------------------------
(* Steps of the users: what one makes of the table T at the second now.    *)
UserStep(T, U, now) ==
    \A i \in Ids :
      \/ U[i] = T[i]
      \/ U[i] = Gone /\ i \in Live(T)
      \/ /\ U[i] \in Comment /\ U[i].ut = now
         /\ \/ T[i] = Fresh /\ U[i].org = now
            \/ i \in Live(T) /\ U[i].org = T[i].org /\ U[i].parent = T[i].parent

LEMMA CreatesStep ==
  ASSUME TypeInv, NEW T \in Table, NEW U, Unused(T) # {}, Creates(T, U), Now \in 0..MaxTime
  PROVE  U \in Table /\ UserStep(T, U, Now)
<1>1. PICK p \in Parents, x \in NewTexts :
        U = [T EXCEPT ![NextId(T)] = [parent |-> p, text |-> x, ut |-> Now, org |-> Now]]
  BY DEF Creates
<1> DEFINE c == [parent |-> p, text |-> x, ut |-> Now, org |-> Now]
<1>2. c \in Comment /\ c.ut = Now /\ c.org = Now
  BY DEF Comment
<1>3. NextId(T) \in Ids /\ T[NextId(T)] = Fresh
  BY NextIdFresh
<1> QED
  BY <1>1, <1>2, <1>3 DEF Table, UserStep

LEMMA EditsStep ==
  ASSUME TypeInv, NEW T \in Table, NEW U, Edits(T, U), Now \in 0..MaxTime
  PROVE  U \in Table /\ UserStep(T, U, Now) /\ \A i \in Ids : T[i] = Fresh => U[i] = Fresh
<1>1. PICK i \in Live(T), x \in Texts : U = [T EXCEPT ![i].text = x, ![i].ut = Now]
  BY DEF Edits
<1>2. T[i] \in Comment /\ i \in Ids
  BY LiveComment
<1>3. U = [T EXCEPT ![i] = [T[i] EXCEPT !.text = x, !.ut = Now]]
  BY <1>1, <1>2 DEF Table
<1>4. ASSUME NEW c, c = [T[i] EXCEPT !.text = x, !.ut = Now]
      PROVE  c \in Comment /\ c.ut = Now /\ c.org = T[i].org /\ c.parent = T[i].parent
  BY <1>2, <1>4 DEF Comment
<1> QED
  BY <1>2, <1>3, <1>4 DEF Table, UserStep, Live

LEMMA DeletesStep ==
  ASSUME NEW T \in Table, NEW U, Deletes(T, U), NEW now
  PROVE  U \in Table /\ UserStep(T, U, now)
BY DEF Deletes, Table, UserStep, Live

LEMMA UserStepGrows ==
  ASSUME NEW T \in Table, NEW U \in Table, NEW now \in Nat, UserStep(T, U, now),
         \A i \in Live(T) : T[i].ut <= now
  PROVE  Grows(T, U)
BY DEF Grows, UserStep, Table, Live, Comment, Kept

(* All the users do. *)
LEMMA UserEffects ==
  ASSUME TypeInv, LocalUser \/ RemoteUser
  PROVE  /\ UNCHANGED <<disk, run, faults>> /\ TypeInv'
         /\ \/ local' = local /\ UserStep(remote, remote', Now)
            \/ remote' = remote /\ UserStep(local, local', Now)
         /\ clock' \in {clock, Now}
         /\ clock' = clock => \A i \in Ids : /\ local'[i] # local[i] => local'[i] = Gone
                                             /\ remote'[i] # remote[i] => remote'[i] = Gone
<1>1. Tick => Now \in 0..MaxTime /\ clock' = Now /\ UNCHANGED <<disk, run, faults>>
  BY DEF Tick, Now, TypeInv
<1>2. CASE LocalCreate
  BY <1>1, <1>2, CreatesStep DEF LocalCreate, TypeInv, Now
<1>3. CASE LocalEdit
  BY <1>1, <1>3, EditsStep DEF LocalEdit, TypeInv, Now
<1>4. CASE LocalDelete
  BY <1>4, DeletesStep DEF LocalDelete, TypeInv, Deletes, Table
<1>5. CASE RemoteCreate
  BY <1>1, <1>5, CreatesStep DEF RemoteCreate, TypeInv, Now
<1>6. CASE RemoteEdit
  BY <1>1, <1>6, EditsStep DEF RemoteEdit, TypeInv, Now
<1>7. CASE RemoteDelete
  BY <1>7, DeletesStep DEF RemoteDelete, TypeInv, Deletes, Table
<1> QED
  BY <1>2, <1>3, <1>4, <1>5, <1>6, <1>7 DEF LocalUser, RemoteUser

(* Steps of a run. *)
LEMMA SkipItemEffect ==
  ASSUME TypeInv, NEW pc, NEW refused, SkipItem(pc, refused)
  PROVE  /\ TypeInv' /\ UNCHANGED <<local, remote, clock, disk>> /\ run.pc = pc
         /\ run'.queue = Rest /\ DOMAIN run.queue # {}
         /\ UNCHANGED <<run.pc, run.bindings, run.todo, run.memo, run.seen, run.sweep, run.target>>
         /\ faults'.kinds \subseteq faults.kinds \cup {"fail"}
<1>1. DOMAIN run.queue # {} /\ Rest \in Maps(Comment)
  BY ItemListed DEF SkipItem, AtItem, TypeInv
<1>2. faults' \in FaultCount /\ faults'.kinds \subseteq faults.kinds \cup {"fail"}
  BY FaultType DEF SkipItem, TypeInv
<1> QED
  BY <1>1, <1>2 DEF SkipItem, AtItem, TypeInv, Runs

LEMMA SkipMemoEffect ==
  ASSUME TypeInv, NEW pc, SkipMemo(pc)
  PROVE  /\ TypeInv' /\ UNCHANGED <<local, remote, clock, disk>> /\ run.pc = pc
         /\ UNCHANGED <<run.pc, run.bindings, run.queue, run.memo, run.seen, run.sweep, run.target>>
         /\ faults'.kinds \subseteq faults.kinds \cup {"fail"}
<1>1. faults' \in FaultCount /\ faults'.kinds \subseteq faults.kinds \cup {"fail"}
  BY FaultType DEF SkipMemo, TypeInv
<1> QED
  BY <1>1 DEF SkipMemo, TypeInv, Runs

LEMMA StartEffect ==
  ASSUME TypeInv, Start
  PROVE  /\ TypeInv' /\ UNCHANGED <<local, remote, clock, disk, faults>> /\ run.pc = "idle"
         /\ run'.pc = "pushList" /\ run'.bindings = disk /\ run'.sweep = {}
<1>1. Idle \in Runs /\ Idle.sweep = {}
  BY MapEmpty DEF Idle, Runs, RunStates
<1> QED
  BY <1>1 DEF Start, TypeInv, Runs, RunStates

(* Push. *)
LEMMA PushListEffect ==
  ASSUME TypeInv, PushList
  PROVE  /\ TypeInv' /\ UNCHANGED <<local, remote, clock, disk, faults>> /\ run.pc = "pushList"
         /\ run'.pc = "pushItem" /\ UNCHANGED <<run.bindings, run.sweep, run.target>>
         /\ run'.seen = CommentsOf(local, run'.memo) /\ run'.memo \in Parents
         /\ DOMAIN run'.queue =
              CommentsOf(local, run'.memo) \
                {l \in Live(local) : \E r \in RemoteOf(l) : run.bindings[r].lut = local[l].ut}
         /\ \A l \in DOMAIN run'.queue : run'.queue[l] = local[l]
<1> DEFINE same == {l \in Live(local) : \E r \in RemoteOf(l) : run.bindings[r].lut = local[l].ut}
<1>0. local \in Table
  BY DEF TypeInv
<1>1. ASSUME NEW p, NEW S
      PROVE  /\ Listed(local, p, S) \in Maps(Comment) /\ CommentsOf(local, p) \in SUBSET Ids
             /\ DOMAIN Listed(local, p, S) = CommentsOf(local, p) \ S
             /\ \A i \in CommentsOf(local, p) \ S : Listed(local, p, S)[i] = local[i]
  <2>1. Listed(local, p, S) \in Maps(Comment) /\ CommentsOf(local, p) \in SUBSET Ids
    BY <1>0, ListedMap
  <2>2. DOMAIN Listed(local, p, S) = CommentsOf(local, p) \ S
    BY <1>0, ListedMap
  <2>3. \A i \in CommentsOf(local, p) \ S : Listed(local, p, S)[i] = local[i]
    BY ListedValue
  <2> QED
    BY <2>1, <2>2, <2>3
<1>2. PICK p \in run.todo :
        run' = [run EXCEPT !.pc = "pushItem", !.todo = @ \ {p}, !.memo = p,
                           !.queue = Listed(local, p, same), !.seen = CommentsOf(local, p)]
  BY DEF PushList
<1> HIDE DEF same
<1>3. /\ TypeInv' /\ run'.pc = "pushItem" /\ run'.memo = p /\ p \in Parents
      /\ UNCHANGED <<run.bindings, run.sweep, run.target>>
      /\ run'.queue = Listed(local, p, same) /\ run'.seen = CommentsOf(local, p)
  BY <1>1, <1>2 DEF PushList, TypeInv, Runs, RunStates
<1>4. UNCHANGED <<local, remote, clock, disk, faults>> /\ run.pc = "pushList"
  BY DEF PushList
<1>5. ASSUME NEW S, S = same
      PROVE  /\ DOMAIN Listed(local, p, S) = CommentsOf(local, p) \ same
             /\ \A l \in CommentsOf(local, p) \ same : Listed(local, p, S)[l] = local[l]
  BY ZenonT(60), <1>1, <1>5
<1>6. /\ DOMAIN run'.queue = CommentsOf(local, run'.memo) \ same
      /\ \A l \in DOMAIN run'.queue : run'.queue[l] = local[l]
  BY <1>3, <1>5
<1> QED
  BY <1>3, <1>4, <1>6 DEF same

LEMMA PushUpdateEffect ==
  ASSUME TypeInv, PushUpdate
  PROVE  \E r \in RemoteOf(Item) \cap Live(remote) :
           /\ TypeInv' /\ UNCHANGED <<local, clock, disk>> /\ AtItem("pushItem")
           /\ run'.queue = Rest
           /\ UNCHANGED <<run.pc, run.todo, run.memo, run.seen, run.sweep, run.target>>
           /\ \E c \in Comment : /\ remote' = [remote EXCEPT ![r] = c]
                                 /\ c.text = run.queue[Item].text /\ c.ut = clock
                                 /\ c.parent = remote[r].parent /\ c.org = remote[r].org
           /\ \/ /\ \E b \in CommentBinding :
                      /\ run'.bindings = Put(run.bindings, r, b)
                      /\ b.local = Item /\ b.parent = run.bindings[r].parent
                      /\ b.rut = clock /\ b.lut = run.queue[Item].ut
                 /\ faults' = faults
              \/ run'.bindings = run.bindings /\ "lost" \in faults'.kinds
<1>1. /\ Item \in Ids /\ run.queue[Item] \in Comment /\ Rest \in Maps(Comment)
  BY ItemListed DEF PushUpdate, AtItem, TypeInv
<1>2. PICK r \in RemoteOf(Item) \cap Live(remote) :
         /\ remote' = [remote EXCEPT ![r].text = run.queue[Item].text, ![r].ut = clock]
         /\ \/ /\ run' = [run EXCEPT !.queue = Rest, !.bindings[r].rut = clock,
                                     !.bindings[r].lut = run.queue[Item].ut]
               /\ NoFault
            \/ Fault("lost") /\ run' = [run EXCEPT !.queue = Rest]
  BY DEF PushUpdate
<1>3. /\ r \in Ids /\ remote[r] \in Comment
      /\ r \in DOMAIN run.bindings /\ run.bindings[r] \in CommentBinding
      /\ run.bindings[r].local = Item
  BY LiveComment, RunFields DEF TypeInv, RemoteOf
<1> DEFINE c == [remote[r] EXCEPT !.text = run.queue[Item].text, !.ut = clock]
           b == [run.bindings[r] EXCEPT !.rut = clock, !.lut = run.queue[Item].ut]
<1>4. ASSUME NEW q \in Comment, NEW d \in Comment
      PROVE  LET x == [d EXCEPT !.text = q.text, !.ut = clock]
             IN  x \in Comment /\ x.text = q.text /\ x.ut = clock /\ x.parent = d.parent /\ x.org = d.org
  BY DEF Comment, TypeInv
<1>5. remote' = [remote EXCEPT ![r] = c]
  BY <1>2 DEF TypeInv, Table
<1>6. /\ b \in CommentBinding /\ b.local = Item /\ b.parent = run.bindings[r].parent
      /\ b.rut = clock /\ b.lut = run.queue[Item].ut
  BY <1>1, <1>3 DEF CommentBinding, Comment, TypeInv
<1>a. c \in Comment /\ c.text = run.queue[Item].text /\ c.ut = clock /\ c.parent = remote[r].parent
      /\ c.org = remote[r].org
  BY ZenonT(60), <1>1, <1>3, <1>4
<1> HIDE DEF c
<1>7. remote' \in Table
  BY <1>3, <1>5, <1>a DEF TypeInv, Table
<1>8. CASE Fault("lost") /\ run' = [run EXCEPT !.queue = Rest]
  <2>1. faults' \in FaultCount /\ "lost" \in faults'.kinds
    BY <1>8, FaultType DEF TypeInv
  <2>2. /\ run' \in Runs /\ run'.queue = Rest /\ run'.bindings = run.bindings
        /\ UNCHANGED <<run.pc, run.todo, run.memo, run.seen, run.sweep, run.target>>
    BY <1>1, <1>8 DEF TypeInv, Runs
  <2> QED
    BY <1>a, <1>5, <1>7, <2>1, <2>2 DEF PushUpdate, TypeInv
<1>9. CASE /\ run' = [run EXCEPT !.queue = Rest, !.bindings[r].rut = clock,
                                 !.bindings[r].lut = run.queue[Item].ut]
           /\ NoFault
  <2>2. run.bindings \in Maps(CommentBinding)
    BY DEF TypeInv, Runs
  <2>3. run'.bindings = [run.bindings EXCEPT ![r] = b]
    BY <1>3, <1>9, <2>2, MapMember DEF TypeInv, Runs
  <2>c. /\ b \in CommentBinding /\ b.local = Item /\ b.parent = run.bindings[r].parent
        /\ b.rut = clock /\ b.lut = run.queue[Item].ut
    BY <1>6
  <2> HIDE DEF b
  <2>4. [run.bindings EXCEPT ![r] = b] = Put(run.bindings, r, b)
    BY <1>3, <2>2, MapMember DEF Put
  <2>5. Put(run.bindings, r, b) \in Maps(CommentBinding)
    BY <1>3, <1>6, <2>2, MapPut
  <2>6. /\ run'.queue = Rest
        /\ UNCHANGED <<run.pc, run.todo, run.memo, run.seen, run.sweep, run.target>>
    BY <1>9 DEF TypeInv, Runs
  <2>7. run' = [run EXCEPT !.queue = Rest, !.bindings = Put(run.bindings, r, b)]
    BY <1>9, <2>3, <2>4 DEF TypeInv, Runs
  <2>8. run' \in Runs
    BY <1>1, <2>5, <2>7 DEF TypeInv, Runs
  <2>9. faults' = faults
    BY <1>9 DEF NoFault
  <2> QED
    <3>1. TypeInv' /\ UNCHANGED <<local, clock, disk>> /\ AtItem("pushItem")
      BY <1>7, <2>8, <2>9 DEF PushUpdate, TypeInv
    <3>2. run'.bindings = Put(run.bindings, r, b)
      BY <2>3, <2>4
    <3> QED
      BY <1>a, <1>5, <2>c, <2>6, <2>9, <3>1, <3>2
<1> QED
  BY <1>2, <1>8, <1>9

LEMMA PushCreateEffect ==
  ASSUME TypeInv, PushCreate
  PROVE  \E r \in Ids :
           /\ TypeInv' /\ UNCHANGED <<local, clock, disk>> /\ AtItem("pushItem")
           /\ remote[r] = Fresh /\ RemoteOf(Item) = {} /\ run'.queue = Rest
           /\ UNCHANGED <<run.pc, run.todo, run.memo, run.seen, run.sweep, run.target>>
           /\ \E c \in Comment : /\ remote' = [remote EXCEPT ![r] = c]
                                 /\ c.text = run.queue[Item].text /\ c.ut = clock
                                 /\ c.parent = run.queue[Item].parent
                                 /\ c.org = run.queue[Item].org
           /\ \/ /\ \E b \in CommentBinding :
                      /\ run'.bindings = Put(run.bindings, r, b)
                      /\ b.local = Item /\ b.parent = run.memo
                      /\ b.rut = clock /\ b.lut = run.queue[Item].ut
                 /\ faults' = faults
              \/ run'.bindings = run.bindings /\ "lost" \in faults'.kinds
<1> DEFINE r == NextId(remote)
           q == run.queue[Item]
           c == [q EXCEPT !.ut = clock]
           b == [local |-> Item, parent |-> run.memo, rut |-> clock, lut |-> q.ut]
<1>1. Item \in Ids /\ q \in Comment /\ Rest \in Maps(Comment)
  BY ItemListed DEF PushCreate, AtItem, TypeInv
<1>2. r \in Ids /\ remote[r] = Fresh
  BY NextIdFresh DEF PushCreate
<1>3. ASSUME NEW x \in Comment
      PROVE  LET y == [x EXCEPT !.ut = clock]
             IN  y \in Comment /\ y.text = x.text /\ y.ut = clock /\ y.parent = x.parent /\ y.org = x.org
  BY DEF Comment, TypeInv
<1>4. /\ b \in CommentBinding /\ b.local = Item /\ b.parent = run.memo
      /\ b.rut = clock /\ b.lut = q.ut
  BY <1>1 DEF CommentBinding, Comment, TypeInv, Runs
<1>5. Put(run.bindings, r, b) \in Maps(CommentBinding)
  BY <1>2, <1>4, MapPut DEF TypeInv, Runs
<1> HIDE DEF r, q, b
<1>6. /\ remote' = [remote EXCEPT ![r] = c] /\ AtItem("pushItem") /\ RemoteOf(Item) = {}
      /\ UNCHANGED <<local, clock, disk>>
      /\ \/ run' = [run EXCEPT !.queue = Rest, !.bindings = Put(run.bindings, r, b)] /\ NoFault
         \/ run' = [run EXCEPT !.queue = Rest] /\ Fault("lost")
  BY DEF PushCreate, r, q, b
<1>7. c \in Comment /\ c.text = q.text /\ c.ut = clock /\ c.parent = q.parent /\ c.org = q.org
  BY <1>1, <1>3
<1> HIDE DEF c
<1>8. remote' \in Table
  BY <1>6, <1>7 DEF TypeInv, Table
<1>9. /\ run' \in Runs /\ run'.queue = Rest
      /\ UNCHANGED <<run.pc, run.todo, run.memo, run.seen, run.sweep, run.target>>
  BY <1>1, <1>5, <1>6 DEF TypeInv, Runs
<1>10. CASE run' = [run EXCEPT !.queue = Rest] /\ Fault("lost")
  <2>1. faults' \in FaultCount /\ "lost" \in faults'.kinds
    BY <1>10, FaultType DEF TypeInv
  <2>2. run'.bindings = run.bindings
    BY <1>10 DEF TypeInv, Runs
  <2> QED
    BY <1>2, <1>6, <1>7, <1>8, <1>9, <2>1, <2>2 DEF TypeInv, q
<1>11. CASE run' = [run EXCEPT !.queue = Rest, !.bindings = Put(run.bindings, r, b)] /\ NoFault
  <2>1. faults' = faults
    BY <1>11 DEF NoFault
  <2>2. run'.bindings = Put(run.bindings, r, b)
    BY <1>11 DEF TypeInv, Runs
  <2> QED
    BY <1>2, <1>4, <1>6, <1>7, <1>8, <1>9, <2>1, <2>2 DEF TypeInv, q
<1> QED
  BY <1>6, <1>10, <1>11

LEMMA PushItemsDoneEffect ==
  ASSUME TypeInv, PushItemsDone
  PROVE  /\ TypeInv' /\ UNCHANGED <<local, remote, clock, disk, faults>> /\ run.pc = "pushItem"
         /\ run'.pc = "pushSweep" /\ run'.bindings = run.bindings
         /\ run'.sweep \subseteq DOMAIN run.bindings
<1>1. Unseen("local") \subseteq DOMAIN run.bindings /\ DOMAIN run.bindings \subseteq Ids
  BY RunFields DEF Unseen, TypeInv
<1> QED
  BY <1>1 DEF PushItemsDone, TypeInv, Runs, RunStates

LEMMA PushProbeEffect ==
  ASSUME TypeInv, PushProbe
  PROVE  \E r \in run.sweep :
           /\ TypeInv' /\ UNCHANGED <<local, remote, clock, disk>> /\ run.pc = "pushSweep"
           /\ run'.bindings = run.bindings /\ run'.sweep = run.sweep \ {r}
           /\ \/ run'.pc = "pushSweep"
              \/ run'.pc = "pushDelete" /\ run'.target = r /\ local[LocalName(r)] = Gone
<1>1. faults' \in FaultCount
  BY FaultType DEF PushProbe, TypeInv
<1>2. PICK r \in run.sweep :
         \/ /\ local[LocalName(r)] = Gone
            /\ run' = [run EXCEPT !.pc = "pushDelete", !.sweep = @ \ {r}, !.target = r]
         \/ run' = [run EXCEPT !.sweep = @ \ {r}]
  BY DEF PushProbe
<1> QED
  BY ZenonT(60), <1>1, <1>2 DEF PushProbe, TypeInv, Runs, RunStates

LEMMA PushDeleteEffect ==
  ASSUME TypeInv, SweepType, PushDelete
  PROVE  /\ TypeInv' /\ UNCHANGED <<local, clock, disk>> /\ run.pc = "pushDelete"
         /\ run'.pc = "pushSweep" /\ run'.sweep = run.sweep
         /\ run.target \in DOMAIN run.bindings /\ run.target \in Ids
         /\ remote' \in {remote, [remote EXCEPT ![run.target] = Gone]}
         /\ run'.bindings \in {run.bindings, Drop(run.bindings, run.target)}
<1>1. run.target \in DOMAIN run.bindings /\ run.target \in Ids
  BY RunFields DEF SweepType, PushDelete, TypeInv
<1>2. faults' \in FaultCount
  BY FaultType DEF PushDelete, TypeInv
<1>3. Drop(run.bindings, run.target) \in Maps(CommentBinding)
  BY RunFields, MapDrop DEF TypeInv
<1>4. remote' \in {remote, [remote EXCEPT ![run.target] = Gone]}
  BY DEF PushDelete
<1>5. remote' \in Table
  BY <1>4 DEF TypeInv, Table
<1>6. \/ run' = [run EXCEPT !.pc = "pushSweep", !.bindings = Drop(@, run.target)]
      \/ run' = [run EXCEPT !.pc = "pushSweep"]
  BY DEF PushDelete
<1>7. /\ run' \in Runs /\ run'.pc = "pushSweep" /\ run'.sweep = run.sweep
      /\ run'.bindings \in {run.bindings, Drop(run.bindings, run.target)}
  BY <1>3, <1>6 DEF TypeInv, Runs, RunStates
<1> QED
  BY <1>1, <1>2, <1>4, <1>5, <1>7 DEF PushDelete, TypeInv

LEMMA MemoDoneEffect ==
  ASSUME TypeInv, PushMemoDone \/ PushDone \/ PullMemoDone
  PROVE  /\ TypeInv' /\ UNCHANGED <<local, remote, clock, disk, faults>> /\ run.pc # "idle"
         /\ run'.pc \in {"pushList", "pullList"} /\ run'.bindings = run.bindings
         /\ run'.sweep = run.sweep
         /\ run.pc \in {"pushSweep", "pullSweep"} => run.sweep = {}
<1> QED
  BY ZenonT(60) DEF PushMemoDone, PushDone, PullMemoDone, TypeInv, Runs, RunStates

(* Pull. *)
LEMMA PullListEffect ==
  ASSUME TypeInv, PullList
  PROVE  /\ TypeInv' /\ UNCHANGED <<local, remote, clock, disk, faults>> /\ run.pc = "pullList"
         /\ run'.pc = "pullItem" /\ UNCHANGED <<run.bindings, run.sweep, run.target>>
         /\ run'.seen = CommentsOf(remote, run'.memo) /\ run'.memo \in Parents
         /\ DOMAIN run'.queue =
              CommentsOf(remote, run'.memo) \
                {r \in Live(remote) : r \in DOMAIN run.bindings /\ run.bindings[r].rut = remote[r].ut}
         /\ \A r \in DOMAIN run'.queue : run'.queue[r] = remote[r]
<1> DEFINE same == {r \in Live(remote) : r \in DOMAIN run.bindings /\ run.bindings[r].rut = remote[r].ut}
<1>0. remote \in Table
  BY DEF TypeInv
<1>1. ASSUME NEW p, NEW S
      PROVE  /\ Listed(remote, p, S) \in Maps(Comment) /\ CommentsOf(remote, p) \in SUBSET Ids
             /\ DOMAIN Listed(remote, p, S) = CommentsOf(remote, p) \ S
             /\ \A i \in CommentsOf(remote, p) \ S : Listed(remote, p, S)[i] = remote[i]
  <2>1. Listed(remote, p, S) \in Maps(Comment) /\ CommentsOf(remote, p) \in SUBSET Ids
    BY <1>0, ListedMap
  <2>2. DOMAIN Listed(remote, p, S) = CommentsOf(remote, p) \ S
    BY <1>0, ListedMap
  <2>3. \A i \in CommentsOf(remote, p) \ S : Listed(remote, p, S)[i] = remote[i]
    BY ListedValue
  <2> QED
    BY <2>1, <2>2, <2>3
<1>2. PICK p \in run.todo :
        run' = [run EXCEPT !.pc = "pullItem", !.todo = @ \ {p}, !.memo = p,
                           !.queue = Listed(remote, p, same), !.seen = CommentsOf(remote, p)]
  BY DEF PullList
<1> HIDE DEF same
<1>3. /\ TypeInv' /\ run'.pc = "pullItem" /\ run'.memo = p /\ p \in Parents
      /\ UNCHANGED <<run.bindings, run.sweep, run.target>>
      /\ run'.queue = Listed(remote, p, same) /\ run'.seen = CommentsOf(remote, p)
  BY <1>1, <1>2 DEF PullList, TypeInv, Runs, RunStates
<1>4. UNCHANGED <<local, remote, clock, disk, faults>> /\ run.pc = "pullList"
  BY DEF PullList
<1>5. ASSUME NEW S, S = same
      PROVE  /\ DOMAIN Listed(remote, p, S) = CommentsOf(remote, p) \ same
             /\ \A r \in CommentsOf(remote, p) \ same : Listed(remote, p, S)[r] = remote[r]
  BY ZenonT(60), <1>1, <1>5
<1>6. /\ DOMAIN run'.queue = CommentsOf(remote, run'.memo) \ same
      /\ \A r \in DOMAIN run'.queue : run'.queue[r] = remote[r]
  BY <1>3, <1>5
<1> QED
  BY <1>3, <1>4, <1>6 DEF same

LEMMA PullCreateEffect ==
  ASSUME TypeInv, PullCreate
  PROVE  \E l \in Ids :
           /\ TypeInv' /\ UNCHANGED <<remote, clock, disk, faults>> /\ AtItem("pullItem")
           /\ local[l] = Fresh /\ Item \notin DOMAIN run.bindings /\ run'.queue = Rest
           /\ UNCHANGED <<run.pc, run.todo, run.memo, run.seen, run.sweep, run.target>>
           /\ \E c \in Comment : /\ local' = [local EXCEPT ![l] = c]
                                 /\ c.text = run.queue[Item].text /\ c.ut = clock
                                 /\ c.parent = run.queue[Item].parent
                                 /\ c.org = run.queue[Item].org
           /\ \E b \in CommentBinding :
                /\ run'.bindings = Put(run.bindings, Item, b)
                /\ b.local = l /\ b.parent = run.memo
                /\ b.rut = run.queue[Item].ut /\ b.lut = clock
<1> DEFINE l == NextId(local)
           q == run.queue[Item]
           c == [q EXCEPT !.ut = clock]
           b == [local |-> l, parent |-> run.memo, rut |-> q.ut, lut |-> clock]
<1>1. Item \in Ids /\ q \in Comment /\ Rest \in Maps(Comment)
  BY ItemListed DEF PullCreate, AtItem, TypeInv
<1>2. l \in Ids /\ local[l] = Fresh
  BY NextIdFresh DEF PullCreate
<1>3. ASSUME NEW x \in Comment
      PROVE  LET y == [x EXCEPT !.ut = clock]
             IN  y \in Comment /\ y.text = x.text /\ y.ut = clock /\ y.parent = x.parent /\ y.org = x.org
  BY DEF Comment, TypeInv
<1> HIDE DEF l
<1>4. /\ b \in CommentBinding /\ b.local = l /\ b.parent = run.memo
      /\ b.rut = q.ut /\ b.lut = clock
  BY <1>1, <1>2 DEF CommentBinding, Comment, TypeInv, Runs
<1>5. Put(run.bindings, Item, b) \in Maps(CommentBinding)
  BY <1>1, <1>4, MapPut DEF TypeInv, Runs
<1> HIDE DEF q, b
<1>6. /\ local' = [local EXCEPT ![l] = c] /\ AtItem("pullItem") /\ Item \notin DOMAIN run.bindings
      /\ UNCHANGED <<remote, clock, disk, faults>>
      /\ run' = [run EXCEPT !.queue = Rest, !.bindings = Put(run.bindings, Item, b)]
  BY DEF PullCreate, l, q, b
<1>7. c \in Comment /\ c.text = q.text /\ c.ut = clock /\ c.parent = q.parent /\ c.org = q.org
  BY <1>1, <1>3
<1> HIDE DEF c
<1>8. local' \in Table
  BY <1>6, <1>7 DEF TypeInv, Table
<1>9. /\ run' \in Runs /\ run'.queue = Rest /\ run'.bindings = Put(run.bindings, Item, b)
      /\ UNCHANGED <<run.pc, run.todo, run.memo, run.seen, run.sweep, run.target>>
  BY <1>1, <1>5, <1>6 DEF TypeInv, Runs
<1> QED
  BY <1>2, <1>4, <1>6, <1>7, <1>8, <1>9 DEF TypeInv, q

LEMMA PullUnbindEffect ==
  ASSUME TypeInv, PullUnbind
  PROVE  /\ TypeInv' /\ UNCHANGED <<local, remote, clock, disk, faults>> /\ AtItem("pullItem")
         /\ Item \in DOMAIN run.bindings /\ local[LocalName(Item)] = Gone
         /\ run'.queue = Rest /\ run'.bindings = Drop(run.bindings, Item)
         /\ UNCHANGED <<run.pc, run.todo, run.memo, run.seen, run.sweep, run.target>>
<1>1. Item \in Ids /\ Rest \in Maps(Comment)
  BY ItemListed DEF PullUnbind, AtItem, TypeInv
<1>2. Drop(run.bindings, Item) \in Maps(CommentBinding)
  BY RunFields, MapDrop DEF TypeInv
<1>3. run' = [run EXCEPT !.queue = Rest, !.bindings = Drop(run.bindings, Item)]
  BY DEF PullUnbind, TypeInv, Runs
<1> HIDE DEF Item, Rest
<1>4. /\ run' \in Runs /\ run'.queue = Rest /\ run'.bindings = Drop(run.bindings, Item)
      /\ UNCHANGED <<run.pc, run.todo, run.memo, run.seen, run.sweep, run.target>>
  BY <1>1, <1>2, <1>3 DEF TypeInv, Runs
<1> QED
  BY <1>4 DEF PullUnbind, TypeInv

LEMMA PullItemsDoneEffect ==
  ASSUME TypeInv, PullItemsDone
  PROVE  /\ TypeInv' /\ UNCHANGED <<local, remote, clock, disk, faults>> /\ run.pc = "pullItem"
         /\ run'.pc = "pullSweep" /\ run'.bindings = run.bindings
         /\ run'.sweep = Unseen("remote") /\ run'.sweep \subseteq DOMAIN run.bindings
<1>1. Unseen("remote") \subseteq DOMAIN run.bindings /\ DOMAIN run.bindings \subseteq Ids
  BY RunFields DEF Unseen, TypeInv
<1> QED
  BY <1>1 DEF PullItemsDone, TypeInv, Runs, RunStates

LEMMA PullDeleteEffect ==
  ASSUME TypeInv, SweepType, PullDelete
  PROVE  \E r \in run.sweep :
           /\ TypeInv' /\ UNCHANGED <<remote, clock, disk>> /\ run.pc = "pullSweep"
           /\ run'.pc = "pullSweep" /\ run'.sweep = run.sweep \ {r}
           /\ r \in DOMAIN run.bindings /\ LocalName(r) \in Ids
           /\ \/ /\ local' = [local EXCEPT ![LocalName(r)] = Gone]
                 /\ run'.bindings = Drop(run.bindings, r)
              \/ local' = local /\ run'.bindings = run.bindings
<1>1. PICK r \in run.sweep :
         \/ /\ local' = [local EXCEPT ![LocalName(r)] = Gone]
            /\ run' = [run EXCEPT !.sweep = @ \ {r}, !.bindings = Drop(@, r)]
         \/ local' = local /\ run' = [run EXCEPT !.sweep = @ \ {r}]
  BY DEF PullDelete
<1>2. r \in DOMAIN run.bindings /\ LocalName(r) \in Ids
  BY RunFields DEF SweepType, LocalName, TypeInv, CommentBinding
<1>3. Drop(run.bindings, r) \in Maps(CommentBinding)
  BY RunFields, MapDrop DEF TypeInv
<1>4. faults' \in FaultCount
  BY FaultType DEF PullDelete, TypeInv
<1>5. local' \in Table
  BY <1>1 DEF TypeInv, Table
<1>6. /\ run' \in Runs /\ run'.pc = run.pc /\ run'.sweep = run.sweep \ {r}
      /\ \/ /\ local' = [local EXCEPT ![LocalName(r)] = Gone]
            /\ run'.bindings = Drop(run.bindings, r)
         \/ local' = local /\ run'.bindings = run.bindings
  BY <1>1, <1>3 DEF TypeInv, Runs
<1> QED
  BY <1>2, <1>4, <1>5, <1>6 DEF PullDelete, TypeInv

LEMMA IdleEffect ==
  ASSUME TypeInv, Save \/ Die
  PROVE  /\ TypeInv' /\ UNCHANGED <<local, remote, clock>> /\ run.pc # "idle"
         /\ run'.pc = "idle" /\ run'.bindings = NoMap /\ run'.sweep = {}
         /\ \/ disk' = run.bindings /\ faults' = faults
            \/ disk' = disk /\ "die" \in faults'.kinds
<1>1. Idle \in Runs /\ Idle.pc = "idle" /\ Idle.bindings = NoMap /\ Idle.sweep = {}
  BY MapEmpty DEF Idle, Runs, RunStates
<1>2. CASE Save
  BY <1>1, <1>2 DEF Save, TypeInv, Runs
<1>3. CASE Die
  <2>1. faults' \in FaultCount /\ "die" \in faults'.kinds
    BY <1>3, FaultType DEF Die, TypeInv
  <2> QED
    BY <1>1, <1>3, <2>1 DEF Die, TypeInv
<1> QED
  BY <1>2, <1>3

--------------------------------------------------------------------------------
(***************************************************************************)
(* The inductive invariant.                                                *)
(***************************************************************************)
Injective(B) == \A r, s \in DOMAIN B : B[r].local = B[s].local => r = s
BoundOver(L, R, B) == Injective(B) /\ \A r \in DOMAIN B : Sound(L, R, B[r], r)
BindingsInv == BoundOver(local, remote, disk) /\ BoundOver(local, remote, run.bindings)

(* Nothing has been written in the future.                                 *)
Past(T, now) == \A i \in Live(T) : T[i].ut <= now /\ T[i].org <= now
ClockInv == Past(local, clock) /\ Past(remote, clock)

LEMMA BoundName ==
  ASSUME TypeInv, BindingsInv, NEW r \in DOMAIN run.bindings
  PROVE  /\ r \in Ids /\ LocalName(r) \in Ids /\ local[LocalName(r)] # Fresh /\ remote[r] # Fresh
         /\ run.bindings[r] \in CommentBinding /\ run.bindings[r].local = LocalName(r)
         /\ local[LocalName(r)] # Gone => LocalName(r) \in Live(local) /\ local[LocalName(r)] \in Comment
         /\ remote[r] # Gone => r \in Live(remote) /\ remote[r] \in Comment
<1>1. r \in Ids /\ run.bindings[r] \in CommentBinding
  BY RunFields DEF TypeInv
<1>2. Sound(local, remote, run.bindings[r], r)
  BY DEF BindingsInv, BoundOver
<1> QED
  BY <1>1, <1>2 DEF LocalName, Sound, CommentBinding, Live, Table, TypeInv

LEMMA PullUpdateEffect ==
  ASSUME TypeInv, BindingsInv, PullUpdate
  PROVE  /\ TypeInv' /\ UNCHANGED <<remote, clock, disk, faults>> /\ AtItem("pullItem")
         /\ Item \in DOMAIN run.bindings /\ LocalName(Item) \in Live(local)
         /\ run'.pc = "pullReread" /\ run'.queue = Rest /\ run'.target = Item
         /\ UNCHANGED <<run.todo, run.memo, run.seen, run.sweep>>
         /\ \E c \in Comment :
              /\ local' = [local EXCEPT ![LocalName(Item)] = c]
              /\ c.text = run.queue[Item].text /\ c.ut = clock
              /\ c.parent = local[LocalName(Item)].parent /\ c.org = local[LocalName(Item)].org
         /\ \E b \in CommentBinding :
              /\ run'.bindings = Put(run.bindings, Item, b)
              /\ b.local = LocalName(Item) /\ b.parent = run.bindings[Item].parent
              /\ b.rut = run.queue[Item].ut /\ b.lut = run.bindings[Item].lut
<1>1. /\ Item \in Ids /\ run.queue[Item] \in Comment /\ Rest \in Maps(Comment)
  BY ItemListed DEF PullUpdate, AtItem, TypeInv
<1> DEFINE l == LocalName(Item)
           c == [local[l] EXCEPT !.text = run.queue[Item].text, !.ut = clock]
           b == [run.bindings[Item] EXCEPT !.rut = run.queue[Item].ut]
<1>2. /\ local' = [local EXCEPT ![l].text = run.queue[Item].text, ![l].ut = clock]
      /\ run' = [run EXCEPT !.pc = "pullReread", !.queue = Rest, !.target = Item,
                            !.bindings[Item].rut = run.queue[Item].ut]
      /\ Item \in DOMAIN run.bindings /\ local[l] # Gone
      /\ AtItem("pullItem") /\ UNCHANGED <<remote, clock, disk, faults>>
  BY DEF PullUpdate
<1>3. /\ l \in Live(local) /\ l \in Ids /\ local[l] \in Comment
      /\ run.bindings[Item] \in CommentBinding /\ run.bindings[Item].local = l
  BY <1>2, BoundName
<1>4. ASSUME NEW q \in Comment, NEW d \in Comment
      PROVE  LET x == [d EXCEPT !.text = q.text, !.ut = clock]
             IN  x \in Comment /\ x.text = q.text /\ x.ut = clock /\ x.parent = d.parent /\ x.org = d.org
  BY DEF Comment, TypeInv
<1>a. c \in Comment /\ c.text = run.queue[Item].text /\ c.ut = clock /\ c.parent = local[l].parent
      /\ c.org = local[l].org
  BY <1>1, <1>3, <1>4
<1>6. /\ b \in CommentBinding /\ b.local = l /\ b.parent = run.bindings[Item].parent
      /\ b.rut = run.queue[Item].ut /\ b.lut = run.bindings[Item].lut
  BY <1>1, <1>3 DEF CommentBinding, Comment
<1>b. run.bindings \in Maps(CommentBinding)
  BY RunFields DEF TypeInv
<1>c. run' = [run EXCEPT !.pc = "pullReread", !.queue = Rest, !.target = Item,
                         !.bindings = [run.bindings EXCEPT ![Item] = b]]
  BY <1>2, <1>b, MapMember DEF TypeInv, Runs
<1>d. local' = [local EXCEPT ![l] = c]
  BY <1>2, <1>3 DEF TypeInv, Table
<1> HIDE DEF b, c, l
<1>e. [run.bindings EXCEPT ![Item] = b] = Put(run.bindings, Item, b)
  BY <1>2, <1>b, MapMember DEF Put
<1>f. Put(run.bindings, Item, b) \in Maps(CommentBinding)
  BY <1>1, <1>6, <1>b, MapPut
<1>7. local' \in Table
  BY <1>d, <1>a, <1>3 DEF TypeInv, Table
<1>8. run' \in Runs /\ run'.bindings = Put(run.bindings, Item, b)
      /\ run'.pc = "pullReread" /\ run'.queue = Rest /\ run'.target = Item
      /\ UNCHANGED <<run.todo, run.memo, run.seen, run.sweep>>
  BY <1>1, <1>c, <1>e, <1>f DEF TypeInv, Runs, RunStates
<1> QED
  BY <1>2, <1>3, <1>a, <1>6, <1>d, <1>7, <1>8 DEF TypeInv, l

LEMMA PullRereadEffect ==
  ASSUME TypeInv, SweepType, BindingsInv, PullReread
  PROVE  /\ TypeInv' /\ UNCHANGED <<local, remote, clock, disk>> /\ run.pc = "pullReread"
         /\ run.target \in DOMAIN run.bindings /\ run'.pc = "pullItem"
         /\ UNCHANGED <<run.todo, run.memo, run.queue, run.seen, run.sweep>>
         /\ \/ /\ LocalName(run.target) \in Live(local)
               /\ \E b \in CommentBinding :
                    /\ run'.bindings = Put(run.bindings, run.target, b)
                    /\ b.local = LocalName(run.target) /\ b.parent = run.bindings[run.target].parent
                    /\ b.rut = run.bindings[run.target].rut
                    /\ b.lut = local[LocalName(run.target)].ut
            \/ /\ local[LocalName(run.target)] = Gone
               /\ run'.bindings = Drop(run.bindings, run.target)
            \/ run'.bindings = run.bindings
<1> DEFINE r == run.target
           b == [run.bindings[r] EXCEPT !.lut = local[LocalName(r)].ut]
<1>1. r \in DOMAIN run.bindings /\ run.pc = "pullReread"
  BY DEF SweepType, PullReread
<1>2. faults' \in FaultCount
  BY FaultType DEF PullReread, TypeInv
<1>3. /\ r \in Ids /\ run.bindings[r] \in CommentBinding /\ run.bindings[r].local = LocalName(r)
      /\ local[LocalName(r)] # Gone => LocalName(r) \in Live(local) /\ local[LocalName(r)] \in Comment
  BY <1>1, BoundName
<1>b. run.bindings \in Maps(CommentBinding)
  BY RunFields DEF TypeInv
<1>4. CASE local[LocalName(r)] # Gone /\ run' = [run EXCEPT !.pc = "pullItem",
                                !.bindings[r].lut = local[LocalName(r)].ut]
  <2>1. /\ b \in CommentBinding /\ b.local = LocalName(r) /\ b.parent = run.bindings[r].parent
        /\ b.rut = run.bindings[r].rut /\ b.lut = local[LocalName(r)].ut
    BY <1>3, <1>4 DEF CommentBinding, Comment
  <2>2. run' = [run EXCEPT !.pc = "pullItem", !.bindings = [run.bindings EXCEPT ![r] = b]]
    BY <1>1, <1>4, <1>b, MapMember DEF TypeInv, Runs
  <2> HIDE DEF b
  <2>3. [run.bindings EXCEPT ![r] = b] = Put(run.bindings, r, b)
    BY <1>1, <1>b, MapMember DEF Put
  <2>4. Put(run.bindings, r, b) \in Maps(CommentBinding)
    BY <1>3, <2>1, <1>b, MapPut
  <2> HIDE DEF r
  <2>5. /\ run' \in Runs /\ run'.bindings = Put(run.bindings, r, b) /\ run'.pc = "pullItem"
        /\ UNCHANGED <<run.todo, run.memo, run.queue, run.seen, run.sweep>>
    BY <2>2, <2>3, <2>4 DEF TypeInv, Runs, RunStates
  <2> QED
    BY <1>1, <1>2, <1>3, <1>4, <2>1, <2>5 DEF PullReread, TypeInv, r
<1>5. CASE local[LocalName(r)] = Gone /\ run' = [run EXCEPT !.pc = "pullItem",
                                                 !.bindings = Drop(@, r)]
  <2>1. Drop(run.bindings, r) \in Maps(CommentBinding)
    BY <1>b, MapDrop
  <2> HIDE DEF r
  <2>2. /\ run' \in Runs /\ run'.bindings = Drop(run.bindings, r) /\ run'.pc = "pullItem"
        /\ UNCHANGED <<run.todo, run.memo, run.queue, run.seen, run.sweep>>
    BY <1>5, <2>1 DEF TypeInv, Runs, RunStates
  <2> QED
    BY <1>1, <1>2, <1>5, <2>2 DEF PullReread, TypeInv, r
<1>6. CASE run' = [run EXCEPT !.pc = "pullItem"]
  BY <1>1, <1>2, <1>6 DEF PullReread, TypeInv, Runs, RunStates
<1> QED
  BY <1>4, <1>5, <1>6 DEF PullReread

(* The bindings of a comment that is in the queue of a run are stale.      *)
StaleOf(L, R, B, l) == \A r \in DOMAIN B : B[r].local = l => Stale(L, R, B[r], r)
StaleAt(L, R, B, r) == r \in DOMAIN B => Stale(L, R, B[r], r)

LEMMA BoundKept ==
  ASSUME NEW L \in Table, NEW L2 \in Table, Grows(L, L2),
         NEW R \in Table, NEW R2 \in Table, Grows(R, R2),
         NEW B \in Maps(CommentBinding), BoundOver(L, R, B)
  PROVE  /\ BoundOver(L2, R2, B)
         /\ \A l : StaleOf(L, R, B, l) => StaleOf(L2, R2, B, l)
         /\ \A r : StaleAt(L, R, B, r) => StaleAt(L2, R2, B, r)
<1>1. B \in [DOMAIN B -> CommentBinding] /\ DOMAIN B \subseteq Ids
  BY MapMember
<1>2. ASSUME NEW r \in DOMAIN B
      PROVE  Sound(L2, R2, B[r], r) /\ (Stale(L, R, B[r], r) => Stale(L2, R2, B[r], r))
  <2>1. r \in Ids /\ B[r] \in CommentBinding /\ Sound(L, R, B[r], r)
    BY <1>1 DEF BoundOver
  <2>2. Sound(L2, R2, B[r], r)
    BY <2>1, SoundKept
  <2>3. Stale(L, R, B[r], r) => Stale(L2, R2, B[r], r)
    BY <2>1, StaleKept
  <2> QED
    BY <2>2, <2>3
<1> QED
  BY <1>2 DEF BoundOver, StaleOf, StaleAt

LEMMA BoundPut ==
  ASSUME NEW L, NEW R, NEW B \in Maps(CommentBinding), BoundOver(L, R, B),
         NEW r \in Ids, NEW b \in CommentBinding, Sound(L, R, b, r),
         \A s \in DOMAIN B \ {r} : B[s].local # b.local
  PROVE  BoundOver(L, R, Put(B, r, b))
<1>1. /\ DOMAIN Put(B, r, b) = DOMAIN B \cup {r}
      /\ Put(B, r, b)[r] = b /\ \A x \in DOMAIN B \ {r} : Put(B, r, b)[x] = B[x]
  BY MapPut
<1> QED
  BY <1>1 DEF BoundOver, Injective

LEMMA BoundDrop ==
  ASSUME NEW L, NEW R, NEW B \in Maps(CommentBinding), BoundOver(L, R, B), NEW r
  PROVE  BoundOver(L, R, Drop(B, r))
<1>1. DOMAIN Drop(B, r) = DOMAIN B \ {r} /\ \A x \in DOMAIN B \ {r} : Drop(B, r)[x] = B[x]
  BY MapDrop
<1> QED
  BY <1>1 DEF BoundOver, Injective

LEMMA BoundEmpty == ASSUME NEW L, NEW R PROVE BoundOver(L, R, NoMap)
BY MapEmpty DEF BoundOver, Injective

(* The steps that touch neither a table nor a binding. *)
Quiet ==
    \/ PushSkip \/ PullSkip \/ SkipMemo("pushList") \/ SkipMemo("pullList")
    \/ PushList \/ PushItemsDone \/ PushProbe \/ PushMemoDone \/ PushDone
    \/ PullList \/ PullItemsDone \/ PullMemoDone

LEMMA QuietEffect ==
  ASSUME TypeInv, Quiet
  PROVE  /\ TypeInv' /\ UNCHANGED <<local, remote, clock, disk, run.bindings>>
         /\ run.pc # "idle" /\ run'.pc # "idle"
<1>1. CASE PushSkip
  BY <1>1, SkipItemEffect DEF PushSkip
<1>2. CASE PullSkip
  BY <1>2, SkipItemEffect DEF PullSkip
<1>3. CASE SkipMemo("pushList")
  BY <1>3, SkipMemoEffect
<1>4. CASE SkipMemo("pullList")
  BY <1>4, SkipMemoEffect
<1>5. CASE PushList
  BY <1>5, PushListEffect
<1>6. CASE PushItemsDone
  BY <1>6, PushItemsDoneEffect
<1>7. CASE PushProbe
  BY <1>7, PushProbeEffect
<1>8. CASE PushMemoDone \/ PushDone \/ PullMemoDone
  BY <1>8, MemoDoneEffect
<1>9. CASE PullList
  BY <1>9, PullListEffect
<1>10. CASE PullItemsDone
  BY <1>10, PullItemsDoneEffect
<1> QED
  BY <1>1, <1>2, <1>3, <1>4, <1>5, <1>6, <1>7, <1>8, <1>9, <1>10 DEF Quiet

LEMMA NextCases ==
  ASSUME [Next]_vars
  PROVE  \/ UNCHANGED vars \/ LocalUser \/ RemoteUser \/ Start \/ Quiet
         \/ PushUpdate \/ PushCreate \/ PushDelete
         \/ PullUpdate \/ PullReread \/ PullUnbind \/ PullCreate \/ PullDelete \/ Save \/ Die
BY DEF Next, Push, Pull, Quiet

LEMMA StutterEffect ==
  ASSUME TypeInv, UNCHANGED vars
  PROVE  TypeInv' /\ UNCHANGED <<local, remote, clock, disk, run, faults>>
BY DEF vars, TypeInv

(* The tables grow, and the types hold. *)
LEMMA NextGrows ==
  ASSUME TypeInv, SweepType, BindingsInv, ClockInv, [Next]_vars
  PROVE  TypeInv' /\ Grows(local, local') /\ Grows(remote, remote') /\ clock <= clock'
<1>1. local \in Table /\ remote \in Table /\ clock \in 0..MaxTime
  BY DEF TypeInv
<1>2. Grows(local, local) /\ Grows(remote, remote) /\ clock <= clock
  BY <1>1, SameGrows
<1>3. CASE LocalUser \/ RemoteUser
  <2>1. TypeInv' /\ clock' \in {clock, Now}
    BY <1>3, UserEffects
  <2>2. Now \in Nat /\ clock <= Now /\ \A T \in {local, remote} : \A i \in Live(T) : T[i].ut <= Now
    <3>1. ASSUME NEW T \in {local, remote}, NEW i \in Live(T) PROVE T[i].ut <= Now
      BY <1>1, <3>1, LiveComment DEF ClockInv, Past, Now, Comment
    <3> QED
      BY <1>1, <3>1 DEF Now
  <2>3. CASE local' = local /\ UserStep(remote, remote', Now)
    <3>1. remote' \in Table
      BY <2>1 DEF TypeInv
    <3>2. Grows(remote, remote')
      BY <1>1, <2>2, <2>3, <3>1, UserStepGrows
    <3> QED
      BY <1>2, <2>1, <2>2, <2>3, <3>2
  <2>4. CASE remote' = remote /\ UserStep(local, local', Now)
    <3>1. local' \in Table
      BY <2>1 DEF TypeInv
    <3>2. Grows(local, local')
      BY <1>1, <2>2, <2>4, <3>1, UserStepGrows
    <3> QED
      BY <1>2, <2>1, <2>2, <2>4, <3>2
  <2> QED
    BY <1>3, <2>3, <2>4, UserEffects
<1>4. CASE Start
  BY <1>2, <1>4, StartEffect
<1>5. CASE Quiet
  BY <1>2, <1>5, QuietEffect
<1>6. CASE PushUpdate
  <2>1. PICK r \in RemoteOf(Item) \cap Live(remote), c \in Comment :
           /\ TypeInv' /\ UNCHANGED <<local, clock, disk>>
           /\ remote' = [remote EXCEPT ![r] = c] /\ c.ut = clock
           /\ c.parent = remote[r].parent /\ c.org = remote[r].org
    BY <1>6, PushUpdateEffect
  <2>2. Kept(remote[r], c)
    BY <2>1 DEF Kept, ClockInv, Past
  <2>3. Grows(remote, remote')
    BY <1>1, <2>1, <2>2, WriteGrows
  <2> QED
    BY <1>2, <2>1, <2>3
<1>7. CASE PushCreate
  <2>1. PICK r \in Ids, c \in Comment :
           /\ TypeInv' /\ UNCHANGED <<local, clock, disk>>
           /\ remote[r] = Fresh /\ remote' = [remote EXCEPT ![r] = c]
    BY <1>7, PushCreateEffect
  <2>2. Grows(remote, remote')
    BY <1>1, <2>1, CreateGrows
  <2> QED
    BY <1>2, <2>1, <2>2
<1>8. CASE PushDelete
  <2>1. /\ TypeInv' /\ UNCHANGED <<local, clock, disk>>
        /\ run.target \in DOMAIN run.bindings /\ run.target \in Ids
        /\ remote' \in {remote, [remote EXCEPT ![run.target] = Gone]}
    BY <1>8, PushDeleteEffect
  <2>2. remote[run.target] # Fresh
    BY <2>1, BoundName
  <2>3. Grows(remote, remote')
    BY <1>1, <1>2, <2>1, <2>2, DeleteGrows
  <2> QED
    BY <1>2, <2>1, <2>3
<1>9. CASE PullUpdate
  <2>1. PICK c \in Comment :
           /\ TypeInv' /\ UNCHANGED <<remote, clock, disk>> /\ LocalName(Item) \in Live(local)
           /\ local' = [local EXCEPT ![LocalName(Item)] = c] /\ c.ut = clock
           /\ c.parent = local[LocalName(Item)].parent /\ c.org = local[LocalName(Item)].org
    BY <1>9, PullUpdateEffect
  <2>2. Kept(local[LocalName(Item)], c)
    BY <2>1 DEF Kept, ClockInv, Past
  <2>3. Grows(local, local')
    BY <1>1, <2>1, <2>2, WriteGrows
  <2> QED
    BY <1>2, <2>1, <2>3
<1>10. CASE PullReread
  BY <1>2, <1>10, PullRereadEffect
<1>11. CASE PullUnbind
  BY <1>2, <1>11, PullUnbindEffect
<1>12. CASE PullCreate
  <2>1. PICK l \in Ids, c \in Comment :
           /\ TypeInv' /\ UNCHANGED <<remote, clock, disk>>
           /\ local[l] = Fresh /\ local' = [local EXCEPT ![l] = c]
    BY <1>12, PullCreateEffect
  <2>2. Grows(local, local')
    BY <1>1, <2>1, CreateGrows
  <2> QED
    BY <1>2, <2>1, <2>2
<1>13. CASE PullDelete
  <2>1. PICK r \in run.sweep :
           /\ TypeInv' /\ UNCHANGED <<remote, clock, disk>>
           /\ r \in DOMAIN run.bindings /\ LocalName(r) \in Ids
           /\ local' \in {local, [local EXCEPT ![LocalName(r)] = Gone]}
    BY <1>13, PullDeleteEffect
  <2>2. local[LocalName(r)] # Fresh
    BY <2>1, BoundName
  <2>3. Grows(local, local')
    BY <1>1, <1>2, <2>1, <2>2, DeleteGrows
  <2> QED
    BY <1>2, <2>1, <2>3
<1>14. CASE Save \/ Die
  BY <1>2, <1>14, IdleEffect
<1>15. CASE UNCHANGED vars
  BY <1>2, <1>15, StutterEffect
<1> QED
  BY <1>3, <1>4, <1>5, <1>6, <1>7, <1>8, <1>9, <1>10, <1>11, <1>12, <1>13, <1>14, <1>15, NextCases

(* What has become of a binding b of the remote comment r in the bindings B *)
(* of a run that has found it stored: it has been dropped only with the    *)
(* local comment gone, and changed only when it was stale.                 *)
Followed(L, R, B, r, b) ==
    \/ L[b.local] = Gone
    \/ r \in DOMAIN B /\ B[r].local = b.local /\ (B[r] = b \/ Stale(L, R, b, r))
DiskInv == run.pc # "idle" => \A r \in DOMAIN disk : Followed(local, remote, run.bindings, r, disk[r])

PushQueueInv ==
    run.pc = "pushItem" =>
      \A l \in DOMAIN run.queue :
        /\ WasListed(local, run.queue[l], l, run.memo, clock)
        /\ StaleOf(local, remote, disk, l) /\ StaleOf(local, remote, run.bindings, l)
PullQueueInv ==
    run.pc \in {"pullItem", "pullReread"} =>
      \A r \in DOMAIN run.queue :
        /\ r \in run.seen /\ WasListed(remote, run.queue[r], r, run.memo, clock)
        /\ StaleAt(local, remote, disk, r) /\ StaleAt(local, remote, run.bindings, r)

(* The comment of a follow-up request ...                                  *)
TargetInv ==
    /\ run.pc = "pushDelete" => local[LocalName(run.target)] = Gone
    /\ run.pc = "pullReread" => /\ run.target \notin DOMAIN run.queue
                                /\ StaleAt(local, remote, disk, run.target)

(* ... and those a sweep will look at.                                     *)
SweepInv ==
    /\ run.pc \in {"pullItem", "pullReread"} =>
         \A r \in DOMAIN run.bindings :
           run.bindings[r].parent = run.memo /\ r \notin run.seen => remote[r] = Gone
    /\ run.pc = "pullSweep" => \A r \in run.sweep : remote[r] = Gone

SafeInv ==
    /\ TypeInv /\ SweepType /\ BindingsInv /\ ClockInv /\ DiskInv
    /\ PushQueueInv /\ PullQueueInv /\ TargetInv /\ SweepInv

(* Those of a run after one has been put or dropped. *)
LEMMA RunPut ==
  ASSUME TypeInv, NEW k \in Ids, NEW b \in CommentBinding, run'.bindings = Put(run.bindings, k, b)
  PROVE  /\ DOMAIN run'.bindings = DOMAIN run.bindings \cup {k} /\ run'.bindings[k] = b
         /\ \A x \in DOMAIN run.bindings \ {k} : run'.bindings[x] = run.bindings[x]
<1>1. PICK f \in Maps(CommentBinding) : f = run.bindings
  BY DEF TypeInv, Runs
<1>2. /\ DOMAIN Put(f, k, b) = DOMAIN f \cup {k} /\ Put(f, k, b)[k] = b
      /\ \A x \in DOMAIN f \ {k} : Put(f, k, b)[x] = f[x]
  BY MapPut
<1> QED
  BY <1>1, <1>2

LEMMA RunDrop ==
  ASSUME TypeInv, NEW k, run'.bindings = Drop(run.bindings, k)
  PROVE  /\ DOMAIN run'.bindings = DOMAIN run.bindings \ {k}
         /\ \A x \in DOMAIN run.bindings \ {k} : run'.bindings[x] = run.bindings[x]
<1>1. PICK f \in Maps(CommentBinding) : f = run.bindings
  BY DEF TypeInv, Runs
<1>2. /\ DOMAIN Drop(f, k) = DOMAIN f \ {k}
      /\ \A x \in DOMAIN f \ {k} : Drop(f, k)[x] = f[x]
  BY MapDrop
<1> QED
  BY <1>1, <1>2

LEMMA RunMaps ==
  ASSUME TypeInv
  PROVE  /\ run.bindings \in Maps(CommentBinding) /\ disk \in Maps(CommentBinding)
         /\ \A r \in DOMAIN run.bindings : r \in Ids /\ run.bindings[r] \in CommentBinding
         /\ \A r \in DOMAIN disk : r \in Ids /\ disk[r] \in CommentBinding
<1>1. run.bindings \in Maps(CommentBinding) /\ disk \in Maps(CommentBinding)
  BY DEF TypeInv, Runs
<1> QED
  BY <1>1, MapMember

LEMMA SweepTypeNext ==
  ASSUME SafeInv, [Next]_vars
  PROVE  SweepType'
<1>0. TypeInv /\ SweepType /\ BindingsInv
  BY DEF SafeInv
<1>b. \A r \in DOMAIN run.bindings : r \in Ids /\ run.bindings[r] \in CommentBinding
  BY <1>0, RunMaps
<1>1. CASE LocalUser \/ RemoteUser
  BY <1>0, <1>1, UserEffects DEF SweepType
<1>2. CASE UNCHANGED vars
  BY <1>0, <1>2, StutterEffect DEF SweepType
<1>3. CASE Start
  BY <1>0, <1>3, StartEffect DEF SweepType
<1>4. CASE PushSkip \/ PullSkip
  <2>1. PICK pc, refused : SkipItem(pc, refused)
    BY <1>4 DEF PushSkip, PullSkip
  <2> QED
    BY <1>0, <2>1, SkipItemEffect DEF SweepType
<1>5. CASE SkipMemo("pushList") \/ SkipMemo("pullList")
  <2>1. PICK pc : SkipMemo(pc)
    BY <1>5
  <2> QED
    BY <1>0, <2>1, SkipMemoEffect DEF SweepType
<1>6. CASE PushList
  BY <1>0, <1>6, PushListEffect DEF SweepType
<1>7. CASE PushItemsDone
  BY <1>0, <1>7, PushItemsDoneEffect DEF SweepType
<1>8. CASE PushProbe
  BY <1>0, <1>8, PushProbeEffect DEF SweepType
<1>9. CASE PushMemoDone \/ PushDone \/ PullMemoDone
  <2>1. run.pc \in {"pushList", "pushSweep", "pullSweep"}
    BY <1>9 DEF PushMemoDone, PushDone, PullMemoDone
  <2>2. /\ run'.pc \in {"pushList", "pullList"} /\ run'.bindings = run.bindings
        /\ run'.sweep = run.sweep
        /\ run.pc \in {"pushSweep", "pullSweep"} => run.sweep = {}
    BY <1>0, <1>9, MemoDoneEffect
  <2> QED
    BY <1>0, <2>1, <2>2 DEF SweepType
<1>10. CASE PullList
  BY <1>0, <1>10, PullListEffect DEF SweepType
<1>11. CASE PullItemsDone
  BY <1>0, <1>11, PullItemsDoneEffect DEF SweepType
<1>12. CASE PushUpdate
  <2>1. PICK r \in RemoteOf(Item), b \in CommentBinding :
           /\ run.pc = "pushItem" /\ UNCHANGED <<run.pc, run.sweep, run.target>>
           /\ run'.bindings \in {run.bindings, Put(run.bindings, r, b)}
    <3>1. PICK r \in RemoteOf(Item) \cap Live(remote) :
            /\ run.pc = "pushItem" /\ UNCHANGED <<run.pc, run.sweep, run.target>>
            /\ \/ \E b \in CommentBinding : run'.bindings = Put(run.bindings, r, b)
               \/ run'.bindings = run.bindings
      BY <1>0, <1>12, PushUpdateEffect DEF AtItem
    <3>2. run.bindings[r] \in CommentBinding
      BY <1>b, <3>1 DEF RemoteOf
    <3> QED
      BY <3>1, <3>2
  <2>2. r \in DOMAIN run.bindings /\ r \in Ids
    BY <1>b, <2>1 DEF RemoteOf
  <2>3. DOMAIN run'.bindings = DOMAIN run.bindings
    BY <1>0, <2>1, <2>2, RunPut
  <2> QED
    BY <1>0, <2>1, <2>3 DEF SweepType
<1>13. CASE PushCreate
  BY <1>0, <1>13, PushCreateEffect DEF SweepType, AtItem
<1>14. CASE PushDelete
  <2>1. /\ run.target \in DOMAIN run.bindings /\ run'.pc = "pushSweep" /\ run'.sweep = run.sweep
        /\ run'.bindings \in {run.bindings, Drop(run.bindings, run.target)}
        /\ run.pc = "pushDelete"
    BY <1>0, <1>14, PushDeleteEffect
  <2>2. DOMAIN run'.bindings \in {DOMAIN run.bindings, DOMAIN run.bindings \ {run.target}}
    BY <1>0, <2>1, RunDrop
  <2> QED
    BY <1>0, <2>1, <2>2 DEF SweepType
<1>15. CASE PullUpdate
  <2>1. PICK b \in CommentBinding :
           /\ run.pc = "pullItem" /\ run'.pc = "pullReread" /\ run'.target = Item
           /\ run'.sweep = run.sweep /\ Item \in DOMAIN run.bindings
           /\ run'.bindings = Put(run.bindings, Item, b)
    BY <1>0, <1>15, PullUpdateEffect DEF AtItem
  <2>2. Item \in Ids
    BY <1>b, <2>1
  <2>3. DOMAIN run'.bindings = DOMAIN run.bindings
    BY <1>0, <2>1, <2>2, RunPut
  <2> QED
    BY <1>0, <2>1, <2>3 DEF SweepType
<1>16. CASE PullReread
  <2>1. run.pc = "pullReread" /\ run'.pc = "pullItem" /\ run'.sweep = run.sweep
    BY <1>0, <1>16, PullRereadEffect
  <2> QED
    BY <1>0, <2>1 DEF SweepType
<1>17. CASE PullUnbind
  <2>1. run.pc = "pullItem" /\ run'.pc = "pullItem" /\ run'.sweep = run.sweep
    BY <1>0, <1>17, PullUnbindEffect DEF AtItem
  <2> QED
    BY <1>0, <2>1 DEF SweepType
<1>18. CASE PullCreate
  <2>1. run.pc = "pullItem" /\ run'.pc = "pullItem" /\ run'.sweep = run.sweep
    BY <1>0, <1>18, PullCreateEffect DEF AtItem
  <2> QED
    BY <1>0, <2>1 DEF SweepType
<1>19. CASE PullDelete
  <2>1. PICK r \in run.sweep :
           /\ run'.pc = "pullSweep" /\ run'.sweep = run.sweep \ {r}
           /\ run'.bindings \in {run.bindings, Drop(run.bindings, r)}
    BY <1>0, <1>19, PullDeleteEffect
  <2>2. DOMAIN run'.bindings \in {DOMAIN run.bindings, DOMAIN run.bindings \ {r}}
    BY <1>0, <2>1, RunDrop
  <2> QED
    BY <1>0, <2>1, <2>2 DEF SweepType
<1>20. CASE Save \/ Die
  BY <1>0, <1>20, IdleEffect DEF SweepType
<1> QED
  BY <1>1, <1>2, <1>3, <1>4, <1>5, <1>6, <1>7, <1>8, <1>9, <1>10, <1>11, <1>12, <1>13, <1>14,
     <1>15, <1>16, <1>17, <1>18, <1>19, <1>20, NextCases DEF Quiet

LEMMA PastUser ==
  ASSUME NEW T \in Table, NEW U \in Table, NEW now \in Nat, UserStep(T, U, now + 1), Past(T, now)
  PROVE  Past(U, now + 1)
<1>1. ASSUME NEW i \in Live(U) PROVE U[i].ut <= now + 1 /\ U[i].org <= now + 1
  <2>1. i \in Ids /\ U[i] \in Comment
    BY <1>1, LiveComment
  <2>2. ASSUME i \in Live(T)
        PROVE  T[i].ut \in Nat /\ T[i].org \in Nat /\ T[i].ut <= now /\ T[i].org <= now
    BY <2>2, LiveComment DEF Past, Comment
  <2>3. U[i] = T[i] => i \in Live(T)
    BY <2>1, LiveComment
  <2> QED
    BY <2>1, <2>2, <2>3, FreshGoneAreNoComments DEF UserStep
<1> QED
  BY <1>1 DEF Past

LEMMA PastWrite ==
  ASSUME NEW T \in Table, NEW i \in Ids, NEW c, NEW now, Past(T, now),
         c # Gone /\ c # Fresh => c.ut <= now /\ c.org <= now
  PROVE  Past([T EXCEPT ![i] = c], now)
BY DEF Past, Live, Table

LEMMA PastLater ==
  ASSUME NEW T \in Table, NEW now \in Nat, NEW then \in Nat, now <= then, Past(T, now)
  PROVE  Past(T, then)
BY LiveComment DEF Past, Comment

LEMMA ClockNext ==
  ASSUME SafeInv, [Next]_vars
  PROVE  ClockInv'
<1>0. /\ TypeInv /\ SweepType /\ BindingsInv /\ ClockInv /\ PushQueueInv /\ PullQueueInv
      /\ local \in Table /\ remote \in Table /\ clock \in Nat
      /\ Past(local, clock) /\ Past(remote, clock) /\ clock <= clock
  BY DEF SafeInv, TypeInv, ClockInv
<1>1. ASSUME AtItem("pushItem") \/ AtItem("pullItem") PROVE run.queue[Item].org <= clock
  BY <1>0, <1>1, ItemListed DEF PushQueueInv, PullQueueInv, WasListed, AtItem, TypeInv
<1>2. CASE LocalUser \/ RemoteUser
  <2>1. TypeInv' /\ clock' \in {clock, Now} /\ Now = clock + 1
    BY <1>0, <1>2, UserEffects DEF Now
  <2>2. local' \in Table /\ remote' \in Table /\ clock' \in Nat
    BY <2>1 DEF TypeInv
  <2>3. ASSUME clock' = clock PROVE Past(local', clock) /\ Past(remote', clock)
    <3>1. \A i \in Ids : /\ local'[i] # local[i] => local'[i] = Gone
                         /\ remote'[i] # remote[i] => remote'[i] = Gone
      BY <1>0, <1>2, <2>3, UserEffects
    <3> QED
      BY <1>0, <3>1 DEF Past, Live
  <2>4. ASSUME clock' = Now PROVE Past(local', Now) /\ Past(remote', Now)
    <3>1. CASE local' = local /\ UserStep(remote, remote', Now)
      BY <1>0, <2>1, <2>2, <3>1, PastUser, PastLater
    <3>2. CASE remote' = remote /\ UserStep(local, local', Now)
      BY <1>0, <2>1, <2>2, <3>2, PastUser, PastLater
    <3> QED
      BY <1>0, <1>2, <3>1, <3>2, UserEffects
  <2> QED
    BY <2>1, <2>3, <2>4 DEF ClockInv
<1>3. CASE UNCHANGED <<local, remote, clock>>
  BY <1>0, <1>3 DEF ClockInv
<1>4. CASE PushUpdate
  <2>1. PICK r \in RemoteOf(Item) \cap Live(remote), c \in Comment :
           /\ UNCHANGED <<local, clock>>
           /\ remote' = [remote EXCEPT ![r] = c] /\ c.ut = clock /\ c.org = remote[r].org
    BY <1>0, <1>4, PushUpdateEffect
  <2>2. r \in Ids /\ c.org <= clock
    BY <1>0, <2>1 DEF Past, Live
  <2> QED
    BY <1>0, <2>1, <2>2, PastWrite DEF ClockInv
<1>5. CASE PushCreate
  <2>1. PICK r \in Ids, c \in Comment :
           /\ UNCHANGED <<local, clock>> /\ AtItem("pushItem")
           /\ remote' = [remote EXCEPT ![r] = c] /\ c.ut = clock /\ c.org = run.queue[Item].org
    BY <1>0, <1>5, PushCreateEffect
  <2> QED
    BY <1>0, <1>1, <2>1, PastWrite DEF ClockInv
<1>6. CASE PushDelete
  <2>1. /\ UNCHANGED <<local, clock>> /\ run.target \in Ids
        /\ remote' \in {remote, [remote EXCEPT ![run.target] = Gone]}
    BY <1>0, <1>6, PushDeleteEffect
  <2> QED
    BY <1>0, <2>1, PastWrite DEF ClockInv
<1>7. CASE PullUpdate
  <2>1. PICK c \in Comment :
           /\ UNCHANGED <<remote, clock>> /\ LocalName(Item) \in Live(local)
           /\ local' = [local EXCEPT ![LocalName(Item)] = c] /\ c.ut = clock
           /\ c.org = local[LocalName(Item)].org
    BY <1>0, <1>7, PullUpdateEffect
  <2>2. LocalName(Item) \in Ids /\ c.org <= clock
    BY <1>0, <2>1 DEF Past, Live
  <2> QED
    BY <1>0, <2>1, <2>2, PastWrite DEF ClockInv
<1>8. CASE PullCreate
  <2>1. PICK l \in Ids, c \in Comment :
           /\ UNCHANGED <<remote, clock>> /\ AtItem("pullItem")
           /\ local' = [local EXCEPT ![l] = c] /\ c.ut = clock /\ c.org = run.queue[Item].org
    BY <1>0, <1>8, PullCreateEffect
  <2> QED
    BY <1>0, <1>1, <2>1, PastWrite DEF ClockInv
<1>9. CASE PullDelete
  <2>1. PICK r \in run.sweep :
           /\ UNCHANGED <<remote, clock>> /\ LocalName(r) \in Ids
           /\ local' \in {local, [local EXCEPT ![LocalName(r)] = Gone]}
    BY <1>0, <1>9, PullDeleteEffect
  <2> QED
    BY <1>0, <2>1, PastWrite DEF ClockInv
<1>10. CASE Start \/ Quiet \/ PullReread \/ PullUnbind \/ Save \/ Die \/ UNCHANGED vars
  <2>1. UNCHANGED <<local, remote, clock>>
    BY <1>0, <1>10, StartEffect, QuietEffect, PullRereadEffect, PullUnbindEffect, IdleEffect, StutterEffect
  <2> QED
    BY <1>3, <2>1
<1> QED
  BY <1>2, <1>4, <1>5, <1>6, <1>7, <1>8, <1>9, <1>10, NextCases

(* A comment in the queue, as it is needed when it has its turn.           *)
LEMMA ItemWas ==
  ASSUME SafeInv, AtItem("pushItem") \/ AtItem("pullItem")
  PROVE  /\ Item \in Ids /\ Item \in DOMAIN run.queue /\ run.queue[Item] \in Comment
         /\ AtItem("pushItem") => /\ WasListed(local, run.queue[Item], Item, run.memo, clock)
                                  /\ StaleOf(local, remote, disk, Item)
                                  /\ StaleOf(local, remote, run.bindings, Item)
         /\ AtItem("pullItem") => /\ WasListed(remote, run.queue[Item], Item, run.memo, clock)
                                  /\ StaleAt(local, remote, disk, Item)
                                  /\ StaleAt(local, remote, run.bindings, Item)
                                  /\ Item \in run.seen
BY ItemListed DEF SafeInv, TypeInv, AtItem, PushQueueInv, PullQueueInv

LEMMA BindingsNext ==
  ASSUME SafeInv, [Next]_vars
  PROVE  BindingsInv'
<1>0. /\ TypeInv /\ SweepType /\ BindingsInv /\ ClockInv
      /\ local \in Table /\ remote \in Table /\ clock \in Nat
      /\ disk \in Maps(CommentBinding) /\ run.bindings \in Maps(CommentBinding)
  BY DEF SafeInv, TypeInv, Runs
<1>1. TypeInv' /\ Grows(local, local') /\ Grows(remote, remote') /\ local' \in Table /\ remote' \in Table
  BY <1>0, NextGrows DEF TypeInv
<1>2. BoundOver(local', remote', disk)
  BY <1>0, <1>1, BoundKept DEF BindingsInv
<1>3. BoundOver(local', remote', run.bindings)
  BY <1>0, <1>1, BoundKept DEF BindingsInv
<1>4. ASSUME disk' = disk,
             NEW r \in Ids, NEW b \in CommentBinding, run'.bindings = Put(run.bindings, r, b),
             Sound(local', remote', b, r), \A s \in DOMAIN run.bindings \ {r} : run.bindings[s].local # b.local
      PROVE  BindingsInv'
  <2>1. BoundOver(local', remote', Put(run.bindings, r, b))
    BY <1>0, <1>3, <1>4, BoundPut
  <2> QED
    BY <1>2, <1>4, <2>1 DEF BindingsInv
<1>5. ASSUME disk' = disk, NEW r, run'.bindings \in {run.bindings, Drop(run.bindings, r)}
      PROVE  BindingsInv'
  <2>1. BoundOver(local', remote', Drop(run.bindings, r))
    BY <1>0, <1>3, BoundDrop
  <2> QED
    BY <1>2, <1>3, <1>5, <2>1 DEF BindingsInv
<1>6. \A r \in DOMAIN run.bindings :
         r \in Ids /\ run.bindings[r] \in CommentBinding /\ Sound(local, remote, run.bindings[r], r)
         /\ Sound(local', remote', run.bindings[r], r)
  BY <1>0, <1>3, RunMaps DEF BindingsInv, BoundOver
<1>7. \A r, s \in DOMAIN run.bindings : run.bindings[r].local = run.bindings[s].local => r = s
  BY <1>0 DEF BindingsInv, BoundOver, Injective
<1>8. CASE LocalUser \/ RemoteUser
  BY <1>0, <1>2, <1>3, <1>8, UserEffects DEF BindingsInv
<1>9. CASE UNCHANGED vars
  BY <1>0, <1>2, <1>3, <1>9, StutterEffect DEF BindingsInv
<1>10. CASE Start
  BY <1>0, <1>2, <1>10, StartEffect DEF BindingsInv
<1>11. CASE Quiet
  BY <1>0, <1>2, <1>3, <1>11, QuietEffect DEF BindingsInv
<1>12. CASE PushUpdate
  <2>1. PICK r \in RemoteOf(Item) \cap Live(remote) :
           /\ UNCHANGED <<local, clock, disk>> /\ AtItem("pushItem")
           /\ \E c \in Comment : /\ remote' = [remote EXCEPT ![r] = c] /\ c.ut = clock
                                 /\ c.parent = remote[r].parent
           /\ \/ \E b \in CommentBinding :
                   /\ run'.bindings = Put(run.bindings, r, b)
                   /\ b.local = Item /\ b.parent = run.bindings[r].parent
                   /\ b.rut = clock /\ b.lut = run.queue[Item].ut
              \/ run'.bindings = run.bindings
    BY <1>0, <1>12, PushUpdateEffect
  <2>2. r \in DOMAIN run.bindings /\ run.bindings[r].local = Item /\ r \in Ids /\ r \in Live(remote)
    BY <2>1, <1>6 DEF RemoteOf
  <2>3. ASSUME NEW b \in CommentBinding, run'.bindings = Put(run.bindings, r, b),
               b.local = Item /\ b.parent = run.bindings[r].parent,
               b.rut = clock /\ b.lut = run.queue[Item].ut
        PROVE  BindingsInv'
    <3>1. remote'[r] # Fresh /\ remote'[r].ut = clock /\ remote'[r].parent = remote[r].parent
      BY <1>0, <2>1, <2>2 DEF Table
    <3>2. local[Item] # Fresh /\ (Item \in Live(local) => run.queue[Item].ut <= local[Item].ut)
      BY <2>1, ItemWas DEF WasListed
    <3>3. /\ Item \in Live(local) => local[Item].parent = b.parent
          /\ remote[r].parent = b.parent
      BY <1>6, <2>2, <2>3 DEF Sound
    <3>4. Sound(local', remote', b, r)
      BY <1>0, <2>1, <2>3, <3>1, <3>2, <3>3 DEF Sound
    <3> QED
      BY <1>4, <1>7, <2>1, <2>2, <2>3, <3>4
  <2> QED
    BY <1>2, <1>3, <2>1, <2>3 DEF BindingsInv
<1>13. CASE PushCreate
  <2>1. PICK r \in Ids :
           /\ UNCHANGED <<local, clock, disk>> /\ AtItem("pushItem")
           /\ remote[r] = Fresh /\ RemoteOf(Item) = {}
           /\ \E c \in Comment : /\ remote' = [remote EXCEPT ![r] = c] /\ c.ut = clock
                                 /\ c.parent = run.queue[Item].parent
           /\ \/ \E b \in CommentBinding :
                   /\ run'.bindings = Put(run.bindings, r, b)
                   /\ b.local = Item /\ b.parent = run.memo
                   /\ b.rut = clock /\ b.lut = run.queue[Item].ut
              \/ run'.bindings = run.bindings
    BY <1>0, <1>13, PushCreateEffect
  <2>2. ASSUME NEW b \in CommentBinding, run'.bindings = Put(run.bindings, r, b),
               b.local = Item /\ b.parent = run.memo,
               b.rut = clock /\ b.lut = run.queue[Item].ut
        PROVE  BindingsInv'
    <3>1. remote'[r] # Fresh /\ remote'[r].ut = clock /\ remote'[r].parent = run.queue[Item].parent
      BY <1>0, <2>1, FreshGoneAreNoComments DEF Table
    <3>2. /\ local[Item] # Fresh /\ run.queue[Item].parent = run.memo
          /\ Item \in Live(local) => /\ run.queue[Item].ut <= local[Item].ut
                                     /\ run.queue[Item].parent = local[Item].parent
      BY <2>1, ItemWas DEF WasListed
    <3>3. Sound(local', remote', b, r)
      BY <1>0, <2>1, <2>2, <3>1, <3>2 DEF Sound
    <3>4. \A s \in DOMAIN run.bindings : run.bindings[s].local # Item
      BY <2>1 DEF RemoteOf
    <3> QED
      BY <1>4, <2>1, <2>2, <3>3, <3>4
  <2> QED
    BY <1>2, <1>3, <2>1, <2>2 DEF BindingsInv
<1>14. CASE PushDelete
  BY <1>0, <1>5, <1>14, PushDeleteEffect
<1>15. CASE PullUpdate
  <2>1. PICK b \in CommentBinding :
           /\ disk' = disk /\ remote' = remote /\ AtItem("pullItem") /\ Item \in DOMAIN run.bindings
           /\ run'.bindings = Put(run.bindings, Item, b)
           /\ b.local = LocalName(Item) /\ b.parent = run.bindings[Item].parent
           /\ b.rut = run.queue[Item].ut /\ b.lut = run.bindings[Item].lut
    BY <1>0, <1>15, PullUpdateEffect
  <2>2. remote[Item] # Fresh /\ (Item \in Live(remote) => run.queue[Item].ut <= remote[Item].ut)
    BY <2>1, ItemWas DEF WasListed
  <2>3. Item \in Ids /\ Sound(local', remote', run.bindings[Item], Item)
    BY <1>6, <2>1
  <2>4. Sound(local', remote', b, Item)
    BY <2>1, <2>2, <2>3 DEF Sound, LocalName
  <2> QED
    BY <1>4, <1>7, <2>1, <2>3, <2>4 DEF LocalName
<1>16. CASE PullReread
  <2>1. /\ UNCHANGED <<local, remote, disk>> /\ run.target \in DOMAIN run.bindings
        /\ \/ /\ LocalName(run.target) \in Live(local)
              /\ \E b \in CommentBinding :
                   /\ run'.bindings = Put(run.bindings, run.target, b)
                   /\ b.local = LocalName(run.target) /\ b.parent = run.bindings[run.target].parent
                   /\ b.rut = run.bindings[run.target].rut
                   /\ b.lut = local[LocalName(run.target)].ut
           \/ run'.bindings \in {run.bindings, Drop(run.bindings, run.target)}
    BY <1>0, <1>16, PullRereadEffect
  <2>2. ASSUME NEW b \in CommentBinding, run'.bindings = Put(run.bindings, run.target, b),
               b.local = LocalName(run.target) /\ b.parent = run.bindings[run.target].parent,
               b.rut = run.bindings[run.target].rut, b.lut = local[LocalName(run.target)].ut
        PROVE  BindingsInv'
    <3>1. run.target \in Ids /\ Sound(local', remote', run.bindings[run.target], run.target)
      BY <1>6, <2>1
    <3>2. b.lut <= local[b.local].ut
      BY <2>2 DEF CommentBinding
    <3>3. Sound(local', remote', b, run.target)
      BY <2>1, <2>2, <3>1, <3>2 DEF Sound, LocalName
    <3>4. \A s \in DOMAIN run.bindings \ {run.target} : run.bindings[s].local # b.local
      BY <1>7, <2>1, <2>2 DEF LocalName
    <3> QED
      BY <1>4, <2>1, <2>2, <3>1, <3>3, <3>4
  <2> QED
    BY <1>5, <2>1, <2>2
<1>17. CASE PullUnbind
  BY <1>0, <1>5, <1>17, PullUnbindEffect
<1>18. CASE PullCreate
  <2>1. PICK l \in Ids :
           /\ UNCHANGED <<remote, clock, disk>> /\ AtItem("pullItem") /\ local[l] = Fresh
           /\ \E c \in Comment : /\ local' = [local EXCEPT ![l] = c] /\ c.ut = clock
                                 /\ c.parent = run.queue[Item].parent
           /\ \E b \in CommentBinding :
                /\ run'.bindings = Put(run.bindings, Item, b)
                /\ b.local = l /\ b.parent = run.memo
                /\ b.rut = run.queue[Item].ut /\ b.lut = clock
    BY <1>0, <1>18, PullCreateEffect
  <2>2. PICK b \in CommentBinding :
           /\ run'.bindings = Put(run.bindings, Item, b)
           /\ b.local = l /\ b.parent = run.memo
           /\ b.rut = run.queue[Item].ut /\ b.lut = clock
    BY <2>1
  <2>3. local'[l] # Fresh /\ local'[l].ut = clock /\ local'[l].parent = run.queue[Item].parent
    BY <1>0, <2>1, FreshGoneAreNoComments DEF Table
  <2>4. /\ Item \in Ids /\ remote[Item] # Fresh /\ run.queue[Item].parent = run.memo
        /\ Item \in Live(remote) => /\ run.queue[Item].ut <= remote[Item].ut
                                    /\ run.queue[Item].parent = remote[Item].parent
    BY <2>1, ItemWas DEF WasListed
  <2>5. Sound(local', remote', b, Item)
    BY <1>0, <2>1, <2>2, <2>3, <2>4 DEF Sound
  <2>6. \A s \in DOMAIN run.bindings : run.bindings[s].local # l
    BY <1>6, <2>1 DEF Sound
  <2> QED
    BY <1>4, <2>1, <2>2, <2>4, <2>5, <2>6
<1>19. CASE PullDelete
  BY <1>0, <1>5, <1>19, PullDeleteEffect
<1>20. CASE Save \/ Die
  BY <1>0, <1>2, <1>3, <1>20, IdleEffect, BoundEmpty DEF BindingsInv
<1> QED
  BY <1>8, <1>9, <1>10, <1>11, <1>12, <1>13, <1>14, <1>15, <1>16, <1>17, <1>18, <1>19, <1>20, NextCases

LEMMA DiskNext ==
  ASSUME SafeInv, [Next]_vars
  PROVE  DiskInv'
<1>0. /\ TypeInv /\ SweepType /\ BindingsInv /\ ClockInv /\ DiskInv /\ TargetInv
      /\ local \in Table /\ remote \in Table /\ local' \in Table /\ remote' \in Table
      /\ Grows(local, local') /\ Grows(remote, remote')
  BY NextGrows DEF SafeInv, TypeInv
<1>1. ASSUME NEW r \in DOMAIN disk
      PROVE  /\ r \in Ids /\ disk[r] \in CommentBinding /\ disk[r].local \in Ids
             /\ local[disk[r].local] # Fresh /\ remote[r] # Fresh
             /\ local[disk[r].local] = Gone => local'[disk[r].local] = Gone
             /\ Stale(local, remote, disk[r], r) => Stale(local', remote', disk[r], r)
  <2>1. r \in Ids /\ disk[r] \in CommentBinding /\ Sound(local, remote, disk[r], r)
    BY <1>0, RunMaps DEF BindingsInv, BoundOver
  <2>2. disk[r].local \in Ids
    BY <2>1 DEF CommentBinding
  <2> QED
    BY <1>0, <2>1, <2>2, StaleKept DEF Sound, Grows
<1>2. ASSUME disk' = disk, run.pc # "idle", run'.bindings = run.bindings
      PROVE  DiskInv'
  BY <1>0, <1>1, <1>2 DEF DiskInv, Followed
<1>3. ASSUME disk' = disk, run.pc # "idle",
             NEW k \in Ids, NEW b \in CommentBinding, run'.bindings = Put(run.bindings, k, b),
             k \in DOMAIN disk =>
               \/ local[disk[k].local] = Gone
               \/ b.local = disk[k].local /\ Stale(local, remote, disk[k], k)
      PROVE  DiskInv'
  <2>1. /\ DOMAIN run'.bindings = DOMAIN run.bindings \cup {k} /\ run'.bindings[k] = b
        /\ \A x \in DOMAIN run.bindings \ {k} : run'.bindings[x] = run.bindings[x]
    BY <1>0, <1>3, RunPut
  <2> QED
    BY <1>0, <1>1, <1>3, <2>1 DEF DiskInv, Followed
<1>4. ASSUME disk' = disk, run.pc # "idle", NEW k \in DOMAIN run.bindings,
             run'.bindings = Drop(run.bindings, k), local'[run.bindings[k].local] = Gone
      PROVE  DiskInv'
  <2>1. /\ DOMAIN run'.bindings = DOMAIN run.bindings \ {k}
        /\ \A x \in DOMAIN run.bindings \ {k} : run'.bindings[x] = run.bindings[x]
    BY <1>0, <1>4, RunDrop
  <2> QED
    BY <1>0, <1>1, <1>4, <2>1 DEF DiskInv, Followed
<1>5. ASSUME NEW r \in DOMAIN run.bindings
      PROVE  r \in Ids /\ LocalName(r) \in Ids /\ run.bindings[r].local = LocalName(r)
             /\ (local[LocalName(r)] = Gone => local'[LocalName(r)] = Gone)
  <2>1. r \in Ids /\ LocalName(r) \in Ids /\ run.bindings[r].local = LocalName(r)
    BY <1>0, BoundName
  <2> QED
    BY <1>0, <2>1 DEF Grows
<1>8. CASE (LocalUser \/ RemoteUser) \/ UNCHANGED vars
  <2>1. UNCHANGED <<disk, run>>
    BY <1>0, <1>8, UserEffects, StutterEffect
  <2>2. CASE run.pc = "idle"
    BY <2>1, <2>2 DEF DiskInv
  <2> QED
    BY <1>2, <2>1, <2>2
<1>10. CASE Start
  BY <1>0, <1>10, StartEffect DEF DiskInv, Followed
<1>11. CASE Quiet
  BY <1>0, <1>2, <1>11, QuietEffect
<1>12. CASE PushUpdate
  <2>1. PICK r \in RemoteOf(Item) \cap Live(remote) :
           /\ disk' = disk /\ AtItem("pushItem")
           /\ \/ \E b \in CommentBinding : run'.bindings = Put(run.bindings, r, b) /\ b.local = Item
              \/ run'.bindings = run.bindings
    BY <1>0, <1>12, PushUpdateEffect
  <2>2. r \in DOMAIN run.bindings /\ run.bindings[r].local = Item /\ r \in Ids /\ run.pc # "idle"
    BY <2>1, <1>5 DEF RemoteOf, AtItem
  <2>3. StaleOf(local, remote, disk, Item)
    BY <2>1, ItemWas
  <2>4. r \in DOMAIN disk =>
          \/ local[disk[r].local] = Gone
          \/ Item = disk[r].local /\ Stale(local, remote, disk[r], r)
    BY <1>0, <2>2, <2>3 DEF DiskInv, Followed, StaleOf
  <2> QED
    BY <1>2, <1>3, <2>1, <2>2, <2>4
<1>13. CASE PushCreate
  <2>1. PICK r \in Ids :
           /\ disk' = disk /\ AtItem("pushItem") /\ remote[r] = Fresh
           /\ \/ \E b \in CommentBinding : run'.bindings = Put(run.bindings, r, b)
              \/ run'.bindings = run.bindings
    BY <1>0, <1>13, PushCreateEffect
  <2>2. r \notin DOMAIN disk /\ run.pc # "idle"
    BY <1>1, <2>1 DEF AtItem
  <2> QED
    BY <1>2, <1>3, <2>1, <2>2
<1>14. CASE PushDelete
  <2>1. /\ disk' = disk /\ run.target \in DOMAIN run.bindings /\ run.pc = "pushDelete"
        /\ run'.bindings \in {run.bindings, Drop(run.bindings, run.target)}
    BY <1>0, <1>14, PushDeleteEffect
  <2>2. local'[run.bindings[run.target].local] = Gone
    BY <1>0, <1>5, <2>1 DEF TargetInv
  <2> QED
    BY <1>2, <1>4, <2>1, <2>2
<1>15. CASE PullUpdate
  <2>1. PICK b \in CommentBinding :
           /\ disk' = disk /\ AtItem("pullItem") /\ Item \in DOMAIN run.bindings
           /\ run'.bindings = Put(run.bindings, Item, b) /\ b.local = LocalName(Item)
    BY <1>0, <1>15, PullUpdateEffect
  <2>2. Item \in Ids /\ LocalName(Item) = run.bindings[Item].local /\ run.pc # "idle"
    BY <1>5, <2>1 DEF AtItem
  <2>3. StaleAt(local, remote, disk, Item)
    BY <2>1, ItemWas
  <2>4. Item \in DOMAIN disk =>
          \/ local[disk[Item].local] = Gone
          \/ b.local = disk[Item].local /\ Stale(local, remote, disk[Item], Item)
    BY <1>0, <2>1, <2>2, <2>3 DEF DiskInv, Followed, StaleAt
  <2> QED
    BY <1>3, <2>1, <2>2, <2>4
<1>16. CASE PullReread
  <2>1. /\ disk' = disk /\ run.pc = "pullReread" /\ run.target \in DOMAIN run.bindings
        /\ \/ \E b \in CommentBinding :
                run'.bindings = Put(run.bindings, run.target, b) /\ b.local = LocalName(run.target)
           \/ local[LocalName(run.target)] = Gone /\ run'.bindings = Drop(run.bindings, run.target)
           \/ run'.bindings = run.bindings
    BY <1>0, <1>16, PullRereadEffect
  <2>2. StaleAt(local, remote, disk, run.target)
    BY <1>0, <2>1 DEF TargetInv
  <2>3. run.target \in Ids /\ LocalName(run.target) = run.bindings[run.target].local
    BY <1>5, <2>1
  <2>4. run.target \in DOMAIN disk =>
          \/ local[disk[run.target].local] = Gone
          \/ LocalName(run.target) = disk[run.target].local /\ Stale(local, remote, disk[run.target], run.target)
    BY <1>0, <2>1, <2>2, <2>3 DEF DiskInv, Followed, StaleAt
  <2>5. CASE local[LocalName(run.target)] = Gone /\ run'.bindings = Drop(run.bindings, run.target)
    BY <1>4, <1>5, <2>1, <2>5
  <2>6. ASSUME NEW b \in CommentBinding, run'.bindings = Put(run.bindings, run.target, b),
               b.local = LocalName(run.target)
        PROVE  DiskInv'
    BY <1>3, <2>1, <2>3, <2>4, <2>6
  <2> QED
    BY <1>2, <2>1, <2>5, <2>6
<1>17. CASE PullUnbind
  <2>1. /\ disk' = disk /\ AtItem("pullItem") /\ Item \in DOMAIN run.bindings
        /\ local[LocalName(Item)] = Gone /\ run'.bindings = Drop(run.bindings, Item)
    BY <1>0, <1>17, PullUnbindEffect
  <2> QED
    BY <1>4, <1>5, <2>1 DEF AtItem
<1>18. CASE PullCreate
  <2>1. PICK b \in CommentBinding :
           /\ disk' = disk /\ AtItem("pullItem") /\ Item \notin DOMAIN run.bindings
           /\ run'.bindings = Put(run.bindings, Item, b)
    BY <1>0, <1>18, PullCreateEffect
  <2>2. Item \in Ids /\ run.pc # "idle"
    BY <2>1, ItemWas DEF AtItem
  <2>3. Item \in DOMAIN disk => local[disk[Item].local] = Gone
    BY <1>0, <2>1, <2>2 DEF DiskInv, Followed
  <2> QED
    BY <1>3, <2>1, <2>2, <2>3
<1>19. CASE PullDelete
  <2>1. PICK r \in run.sweep :
           /\ disk' = disk /\ run.pc = "pullSweep" /\ r \in DOMAIN run.bindings
           /\ \/ /\ local' = [local EXCEPT ![LocalName(r)] = Gone]
                 /\ run'.bindings = Drop(run.bindings, r)
              \/ run'.bindings = run.bindings
    BY <1>0, <1>19, PullDeleteEffect
  <2>2. CASE local' = [local EXCEPT ![LocalName(r)] = Gone] /\ run'.bindings = Drop(run.bindings, r)
    <3>1. local'[run.bindings[r].local] = Gone
      BY <1>0, <1>5, <2>1, <2>2 DEF Table
    <3> QED
      BY <1>4, <2>1, <2>2, <3>1
  <2> QED
    BY <1>2, <2>1, <2>2
<1>20. CASE Save \/ Die
  BY <1>0, <1>20, IdleEffect DEF DiskInv
<1> QED
  BY <1>8, <1>10, <1>11, <1>12, <1>13, <1>14, <1>15, <1>16, <1>17, <1>18, <1>19, <1>20, NextCases

LEMMA WasListedKept ==
  ASSUME NEW T \in Table, NEW U \in Table, NEW now \in Nat, NEW then \in Nat, now <= then,
         U = T \/ UserStep(T, U, now + 1),
         NEW i \in Ids, NEW q \in Comment, NEW p, WasListed(T, q, i, p, now)
  PROVE  WasListed(U, q, i, p, then)
<1>1. q.ut \in Nat /\ q.org \in Nat /\ q.ut <= now /\ q.org <= now /\ q.parent = p /\ T[i] # Fresh
  BY DEF Comment, WasListed
<1>2. CASE U[i] = T[i]
  BY <1>1, <1>2 DEF WasListed, Live
<1>3. CASE U[i] = Gone
  BY <1>1, <1>3 DEF WasListed, Live
<1>4. CASE /\ U[i] \in Comment /\ U[i].ut = now + 1 /\ i \in Live(T)
           /\ U[i].org = T[i].org /\ U[i].parent = T[i].parent
  BY <1>1, <1>4 DEF WasListed, Live
<1> QED
  BY <1>1, <1>2, <1>3, <1>4 DEF UserStep

(* What is still to be treated after the first comment of a queue.         *)
LEMMA RestListed ==
  ASSUME TypeInv, AtItem("pushItem") \/ AtItem("pullItem"), run'.queue = Rest
  PROVE  /\ DOMAIN run'.queue = DOMAIN run.queue \ {Item}
         /\ \A i \in DOMAIN run.queue \ {Item} : run'.queue[i] = run.queue[i]
BY ItemListed DEF TypeInv, AtItem

(* What a step of the users leaves of a queue. *)
LEMMA UserKeepsQueue ==
  ASSUME SafeInv, LocalUser \/ RemoteUser, NEW i \in DOMAIN run.queue, NEW p
  PROVE  /\ WasListed(local, run.queue[i], i, p, clock) => WasListed(local', run.queue[i], i, p, clock')
         /\ WasListed(remote, run.queue[i], i, p, clock) => WasListed(remote', run.queue[i], i, p, clock')
<1>1. /\ TypeInv /\ TypeInv' /\ local \in Table /\ remote \in Table /\ local' \in Table /\ remote' \in Table
      /\ clock \in Nat /\ clock' \in Nat /\ clock <= clock' /\ Now = clock + 1
  BY UserEffects DEF SafeInv, TypeInv, Now
<1>2. i \in Ids /\ run.queue[i] \in Comment
  BY <1>1, RunFields DEF TypeInv
<1>3. \/ local' = local /\ UserStep(remote, remote', clock + 1)
      \/ remote' = remote /\ UserStep(local, local', clock + 1)
  BY <1>1, UserEffects
<1> QED
  BY <1>1, <1>2, <1>3, WasListedKept

(* Staleness lasts. *)
LEMMA StaleNext ==
  ASSUME SafeInv, [Next]_vars
  PROVE  /\ \A i : StaleOf(local, remote, disk, i) => StaleOf(local', remote', disk, i)
         /\ \A i : StaleAt(local, remote, disk, i) => StaleAt(local', remote', disk, i)
         /\ \A i : StaleOf(local, remote, run.bindings, i) => StaleOf(local', remote', run.bindings, i)
         /\ \A i : StaleAt(local, remote, run.bindings, i) => StaleAt(local', remote', run.bindings, i)
<1>1. /\ TypeInv /\ local \in Table /\ remote \in Table /\ local' \in Table /\ remote' \in Table
      /\ Grows(local, local') /\ Grows(remote, remote')
      /\ disk \in Maps(CommentBinding) /\ run.bindings \in Maps(CommentBinding)
      /\ BoundOver(local, remote, disk) /\ BoundOver(local, remote, run.bindings)
  BY NextGrows DEF SafeInv, TypeInv, Runs, BindingsInv
<1>2. ASSUME NEW B \in Maps(CommentBinding), BoundOver(local, remote, B)
      PROVE  /\ \A i : StaleOf(local, remote, B, i) => StaleOf(local', remote', B, i)
             /\ \A i : StaleAt(local, remote, B, i) => StaleAt(local', remote', B, i)
  BY <1>1, <1>2, BoundKept
<1> QED
  BY <1>1, <1>2

(* Where a step other than a listing, or one about a comment of a queue, can *)
(* lead.                                                                     *)
LEMMA PushElsewhere ==
  ASSUME SafeInv, [Next]_vars
  PROVE  \/ UNCHANGED vars \/ LocalUser \/ RemoteUser
         \/ PushList \/ PushSkip \/ PushUpdate \/ PushCreate
         \/ run'.pc # "pushItem"
<1>0. TypeInv /\ SweepType /\ BindingsInv
  BY DEF SafeInv
<1>1. CASE PushItemsDone \/ PushProbe \/ PushDelete \/ PullUpdate \/ PullDelete \/ PullItemsDone \/ PullList
  BY <1>0, <1>1, PushItemsDoneEffect, PushProbeEffect, PushDeleteEffect, PullUpdateEffect,
     PullDeleteEffect, PullItemsDoneEffect, PullListEffect
<1>2. CASE PushMemoDone \/ PushDone \/ PullMemoDone
  BY <1>0, <1>2, MemoDoneEffect
<1>3. CASE Start \/ PullReread \/ Save \/ Die
  BY <1>0, <1>3, StartEffect, PullRereadEffect, IdleEffect
<1>4. CASE PullSkip
  BY <1>0, <1>4, SkipItemEffect DEF PullSkip
<1>5. CASE SkipMemo("pushList") \/ SkipMemo("pullList")
  BY <1>0, <1>5, SkipMemoEffect
<1>6. CASE PullUnbind \/ PullCreate
  BY <1>0, <1>6, PullUnbindEffect, PullCreateEffect DEF AtItem
<1> QED
  BY <1>1, <1>2, <1>3, <1>4, <1>5, <1>6, NextCases DEF Quiet

LEMMA PushQueueNext ==
  ASSUME SafeInv, [Next]_vars
  PROVE  PushQueueInv'
<1>0. /\ TypeInv /\ SweepType /\ BindingsInv /\ ClockInv /\ DiskInv /\ PushQueueInv
      /\ local \in Table /\ remote \in Table /\ clock \in Nat
  BY DEF SafeInv, TypeInv
<1>1. CASE run'.pc # "pushItem"
  BY <1>1 DEF PushQueueInv
<1>2. CASE LocalUser \/ RemoteUser
  <2>1. UNCHANGED <<disk, run>>
    BY <1>0, <1>2, UserEffects
  <2>2. CASE run.pc = "pushItem"
    <3>1. \A l \in DOMAIN run.queue :
            /\ WasListed(local, run.queue[l], l, run.memo, clock)
            /\ StaleOf(local, remote, disk, l) /\ StaleOf(local, remote, run.bindings, l)
      BY <1>0, <2>2 DEF PushQueueInv
    <3>2. \A l \in DOMAIN run.queue : WasListed(local', run.queue[l], l, run.memo, clock')
      BY <1>2, <3>1, UserKeepsQueue
    <3>3. \A l \in DOMAIN run.queue :
            StaleOf(local', remote', disk, l) /\ StaleOf(local', remote', run.bindings, l)
      BY <3>1, StaleNext
    <3> QED
      BY <2>1, <3>2, <3>3 DEF PushQueueInv
  <2> QED
    BY <1>1, <2>1, <2>2
<1>3. CASE PushList
  <2>1. /\ UNCHANGED <<local, remote, clock, disk, run.bindings>> /\ run.pc = "pushList"
        /\ DOMAIN run'.queue =
             CommentsOf(local, run'.memo) \
               {l \in Live(local) : \E r \in RemoteOf(l) : run.bindings[r].lut = local[l].ut}
        /\ \A l \in DOMAIN run'.queue : run'.queue[l] = local[l]
    BY <1>0, <1>3, PushListEffect
  <2>2. ASSUME NEW l \in DOMAIN run'.queue
        PROVE  /\ WasListed(local, run'.queue[l], l, run'.memo, clock)
               /\ StaleOf(local, remote, disk, l) /\ StaleOf(local, remote, run.bindings, l)
    <3>1. /\ l \in Live(local) /\ l \in Ids /\ local[l].parent = run'.memo /\ local[l] \in Comment
          /\ run'.queue[l] = local[l]
      BY <1>0, <2>1, LiveComment DEF CommentsOf
    <3>2. WasListed(local, local[l], l, run'.memo, clock)
      BY <1>0, <3>1 DEF WasListed, ClockInv, Past, Comment, Live
    <3>3. ASSUME NEW r \in DOMAIN run.bindings, run.bindings[r].local = l
          PROVE  Stale(local, remote, run.bindings[r], r)
      <4>1. Sound(local, remote, run.bindings[r], r) /\ run.bindings[r] \in CommentBinding
        BY <1>0, RunMaps DEF BindingsInv, BoundOver
      <4>2. run.bindings[r].lut # local[l].ut
        BY <2>1, <3>1, <3>3 DEF RemoteOf
      <4> QED
        BY <3>1, <3>3, <4>1, <4>2 DEF Sound, Stale, CommentBinding, Comment
    <3>4. ASSUME NEW r \in DOMAIN disk, disk[r].local = l
          PROVE  Stale(local, remote, disk[r], r)
      <4>1. Followed(local, remote, run.bindings, r, disk[r])
        BY <1>0, <2>1 DEF DiskInv
      <4> QED
        BY <3>3, <3>4, <4>1 DEF Followed, Stale
    <3> QED
      BY <3>1, <3>2, <3>3, <3>4 DEF StaleOf
  <2> QED
    BY <2>1, <2>2 DEF PushQueueInv
<1>4. CASE PushSkip
  <2>1. /\ UNCHANGED <<local, remote, clock, disk, run.bindings, run.memo>>
        /\ AtItem("pushItem") /\ run'.queue = Rest
    BY <1>0, <1>4, SkipItemEffect DEF PushSkip, AtItem
  <2>2. /\ DOMAIN run'.queue = DOMAIN run.queue \ {Item}
        /\ \A i \in DOMAIN run.queue \ {Item} : run'.queue[i] = run.queue[i]
    BY <1>0, <2>1, RestListed
  <2> QED
    BY <1>0, <2>1, <2>2 DEF PushQueueInv, AtItem
<1>5. ASSUME UNCHANGED <<local, clock, disk, run.memo>>, AtItem("pushItem"), run'.queue = Rest,
             NEW r \in Ids, NEW b \in CommentBinding, b.local = Item,
             run'.bindings \in {run.bindings, Put(run.bindings, r, b)}
      PROVE  PushQueueInv'
  <2>1. /\ DOMAIN run'.queue = DOMAIN run.queue \ {Item}
        /\ \A i \in DOMAIN run.queue \ {Item} : run'.queue[i] = run.queue[i]
    BY <1>0, <1>5, RestListed
  <2>2. ASSUME NEW l \in DOMAIN run'.queue
        PROVE  /\ WasListed(local', run'.queue[l], l, run'.memo, clock')
               /\ StaleOf(local', remote', disk', l) /\ StaleOf(local', remote', run'.bindings, l)
    <3>1. /\ l \in DOMAIN run.queue /\ l # Item /\ run'.queue[l] = run.queue[l]
          /\ WasListed(local, run.queue[l], l, run.memo, clock)
          /\ StaleOf(local, remote, disk, l) /\ StaleOf(local, remote, run.bindings, l)
      BY <1>0, <1>5, <2>1 DEF PushQueueInv, AtItem
    <3>2. StaleOf(local', remote', disk, l) /\ StaleOf(local', remote', run.bindings, l)
      BY <3>1, StaleNext
    <3>3. CASE run'.bindings = Put(run.bindings, r, b)
      <4>1. /\ DOMAIN run'.bindings = DOMAIN run.bindings \cup {r} /\ run'.bindings[r] = b
            /\ \A x \in DOMAIN run.bindings \ {r} : run'.bindings[x] = run.bindings[x]
        BY <1>0, <3>3, RunPut
      <4>2. StaleOf(local', remote', run'.bindings, l)
        BY <1>5, <3>1, <3>2, <4>1 DEF StaleOf
      <4> QED
        BY <1>5, <3>1, <3>2, <4>2
    <3> QED
      BY <1>5, <3>1, <3>2, <3>3
  <2> QED
    BY <2>2 DEF PushQueueInv
<1>6. CASE PushUpdate
  <2>1. PICK r \in RemoteOf(Item) \cap Live(remote) :
           /\ UNCHANGED <<local, clock, disk, run.memo>> /\ AtItem("pushItem") /\ run'.queue = Rest
           /\ \/ \E b \in CommentBinding : run'.bindings = Put(run.bindings, r, b) /\ b.local = Item
              \/ run'.bindings = run.bindings
    BY <1>0, <1>6, PushUpdateEffect
  <2>2. r \in Ids /\ run.bindings[r] \in CommentBinding /\ run.bindings[r].local = Item
    BY <1>0, <2>1, BoundName DEF RemoteOf
  <2> QED
    BY <1>5, <2>1, <2>2
<1>7. CASE PushCreate
  <2>1. PICK r \in Ids :
           /\ UNCHANGED <<local, clock, disk, run.memo>> /\ AtItem("pushItem") /\ run'.queue = Rest
           /\ \/ \E b \in CommentBinding : run'.bindings = Put(run.bindings, r, b) /\ b.local = Item
              \/ run'.bindings = run.bindings
    BY <1>0, <1>7, PushCreateEffect
  <2>2. Item \in Ids
    BY <2>1, ItemWas
  <2>3. PICK p \in Parents : TRUE
    OBVIOUS
  <2>4. \E b \in CommentBinding : b.local = Item
    <3>1. [local |-> Item, parent |-> p, rut |-> 0, lut |-> 0] \in CommentBinding
      BY <2>2 DEF CommentBinding
    <3> QED
      BY <3>1
  <2> QED
    BY <1>5, <2>1, <2>4
<1>8. CASE UNCHANGED vars
  BY <1>0, <1>8, StutterEffect DEF PushQueueInv
<1> QED
  BY <1>1, <1>2, <1>3, <1>4, <1>6, <1>7, <1>8, PushElsewhere

(* The steps of a pull that leave its listing be: one comment k, no longer *)
(* in the queue, may have got another binding.                             *)
PullOn(k) ==
    /\ run.pc \in {"pullItem", "pullReread"} /\ run'.pc \in {"pullItem", "pullReread"}
    /\ UNCHANGED <<remote, clock, disk, run.memo, run.seen>>
    /\ DOMAIN run'.queue \subseteq DOMAIN run.queue /\ k \notin DOMAIN run'.queue
    /\ \A i \in DOMAIN run'.queue : run'.queue[i] = run.queue[i]
    /\ \A x \in DOMAIN run'.bindings \ {k} :
         x \in DOMAIN run.bindings /\ run'.bindings[x] = run.bindings[x]
    /\ \A x \in DOMAIN run.bindings \ {k} : x \in DOMAIN run'.bindings

LEMMA PullOnEffect ==
  ASSUME SafeInv, PullSkip \/ PullUpdate \/ PullReread \/ PullUnbind \/ PullCreate
  PROVE  \E k : /\ PullOn(k)
                /\ k \in DOMAIN run'.bindings =>
                     \/ k \in DOMAIN run.bindings /\ run'.bindings[k].parent = run.bindings[k].parent
                     \/ k \in run.seen
<1>0. TypeInv /\ SweepType /\ BindingsInv /\ TargetInv
  BY DEF SafeInv
<1>1. ASSUME NEW k \in Ids, NEW b \in CommentBinding, run'.bindings = Put(run.bindings, k, b)
      PROVE  /\ run'.bindings[k] = b
             /\ \A x \in DOMAIN run'.bindings \ {k} :
                  x \in DOMAIN run.bindings /\ run'.bindings[x] = run.bindings[x]
             /\ \A x \in DOMAIN run.bindings \ {k} : x \in DOMAIN run'.bindings
  BY <1>0, <1>1, RunPut
<1>2. ASSUME NEW k, run'.bindings = Drop(run.bindings, k)
      PROVE  /\ k \notin DOMAIN run'.bindings
             /\ \A x \in DOMAIN run'.bindings \ {k} :
                  x \in DOMAIN run.bindings /\ run'.bindings[x] = run.bindings[x]
             /\ \A x \in DOMAIN run.bindings \ {k} : x \in DOMAIN run'.bindings
  BY <1>0, <1>2, RunDrop
<1>3. ASSUME AtItem("pullItem"), run'.queue = Rest
      PROVE  /\ DOMAIN run'.queue = DOMAIN run.queue \ {Item} /\ Item \in Ids
             /\ \A i \in DOMAIN run.queue \ {Item} : run'.queue[i] = run.queue[i]
  BY <1>0, <1>3, RestListed, ItemWas
<1>4. CASE PullSkip
  <2>1. /\ UNCHANGED <<remote, clock, disk, run.pc, run.bindings, run.memo, run.seen>>
        /\ AtItem("pullItem") /\ run'.queue = Rest
    BY <1>0, <1>4, SkipItemEffect DEF PullSkip, AtItem
  <2> QED
    BY <1>3, <2>1 DEF PullOn, AtItem
<1>5. CASE PullUpdate
  <2>1. PICK b \in CommentBinding :
           /\ UNCHANGED <<remote, clock, disk, run.memo, run.seen>> /\ run'.pc = "pullReread"
           /\ AtItem("pullItem") /\ run'.queue = Rest /\ Item \in DOMAIN run.bindings
           /\ run'.bindings = Put(run.bindings, Item, b) /\ b.parent = run.bindings[Item].parent
    BY <1>0, <1>5, PullUpdateEffect
  <2> QED
    BY <1>1, <1>3, <2>1 DEF PullOn, AtItem
<1>6. CASE PullReread
  <2>1. /\ UNCHANGED <<remote, clock, disk, run.memo, run.seen, run.queue>> /\ run'.pc = "pullItem"
        /\ run.pc = "pullReread" /\ run.target \in DOMAIN run.bindings
        /\ \/ \E b \in CommentBinding : /\ run'.bindings = Put(run.bindings, run.target, b)
                                        /\ b.parent = run.bindings[run.target].parent
           \/ run'.bindings = Drop(run.bindings, run.target)
           \/ run'.bindings = run.bindings
    BY <1>0, <1>6, PullRereadEffect
  <2>2. PICK k \in Ids : k = run.target
    BY <1>0, <2>1, BoundName
  <2>3. k \notin DOMAIN run.queue /\ k \in DOMAIN run.bindings
    BY <1>0, <2>1, <2>2 DEF TargetInv
  <2>4. /\ \A x \in DOMAIN run'.bindings \ {k} :
             x \in DOMAIN run.bindings /\ run'.bindings[x] = run.bindings[x]
        /\ \A x \in DOMAIN run.bindings \ {k} : x \in DOMAIN run'.bindings
        /\ k \in DOMAIN run'.bindings => run'.bindings[k].parent = run.bindings[k].parent
    BY <1>1, <1>2, <2>1, <2>2
  <2> QED
    BY <2>1, <2>3, <2>4 DEF PullOn
<1>7. CASE PullUnbind
  <2>1. /\ UNCHANGED <<remote, clock, disk, run.pc, run.memo, run.seen>>
        /\ AtItem("pullItem") /\ run'.queue = Rest
        /\ run'.bindings = Drop(run.bindings, Item)
    BY <1>0, <1>7, PullUnbindEffect
  <2> QED
    BY <1>2, <1>3, <2>1 DEF PullOn, AtItem
<1>8. CASE PullCreate
  <2>1. PICK b \in CommentBinding :
           /\ UNCHANGED <<remote, clock, disk, run.pc, run.memo, run.seen>>
           /\ AtItem("pullItem") /\ run'.queue = Rest
           /\ run'.bindings = Put(run.bindings, Item, b)
    BY <1>0, <1>8, PullCreateEffect
  <2>2. Item \in run.seen
    BY <2>1, ItemWas
  <2> QED
    BY <1>1, <1>3, <2>1, <2>2 DEF PullOn, AtItem
<1> QED
  BY <1>4, <1>5, <1>6, <1>7, <1>8

(* Where a step other than a listing, or one of these, can lead. *)
LEMMA PullElsewhere ==
  ASSUME SafeInv, [Next]_vars
  PROVE  \/ UNCHANGED vars \/ LocalUser \/ RemoteUser \/ PullList
         \/ PullSkip \/ PullUpdate \/ PullReread \/ PullUnbind \/ PullCreate
         \/ run'.pc \notin {"pullItem", "pullReread"}
<1>0. TypeInv /\ SweepType /\ BindingsInv
  BY DEF SafeInv
<1>1. CASE PushList \/ PushItemsDone \/ PushProbe \/ PushDelete \/ PullDelete \/ PullItemsDone
  BY <1>0, <1>1, PushListEffect, PushItemsDoneEffect, PushProbeEffect, PushDeleteEffect,
     PullDeleteEffect, PullItemsDoneEffect
<1>2. CASE PushMemoDone \/ PushDone \/ PullMemoDone
  BY <1>0, <1>2, MemoDoneEffect
<1>3. CASE Start \/ Save \/ Die
  BY <1>0, <1>3, StartEffect, IdleEffect
<1>4. CASE PushSkip
  BY <1>0, <1>4, SkipItemEffect DEF PushSkip
<1>5. CASE SkipMemo("pushList") \/ SkipMemo("pullList")
  BY <1>0, <1>5, SkipMemoEffect
<1>6. CASE PushUpdate \/ PushCreate
  BY <1>0, <1>6, PushUpdateEffect, PushCreateEffect DEF AtItem
<1> QED
  BY <1>1, <1>2, <1>3, <1>4, <1>5, <1>6, NextCases DEF Quiet

LEMMA PullQueueNext ==
  ASSUME SafeInv, [Next]_vars
  PROVE  PullQueueInv'
<1>0. /\ TypeInv /\ SweepType /\ BindingsInv /\ ClockInv /\ DiskInv /\ PullQueueInv
      /\ local \in Table /\ remote \in Table /\ clock \in Nat
  BY DEF SafeInv, TypeInv
<1>1. CASE run'.pc \notin {"pullItem", "pullReread"}
  BY <1>1 DEF PullQueueInv
<1>2. CASE LocalUser \/ RemoteUser
  <2>1. UNCHANGED <<disk, run>>
    BY <1>0, <1>2, UserEffects
  <2>2. CASE run.pc \in {"pullItem", "pullReread"}
    <3>1. \A r \in DOMAIN run.queue :
            /\ r \in run.seen /\ WasListed(remote, run.queue[r], r, run.memo, clock)
            /\ StaleAt(local, remote, disk, r) /\ StaleAt(local, remote, run.bindings, r)
      BY <1>0, <2>2 DEF PullQueueInv
    <3>2. \A r \in DOMAIN run.queue : WasListed(remote', run.queue[r], r, run.memo, clock')
      BY <1>2, <3>1, UserKeepsQueue
    <3>3. \A r \in DOMAIN run.queue :
            StaleAt(local', remote', disk, r) /\ StaleAt(local', remote', run.bindings, r)
      BY <3>1, StaleNext
    <3> QED
      BY <2>1, <3>1, <3>2, <3>3 DEF PullQueueInv
  <2> QED
    BY <1>1, <2>1, <2>2
<1>3. CASE PullList
  <2>1. /\ UNCHANGED <<local, remote, clock, disk, run.bindings>> /\ run.pc = "pullList"
        /\ run'.seen = CommentsOf(remote, run'.memo)
        /\ DOMAIN run'.queue =
             CommentsOf(remote, run'.memo) \
               {r \in Live(remote) : r \in DOMAIN run.bindings /\ run.bindings[r].rut = remote[r].ut}
        /\ \A r \in DOMAIN run'.queue : run'.queue[r] = remote[r]
    BY <1>0, <1>3, PullListEffect
  <2>2. ASSUME NEW r \in DOMAIN run'.queue
        PROVE  /\ r \in run'.seen /\ WasListed(remote, run'.queue[r], r, run'.memo, clock)
               /\ StaleAt(local, remote, disk, r) /\ StaleAt(local, remote, run.bindings, r)
    <3>1. /\ r \in Live(remote) /\ r \in Ids /\ remote[r].parent = run'.memo /\ remote[r] \in Comment
          /\ run'.queue[r] = remote[r] /\ r \in run'.seen
      BY <1>0, <2>1, LiveComment DEF CommentsOf
    <3>2. WasListed(remote, remote[r], r, run'.memo, clock)
      BY <1>0, <3>1 DEF WasListed, ClockInv, Past, Comment, Live
    <3>3. StaleAt(local, remote, run.bindings, r)
      <4>1. ASSUME r \in DOMAIN run.bindings
            PROVE  Stale(local, remote, run.bindings[r], r)
        <5>1. Sound(local, remote, run.bindings[r], r) /\ run.bindings[r] \in CommentBinding
          BY <1>0, <4>1, RunMaps DEF BindingsInv, BoundOver
        <5>2. run.bindings[r].rut # remote[r].ut
          BY <2>1, <3>1, <4>1
        <5> QED
          BY <3>1, <5>1, <5>2 DEF Sound, Stale, CommentBinding, Comment
      <4> QED
        BY <4>1 DEF StaleAt
    <3>4. StaleAt(local, remote, disk, r)
      <4>1. ASSUME r \in DOMAIN disk
            PROVE  Followed(local, remote, run.bindings, r, disk[r])
        BY <1>0, <2>1, <4>1 DEF DiskInv
      <4> QED
        BY <3>3, <4>1 DEF Followed, Stale, StaleAt
    <3> QED
      BY <3>1, <3>2, <3>3, <3>4
  <2> QED
    BY <2>1, <2>2 DEF PullQueueInv
<1>4. CASE PullSkip \/ PullUpdate \/ PullReread \/ PullUnbind \/ PullCreate
  <2>1. PICK k : PullOn(k)
    BY <1>4, PullOnEffect
  <2>2. ASSUME NEW r \in DOMAIN run'.queue
        PROVE  /\ r \in run'.seen /\ WasListed(remote', run'.queue[r], r, run'.memo, clock')
               /\ StaleAt(local', remote', disk', r) /\ StaleAt(local', remote', run'.bindings, r)
    <3>1. /\ r \in DOMAIN run.queue /\ r # k /\ run'.queue[r] = run.queue[r] /\ r \in run.seen
          /\ WasListed(remote, run.queue[r], r, run.memo, clock)
          /\ StaleAt(local, remote, disk, r) /\ StaleAt(local, remote, run.bindings, r)
      BY <1>0, <2>1 DEF PullQueueInv, PullOn
    <3>2. StaleAt(local', remote', disk, r) /\ StaleAt(local', remote', run.bindings, r)
      BY <3>1, StaleNext
    <3> QED
      BY <2>1, <3>1, <3>2 DEF StaleAt, PullOn
  <2> QED
    BY <2>2 DEF PullQueueInv
<1>5. CASE UNCHANGED vars
  BY <1>0, <1>5, StutterEffect DEF PullQueueInv
<1> QED
  BY <1>1, <1>2, <1>3, <1>4, <1>5, PullElsewhere

LEMMA TargetNext ==
  ASSUME SafeInv, [Next]_vars
  PROVE  TargetInv'
<1>0. /\ TypeInv /\ SweepType /\ BindingsInv /\ TargetInv /\ TypeInv'
      /\ Grows(local, local') /\ Grows(remote, remote')
  BY NextGrows DEF SafeInv
<1>1. CASE run'.pc \notin {"pushDelete", "pullReread"}
  BY <1>1 DEF TargetInv
<1>2. CASE LocalUser \/ RemoteUser
  <2>1. UNCHANGED <<disk, run>>
    BY <1>0, <1>2, UserEffects
  <2>2. ASSUME run.pc = "pushDelete" PROVE local'[LocalName(run.target)] = Gone
    <3>1. LocalName(run.target) \in Ids
      BY <1>0, <2>2, BoundName DEF SweepType
    <3> QED
      BY <1>0, <2>2, <3>1 DEF TargetInv, Grows
  <2>3. run.pc = "pullReread" => StaleAt(local', remote', disk, run.target)
    BY <1>0, StaleNext DEF TargetInv
  <2> QED
    BY <1>0, <2>1, <2>2, <2>3 DEF TargetInv, LocalName
<1>3. CASE PushProbe
  <2>1. /\ UNCHANGED <<local, remote, disk, run.bindings>>
        /\ \/ run'.pc = "pushSweep"
           \/ run'.pc = "pushDelete" /\ local[LocalName(run'.target)] = Gone
    BY <1>0, <1>3, PushProbeEffect
  <2> QED
    BY <2>1 DEF TargetInv, LocalName
<1>4. CASE PullUpdate
  <2>1. /\ disk' = disk /\ run'.pc = "pullReread" /\ run'.target = Item /\ AtItem("pullItem")
        /\ run'.queue = Rest
    BY <1>0, <1>4, PullUpdateEffect
  <2>2. StaleAt(local, remote, disk, Item)
    BY <2>1, ItemWas
  <2>3. StaleAt(local', remote', disk', Item)
    BY <2>1, <2>2, StaleNext
  <2>4. Item \notin DOMAIN run'.queue
    BY <1>0, <2>1, RestListed
  <2> QED
    BY <2>1, <2>3, <2>4 DEF TargetInv
<1>5. CASE UNCHANGED vars
  BY <1>0, <1>5, StutterEffect DEF TargetInv, LocalName
<1>6. CASE PushList \/ PushItemsDone \/ PushDelete \/ PullDelete \/ PullItemsDone \/ PullList
  BY <1>0, <1>1, <1>6, PushListEffect, PushItemsDoneEffect, PushDeleteEffect,
     PullDeleteEffect, PullItemsDoneEffect, PullListEffect
<1>7. CASE PushMemoDone \/ PushDone \/ PullMemoDone
  BY <1>0, <1>1, <1>7, MemoDoneEffect
<1>8. CASE Start \/ PullReread \/ Save \/ Die
  BY <1>0, <1>1, <1>8, StartEffect, PullRereadEffect, IdleEffect
<1>9. CASE PushSkip \/ PullSkip
  BY <1>0, <1>1, <1>9, SkipItemEffect DEF PushSkip, PullSkip
<1>10. CASE SkipMemo("pushList") \/ SkipMemo("pullList")
  BY <1>0, <1>1, <1>10, SkipMemoEffect
<1>11. CASE PushUpdate \/ PushCreate \/ PullUnbind \/ PullCreate
  BY <1>0, <1>1, <1>11, PushUpdateEffect, PushCreateEffect, PullUnbindEffect, PullCreateEffect DEF AtItem
<1> QED
  BY <1>2, <1>3, <1>4, <1>5, <1>6, <1>7, <1>8, <1>9, <1>10, <1>11, NextCases DEF Quiet

LEMMA SweepNext ==
  ASSUME SafeInv, [Next]_vars
  PROVE  SweepInv'
<1>0. /\ TypeInv /\ SweepType /\ BindingsInv /\ SweepInv /\ remote \in Table
      /\ Grows(local, local') /\ Grows(remote, remote')
  BY NextGrows DEF SafeInv, TypeInv
<1>a. \A r \in DOMAIN run.bindings : r \in Ids /\ remote[r] # Fresh /\ (remote[r] = Gone => remote'[r] = Gone)
  BY <1>0, BoundName DEF Grows
<1>b. \A r \in run.sweep : r \in DOMAIN run.bindings
  BY <1>0 DEF SweepType
<1>1. CASE run'.pc \notin {"pullItem", "pullReread", "pullSweep"}
  BY <1>1 DEF SweepInv
<1>2. CASE (LocalUser \/ RemoteUser) \/ UNCHANGED vars
  <2>1. run' = run
    BY <1>0, <1>2, UserEffects, StutterEffect
  <2> QED
    BY <1>0, <1>a, <1>b, <2>1 DEF SweepInv
<1>3. CASE PullList
  <2>1. /\ remote' = remote /\ run'.pc = "pullItem" /\ run'.bindings = run.bindings
        /\ run'.seen = CommentsOf(remote, run'.memo)
    BY <1>0, <1>3, PullListEffect
  <2>2. ASSUME NEW r \in DOMAIN run.bindings,
               run.bindings[r].parent = run'.memo, r \notin run'.seen
        PROVE  remote[r] = Gone
    <3>1. r \in Ids /\ remote[r] # Fresh
      BY <1>a
    <3>2. r \in Live(remote) => remote[r].parent = run.bindings[r].parent
      BY <1>0 DEF BindingsInv, BoundOver, Sound
    <3> QED
      BY <2>1, <2>2, <3>1, <3>2 DEF CommentsOf, Live
  <2> QED
    BY <2>1, <2>2 DEF SweepInv
<1>4. CASE PullSkip \/ PullUpdate \/ PullReread \/ PullUnbind \/ PullCreate
  <2>1. PICK k : /\ PullOn(k)
                 /\ k \in DOMAIN run'.bindings =>
                      \/ k \in DOMAIN run.bindings /\ run'.bindings[k].parent = run.bindings[k].parent
                      \/ k \in run.seen
    BY <1>4, PullOnEffect
  <2>2. ASSUME NEW r \in DOMAIN run'.bindings, run'.bindings[r].parent = run'.memo, r \notin run'.seen
        PROVE  remote'[r] = Gone
    <3>1. r \in DOMAIN run.bindings /\ run.bindings[r].parent = run.memo /\ r \notin run.seen
      BY <2>1, <2>2 DEF PullOn
    <3> QED
      BY <1>0, <2>1, <3>1 DEF SweepInv, PullOn
  <2> QED
    BY <2>1, <2>2 DEF SweepInv, PullOn
<1>5. CASE PullItemsDone
  <2>1. /\ remote' = remote /\ run.pc = "pullItem" /\ run'.pc = "pullSweep"
        /\ run'.sweep = Unseen("remote")
    BY <1>0, <1>5, PullItemsDoneEffect
  <2>2. \A r \in Unseen("remote") :
          r \in DOMAIN run.bindings /\ run.bindings[r].parent = run.memo /\ r \notin run.seen
    BY DEF Unseen
  <2> QED
    BY <1>0, <2>1, <2>2 DEF SweepInv
<1>6. CASE PullDelete
  <2>1. /\ remote' = remote /\ run.pc = "pullSweep" /\ run'.pc = "pullSweep"
        /\ run'.sweep \subseteq run.sweep
    BY <1>0, <1>6, PullDeleteEffect
  <2> QED
    BY <1>0, <2>1 DEF SweepInv
<1>7. CASE PushList \/ PushItemsDone \/ PushProbe \/ PushDelete
  BY <1>0, <1>1, <1>7, PushListEffect, PushItemsDoneEffect, PushProbeEffect, PushDeleteEffect
<1>8. CASE PushMemoDone \/ PushDone \/ PullMemoDone
  <2>1. run'.pc \in {"pushList", "pullList"}
    BY <1>0, <1>8, MemoDoneEffect
  <2> QED
    BY <1>1, <2>1
<1>9. CASE Start \/ Save \/ Die
  BY <1>0, <1>1, <1>9, StartEffect, IdleEffect
<1>10. CASE PushSkip
  BY <1>0, <1>1, <1>10, SkipItemEffect DEF PushSkip
<1>11. CASE SkipMemo("pushList") \/ SkipMemo("pullList")
  BY <1>0, <1>1, <1>11, SkipMemoEffect
<1>12. CASE PushUpdate \/ PushCreate
  BY <1>0, <1>1, <1>12, PushUpdateEffect, PushCreateEffect DEF AtItem
<1> QED
  BY <1>2, <1>3, <1>4, <1>5, <1>6, <1>7, <1>8, <1>9, <1>10, <1>11, <1>12, NextCases DEF Quiet

LEMMA InitSafe == Init => SafeInv
<1> SUFFICES ASSUME Init PROVE SafeInv
  OBVIOUS
<1>1. /\ NoMap \in Maps(CommentBinding) /\ NoMap \in Maps(Comment) /\ DOMAIN NoMap = {}
  BY MapEmpty
<1>2. Idle \in Runs /\ Idle.pc = "idle" /\ Idle.bindings = NoMap /\ Idle.sweep = {}
  BY <1>1 DEF Idle, Runs, RunStates
<1>3. TypeInv
  BY <1>1, <1>2 DEF Init, TypeInv, Table, FaultCount
<1>4. SweepType /\ DiskInv /\ PushQueueInv /\ PullQueueInv /\ TargetInv /\ SweepInv
  BY <1>1, <1>2 DEF Init, SweepType, DiskInv, PushQueueInv, PullQueueInv, TargetInv, SweepInv
<1>5. BindingsInv
  BY <1>2, BoundEmpty DEF Init, BindingsInv
<1>6. ClockInv
  BY DEF Init, ClockInv, Past, Live
<1> QED
  BY <1>3, <1>4, <1>5, <1>6 DEF SafeInv

(* What is bound, queued and about to be deleted is what it was listed as, *)
(* whatever the users do between two requests and whatever fails: the      *)
(* inductive invariant of the comment synchronisation.                     *)
THEOREM CommentInvariant == Spec => []SafeInv
<1>1. SafeInv /\ [Next]_vars => SafeInv'
  <2> SUFFICES ASSUME SafeInv, [Next]_vars PROVE SafeInv'
    OBVIOUS
  <2>1. TypeInv'
    BY NextGrows DEF SafeInv
  <2> QED
    BY <2>1, SweepTypeNext, BindingsNext, ClockNext, DiskNext, PushQueueNext, PullQueueNext,
       TargetNext, SweepNext DEF SafeInv
<1> QED
  BY InitSafe, <1>1, PTL DEF Spec

(* Tables of comments, bindings over ids, and a request about a comment in *)
(* hand only while there is one and it is bound.                           *)
THEOREM TypeCorrect == Spec => []TypeOK
<1>1. SafeInv => TypeOK
  BY RunFields, RunMaps DEF SafeInv, TypeInv, SweepType, TypeOK, IsBindings, FaultCount
<1> QED
  BY <1>1, CommentInvariant, PTL

(* No two bindings share a local comment, stored or in the hands of a run. *)
THEOREM OneCounterpart == Spec => []BindingsInjective
<1>1. SafeInv => BindingsInjective
  BY DEF SafeInv, BindingsInv, BoundOver, Injective, BindingsInjective
<1> QED
  BY <1>1, CommentInvariant, PTL

(* A comment and its counterpart hang on the two sides of one pair of memos. *)
THEOREM SameMemo == Spec => []CounterpartsShareMemo
<1>1. SafeInv => CounterpartsShareMemo
  BY DEF SafeInv, BindingsInv, BoundOver, Sound, CounterpartsShareMemo
<1> QED
  BY <1>1, CommentInvariant, PTL

(* What a run deletes has lost its counterpart: the remote comment of a    *)
(* local one that is gone, and the local one of a remote one that is.      *)
Justified ==
    run' # run =>
      /\ \A r \in Live(remote) : remote'[r] = Gone =>
           r \in DOMAIN run.bindings /\ local[run.bindings[r].local] = Gone
      /\ \A l \in Live(local) : local'[l] = Gone =>
           \E r \in DOMAIN run.bindings : run.bindings[r].local = l /\ remote[r] = Gone

LEMMA JustifiedStep ==
  ASSUME SafeInv, [Next]_vars
  PROVE  Justified
<1>0. /\ TypeInv /\ SweepType /\ BindingsInv /\ TargetInv /\ SweepInv
      /\ local \in Table /\ remote \in Table
  BY DEF SafeInv, TypeInv
<1>a. \A T \in {local, remote} : \A i \in Live(T) : i \in Ids /\ T[i] # Gone
  BY DEF Live
<1>1. CASE run' = run
  BY <1>1 DEF Justified
<1>2. CASE UNCHANGED <<local, remote>>
  BY <1>a, <1>2 DEF Justified
<1>3. CASE PushUpdate
  <2>1. PICK r \in Ids, c \in Comment : UNCHANGED local /\ remote' = [remote EXCEPT ![r] = c]
    BY <1>0, <1>3, PushUpdateEffect DEF Live
  <2> QED
    BY <1>0, <1>a, <2>1, FreshGoneAreNoComments DEF Justified, Table
<1>4. CASE PushCreate
  <2>1. PICK r \in Ids, c \in Comment : UNCHANGED local /\ remote' = [remote EXCEPT ![r] = c]
    BY <1>0, <1>4, PushCreateEffect
  <2> QED
    BY <1>0, <1>a, <2>1, FreshGoneAreNoComments DEF Justified, Table
<1>5. CASE PushDelete
  <2>1. /\ UNCHANGED local /\ run.pc = "pushDelete" /\ run.target \in DOMAIN run.bindings
        /\ remote' \in {remote, [remote EXCEPT ![run.target] = Gone]}
    BY <1>0, <1>5, PushDeleteEffect
  <2> QED
    BY <1>0, <1>a, <2>1 DEF Justified, Table, TargetInv, LocalName
<1>6. CASE PullUpdate
  <2>1. PICK l \in Ids, c \in Comment : UNCHANGED remote /\ local' = [local EXCEPT ![l] = c]
    BY <1>0, <1>6, PullUpdateEffect DEF Live
  <2> QED
    BY <1>0, <1>a, <2>1, FreshGoneAreNoComments DEF Justified, Table
<1>7. CASE PullCreate
  <2>1. PICK l \in Ids, c \in Comment : UNCHANGED remote /\ local' = [local EXCEPT ![l] = c]
    BY <1>0, <1>7, PullCreateEffect
  <2> QED
    BY <1>0, <1>a, <2>1, FreshGoneAreNoComments DEF Justified, Table
<1>8. CASE PullDelete
  <2>1. PICK r \in run.sweep :
           /\ UNCHANGED remote /\ run.pc = "pullSweep" /\ r \in DOMAIN run.bindings
           /\ local' \in {local, [local EXCEPT ![LocalName(r)] = Gone]}
    BY <1>0, <1>8, PullDeleteEffect
  <2>2. remote[r] = Gone /\ run.bindings[r].local = LocalName(r)
    BY <1>0, <2>1 DEF SweepInv, LocalName
  <2> QED
    BY <1>0, <1>a, <2>1, <2>2 DEF Justified, Table
<1>9. CASE LocalUser \/ RemoteUser \/ UNCHANGED vars
  BY <1>0, <1>1, <1>9, UserEffects, StutterEffect
<1>10. CASE Start \/ Quiet \/ PullReread \/ PullUnbind \/ Save \/ Die
  BY <1>0, <1>2, <1>10, StartEffect, QuietEffect, PullRereadEffect, PullUnbindEffect, IdleEffect
<1> QED
  BY <1>3, <1>4, <1>5, <1>6, <1>7, <1>8, <1>9, <1>10, NextCases

(* A run deletes a remote comment only after the local one it was bound to *)
(* is gone, and a local one only after the remote one is, in every         *)
(* interleaving with the users of both sides and under every fault.        *)
THEOREM DeletionsJustified == Spec => DeletesJustified
<1>1. SafeInv /\ [Next]_vars => [Justified]_vars
  BY JustifiedStep
<1>2. [][Justified]_vars => DeletesJustified
  BY PTL DEF DeletesJustified, Justified
<1> QED
  BY <1>1, <1>2, CommentInvariant, PTL DEF Spec

--------------------------------------------------------------------------------
(***************************************************************************)
(* The rule that passes a comment over.                                    *)
(***************************************************************************)
AgreeOver(L, R, B) == \A r \in DOMAIN B : Agrees(L, R, B[r], r)
AgreeInv == AgreeOver(local, remote, disk) /\ AgreeOver(local, remote, run.bindings)

(* Between updateMemo and getMemo the local comment has the text of the    *)
(* remote one, if nobody may edit it in between and unless the remote one  *)
(* has been written since.                                                 *)
RereadInv ==
    run.pc = "pullReread" =>
      LET r == run.target
          l == LocalName(r)
      IN  l \in Live(local) /\ r \in Live(remote) /\ run.bindings[r].rut = remote[r].ut =>
            local[l].text = remote[r].text

(* A binding whose two comments a step leaves alone, or makes it stale.    *)
LEMMA AgreesKept ==
  ASSUME NEW L \in Table, NEW L2 \in Table, Grows(L, L2),
         NEW R \in Table, NEW R2 \in Table, Grows(R, R2),
         NEW b \in CommentBinding, NEW r \in Ids, Sound(L, R, b, r), Agrees(L, R, b, r),
         L2[b.local] = L[b.local] \/ Stale(L2, R2, b, r),
         R2[r] = R[r] \/ Stale(L2, R2, b, r)
  PROVE  Agrees(L2, R2, b, r)
<1>1. CASE Stale(L2, R2, b, r)
  BY <1>1 DEF Agrees
<1>2. CASE L2[b.local] = L[b.local] /\ R2[r] = R[r]
  BY <1>2 DEF Agrees, Stale
<1> QED
  BY <1>1, <1>2

(* The users make stale what they touch. *)
LEMMA UserStales ==
  ASSUME NEW T \in Table, NEW U \in Table, NEW now \in Nat, UserStep(T, U, now + 1), Past(T, now),
         NEW i \in Ids, T[i] # Fresh, NEW t \in Nat, i \in Live(T) => t <= T[i].ut
  PROVE  U[i] = T[i] \/ U[i] = Gone \/ t < U[i].ut
<1>1. CASE /\ U[i] \in Comment /\ U[i].ut = now + 1 /\ i \in Live(T)
  <2>1. T[i].ut \in Nat /\ T[i].ut <= now
    BY <1>1, LiveComment DEF Past, Comment
  <2> QED
    BY <1>1, <2>1
<1> QED
  BY <1>1 DEF UserStep

LEMMA AgreeOld ==
  ASSUME SafeInv, AgreeInv, [Next]_vars
  PROVE  AgreeOver(local', remote', disk) /\ AgreeOver(local', remote', run.bindings)
<1>0. /\ TypeInv /\ SweepType /\ BindingsInv /\ ClockInv /\ DiskInv /\ TypeInv'
      /\ local \in Table /\ remote \in Table /\ local' \in Table /\ remote' \in Table /\ clock \in Nat
      /\ Grows(local, local') /\ Grows(remote, remote')
  BY NextGrows DEF SafeInv, TypeInv
<1>1. ASSUME NEW B \in {disk, run.bindings}, NEW r \in DOMAIN B
      PROVE  /\ r \in Ids /\ B[r] \in CommentBinding /\ B[r].local \in Ids
             /\ B[r].lut \in Nat /\ B[r].rut \in Nat
             /\ Sound(local, remote, B[r], r) /\ Agrees(local, remote, B[r], r)
             /\ local[B[r].local] # Fresh /\ remote[r] # Fresh
             /\ Stale(local, remote, B[r], r) => Stale(local', remote', B[r], r)
  <2>1. /\ r \in Ids /\ B[r] \in CommentBinding
        /\ Sound(local, remote, B[r], r) /\ Agrees(local, remote, B[r], r)
    BY <1>0, RunMaps DEF BindingsInv, BoundOver, AgreeInv, AgreeOver
  <2>2. Stale(local, remote, B[r], r) => Stale(local', remote', B[r], r)
    BY <1>0, <2>1, StaleKept
  <2> QED
    BY <2>1, <2>2 DEF CommentBinding, Sound
<1>2. ASSUME \A B \in {disk, run.bindings} : \A r \in DOMAIN B :
               /\ local'[B[r].local] = local[B[r].local] \/ Stale(local', remote', B[r], r)
               /\ remote'[r] = remote[r] \/ Stale(local', remote', B[r], r)
      PROVE  AgreeOver(local', remote', disk) /\ AgreeOver(local', remote', run.bindings)
  <2>1. ASSUME NEW B \in {disk, run.bindings}, NEW r \in DOMAIN B
        PROVE  Agrees(local', remote', B[r], r)
    BY <1>0, <1>1, <1>2, AgreesKept
  <2> QED
    BY <2>1 DEF AgreeOver
<1>3. CASE UNCHANGED <<local, remote>>
  BY <1>2, <1>3
<1>4. CASE LocalUser \/ RemoteUser
  <2>1. \/ local' = local /\ UserStep(remote, remote', clock + 1)
        \/ remote' = remote /\ UserStep(local, local', clock + 1)
    BY <1>0, <1>4, UserEffects DEF Now
  <2>2. ASSUME NEW B \in {disk, run.bindings}, NEW r \in DOMAIN B
        PROVE  /\ local'[B[r].local] = local[B[r].local] \/ Stale(local', remote', B[r], r)
               /\ remote'[r] = remote[r] \/ Stale(local', remote', B[r], r)
    <3>1. CASE local' = local /\ UserStep(remote, remote', clock + 1)
      <4>1. remote'[r] = remote[r] \/ remote'[r] = Gone \/ B[r].rut < remote'[r].ut
        BY <1>0, <1>1, <3>1, UserStales DEF ClockInv, Sound
      <4> QED
        BY <3>1, <4>1 DEF Stale
    <3>2. CASE remote' = remote /\ UserStep(local, local', clock + 1)
      <4>1. ASSUME NEW l \in Ids, l = B[r].local
            PROVE  local'[l] = local[l] \/ local'[l] = Gone \/ B[r].lut < local'[l].ut
        <5>1. local[l] # Fresh /\ B[r].lut \in Nat /\ (l \in Live(local) => B[r].lut <= local[l].ut)
          BY <1>1, <4>1 DEF Sound
        <5> QED
          BY <1>0, <3>2, <5>1, UserStales DEF ClockInv
      <4> QED
        BY <1>1, <3>2, <4>1 DEF Stale
    <3> QED
      BY <2>1, <3>1, <3>2
  <2> QED
    BY <1>2, <2>2
<1>5. CASE PushUpdate
  <2>1. PICK k \in RemoteOf(Item) \cap Live(remote), c \in Comment :
           /\ local' = local /\ remote' = [remote EXCEPT ![k] = c] /\ AtItem("pushItem")
    BY <1>0, <1>5, PushUpdateEffect
  <2>2. /\ k \in DOMAIN run.bindings /\ run.bindings[k].local = Item
        /\ StaleOf(local, remote, disk, Item) /\ StaleOf(local, remote, run.bindings, Item)
    BY <2>1, ItemWas DEF RemoteOf
  <2>3. Stale(local, remote, run.bindings[k], k)
    BY <2>2 DEF StaleOf
  <2>4. ASSUME k \in DOMAIN disk PROVE Stale(local, remote, disk[k], k)
    <3>1. Followed(local, remote, run.bindings, k, disk[k])
      BY <1>0, <2>1, <2>4 DEF DiskInv, AtItem
    <3> QED
      BY <2>2, <2>4, <3>1 DEF Followed, Stale, StaleOf
  <2>5. ASSUME NEW B \in {disk, run.bindings}, NEW r \in DOMAIN B
        PROVE  remote'[r] = remote[r] \/ Stale(local', remote', B[r], r)
    BY <1>0, <1>1, <2>1, <2>3, <2>4 DEF Table
  <2> QED
    BY <1>2, <2>1, <2>5
<1>6. CASE PushCreate
  <2>1. PICK k \in Ids, c \in Comment :
           local' = local /\ remote' = [remote EXCEPT ![k] = c] /\ remote[k] = Fresh
    BY <1>0, <1>6, PushCreateEffect
  <2>2. ASSUME NEW B \in {disk, run.bindings}, NEW r \in DOMAIN B PROVE remote'[r] = remote[r]
    <3>1. r \in Ids /\ remote[r] # Fresh
      BY <1>1
    <3> QED
      BY <1>0, <2>1, <3>1 DEF Table
  <2> QED
    BY <1>2, <2>1, <2>2
<1>7. CASE PushDelete
  <2>1. /\ local' = local /\ run.target \in Ids
        /\ remote' \in {remote, [remote EXCEPT ![run.target] = Gone]}
    BY <1>0, <1>7, PushDeleteEffect
  <2>2. ASSUME NEW B \in {disk, run.bindings}, NEW r \in DOMAIN B
        PROVE  remote'[r] = remote[r] \/ remote'[r] = Gone
    BY <1>0, <1>1, <2>1 DEF Table
  <2> QED
    BY <1>2, <2>1, <2>2 DEF Stale
<1>8. CASE PullUpdate
  <2>1. PICK c \in Comment :
           /\ remote' = remote /\ Item \in DOMAIN run.bindings /\ LocalName(Item) \in Live(local)
           /\ local' = [local EXCEPT ![LocalName(Item)] = c] /\ AtItem("pullItem")
    BY <1>0, <1>8, PullUpdateEffect
  <2>2. /\ StaleAt(local, remote, disk, Item) /\ StaleAt(local, remote, run.bindings, Item)
        /\ local[LocalName(Item)] # Gone /\ run.bindings[Item].local = LocalName(Item)
    BY <2>1, ItemWas DEF LocalName, Live
  <2>3. ASSUME NEW r \in DOMAIN run.bindings, run.bindings[r].local = LocalName(Item)
        PROVE  r = Item
    BY <1>0, <2>1, <2>2, <2>3 DEF BindingsInv, BoundOver, Injective
  <2>4. ASSUME NEW r \in DOMAIN disk, disk[r].local = LocalName(Item)
        PROVE  r = Item
    <3>1. Followed(local, remote, run.bindings, r, disk[r])
      BY <1>0, <2>1 DEF DiskInv, AtItem
    <3> QED
      BY <2>2, <2>3, <2>4, <3>1 DEF Followed
  <2>5. ASSUME NEW B \in {disk, run.bindings}, NEW r \in DOMAIN B
        PROVE  local'[B[r].local] = local[B[r].local] \/ Stale(local', remote', B[r], r)
    <3>1. CASE B[r].local = LocalName(Item)
      BY <1>1, <2>2, <2>3, <2>4, <3>1 DEF StaleAt
    <3> QED
      BY <1>0, <1>1, <2>1, <3>1 DEF Table
  <2> QED
    BY <1>2, <2>1, <2>5
<1>9. CASE PullCreate
  <2>1. PICK k \in Ids, c \in Comment :
           remote' = remote /\ local' = [local EXCEPT ![k] = c] /\ local[k] = Fresh
    BY <1>0, <1>9, PullCreateEffect
  <2>2. ASSUME NEW B \in {disk, run.bindings}, NEW r \in DOMAIN B
        PROVE  local'[B[r].local] = local[B[r].local]
    <3>1. B[r].local \in Ids /\ local[B[r].local] # Fresh
      BY <1>1
    <3> QED
      BY <1>0, <2>1, <3>1 DEF Table
  <2> QED
    BY <1>2, <2>1, <2>2
<1>10. CASE PullDelete
  <2>1. PICK k \in Ids : remote' = remote /\ local' \in {local, [local EXCEPT ![k] = Gone]}
    BY <1>0, <1>10, PullDeleteEffect
  <2>2. ASSUME NEW B \in {disk, run.bindings}, NEW r \in DOMAIN B
        PROVE  local'[B[r].local] = local[B[r].local] \/ local'[B[r].local] = Gone
    <3>1. B[r].local \in Ids
      BY <1>1
    <3> QED
      BY <1>0, <2>1, <3>1 DEF Table
  <2> QED
    BY <1>2, <2>1, <2>2 DEF Stale
<1>11. CASE Start \/ Quiet \/ PullReread \/ PullUnbind \/ Save \/ Die \/ UNCHANGED vars
  BY <1>0, <1>3, <1>11, StartEffect, QuietEffect, PullRereadEffect, PullUnbindEffect, IdleEffect,
     StutterEffect
<1> QED
  BY <1>4, <1>5, <1>6, <1>7, <1>8, <1>9, <1>10, <1>11, NextCases

LEMMA AgreeNext ==
  ASSUME SafeInv, AgreeInv, RereadInv, [Next]_vars
  PROVE  AgreeInv'
<1>0. /\ TypeInv /\ SweepType /\ BindingsInv /\ TypeInv'
      /\ local \in Table /\ remote \in Table /\ clock \in Nat
  BY NextGrows DEF SafeInv, TypeInv
<1>1. AgreeOver(local', remote', disk) /\ AgreeOver(local', remote', run.bindings)
  BY AgreeOld
<1>2. ASSUME disk' = disk, run'.bindings = run.bindings PROVE AgreeInv'
  BY <1>1, <1>2 DEF AgreeInv
<1>3. ASSUME disk' = disk, NEW k \in Ids, NEW b \in CommentBinding,
             run'.bindings = Put(run.bindings, k, b), Agrees(local', remote', b, k)
      PROVE  AgreeInv'
  <2>1. /\ DOMAIN run'.bindings = DOMAIN run.bindings \cup {k} /\ run'.bindings[k] = b
        /\ \A x \in DOMAIN run.bindings \ {k} : run'.bindings[x] = run.bindings[x]
    BY <1>0, <1>3, RunPut
  <2> QED
    BY <1>1, <1>3, <2>1 DEF AgreeInv, AgreeOver
<1>4. ASSUME disk' = disk, NEW k, run'.bindings = Drop(run.bindings, k)
      PROVE  AgreeInv'
  <2>1. /\ DOMAIN run'.bindings = DOMAIN run.bindings \ {k}
        /\ \A x \in DOMAIN run.bindings \ {k} : run'.bindings[x] = run.bindings[x]
    BY <1>0, <1>4, RunDrop
  <2> QED
    BY <1>1, <1>4, <2>1 DEF AgreeInv, AgreeOver
<1>5. CASE (LocalUser \/ RemoteUser) \/ UNCHANGED vars
  BY <1>0, <1>2, <1>5, UserEffects, StutterEffect
<1>6. CASE Start
  BY <1>0, <1>1, <1>6, StartEffect DEF AgreeInv
<1>7. CASE Quiet
  BY <1>0, <1>2, <1>7, QuietEffect
<1>8. CASE PushUpdate
  <2>1. PICK k \in RemoteOf(Item) \cap Live(remote) :
           /\ local' = local /\ disk' = disk /\ AtItem("pushItem")
           /\ \E c \in Comment : /\ remote' = [remote EXCEPT ![k] = c]
                                 /\ c.text = run.queue[Item].text
           /\ \/ \E b \in CommentBinding : /\ run'.bindings = Put(run.bindings, k, b)
                                           /\ b.local = Item /\ b.lut = run.queue[Item].ut
              \/ run'.bindings = run.bindings
    BY <1>0, <1>8, PushUpdateEffect
  <2>2. k \in Ids /\ remote'[k].text = run.queue[Item].text
    BY <1>0, <2>1 DEF Live, Table
  <2>3. ASSUME NEW b \in CommentBinding, b.local = Item, b.lut = run.queue[Item].ut
        PROVE  Agrees(local', remote', b, k)
    BY <1>0, <2>1, <2>2, <2>3, ItemWas, LiveComment DEF WasListed, Agrees, Stale, Live, Comment, CommentBinding
  <2> QED
    BY <1>2, <1>3, <2>1, <2>2, <2>3
<1>9. CASE PushCreate
  <2>1. PICK k \in Ids :
           /\ local' = local /\ disk' = disk /\ AtItem("pushItem")
           /\ \E c \in Comment : /\ remote' = [remote EXCEPT ![k] = c]
                                 /\ c.text = run.queue[Item].text
           /\ \/ \E b \in CommentBinding : /\ run'.bindings = Put(run.bindings, k, b)
                                           /\ b.local = Item /\ b.lut = run.queue[Item].ut
              \/ run'.bindings = run.bindings
    BY <1>0, <1>9, PushCreateEffect
  <2>2. remote'[k].text = run.queue[Item].text
    BY <1>0, <2>1 DEF Table
  <2>3. ASSUME NEW b \in CommentBinding, b.local = Item, b.lut = run.queue[Item].ut
        PROVE  Agrees(local', remote', b, k)
    BY <1>0, <2>1, <2>2, <2>3, ItemWas, LiveComment DEF WasListed, Agrees, Stale, Live, Comment, CommentBinding
  <2> QED
    BY <1>2, <1>3, <2>1, <2>2, <2>3
<1>10. CASE PushDelete
  BY <1>0, <1>2, <1>4, <1>10, PushDeleteEffect
<1>11. CASE PullUpdate
  <2>1. PICK b \in CommentBinding :
           /\ remote' = remote /\ disk' = disk /\ AtItem("pullItem") /\ LocalName(Item) \in Live(local)
           /\ \E c \in Comment : /\ local' = [local EXCEPT ![LocalName(Item)] = c]
                                 /\ c.text = run.queue[Item].text
           /\ run'.bindings = Put(run.bindings, Item, b)
           /\ b.local = LocalName(Item) /\ b.rut = run.queue[Item].ut
    BY <1>0, <1>11, PullUpdateEffect
  <2>2. local'[LocalName(Item)].text = run.queue[Item].text
    BY <1>0, <2>1 DEF Live, Table
  <2>3. Agrees(local', remote', b, Item)
    BY <1>0, <2>1, <2>2, ItemWas, LiveComment DEF WasListed, Agrees, Stale, Live, Comment, CommentBinding
  <2> QED
    BY <1>3, <2>1, <2>3, ItemWas
<1>12. CASE PullReread
  <2>1. /\ UNCHANGED <<local, remote, disk>> /\ run.target \in DOMAIN run.bindings
        /\ run.pc = "pullReread"
        /\ \/ /\ LocalName(run.target) \in Live(local)
              /\ \E b \in CommentBinding :
                   /\ run'.bindings = Put(run.bindings, run.target, b)
                   /\ b.local = LocalName(run.target) /\ b.rut = run.bindings[run.target].rut
           \/ run'.bindings \in {run.bindings, Drop(run.bindings, run.target)}
    BY <1>0, <1>12, PullRereadEffect
  <2>2. ASSUME NEW b \in CommentBinding, run'.bindings = Put(run.bindings, run.target, b),
               b.local = LocalName(run.target), b.rut = run.bindings[run.target].rut,
               LocalName(run.target) \in Live(local)
        PROVE  AgreeInv'
    <3>1. run.target \in Ids /\ Sound(local, remote, run.bindings[run.target], run.target)
      BY <1>0, <2>1, RunMaps DEF BindingsInv, BoundOver
    <3>2. ASSUME ~Stale(local, remote, b, run.target)
          PROVE  local[b.local].text = remote[run.target].text
      <4>1. run.target \in Live(remote) /\ remote[run.target] \in Comment
        BY <1>0, <3>1, <3>2, LiveComment DEF Stale, Sound, Live
      <4>2. b.rut = remote[run.target].ut
        BY <2>2, <3>1, <3>2, <4>1 DEF Stale, Sound, Comment, CommentBinding
      <4> QED
        BY <2>1, <2>2, <4>1, <4>2 DEF RereadInv
    <3>3. Agrees(local', remote', b, run.target)
      BY <2>1, <3>2 DEF Agrees
    <3> QED
      BY <1>3, <2>1, <2>2, <3>1, <3>3
  <2> QED
    BY <1>2, <1>4, <2>1, <2>2
<1>13. CASE PullUnbind
  BY <1>0, <1>4, <1>13, PullUnbindEffect
<1>14. CASE PullCreate
  <2>1. PICK l \in Ids, b \in CommentBinding :
           /\ remote' = remote /\ disk' = disk /\ AtItem("pullItem")
           /\ \E c \in Comment : /\ local' = [local EXCEPT ![l] = c]
                                 /\ c.text = run.queue[Item].text
           /\ run'.bindings = Put(run.bindings, Item, b)
           /\ b.local = l /\ b.rut = run.queue[Item].ut
    BY <1>0, <1>14, PullCreateEffect
  <2>2. local'[l].text = run.queue[Item].text
    BY <1>0, <2>1 DEF Table
  <2>3. Agrees(local', remote', b, Item)
    BY <1>0, <2>1, <2>2, ItemWas, LiveComment DEF WasListed, Agrees, Stale, Live, Comment, CommentBinding
  <2> QED
    BY <1>3, <2>1, <2>3, ItemWas
<1>15. CASE PullDelete
  BY <1>0, <1>2, <1>4, <1>15, PullDeleteEffect
<1>16. CASE Save \/ Die
  BY <1>0, <1>1, <1>16, IdleEffect, MapEmpty DEF AgreeInv, AgreeOver
<1> QED
  BY <1>5, <1>6, <1>7, <1>8, <1>9, <1>10, <1>11, <1>12, <1>13, <1>14, <1>15, <1>16, NextCases

(* What the local user does when no edit may come between the two requests. *)
LEMMA NoEditAtReread ==
  ASSUME SafeInv, EditsAtReread = FALSE, run.pc = "pullReread", LocalUser
  PROVE  remote' = remote /\ \A i \in Ids : local[i] # Fresh => local'[i] \in {local[i], Gone}
<1>0. local \in Table
  BY DEF SafeInv, TypeInv
<1>1. CASE LocalCreate
  BY <1>0, <1>1, NextIdFresh DEF LocalCreate, Creates, Table
<1>2. CASE LocalDelete
  BY <1>0, <1>2 DEF LocalDelete, Deletes, Table
<1>3. ~LocalEdit
  BY DEF LocalEdit, MayEdit
<1> QED
  BY <1>1, <1>2, <1>3 DEF LocalUser

LEMMA RereadNext ==
  ASSUME SafeInv, RereadInv, EditsAtReread = FALSE, [Next]_vars
  PROVE  RereadInv'
<1>0. /\ TypeInv /\ SweepType /\ BindingsInv /\ ClockInv
      /\ local \in Table /\ remote \in Table /\ clock \in Nat
  BY DEF SafeInv, TypeInv
<1>1. CASE run'.pc # "pullReread"
  BY <1>1 DEF RereadInv
<1>2. ASSUME run.pc = "pullReread"
      PROVE  /\ run.target \in Ids /\ LocalName(run.target) \in Ids
             /\ local[LocalName(run.target)] # Fresh /\ remote[run.target] # Fresh
             /\ run.bindings[run.target].rut \in Nat
             /\ run.target \in Live(remote) => run.bindings[run.target].rut <= remote[run.target].ut
  BY <1>0, <1>2, BoundName DEF SweepType, BindingsInv, BoundOver, Sound, CommentBinding
<1>3. CASE LocalUser
  <2>1. run' = run
    BY <1>0, <1>3, UserEffects
  <2>2. CASE run.pc = "pullReread"
    <3>1. remote' = remote /\ \A i \in Ids : local[i] # Fresh => local'[i] \in {local[i], Gone}
      BY <1>3, <2>2, NoEditAtReread
    <3> QED
      BY <1>2, <2>1, <2>2, <3>1 DEF RereadInv, LocalName, Live
  <2> QED
    BY <1>1, <2>1, <2>2
<1>4. CASE RemoteUser
  <2>1. run' = run /\ local' = local
    BY <1>0, <1>4, UserEffects DEF RemoteUser, RemoteCreate, RemoteEdit, RemoteDelete
  <2>2. CASE run.pc = "pullReread"
    <3>1. UserStep(remote, remote', clock + 1) /\ remote' \in Table
      <4>1. TypeInv' /\ (UserStep(remote, remote', Now) \/ remote' = remote)
        BY <1>0, <1>4, UserEffects
      <4>2. UserStep(remote, remote, Now)
        BY DEF UserStep
      <4> QED
        BY <4>1, <4>2 DEF TypeInv, Now
    <3>2. \/ remote'[run.target] = remote[run.target] \/ remote'[run.target] = Gone
          \/ run.bindings[run.target].rut < remote'[run.target].ut
      BY <1>0, <1>2, <2>2, <3>1, UserStales DEF ClockInv
    <3>3. run.bindings[run.target].rut < remote'[run.target].ut =>
            run.bindings[run.target].rut # remote'[run.target].ut
      BY <1>2, <2>2
    <3> QED
      BY <1>2, <2>1, <2>2, <3>2, <3>3 DEF RereadInv, LocalName, Live
  <2> QED
    BY <1>1, <2>1, <2>2
<1>5. CASE PullUpdate
  <2>1. PICK b \in CommentBinding :
           /\ remote' = remote /\ AtItem("pullItem") /\ Item \in DOMAIN run.bindings
           /\ LocalName(Item) \in Live(local) /\ run'.pc = "pullReread" /\ run'.target = Item
           /\ \E c \in Comment : /\ local' = [local EXCEPT ![LocalName(Item)] = c]
                                 /\ c.text = run.queue[Item].text
           /\ run'.bindings = Put(run.bindings, Item, b)
           /\ b.local = LocalName(Item) /\ b.rut = run.queue[Item].ut
    BY <1>0, <1>5, PullUpdateEffect
  <2>2. local'[LocalName(Item)].text = run.queue[Item].text
    BY <1>0, <2>1 DEF Live, Table
  <2>3. Item \in Ids /\ WasListed(remote, run.queue[Item], Item, run.memo, clock)
    BY <2>1, ItemWas
  <2>4. run'.bindings[Item] = b
    BY <1>0, <2>1, <2>3, RunPut
  <2> QED
    BY <2>1, <2>2, <2>3, <2>4 DEF RereadInv, LocalName, WasListed
<1>6. CASE UNCHANGED vars
  BY <1>0, <1>6, StutterEffect DEF RereadInv, LocalName
<1>7. CASE PushList \/ PushItemsDone \/ PushProbe \/ PushDelete \/ PullDelete \/ PullItemsDone \/ PullList
  BY <1>0, <1>1, <1>7, PushListEffect, PushItemsDoneEffect, PushProbeEffect, PushDeleteEffect,
     PullDeleteEffect, PullItemsDoneEffect, PullListEffect
<1>8. CASE PushMemoDone \/ PushDone \/ PullMemoDone
  BY <1>0, <1>1, <1>8, MemoDoneEffect
<1>9. CASE Start \/ PullReread \/ Save \/ Die
  BY <1>0, <1>1, <1>9, StartEffect, PullRereadEffect, IdleEffect
<1>10. CASE PushSkip \/ PullSkip
  BY <1>0, <1>1, <1>10, SkipItemEffect DEF PushSkip, PullSkip
<1>11. CASE SkipMemo("pushList") \/ SkipMemo("pullList")
  BY <1>0, <1>1, <1>11, SkipMemoEffect
<1>12. CASE PushUpdate \/ PushCreate \/ PullUnbind \/ PullCreate
  BY <1>0, <1>1, <1>12, PushUpdateEffect, PushCreateEffect, PullUnbindEffect, PullCreateEffect DEF AtItem
<1> QED
  BY <1>3, <1>4, <1>5, <1>6, <1>7, <1>8, <1>9, <1>10, <1>11, <1>12, NextCases DEF Quiet

(* While both update times are those of the binding the two sides are      *)
(* equal, so that a comment that is passed over needs no synchronisation.  *)
(* It holds if no user edits a comment between the two requests that write *)
(* it and read its time again (EditsAtReread); an edit there counts as one *)
(* the remote has, although it does not.                                   *)
THEOREM SyncedAgree == ASSUME EditsAtReread = FALSE PROVE Spec => []SyncedCommentsAgree
<1>1. Init => AgreeInv /\ RereadInv
  BY MapEmpty DEF Init, Idle, AgreeInv, AgreeOver, RereadInv
<1>2. SafeInv /\ (AgreeInv /\ RereadInv) /\ [Next]_vars => (AgreeInv /\ RereadInv)'
  BY AgreeNext, RereadNext
<1>3. SafeInv /\ AgreeInv => SyncedCommentsAgree
  <2> SUFFICES ASSUME SafeInv, AgreeInv, NEW B \in {disk, run.bindings}, NEW r \in DOMAIN B,
                      r \in Live(remote), B[r].local \in Live(local),
                      B[r].rut = remote[r].ut, B[r].lut = local[B[r].local].ut
               PROVE  local[B[r].local].text = remote[r].text
    BY DEF SyncedCommentsAgree
  <2>1. Agrees(local, remote, B[r], r) /\ B[r] \in CommentBinding
    BY RunMaps DEF AgreeInv, AgreeOver, SafeInv
  <2> QED
    BY <2>1 DEF Agrees, Stale, Live, CommentBinding
<1> QED
  BY <1>1, <1>2, <1>3, CommentInvariant, PTL DEF Spec

--------------------------------------------------------------------------------
(***************************************************************************)
(* Nothing is there twice.                                                 *)
(***************************************************************************)
Calm == faults.kinds \cap {"die", "lost"} = {}

(* The bindings that count: those of the run, or without one those stored. *)
Bindings == IF run.pc = "idle" THEN disk ELSE run.bindings
Once(T) == \A i, j \in Live(T) : T[i].org = T[j].org => i = j

(* Two comments of one origin are bound to each other.                     *)
OnceOver(L, R, B) ==
    /\ Once(L) /\ Once(R)
    /\ \A l \in Live(L), r \in Live(R) :
         L[l].org = R[r].org => r \in DOMAIN B /\ B[r].local = l

(* The comments of the queue q, listed of the table T, are there once; and *)
(* of those to create there is none at the other side yet.                 *)
QueueOnce(T, U, q, new, now) ==
    /\ \A i, j \in DOMAIN q : q[i].org = q[j].org => i = j
    /\ \A i \in DOMAIN q : \A j \in Live(T) : q[i].org = T[j].org => i = j
    /\ \A i \in new : \A j \in Live(U) : q[i].org # U[j].org
    /\ \A i \in DOMAIN q : q[i].org <= now

Unpushed == {l \in DOMAIN run.queue : RemoteOf(l) = {}}
Unpulled == DOMAIN run.queue \ DOMAIN run.bindings
OnceInv ==
    Calm =>
      /\ OnceOver(local, remote, Bindings)
      /\ run.pc = "pushItem" => QueueOnce(local, remote, run.queue, Unpushed, clock)
      /\ run.pc \in {"pullItem", "pullReread"} => QueueOnce(remote, local, run.queue, Unpulled, clock)

LEMMA CalmBefore ==
  ASSUME TypeInv, [Next]_vars, Calm'
  PROVE  Calm
<1>1. UNCHANGED faults \/ \E k : Fault(k)
  <2>1. CASE LocalUser \/ RemoteUser \/ UNCHANGED vars
    BY <2>1, UserEffects, StutterEffect
  <2>2. CASE Start \/ PushList \/ PushItemsDone \/ PushMemoDone \/ PushDone
             \/ PullList \/ PullUpdate \/ PullUnbind \/ PullCreate \/ PullItemsDone \/ PullMemoDone \/ Save
    BY <2>2 DEF Start, PushList, PushItemsDone, PushMemoDone, PushDone, PullList, PullUpdate,
       PullUnbind, PullCreate, PullItemsDone, PullMemoDone, Save
  <2>3. CASE PushSkip \/ PullSkip \/ SkipMemo("pushList") \/ SkipMemo("pullList") \/ Die
    BY <2>3 DEF PushSkip, PullSkip, SkipItem, SkipMemo, Die, NoFault
  <2>4. CASE PushUpdate \/ PushCreate
    BY <2>4 DEF PushUpdate, PushCreate, NoFault
  <2>5. CASE PushProbe \/ PushDelete \/ PullReread \/ PullDelete
    BY <2>5 DEF PushProbe, PushDelete, PullReread, PullDelete, NoFault
  <2> QED
    BY <2>1, <2>2, <2>3, <2>4, <2>5, NextCases DEF Quiet
<1>2. faults.kinds \subseteq faults'.kinds
  BY <1>1, FaultType DEF TypeInv
<1> QED
  BY <1>2 DEF Calm

(* The users change one comment at a time. *)
LEMMA OneAtATime ==
  ASSUME TypeInv, LocalUser \/ RemoteUser
  PROVE  \E i : \A j \in Ids \ {i} : local'[j] = local[j] /\ remote'[j] = remote[j]
<1>0. local \in Table /\ remote \in Table
  BY DEF TypeInv
<1>1. ASSUME NEW T \in Table, NEW U, Creates(T, U) \/ Edits(T, U) \/ Deletes(T, U)
      PROVE  \E i : \A j \in Ids \ {i} : U[j] = T[j]
  <2>1. CASE Creates(T, U)
    BY <2>1 DEF Creates, Table
  <2>2. CASE Edits(T, U)
    <3>1. PICK i \in Live(T), x \in Texts : U = [T EXCEPT ![i].text = x, ![i].ut = Now]
      BY <2>2 DEF Edits
    <3> QED
      BY <3>1 DEF Table
  <2>3. CASE Deletes(T, U)
    BY <2>3 DEF Deletes, Table
  <2> QED
    BY <1>1, <2>1, <2>2, <2>3
<1>2. \/ local' = local /\ (Creates(remote, remote') \/ Edits(remote, remote') \/ Deletes(remote, remote'))
      \/ remote' = remote /\ (Creates(local, local') \/ Edits(local, local') \/ Deletes(local, local'))
  BY DEF LocalUser, RemoteUser, LocalCreate, LocalEdit, LocalDelete, RemoteCreate, RemoteEdit, RemoteDelete
<1> QED
  BY <1>0, <1>1, <1>2

(* What they make of the origins: a comment keeps its own, and a new one's *)
(* is that of no other comment.                                            *)
LEMMA UserOrigins ==
  ASSUME NEW T \in Table, NEW U \in Table, NEW now \in Nat, UserStep(T, U, now + 1), Past(T, now),
         NEW k, \A j \in Ids \ {k} : U[j] = T[j]
  PROVE  \A i \in Live(U) :
           \/ i \in Live(T) /\ U[i].org = T[i].org /\ U[i].org <= now
           \/ i = k /\ U[i].org = now + 1
<1> SUFFICES ASSUME NEW i \in Live(U)
             PROVE  \/ i \in Live(T) /\ U[i].org = T[i].org /\ U[i].org <= now
                    \/ i = k /\ U[i].org = now + 1
  OBVIOUS
<1>1. i \in Ids /\ U[i] \in Comment /\ U[i] # Gone /\ U[i] # Fresh
  BY LiveComment DEF Live
<1>2. i \in Live(T) => T[i].org <= now
  BY DEF Past
<1>3. CASE U[i] = T[i]
  BY <1>1, <1>2, <1>3 DEF Live
<1>4. CASE T[i] = Fresh /\ U[i].org = now + 1
  BY <1>1, <1>4
<1>5. CASE i \in Live(T) /\ U[i].org = T[i].org
  BY <1>2, <1>5
<1> QED
  BY <1>1, <1>3, <1>4, <1>5 DEF UserStep

LEMMA OriginsKept ==
  ASSUME NEW L \in Table, NEW L2 \in Table, NEW R \in Table, NEW R2 \in Table, NEW now \in Nat,
         \/ L2 = L /\ UserStep(R, R2, now + 1)
         \/ R2 = R /\ UserStep(L, L2, now + 1),
         Past(L, now), Past(R, now), \E k : \A j \in Ids \ {k} : L2[j] = L[j] /\ R2[j] = R[j]
  PROVE  \A B : OnceOver(L, R, B) => OnceOver(L2, R2, B)
<1>1. PICK k : \A j \in Ids \ {k} : L2[j] = L[j] /\ R2[j] = R[j]
  OBVIOUS
<1>2. \A i \in Live(L) : L[i].org \in Nat /\ L[i].org <= now
  BY LiveComment DEF Past, Comment
<1>3. \A i \in Live(R) : R[i].org \in Nat /\ R[i].org <= now
  BY LiveComment DEF Past, Comment
<1>4. CASE L2 = L /\ UserStep(R, R2, now + 1)
  <2>1. \A i \in Live(R2) :
          \/ i \in Live(R) /\ R2[i].org = R[i].org /\ R2[i].org <= now
          \/ i = k /\ R2[i].org = now + 1
    BY <1>1, <1>4, UserOrigins
  <2>2. \A i \in Live(R2) : R2[i].org \in Nat
    BY LiveComment DEF Comment
  <2>3. ASSUME NEW B, OnceOver(L, R, B) PROVE OnceOver(L2, R2, B)
    BY <1>2, <1>3, <1>4, <2>1, <2>2, <2>3 DEF OnceOver, Once
  <2> QED
    BY <2>3
<1>5. CASE R2 = R /\ UserStep(L, L2, now + 1)
  <2>1. \A i \in Live(L2) :
          \/ i \in Live(L) /\ L2[i].org = L[i].org /\ L2[i].org <= now
          \/ i = k /\ L2[i].org = now + 1
    BY <1>1, <1>5, UserOrigins
  <2>2. \A i \in Live(L2) : L2[i].org \in Nat
    BY LiveComment DEF Comment
  <2>3. ASSUME NEW B, OnceOver(L, R, B) PROVE OnceOver(L2, R2, B)
    BY <1>2, <1>3, <1>5, <2>1, <2>2, <2>3 DEF OnceOver, Once
  <2> QED
    BY <2>3
<1> QED
  BY <1>4, <1>5

(* The same for a queue that is read from one side and written to the other. *)
LEMMA QueueKept ==
  ASSUME NEW L \in Table, NEW L2 \in Table, NEW R \in Table, NEW R2 \in Table, NEW now \in Nat,
         \/ L2 = L /\ UserStep(R, R2, now + 1)
         \/ R2 = R /\ UserStep(L, L2, now + 1),
         Past(L, now), Past(R, now), \E k : \A j \in Ids \ {k} : L2[j] = L[j] /\ R2[j] = R[j],
         NEW q, NEW new, \A i \in new : i \in DOMAIN q, \A i \in DOMAIN q : q[i].org \in Nat,
         QueueOnce(L, R, q, new, now)
  PROVE  QueueOnce(L2, R2, q, new, now)
<1>1. PICK k : \A j \in Ids \ {k} : L2[j] = L[j] /\ R2[j] = R[j]
  OBVIOUS
<1>2. CASE L2 = L /\ UserStep(R, R2, now + 1)
  <2>1. \A i \in Live(R2) :
          \/ i \in Live(R) /\ R2[i].org = R[i].org /\ R2[i].org <= now
          \/ i = k /\ R2[i].org = now + 1
    BY <1>1, <1>2, UserOrigins
  <2>2. \A i \in Live(R2) : R2[i].org \in Nat
    BY LiveComment DEF Comment
  <2> QED
    BY <1>2, <2>1, <2>2 DEF QueueOnce
<1>3. CASE R2 = R /\ UserStep(L, L2, now + 1)
  <2>1. \A i \in Live(L2) :
          \/ i \in Live(L) /\ L2[i].org = L[i].org /\ L2[i].org <= now
          \/ i = k /\ L2[i].org = now + 1
    BY <1>1, <1>3, UserOrigins
  <2>2. \A i \in Live(L2) : L2[i].org \in Nat
    BY LiveComment DEF Comment
  <2> QED
    BY <1>3, <2>1, <2>2 DEF QueueOnce
<1> QED
  BY <1>2, <1>3

(* A step that creates nothing takes no origin to another comment.         *)
Origins(T, U) == \A i \in Live(U) : i \in Live(T) /\ U[i].org = T[i].org

LEMMA OriginsWrite ==
  ASSUME NEW T \in Table, NEW i \in Ids, NEW c,
         c = Gone \/ (i \in Live(T) /\ c.org = T[i].org)
  PROVE  Origins(T, T) /\ Origins(T, [T EXCEPT ![i] = c])
BY DEF Origins, Live, Table

LEMMA OnceShrinks ==
  ASSUME NEW L, NEW L2, NEW R, NEW R2, Origins(L, L2), Origins(R, R2), NEW B, NEW B2,
         \A r \in Live(R2) : r \in DOMAIN B /\ B[r].local \in Live(L2) =>
                               r \in DOMAIN B2 /\ B2[r].local = B[r].local,
         OnceOver(L, R, B)
  PROVE  OnceOver(L2, R2, B2)
BY DEF OnceOver, Once, Origins

LEMMA QueueShrinks ==
  ASSUME NEW T, NEW T2, NEW U, NEW U2, Origins(T, T2), Origins(U, U2),
         NEW q, NEW q2, \A i \in DOMAIN q2 : i \in DOMAIN q /\ q2[i] = q[i],
         NEW new, NEW new2, \A i \in new2 : i \in new /\ i \in DOMAIN q2, NEW now, QueueOnce(T, U, q, new, now)
  PROVE  QueueOnce(T2, U2, q2, new2, now)
<1>1. \A i, j \in DOMAIN q2 : q2[i].org = q2[j].org => i = j
  BY DEF QueueOnce
<1>2. \A i \in DOMAIN q2 : \A j \in Live(T2) : q2[i].org = T2[j].org => i = j
  BY DEF QueueOnce, Origins
<1>3. \A i \in new2 : \A j \in Live(U2) : q2[i].org # U2[j].org
  BY DEF QueueOnce, Origins
<1>4. \A i \in DOMAIN q2 : q2[i].org <= now
  BY DEF QueueOnce
<1> QED
  BY <1>1, <1>2, <1>3, <1>4 DEF QueueOnce

(* The comment of a queue that is created has no other one of its origin.  *)
LEMMA OnceCreated ==
  ASSUME NEW T \in Table, NEW U \in Table, NEW i \in Ids, NEW k \in Ids, U[k] = Fresh,
         NEW q, NEW new, NEW now, QueueOnce(T, U, q, new, now), i \in DOMAIN q, i \in new,
         NEW c \in Comment, c.org = q[i].org
  PROVE  /\ \A x \in Live([U EXCEPT ![k] = c]) :
              \/ x \in Live(U) /\ x # k /\ [U EXCEPT ![k] = c][x] = U[x] /\ U[x].org # q[i].org
              \/ x = k /\ [U EXCEPT ![k] = c][x].org = q[i].org
         /\ \A x \in Live(T) : T[x].org = q[i].org => x = i
         /\ \A x \in DOMAIN q : q[x].org = q[i].org => x = i
BY DEF QueueOnce, Live, Table

(* ... so that what is left of the queue has not either.                   *)
LEMMA QueueCreated ==
  ASSUME NEW T \in Table, NEW U \in Table, NEW i \in Ids, NEW k \in Ids, U[k] = Fresh,
         NEW q, NEW new, NEW now, QueueOnce(T, U, q, new, now), i \in DOMAIN q, i \in new,
         NEW c \in Comment, c.org = q[i].org,
         NEW q2, \A x \in DOMAIN q2 : x \in DOMAIN q /\ x # i /\ q2[x] = q[x],
         NEW new2, \A x \in new2 : x \in new /\ x \in DOMAIN q2
  PROVE  QueueOnce(T, [U EXCEPT ![k] = c], q2, new2, now)
<1>1. /\ \A x \in Live([U EXCEPT ![k] = c]) :
           \/ x \in Live(U) /\ [U EXCEPT ![k] = c][x] = U[x]
           \/ [U EXCEPT ![k] = c][x].org = q[i].org
      /\ \A x \in DOMAIN q : q[x].org = q[i].org => x = i
  BY OnceCreated
<1>2. \A x \in new2 : \A j \in Live([U EXCEPT ![k] = c]) : q2[x].org # [U EXCEPT ![k] = c][j].org
  BY <1>1 DEF QueueOnce
<1>3. \A x \in DOMAIN q2 : \A j \in Live(T) : q2[x].org = T[j].org => x = j
  BY DEF QueueOnce
<1>4. /\ \A x, y \in DOMAIN q2 : q2[x].org = q2[y].org => x = y
      /\ \A x \in DOMAIN q2 : q2[x].org <= now
  BY DEF QueueOnce
<1> QED
  BY <1>2, <1>3, <1>4 DEF QueueOnce

LEMMA OnceOverNext ==
  ASSUME SafeInv, OnceInv, [Next]_vars, Calm'
  PROVE  OnceOver(local', remote', Bindings')
<1>0. /\ TypeInv /\ SweepType /\ BindingsInv /\ TargetInv /\ ClockInv /\ TypeInv'
      /\ local \in Table /\ remote \in Table /\ local' \in Table /\ remote' \in Table /\ clock \in Nat
  BY NextGrows DEF SafeInv, TypeInv
<1>1. Calm /\ OnceOver(local, remote, Bindings)
  BY <1>0, CalmBefore DEF OnceInv
<1>2. Origins(local, local) /\ Origins(remote, remote)
  BY DEF Origins
<1>3. ASSUME run.pc # "idle" PROVE Bindings = run.bindings /\ OnceOver(local, remote, run.bindings)
  BY <1>1, <1>3 DEF Bindings
<1>4. ASSUME run'.pc # "idle" PROVE Bindings' = run'.bindings
  BY <1>4 DEF Bindings
<1>5. ASSUME run.pc # "idle", run'.pc # "idle", Origins(local, local'), Origins(remote, remote'),
             \A r \in Live(remote') :
               r \in DOMAIN run.bindings /\ run.bindings[r].local \in Live(local') =>
                 r \in DOMAIN run'.bindings /\ run'.bindings[r].local = run.bindings[r].local
      PROVE  OnceOver(local', remote', Bindings')
  BY <1>3, <1>4, <1>5, OnceShrinks
<1>6. CASE LocalUser \/ RemoteUser
  <2>1. UNCHANGED <<disk, run>> /\ \E k : \A j \in Ids \ {k} : local'[j] = local[j] /\ remote'[j] = remote[j]
    BY <1>0, <1>6, UserEffects, OneAtATime
  <2>2. \/ local' = local /\ UserStep(remote, remote', clock + 1)
        \/ remote' = remote /\ UserStep(local, local', clock + 1)
    BY <1>0, <1>6, UserEffects DEF Now
  <2>3. OnceOver(local', remote', Bindings)
    BY <1>0, <1>1, <2>1, <2>2, OriginsKept DEF ClockInv
  <2> QED
    BY <2>1, <2>3 DEF Bindings
<1>7. CASE UNCHANGED vars
  BY <1>0, <1>1, <1>7, StutterEffect DEF Bindings
<1>8. CASE Start
  BY <1>0, <1>1, <1>8, StartEffect DEF Bindings
<1>9. CASE Quiet
  BY <1>0, <1>3, <1>4, <1>9, QuietEffect
<1>10. CASE PushUpdate
  <2>1. PICK r \in RemoteOf(Item) \cap Live(remote) :
           /\ local' = local /\ AtItem("pushItem") /\ run'.pc = run.pc
           /\ \E c \in Comment : remote' = [remote EXCEPT ![r] = c] /\ c.org = remote[r].org
           /\ \/ \E b \in CommentBinding : run'.bindings = Put(run.bindings, r, b) /\ b.local = Item
              \/ run'.bindings = run.bindings
    BY <1>0, <1>10, PushUpdateEffect
  <2>2. /\ r \in Ids /\ r \in Live(remote) /\ r \in DOMAIN run.bindings /\ run.bindings[r].local = Item
        /\ run.pc = "pushItem"
    BY <2>1 DEF Live, RemoteOf, AtItem
  <2>3. Origins(remote, remote')
    <3>1. PICK c \in Comment : remote' = [remote EXCEPT ![r] = c] /\ c.org = remote[r].org
      BY <2>1
    <3>2. Origins(remote, [remote EXCEPT ![r] = c])
      BY <1>0, <2>2, <3>1, OriginsWrite
    <3> QED
      BY <3>1, <3>2
  <2>4. \A x \in DOMAIN run.bindings :
          x \in DOMAIN run'.bindings /\ run'.bindings[x].local = run.bindings[x].local
    <3>1. ASSUME NEW b \in CommentBinding, run'.bindings = Put(run.bindings, r, b), b.local = Item
          PROVE  \A x \in DOMAIN run.bindings :
                   x \in DOMAIN run'.bindings /\ run'.bindings[x].local = run.bindings[x].local
      <4>1. /\ DOMAIN run'.bindings = DOMAIN run.bindings \cup {r} /\ run'.bindings[r] = b
            /\ \A x \in DOMAIN run.bindings \ {r} : run'.bindings[x] = run.bindings[x]
        BY <1>0, <2>2, <3>1, RunPut
      <4> QED
        BY <2>2, <3>1, <4>1
    <3> QED
      BY <2>1, <3>1
  <2> QED
    BY <1>2, <1>5, <2>1, <2>2, <2>3, <2>4
<1>11. CASE PushCreate
  <2>1. PICK r \in Ids, c \in Comment :
           /\ local' = local /\ AtItem("pushItem") /\ run'.pc = run.pc
           /\ remote[r] = Fresh /\ RemoteOf(Item) = {}
           /\ remote' = [remote EXCEPT ![r] = c] /\ c.org = run.queue[Item].org
           /\ \/ \E b \in CommentBinding : run'.bindings = Put(run.bindings, r, b) /\ b.local = Item
              \/ "lost" \in faults'.kinds
    BY <1>0, <1>11, PushCreateEffect
  <2>2. PICK b \in CommentBinding : run'.bindings = Put(run.bindings, r, b) /\ b.local = Item
    BY <2>1 DEF Calm
  <2>3. /\ DOMAIN run'.bindings = DOMAIN run.bindings \cup {r} /\ run'.bindings[r] = b
        /\ \A x \in DOMAIN run.bindings \ {r} : run'.bindings[x] = run.bindings[x]
    BY <1>0, <2>2, RunPut
  <2>4. /\ Item \in Ids /\ Item \in DOMAIN run.queue /\ Item \in Unpushed /\ run.pc = "pushItem"
        /\ QueueOnce(local, remote, run.queue, Unpushed, clock)
    BY <1>1, <2>1, ItemWas DEF Unpushed, OnceInv, AtItem
  <2>5. /\ \A x \in Live(remote') :
             \/ x \in Live(remote) /\ x # r /\ remote'[x] = remote[x] /\ remote[x].org # run.queue[Item].org
             \/ x = r /\ remote'[x].org = run.queue[Item].org
        /\ \A x \in Live(local) : local[x].org = run.queue[Item].org => x = Item
    <3>1. ASSUME NEW q, NEW new, QueueOnce(local, remote, q, new, clock),
                 Item \in DOMAIN q, Item \in new, c.org = q[Item].org
          PROVE  /\ \A x \in Live([remote EXCEPT ![r] = c]) :
                      \/ /\ x \in Live(remote) /\ x # r /\ [remote EXCEPT ![r] = c][x] = remote[x]
                         /\ remote[x].org # q[Item].org
                      \/ x = r /\ [remote EXCEPT ![r] = c][x].org = q[Item].org
                 /\ \A x \in Live(local) : local[x].org = q[Item].org => x = Item
      BY <1>0, <2>1, <2>4, <3>1 DEF QueueOnce, Live, Table
    <3> QED
      BY <2>1, <2>4, <3>1
  <2>6. OnceOver(local, remote, run.bindings)
    BY <1>3, <2>4
  <2>7. OnceOver(local, remote', run'.bindings)
    BY <2>2, <2>3, <2>5, <2>6 DEF OnceOver, Once
  <2> QED
    BY <1>4, <2>1, <2>4, <2>7
<1>12. CASE PushDelete
  <2>1. /\ local' = local /\ run.pc = "pushDelete" /\ run'.pc = "pushSweep"
        /\ run.target \in DOMAIN run.bindings /\ run.target \in Ids
        /\ remote' \in {remote, [remote EXCEPT ![run.target] = Gone]}
        /\ run'.bindings \in {run.bindings, Drop(run.bindings, run.target)}
    BY <1>0, <1>12, PushDeleteEffect
  <2>2. Origins(remote, remote')
    BY <1>0, <1>2, <2>1, OriginsWrite
  <2>3. run.bindings[run.target].local \notin Live(local)
    BY <1>0, <2>1 DEF TargetInv, LocalName, Live
  <2>4. \A r \in DOMAIN run.bindings \ {run.target} :
          r \in DOMAIN run'.bindings /\ run'.bindings[r] = run.bindings[r]
    BY <1>0, <2>1, RunDrop
  <2> QED
    BY <1>2, <1>5, <2>1, <2>2, <2>3, <2>4
<1>13. CASE PullUpdate
  <2>1. PICK b \in CommentBinding :
           /\ remote' = remote /\ AtItem("pullItem") /\ run'.pc = "pullReread"
           /\ Item \in DOMAIN run.bindings /\ LocalName(Item) \in Live(local)
           /\ \E c \in Comment : /\ local' = [local EXCEPT ![LocalName(Item)] = c]
                                 /\ c.org = local[LocalName(Item)].org
           /\ run'.bindings = Put(run.bindings, Item, b) /\ b.local = LocalName(Item)
    BY <1>0, <1>13, PullUpdateEffect
  <2>2. LocalName(Item) \in Ids /\ Item \in Ids /\ run.pc = "pullItem"
    BY <2>1, ItemWas DEF Live, AtItem
  <2>3. Origins(local, local')
    <3>1. PICK c \in Comment : /\ local' = [local EXCEPT ![LocalName(Item)] = c]
                               /\ c.org = local[LocalName(Item)].org
      BY <2>1
    <3>2. ASSUME NEW l \in Live(local), l \in Ids, c.org = local[l].org
          PROVE  Origins(local, [local EXCEPT ![l] = c])
      BY <1>0, <3>2, OriginsWrite
    <3> QED
      BY <2>1, <2>2, <3>1, <3>2
  <2>4. /\ DOMAIN run'.bindings = DOMAIN run.bindings \cup {Item} /\ run'.bindings[Item] = b
        /\ \A x \in DOMAIN run.bindings \ {Item} : run'.bindings[x] = run.bindings[x]
    BY <1>0, <2>1, <2>2, RunPut
  <2> QED
    BY <1>2, <1>5, <2>1, <2>2, <2>3, <2>4 DEF LocalName
<1>14. CASE PullReread
  <2>1. /\ UNCHANGED <<local, remote>> /\ run.pc = "pullReread" /\ run'.pc = "pullItem"
        /\ run.target \in DOMAIN run.bindings
        /\ \/ \E b \in CommentBinding :
                run'.bindings = Put(run.bindings, run.target, b) /\ b.local = LocalName(run.target)
           \/ local[LocalName(run.target)] = Gone /\ run'.bindings = Drop(run.bindings, run.target)
           \/ run'.bindings = run.bindings
    BY <1>0, <1>14, PullRereadEffect
  <2>2. run.target \in Ids
    BY <1>0, <2>1, BoundName
  <2>3. \A r \in DOMAIN run.bindings : run.bindings[r].local \in Live(local) =>
          r \in DOMAIN run'.bindings /\ run'.bindings[r].local = run.bindings[r].local
    <3>1. ASSUME NEW b \in CommentBinding, run'.bindings = Put(run.bindings, run.target, b),
                 b.local = LocalName(run.target)
          PROVE  \A r \in DOMAIN run.bindings :
                   r \in DOMAIN run'.bindings /\ run'.bindings[r].local = run.bindings[r].local
      <4>1. /\ DOMAIN run'.bindings = DOMAIN run.bindings \cup {run.target} /\ run'.bindings[run.target] = b
            /\ \A x \in DOMAIN run.bindings \ {run.target} : run'.bindings[x] = run.bindings[x]
        BY <1>0, <2>2, <3>1, RunPut
      <4> QED
        BY <3>1, <4>1 DEF LocalName
    <3>2. CASE local[LocalName(run.target)] = Gone /\ run'.bindings = Drop(run.bindings, run.target)
      <4>1. /\ DOMAIN run'.bindings = DOMAIN run.bindings \ {run.target}
            /\ \A x \in DOMAIN run.bindings \ {run.target} : run'.bindings[x] = run.bindings[x]
        BY <1>0, <3>2, RunDrop
      <4> QED
        BY <3>2, <4>1 DEF LocalName, Live
    <3> QED
      BY <2>1, <3>1, <3>2
  <2> QED
    BY <1>2, <1>5, <2>1, <2>3
<1>15. CASE PullUnbind
  <2>1. /\ UNCHANGED <<local, remote>> /\ run.pc = "pullItem" /\ run'.pc = run.pc
        /\ local[LocalName(Item)] = Gone /\ run'.bindings = Drop(run.bindings, Item)
    BY <1>0, <1>15, PullUnbindEffect DEF AtItem
  <2>2. /\ DOMAIN run'.bindings = DOMAIN run.bindings \ {Item}
        /\ \A x \in DOMAIN run.bindings \ {Item} : run'.bindings[x] = run.bindings[x]
    BY <1>0, <2>1, RunDrop
  <2> QED
    BY <1>2, <1>5, <2>1, <2>2 DEF LocalName, Live
<1>16. CASE PullCreate
  <2>1. PICK l \in Ids, c \in Comment, b \in CommentBinding :
           /\ remote' = remote /\ AtItem("pullItem") /\ run'.pc = run.pc
           /\ local[l] = Fresh /\ Item \notin DOMAIN run.bindings
           /\ local' = [local EXCEPT ![l] = c] /\ c.org = run.queue[Item].org
           /\ run'.bindings = Put(run.bindings, Item, b) /\ b.local = l
    BY <1>0, <1>16, PullCreateEffect
  <2>2. /\ Item \in Ids /\ Item \in DOMAIN run.queue /\ Item \in Unpulled /\ run.pc = "pullItem"
        /\ QueueOnce(remote, local, run.queue, Unpulled, clock)
    BY <1>1, <2>1, ItemWas DEF Unpulled, OnceInv, AtItem
  <2>3. /\ DOMAIN run'.bindings = DOMAIN run.bindings \cup {Item} /\ run'.bindings[Item] = b
        /\ \A x \in DOMAIN run.bindings \ {Item} : run'.bindings[x] = run.bindings[x]
    BY <1>0, <2>1, <2>2, RunPut
  <2>5. /\ \A x \in Live(local') :
             \/ x \in Live(local) /\ x # l /\ local'[x] = local[x] /\ local[x].org # run.queue[Item].org
             \/ x = l /\ local'[x].org = run.queue[Item].org
        /\ \A x \in Live(remote) : remote[x].org = run.queue[Item].org => x = Item
    <3>1. ASSUME NEW q, NEW new, QueueOnce(remote, local, q, new, clock),
                 Item \in DOMAIN q, Item \in new, c.org = q[Item].org
          PROVE  /\ \A x \in Live([local EXCEPT ![l] = c]) :
                      \/ /\ x \in Live(local) /\ x # l /\ [local EXCEPT ![l] = c][x] = local[x]
                         /\ local[x].org # q[Item].org
                      \/ x = l /\ [local EXCEPT ![l] = c][x].org = q[Item].org
                 /\ \A x \in Live(remote) : remote[x].org = q[Item].org => x = Item
      BY <1>0, <2>1, <2>2, <3>1 DEF QueueOnce, Live, Table
    <3> QED
      BY <2>1, <2>2, <3>1
  <2>6. OnceOver(local, remote, run.bindings)
    BY <1>3, <2>2
  <2>7. \A r \in Live(remote) : r \in DOMAIN run.bindings => r # Item
    BY <2>1
  <2>8. Once(local') /\ Once(remote)
    BY <2>5, <2>6 DEF OnceOver, Once
  <2>9. \A x \in Live(local'), r \in Live(remote) :
          local'[x].org = remote[r].org => r \in DOMAIN run'.bindings /\ run'.bindings[r].local = x
    <3> SUFFICES ASSUME NEW x \in Live(local'), NEW r \in Live(remote), local'[x].org = remote[r].org
                 PROVE  r \in DOMAIN run'.bindings /\ run'.bindings[r].local = x
      OBVIOUS
    <3>1. CASE x = l
      BY <2>1, <2>3, <2>5, <3>1
    <3>2. CASE x \in Live(local) /\ local'[x] = local[x]
      <4>1. r \in DOMAIN run.bindings /\ run.bindings[r].local = x
        BY <2>6, <3>2 DEF OnceOver
      <4> QED
        BY <2>3, <2>7, <4>1
    <3> QED
      BY <2>5, <3>1, <3>2
  <2> QED
    <3>1. OnceOver(local', remote, run'.bindings)
      BY <2>8, <2>9 DEF OnceOver
    <3>2. Bindings' = run'.bindings
      BY <1>4, <2>1, <2>2
    <3> QED
      BY <2>1, <3>1, <3>2
<1>17. CASE PullDelete
  <2>1. PICK r \in run.sweep :
           /\ remote' = remote /\ run.pc = "pullSweep" /\ run'.pc = "pullSweep"
           /\ r \in DOMAIN run.bindings /\ LocalName(r) \in Ids
           /\ \/ /\ local' = [local EXCEPT ![LocalName(r)] = Gone]
                 /\ run'.bindings = Drop(run.bindings, r)
              \/ local' = local /\ run'.bindings = run.bindings
    BY <1>0, <1>17, PullDeleteEffect
  <2>2. Origins(local, local')
    BY <1>0, <1>2, <2>1, OriginsWrite
  <2>3. CASE local' = [local EXCEPT ![LocalName(r)] = Gone] /\ run'.bindings = Drop(run.bindings, r)
    <3>1. /\ DOMAIN run'.bindings = DOMAIN run.bindings \ {r}
          /\ \A x \in DOMAIN run.bindings \ {r} : run'.bindings[x] = run.bindings[x]
      BY <1>0, <2>3, RunDrop
    <3>2. run.bindings[r].local \notin Live(local')
      BY <1>0, <2>1, <2>3 DEF LocalName, Live, Table
    <3> QED
      BY <1>2, <1>5, <2>1, <2>2, <3>1, <3>2
  <2> QED
    BY <1>2, <1>5, <2>1, <2>2, <2>3
<1>18. CASE Save \/ Die
  <2>1. /\ UNCHANGED <<local, remote>> /\ run.pc # "idle" /\ run'.pc = "idle"
        /\ disk' = run.bindings \/ "die" \in faults'.kinds
    BY <1>0, <1>18, IdleEffect
  <2> QED
    BY <1>3, <2>1 DEF Bindings, Calm
<1> QED
  BY <1>6, <1>7, <1>8, <1>9, <1>10, <1>11, <1>12, <1>13, <1>14, <1>15, <1>16, <1>17, <1>18, NextCases

(* A queue of which a step of the users leaves what it was. *)
LEMMA UserKeepsOnce ==
  ASSUME SafeInv, LocalUser \/ RemoteUser, NEW new, \A i \in new : i \in DOMAIN run.queue
  PROVE  /\ QueueOnce(local, remote, run.queue, new, clock)
              => QueueOnce(local', remote', run.queue, new, clock')
         /\ QueueOnce(remote, local, run.queue, new, clock)
              => QueueOnce(remote', local', run.queue, new, clock')
<1>1. /\ TypeInv /\ TypeInv' /\ local \in Table /\ remote \in Table /\ local' \in Table /\ remote' \in Table
      /\ clock \in Nat /\ clock' \in Nat /\ clock <= clock' /\ Past(local, clock) /\ Past(remote, clock)
  BY UserEffects DEF SafeInv, TypeInv, Now, ClockInv
<1>2. \/ local' = local /\ UserStep(remote, remote', clock + 1)
      \/ remote' = remote /\ UserStep(local, local', clock + 1)
  BY <1>1, UserEffects DEF Now
<1>3. \E k : \A j \in Ids \ {k} : local'[j] = local[j] /\ remote'[j] = remote[j]
  BY <1>1, OneAtATime
<1>4. \A i \in DOMAIN run.queue : run.queue[i].org \in Nat
  BY <1>1, RunFields DEF TypeInv, Comment
<1>5. ASSUME NEW q, NEW n, \A i \in n : i \in DOMAIN q, \A i \in DOMAIN q : q[i].org \in Nat
      PROVE  /\ QueueOnce(local, remote, q, n, clock) => QueueOnce(local', remote', q, n, clock)
             /\ QueueOnce(remote, local, q, n, clock) => QueueOnce(remote', local', q, n, clock)
  <2>1. ASSUME QueueOnce(local, remote, q, n, clock) PROVE QueueOnce(local', remote', q, n, clock)
    BY <1>1, <1>2, <1>3, <1>5, <2>1, QueueKept
  <2>2. ASSUME QueueOnce(remote, local, q, n, clock) PROVE QueueOnce(remote', local', q, n, clock)
    <3>1. \E k : \A j \in Ids \ {k} : remote'[j] = remote[j] /\ local'[j] = local[j]
      BY <1>3
    <3> QED
      BY <1>1, <1>2, <1>5, <2>2, <3>1, QueueKept
  <2> QED
    BY <2>1, <2>2
<1>6. ASSUME NEW T, NEW U, QueueOnce(T, U, run.queue, new, clock)
      PROVE  QueueOnce(T, U, run.queue, new, clock')
  BY <1>1, <1>4, <1>6 DEF QueueOnce
<1> QED
  BY <1>4, <1>5, <1>6

LEMMA PushOnceNext ==
  ASSUME SafeInv, OnceInv, [Next]_vars, Calm', run'.pc = "pushItem"
  PROVE  QueueOnce(local', remote', run'.queue, Unpushed', clock')
<1>0. /\ TypeInv /\ SweepType /\ BindingsInv /\ ClockInv
      /\ local \in Table /\ remote \in Table /\ clock \in Nat
  BY DEF SafeInv, TypeInv
<1>1. /\ Calm
      /\ run.pc # "idle" => OnceOver(local, remote, run.bindings)
      /\ run.pc = "pushItem" => QueueOnce(local, remote, run.queue, Unpushed, clock)
  BY <1>0, CalmBefore DEF OnceInv, Bindings
<1>2. \A i \in Unpushed : i \in DOMAIN run.queue /\ RemoteOf(i) = {}
  BY DEF Unpushed
<1>3. Origins(local, local) /\ Origins(remote, remote)
  BY DEF Origins
<1>4. CASE LocalUser \/ RemoteUser
  <2>1. run' = run
    BY <1>0, <1>4, UserEffects
  <2> QED
    BY <1>1, <1>2, <1>4, <2>1, UserKeepsOnce DEF Unpushed, RemoteOf
<1>5. CASE UNCHANGED vars
  BY <1>0, <1>1, <1>5, StutterEffect DEF Unpushed, RemoteOf
<1>6. CASE PushList
  <2>1. /\ UNCHANGED <<local, remote, clock, run.bindings>> /\ run.pc = "pushList"
        /\ DOMAIN run'.queue \subseteq CommentsOf(local, run'.memo)
        /\ \A l \in DOMAIN run'.queue : run'.queue[l] = local[l]
    BY <1>0, <1>6, PushListEffect
  <2>2. \A l \in DOMAIN run'.queue : l \in Live(local) /\ run'.queue[l] = local[l]
    BY <2>1 DEF CommentsOf
  <2>3. OnceOver(local, remote, run.bindings)
    BY <1>1, <2>1
  <2>4. \A l \in Unpushed' : /\ l \in DOMAIN run'.queue
                             /\ \A r \in DOMAIN run.bindings : run.bindings[r].local # l
    BY <2>1 DEF Unpushed, RemoteOf
  <2>5. \A l \in Unpushed' : \A r \in Live(remote) : run'.queue[l].org # remote[r].org
    BY <2>2, <2>3, <2>4 DEF OnceOver
  <2> QED
    BY <1>0, <2>1, <2>2, <2>3, <2>5 DEF QueueOnce, OnceOver, Once, ClockInv, Past
<1>7. ASSUME AtItem("pushItem"), run'.queue = Rest
      PROVE  /\ DOMAIN run'.queue = DOMAIN run.queue \ {Item}
             /\ \A i \in DOMAIN run'.queue : i \in DOMAIN run.queue /\ i # Item /\ run'.queue[i] = run.queue[i]
             /\ QueueOnce(local, remote, run.queue, Unpushed, clock)
  BY <1>0, <1>1, <1>7, RestListed DEF AtItem
<1>8. ASSUME \A x \in DOMAIN run.bindings :
               x \in DOMAIN run'.bindings /\ run'.bindings[x].local = run.bindings[x].local,
             \A i \in DOMAIN run'.queue : i \in DOMAIN run.queue
      PROVE  \A i \in Unpushed' : i \in Unpushed /\ i \in DOMAIN run'.queue
  BY <1>8 DEF Unpushed, RemoteOf
<1>9. ASSUME NEW U, Origins(remote, U), NEW q, NEW new, QueueOnce(local, remote, run.queue, Unpushed, clock),
             \A i \in DOMAIN q : i \in DOMAIN run.queue /\ q[i] = run.queue[i],
             \A i \in new : i \in Unpushed /\ i \in DOMAIN q
      PROVE  QueueOnce(local, U, q, new, clock)
  BY <1>3, <1>9, QueueShrinks
<1>10. CASE PushSkip
  <2>1. UNCHANGED <<local, remote, clock, run.bindings>> /\ AtItem("pushItem") /\ run'.queue = Rest
    BY <1>0, <1>10, SkipItemEffect DEF PushSkip, AtItem
  <2>2. \A i \in Unpushed' : i \in Unpushed /\ i \in DOMAIN run'.queue
    BY <1>7, <1>8, <2>1
  <2> QED
    BY <1>3, <1>7, <1>9, <2>1, <2>2
<1>11. CASE PushUpdate
  <2>1. PICK r \in RemoteOf(Item) \cap Live(remote), c \in Comment :
           /\ UNCHANGED <<local, clock>> /\ AtItem("pushItem") /\ run'.queue = Rest
           /\ remote' = [remote EXCEPT ![r] = c] /\ c.org = remote[r].org
           /\ \/ \E b \in CommentBinding : run'.bindings = Put(run.bindings, r, b) /\ b.local = Item
              \/ run'.bindings = run.bindings
    BY <1>0, <1>11, PushUpdateEffect
  <2>2. r \in Ids /\ r \in Live(remote) /\ r \in DOMAIN run.bindings /\ run.bindings[r].local = Item
    BY <2>1 DEF Live, RemoteOf
  <2>3. Origins(remote, remote')
    BY <1>0, <2>1, <2>2, OriginsWrite
  <2>4. ASSUME NEW b \in CommentBinding, run'.bindings = Put(run.bindings, r, b), b.local = Item
        PROVE  \A x \in DOMAIN run.bindings :
                 x \in DOMAIN run'.bindings /\ run'.bindings[x].local = run.bindings[x].local
    <3>1. /\ DOMAIN run'.bindings = DOMAIN run.bindings \cup {r} /\ run'.bindings[r] = b
          /\ \A x \in DOMAIN run.bindings \ {r} : run'.bindings[x] = run.bindings[x]
      BY <1>0, <2>2, <2>4, RunPut
    <3> QED
      BY <2>2, <2>4, <3>1
  <2>5. \A i \in Unpushed' : i \in Unpushed /\ i \in DOMAIN run'.queue
    BY <1>7, <1>8, <2>1, <2>4
  <2> QED
    BY <1>7, <1>9, <2>1, <2>3, <2>5
<1>12. CASE PushCreate
  <2>1. PICK r \in Ids, c \in Comment :
           /\ UNCHANGED <<local, clock>> /\ AtItem("pushItem") /\ run'.queue = Rest
           /\ remote[r] = Fresh /\ RemoteOf(Item) = {}
           /\ remote' = [remote EXCEPT ![r] = c] /\ c.org = run.queue[Item].org
           /\ \/ \E b \in CommentBinding : run'.bindings = Put(run.bindings, r, b)
              \/ "lost" \in faults'.kinds
    BY <1>0, <1>12, PushCreateEffect
  <2>2. PICK b \in CommentBinding : run'.bindings = Put(run.bindings, r, b)
    BY <2>1 DEF Calm
  <2>3. r \notin DOMAIN run.bindings
    BY <1>0, <2>1, BoundName
  <2>4. \A x \in DOMAIN run.bindings :
          x \in DOMAIN run'.bindings /\ run'.bindings[x].local = run.bindings[x].local
    BY <1>0, <2>2, <2>3, RunPut
  <2>5. \A i \in Unpushed' : i \in Unpushed /\ i \in DOMAIN run'.queue
    BY <1>7, <1>8, <2>1, <2>4
  <2>6. Item \in Ids /\ Item \in DOMAIN run.queue /\ Item \in Unpushed
    BY <2>1, ItemWas DEF Unpushed
  <2>7. ASSUME NEW q, NEW new, NEW q2, NEW new2, NEW i \in Ids, i = Item,
               QueueOnce(local, remote, q, new, clock), i \in DOMAIN q, i \in new, c.org = q[i].org,
               \A x \in DOMAIN q2 : x \in DOMAIN q /\ x # i /\ q2[x] = q[x],
               \A x \in new2 : x \in new /\ x \in DOMAIN q2
        PROVE  QueueOnce(local, [remote EXCEPT ![r] = c], q2, new2, clock)
    BY <1>0, <2>1, <2>7, QueueCreated
  <2> QED
    BY <1>7, <2>1, <2>5, <2>6, <2>7
<1> QED
  BY <1>4, <1>5, <1>6, <1>10, <1>11, <1>12, PushElsewhere

LEMMA PullOnceNext ==
  ASSUME SafeInv, OnceInv, [Next]_vars, Calm', run'.pc \in {"pullItem", "pullReread"}
  PROVE  QueueOnce(remote', local', run'.queue, Unpulled', clock')
<1>0. /\ TypeInv /\ SweepType /\ BindingsInv /\ ClockInv
      /\ local \in Table /\ remote \in Table /\ clock \in Nat
  BY DEF SafeInv, TypeInv
<1>1. /\ Calm
      /\ run.pc # "idle" => OnceOver(local, remote, run.bindings)
      /\ run.pc \in {"pullItem", "pullReread"} => QueueOnce(remote, local, run.queue, Unpulled, clock)
  BY <1>0, CalmBefore DEF OnceInv, Bindings
<1>2. \A i \in Unpulled : i \in DOMAIN run.queue
  BY DEF Unpulled
<1>3. Origins(local, local) /\ Origins(remote, remote)
  BY DEF Origins
<1>4. CASE LocalUser \/ RemoteUser
  <2>1. run' = run
    BY <1>0, <1>4, UserEffects
  <2> QED
    BY <1>1, <1>2, <1>4, <2>1, UserKeepsOnce DEF Unpulled
<1>5. CASE UNCHANGED vars
  BY <1>0, <1>1, <1>5, StutterEffect DEF Unpulled
<1>6. CASE PullList
  <2>1. /\ UNCHANGED <<local, remote, clock, run.bindings>> /\ run.pc = "pullList"
        /\ DOMAIN run'.queue \subseteq CommentsOf(remote, run'.memo)
        /\ \A r \in DOMAIN run'.queue : run'.queue[r] = remote[r]
    BY <1>0, <1>6, PullListEffect
  <2>2. \A r \in DOMAIN run'.queue : r \in Live(remote) /\ run'.queue[r] = remote[r]
    BY <2>1 DEF CommentsOf
  <2>3. OnceOver(local, remote, run.bindings)
    BY <1>1, <2>1
  <2>4. \A r \in Unpulled' : r \in DOMAIN run'.queue /\ r \notin DOMAIN run.bindings
    BY <2>1 DEF Unpulled
  <2>5. \A r \in Unpulled' : \A l \in Live(local) : run'.queue[r].org # local[l].org
    BY <2>2, <2>3, <2>4 DEF OnceOver
  <2> QED
    BY <1>0, <2>1, <2>2, <2>3, <2>5 DEF QueueOnce, OnceOver, Once, ClockInv, Past
<1>7. ASSUME NEW U, Origins(local, U), NEW q, NEW new, QueueOnce(remote, local, run.queue, Unpulled, clock),
             \A i \in DOMAIN q : i \in DOMAIN run.queue /\ q[i] = run.queue[i],
             \A i \in new : i \in Unpulled /\ i \in DOMAIN q
      PROVE  QueueOnce(remote, U, q, new, clock)
  BY <1>3, <1>7, QueueShrinks
<1>8. CASE PullSkip \/ PullUpdate \/ PullReread \/ PullUnbind
  <2>1. PICK k : PullOn(k)
    BY <1>8, PullOnEffect
  <2>2. \A i \in Unpulled' : i \in Unpulled /\ i \in DOMAIN run'.queue
    BY <2>1 DEF PullOn, Unpulled
  <2>3. Origins(local, local')
    <3>1. CASE PullSkip \/ PullReread \/ PullUnbind
      BY <1>0, <1>3, <3>1, SkipItemEffect, PullRereadEffect, PullUnbindEffect DEF PullSkip
    <3>2. CASE PullUpdate
      <4>1. PICK l \in Live(local), c \in Comment :
              local' = [local EXCEPT ![l] = c] /\ c.org = local[l].org
        BY <1>0, <3>2, PullUpdateEffect
      <4> QED
        BY <1>0, <4>1, OriginsWrite DEF Live
    <3> QED
      BY <1>8, <3>1, <3>2
  <2>4. /\ remote' = remote /\ clock' = clock /\ run.pc \in {"pullItem", "pullReread"}
        /\ \A i \in DOMAIN run'.queue : i \in DOMAIN run.queue /\ run'.queue[i] = run.queue[i]
    BY <2>1 DEF PullOn
  <2> QED
    BY <1>1, <1>7, <2>2, <2>3, <2>4
<1>9. CASE PullCreate
  <2>1. PICK l \in Ids, c \in Comment, b \in CommentBinding :
           /\ UNCHANGED <<remote, clock>> /\ AtItem("pullItem") /\ run'.queue = Rest
           /\ local[l] = Fresh /\ Item \notin DOMAIN run.bindings
           /\ local' = [local EXCEPT ![l] = c] /\ c.org = run.queue[Item].org
           /\ run'.bindings = Put(run.bindings, Item, b)
    BY <1>0, <1>9, PullCreateEffect
  <2>2. /\ DOMAIN run'.queue = DOMAIN run.queue \ {Item} /\ run.pc = "pullItem"
        /\ \A i \in DOMAIN run'.queue : i \in DOMAIN run.queue /\ i # Item /\ run'.queue[i] = run.queue[i]
    BY <1>0, <2>1, RestListed DEF AtItem
  <2>3. Item \in Ids /\ Item \in DOMAIN run.queue /\ Item \in Unpulled
    BY <2>1, ItemWas DEF Unpulled
  <2>4. DOMAIN run'.bindings = DOMAIN run.bindings \cup {Item}
    BY <1>0, <2>1, <2>3, RunPut
  <2>5. \A i \in Unpulled' : i \in Unpulled /\ i \in DOMAIN run'.queue
    BY <2>2, <2>4 DEF Unpulled
  <2>6. ASSUME NEW q, NEW new, NEW q2, NEW new2, NEW i \in Ids, i = Item,
               QueueOnce(remote, local, q, new, clock), i \in DOMAIN q, i \in new, c.org = q[i].org,
               \A x \in DOMAIN q2 : x \in DOMAIN q /\ x # i /\ q2[x] = q[x],
               \A x \in new2 : x \in new /\ x \in DOMAIN q2
        PROVE  QueueOnce(remote, [local EXCEPT ![l] = c], q2, new2, clock)
    BY ZenonT(60), <1>0, <2>1, <2>6, QueueCreated
  <2> QED
    BY <1>1, <2>1, <2>2, <2>3, <2>5, <2>6
<1> QED
  BY <1>4, <1>5, <1>6, <1>8, <1>9, PullElsewhere

(* As long as no run has died and no answer been lost, no comment is there *)
(* twice on one side: one that is created at the other side is bound in    *)
(* the same step, and the next run knows it by that.  A run that dies with *)
(* what it has bound, or a request whose answer is lost, is what makes the *)
(* duplicates.                                                             *)
THEOREM CommentsOnce == Spec => []NoDuplicates
<1>1. Init => OnceInv
  BY MapEmpty DEF Init, Idle, OnceInv, OnceOver, Once, Live
<1>2. SafeInv /\ OnceInv /\ [Next]_vars => OnceInv'
  <2> SUFFICES ASSUME SafeInv, OnceInv, [Next]_vars, Calm'
               PROVE  /\ OnceOver(local', remote', Bindings')
                      /\ run'.pc = "pushItem" =>
                           QueueOnce(local', remote', run'.queue, Unpushed', clock')
                      /\ run'.pc \in {"pullItem", "pullReread"} =>
                           QueueOnce(remote', local', run'.queue, Unpulled', clock')
    BY DEF OnceInv
  <2> QED
    BY OnceOverNext, PushOnceNext, PullOnceNext
<1>3. OnceInv => NoDuplicates
  BY DEF OnceInv, OnceOver, Once, Calm, NoDuplicates
<1> QED
  BY <1>1, <1>2, <1>3, CommentInvariant, PTL DEF Spec
--------------------------------------------------------------------------------
(* Attachments. First what Keep does to lists of any length.               *)
KeptTo(list, F, kept, i) ==
    IF i = 0 THEN <<>>
    ELSE IF list[i] \in F THEN Append(kept[i - 1], list[i]) ELSE kept[i - 1]

Keeps(list, F, n, kept) == kept = [i \in 0..n |-> KeptTo(list, F, kept, i)]

(* The function exists for every list: it is extended place by place.      *)
LEMMA KeptExists ==
  ASSUME NEW S, NEW list \in Seq(S), NEW F
  PROVE  \A n \in 0..Len(list) : \E kept \in [0..n -> Seq(S)] : Keeps(list, F, n, kept)
<1> DEFINE Good(n) == \E kept \in [0..n -> Seq(S)] : Keeps(list, F, n, kept)
           Bad == {n \in 0..Len(list) : ~Good(n)}
<1>1. Good(0)
  <2>1. Keeps(list, F, 0, [i \in 0..0 |-> <<>>])
    BY DEF Keeps, KeptTo
  <2>2. [i \in 0..0 |-> <<>>] \in [0..0 -> Seq(S)]
    OBVIOUS
  <2> QED
    BY <2>1, <2>2
<1>2. ASSUME NEW n \in 1..Len(list), Good(n - 1)
      PROVE  Good(n)
  <2>1. PICK kept \in [0..(n - 1) -> Seq(S)] : Keeps(list, F, n - 1, kept)
    BY <1>2
  <2> DEFINE more == [i \in 0..n |-> IF i = n THEN KeptTo(list, F, kept, n) ELSE kept[i]]
  <2>2. list[n] \in S
    OBVIOUS
  <2>3. KeptTo(list, F, kept, n) \in Seq(S)
    BY <2>1, <2>2 DEF KeptTo
  <2>4. more \in [0..n -> Seq(S)]
    BY <2>1, <2>3
  <2>5. \A i \in 0..n : more[i] = KeptTo(list, F, more, i)
    <3> SUFFICES ASSUME NEW i \in 0..n PROVE more[i] = KeptTo(list, F, more, i)
      OBVIOUS
    <3>1. CASE i = 0
      BY <3>1, <2>1 DEF KeptTo, Keeps
    <3>2. CASE i > 0
      <4>1. more[i - 1] = kept[i - 1]
        BY <3>2
      <4>2. KeptTo(list, F, more, i) = KeptTo(list, F, kept, i)
        BY <3>2, <4>1 DEF KeptTo
      <4>3. i < n => kept[i] = KeptTo(list, F, kept, i)
        <5>1. i < n => i \in 0..(n - 1)
          OBVIOUS
        <5> QED
          BY ONLY <5>1, <2>1 DEF Keeps
      <4> QED
        BY <4>2, <4>3
    <3> QED
      BY <3>1, <3>2
  <2>6. Keeps(list, F, n, more)
    <3> HIDE DEF more
    <3> QED
      BY <2>4, <2>5 DEF Keeps
  <2> QED
    BY <2>4, <2>6
<1>3. SUFFICES ASSUME Bad # {} PROVE FALSE
  OBVIOUS
<1>0. Len(list) \in Nat
  OBVIOUS
<1>4. PICK n \in Bad : \A m \in Bad : n <= m
  <2> HIDE DEF Good
  <2>1. Bad \in SUBSET Nat
    BY <1>0
  <2> HIDE DEF Bad
  <2> QED
    BY <2>1, <1>3, LeastExists
<1>5. Len(list) \in Nat /\ n \in 0..Len(list)
  OBVIOUS
<1> HIDE DEF Good
<1>6. n # 0
  BY <1>1
<1>7. Good(n - 1)
  BY <1>4, <1>5, <1>6
<1> QED
  BY <1>2, <1>5, <1>6, <1>7

(* So that A!Keep is its last value, and nothing else.                       *)
LEMMA KeepIs ==
  ASSUME NEW S, NEW list \in Seq(S), NEW F
  PROVE  \E kept \in [0..Len(list) -> Seq(S)] :
            Keeps(list, F, Len(list), kept) /\ A!Keep(list, F) = kept[Len(list)]
<1> DEFINE fun == CHOOSE kept : Keeps(list, F, Len(list), kept)
<1>1. A!Keep(list, F) = fun[Len(list)]
  BY DEF A!Keep, Keeps, KeptTo
<1>2. PICK kept \in [0..Len(list) -> Seq(S)] : Keeps(list, F, Len(list), kept)
  <2>1. Len(list) \in 0..Len(list)
    OBVIOUS
  <2> QED
    BY <2>1, KeptExists
<1>3. Keeps(list, F, Len(list), fun)
  BY <1>2
<1>4. \A n \in Nat : \A f, g : Keeps(list, F, n, f) /\ Keeps(list, F, n, g) => f = g
  <2> SUFFICES ASSUME NEW n \in Nat, NEW f, NEW g, Keeps(list, F, n, f), Keeps(list, F, n, g), f # g
               PROVE  FALSE
    OBVIOUS
  <2>1. f = [i \in 0..n |-> f[i]] /\ g = [i \in 0..n |-> g[i]]
    BY DEF Keeps
  <2> DEFINE Bad == {i \in 0..n : f[i] # g[i]}
  <2>2. Bad # {} /\ Bad \in SUBSET Nat
    BY <2>1
  <2>3. PICK i \in Bad : \A j \in Bad : i <= j
    <3> HIDE DEF Bad
    <3> QED
      BY <2>2, LeastExists
  <2>4. f[i] = KeptTo(list, F, f, i) /\ g[i] = KeptTo(list, F, g, i) /\ i \in 0..n
    BY DEF Keeps
  <2>5. i # 0
    BY <2>4, <2>3 DEF KeptTo
  <2>6. f[i - 1] = g[i - 1]
    BY <2>3, <2>4, <2>5
  <2> QED
    BY <2>3, <2>4, <2>5, <2>6 DEF KeptTo
<1>5. fun = kept
  <2> HIDE DEF fun
  <2> QED
    BY <1>2, <1>3, <1>4
<1> QED
  BY <1>1, <1>2, <1>5

(* A set of sequences that has the empty one, and with each those that are  *)
(* longer by a member, has all of them.                                     *)
LEMMA SeqInduction ==
  ASSUME NEW S, NEW G \in SUBSET Seq(S), <<>> \in G,
         \A s \in G, x \in S : Append(s, x) \in G
  PROVE  G = Seq(S)
<1> SUFFICES ASSUME NEW s \in Seq(S), s \notin G PROVE FALSE
  OBVIOUS
<1> DEFINE Lengths == {Len(t) : t \in Seq(S) \ G}
<1>1. Lengths # {} /\ Lengths \in SUBSET Nat
  <2>1. \A t \in Seq(S) : Len(t) \in Nat
    OBVIOUS
  <2>2. Len(s) \in Lengths
    OBVIOUS
  <2> QED
    BY <2>1, <2>2
<1>2. PICK n \in Lengths : \A m \in Lengths : n <= m
  <2> HIDE DEF Lengths
  <2> QED
    BY <1>1, LeastExists
<1>3. PICK t \in Seq(S) \ G : Len(t) = n
  OBVIOUS
<1>4. PICK u \in Seq(S), x \in S : t = Append(u, x)
  BY <1>3, SequenceEmptyOrAppend
<1>5. Len(u) \in Nat /\ Len(u) < n /\ n \in Nat
  <2>1. Len(u) \in Nat /\ Len(Append(u, x)) = Len(u) + 1
    BY AppendProperties
  <2> QED
    BY <1>3, <1>4, <2>1
<1>6. u \in G
  <2>1. u \notin G => Len(u) \in Lengths
    OBVIOUS
  <2> QED
    BY ONLY <2>1, <1>2, <1>5
<1> QED
  BY <1>3, <1>4, <1>6

(* What is kept of a sequence, by its last member.                         *)
LEMMA KeepEmpty == \A F : A!Keep(<<>>, F) = <<>>
<1> TAKE F
<1>1. PICK e : e = <<>>
  OBVIOUS
<1>2. e \in Seq({}) /\ Len(e) = 0
  BY <1>1
<1>3. PICK kept \in [0..Len(e) -> Seq({})] : A!Keep(e, F) = kept[Len(e)]
  BY <1>2, KeepIs
<1>4. kept[0] \in Seq({})
  BY <1>2, <1>3
<1>5. kept[0] = <<>>
  BY <1>4
<1> QED
  BY <1>1, <1>2, <1>3, <1>5

LEMMA KeepTyped ==
  ASSUME NEW S, NEW list \in Seq(S), NEW F
  PROVE  A!Keep(list, F) \in Seq(S)
BY KeepIs

LEMMA KeepAppend ==
  ASSUME NEW S, NEW list \in Seq(S), NEW x \in S, NEW F
  PROVE  A!Keep(Append(list, x), F) = IF x \in F THEN Append(A!Keep(list, F), x) ELSE A!Keep(list, F)
<1> DEFINE more == Append(list, x)
           n == Len(list)
<1>1. /\ more \in Seq(S) /\ Len(more) = n + 1 /\ n \in Nat
      /\ \A i \in 1..n : more[i] = list[i]
      /\ more[n + 1] = x
  OBVIOUS
<1> HIDE DEF more
<1>2. PICK a \in [0..n -> Seq(S)] : Keeps(list, F, n, a) /\ A!Keep(list, F) = a[n]
  BY KeepIs
<1> HIDE DEF n
<1>3. PICK b \in [0..(n + 1) -> Seq(S)] : Keeps(more, F, n + 1, b) /\ A!Keep(more, F) = b[n + 1]
  <2>1. \E b \in [0..Len(more) -> Seq(S)] : Keeps(more, F, Len(more), b) /\ A!Keep(more, F) = b[Len(more)]
    BY <1>1, KeepIs
  <2> QED
    BY <2>1, <1>1
<1>4. /\ \A i \in 0..n : a[i] = KeptTo(list, F, a, i)
      /\ \A i \in 0..(n + 1) : b[i] = KeptTo(more, F, b, i)
  BY <1>2, <1>3 DEF Keeps
<1>5. \A i \in 0..n : a[i] = b[i]
  <2> DEFINE Bad == {i \in 0..n : a[i] # b[i]}
  <2> SUFFICES ASSUME Bad # {} PROVE FALSE
    OBVIOUS
  <2>1. Bad \in SUBSET Nat
    OBVIOUS
  <2>2. PICK i \in Bad : \A j \in Bad : i <= j
    <3> HIDE DEF Bad
    <3> QED
      BY <2>1, LeastExists
  <2>3. i \in 0..n /\ i \in 0..(n + 1) /\ a[i] # b[i]
    BY <1>1
  <2>4. i # 0
    BY <1>4, <2>3 DEF KeptTo
  <2>5. a[i - 1] = b[i - 1] /\ more[i] = list[i]
    BY <1>1, <2>2, <2>3, <2>4
  <2> QED
    BY <1>4, <2>3, <2>4, <2>5 DEF KeptTo
<1>6. b[n + 1] = IF x \in F THEN Append(b[n], x) ELSE b[n]
  <2>1. n + 1 \in 0..(n + 1) /\ n + 1 # 0 /\ (n + 1) - 1 = n
    BY <1>1
  <2>2. b[n + 1] = KeptTo(more, F, b, n + 1)
    BY <1>4, <2>1
  <2> QED
    BY <1>1, <2>1, <2>2 DEF KeptTo
<1>7. a[n] = b[n]
  BY <1>1, <1>5
<1> QED
  BY <1>2, <1>3, <1>6, <1>7 DEF more, n

(* Keeping the members of one set, then of another.                        *)
LEMMA KeepTwice ==
  ASSUME NEW S, NEW list \in Seq(S), NEW F, NEW H
  PROVE  A!Keep(A!Keep(list, F), H) = A!Keep(list, F \cap H)
<1> DEFINE G == {s \in Seq(S) : A!Keep(A!Keep(s, F), H) = A!Keep(s, F \cap H)}
<1>1. <<>> \in G
  BY KeepEmpty
<1>2. ASSUME NEW s \in G, NEW x \in S
      PROVE  Append(s, x) \in G
  <2>1. s \in Seq(S) /\ A!Keep(s, F) \in Seq(S) /\ Append(s, x) \in Seq(S)
    BY KeepTyped
  <2>2. A!Keep(Append(s, x), F) = IF x \in F THEN Append(A!Keep(s, F), x) ELSE A!Keep(s, F)
    BY <2>1, KeepAppend
  <2>3. A!Keep(Append(s, x), F \cap H) =
          IF x \in F \cap H THEN Append(A!Keep(s, F \cap H), x) ELSE A!Keep(s, F \cap H)
    BY <2>1, KeepAppend
  <2>4. A!Keep(Append(A!Keep(s, F), x), H) =
          IF x \in H THEN Append(A!Keep(A!Keep(s, F), H), x) ELSE A!Keep(A!Keep(s, F), H)
    <3>1. PICK u \in Seq(S) : u = A!Keep(s, F)
      BY <2>1
    <3>2. A!Keep(Append(u, x), H) = IF x \in H THEN Append(A!Keep(u, H), x) ELSE A!Keep(u, H)
      BY KeepAppend
    <3> QED
      BY <3>1, <3>2
  <2>5. A!Keep(A!Keep(s, F), H) = A!Keep(s, F \cap H)
    OBVIOUS
  <2>6. A!Keep(A!Keep(Append(s, x), F), H) = A!Keep(Append(s, x), F \cap H)
    <3>1. CASE x \in F
      <4>1. A!Keep(Append(s, x), F) = Append(A!Keep(s, F), x)
        BY <3>1, <2>2
      <4>2. x \in F \cap H <=> x \in H
        BY <3>1
      <4> QED
        BY <4>1, <4>2, <2>3, <2>4, <2>5
    <3>2. CASE x \notin F
      BY <3>2, <2>2, <2>3, <2>5
    <3> QED
      BY <3>1, <3>2
  <2> QED
    BY <2>1, <2>6
<1>3. G \in SUBSET Seq(S)
  OBVIOUS
<1>4. G = Seq(S)
  <2> HIDE DEF G
  <2> QED
    BY <1>1, <1>2, <1>3, SeqInduction
<1> QED
  BY <1>4

(* Only the members of the list matter.                                    *)
LEMMA KeepSame ==
  ASSUME NEW S, NEW list \in Seq(S), NEW F, NEW H,
         \A i \in DOMAIN list : list[i] \in F <=> list[i] \in H
  PROVE  A!Keep(list, F) = A!Keep(list, H)
<1> DEFINE G == {s \in Seq(S) : (\A i \in DOMAIN s : s[i] \in F <=> s[i] \in H)
                                   => A!Keep(s, F) = A!Keep(s, H)}
<1>1. <<>> \in G
  BY KeepEmpty
<1>2. ASSUME NEW s \in G, NEW x \in S
      PROVE  Append(s, x) \in G
  <2>1. s \in Seq(S) /\ Append(s, x) \in Seq(S)
    OBVIOUS
  <2> SUFFICES ASSUME \A i \in DOMAIN Append(s, x) : Append(s, x)[i] \in F <=> Append(s, x)[i] \in H
               PROVE  A!Keep(Append(s, x), F) = A!Keep(Append(s, x), H)
    BY <2>1
  <2>2. (\A i \in DOMAIN s : s[i] \in F <=> s[i] \in H) /\ (x \in F <=> x \in H)
    <3>1. /\ DOMAIN s = 1..Len(s) /\ DOMAIN Append(s, x) = 1..(Len(s) + 1) /\ Len(s) \in Nat
          /\ Append(s, x)[Len(s) + 1] = x /\ \A i \in 1..Len(s) : Append(s, x)[i] = s[i]
      BY <2>1
    <3>2. Len(s) + 1 \in DOMAIN Append(s, x) /\ \A i \in DOMAIN s : i \in DOMAIN Append(s, x)
      BY <3>1
    <3> QED
      BY <3>1, <3>2
  <2>3. A!Keep(s, F) = A!Keep(s, H)
    BY <2>2
  <2>4. /\ A!Keep(Append(s, x), F) = IF x \in F THEN Append(A!Keep(s, F), x) ELSE A!Keep(s, F)
        /\ A!Keep(Append(s, x), H) = IF x \in H THEN Append(A!Keep(s, H), x) ELSE A!Keep(s, H)
    BY <2>1, KeepAppend
  <2> QED
    BY <2>2, <2>3, <2>4
<1>3. G \in SUBSET Seq(S)
  OBVIOUS
<1>4. G = Seq(S)
  <2> HIDE DEF G
  <2> QED
    BY <1>1, <1>2, <1>3, SeqInduction
<1> QED
  BY <1>4

(* While a transfer is under way the memo it has read has changed since the *)
(* two sides were recorded as equal; it is as read unless it has changed   *)
(* again.                                                                  *)
Jobs == [from : A!Sides \cup {"none"}, list : Seq(Files), version : Nat,
         step : Seq(A!Steps), tries : Seq(Nat)]

RefsTyped ==
    /\ refs \in [A!Sides -> Seq(Files)] /\ edits \in Nat
    /\ version \in [A!Sides -> Nat] /\ equal \in [A!Sides -> Nat]
    /\ \A s \in A!Sides : version[s] <= edits /\ equal[s] <= edits
    /\ job \in Jobs /\ job.version <= edits /\ DOMAIN job.step = DOMAIN job.list

JobInv ==
    A!Working =>
        /\ A!Changed(job.from)
        /\ version[job.from] = job.version => refs[job.from] = job.list

RefsInv == RefsTyped /\ JobInv /\ A!SyncedRefsAgree

LEMMA RefsInitInv == A!Init => RefsInv
<1> SUFFICES ASSUME A!Init PROVE RefsInv
  OBVIOUS
<1>1. <<>> \in Seq(Files) /\ <<>> \in Seq(A!Steps) /\ <<>> \in Seq(Nat)
  OBVIOUS
<1>2. A!NoJob \in Jobs /\ A!NoJob.from = "none" /\ A!NoJob.version = 0
      /\ A!NoJob.step = <<>> /\ A!NoJob.list = <<>>
  BY <1>1 DEF A!NoJob, Jobs
<1>3. RefsTyped
  BY <1>1, <1>2 DEF A!Init, RefsTyped, A!Sides
<1>4. refs["local"] = refs["remote"]
  BY DEF A!Init, A!Sides
<1> QED
  BY <1>2, <1>3, <1>4 DEF RefsInv, JobInv, A!SyncedRefsAgree, A!Without, A!Init, A!Working

LEMMA UserKeepsRefs ==
  ASSUME RefsInv, A!User
  PROVE  RefsInv'
<1>1. PICK s \in A!Sides : A!EditText(s) \/ A!Attach(s) \/ A!Detach(s)
  BY DEF A!User
<1>2. /\ edits' = edits + 1 /\ version' = [version EXCEPT ![s] = edits + 1]
      /\ UNCHANGED <<equal, job, failed>>
  BY <1>1 DEF A!EditText, A!Attach, A!Detach, A!Stamp
<1>3. refs' \in [A!Sides -> Seq(Files)] /\ \A z \in A!Sides : z # s => refs'[z] = refs[z]
  <2>1. \A f \in Files : Append(refs[s], f) \in Seq(Files)
    BY <1>1 DEF RefsInv, RefsTyped
  <2>2. \A F : A!Keep(refs[s], F) \in Seq(Files)
    BY <1>1, KeepTyped DEF RefsInv, RefsTyped
  <2>3. refs' = refs \/ \E list \in Seq(Files) : refs' = [refs EXCEPT ![s] = list]
    <3>1. CASE A!EditText(s)
      BY <3>1 DEF A!EditText
    <3>2. CASE A!Attach(s)
      BY <3>2, <2>1 DEF A!Attach
    <3>3. CASE A!Detach(s)
      <4>1. PICK f : refs' = [refs EXCEPT ![s] = A!Keep(refs[s], Files \ {f})]
        BY <3>3 DEF A!Detach
      <4> QED
        BY <4>1, <2>2
    <3> QED
      BY <1>1, <3>1, <3>2, <3>3
  <2> QED
    BY <1>1, <2>3 DEF RefsInv, RefsTyped
<1>4. RefsTyped'
  <2>1. /\ edits \in Nat /\ edits' \in Nat /\ edits' > edits
        /\ job \in Jobs /\ job.version \in Nat /\ job.version <= edits
    BY <1>2 DEF RefsInv, RefsTyped, Jobs
  <2>2. \A z \in A!Sides : version'[z] \in Nat /\ version'[z] <= edits' /\ equal[z] <= edits'
    BY <1>1, <1>2, <2>1 DEF RefsInv, RefsTyped
  <2>3. version' \in [A!Sides -> Nat]
    BY <1>2, <2>1 DEF RefsInv, RefsTyped
  <2> QED
    BY <1>2, <1>3, <2>1, <2>2, <2>3 DEF RefsInv, RefsTyped
<1>5. A!Changed(s)' /\ version'[s] > version[s] /\ version'[s] > job.version
  BY <1>1, <1>2 DEF RefsInv, RefsTyped, A!Changed, Jobs
<1>6. JobInv'
  BY <1>2, <1>3, <1>5 DEF RefsInv, RefsTyped, JobInv, A!Working, A!Changed, Jobs
<1>7. ~A!InSync'
  BY <1>1, <1>5 DEF A!InSync, A!Sides
<1> QED
  BY <1>4, <1>6, <1>7 DEF RefsInv, A!SyncedRefsAgree

LEMMA StartKeepsRefs ==
  ASSUME RefsInv, NEW s \in A!Sides, A!Start(s)
  PROVE  RefsInv'
<1>1. /\ A!Changed(s) /\ UNCHANGED <<refs, version, equal, edits, failed>>
      /\ job' = [from |-> s, list |-> refs[s], version |-> version[s],
                 step |-> [i \in DOMAIN refs[s] |->
                             IF i <= Workers THEN A!FirstRequest(s) ELSE "waiting"],
                 tries |-> [i \in DOMAIN refs[s] |-> 0]]
  BY DEF A!Start
<1>2. refs[s] \in Seq(Files) /\ DOMAIN refs[s] = 1..Len(refs[s]) /\ Len(refs[s]) \in Nat
  BY DEF RefsInv, RefsTyped
<1>3. job'.step \in Seq(A!Steps) /\ job'.tries \in Seq(Nat) /\ DOMAIN job'.step = DOMAIN job'.list
  <2>1. \A i \in 1..Len(refs[s]) :
          (IF i <= Workers THEN A!FirstRequest(s) ELSE "waiting") \in A!Steps
    BY DEF A!FirstRequest, A!Steps
  <2> QED
    BY <1>1, <1>2, <2>1
<1>4. job' \in Jobs /\ job'.from = s /\ job'.list = refs[s] /\ job'.version = version[s]
  BY <1>1, <1>2, <1>3 DEF Jobs, RefsInv, RefsTyped
<1> QED
  BY <1>1, <1>3, <1>4
  DEF RefsInv, RefsTyped, JobInv, A!SyncedRefsAgree, A!InSync, A!Changed, A!Without

LEMMA TransferMoves ==
  ASSUME RefsTyped, A!Transfer
  PROVE  /\ job' \in Jobs /\ job'.from = job.from /\ job'.list = job.list
         /\ job'.version = job.version /\ DOMAIN job'.step = DOMAIN job.step
         /\ A!Quiet
<1>1. PICK i \in DOMAIN job.step :
        \/ A!ReadLocal(i) \/ A!CreateRemote(i) \/ A!AskRemote(i)
        \/ A!AskLocal(i) \/ A!Download(i) \/ A!CreateLocal(i)
  BY DEF A!Transfer
<1>2. /\ A!Quiet
      /\ \/ \E step \in A!Steps : A!Goes(i, step) \/ A!Settles(i, step)
         \/ job' = [job EXCEPT !.tries[i] = @ + 1]
  BY <1>1 DEF A!ReadLocal, A!CreateRemote, A!AskRemote, A!AskLocal, A!Download, A!CreateLocal, A!Steps
<1>3. /\ job \in Jobs /\ job.step \in Seq(A!Steps) /\ job.tries \in Seq(Nat)
      /\ DOMAIN job.step = 1..Len(job.step)
  BY DEF RefsTyped, Jobs
<1>4. ASSUME NEW step \in A!Steps, A!Goes(i, step)
      PROVE  /\ job' \in Jobs /\ job'.from = job.from /\ job'.list = job.list
             /\ job'.version = job.version /\ DOMAIN job'.step = DOMAIN job.step
  <2>1. [job.step EXCEPT ![i] = step] \in Seq(A!Steps)
    BY <1>3, ExceptSeq
  <2> QED
    BY <1>3, <1>4, <2>1 DEF A!Goes, Jobs
<1>5. ASSUME NEW step \in A!Steps, A!Settles(i, step)
      PROVE  /\ job' \in Jobs /\ job'.from = job.from /\ job'.list = job.list
             /\ job'.version = job.version /\ DOMAIN job'.step = DOMAIN job.step
  <2>1. PICK new : /\ new = [j \in DOMAIN job.step |-> new[j]]
                   /\ \A j \in DOMAIN job.step :
                        new[j] \in {step, A!FirstRequest(job.from), job.step[j]}
                   /\ job' = [job EXCEPT !.step = new]
    BY <1>5 DEF A!Settles
  <2>2. \A j \in DOMAIN job.step : new[j] \in A!Steps
    <3>1. A!FirstRequest(job.from) \in A!Steps
      BY DEF A!FirstRequest, A!Steps
    <3>2. \A j \in DOMAIN job.step : job.step[j] \in A!Steps
      BY <1>3, ElementOfSeq
    <3> QED
      BY <2>1, <3>1, <3>2
  <2>3. new \in Seq(A!Steps) /\ DOMAIN new = DOMAIN job.step
    <3>1. new \in [1..Len(job.step) -> A!Steps] /\ Len(job.step) \in Nat
      <4>1. PICK D : D = DOMAIN job.step
        OBVIOUS
      <4>2. new = [j \in D |-> new[j]] /\ (\A j \in D : new[j] \in A!Steps) /\ D = 1..Len(job.step)
        BY <4>1, <1>3, <2>1, <2>2
      <4>3. new \in [D -> A!Steps]
        BY ONLY <4>2
      <4> QED
        BY <4>2, <4>3, <1>3
    <3> QED
      BY <1>3, <2>2, <3>1, SeqDef
  <2> QED
    BY <1>3, <2>1, <2>3 DEF Jobs
<1>6. ASSUME job' = [job EXCEPT !.tries[i] = @ + 1]
      PROVE  /\ job' \in Jobs /\ job'.from = job.from /\ job'.list = job.list
             /\ job'.version = job.version /\ DOMAIN job'.step = DOMAIN job.step
  <2>1. [job.tries EXCEPT ![i] = @ + 1] \in Seq(Nat)
    <3>1. \A j \in 1..Len(job.tries) : [job.tries EXCEPT ![i] = @ + 1][j] \in Nat
      BY <1>3
    <3>2. DOMAIN job.tries = 1..Len(job.tries) /\ Len(job.tries) \in Nat
      BY <1>3
    <3>3. PICK new : new = [job.tries EXCEPT ![i] = @ + 1]
      OBVIOUS
    <3>4. new \in [1..Len(job.tries) -> Nat]
      BY <3>1, <3>2, <3>3
    <3>5. new \in Seq(Nat)
      BY ONLY <3>2, <3>4, SeqDef
    <3> QED
      BY <3>3, <3>5
  <2> QED
    BY <1>3, <1>6, <2>1 DEF Jobs
<1> QED
  BY <1>2, <1>4, <1>5, <1>6

LEMMA TransferKeepsRefs ==
  ASSUME RefsInv, A!Transfer
  PROVE  RefsInv'
<1>1. /\ job' \in Jobs /\ job'.from = job.from /\ job'.list = job.list
      /\ job'.version = job.version /\ DOMAIN job'.step = DOMAIN job.step
      /\ UNCHANGED <<refs, version, equal, edits, failed>>
  BY TransferMoves DEF RefsInv, A!Quiet
<1> QED
  BY <1>1
  DEF RefsInv, RefsTyped, JobInv, A!SyncedRefsAgree, A!InSync, A!Changed, A!Without, A!Working

(* The references are the list without the failures: what the two sides    *)
(* have in common is what has not failed, now or before.                   *)
LEMMA WrittenAgrees ==
  ASSUME RefsTyped, A!Settled, NEW old
  PROVE  A!Without(A!References, old \cup A!Lost) = A!Without(job.list, old \cup A!Lost)
<1>1. job.list \in Seq(Files) /\ DOMAIN job.step = DOMAIN job.list
  BY DEF RefsTyped, Jobs
<1>2. A!Without(A!References, old \cup A!Lost)
        = A!Keep(job.list, A!Sent \cap (Files \ (old \cup A!Lost)))
  BY <1>1, KeepTwice DEF A!Without, A!References
<1>3. \A i \in DOMAIN job.list : job.list[i] \in A!Sent \/ job.list[i] \in A!Lost
  BY <1>1 DEF A!Settled, A!Sent, A!Lost
<1>4. A!Keep(job.list, A!Sent \cap (Files \ (old \cup A!Lost)))
        = A!Keep(job.list, Files \ (old \cup A!Lost))
  <2>1. \A i \in DOMAIN job.list :
          job.list[i] \in A!Sent \cap (Files \ (old \cup A!Lost))
            <=> job.list[i] \in Files \ (old \cup A!Lost)
    BY <1>3
  <2> QED
    BY <1>1, <2>1, KeepSame
<1> QED
  BY <1>2, <1>4 DEF A!Without

LEMMA WriteKeepsRefs ==
  ASSUME RefsInv, A!Write
  PROVE  RefsInv'
<1>1. /\ A!Settled /\ UNCHANGED edits /\ job' = A!NoJob /\ failed' = failed \cup A!Lost
      /\ refs' = [refs EXCEPT ![A!Dest] = A!References]
      /\ version' = [version EXCEPT ![A!Dest] = job.version]
      /\ equal' = [s \in A!Sides |-> job.version]
  BY DEF A!Write
<1>2. /\ job.from \in A!Sides /\ A!Dest \in A!Sides /\ A!Dest # job.from
      /\ A!Sides = {job.from, A!Dest}
  BY <1>1 DEF A!Settled, A!Working, RefsInv, RefsTyped, Jobs, A!Dest, A!Other, A!Sides
<1>3. A!References \in Seq(Files)
  BY KeepTyped DEF A!References, RefsInv, RefsTyped, Jobs
<1>4. A!NoJob \in Jobs /\ A!NoJob.from = "none" /\ A!NoJob.version = 0
      /\ A!NoJob.step = <<>> /\ A!NoJob.list = <<>>
  <2>1. <<>> \in Seq(Files) /\ <<>> \in Seq(A!Steps) /\ <<>> \in Seq(Nat)
    OBVIOUS
  <2> QED
    BY <2>1 DEF A!NoJob, Jobs
<1>5. RefsTyped'
  BY <1>1, <1>2, <1>3, <1>4 DEF RefsInv, RefsTyped, Jobs
<1>6. JobInv'
  BY <1>1, <1>4 DEF JobInv, A!Working
<1>7. A!SyncedRefsAgree'
  <2> SUFFICES ASSUME A!InSync'
               PROVE  A!Without(refs'[job.from], failed') = A!Without(refs'[A!Dest], failed')
    BY <1>2 DEF A!SyncedRefsAgree, A!Sides, A!Without
  <2>1. version[job.from] = job.version
    BY <1>1, <1>2 DEF A!InSync, A!Changed, A!Sides, RefsInv, RefsTyped
  <2>2. refs'[job.from] = job.list /\ refs'[A!Dest] = A!References
    BY <1>1, <1>2, <2>1 DEF RefsInv, RefsTyped, JobInv, A!Settled
  <2> QED
    BY <1>1, <2>2, WrittenAgrees DEF RefsInv
<1> QED
  BY <1>5, <1>6, <1>7 DEF RefsInv

(* A write that fails records nothing: the sides still differ from what is *)
(* recorded of the one the job was from.                                   *)
LEMMA FailedKeepsRefs ==
  ASSUME RefsInv, A!WriteFails
  PROVE  RefsInv'
<1>1. A!Settled /\ job' = A!NoJob /\ UNCHANGED <<equal, edits, failed>>
  BY DEF A!WriteFails
<1>2. /\ job.from \in A!Sides /\ A!Dest \in A!Sides /\ A!Dest # job.from
  BY <1>1 DEF A!Settled, A!Working, RefsInv, RefsTyped, Jobs, A!Dest, A!Other, A!Sides
<1>3. ASSUME NEW n \in 0..Len(A!References), A!AttachesLast(n)
      PROVE  refs' \in [A!Sides -> Seq(Files)]
  <2>1. A!References \in Seq(Files)
    BY KeepTyped DEF A!References, RefsInv, RefsTyped, Jobs
  <2>2. PICK last : last = SubSeq(A!References, Len(A!References) - n + 1, Len(A!References))
    OBVIOUS
  <2>3. last \in Seq(Files)
    <3>1. PICK list \in Seq(Files) : list = A!References
      BY <2>1
    <3>2. Len(list) \in Nat /\ \A k \in 1..Len(list) : list[k] \in Files
      OBVIOUS
    <3>3. SubSeq(list, Len(list) - n + 1, Len(list)) \in Seq(Files)
      BY <1>3, <3>1, <3>2
    <3> QED
      BY <2>2, <3>1, <3>3
  <2>4. PICK kept \in Seq(Files) : kept = A!Keep(refs[A!Dest], A!ToSet(A!References) \ A!ToSet(last))
    BY <1>2, KeepTyped DEF RefsInv, RefsTyped
  <2>5. refs' = [refs EXCEPT ![A!Dest] = last \o kept]
    BY <1>3, <2>2, <2>4 DEF A!AttachesLast
  <2>6. last \o kept \in Seq(Files)
    BY <2>3, <2>4
  <2> QED
    BY <1>2, <2>5, <2>6 DEF RefsInv, RefsTyped
<1>4. /\ refs' \in [A!Sides -> Seq(Files)]
      /\ version' = version \/ version' = [version EXCEPT ![A!Dest] = job.version]
  <2>1. Len(A!References) \in Nat
    BY KeepTyped DEF A!References, RefsInv, RefsTyped, Jobs
  <2>2. Len(A!References) \in 0..Len(A!References)
    BY <2>1
  <2> QED
    BY <1>3, <2>2 DEF A!WriteFails, RefsInv, RefsTyped
<1>5. A!NoJob \in Jobs /\ A!NoJob.from = "none" /\ A!NoJob.version = 0
      /\ A!NoJob.step = <<>> /\ A!NoJob.list = <<>>
  <2>1. <<>> \in Seq(Files) /\ <<>> \in Seq(A!Steps) /\ <<>> \in Seq(Nat)
    OBVIOUS
  <2> QED
    BY <2>1 DEF A!NoJob, Jobs
<1>6. RefsTyped'
  <2>1. job.version \in Nat /\ job.version <= edits
    BY DEF RefsInv, RefsTyped, Jobs
  <2>2. /\ version' \in [A!Sides -> Nat]
        /\ \A s \in A!Sides : version'[s] <= edits
    BY <1>2, <1>4, <2>1 DEF RefsInv, RefsTyped
  <2> QED
    BY <1>1, <1>4, <1>5, <2>2 DEF RefsInv, RefsTyped
<1>7. ~A!InSync'
  BY <1>1, <1>2, <1>4 DEF A!InSync, A!Changed, RefsInv, RefsTyped, JobInv, A!Settled, A!Sides
<1> QED
  BY <1>1, <1>5, <1>6, <1>7 DEF RefsInv, JobInv, A!SyncedRefsAgree, A!Working

LEMMA RefsNextKeeps ==
  ASSUME RefsInv, [A!Next]_transfer
  PROVE  RefsInv'
<1>1. CASE A!Next
  BY <1>1, UserKeepsRefs, StartKeepsRefs, TransferKeepsRefs, WriteKeepsRefs, FailedKeepsRefs
  DEF A!Next, A!Run, A!Sides
<1>2. CASE UNCHANGED transfer
  BY <1>2
  DEF transfer, RefsInv, RefsTyped, JobInv, A!SyncedRefsAgree, A!InSync, A!Changed, A!Without, A!Working
<1> QED
  BY <1>1, <1>2

(* A memo recorded as equal at both sides, and not changed since, has the  *)
(* same attachments in the same order there, but for those of which a      *)
(* transfer has failed: for any files, workers, retries and faults, and    *)
(* however the transfers interleave with each other and with the users.    *)
THEOREM SyncedRefsAlwaysAgree == PartsSpec => []SyncedRefsAgree
<1>1. PartsInit => RefsInv
  BY RefsInitInv DEF PartsInit
<1>2. RefsInv /\ [Comments \/ OneMemosComments \/ Attachments]_allVars => RefsInv'
  <2> SUFFICES ASSUME RefsInv, [Comments \/ OneMemosComments \/ Attachments]_allVars
               PROVE  RefsInv'
    OBVIOUS
  <2>1. [A!Next]_transfer
    BY DEF Comments, OneMemosComments, Attachments, allVars
  <2> QED
    BY <2>1, RefsNextKeeps
<1>3. RefsInv => SyncedRefsAgree
  BY DEF RefsInv, SyncedRefsAgree
<1> QED
  BY <1>1, <1>2, <1>3, PTL DEF PartsSpec
================================================================================
