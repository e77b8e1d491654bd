------------------------------ MODULE MCMemos_proofs ------------------------------
(***************************************************************************)
(* What the pages show of memos is what the server has, and what is typed  *)
(* there is not lost, for any number of memos, comments, changes, events,  *)
(* failures, editors and texts.                                            *)
(*                                                                         *)
(* ListsFresh and DetailsFresh speak of queries at rest only.  PageInv adds *)
(* what holds on the way there: an answer on its way to a query is what    *)
(* the server has, unless an event that will fetch it again is on its way  *)
(* too, and so is what a query has that is not being fetched, but for      *)
(* changes shown before they are made.                                     *)
(*                                                                         *)
(* NoPhantoms needs that no two changes of a memo overlap (Apart): RealInv *)
(* says that what a change would go back to has been made, which the       *)
(* second of two changes need not find.                                    *)
(*                                                                         *)
(* DraftsFollow and TextKept rest on EditorsInv: the call the debounce     *)
(* holds has the text of its editor, what a save has posted is what it     *)
(* began with, and no text belongs to two editors.                         *)
(***************************************************************************)
EXTENDS MCMemos, TLAPS

USE LiveMemosAssumption

(* A step is one of the pages that show memos or of the editors.           *)
LEMMA StepsOfMemos ==
  ASSUME [LivePart \/ EditorPart]_allVars
  PROVE  [Next]_vars /\ [E!Next]_editor
BY DEF LivePart, EditorPart, allVars

-------------------------------------------------------------------------------
(* What the page has in hand.  TypeOK is not inductive: it says nothing of *)
(* what an operation under way carries.                                    *)
Data == [Memos -> Values]

Query ==
    {c \in [has : BOOLEAN, data : Data, stale : BOOLEAN, fetch : {"none", "sent", "read"}, read : Data] :
        c.fetch # "read" => c.read = Nothing}

Notices ==
    [type : {"created", "updated", "deleted"}, name : Memos] \cup [type : {"comment"}, name : Top]

Idle == [step : {"none"}]
Updates == [step : {"sent", "done", "failed"}, kind : {"update"}, memo : Memos, value : Values \ {0},
            had : BOOLEAN, prev : Data, tries : {0, 1}]
Deletes == [step : {"sent", "done", "failed"}, kind : {"delete"}, memo : Memos, tries : {0, 1}]
Reactions == [step : {"sent", "get", "done", "failed"}, kind : {"react"}, memo : Memos, value : Values, tries : {1}]
Operations == Idle \cup Updates \cup Deletes \cup Reactions

ServerTyped == server \in [value : [Memos -> Values], related : SUBSET Comments, gone : SUBSET Memos]

StreamTyped ==
    /\ stream \in [state : {"down", "connected"}, subscribed : BOOLEAN, events : Seq(Notices)]
    /\ Len(stream.events) <= Buffer

CacheTyped == shown \in Views /\ cache \in [Queries -> Query]

(* A change that has not been made has a value of its own. *)
OpsTyped ==
    /\ op \in [Ops -> Operations]
    /\ \A o \in Ops : op[o].step = "sent" /\ op[o].kind = "react" => op[o].value # 0

RestTyped ==
    /\ last \in Values /\ made \subseteq Values
    /\ lost \subseteq Queries /\ late \subseteq Queries /\ faults \in Nat

PageTyped == ServerTyped /\ StreamTyped /\ CacheTyped /\ OpsTyped /\ RestTyped

(* The queries an event has fetched again or removed.                      *)
Reach(e) == Affected(e) \cup (IF e.type = "deleted" THEN {Detail(e.name)} ELSE {})

LEMMA QueriesAre ==
  /\ List \in Queries /\ Stats \in Queries
  /\ \A m \in Memos : Detail(m) \in Queries
  /\ \A p \in Top : CommentsOf(p) \in Queries
  /\ \A S \in Views : S \subseteq Queries
BY DEF Queries, Views, Memos

LEMMA QueriesDiffer ==
  /\ List # Stats
  /\ \A m : Detail(m) # List /\ Detail(m) # Stats
  /\ \A p : CommentsOf(p) # List /\ CommentsOf(p) # Stats
  /\ \A m, p : Detail(m) # CommentsOf(p)
  /\ \A m, n : Detail(m) = Detail(n) => m = n
  /\ \A m, n : CommentsOf(m) = CommentsOf(n) => m = n
BY DEF List, Stats, Detail, CommentsOf

LEMMA TruthIs ==
  /\ Truth(List) = [x \in Memos |-> IF x \notin server.related THEN server.value[x] ELSE 0]
  /\ Truth(Stats) = [x \in Memos |-> IF TRUE THEN server.value[x] ELSE 0]
  /\ \A m \in Memos : Truth(Detail(m)) = [x \in Memos |-> IF x = m THEN server.value[x] ELSE 0]
  /\ \A p \in Top : Truth(CommentsOf(p)) =
        [x \in Memos |-> IF x \in server.related /\ Parent[x] = p THEN server.value[x] ELSE 0]
<1>1. Truth(List) = [x \in Memos |-> IF x \notin server.related THEN server.value[x] ELSE 0]
  BY QueriesDiffer DEF Truth, Stats, List
<1>2. Truth(Stats) = [x \in Memos |-> IF TRUE THEN server.value[x] ELSE 0]
  BY QueriesDiffer DEF Truth, Stats, List
<1>3. ASSUME NEW m \in Memos
      PROVE  Truth(Detail(m)) = [x \in Memos |-> IF x = m THEN server.value[x] ELSE 0]
  <2>1. Detail(m)[1] = "detail" /\ Detail(m)[2] = m
    BY DEF Detail
  <2> QED
    BY <2>1, QueriesDiffer DEF Truth
<1>4. ASSUME NEW p \in Top
      PROVE  Truth(CommentsOf(p)) =
                [x \in Memos |-> IF x \in server.related /\ Parent[x] = p THEN server.value[x] ELSE 0]
  <2>1. CommentsOf(p)[1] = "comments" /\ CommentsOf(p)[2] = p
    BY DEF CommentsOf
  <2> QED
    BY <2>1, QueriesDiffer DEF Truth
<1> QED
  BY <1>1, <1>2, <1>3, <1>4

LEMMA TruthTyped ==
  ASSUME ServerTyped
  PROVE  \A q \in Queries : Truth(q) \in Data
<1>1. \A m \in Memos : server.value[m] \in Values /\ 0 \in Values
  BY DEF Values, ServerTyped
<1> QED
  BY <1>1, TruthIs DEF Data, Queries

LEMMA NothingTyped == Nothing \in Data /\ NoQuery \in Query
BY DEF Nothing, Data, NoQuery, Query, Values

LEMMA ReachTyped ==
  ASSUME NEW e \in Notices
  PROVE  Affected(e) \subseteq Queries /\ Reach(e) \subseteq Queries
BY QueriesAre DEF Notices, Affected, Reach, Memos

LEMMA RefetchedIs ==
  ASSUME NEW c \in [Queries -> Query], NEW Q
  PROVE  /\ Refetched(c, Q) \in [Queries -> Query]
         /\ \A q \in Queries :
               /\ q \in Q \cap shown => Refetched(c, Q)[q].fetch = "sent"
               /\ q \notin Q => Refetched(c, Q)[q] = c[q]
               /\ Refetched(c, Q)[q].data = c[q].data
               /\ q \notin shown => Refetched(c, Q)[q].fetch = c[q].fetch
               /\ Refetched(c, Q)[q].read \in {c[q].read, Nothing}
<1>1. \A q \in Queries : c[q] \in Query
  OBVIOUS
<1>2. Nothing \in Data
  BY NothingTyped
<1> QED
  BY <1>1, <1>2 DEF Refetched, Query

LEMMA RemovedIs ==
  ASSUME NEW c \in [Queries -> Query], NEW Q
  PROVE  /\ Removed(c, Q) \in [Queries -> Query]
         /\ \A q \in Queries : Removed(c, Q)[q] = IF q \in Q THEN NoQuery ELSE c[q]
BY NothingTyped DEF Removed

LEMMA GivenIs ==
  ASSUME NEW c \in [Queries -> Query], NEW q \in Queries, NEW data \in Data
  PROVE  /\ Given(c, q, data) \in [Queries -> Query]
         /\ \A x \in Queries \ {q} : Given(c, q, data)[x] = c[x]
         /\ Given(c, q, data)[q].data = data
         /\ Given(c, q, data)[q].fetch = c[q].fetch
         /\ Given(c, q, data)[q].read = c[q].read
BY DEF Given, Query

-------------------------------------------------------------------------------
(* Type correctness. *)
LEMMA EventTyped ==
  /\ \A m \in Memos, type \in {"created", "updated", "deleted"} : Event(type, m) \in Notices
  /\ \A p \in Top : Event("comment", p) \in Notices
BY DEF Event, Notices

LEMMA BroadcastTyped ==
  ASSUME PageTyped, NEW e \in Notices, Broadcast(e)
  PROVE  StreamTyped' /\ lost' \subseteq Queries
<1> USE DEF PageTyped, StreamTyped, RestTyped
<1>1. CASE stream.subscribed /\ Len(stream.events) < Buffer
  <2>1. stream' = [stream EXCEPT !.events = Append(@, e)] /\ lost' = lost
    BY <1>1 DEF Broadcast
  <2>2. Append(stream.events, e) \in Seq(Notices) /\ Len(Append(stream.events, e)) = Len(stream.events) + 1
    OBVIOUS
  <2>3. stream'.events = Append(stream.events, e) /\ Len(stream.events) \in Nat
    BY <2>1
  <2>4. stream' \in [state : {"down", "connected"}, subscribed : BOOLEAN, events : Seq(Notices)]
    BY <2>1, <2>2
  <2> QED
    BY <1>1, <2>1, <2>2, <2>3, <2>4
<1>2. CASE ~(stream.subscribed /\ Len(stream.events) < Buffer)
  <2>1. lost' = lost \cup Reach(e) /\ stream' = stream
    BY <1>2 DEF Broadcast, Reach
  <2> QED
    BY <2>1, ReachTyped
<1> QED
  BY <1>1, <1>2

LEMMA HandleTyped ==
  ASSUME PageTyped, NEW e \in Notices, Handle(e)
  PROVE  cache' \in [Queries -> Query] /\ lost' \subseteq lost /\ late' \subseteq late
<1>1. Refetched(cache, Affected(e)) \in [Queries -> Query]
  BY RefetchedIs DEF PageTyped, CacheTyped
<1> QED
  BY <1>1, RemovedIs DEF Handle

LEMMA NoticesTyped ==
  ASSUME StreamTyped
  PROVE  /\ \A i \in DOMAIN stream.events : stream.events[i] \in Notices
         /\ stream.events # <<>> => Head(stream.events) \in Notices
                                    /\ Tail(stream.events) \in Seq(Notices)
                                    /\ Len(Tail(stream.events)) = Len(stream.events) - 1
BY DEF StreamTyped

(* An operation under way is one of the three kinds. *)
LEMMA OpIs ==
  ASSUME OpsTyped, NEW o \in Ops, op[o].step # "none"
  PROVE  /\ op[o].memo \in Memos
         /\ op[o].kind \in {"update", "delete", "react"}
         /\ op[o].kind = "update" => op[o] \in Updates
         /\ op[o].kind = "delete" => op[o] \in Deletes
         /\ op[o].kind = "react" => op[o] \in Reactions
         /\ op[o].step = "get" => op[o].kind = "react"
<1>1. op[o] \in Operations
  BY DEF OpsTyped
<1> QED
  BY <1>1 DEF Operations, Idle, Updates, Deletes, Reactions

LEMMA OpSet ==
  ASSUME OpsTyped, NEW o \in Ops, NEW r \in Operations, r.step = "sent" /\ r.kind = "react" => r.value # 0,
         op' = [op EXCEPT ![o] = r]
  PROVE  OpsTyped'
BY DEF OpsTyped

LEMMA WithoutTyped ==
  ASSUME ServerTyped, NEW m \in Memos
  PROVE  /\ Without(m) \in [value : [Memos -> Values], related : SUBSET Comments, gone : SUBSET Memos]
BY DEF ServerTyped, Without, Memos, Values

LEMMA ValuesTyped ==
  ASSUME ServerTyped, NEW m \in Memos, NEW v \in Values
  PROVE  [server EXCEPT !.value[m] = v] \in [value : [Memos -> Values], related : SUBSET Comments, gone : SUBSET Memos]
BY DEF ServerTyped

LEMMA ChangeTyped ==
  ASSUME RestTyped, Change
  PROVE  last' = last + 1 /\ last' \in Values /\ last + 1 \in Values \ {0}
BY DEF RestTyped, Change, Values

LEMMA OthersTyped ==
  ASSUME PageTyped, Others
  PROVE  PageTyped'
<1>1. PICK m \in Memos : Create(m) \/ Update(m) \/ Delete(m) \/ (m \in Comments /\ Relate(m))
  BY DEF Others
<1>2. CASE Create(m) \/ Update(m)
  <2>1. /\ server' = [server EXCEPT !.value[m] = last + 1] /\ made' = made \cup {last + 1} /\ Change
        /\ UNCHANGED <<shown, cache, op, late, faults>>
    BY <1>2 DEF Create, Update
  <2>2. PICK e \in Notices : Broadcast(e)
    BY <1>2, EventTyped DEF Create, Update
  <2>3. last' \in Values /\ last + 1 \in Values
    BY <2>1, ChangeTyped DEF PageTyped
  <2>4. ServerTyped'
    BY <2>1, <2>3, ValuesTyped DEF ServerTyped, PageTyped
  <2> QED
    BY <2>1, <2>2, <2>3, <2>4, BroadcastTyped DEF PageTyped, CacheTyped, OpsTyped, RestTyped
<1>3. CASE Delete(m)
  <2>1. Broadcast(Event("deleted", m)) /\ Event("deleted", m) \in Notices
    BY <1>3, EventTyped DEF Delete
  <2>2. ServerTyped'
    BY <1>3, WithoutTyped DEF Delete, PageTyped, ServerTyped
  <2> QED
    BY <1>3, <2>1, <2>2, BroadcastTyped DEF Delete, PageTyped, CacheTyped, OpsTyped, RestTyped
<1>4. CASE m \in Comments /\ Relate(m)
  <2>1. Broadcast(Event("comment", Parent[m])) /\ Event("comment", Parent[m]) \in Notices
    BY <1>4, EventTyped DEF Relate
  <2>2. ServerTyped'
    BY <1>4 DEF Relate, PageTyped, ServerTyped
  <2> QED
    BY <1>4, <2>1, <2>2, BroadcastTyped DEF Relate, PageTyped, CacheTyped, OpsTyped, RestTyped
<1> QED
  BY <1>1, <1>2, <1>3, <1>4

LEMMA StreamStepTyped ==
  ASSUME PageTyped, Stream
  PROVE  PageTyped'
<1>1. CASE Connect \/ Subscribe
  BY <1>1 DEF Connect, Subscribe, PageTyped, ServerTyped, StreamTyped, CacheTyped, OpsTyped, RestTyped
<1>2. CASE Disconnect
  <2>1. lost' = lost \cup UNION {Reach(stream.events[i]) : i \in DOMAIN stream.events}
    BY <1>2 DEF Disconnect, Reach
  <2>2. lost' \subseteq Queries
    BY <2>1, NoticesTyped, ReachTyped DEF PageTyped, RestTyped
  <2>3. StreamTyped'
    <3>1. stream' = [state |-> "down", subscribed |-> FALSE, events |-> <<>>]
      BY <1>2 DEF Disconnect
    <3>2. <<>> \in Seq(Notices) /\ Len(<<>>) = 0
      OBVIOUS
    <3> QED
      BY <3>1, <3>2 DEF StreamTyped
  <2> QED
    BY <1>2, <2>2, <2>3 DEF Disconnect, Fault, PageTyped, ServerTyped, CacheTyped, OpsTyped, RestTyped
<1>3. CASE Deliver
  <2>1. stream.events # <<>> /\ stream' = [stream EXCEPT !.events = Tail(@)] /\ Handle(Head(stream.events))
        /\ UNCHANGED <<shown, server, last, made, op, faults>>
    BY <1>3 DEF Deliver
  <2>2. StreamTyped'
    BY <2>1, NoticesTyped DEF StreamTyped, PageTyped
  <2>3. cache' \in [Queries -> Query] /\ lost' \subseteq lost /\ late' \subseteq late
    BY <2>1, HandleTyped, NoticesTyped DEF PageTyped
  <2> QED
    BY <2>1, <2>2, <2>3 DEF PageTyped, ServerTyped, CacheTyped, OpsTyped, RestTyped
<1> QED
  BY <1>1, <1>2, <1>3 DEF Stream

LEMMA FetchingTyped ==
  ASSUME PageTyped, Fetching
  PROVE  PageTyped'
<1>1. PICK q \in Queries : Look(q) \/ Read(q) \/ Arrive(q) \/ FetchFails(q)
  BY DEF Fetching
<1>2. cache[q] \in Query /\ Truth(q) \in Data /\ Nothing \in Data
  BY TruthTyped, NothingTyped DEF PageTyped, CacheTyped
<1>3. CASE Look(q)
  <2>1. cache' \in [Queries -> Query]
    BY <1>3, RefetchedIs DEF Look, PageTyped, CacheTyped
  <2>2. faults' \in Nat
    BY <1>3 DEF Look, Fault, PageTyped, RestTyped
  <2> QED
    BY <1>3, <2>1, <2>2 DEF Look, PageTyped, ServerTyped, StreamTyped, CacheTyped, OpsTyped, RestTyped
<1>4. CASE Read(q) \/ Arrive(q) \/ FetchFails(q)
  <2>1. cache' \in [Queries -> Query]
    <3>1. CASE Read(q)
      BY <1>2, <3>1 DEF Read, PageTyped, CacheTyped, Query
    <3>2. CASE Arrive(q)
      BY <1>2, <3>2 DEF Arrive, PageTyped, CacheTyped, Query
    <3>3. CASE FetchFails(q)
      BY <1>2, <3>3 DEF FetchFails, PageTyped, CacheTyped, Query
    <3> QED
      BY <1>4, <3>1, <3>2, <3>3
  <2> QED
    BY <1>4, <2>1 DEF Read, Arrive, FetchFails, Fault, PageTyped, ServerTyped, StreamTyped, CacheTyped, OpsTyped, RestTyped
<1> QED
  BY <1>1, <1>3, <1>4

LEMMA StartsTyped ==
  ASSUME PageTyped, NEW o \in Ops, Starts(o)
  PROVE  PageTyped'
<1>1. PICK m \in Memos : StartUpdate(o, m) \/ StartDelete(o, m) \/ StartReaction(o, m)
  BY DEF Starts
<1>2. Detail(m) \in Queries /\ cache[Detail(m)] \in Query
  BY QueriesAre DEF PageTyped, CacheTyped
<1>3. CASE StartUpdate(o, m)
  <2> DEFINE q == Detail(m)
             r == [step |-> "sent", kind |-> "update", memo |-> m, value |-> last + 1,
                   had |-> cache[q].has, prev |-> cache[q].data, tries |-> 0]
             d == IF cache[q].has THEN [cache[q].data EXCEPT ![m] = last + 1] ELSE cache[q].data
  <2>1. /\ op' = [op EXCEPT ![o] = r]
        /\ cache' = [cache EXCEPT ![q].fetch = "none", ![q].read = Nothing, ![q].data = d]
        /\ lost' \subseteq lost \cup {q} /\ Change
        /\ UNCHANGED <<shown, server, made, stream, late, faults>>
    BY <1>3 DEF StartUpdate
  <2>2. last' \in Values /\ last + 1 \in Values \ {0}
    BY <2>1, ChangeTyped DEF PageTyped
  <2>3. d \in Data /\ Nothing \in Data
    BY <1>2, <2>2, NothingTyped DEF Query, Data
  <2>4. cache' \in [Queries -> Query]
    BY <1>2, <2>1, <2>3 DEF PageTyped, CacheTyped, Query
  <2>5. r \in Operations /\ r.kind = "update"
    BY <1>2, <2>2 DEF Operations, Updates, Query
  <2>6. OpsTyped'
    <3> HIDE DEF r
    <3> QED
      BY <2>1, <2>5, OpSet DEF PageTyped
  <2> QED
    BY <1>2, <2>1, <2>2, <2>4, <2>6 DEF PageTyped, ServerTyped, StreamTyped, CacheTyped, RestTyped
<1>4. CASE StartDelete(o, m)
  <2> DEFINE r == [step |-> "sent", kind |-> "delete", memo |-> m, tries |-> 0]
  <2>1. op' = [op EXCEPT ![o] = r] /\ UNCHANGED <<shown, server, last, made, stream, cache, lost, late, faults>>
    BY <1>4 DEF StartDelete
  <2>2. r \in Operations /\ r.kind = "delete"
    BY DEF Operations, Deletes
  <2>3. OpsTyped'
    <3> HIDE DEF r
    <3> QED
      BY <2>1, <2>2, OpSet DEF PageTyped
  <2> QED
    BY <2>1, <2>3 DEF PageTyped, ServerTyped, StreamTyped, CacheTyped, RestTyped
<1>5. CASE StartReaction(o, m)
  <2> DEFINE r == [step |-> "sent", kind |-> "react", memo |-> m, value |-> last + 1, tries |-> 1]
  <2>1. op' = [op EXCEPT ![o] = r] /\ Change /\ UNCHANGED <<shown, server, made, stream, cache, lost, late, faults>>
    BY <1>5 DEF StartReaction
  <2>2. last' \in Values /\ last + 1 \in Values \ {0}
    BY <2>1, ChangeTyped DEF PageTyped
  <2>3. r \in Operations /\ r.value # 0
    BY <2>2 DEF Operations, Reactions
  <2>4. OpsTyped'
    <3> HIDE DEF r
    <3> QED
      BY <2>1, <2>3, OpSet DEF PageTyped
  <2> QED
    BY <2>1, <2>2, <2>4 DEF PageTyped, ServerTyped, StreamTyped, CacheTyped, RestTyped
<1> QED
  BY <1>1, <1>3, <1>4, <1>5

(* What the server does with a request, in cases. *)
LEMMA ServedCases ==
  ASSUME PageTyped, NEW o \in Ops, Served(o)
  PROVE  /\ op[o].step = "sent" /\ op[o].memo \in Memos /\ op[o] \in Operations
         /\ UNCHANGED <<shown, last, cache, late, faults>>
         /\ \/ /\ op[o].kind \in {"update", "react"} /\ op[o].value \in Values \ {0}
               /\ server.value[op[o].memo] # 0
               /\ server' = [server EXCEPT !.value[op[o].memo] = op[o].value]
               /\ made' = made \cup {op[o].value}
               /\ op' = [op EXCEPT ![o].step = IF op[o].kind = "react" THEN "get" ELSE "done"]
               /\ Broadcast(Event("updated", op[o].memo))
            \/ /\ op[o].kind = "delete" /\ server.value[op[o].memo] # 0
               /\ server' = Without(op[o].memo) /\ made' = made
               /\ op' = [op EXCEPT ![o].step = "done"]
               /\ Broadcast(Event("deleted", op[o].memo))
            \/ /\ op' = [op EXCEPT ![o].step = "failed"]
               /\ UNCHANGED <<server, made, stream, lost>>
<1>1. op[o].step = "sent"
  BY DEF Served
<1>2. op[o].memo \in Memos /\ op[o] \in Operations
  BY <1>1, OpIs DEF PageTyped, OpsTyped
<1>3. op[o].kind \in {"update", "react"} => op[o].value \in Values \ {0}
  BY <1>1, OpIs DEF PageTyped, OpsTyped, Updates, Reactions
<1> QED
  BY <1>1, <1>2, <1>3 DEF Served

(* A step of an operation leaves the rest of it. *)
LEMMA StepSet ==
  ASSUME OpsTyped, NEW o \in Ops, NEW s \in {"done", "failed", "get"}, op[o].step # "none",
         s = "get" => op[o].kind = "react", op' = [op EXCEPT ![o].step = s]
  PROVE  OpsTyped'
<1> DEFINE r == [op[o] EXCEPT !.step = s]
<1>1. op' = [op EXCEPT ![o] = r]
  OBVIOUS
<1>2. r \in Operations /\ r.step = s
  BY OpIs DEF Operations, Updates, Deletes, Reactions
<1> HIDE DEF r
<1> QED
  BY <1>1, <1>2, OpSet

LEMMA ServedTyped ==
  ASSUME PageTyped, NEW o \in Ops, Served(o)
  PROVE  PageTyped'
<1>1. CASE /\ op[o].kind \in {"update", "react"} /\ op[o].value \in Values \ {0}
           /\ server.value[op[o].memo] # 0
           /\ server' = [server EXCEPT !.value[op[o].memo] = op[o].value]
           /\ made' = made \cup {op[o].value}
           /\ op' = [op EXCEPT ![o].step = IF op[o].kind = "react" THEN "get" ELSE "done"]
           /\ Broadcast(Event("updated", op[o].memo))
  <2>1. ServerTyped'
    BY <1>1, ServedCases, ValuesTyped DEF PageTyped, ServerTyped
  <2>2. OpsTyped'
    BY <1>1, ServedCases, StepSet DEF PageTyped
  <2>3. StreamTyped' /\ lost' \subseteq Queries
    BY <1>1, ServedCases, EventTyped, BroadcastTyped
  <2> QED
    BY <1>1, <2>1, <2>2, <2>3, ServedCases DEF PageTyped, CacheTyped, RestTyped
<1>2. CASE /\ op[o].kind = "delete" /\ server.value[op[o].memo] # 0
           /\ server' = Without(op[o].memo) /\ made' = made
           /\ op' = [op EXCEPT ![o].step = "done"]
           /\ Broadcast(Event("deleted", op[o].memo))
  <2>1. ServerTyped'
    BY <1>2, ServedCases, WithoutTyped DEF PageTyped, ServerTyped
  <2>2. OpsTyped'
    BY <1>2, ServedCases, StepSet DEF PageTyped
  <2>3. StreamTyped' /\ lost' \subseteq Queries
    BY <1>2, ServedCases, EventTyped, BroadcastTyped
  <2> QED
    BY <1>2, <2>1, <2>2, <2>3, ServedCases DEF PageTyped, CacheTyped, RestTyped
<1>3. CASE /\ op' = [op EXCEPT ![o].step = "failed"]
           /\ UNCHANGED <<server, made, stream, lost>>
  <2>1. OpsTyped'
    BY <1>3, ServedCases, StepSet DEF PageTyped
  <2> QED
    BY <1>3, <2>1, ServedCases DEF PageTyped, ServerTyped, StreamTyped, CacheTyped, RestTyped
<1> QED
  BY <1>1, <1>2, <1>3, ServedCases

LEMMA OtherSettlesTyped ==
  ASSUME PageTyped, NEW o \in Ops, ServedGet(o) \/ Fails(o) \/ Retry(o)
  PROVE  PageTyped'
<1>1. OpsTyped'
  <2>1. CASE ServedGet(o)
    <3> DEFINE v == server.value[op[o].memo]
               s == IF v = 0 THEN "failed" ELSE "done"
               r == [op[o] EXCEPT !.step = s, !.value = v]
    <3>1. op' = [op EXCEPT ![o] = r] /\ op[o].step = "get"
      BY <2>1 DEF ServedGet
    <3>2. op[o] \in Reactions /\ v \in Values
      BY <3>1, OpIs DEF PageTyped, ServerTyped
    <3>3. r \in Operations /\ r.step # "sent"
      BY <3>2 DEF Operations, Reactions
    <3> HIDE DEF r
    <3> QED
      BY <3>1, <3>3, OpSet DEF PageTyped
  <2>2. CASE Fails(o)
    BY <2>2, StepSet DEF Fails, PageTyped
  <2>3. CASE Retry(o)
    <3> DEFINE r == [op[o] EXCEPT !.step = "sent", !.tries = 1]
    <3>1. op' = [op EXCEPT ![o] = r] /\ op[o].step = "failed" /\ op[o].tries = 0
      BY <2>3 DEF Retry
    <3>2. op[o] \in Updates \/ op[o] \in Deletes
      <4>1. op[o].kind # "react"
        BY <3>1, OpIs DEF PageTyped, Reactions
      <4> QED
        BY <3>1, <4>1, OpIs DEF PageTyped
    <3>3. r \in Operations /\ r.kind # "react"
      BY <3>2 DEF Operations, Updates, Deletes
    <3> HIDE DEF r
    <3> QED
      BY <3>1, <3>3, OpSet DEF PageTyped
  <2> QED
    BY <2>1, <2>2, <2>3
<1>2. UNCHANGED <<shown, server, last, made, stream, cache, lost, late>> /\ faults' \in Nat
  BY DEF ServedGet, Fails, Retry, Fault, PageTyped, RestTyped
<1> QED
  BY <1>1, <1>2 DEF PageTyped, ServerTyped, StreamTyped, CacheTyped, RestTyped

(* What the end of a change does, in cases.                                *)
Again(o) ==
    CASE op[o].kind = "update" -> {List, Stats}
      [] op[o].kind = "react"  -> {List} \cup ParentQuery(op[o].memo)
      [] op[o].kind = "delete" -> {List, Stats} \cup (IF op[o].memo \in Comments THEN {CommentsOf(Parent[op[o].memo])} ELSE {})

LEMMA SucceedsCases ==
  ASSUME PageTyped, NEW o \in Ops, Succeeds(o)
  PROVE  /\ op[o].step = "done" /\ op[o].memo \in Memos /\ op' = [op EXCEPT ![o] = [step |-> "none"]]
         /\ UNCHANGED <<shown, server, last, made, stream, faults>>
         /\ \/ /\ op[o].kind = "delete"
               /\ cache' = Removed(Refetched(cache, Again(o)), {Detail(op[o].memo)})
               /\ lost' = lost \ (Again(o) \cup {Detail(op[o].memo)})
               /\ late' = late \ (Again(o) \cup {Detail(op[o].memo)})
            \/ /\ op[o].kind \in {"update", "react"}
               /\ op[o].value \in Values /\ Answered(op[o].memo, op[o].value) \in Data
               /\ cache' = Given(Refetched(cache, Again(o)), Detail(op[o].memo), Answered(op[o].memo, op[o].value))
               /\ lost' = LostWith(Detail(op[o].memo), Answered(op[o].memo, op[o].value)) \ Again(o)
               /\ late' = LateWith(Detail(op[o].memo), Answered(op[o].memo, op[o].value)) \ Again(o)
<1>1. op[o].step = "done"
  BY DEF Succeeds
<1>2. op[o].memo \in Memos /\ op[o].kind \in {"update", "delete", "react"}
  BY <1>1, OpIs DEF PageTyped
<1>3. op[o].kind \in {"update", "react"} => op[o].value \in Values
  BY <1>1, OpIs DEF PageTyped, Updates, Reactions
<1>4. op[o].kind \in {"update", "react"} => Answered(op[o].memo, op[o].value) \in Data
  BY <1>2, <1>3, NothingTyped DEF Answered, Data
<1> QED
  BY <1>1, <1>2, <1>3, <1>4 DEF Succeeds, Again

LEMMA GivesUpCases ==
  ASSUME PageTyped, NEW o \in Ops, GivesUp(o)
  PROVE  /\ op[o].step = "failed" /\ op[o].memo \in Memos /\ op' = [op EXCEPT ![o] = [step |-> "none"]]
         /\ UNCHANGED <<shown, server, last, made, stream, faults>>
         /\ \/ /\ op[o].kind = "update" /\ op[o].had /\ op[o].prev \in Data
               /\ cache' = Given(cache, Detail(op[o].memo), op[o].prev)
               /\ lost' = LostWith(Detail(op[o].memo), op[o].prev)
               /\ late' = LateWith(Detail(op[o].memo), op[o].prev)
            \/ /\ ~(op[o].kind = "update" /\ op[o].had)
               /\ UNCHANGED <<cache, lost, late>>
<1>1. op[o].step = "failed"
  BY DEF GivesUp
<1>2. op[o].memo \in Memos /\ (op[o].kind = "update" => op[o].prev \in Data)
  BY <1>1, OpIs DEF PageTyped, Updates
<1> QED
  BY <1>1, <1>2 DEF GivesUp

LEMMA AgainTyped ==
  ASSUME PageTyped, NEW o \in Ops, op[o].step # "none"
  PROVE  Again(o) \subseteq Queries /\ List \in Again(o)
<1>1. op[o].memo \in Memos /\ op[o].kind \in {"update", "delete", "react"}
  BY OpIs DEF PageTyped
<1>2. \A k \in Comments : CommentsOf(Parent[k]) \in Queries
  BY QueriesAre
<1>3. server.related \subseteq Comments
  BY DEF PageTyped, ServerTyped
<1> QED
  BY <1>1, <1>2, <1>3, QueriesAre DEF Again, ParentQuery

LEMMA EndsTyped ==
  ASSUME PageTyped, NEW o \in Ops, Succeeds(o) \/ GivesUp(o)
  PROVE  PageTyped'
<1>1. op' = [op EXCEPT ![o] = [step |-> "none"]] /\ UNCHANGED <<shown, server, last, made, stream, faults>>
      /\ op[o].step # "none" /\ Detail(op[o].memo) \in Queries
  BY SucceedsCases, GivesUpCases, QueriesAre
<1>2. OpsTyped'
  <2>1. [step |-> "none"] \in Operations
    BY DEF Operations, Idle
  <2> QED
    BY <1>1, <2>1, OpSet DEF PageTyped
<1>3. Refetched(cache, Again(o)) \in [Queries -> Query]
  BY RefetchedIs DEF PageTyped, CacheTyped
<1>4. \A d : LostWith(Detail(op[o].memo), d) \subseteq Queries /\ LateWith(Detail(op[o].memo), d) \subseteq Queries
  BY <1>1 DEF LostWith, LateWith, PageTyped, RestTyped
<1>5. cache' \in [Queries -> Query] /\ lost' \subseteq Queries /\ late' \subseteq Queries
  <2>1. CASE Succeeds(o)
    <3>1. CASE op[o].kind = "delete"
      <4>1. /\ cache' = Removed(Refetched(cache, Again(o)), {Detail(op[o].memo)})
            /\ lost' = lost \ (Again(o) \cup {Detail(op[o].memo)})
            /\ late' = late \ (Again(o) \cup {Detail(op[o].memo)})
        BY <2>1, <3>1, SucceedsCases
      <4>2. cache' \in [Queries -> Query]
        BY <1>3, <4>1, RemovedIs
      <4> QED
        BY <4>1, <4>2 DEF PageTyped, RestTyped
    <3>2. CASE op[o].kind # "delete"
      <4> DEFINE d == Answered(op[o].memo, op[o].value)
      <4>1. /\ cache' = Given(Refetched(cache, Again(o)), Detail(op[o].memo), d) /\ d \in Data
            /\ lost' = LostWith(Detail(op[o].memo), d) \ Again(o)
            /\ late' = LateWith(Detail(op[o].memo), d) \ Again(o)
        BY <2>1, <3>2, SucceedsCases
      <4> HIDE DEF d
      <4>2. cache' \in [Queries -> Query]
        BY <1>1, <1>3, <4>1, GivenIs
      <4> QED
        BY <1>4, <4>1, <4>2
    <3> QED
      BY <3>1, <3>2
  <2>2. CASE GivesUp(o)
    BY <1>1, <1>4, <2>2, GivesUpCases, GivenIs DEF PageTyped, RestTyped, CacheTyped
  <2> QED
    BY <2>1, <2>2
<1> QED
  BY <1>1, <1>2, <1>5 DEF PageTyped, ServerTyped, StreamTyped, CacheTyped, RestTyped

LEMMA InitTyped ==
  ASSUME Init
  PROVE  PageTyped
<1>1. ServerTyped /\ CacheTyped /\ OpsTyped
  BY NothingTyped DEF Init, ServerTyped, CacheTyped, OpsTyped, Values, Operations, Idle
<1>2. StreamTyped
  <2>1. <<>> \in Seq(Notices) /\ Len(<<>>) = 0
    OBVIOUS
  <2> QED
    BY <2>1 DEF Init, StreamTyped
<1>3. RestTyped
  BY DEF Init, RestTyped, Values
<1> QED
  BY <1>1, <1>2, <1>3 DEF PageTyped

LEMMA NextTyped ==
  ASSUME PageTyped, [Next]_vars
  PROVE  PageTyped'
<1>1. CASE UNCHANGED vars
  BY <1>1 DEF vars, PageTyped, ServerTyped, StreamTyped, CacheTyped, OpsTyped, RestTyped
<1>2. CASE Others \/ Stream \/ Fetching
  BY <1>2, OthersTyped, StreamStepTyped, FetchingTyped
<1>3. CASE \E o \in Ops : Starts(o) \/ Settles(o) \/ Fails(o)
  BY <1>3, StartsTyped, ServedTyped, OtherSettlesTyped, EndsTyped DEF Settles
<1> QED
  BY <1>1, <1>2, <1>3 DEF Next

-------------------------------------------------------------------------------
(* What the page shows, or is about to show, is what the server has.       *)
Coming(q) == \E i \in DOMAIN stream.events : q \in Reach(stream.events[i])

(* The page shows a change of the memo that the server has not made yet.   *)
Optimistic(q) ==
    \E o \in Ops :
        op[o].step # "none" /\ op[o].kind = "update" /\ op[o].had /\ q = Detail(op[o].memo)

GoodList(data) == \A m \in Top : data[m] = server.value[m]
GoodStats(data) == \A m \in Top : data[m] # 0 <=> server.value[m] # 0
GoodDetail(m, data) == data = Truth(Detail(m))
GoodComments(p, data) ==
    server.value[p] # 0 => \A k \in server.related : Parent[k] = p => data[k] # 0

Good(q, data) ==
    /\ q = List => GoodList(data)
    /\ q = Stats => GoodStats(data)
    /\ \A m \in Top : q = Detail(m) => GoodDetail(m, data)
    /\ \A p \in Top : q = CommentsOf(p) => GoodComments(p, data)

FreshAt(q) ==
    q \in shown /\ q \notin lost /\ ~Coming(q) =>
        /\ cache[q].fetch = "read" => Good(q, cache[q].read)
        /\ cache[q].fetch = "none" /\ cache[q].has /\ q \notin late /\ ~Optimistic(q)
              => Good(q, cache[q].data)

Fresh == \A q \in Queries : FreshAt(q)

(* A memo that is no comment is there until it is deleted, and a comment   *)
(* has its relation only while it is there.                                *)
Lives ==
    /\ \A m \in Top : server.value[m] = 0 => m \in server.gone
    /\ \A k \in server.related : server.value[k] # 0

LateDetails == late \subseteq {Detail(m) : m \in Memos}

PageInv == PageTyped /\ Lives /\ LateDetails /\ Fresh

(* What the server answers is what it has. *)
LEMMA TruthGood ==
  ASSUME ServerTyped, Lives, NEW q \in Queries
  PROVE  Good(q, Truth(q))
<1>1. server.related \subseteq Comments /\ server.related \cap Top = {}
  BY DEF ServerTyped, Comments
<1>2. GoodList(Truth(List))
  BY <1>1, TruthIs DEF GoodList, Memos
<1>3. GoodStats(Truth(Stats))
  BY TruthIs DEF GoodStats, Memos
<1>4. \A m \in Top : GoodDetail(m, Truth(Detail(m)))
  BY DEF GoodDetail
<1>5. \A p \in Top : GoodComments(p, Truth(CommentsOf(p)))
  BY <1>1, TruthIs DEF GoodComments, Lives, Memos
<1> QED
  BY <1>2, <1>3, <1>4, <1>5 DEF Good

(* A step that leaves a query alone. *)
LEMMA FreshKept ==
  ASSUME NEW q \in Queries, FreshAt(q), shown' = shown, cache'[q] = cache[q],
         q \in lost => q \in lost', q \in late => q \in late',
         Coming(q) => Coming(q)', Optimistic(q) => Optimistic(q)',
         \A data : Good(q, data) => Good(q, data)'
  PROVE  FreshAt(q)'
BY DEF FreshAt

(* A query that is being fetched, or that is gone, will be. *)
LEMMA FreshSent ==
  ASSUME NEW q \in Queries, cache'[q].fetch = "sent" \/ cache'[q] = NoQuery
  PROVE  FreshAt(q)'
BY DEF FreshAt, NoQuery

LEMMA GoodUnchanged ==
  ASSUME server' = server
  PROVE  \A q, data : Good(q, data) => Good(q, data)'
<1>1. \A q : Truth(q)' = Truth(q)
  BY DEF Truth
<1> QED
  BY <1>1 DEF Good, GoodList, GoodStats, GoodDetail, GoodComments

(* The queries of the events on their way, when one is added or taken.     *)
LEMMA ComingAppend ==
  ASSUME StreamTyped, NEW e \in Notices, stream' = [stream EXCEPT !.events = Append(@, e)]
  PROVE  \A q : Coming(q)' <=> Coming(q) \/ q \in Reach(e)
<1> DEFINE s == stream.events
<1>1. s \in Seq(Notices) /\ stream'.events = Append(s, e)
  BY DEF StreamTyped
<1>2. /\ DOMAIN Append(s, e) = DOMAIN s \cup {Len(s) + 1}
      /\ \A i \in DOMAIN s : Append(s, e)[i] = s[i]
      /\ Append(s, e)[Len(s) + 1] = e
  BY <1>1
<1>3. \A x : Reach(x)' = Reach(x)
  BY DEF Reach, Affected
<1> QED
  BY <1>1, <1>2, <1>3 DEF Coming

LEMMA ComingTail ==
  ASSUME StreamTyped, stream.events # <<>>, stream' = [stream EXCEPT !.events = Tail(@)]
  PROVE  \A q : Coming(q) => Coming(q)' \/ q \in Reach(Head(stream.events))
<1> DEFINE s == stream.events
<1>1. s \in Seq(Notices) /\ stream'.events = Tail(s) /\ s # <<>>
  BY DEF StreamTyped
<1>2. /\ \A i \in DOMAIN s : i = 1 \/ (i - 1 \in DOMAIN Tail(s) /\ Tail(s)[i - 1] = s[i])
      /\ s[1] = Head(s)
  BY <1>1
<1>3. \A x : Reach(x)' = Reach(x)
  BY DEF Reach, Affected
<1> SUFFICES ASSUME NEW q, NEW i \in DOMAIN s, q \in Reach(s[i]) PROVE Coming(q)' \/ q \in Reach(Head(s))
  BY DEF Coming
<1> QED
  BY <1>1, <1>2, <1>3 DEF Coming

(* A step of the server of which an event tells. *)
LEMMA ServerStep ==
  ASSUME PageInv, NEW e \in Notices, Broadcast(e), UNCHANGED <<shown, cache, late>>,
         \A q \in Queries : Optimistic(q) => Optimistic(q)',
         \A q \in Queries \ Reach(e) : \A data : Good(q, data) => Good(q, data)'
  PROVE  Fresh'
<1> SUFFICES ASSUME NEW q \in Queries PROVE FreshAt(q)'
  BY DEF Fresh, Queries
<1>1. FreshAt(q) /\ cache'[q] = cache[q] /\ shown' = shown /\ late' = late
  BY DEF PageInv, Fresh
<1>2. CASE stream' = [stream EXCEPT !.events = Append(@, e)] /\ lost' = lost
  <2>1. Coming(q)' <=> Coming(q) \/ q \in Reach(e)
    BY <1>2, ComingAppend DEF PageInv, PageTyped
  <2>2. CASE q \in Reach(e)
    BY <2>1, <2>2 DEF FreshAt
  <2>3. CASE q \notin Reach(e)
    BY <1>1, <1>2, <2>1, <2>3, FreshKept
  <2> QED
    BY <2>2, <2>3
<1>3. CASE stream' = stream /\ lost' = lost \cup Reach(e)
  <2>1. Coming(q)' <=> Coming(q)
    BY <1>3 DEF Coming, Reach, Affected
  <2>2. CASE q \in Reach(e)
    BY <1>3, <2>2 DEF FreshAt
  <2>3. CASE q \notin Reach(e)
    BY <1>1, <1>3, <2>1, <2>3, FreshKept
  <2> QED
    BY <2>2, <2>3
<1> QED
  BY <1>2, <1>3 DEF Broadcast, Reach

LEMMA TruthNext ==
  \A m \in Memos : Truth(Detail(m))' = [x \in Memos |-> IF x = m THEN server'.value[x] ELSE 0]
<1> SUFFICES ASSUME NEW m \in Memos
             PROVE  Truth(Detail(m))' = [x \in Memos |-> IF x = m THEN server'.value[x] ELSE 0]
  OBVIOUS
<1>1. Detail(m)[1] = "detail" /\ Detail(m)[2] = m
  BY DEF Detail
<1> QED
  BY <1>1, QueriesDiffer DEF Truth

(* What a query shows stays good if the server keeps what it is about.     *)
LEMMA GoodKept ==
  ASSUME NEW q, NEW data, Good(q, data),
         q = List => \A m \in Top : server'.value[m] = server.value[m],
         q = Stats => \A m \in Top : server'.value[m] = 0 <=> server.value[m] = 0,
         \A m \in Top : q = Detail(m) => server'.value[m] = server.value[m],
         \A p \in Top : q = CommentsOf(p) =>
            /\ server'.value[p] # 0 => server.value[p] # 0
            /\ \A k \in server'.related : Parent[k] = p => k \in server.related
  PROVE  Good(q, data)'
<1>1. q = List => GoodList(data)'
  BY DEF Good, GoodList
<1>2. q = Stats => GoodStats(data)'
  BY DEF Good, GoodStats
<1>3. ASSUME NEW m \in Top, q = Detail(m) PROVE GoodDetail(m, data)'
  <2>1. server'.value[m] = server.value[m] /\ m \in Memos
    BY <1>3 DEF Memos
  <2>2. Truth(Detail(m))' = Truth(Detail(m))
    BY <2>1, TruthIs, TruthNext
  <2> QED
    BY <1>3, <2>2 DEF Good, GoodDetail
<1>4. ASSUME NEW p \in Top, q = CommentsOf(p) PROVE GoodComments(p, data)'
  BY <1>4 DEF Good, GoodComments
<1> QED
  BY <1>1, <1>2, <1>3, <1>4 DEF Good

LEMMA NoticeReach ==
  /\ \A m : Reach(Event("created", m)) = {List, Stats}
  /\ \A m : Reach(Event("updated", m)) = {Detail(m), List}
  /\ \A m : Reach(Event("deleted", m)) = {List, Stats, Detail(m)}
  /\ \A p : Reach(Event("comment", p)) = {CommentsOf(p), Detail(p)}
BY DEF Reach, Affected, Event

(* Changes, deletions and relations at the server, whoever asks for them.  *)
LEMMA ChangedInv ==
  ASSUME PageInv, NEW m \in Memos, NEW v \in Values \ {0}, server.value[m] # 0,
         server' = [server EXCEPT !.value[m] = v], Broadcast(Event("updated", m)),
         UNCHANGED <<shown, cache, late>>,
         \A q \in Queries : Optimistic(q) => Optimistic(q)'
  PROVE  Fresh' /\ Lives' /\ LateDetails'
<1> DEFINE e == Event("updated", m)
<1>1. e \in Notices /\ Reach(e) = {Detail(m), List}
  BY EventTyped, NoticeReach
<1>2. /\ server'.related = server.related /\ server'.gone = server.gone
      /\ \A x \in Memos : server'.value[x] = IF x = m THEN v ELSE server.value[x]
  BY DEF PageInv, PageTyped, ServerTyped
<1>3. \A q \in Queries \ Reach(e) : \A data : Good(q, data) => Good(q, data)'
  <2> SUFFICES ASSUME NEW q \in Queries \ Reach(e), NEW data, Good(q, data) PROVE Good(q, data)'
    OBVIOUS
  <2>1. q # List /\ q # Detail(m) /\ \A x \in Top : x \in Memos
    BY <1>1 DEF Memos
  <2> HIDE DEF e
  <2> QED
    BY <1>2, <2>1, GoodKept
<1> HIDE DEF e
<1>4. Fresh'
  BY <1>1, <1>3, ServerStep DEF e
<1>5. Lives'
  BY <1>2 DEF PageInv, PageTyped, ServerTyped, Lives, Memos
<1> QED
  BY <1>4, <1>5 DEF PageInv, LateDetails

LEMMA DeletedInv ==
  ASSUME PageInv, NEW m \in Memos, server' = Without(m), Broadcast(Event("deleted", m)),
         UNCHANGED <<shown, cache, late>>,
         \A q \in Queries : Optimistic(q) => Optimistic(q)'
  PROVE  Fresh' /\ Lives' /\ LateDetails'
<1> DEFINE e == Event("deleted", m)
           gone == {m} \cup {k \in server.related : Parent[k] = m}
<1>1. e \in Notices /\ Reach(e) = {List, Stats, Detail(m)}
  BY EventTyped, NoticeReach
<1>2. /\ server'.related = server.related \ gone /\ server'.gone = server.gone \cup gone
      /\ \A x \in Memos : server'.value[x] = IF x \in gone THEN 0 ELSE server.value[x]
  BY DEF Without
<1>3. server.related \subseteq Comments /\ server.related \cap Top = {} /\ Comments \subseteq Memos
  BY DEF PageInv, PageTyped, ServerTyped, Comments, Memos
<1>4. \A q \in Queries \ Reach(e) : \A data : Good(q, data) => Good(q, data)'
  <2> SUFFICES ASSUME NEW q \in Queries \ Reach(e), NEW data, Good(q, data) PROVE Good(q, data)'
    OBVIOUS
  <2>1. q # List /\ q # Stats /\ q # Detail(m)
    BY <1>1
  <2>2. \A x \in Top : x \in Memos /\ (x # m => server'.value[x] = server.value[x])
    BY <1>2, <1>3 DEF Memos
  <2>3. \A x \in Top : server'.value[x] # 0 => server.value[x] # 0
    BY <1>2 DEF Memos
  <2> HIDE DEF e, gone
  <2> QED
    BY <1>2, <2>1, <2>2, <2>3, GoodKept
<1>5. Lives'
  BY <1>2, <1>3 DEF PageInv, Lives, Memos
<1> HIDE DEF e, gone
<1>6. Fresh'
  BY <1>1, <1>4, ServerStep DEF e
<1> QED
  BY <1>5, <1>6 DEF PageInv, LateDetails

LEMMA CreateInv ==
  ASSUME PageInv, NEW m \in Memos, Create(m)
  PROVE  Fresh' /\ Lives' /\ LateDetails'
<1> DEFINE e == Event("created", m)
<1>1. e \in Notices /\ Reach(e) = {List, Stats}
  BY EventTyped, NoticeReach
<1>2. /\ server.value[m] = 0 /\ m \notin server.gone /\ Broadcast(e)
      /\ server' = [server EXCEPT !.value[m] = last + 1] /\ UNCHANGED <<shown, cache, op, late>>
      /\ last + 1 \in Values \ {0}
  BY ChangeTyped DEF Create, PageInv, PageTyped
<1>3. m \notin Top /\ m \notin server.related
  BY <1>2 DEF PageInv, Lives
<1>4. /\ server'.related = server.related /\ server'.gone = server.gone
      /\ \A x \in Memos : server'.value[x] = IF x = m THEN last + 1 ELSE server.value[x]
  BY <1>2 DEF PageInv, PageTyped, ServerTyped
<1>5. \A q \in Queries \ Reach(e) : \A data : Good(q, data) => Good(q, data)'
  <2> SUFFICES ASSUME NEW q \in Queries \ Reach(e), NEW data, Good(q, data) PROVE Good(q, data)'
    OBVIOUS
  <2>1. \A x \in Top : server'.value[x] = server.value[x]
    BY <1>3, <1>4 DEF Memos
  <2> HIDE DEF e
  <2> QED
    BY <1>4, <2>1, GoodKept
<1>6. \A q \in Queries : Optimistic(q) => Optimistic(q)'
  BY <1>2 DEF Optimistic
<1>7. Lives'
  BY <1>2, <1>3, <1>4 DEF PageInv, PageTyped, ServerTyped, Lives, Memos
<1> HIDE DEF e
<1>8. Fresh'
  BY <1>1, <1>2, <1>5, <1>6, ServerStep
<1> QED
  BY <1>2, <1>7, <1>8 DEF PageInv, LateDetails

LEMMA RelateInv ==
  ASSUME PageInv, NEW k \in Comments, Relate(k)
  PROVE  Fresh' /\ Lives' /\ LateDetails'
<1> DEFINE p == Parent[k]
           e == Event("comment", p)
<1>1. p \in Top /\ e \in Notices /\ Reach(e) = {CommentsOf(p), Detail(p)}
  BY EventTyped, NoticeReach
<1>2. /\ server.value[k] # 0 /\ Broadcast(e)
      /\ server' = [server EXCEPT !.related = @ \cup {k}] /\ UNCHANGED <<shown, cache, op, late>>
  BY DEF Relate
<1>3. server'.value = server.value /\ server'.gone = server.gone /\ server'.related = server.related \cup {k}
  BY <1>2 DEF PageInv, PageTyped, ServerTyped
<1>4. \A q \in Queries \ Reach(e) : \A data : Good(q, data) => Good(q, data)'
  <2> SUFFICES ASSUME NEW q \in Queries \ Reach(e), NEW data, Good(q, data) PROVE Good(q, data)'
    OBVIOUS
  <2>1. q # CommentsOf(p)
    BY <1>1
  <2>2. \A x \in Top : q = CommentsOf(x) => \A c \in server'.related : Parent[c] = x => c \in server.related
    BY <1>3, <2>1
  <2> HIDE DEF e, p
  <2> QED
    BY <1>3, <2>2, GoodKept
<1>5. \A q \in Queries : Optimistic(q) => Optimistic(q)'
  BY <1>2 DEF Optimistic
<1>6. Lives'
  BY <1>2, <1>3 DEF PageInv, Lives
<1> HIDE DEF e, p
<1>7. Fresh'
  BY <1>1, <1>2, <1>4, <1>5, ServerStep
<1> QED
  BY <1>2, <1>6, <1>7 DEF PageInv, LateDetails

LEMMA OthersInv ==
  ASSUME PageInv, Others
  PROVE  Fresh' /\ Lives' /\ LateDetails'
<1>1. PICK m \in Memos : Create(m) \/ Update(m) \/ Delete(m) \/ (m \in Comments /\ Relate(m))
  BY DEF Others
<1>2. CASE Update(m)
  <2>1. /\ server.value[m] # 0 /\ server' = [server EXCEPT !.value[m] = last + 1]
        /\ Broadcast(Event("updated", m)) /\ UNCHANGED <<shown, cache, op, late>>
        /\ last + 1 \in Values \ {0}
    BY <1>2, ChangeTyped DEF Update, PageInv, PageTyped
  <2>2. \A q \in Queries : Optimistic(q) => Optimistic(q)'
    BY <2>1 DEF Optimistic
  <2> QED
    BY <2>1, <2>2, ChangedInv
<1>3. CASE Delete(m)
  <2>1. \A q \in Queries : Optimistic(q) => Optimistic(q)'
    BY <1>3 DEF Delete, Optimistic
  <2> QED
    BY <1>3, <2>1, DeletedInv DEF Delete
<1> QED
  BY <1>1, <1>2, <1>3, CreateInv, RelateInv

-------------------------------------------------------------------------------
(* Events, fetches and the user's changes leave the server as it is.       *)
LEMMA LivesKept ==
  ASSUME PageInv, server' = server, late' \subseteq late
  PROVE  Lives' /\ LateDetails'
BY DEF PageInv, Lives, LateDetails

LEMMA RefetchFresh ==
  ASSUME PageInv, NEW Q, NEW q \in Q \cap Queries, shown' = shown,
         cache'[q] = Refetched(cache, Q)[q]
  PROVE  FreshAt(q)'
<1>1. q \in shown => cache'[q].fetch = "sent"
  BY RefetchedIs DEF PageInv, PageTyped, CacheTyped
<1>2. CASE q \in shown
  BY <1>1, <1>2, FreshSent
<1>3. CASE q \notin shown
  BY <1>3 DEF FreshAt
<1> QED
  BY <1>2, <1>3

LEMMA DeliverFresh ==
  ASSUME PageInv, Deliver
  PROVE  Fresh' /\ Lives' /\ LateDetails'
<1> DEFINE e == Head(stream.events)
           removed == IF e.type = "deleted" THEN {Detail(e.name)} ELSE {}
<1>1. /\ stream.events # <<>> /\ stream' = [stream EXCEPT !.events = Tail(@)]
      /\ cache' = Removed(Refetched(cache, Affected(e)), removed)
      /\ lost' = lost \ (Affected(e) \cup removed) /\ late' = late \ (Affected(e) \cup removed)
      /\ UNCHANGED <<shown, server, op>>
  BY DEF Deliver, Handle
<1>2. Reach(e) = Affected(e) \cup removed
  BY DEF Reach
<1>3. \A q : Coming(q) => Coming(q)' \/ q \in Reach(e)
  BY <1>1, ComingTail DEF PageInv, PageTyped
<1>4. cache \in [Queries -> Query] /\ Refetched(cache, Affected(e)) \in [Queries -> Query]
  BY RefetchedIs DEF PageInv, PageTyped, CacheTyped
<1>5. \A q : Optimistic(q) => Optimistic(q)'
  BY <1>1 DEF Optimistic
<1> HIDE DEF e, removed
<1>6. ASSUME NEW q \in Queries PROVE FreshAt(q)'
  <2>1. CASE q \in removed
    <3>1. cache'[q] = NoQuery
      BY <1>1, <1>4, <2>1, RemovedIs
    <3> QED
      BY <3>1, FreshSent
  <2>2. CASE q \in Affected(e) \ removed
    <3>1. cache'[q] = Refetched(cache, Affected(e))[q]
      BY <1>1, <1>4, <2>2, RemovedIs
    <3> QED
      BY <1>1, <2>2, <3>1, RefetchFresh
  <2>3. CASE q \notin Reach(e)
    <3>1. cache'[q] = cache[q]
      BY <1>1, <1>2, <1>4, <2>3, RemovedIs, RefetchedIs
    <3>2. (q \in lost => q \in lost') /\ (q \in late => q \in late') /\ (Coming(q) => Coming(q)')
      BY <1>1, <1>2, <1>3, <2>3
    <3>3. FreshAt(q) /\ \A data : Good(q, data) => Good(q, data)'
      BY <1>1, GoodUnchanged DEF PageInv, Fresh
    <3> QED
      BY <1>1, <1>5, <3>1, <3>2, <3>3, FreshKept
  <2> QED
    BY <1>2, <2>1, <2>2, <2>3
<1>7. Fresh'
  BY <1>6 DEF Fresh, Queries
<1> QED
  BY <1>1, <1>7, LivesKept

LEMMA StreamInv ==
  ASSUME PageInv, Stream
  PROVE  Fresh' /\ Lives' /\ LateDetails'
<1>1. CASE Connect \/ Subscribe \/ Disconnect
  <2>1. UNCHANGED <<shown, server, op, cache, late>>
    BY <1>1 DEF Connect, Subscribe, Disconnect
  <2>2. \A q : (q \in lost \/ Coming(q)) => (q \in lost' \/ Coming(q)')
    <3>1. CASE Connect \/ Subscribe
      <4>1. stream'.events = stream.events /\ lost' = lost
        BY <3>1 DEF Connect, Subscribe, PageInv, PageTyped, StreamTyped
      <4> QED
        BY <4>1 DEF Coming, Reach, Affected
    <3>2. CASE Disconnect
      <4>1. lost' = lost \cup UNION {Reach(stream.events[i]) : i \in DOMAIN stream.events}
        BY <3>2 DEF Disconnect, Reach
      <4> QED
        BY <4>1 DEF Coming
    <3> QED
      BY <1>1, <3>1, <3>2
  <2>3. ASSUME NEW q \in Queries PROVE FreshAt(q)'
    <3>1. FreshAt(q) /\ (Optimistic(q) => Optimistic(q)') /\ \A data : Good(q, data) => Good(q, data)'
      BY <2>1, GoodUnchanged DEF PageInv, Fresh, Optimistic
    <3> QED
      BY <2>1, <2>2, <3>1 DEF FreshAt
  <2>4. Fresh'
    BY <2>3 DEF Fresh, Queries
  <2> QED
    BY <2>1, <2>4, LivesKept
<1> QED
  BY <1>1, DeliverFresh DEF Stream

LEMMA FetchingInv ==
  ASSUME PageInv, Fetching
  PROVE  Fresh' /\ Lives' /\ LateDetails'
<1>1. PICK q \in Queries : Look(q) \/ Read(q) \/ Arrive(q) \/ FetchFails(q)
  BY DEF Fetching
<1>2. UNCHANGED <<shown, server, stream, op>>
  BY <1>1 DEF Look, Read, Arrive, FetchFails
<1>3. cache \in [Queries -> Query] /\ cache[q] \in Query
  BY DEF PageInv, PageTyped, CacheTyped
<1>4. \A x \in Queries \ {q} : cache'[x] = cache[x] /\ (x \in lost => x \in lost') /\ (x \in late => x \in late')
  <2>1. CASE Look(q)
    BY <1>3, <2>1, RefetchedIs DEF Look
  <2>2. CASE Read(q) \/ Arrive(q) \/ FetchFails(q)
    BY <1>3, <2>2 DEF Read, Arrive, FetchFails
  <2> QED
    BY <1>1, <2>1, <2>2
<1>5. \A x : (Coming(x) => Coming(x)') /\ (Optimistic(x) => Optimistic(x)')
  BY <1>2 DEF Coming, Optimistic, Reach, Affected
<1>6. \A x, data : Good(x, data) => Good(x, data)'
  BY <1>2, GoodUnchanged
<1>7. \A x \in Queries \ {q} : FreshAt(x)'
  BY <1>2, <1>4, <1>5, <1>6, FreshKept DEF PageInv, Fresh
<1>8. FreshAt(q)'
  <2>1. CASE Look(q)
    BY <1>2, <2>1, RefetchFresh DEF Look
  <2>2. CASE Read(q)
    <3>1. cache'[q].fetch = "read" /\ cache'[q].read = Truth(q)
      BY <1>3, <2>2 DEF Read, Query
    <3>2. PICK t : t = Truth(q)
      OBVIOUS
    <3>3. Good(q, t)'
      BY <1>6, <3>2, TruthGood DEF PageInv, PageTyped
    <3> QED
      BY <3>1, <3>2, <3>3 DEF FreshAt
  <2>3. CASE Arrive(q)
    <3>1. /\ cache[q].fetch = "read" /\ lost' = lost
          /\ cache'[q].fetch = "none" /\ cache'[q].data = cache[q].read
      BY <1>3, <2>3 DEF Arrive, Query
    <3>2. FreshAt(q)
      BY DEF PageInv, Fresh
    <3> QED
      BY <1>2, <1>5, <1>6, <3>1, <3>2 DEF FreshAt
  <2>4. CASE FetchFails(q)
    BY <2>4 DEF FetchFails, FreshAt
  <2> QED
    BY <1>1, <2>1, <2>2, <2>3, <2>4
<1>9. Fresh'
  BY <1>7, <1>8 DEF Fresh, Queries
<1>10. late' \subseteq late
  BY <1>1 DEF Look, Read, Arrive, FetchFails
<1> QED
  BY <1>2, <1>9, <1>10, LivesKept

(* Whatever is under way goes on, or comes to be. *)
LEMMA OptimisticGoesOn ==
  ASSUME PageInv, NEW o \in Ops, NEW r, op' = [op EXCEPT ![o] = r],
         op[o].step = "none" \/ (r.step # "none" /\ r.kind = op[o].kind /\ r.memo = op[o].memo
                                  /\ (r.kind = "update" => r.had = op[o].had))
  PROVE  \A q : Optimistic(q) => Optimistic(q)'
BY DEF Optimistic, PageInv, PageTyped, OpsTyped

(* Steps of the user and of the network that leave the page alone.          *)
LEMMA OpStep ==
  ASSUME PageInv, UNCHANGED <<shown, server, stream, cache, late, lost>>,
         \A q : Optimistic(q) => Optimistic(q)'
  PROVE  Fresh' /\ Lives' /\ LateDetails'
<1>1. \A q : Coming(q) => Coming(q)'
  BY DEF Coming, Reach, Affected
<1>2. \A x, data : Good(x, data) => Good(x, data)'
  BY GoodUnchanged
<1>3. \A q \in Queries : FreshAt(q)'
  BY <1>1, <1>2, FreshKept DEF PageInv, Fresh
<1> QED
  BY <1>3, LivesKept DEF Fresh, Queries

LEMMA StartsInv ==
  ASSUME PageInv, NEW o \in Ops, Starts(o)
  PROVE  Fresh' /\ Lives' /\ LateDetails'
<1>1. PICK m \in Memos : StartUpdate(o, m) \/ StartDelete(o, m) \/ StartReaction(o, m)
  BY DEF Starts
<1>2. CASE StartDelete(o, m) \/ StartReaction(o, m)
  <2>1. op[o].step = "none" /\ (\E r : op' = [op EXCEPT ![o] = r]) /\ UNCHANGED <<shown, server, stream, cache, late, lost>>
    BY <1>2 DEF StartDelete, StartReaction
  <2> QED
    BY <2>1, OptimisticGoesOn, OpStep
<1>3. CASE StartUpdate(o, m)
  <2> DEFINE q == Detail(m)
  <2>1. /\ op[o].step = "none"
        /\ op' = [op EXCEPT ![o] = [step |-> "sent", kind |-> "update", memo |-> m, value |-> last + 1,
                                    had |-> cache[q].has, prev |-> cache[q].data, tries |-> 0]]
        /\ cache' = [cache EXCEPT ![q].fetch = "none", ![q].read = Nothing,
                                  ![q].data = IF cache[q].has THEN [@ EXCEPT ![m] = last + 1] ELSE @]
        /\ lost' = (IF cache[q].fetch # "none" THEN lost \cup {q} ELSE lost)
        /\ UNCHANGED <<shown, server, stream, late>>
    BY <1>3 DEF StartUpdate
  <2>2. q \in Queries /\ cache \in [Queries -> Query] /\ cache[q] \in Query
    BY QueriesAre DEF PageInv, PageTyped, CacheTyped
  <2>3. \A x : (Coming(x) => Coming(x)') /\ (Optimistic(x) => Optimistic(x)')
    BY <2>1, OptimisticGoesOn DEF Coming, Reach, Affected
  <2>4. \A x, data : Good(x, data) => Good(x, data)'
    BY <2>1, GoodUnchanged
  <2>5. cache'[q].has = cache[q].has /\ cache'[q].fetch = "none" /\ \A x \in Queries \ {q} : cache'[x] = cache[x]
    BY <2>1, <2>2 DEF Query
  <2>6. cache[q].has => Optimistic(q)'
    <3>1. op'[o] = [step |-> "sent", kind |-> "update", memo |-> m, value |-> last + 1,
                    had |-> cache[q].has, prev |-> cache[q].data, tries |-> 0]
      BY <2>1 DEF PageInv, PageTyped, OpsTyped
    <3> QED
      BY <3>1 DEF Optimistic
  <2>7. FreshAt(q)'
    BY <2>5, <2>6 DEF FreshAt
  <2> HIDE DEF q
  <2>8. \A x \in Queries \ {q} : FreshAt(x)'
    BY <2>1, <2>3, <2>4, <2>5, FreshKept DEF PageInv, Fresh
  <2> QED
    BY <2>1, <2>7, <2>8, LivesKept DEF Fresh, Queries
<1> QED
  BY <1>1, <1>2, <1>3

LEMMA ServedInv ==
  ASSUME PageInv, NEW o \in Ops, Served(o)
  PROVE  Fresh' /\ Lives' /\ LateDetails'
<1>1. PageTyped
  BY DEF PageInv
<1>2. \A q : Optimistic(q) => Optimistic(q)'
  <2>1. PICK s \in {"get", "done", "failed"} : op' = [op EXCEPT ![o].step = s]
    BY <1>1, ServedCases
  <2> DEFINE r == [op[o] EXCEPT !.step = s]
  <2>2. op' = [op EXCEPT ![o] = r]
    BY <2>1
  <2>3. r.step # "none" /\ r.kind = op[o].kind /\ r.memo = op[o].memo /\ (r.kind = "update" => r.had = op[o].had)
    BY <1>1, ServedCases DEF Operations, Idle, Updates, Deletes, Reactions
  <2> HIDE DEF r
  <2> QED
    BY <2>2, <2>3, OptimisticGoesOn
<1> QED
  BY <1>1, <1>2, ServedCases, ChangedInv, DeletedInv, OpStep

LEMMA OtherSettlesInv ==
  ASSUME PageInv, NEW o \in Ops, ServedGet(o) \/ Fails(o) \/ Retry(o)
  PROVE  Fresh' /\ Lives' /\ LateDetails'
<1>1. UNCHANGED <<shown, server, stream, cache, late, lost>> /\ op[o].step # "none"
  BY DEF ServedGet, Fails, Retry
<1>2. op[o] \in Operations
  BY DEF PageInv, PageTyped, OpsTyped
<1>3. PICK r : /\ op' = [op EXCEPT ![o] = r]
               /\ r.step # "none" /\ r.kind = op[o].kind /\ r.memo = op[o].memo
               /\ (r.kind = "update" => r.had = op[o].had)
  <2>1. CASE ServedGet(o)
    <3> DEFINE v == server.value[op[o].memo]
               r == [op[o] EXCEPT !.step = IF v = 0 THEN "failed" ELSE "done", !.value = v]
    <3>1. op' = [op EXCEPT ![o] = r] /\ op[o].step = "get"
      BY <2>1 DEF ServedGet
    <3>2. op[o] \in Reactions
      BY <3>1, OpIs DEF PageInv, PageTyped
    <3>3. r.step # "none" /\ r.kind = op[o].kind /\ r.memo = op[o].memo /\ r.kind # "update"
      BY <3>2 DEF Reactions
    <3> HIDE DEF r
    <3> QED
      BY <3>1, <3>3
  <2>2. CASE Fails(o)
    <3> DEFINE r == [op[o] EXCEPT !.step = "failed"]
    <3>1. op' = [op EXCEPT ![o] = r]
      BY <2>2 DEF Fails
    <3>2. r.step # "none" /\ r.kind = op[o].kind /\ r.memo = op[o].memo /\ (r.kind = "update" => r.had = op[o].had)
      BY <1>1, <1>2 DEF Operations, Idle, Updates, Deletes, Reactions
    <3> HIDE DEF r
    <3> QED
      BY <3>1, <3>2
  <2>3. CASE Retry(o)
    <3> DEFINE r == [op[o] EXCEPT !.step = "sent", !.tries = 1]
    <3>1. op' = [op EXCEPT ![o] = r]
      BY <2>3 DEF Retry
    <3>2. r.step # "none" /\ r.kind = op[o].kind /\ r.memo = op[o].memo /\ (r.kind = "update" => r.had = op[o].had)
      BY <1>1, <1>2 DEF Operations, Idle, Updates, Deletes, Reactions
    <3> HIDE DEF r
    <3> QED
      BY <3>1, <3>2
  <2> QED
    BY <2>1, <2>2, <2>3
<1> QED
  BY <1>1, <1>3, OptimisticGoesOn, OpStep

(* A change that ends was of one memo, and only its query can have shown it. *)
LEMMA OptimisticEnds ==
  ASSUME PageInv, NEW o \in Ops, op' = [op EXCEPT ![o] = [step |-> "none"]]
  PROVE  \A q : q # Detail(op[o].memo) => (Optimistic(q) => Optimistic(q)')
BY DEF Optimistic, PageInv, PageTyped, OpsTyped

(* A query that is given data: it is known whether the server agrees.       *)
LEMMA GivenFresh ==
  ASSUME PageInv, NEW q \in Queries, NEW data \in Data, UNCHANGED <<shown, server, stream>>,
         cache'[q].data = data, cache'[q].fetch = cache[q].fetch, cache'[q].read = cache[q].read,
         q \in LostWith(q, data) => q \in lost', q \in LateWith(q, data) => q \in late'
  PROVE  FreshAt(q)'
<1>1. Coming(q)' <=> Coming(q)
  BY DEF Coming, Reach, Affected
<1>2. \A d : Good(q, d) => Good(q, d)'
  BY GoodUnchanged
<1>3. cache[q].fetch = "read" /\ q \notin lost' => q \notin lost
  BY DEF LostWith
<1>4. q \notin late' => data = Truth(q)
  BY DEF LateWith
<1>5. FreshAt(q)
  BY DEF PageInv, Fresh
<1>6. cache'[q].fetch = "read" /\ q \in shown /\ q \notin lost' /\ ~Coming(q)' => Good(q, cache[q].read)
  BY <1>1, <1>3, <1>5 DEF FreshAt
<1>7. q \notin late' => Good(q, data)
  BY <1>4, TruthGood DEF PageInv, PageTyped
<1> QED
  BY <1>2, <1>6, <1>7 DEF FreshAt

LEMMA EndsInv ==
  ASSUME PageInv, NEW o \in Ops, Succeeds(o) \/ GivesUp(o)
  PROVE  Fresh' /\ Lives' /\ LateDetails'
<1>0. PICK D : D = Detail(op[o].memo)
  OBVIOUS
<1>1. /\ op' = [op EXCEPT ![o] = [step |-> "none"]] /\ UNCHANGED <<shown, server, stream>>
      /\ op[o].step # "none" /\ D \in Queries /\ op[o].memo \in Memos
  BY <1>0, SucceedsCases, GivesUpCases, QueriesAre DEF PageInv
<1>2. \A q : (Coming(q) => Coming(q)') /\ (q # D => (Optimistic(q) => Optimistic(q)'))
  BY <1>0, <1>1, OptimisticEnds DEF Coming, Reach, Affected
<1>3. \A x, data : Good(x, data) => Good(x, data)'
  BY <1>1, GoodUnchanged
<1>4. D \notin Again(o) /\ Again(o) \subseteq Queries
  <2>1. \A p : D # CommentsOf(p) /\ D # List /\ D # Stats
    BY <1>0, QueriesDiffer
  <2>2. op[o].kind \in {"update", "delete", "react"}
    BY <1>1, OpIs DEF PageInv, PageTyped
  <2> QED
    BY <1>1, <2>1, <2>2, AgainTyped DEF Again, ParentQuery, PageInv
<1>5. cache \in [Queries -> Query] /\ Refetched(cache, Again(o)) \in [Queries -> Query]
  BY RefetchedIs DEF PageInv, PageTyped, CacheTyped
<1>6. CASE Succeeds(o) /\ op[o].kind = "delete"
  <2>1. /\ cache' = Removed(Refetched(cache, Again(o)), {D})
        /\ lost' = lost \ (Again(o) \cup {D}) /\ late' = late \ (Again(o) \cup {D})
    BY <1>0, <1>6, SucceedsCases DEF PageInv
  <2>2. FreshAt(D)'
    BY <1>1, <1>5, <2>1, RemovedIs, FreshSent
  <2>3. ASSUME NEW q \in Again(o) PROVE FreshAt(q)'
    <3>1. q \in Queries /\ cache'[q] = Refetched(cache, Again(o))[q]
      BY <1>4, <1>5, <2>1, RemovedIs
    <3> QED
      BY <1>1, <3>1, RefetchFresh
  <2>4. ASSUME NEW q \in Queries, q # D, q \notin Again(o) PROVE FreshAt(q)'
    <3>1. cache'[q] = cache[q] /\ (q \in lost => q \in lost') /\ (q \in late => q \in late')
      BY <1>5, <2>1, <2>4, RemovedIs, RefetchedIs
    <3> QED
      BY <1>1, <1>2, <1>3, <2>4, <3>1, FreshKept DEF PageInv, Fresh
  <2>5. Fresh'
    <3>1. \A q \in Queries : FreshAt(q)'
      BY <2>2, <2>3, <2>4
    <3> QED
      BY <3>1 DEF Fresh, Queries
  <2> QED
    BY <1>1, <2>1, <2>5, LivesKept
<1>7. CASE Succeeds(o) /\ op[o].kind # "delete"
  <2> DEFINE data == Answered(op[o].memo, op[o].value)
  <2>1. /\ cache' = Given(Refetched(cache, Again(o)), D, data) /\ data \in Data
        /\ lost' = LostWith(D, data) \ Again(o) /\ late' = LateWith(D, data) \ Again(o)
    BY <1>0, <1>7, SucceedsCases DEF PageInv
  <2> HIDE DEF data
  <2>2. FreshAt(D)'
    <3>1. /\ cache'[D].data = data /\ cache'[D].fetch = cache[D].fetch /\ cache'[D].read = cache[D].read
      BY <1>1, <1>4, <1>5, <2>1, GivenIs, RefetchedIs
    <3> QED
      BY <1>1, <1>4, <2>1, <3>1, GivenFresh
  <2>3. ASSUME NEW q \in Again(o) PROVE FreshAt(q)'
    <3>1. q \in Queries \ {D}
      BY <1>4
    <3>2. \A x \in Queries \ {D} : Given(Refetched(cache, Again(o)), D, data)[x] = Refetched(cache, Again(o))[x]
      BY <1>1, <1>5, <2>1, GivenIs
    <3>3. cache'[q] = Refetched(cache, Again(o))[q]
      BY <2>1, <3>1, <3>2
    <3> QED
      BY <1>1, <3>1, <3>3, RefetchFresh
  <2>4. ASSUME NEW q \in Queries, q # D, q \notin Again(o) PROVE FreshAt(q)'
    <3>1. cache'[q] = cache[q]
      BY <1>1, <1>5, <2>1, <2>4, GivenIs, RefetchedIs
    <3>2. (q \in lost => q \in lost') /\ (q \in late => q \in late')
      BY <2>1, <2>4 DEF LostWith, LateWith
    <3> QED
      BY <1>1, <1>2, <1>3, <2>4, <3>1, <3>2, FreshKept DEF PageInv, Fresh
  <2>5. Fresh'
    <3>1. \A q \in Queries : FreshAt(q)'
      BY <2>2, <2>3, <2>4
    <3> QED
      BY <3>1 DEF Fresh, Queries
  <2>6. Lives' /\ LateDetails'
    BY <1>0, <1>1, <2>1 DEF LateWith, PageInv, Lives, LateDetails
  <2> QED
    BY <2>5, <2>6
<1>8. CASE GivesUp(o) /\ op[o].kind = "update" /\ op[o].had
  <2> DEFINE data == op[o].prev
  <2>1. /\ cache' = Given(cache, D, data) /\ data \in Data
        /\ lost' = LostWith(D, data) /\ late' = LateWith(D, data)
    BY <1>0, <1>8, GivesUpCases DEF PageInv
  <2> HIDE DEF data
  <2>2. FreshAt(D)'
    <3>1. /\ cache'[D].data = data /\ cache'[D].fetch = cache[D].fetch /\ cache'[D].read = cache[D].read
      BY <1>1, <1>5, <2>1, GivenIs
    <3> QED
      BY <1>1, <2>1, <3>1, GivenFresh
  <2>3. ASSUME NEW q \in Queries, q # D PROVE FreshAt(q)'
    <3>1. cache'[q] = cache[q]
      BY <1>1, <1>5, <2>1, <2>3, GivenIs
    <3>2. (q \in lost => q \in lost') /\ (q \in late => q \in late')
      BY <2>1, <2>3 DEF LostWith, LateWith
    <3> QED
      BY <1>1, <1>2, <1>3, <2>3, <3>1, <3>2, FreshKept DEF PageInv, Fresh
  <2>4. Fresh'
    <3>1. \A q \in Queries : FreshAt(q)'
      BY <2>2, <2>3
    <3> QED
      BY <3>1 DEF Fresh, Queries
  <2>5. Lives' /\ LateDetails'
    BY <1>0, <1>1, <2>1 DEF LateWith, PageInv, Lives, LateDetails
  <2> QED
    BY <2>4, <2>5
<1>9. CASE GivesUp(o) /\ ~(op[o].kind = "update" /\ op[o].had)
  <2>1. UNCHANGED <<cache, lost, late>>
    BY <1>9, GivesUpCases DEF PageInv
  <2>2. \A q : Optimistic(q) => Optimistic(q)'
    BY <1>1, <1>9 DEF Optimistic, PageInv, PageTyped, OpsTyped
  <2> QED
    BY <1>1, <2>1, <2>2, OpStep
<1> QED
  BY <1>6, <1>7, <1>8, <1>9

LEMMA InitInv ==
  ASSUME Init
  PROVE  PageInv
<1>1. PageTyped
  BY InitTyped
<1>2. Lives /\ LateDetails
  BY DEF Init, Lives, LateDetails, Memos
<1>3. Fresh
  BY DEF Init, Fresh, FreshAt, NoQuery
<1> QED
  BY <1>1, <1>2, <1>3 DEF PageInv

LEMMA NextInv ==
  ASSUME PageInv, [Next]_vars
  PROVE  PageInv'
<1>1. PageTyped'
  BY NextTyped DEF PageInv
<1>2. Fresh' /\ Lives' /\ LateDetails'
  <2>1. CASE UNCHANGED vars
    <3>1. \A q : Optimistic(q) => Optimistic(q)'
      BY <2>1 DEF vars, Optimistic
    <3> QED
      BY <2>1, <3>1, OpStep DEF vars
  <2>2. CASE Others \/ Stream \/ Fetching
    BY <2>2, OthersInv, StreamInv, FetchingInv
  <2>3. CASE \E o \in Ops : Starts(o) \/ Settles(o) \/ Fails(o)
    BY <2>3, StartsInv, ServedInv, OtherSettlesInv, EndsInv DEF Settles
  <2> QED
    BY <2>1, <2>2, <2>3 DEF Next
<1> QED
  BY <1>1, <1>2 DEF PageInv

LEMMA PageHolds == MemosSpec => []PageInv
<1>1. MemosInit => PageInv
  BY InitInv DEF MemosInit
<1>2. PageInv /\ [LivePart \/ EditorPart]_allVars => PageInv'
  BY StepsOfMemos, NextInv
<1> QED
  BY <1>1, <1>2, PTL DEF MemosSpec

(* At rest nothing is on its way, and no change is shown before its time.   *)
LEMMA RestGood ==
  ASSUME PageInv, NEW q \in Queries, AtRest(q), q \notin lost \cup late
  PROVE  Good(q, cache[q].data)
<1>1. ~Coming(q)
  BY DEF AtRest, Coming
<1>2. ~Optimistic(q)
  BY DEF AtRest, Optimistic
<1> QED
  BY <1>1, <1>2 DEF AtRest, PageInv, Fresh, FreshAt

LEMMA FreshIs ==
  ASSUME PageInv
  PROVE  ListsFresh /\ DetailsFresh
<1>1. \A q \in late : \E m \in Memos : q = Detail(m)
  BY DEF PageInv, LateDetails
<1>2. List \notin late /\ Stats \notin late /\ \A p : CommentsOf(p) \notin late
  BY <1>1, QueriesDiffer
<1>3. server.related \subseteq Comments /\ server.related \cap Top = {}
  BY DEF PageInv, PageTyped, ServerTyped, Comments
<1>4. ListsFresh
  <2>1. ASSUME AtRest(List), List \notin lost, NEW m \in Top
        PROVE  cache[List].data[m] = Truth(List)[m]
    <3>1. cache[List].data[m] = server.value[m]
      BY <1>2, <2>1, RestGood, QueriesAre DEF Good, GoodList
    <3> QED
      BY <1>3, <3>1, TruthIs DEF Memos
  <2>2. ASSUME AtRest(Stats), Stats \notin lost, NEW m \in Top
        PROVE  cache[Stats].data[m] # 0 <=> server.value[m] # 0
    BY <1>2, <2>2, RestGood, QueriesAre DEF Good, GoodStats
  <2> QED
    BY <2>1, <2>2 DEF ListsFresh
<1>5. ASSUME NEW m \in Top, AtRest(Detail(m)), Detail(m) \notin lost \cup late
      PROVE  cache[Detail(m)].data = Truth(Detail(m))
  BY <1>5, RestGood, QueriesAre DEF Good, GoodDetail, Memos
<1>6. ASSUME NEW m \in Top, AtRest(CommentsOf(m)), CommentsOf(m) \notin lost, server.value[m] # 0,
             NEW k \in Comments, Truth(CommentsOf(m))[k] # 0
      PROVE  cache[CommentsOf(m)].data[k] # 0
  <2>1. k \in server.related /\ Parent[k] = m
    BY <1>6, TruthIs DEF Memos
  <2> QED
    BY <1>2, <1>6, <2>1, RestGood, QueriesAre DEF Good, GoodComments
<1> QED
  BY <1>4, <1>5, <1>6 DEF DetailsFresh

(* The lists of memos and the statistics, once nothing of them is on its    *)
(* way, show what the server has, whatever events, fetches and changes     *)
(* overlapped before and however often the stream was cut off.             *)
THEOREM ListsAreFresh == MemosSpec => []ListsFresh
BY PageHolds, FreshIs, PTL

(* So does the page of a memo, but for an answer another change overtook,   *)
(* and it shows all the comments the memo has.                             *)
THEOREM DetailsAreFresh == MemosSpec => []DetailsFresh
BY PageHolds, FreshIs, PTL

-------------------------------------------------------------------------------
(* No phantoms, if no change of a memo starts while another is under way.  *)
UpdatesOf(o, m) == op[o].step # "none" /\ op[o].kind = "update" /\ op[o].memo = m

Apart == \A o, p \in Ops, m \in Memos : UpdatesOf(o, m) /\ UpdatesOf(p, m) => o = p

Tried(m, v) == \E o \in Ops : UpdatesOf(o, m) /\ op[o].had /\ op[o].value = v

Real(v) == v \in made \cup {0}
NowReal(v) == v \in made' \cup {0}

(* What the server has, what it has answered, and what an update would go   *)
(* back to has been made; what the page shows has been made or is tried.   *)
ServerReal == \A m \in Memos : Real(server.value[m])
ReadsReal == \A m \in Memos : Real(cache[Detail(m)].read[m])
ShownReal == \A m \in Memos : Real(cache[Detail(m)].data[m]) \/ Tried(m, cache[Detail(m)].data[m])
OpsReal ==
    \A o \in Ops :
        /\ op[o].step # "none" /\ op[o].kind = "update" => Real(op[o].prev[op[o].memo])
        /\ op[o].step = "done" /\ op[o].kind # "delete" => Real(op[o].value)

RealInv == ServerReal /\ ReadsReal /\ ShownReal /\ OpsReal

USE DEF Real, NowReal

LEMMA RealKept ==
  ASSUME made \subseteq made'
  PROVE  \A v : Real(v) => NowReal(v)
BY DEF Real

LEMMA ZeroReal == Real(0) /\ NowReal(0) /\ \A m \in Memos : Nothing[m] = 0
BY DEF Real, Nothing

LEMMA MadeGrows ==
  ASSUME PageTyped, [Next]_vars
  PROVE  made \subseteq made'
<1>1. CASE UNCHANGED vars
  BY <1>1 DEF vars
<1>2. CASE Others
  BY <1>2 DEF Others, Create, Update, Delete, Relate
<1>3. CASE Stream \/ Fetching
  BY <1>3 DEF Stream, Connect, Subscribe, Disconnect, Deliver, Fetching, Look, Read, Arrive, FetchFails
<1>4. ASSUME NEW o \in Ops, Starts(o) \/ Settles(o) \/ Fails(o) PROVE made \subseteq made'
  BY <1>4, ServedCases DEF Starts, StartUpdate, StartDelete, StartReaction, Settles, ServedGet, Retry,
        Succeeds, GivesUp, Fails
<1> QED
  BY <1>1, <1>2, <1>3, <1>4 DEF Next

(* Operations that are left alone. *)
LEMMA OpsKept ==
  ASSUME RealInv, UNCHANGED op, made \subseteq made'
  PROVE  OpsReal' /\ \A m, v : Tried(m, v) => Tried(m, v)'
<1>1. \A v : Real(v) => NowReal(v)
  BY RealKept
<1>2. OpsReal
  BY DEF RealInv
<1>3. OpsReal'
  BY <1>1, <1>2 DEF OpsReal
<1> QED
  BY <1>3 DEF Tried, UpdatesOf

LEMMA OthersReal ==
  ASSUME PageTyped, RealInv, Others
  PROVE  RealInv'
<1>1. PICK m \in Memos : Create(m) \/ Update(m) \/ Delete(m) \/ (m \in Comments /\ Relate(m))
  BY DEF Others
<1>2. UNCHANGED <<op, cache>> /\ made \subseteq made'
  BY <1>1 DEF Create, Update, Delete, Relate
<1>3. \A v : Real(v) => NowReal(v)
  BY <1>2, RealKept
<1>4. \A x \in Memos : \/ server'.value[x] \in {server.value[x], 0}
                        \/ server'.value[x] \in made'
  <2>1. CASE Create(m) \/ Update(m)
    BY <2>1 DEF Create, Update, PageTyped, ServerTyped
  <2>2. CASE Delete(m)
    BY <2>2 DEF Delete, Without
  <2>3. CASE Relate(m)
    BY <2>3 DEF Relate, PageTyped, ServerTyped
  <2> QED
    BY <1>1, <2>1, <2>2, <2>3
<1>5. ServerReal'
  BY <1>3, <1>4 DEF ServerReal, RealInv, Real
<1>6. OpsReal' /\ \A x, v : Tried(x, v) => Tried(x, v)'
  BY <1>2, OpsKept
<1>7. ReadsReal' /\ ShownReal'
  BY <1>2, <1>3, <1>6 DEF RealInv, ReadsReal, ShownReal
<1> QED
  BY <1>5, <1>6, <1>7 DEF RealInv

(* A step of the page that gives no query new data but those it has read.   *)
LEMMA PageReal ==
  ASSUME RealInv, UNCHANGED <<op, server, made>>,
         \A m \in Memos : Real(cache'[Detail(m)].read[m]),
         \A m \in Memos : Real(cache'[Detail(m)].data[m]) \/ cache'[Detail(m)].data[m] = cache[Detail(m)].data[m]
  PROVE  RealInv'
<1>1. \A v : Real(v) => NowReal(v)
  BY RealKept
<1>2. OpsReal' /\ \A x, v : Tried(x, v) => Tried(x, v)'
  BY OpsKept
<1>3. ServerReal' /\ ReadsReal'
  BY <1>1 DEF RealInv, ServerReal, ReadsReal
<1>4. ShownReal'
  BY <1>1, <1>2 DEF RealInv, ShownReal
<1> QED
  BY <1>2, <1>3, <1>4 DEF RealInv

LEMMA StreamReal ==
  ASSUME PageTyped, RealInv, Stream
  PROVE  RealInv'
<1>1. UNCHANGED <<op, server, made>>
  BY DEF Stream, Connect, Subscribe, Disconnect, Deliver
<1>2. ASSUME NEW m \in Memos
      PROVE  /\ Real(cache'[Detail(m)].read[m])
             /\ Real(cache'[Detail(m)].data[m]) \/ cache'[Detail(m)].data[m] = cache[Detail(m)].data[m]
  <2>1. Detail(m) \in Queries /\ cache \in [Queries -> Query]
    BY QueriesAre DEF PageTyped, CacheTyped
  <2>2. CASE Connect \/ Subscribe \/ Disconnect
    BY <2>2 DEF Connect, Subscribe, Disconnect, RealInv, ReadsReal
  <2>3. CASE Deliver
    <3>1. PICK c, Q, R : c \in [Queries -> Query] /\ c = Refetched(cache, Q) /\ cache' = Removed(c, R)
      BY <2>1, <2>3, RefetchedIs DEF Deliver, Handle
    <3>2. c[Detail(m)].data = cache[Detail(m)].data /\ c[Detail(m)].read \in {cache[Detail(m)].read, Nothing}
      BY <2>1, <3>1, RefetchedIs
    <3>3. cache'[Detail(m)] \in {c[Detail(m)], NoQuery}
      BY <2>1, <3>1, RemovedIs
    <3>4. NoQuery.data = Nothing /\ NoQuery.read = Nothing
      BY DEF NoQuery
    <3>5. Real(cache[Detail(m)].read[m])
      BY DEF RealInv, ReadsReal
    <3> QED
      BY <3>2, <3>3, <3>4, <3>5, ZeroReal
  <2> QED
    BY <2>2, <2>3 DEF Stream
<1> QED
  BY <1>1, <1>2, PageReal

LEMMA FetchingReal ==
  ASSUME PageTyped, RealInv, Fetching
  PROVE  RealInv'
<1>1. PICK q \in Queries : Look(q) \/ Read(q) \/ Arrive(q) \/ FetchFails(q)
  BY DEF Fetching
<1>2. UNCHANGED <<op, server, made>>
  BY <1>1 DEF Look, Read, Arrive, FetchFails
<1>3. ASSUME NEW m \in Memos
      PROVE  /\ Real(cache'[Detail(m)].read[m])
             /\ Real(cache'[Detail(m)].data[m]) \/ cache'[Detail(m)].data[m] = cache[Detail(m)].data[m]
  <2>1. Detail(m) \in Queries /\ cache \in [Queries -> Query] /\ cache[Detail(m)] \in Query
    BY QueriesAre DEF PageTyped, CacheTyped
  <2>2. Real(cache[Detail(m)].read[m])
    BY DEF RealInv, ReadsReal
  <2>3. CASE Look(q)
    <3>1. /\ cache'[Detail(m)].data = cache[Detail(m)].data
          /\ cache'[Detail(m)].read \in {cache[Detail(m)].read, Nothing}
      BY <2>1, <2>3, RefetchedIs DEF Look
    <3> QED
      BY <2>2, <3>1, ZeroReal
  <2>4. CASE Read(q)
    <3>1. cache'[Detail(m)].data = cache[Detail(m)].data
      BY <2>1, <2>4 DEF Read, Query
    <3>2. cache'[Detail(m)].read \in {cache[Detail(m)].read, Truth(Detail(m))}
      BY <2>1, <2>4 DEF Read, Query
    <3>3. Truth(Detail(m))[m] = server.value[m]
      BY TruthIs
    <3>4. Real(server.value[m])
      BY DEF RealInv, ServerReal
    <3> QED
      BY <2>2, <3>1, <3>2, <3>3, <3>4
  <2>5. CASE Arrive(q)
    <3>1. CASE q = Detail(m)
      <4>1. cache'[Detail(m)].data = cache[Detail(m)].read /\ cache'[Detail(m)].read = Nothing
        BY <1>1, <2>1, <2>5, <3>1 DEF Arrive
      <4> QED
        BY <2>2, <4>1, ZeroReal
    <3>2. CASE q # Detail(m)
      <4>1. cache'[Detail(m)] = cache[Detail(m)]
        BY <1>1, <2>1, <2>5, <3>2 DEF Arrive
      <4> QED
        BY <2>2, <4>1
    <3> QED
      BY <3>1, <3>2
  <2>6. CASE FetchFails(q)
    BY <2>1, <2>2, <2>6 DEF FetchFails, Query
  <2> QED
    BY <1>1, <2>3, <2>4, <2>5, <2>6
<1> QED
  BY <1>2, <1>3, PageReal

LEMMA TriedGoesOn ==
  ASSUME PageTyped, NEW o \in Ops, NEW r, op' = [op EXCEPT ![o] = r],
         op[o].step # "none" /\ op[o].kind = "update" =>
            /\ r.step # "none" /\ r.kind = "update" /\ r.memo = op[o].memo
            /\ r.had = op[o].had /\ r.value = op[o].value
  PROVE  \A m, v : Tried(m, v) => Tried(m, v)'
BY DEF Tried, UpdatesOf, PageTyped, OpsTyped

LEMMA OneOpReal ==
  ASSUME PageTyped, RealInv, made \subseteq made', NEW o \in Ops, NEW r, op' = [op EXCEPT ![o] = r],
         r.step # "none" /\ r.kind = "update" => NowReal(r.prev[r.memo]),
         r.step = "done" /\ r.kind # "delete" => NowReal(r.value)
  PROVE  OpsReal'
<1>1. op'[o] = r /\ \A p \in Ops \ {o} : op'[p] = op[p]
  BY DEF PageTyped, OpsTyped
<1>2. \A v : Real(v) => NowReal(v)
  BY RealKept
<1> QED
  BY <1>1, <1>2 DEF OpsReal, RealInv

LEMMA StartsReal ==
  ASSUME PageTyped, RealInv, Apart', NEW o \in Ops, Starts(o)
  PROVE  RealInv'
<1>1. PICK m \in Memos : StartUpdate(o, m) \/ StartDelete(o, m) \/ StartReaction(o, m)
  BY DEF Starts
<1>2. UNCHANGED <<server, made>> /\ op[o].step = "none"
  BY <1>1 DEF StartUpdate, StartDelete, StartReaction
<1>3. \A v : Real(v) => NowReal(v)
  BY <1>2, RealKept
<1>4. ServerReal'
  BY <1>2, <1>3 DEF RealInv, ServerReal
<1>5. CASE StartDelete(o, m) \/ StartReaction(o, m)
  <2>1. PICK r : op' = [op EXCEPT ![o] = r] /\ r.step = "sent" /\ r.kind \in {"delete", "react"}
    <3>1. CASE StartDelete(o, m)
      <4> DEFINE r == [step |-> "sent", kind |-> "delete", memo |-> m, tries |-> 0]
      <4>1. op' = [op EXCEPT ![o] = r] /\ r.step = "sent" /\ r.kind = "delete"
        BY <3>1 DEF StartDelete
      <4> HIDE DEF r
      <4> QED
        BY <4>1
    <3>2. CASE StartReaction(o, m)
      <4> DEFINE r == [step |-> "sent", kind |-> "react", memo |-> m, value |-> last + 1, tries |-> 1]
      <4>1. op' = [op EXCEPT ![o] = r] /\ r.step = "sent" /\ r.kind = "react"
        BY <3>2 DEF StartReaction
      <4> HIDE DEF r
      <4> QED
        BY <4>1
    <3> QED
      BY <1>5, <3>1, <3>2
  <2>2. cache' = cache
    BY <1>5 DEF StartDelete, StartReaction
  <2>3. OpsReal'
    BY <1>2, <2>1, OneOpReal
  <2>4. \A x, v : Tried(x, v) => Tried(x, v)'
    BY <1>2, <2>1, TriedGoesOn
  <2> QED
    BY <1>3, <1>4, <2>2, <2>3, <2>4 DEF RealInv, ReadsReal, ShownReal
<1>6. CASE StartUpdate(o, m)
  <2>1. PICK q : q = Detail(m)
    OBVIOUS
  <2>0. PICK d : d = IF cache[q].has THEN [cache[q].data EXCEPT ![m] = last + 1] ELSE cache[q].data
    OBVIOUS
  <2> DEFINE r == [step |-> "sent", kind |-> "update", memo |-> m, value |-> last + 1,
                   had |-> cache[q].has, prev |-> cache[q].data, tries |-> 0]
  <2>2. /\ op' = [op EXCEPT ![o] = r]
        /\ cache' = [cache EXCEPT ![q].fetch = "none", ![q].read = Nothing, ![q].data = d]
    BY <1>6, <2>0, <2>1 DEF StartUpdate
  <2>3. q \in Queries /\ cache \in [Queries -> Query] /\ cache[q] \in Query
    BY <2>1, QueriesAre DEF PageTyped, CacheTyped
  <2>4. op'[o] = r /\ \A p \in Ops \ {o} : op'[p] = op[p]
    BY <2>2 DEF PageTyped, OpsTyped
  <2>5. Real(cache[q].data[m])
    <3>1. ASSUME NEW p \in Ops, UpdatesOf(p, m) PROVE FALSE
      <4>1. p # o
        BY <1>2, <3>1 DEF UpdatesOf
      <4>2. UpdatesOf(o, m)' /\ UpdatesOf(p, m)'
        BY <2>4, <3>1, <4>1 DEF UpdatesOf
      <4> QED
        BY <4>1, <4>2 DEF Apart
    <3> QED
      BY <2>1, <3>1 DEF RealInv, ShownReal, Tried
  <2>6. OpsReal'
    <3>1. r.prev[r.memo] = cache[q].data[m] /\ r.step = "sent"
      OBVIOUS
    <3> HIDE DEF r
    <3> QED
      BY <1>2, <1>3, <2>2, <2>5, <3>1, OneOpReal
  <2>7. \A x, v : Tried(x, v) => Tried(x, v)'
    <3> HIDE DEF r
    <3> QED
      BY <1>2, <2>2, TriedGoesOn
  <2>8. cache'[q].read = Nothing /\ cache'[q].data = d /\ \A x \in Queries \ {q} : cache'[x] = cache[x]
    BY <2>2, <2>3 DEF Query
  <2>9. \A x \in Memos : Detail(x) \in Queries /\ (Detail(x) = q => x = m)
    BY <2>1, QueriesAre, QueriesDiffer
  <2>10. ReadsReal'
    BY <1>3, <2>8, <2>9, ZeroReal DEF RealInv, ReadsReal
  <2>11. NowReal(d[m]) \/ Tried(m, d[m])'
    <3>1. CASE cache[q].has
      <4>1. d[m] = last + 1
        BY <2>0, <2>3, <3>1 DEF Query, Data
      <4>2. UpdatesOf(o, m)' /\ op'[o].had /\ op'[o].value = last + 1
        BY <2>4, <3>1 DEF UpdatesOf
      <4> QED
        BY <2>4, <3>1, <4>1, <4>2 DEF Tried
    <3>2. CASE ~cache[q].has
      BY <1>3, <2>0, <2>5, <3>2
    <3> QED
      BY <3>1, <3>2
  <2>12. ShownReal'
    BY <1>3, <2>7, <2>8, <2>9, <2>11 DEF RealInv, ShownReal
  <2> QED
    BY <1>4, <2>6, <2>10, <2>12 DEF RealInv
<1> QED
  BY <1>1, <1>5, <1>6

(* A step of an operation that leaves the page alone. *)
LEMMA OpReal ==
  ASSUME PageTyped, RealInv, cache' = cache, made \subseteq made', OpsReal',
         \A m \in Memos : NowReal(server'.value[m]),
         \A m, v : Tried(m, v) => Tried(m, v)'
  PROVE  RealInv'
<1>1. \A v : Real(v) => NowReal(v)
  BY RealKept
<1> QED
  BY <1>1 DEF RealInv, ServerReal, ReadsReal, ShownReal

LEMMA ServedReal ==
  ASSUME PageTyped, RealInv, NEW o \in Ops, Served(o)
  PROVE  RealInv'
<1>1. PICK s \in {"get", "done", "failed"} :
        /\ op' = [op EXCEPT ![o].step = s] /\ (s = "done" /\ op[o].kind # "delete" => op[o].value \in made')
  BY ServedCases
<1>2. made \subseteq made' /\ cache' = cache /\ op[o].step = "sent" /\ op[o] \in Operations
  BY ServedCases
<1>3. \A v : Real(v) => NowReal(v)
  BY <1>2, RealKept
<1>4. PICK r : r = [op[o] EXCEPT !.step = s]
  OBVIOUS
<1>5. op' = [op EXCEPT ![o] = r]
  BY <1>1, <1>4
<1>6. /\ r.step = s /\ r.kind = op[o].kind /\ r.memo = op[o].memo
      /\ (op[o].kind # "delete" => r.value = op[o].value)
      /\ (op[o].kind = "update" => r.had = op[o].had /\ r.prev = op[o].prev)
  BY <1>2, <1>4 DEF Operations, Idle, Updates, Deletes, Reactions
<1>7. OpsReal'
  <2>1. op[o].kind = "update" => Real(op[o].prev[op[o].memo])
    BY <1>2 DEF RealInv, OpsReal
  <2>2. r.step # "none" /\ r.kind = "update" => NowReal(r.prev[r.memo])
    BY <1>3, <1>6, <2>1
  <2>3. r.step = "done" /\ r.kind # "delete" => NowReal(r.value)
    BY <1>1, <1>6 DEF Real
  <2> QED
    BY <1>2, <1>5, <2>2, <2>3, OneOpReal
<1>8. \A x, v : Tried(x, v) => Tried(x, v)'
  BY <1>5, <1>6, TriedGoesOn
<1>9. \A x \in Memos : NowReal(server'.value[x])
  <2>1. \A x \in Memos : server'.value[x] \in {server.value[x], 0} \/ server'.value[x] \in made'
    BY ServedCases DEF Without, PageTyped, ServerTyped
  <2> QED
    BY <1>3, <2>1 DEF RealInv, ServerReal, Real
<1> QED
  BY <1>2, <1>7, <1>8, <1>9, OpReal

LEMMA OtherSettlesReal ==
  ASSUME PageTyped, RealInv, NEW o \in Ops, ServedGet(o) \/ Fails(o) \/ Retry(o)
  PROVE  RealInv'
<1>1. UNCHANGED <<server, made, cache>> /\ op[o].step # "none"
  BY DEF ServedGet, Fails, Retry
<1>2. \A v : Real(v) => NowReal(v)
  BY <1>1, RealKept
<1>3. op[o] \in Operations /\ (op[o].kind = "update" => NowReal(op[o].prev[op[o].memo]))
  BY <1>1, <1>2 DEF PageTyped, OpsTyped, RealInv, OpsReal
<1>4. PICK r : /\ op' = [op EXCEPT ![o] = r]
               /\ r.step # "none" /\ r.kind = op[o].kind /\ r.memo = op[o].memo
               /\ (r.kind = "update" => r.had = op[o].had /\ r.prev = op[o].prev /\ r.value = op[o].value)
               /\ (r.step = "done" => NowReal(r.value))
  <2>1. CASE ServedGet(o)
    <3>1. PICK v : v = server.value[op[o].memo]
      OBVIOUS
    <3> DEFINE r == [op[o] EXCEPT !.step = IF v = 0 THEN "failed" ELSE "done", !.value = v]
    <3>2. op' = [op EXCEPT ![o] = r] /\ op[o].step = "get"
      BY <2>1, <3>1 DEF ServedGet
    <3>3. op[o] \in Reactions
      BY <3>2, OpIs DEF PageTyped
    <3>4. r.step # "none" /\ r.kind = op[o].kind /\ r.memo = op[o].memo /\ r.kind # "update" /\ r.value = v
      BY <3>3 DEF Reactions
    <3>5. NowReal(v)
      BY <1>2, <3>1, <3>3 DEF RealInv, ServerReal, Reactions
    <3> HIDE DEF r
    <3> QED
      BY <3>2, <3>4, <3>5
  <2>2. CASE Fails(o)
    <3> DEFINE r == [op[o] EXCEPT !.step = "failed"]
    <3>1. op' = [op EXCEPT ![o] = r]
      BY <2>2 DEF Fails
    <3>2. /\ r.step = "failed" /\ r.kind = op[o].kind /\ r.memo = op[o].memo
          /\ (r.kind = "update" => r.had = op[o].had /\ r.prev = op[o].prev /\ r.value = op[o].value)
      BY <1>1, <1>3 DEF Operations, Idle, Updates, Deletes, Reactions
    <3> HIDE DEF r
    <3> QED
      BY <3>1, <3>2
  <2>3. CASE Retry(o)
    <3> DEFINE r == [op[o] EXCEPT !.step = "sent", !.tries = 1]
    <3>1. op' = [op EXCEPT ![o] = r]
      BY <2>3 DEF Retry
    <3>2. /\ r.step = "sent" /\ r.kind = op[o].kind /\ r.memo = op[o].memo
          /\ (r.kind = "update" => r.had = op[o].had /\ r.prev = op[o].prev /\ r.value = op[o].value)
      BY <1>1, <1>3 DEF Operations, Idle, Updates, Deletes, Reactions
    <3> HIDE DEF r
    <3> QED
      BY <3>1, <3>2
  <2> QED
    BY <2>1, <2>2, <2>3
<1>5. OpsReal'
  <2>1. r.kind = "update" => NowReal(r.prev[r.memo])
    BY <1>3, <1>4
  <2> QED
    BY <1>1, <1>4, <2>1, OneOpReal
<1>6. \A x, v : Tried(x, v) => Tried(x, v)'
  BY <1>4, TriedGoesOn
<1>7. \A x \in Memos : NowReal(server'.value[x])
  BY <1>1, <1>2 DEF RealInv, ServerReal
<1> QED
  BY <1>1, <1>5, <1>6, <1>7, OpReal

LEMMA EndsReal ==
  ASSUME PageTyped, RealInv, NEW o \in Ops, Succeeds(o) \/ GivesUp(o)
  PROVE  RealInv'
<1>0. PICK m \in Memos, D \in Queries : m = op[o].memo /\ D = Detail(m)
  BY SucceedsCases, GivesUpCases, QueriesAre
<1>1. op' = [op EXCEPT ![o] = [step |-> "none"]] /\ UNCHANGED <<server, made>> /\ op[o].step # "none"
  BY SucceedsCases, GivesUpCases
<1>2. \A v : Real(v) => NowReal(v)
  BY <1>1, RealKept
<1>3. op'[o].step = "none" /\ \A p \in Ops \ {o} : op'[p] = op[p]
  BY <1>1 DEF PageTyped, OpsTyped
<1>4. OpsReal' /\ ServerReal'
  BY <1>1, <1>2, <1>3 DEF RealInv, OpsReal, ServerReal
<1>5. cache \in [Queries -> Query] /\ Refetched(cache, Again(o)) \in [Queries -> Query]
  BY RefetchedIs DEF PageTyped, CacheTyped
<1>6. \A x \in Memos : Detail(x) \in Queries /\ (x # m => Detail(x) # D)
  BY <1>0, QueriesAre, QueriesDiffer
<1>7. \A x \in Queries : /\ Refetched(cache, Again(o))[x].data = cache[x].data
                         /\ Refetched(cache, Again(o))[x].read \in {cache[x].read, Nothing}
  BY <1>5, RefetchedIs
<1>8. \/ cache' = cache /\ ~(op[o].kind = "update" /\ op[o].had)
      \/ /\ \A x \in Queries : cache'[x].read \in {cache[x].read, Nothing}
         /\ \A x \in Queries \ {D} : cache'[x].data = cache[x].data
         /\ Real(cache'[D].data[m])
  <2>1. CASE Succeeds(o) /\ op[o].kind = "delete"
    <3>1. cache' = Removed(Refetched(cache, Again(o)), {D})
      BY <1>0, <2>1, SucceedsCases
    <3>2. cache'[D] = NoQuery /\ \A x \in Queries \ {D} : cache'[x] = Refetched(cache, Again(o))[x]
      BY <1>5, <3>1, RemovedIs
    <3>3. NoQuery.data = Nothing /\ NoQuery.read = Nothing
      BY DEF NoQuery
    <3> QED
      BY <1>7, <3>2, <3>3, ZeroReal
  <2>2. CASE Succeeds(o) /\ op[o].kind # "delete"
    <3>1. PICK d \in Data : d = Answered(m, op[o].value) /\ cache' = Given(Refetched(cache, Again(o)), D, d)
      BY <1>0, <2>2, SucceedsCases
    <3>2. /\ cache'[D].data = d /\ cache'[D].read = Refetched(cache, Again(o))[D].read
          /\ \A x \in Queries \ {D} : cache'[x] = Refetched(cache, Again(o))[x]
      BY <1>5, <3>1, GivenIs
    <3>3. d[m] = op[o].value
      BY <3>1 DEF Answered, Nothing
    <3>4. Real(op[o].value)
      BY <2>2, SucceedsCases DEF RealInv, OpsReal
    <3> QED
      BY <1>7, <3>2, <3>3, <3>4
  <2>3. CASE GivesUp(o) /\ op[o].kind = "update" /\ op[o].had
    <3>1. PICK d \in Data : d = op[o].prev /\ cache' = Given(cache, D, d)
      BY <1>0, <2>3, GivesUpCases
    <3>2. /\ cache'[D].data = d /\ cache'[D].read = cache[D].read
          /\ \A x \in Queries \ {D} : cache'[x] = cache[x]
      BY <1>5, <3>1, GivenIs
    <3>3. Real(d[m])
      BY <1>0, <1>1, <2>3, <3>1 DEF RealInv, OpsReal
    <3> QED
      BY <3>2, <3>3
  <2>4. CASE GivesUp(o) /\ ~(op[o].kind = "update" /\ op[o].had)
    BY <2>4, GivesUpCases
  <2> QED
    BY <2>1, <2>2, <2>3, <2>4
<1>9. ReadsReal'
  BY <1>2, <1>6, <1>8, ZeroReal DEF RealInv, ReadsReal
<1>10. ShownReal'
  <2>1. ASSUME NEW x \in Memos, NEW v, Tried(x, v), x # m \/ ~(op[o].kind = "update" /\ op[o].had)
        PROVE  Tried(x, v)'
    <3>1. PICK p \in Ops : UpdatesOf(p, x) /\ op[p].had /\ op[p].value = v
      BY <2>1 DEF Tried
    <3>2. p # o
      BY <1>0, <2>1, <3>1 DEF UpdatesOf
    <3> QED
      BY <1>3, <3>1, <3>2 DEF Tried, UpdatesOf
  <2>2. CASE cache' = cache /\ ~(op[o].kind = "update" /\ op[o].had)
    BY <1>2, <2>1, <2>2 DEF RealInv, ShownReal
  <2>3. CASE /\ \A x \in Queries \ {D} : cache'[x].data = cache[x].data
             /\ Real(cache'[D].data[m])
    <3>1. NowReal(cache'[D].data[m])
      BY <1>2, <2>3
    <3> QED
      BY <1>0, <1>2, <1>6, <2>1, <2>3, <3>1 DEF RealInv, ShownReal
  <2> QED
    BY <1>8, <2>2, <2>3
<1> QED
  BY <1>4, <1>9, <1>10 DEF RealInv

LEMMA NextReal ==
  ASSUME PageTyped, RealInv, Apart', [Next]_vars
  PROVE  RealInv'
<1>1. CASE UNCHANGED vars
  BY <1>1 DEF vars, RealInv, ServerReal, ReadsReal, ShownReal, OpsReal, Real, Tried, UpdatesOf
<1>2. CASE Others \/ Stream \/ Fetching
  BY <1>2, OthersReal, StreamReal, FetchingReal
<1>3. CASE \E o \in Ops : Starts(o) \/ Settles(o) \/ Fails(o)
  BY <1>3, StartsReal, ServedReal, OtherSettlesReal, EndsReal DEF Settles
<1> QED
  BY <1>1, <1>2, <1>3 DEF Next

LEMMA InitReal ==
  ASSUME Init
  PROVE  RealInv
BY QueriesAre DEF Init, NoQuery, Nothing, RealInv, ServerReal, ReadsReal, ShownReal, OpsReal, Real

LEMMA RealIs ==
  ASSUME RealInv
  PROVE  NoPhantoms
BY DEF RealInv, ShownReal, Tried, UpdatesOf, NoPhantoms, Real

(* A change that has failed is taken back to what the server has had, as    *)
(* long as no memo is changed again while a change of it is under way.     *)
THEOREM NoPhantomsApart == MemosSpec /\ []Apart => []NoPhantoms
<1>1. MemosInit => PageTyped /\ RealInv
  BY InitTyped, InitReal DEF MemosInit
<1>2. PageTyped /\ RealInv /\ Apart' /\ [LivePart \/ EditorPart]_allVars => PageTyped' /\ RealInv'
  BY StepsOfMemos, NextTyped, NextReal
<1>3. RealInv => NoPhantoms
  BY RealIs
<1> QED
  BY <1>1, <1>2, <1>3, PTL DEF MemosSpec

(* So it is for a user who makes one change after the other.               *)
THEOREM NoPhantomsAlone ==
  ASSUME \A o, p \in Ops : o = p
  PROVE  MemosSpec => []NoPhantoms
<1>1. Apart
  BY DEF Apart
<1> QED
  BY <1>1, NoPhantomsApart, PTL

HIDE DEF Real, NowReal

-------------------------------------------------------------------------------
(* The editors. *)
EditorJobs ==
    [step : {"none"}]
    \cup [step : {"upload"}, text : E!Texts, vis : E!Visibilities, files : SUBSET E!Files, local : SUBSET E!Files]
    \cup [step : {"update"}, text : E!Texts, vis : E!Visibilities, files : SUBSET E!Files,
          prev : [text : E!Texts, vis : E!Visibilities, files : SUBSET E!Files]]
    \cup [step : {"posted", "saved"}, text : E!Texts]

EditorRecord ==
    [open : BOOLEAN, text : E!Texts, vis : E!Visibilities,
     files : SUBSET E!Files, local : SUBSET E!Files, leaving : E!Texts \cup {-1}]

EditorsTyped ==
    /\ ed \in [Editors -> EditorRecord]
    /\ \A e \in Editors : ~ed[e].open => ed[e] = E!Closed
    /\ job \in [Editors -> EditorJobs]
    /\ pending = E!NoCall \/ pending \in [key : Editors, text : E!Texts]
    /\ draft \in [Editors -> E!Texts]
    /\ behind \subseteq Editors
    /\ keep \in [save : BOOLEAN, restore : BOOLEAN, edits : BOOLEAN]
    /\ memo \in [text : E!Texts, vis : E!Visibilities, files : SUBSET E!Files]
    /\ posted \in [Editors -> [text : E!Texts, files : SUBSET E!Files]]
    /\ typed \in E!Texts /\ editorFaults \in Nat

LEMMA BlankTyped ==
  /\ E!Blank \in EditorRecord /\ E!Closed \in EditorRecord /\ E!Blank.open /\ ~E!Closed.open
  /\ E!Blank.text = 0 /\ E!Closed.text = 0 /\ E!Blank.leaving = -1 /\ E!Closed.leaving = -1
  /\ E!NoCall.key \notin Editors /\ 0 \in E!Texts
<1>1. 0 \in E!Texts /\ -1 \in E!Texts \cup {-1}
  BY MemoEditorAssumption DEF E!Texts
<1>2. E!Blank \in EditorRecord
  BY <1>1 DEF E!Blank, EditorRecord, E!Visibilities
<1>3. E!Closed \in EditorRecord /\ ~E!Closed.open /\ E!Closed.text = 0 /\ E!Closed.leaving = -1
  BY <1>1 DEF E!Closed, E!Blank, EditorRecord, E!Visibilities
<1>4. E!NoCall.key \notin Editors
  BY MemoEditorAssumption DEF E!NoCall
<1> QED
  BY <1>1, <1>2, <1>3, <1>4 DEF E!Blank

LEMMA AutoSaveTyped ==
  ASSUME EditorsTyped, NEW e \in Editors, NEW t \in E!Texts, E!AutoSave(e, t)
  PROVE  /\ pending' = E!NoCall \/ pending' \in [key : Editors, text : E!Texts]
         /\ behind' \subseteq Editors
BY DEF EditorsTyped, E!AutoSave, E!Dropped

LEMMA StopsTyped ==
  ASSUME EditorsTyped, NEW e \in Editors, E!AutoSaveStops(e)
  PROVE  /\ pending' = E!NoCall \/ pending' \in [key : Editors, text : E!Texts]
         /\ behind' \subseteq Editors
BY DEF EditorsTyped, E!AutoSaveStops, E!Dropped

LEMMA JobIs ==
  ASSUME EditorsTyped, NEW e \in Editors, job[e].step # "none"
  PROVE  /\ job[e].text \in E!Texts
         /\ job[e].step = "upload" => job[e] \in [step : {"upload"}, text : E!Texts, vis : E!Visibilities,
                                                  files : SUBSET E!Files, local : SUBSET E!Files]
         /\ job[e].step = "update" => job[e] \in [step : {"update"}, text : E!Texts, vis : E!Visibilities,
              files : SUBSET E!Files, prev : [text : E!Texts, vis : E!Visibilities, files : SUBSET E!Files]]
         /\ job[e].step \in {"posted", "saved"} => job[e] \in [step : {"posted", "saved"}, text : E!Texts]
<1>1. job[e] \in EditorJobs
  BY DEF EditorsTyped
<1> QED
  BY <1>1 DEF EditorJobs

(* A new state of an editor, of its save. *)
LEMMA EditorSet ==
  ASSUME EditorsTyped, NEW e \in Editors, NEW r \in EditorRecord, ~r.open => r = E!Closed,
         ed' = [ed EXCEPT ![e] = r]
  PROVE  /\ ed' \in [Editors -> EditorRecord] /\ \A d \in Editors : ~ed'[d].open => ed'[d] = E!Closed
         /\ ed'[e] = r /\ \A d \in Editors \ {e} : ed'[d] = ed[d]
BY DEF EditorsTyped

LEMMA JobSet ==
  ASSUME EditorsTyped, NEW e \in Editors, NEW r \in EditorJobs, job' = [job EXCEPT ![e] = r]
  PROVE  /\ job' \in [Editors -> EditorJobs]
         /\ job'[e] = r /\ \A d \in Editors \ {e} : job'[d] = job[d]
BY DEF EditorsTyped

LEMMA NoJobTyped == E!NoJob \in EditorJobs /\ E!NoJob.step = "none"
BY DEF E!NoJob, EditorJobs

(* Files and faults are only typed. *)
LEMMA FilesTyped ==
  ASSUME NEW e \in Editors
  PROVE  \A f \in FilesOf[e] : f \in E!Files
BY DEF E!Files

(* Which editor a step changes, and how.                                   *)
Spares(d) ==
    /\ pending'.key = d => pending' = pending
    /\ pending'.key # d /\ d \notin behind' => pending.key # d /\ d \notin behind

LEMMA AutoSaveSpares ==
  ASSUME NEW e \in Editors, NEW t, E!AutoSave(e, t)
  PROVE  /\ \A d \in Editors \ {e} : Spares(d)
         /\ E!Persists(e) => pending' = [key |-> e, text |-> t]
         /\ ~E!Persists(e) => pending' = E!NoCall
BY BlankTyped DEF E!AutoSave, E!Dropped, Spares

LEMMA StopsSpares ==
  ASSUME NEW e \in Editors, E!AutoSaveStops(e)
  PROVE  /\ \A d \in Editors \ {e} : Spares(d)
         /\ pending' \in {pending, E!NoCall}
BY BlankTyped DEF E!AutoSaveStops, E!Dropped, Spares

LEMMA UnchangedSpares ==
  ASSUME UNCHANGED <<pending, behind>>
  PROVE  \A d : Spares(d)
BY DEF Spares

(* What an editor and its draft hold: texts that may still become its own. *)
Holds(e) ==
    {ed[e].text, ed[e].leaving, draft[e]}
    \cup (IF pending.key = e THEN {pending.text} ELSE {})
    \cup (IF job[e].step # "none" THEN {job[e].text} ELSE {})
    \cup (IF Kind[e] = "edit" THEN {memo.text} ELSE {})

(* A step of one editor leaves the others. *)
OthersLeft(e) ==
    /\ \A d \in Editors \ {e} :
          /\ ed'[d] = ed[d] /\ job'[d] = job[d] /\ draft'[d] = draft[d] /\ posted'[d] = posted[d]
          /\ Spares(d)
    /\ keep' = keep /\ (Kind[e] = "edit" \/ memo' = memo)
    /\ typed' \in {typed, typed + 1}

(* A text the editor holds after a step was its own, or is new.            *)
Gains(e) ==
    Holds(e)' \subseteq Holds(e) \cup {0, -1} \cup (IF typed' = typed + 1 THEN {typed + 1} ELSE {})

(* The draft of an editor is its text, but for the exceptions named.       *)
CaughtAt(e) ==
    /\ ed[e].open /\ pending.key = e => pending.text = ed[e].text
    /\ ed[e].open /\ E!Persists(e) /\ pending.key # e /\ e \notin behind
          => draft[e] = ed[e].text \/ (job[e].step = "saved" /\ draft[e] = 0)

(* What a save has posted is the text it began with; only the editor of a  *)
(* memo updates it.                                                        *)
PostedAt(e) ==
    Kind[e] # "edit" =>
        /\ job[e].step # "update"
        /\ job[e].step \in {"posted", "saved"} => posted[e].text = job[e].text

(* A text is taken out of an open editor after it was posted.              *)
BlankedAt(e) ==
    ed[e].open /\ ed[e].text # 0 /\ ed'[e].open /\ ed'[e].text = 0 => posted[e].text = job[e].text

Kept(e) ==
    /\ EditorsTyped' /\ OthersLeft(e) /\ Gains(e)
    /\ CaughtAt(e)' /\ PostedAt(e)' /\ BlankedAt(e)

LEMMA PersistsKept ==
  ASSUME UNCHANGED keep, NEW e
  PROVE  E!Persists(e)' <=> E!Persists(e)
BY DEF E!Persists

(* Steps that move neither the debounce nor a draft. *)
LEMMA QuietStep ==
  ASSUME EditorsTyped, NEW e \in Editors, CaughtAt(e),
         UNCHANGED <<pending, behind, draft, keep>>,
         ed'[e].open => ed[e].open /\ ed'[e].text = ed[e].text,
         job[e].step = "saved" => job'[e].step = "saved"
  PROVE  CaughtAt(e)'
BY PersistsKept DEF CaughtAt

LEMMA OpenKept ==
  ASSUME EditorsTyped, NEW e \in Editors, CaughtAt(e), PostedAt(e), E!Open(e)
  PROVE  Kept(e)
<1>1. PICK r : r = (IF Kind[e] = "edit"
                    THEN [E!Blank EXCEPT !.text = memo.text, !.vis = memo.vis, !.files = memo.files]
                    ELSE [E!Blank EXCEPT !.text = E!Restored(e)])
  OBVIOUS
<1>2. /\ ed' = [ed EXCEPT ![e] = r] /\ job[e] = E!NoJob /\ ~ed[e].open /\ E!AutoSave(e, r.text)
      /\ UNCHANGED <<job, draft, keep, memo, posted, uploads, typed, editorFaults>>
  BY <1>1 DEF E!Open
<1>3. r \in EditorRecord /\ r.open /\ r.leaving = -1
      /\ (r.text \in {0, draft[e]} \/ (Kind[e] = "edit" /\ r.text = memo.text)) /\ r.text \in E!Texts
  BY <1>1, BlankTyped DEF EditorRecord, EditorsTyped, E!Restored
<1>4. /\ ed' \in [Editors -> EditorRecord] /\ \A d \in Editors : ~ed'[d].open => ed'[d] = E!Closed
      /\ ed'[e] = r /\ \A d \in Editors \ {e} : ed'[d] = ed[d]
  BY <1>2, <1>3, EditorSet
<1>5. EditorsTyped'
  BY <1>2, <1>3, <1>4, AutoSaveTyped DEF EditorsTyped
<1>6. /\ E!Persists(e) => pending' = [key |-> e, text |-> r.text]
      /\ ~E!Persists(e) => pending' = E!NoCall
      /\ \A d \in Editors \ {e} : Spares(d)
  BY <1>2, AutoSaveSpares
<1>7. OthersLeft(e)
  BY <1>2, <1>4, <1>6 DEF OthersLeft
<1>8. Gains(e)
  BY <1>2, <1>3, <1>4, <1>6, BlankTyped, NoJobTyped DEF Gains, Holds
<1>9. CaughtAt(e)' /\ PostedAt(e)' /\ BlankedAt(e)
  BY <1>2, <1>4, <1>6, BlankTyped, PersistsKept, NoJobTyped DEF CaughtAt, PostedAt, BlankedAt
<1> QED
  BY <1>5, <1>7, <1>8, <1>9 DEF Kept

(* The editor goes away. *)
LEMMA ClosedKept ==
  ASSUME EditorsTyped, NEW e \in Editors, CaughtAt(e), PostedAt(e),
         ed' = [ed EXCEPT ![e] = E!Closed],
         E!AutoSaveStops(e) \/ UNCHANGED <<pending, behind>>,
         job' = job \/ job' = [job EXCEPT ![e] = E!NoJob],
         draft' = draft \/ draft' = [draft EXCEPT ![e] = 0],
         UNCHANGED <<keep, memo, posted, uploads, typed, editorFaults>>
  PROVE  Kept(e)
<1>1. /\ ed' \in [Editors -> EditorRecord] /\ \A d \in Editors : ~ed'[d].open => ed'[d] = E!Closed
      /\ ed'[e] = E!Closed /\ \A d \in Editors \ {e} : ed'[d] = ed[d]
  BY EditorSet, BlankTyped
<1>2. /\ job' \in [Editors -> EditorJobs] /\ job'[e] \in {job[e], E!NoJob}
      /\ \A d \in Editors \ {e} : job'[d] = job[d]
  BY JobSet, NoJobTyped DEF EditorsTyped
<1>3. /\ draft' \in [Editors -> E!Texts] /\ draft'[e] \in {draft[e], 0}
      /\ \A d \in Editors \ {e} : draft'[d] = draft[d]
  BY BlankTyped DEF EditorsTyped
<1>4. /\ pending' = E!NoCall \/ pending' \in [key : Editors, text : E!Texts]
      /\ behind' \subseteq Editors
  BY StopsTyped DEF EditorsTyped
<1>5. (\A d \in Editors \ {e} : Spares(d)) /\ pending' \in {pending, E!NoCall}
  BY StopsSpares, UnchangedSpares
<1>6. EditorsTyped'
  BY <1>1, <1>2, <1>3, <1>4 DEF EditorsTyped
<1>7. OthersLeft(e)
  BY <1>1, <1>2, <1>3, <1>5 DEF OthersLeft
<1>8. Gains(e)
  BY <1>1, <1>2, <1>3, <1>5, BlankTyped, NoJobTyped DEF Gains, Holds
<1>9. CaughtAt(e)' /\ PostedAt(e)' /\ BlankedAt(e)
  BY <1>1, <1>2, BlankTyped, NoJobTyped DEF CaughtAt, PostedAt, BlankedAt
<1> QED
  BY <1>6, <1>7, <1>8, <1>9 DEF Kept

LEMMA LeaveKept ==
  ASSUME EditorsTyped, NEW e \in Editors, CaughtAt(e), PostedAt(e), E!Leave(e)
  PROVE  Kept(e)
BY ClosedKept DEF E!Leave

LEMMA NothingToSaveKept ==
  ASSUME EditorsTyped, NEW e \in Editors, CaughtAt(e), PostedAt(e), E!NothingToSave(e)
  PROVE  Kept(e)
BY ClosedKept DEF E!NothingToSave

LEMMA TypeKept ==
  ASSUME EditorsTyped, NEW e \in Editors, CaughtAt(e), PostedAt(e), E!Type(e)
  PROVE  Kept(e)
<1>1. PICK r : r = [ed[e] EXCEPT !.text = typed + 1]
  OBVIOUS
<1>2. /\ ed' = [ed EXCEPT ![e] = r] /\ ed[e].open /\ typed < MaxText /\ typed' = typed + 1
      /\ E!AutoSave(e, typed + 1)
      /\ UNCHANGED <<job, draft, keep, memo, posted, uploads, editorFaults>>
  BY <1>1 DEF E!Type
<1>t. ed[e] \in EditorRecord /\ typed \in Int /\ typed + 1 \in E!Texts /\ typed + 1 > 0
  BY <1>2, MemoEditorAssumption DEF EditorsTyped, E!Texts
<1>3. r \in EditorRecord /\ r.open /\ r.leaving = ed[e].leaving /\ r.text = typed + 1
  BY <1>1, <1>2, <1>t DEF EditorRecord
<1>4. /\ ed' \in [Editors -> EditorRecord] /\ \A d \in Editors : ~ed'[d].open => ed'[d] = E!Closed
      /\ ed'[e] = r /\ \A d \in Editors \ {e} : ed'[d] = ed[d]
  BY <1>2, <1>3, EditorSet
<1>5. EditorsTyped'
  BY <1>2, <1>3, <1>4, <1>t, AutoSaveTyped DEF EditorsTyped
<1>6. /\ E!Persists(e) => pending' = [key |-> e, text |-> typed + 1]
      /\ ~E!Persists(e) => pending' = E!NoCall
      /\ \A d \in Editors \ {e} : Spares(d)
  BY <1>2, AutoSaveSpares
<1>7. OthersLeft(e)
  BY <1>2, <1>4, <1>6 DEF OthersLeft
<1>8. Gains(e)
  BY <1>2, <1>3, <1>4, <1>6, BlankTyped DEF Gains, Holds
<1>9. CaughtAt(e)' /\ PostedAt(e)'
  BY <1>2, <1>3, <1>4, <1>6, BlankTyped, PersistsKept DEF CaughtAt, PostedAt
<1>10. BlankedAt(e)
  BY <1>3, <1>4, <1>t DEF BlankedAt
<1> QED
  BY <1>5, <1>7, <1>8, <1>9, <1>10 DEF Kept

(* Steps that change what else an editor has. *)
LEMMA ChangedKept ==
  ASSUME EditorsTyped, NEW e \in Editors, CaughtAt(e), PostedAt(e),
         NEW r \in EditorRecord, ed' = [ed EXCEPT ![e] = r],
         r.open, ed[e].open, r.text = ed[e].text, r.leaving \in {ed[e].leaving, ed[e].text},
         UNCHANGED <<job, pending, draft, keep, behind, memo, posted, uploads, typed, editorFaults>>
  PROVE  Kept(e)
<1>1. /\ ed' \in [Editors -> EditorRecord] /\ \A d \in Editors : ~ed'[d].open => ed'[d] = E!Closed
      /\ ed'[e] = r /\ \A d \in Editors \ {e} : ed'[d] = ed[d]
  BY EditorSet
<1>2. EditorsTyped'
  BY <1>1 DEF EditorsTyped
<1>3. OthersLeft(e)
  BY <1>1, UnchangedSpares DEF OthersLeft
<1>4. Gains(e)
  BY <1>1 DEF Gains, Holds
<1>5. CaughtAt(e)'
  BY <1>1, QuietStep
<1>6. PostedAt(e)' /\ BlankedAt(e)
  BY <1>1 DEF PostedAt, BlankedAt
<1> QED
  BY <1>2, <1>3, <1>4, <1>5, <1>6 DEF Kept

LEMMA ChangesKept ==
  ASSUME EditorsTyped, NEW e \in Editors, CaughtAt(e), PostedAt(e),
         E!SetVisibility(e) \/ E!ChangeFiles(e) \/ E!LeaveFocus(e)
  PROVE  Kept(e)
<1>t. ed[e] \in EditorRecord
  BY DEF EditorsTyped
<1>1. CASE E!SetVisibility(e)
  <2>1. PICK r : r = [ed[e] EXCEPT !.vis = "public"]
    OBVIOUS
  <2>2. r \in EditorRecord /\ r.text = ed[e].text /\ r.leaving = ed[e].leaving /\ r.open = ed[e].open
    BY <2>1, <1>t DEF EditorRecord, E!Visibilities
  <2>3. ed' = [ed EXCEPT ![e] = r] /\ ed[e].open
        /\ UNCHANGED <<job, pending, draft, keep, behind, memo, posted, uploads, typed, editorFaults>>
    BY <1>1, <2>1 DEF E!SetVisibility
  <2> QED
    BY <2>2, <2>3, ChangedKept
<1>2. CASE E!ChangeFiles(e)
  <2>1. PICK f \in FilesOf[e] : ed' = [ed EXCEPT ![e].local = @ \cup {f}] \/ ed' = [ed EXCEPT ![e].local = @ \ {f}]
    BY <1>2 DEF E!ChangeFiles
  <2>f. f \in E!Files
    BY <2>1, FilesTyped
  <2>2. PICK r : ed' = [ed EXCEPT ![e] = r]
                 /\ (r = [ed[e] EXCEPT !.local = @ \cup {f}] \/ r = [ed[e] EXCEPT !.local = @ \ {f}])
    BY <2>1
  <2>3. r \in EditorRecord /\ r.text = ed[e].text /\ r.leaving = ed[e].leaving /\ r.open = ed[e].open
    BY <2>2, <2>f, <1>t DEF EditorRecord
  <2>4. ed[e].open
        /\ UNCHANGED <<job, pending, draft, keep, behind, memo, posted, uploads, typed, editorFaults>>
    BY <1>2 DEF E!ChangeFiles
  <2> QED
    BY <2>2, <2>3, <2>4, ChangedKept
<1>3. CASE E!LeaveFocus(e)
  <2>1. PICK r : r = [ed[e] EXCEPT !.leaving = ed[e].text]
    OBVIOUS
  <2>2. r \in EditorRecord /\ r.text = ed[e].text /\ r.leaving = ed[e].text /\ r.open = ed[e].open
    BY <2>1, <1>t DEF EditorRecord
  <2>3. ed' = [ed EXCEPT ![e] = r] /\ ed[e].open
        /\ UNCHANGED <<job, pending, draft, keep, behind, memo, posted, uploads, typed, editorFaults>>
    BY <1>3, <2>1 DEF E!LeaveFocus
  <2> QED
    BY <2>2, <2>3, ChangedKept
<1> QED
  BY <1>1, <1>2, <1>3

LEMMA FocusLeftKept ==
  ASSUME EditorsTyped, NEW e \in Editors, CaughtAt(e), PostedAt(e), E!FocusLeft(e)
  PROVE  Kept(e)
<1>t. ed[e] \in EditorRecord /\ draft \in [Editors -> E!Texts]
  BY DEF EditorsTyped
<1>1. CASE Kind[e] = "edit"
  BY <1>1, ClosedKept DEF E!FocusLeft
<1>2. CASE Kind[e] # "edit"
  <2>1. PICK r, text : r = [ed[e] EXCEPT !.leaving = -1] /\ text = ed[e].leaving
    OBVIOUS
  <2>2. /\ ed' = [ed EXCEPT ![e] = r] /\ ed[e].open /\ text # -1
        /\ draft' = [draft EXCEPT ![e] = IF E!Persists(e) THEN text ELSE 0]
        /\ pending' = (IF E!Persists(e) THEN E!NoCall ELSE pending)
        /\ behind' = (IF ~E!Persists(e) THEN behind
                      ELSE (behind \cup E!Dropped(e)) \cup (IF text # ed[e].text THEN {e} ELSE {}))
        /\ UNCHANGED <<job, keep, memo, posted, uploads, typed, editorFaults>>
    BY <1>2, <2>1 DEF E!FocusLeft
  <2>3. r \in EditorRecord /\ r.text = ed[e].text /\ r.leaving = -1 /\ r.open /\ text \in E!Texts
    BY <2>1, <2>2, <1>t DEF EditorRecord
  <2>4. /\ ed' \in [Editors -> EditorRecord] /\ \A d \in Editors : ~ed'[d].open => ed'[d] = E!Closed
        /\ ed'[e] = r /\ \A d \in Editors \ {e} : ed'[d] = ed[d]
    BY <2>2, <2>3, EditorSet
  <2>5. /\ draft' \in [Editors -> E!Texts] /\ draft'[e] \in {text, 0}
        /\ \A d \in Editors \ {e} : draft'[d] = draft[d]
        /\ E!Persists(e) => draft'[e] = text
    BY <2>2, <2>3, <1>t, BlankTyped
  <2>6. /\ pending' = E!NoCall \/ pending' \in [key : Editors, text : E!Texts]
        /\ behind' \subseteq Editors /\ pending' \in {pending, E!NoCall}
    BY <2>2 DEF EditorsTyped, E!Dropped
  <2>7. \A d \in Editors \ {e} : Spares(d)
    BY <2>2, BlankTyped DEF Spares, E!Dropped
  <2>8. EditorsTyped'
    BY <2>2, <2>4, <2>5, <2>6 DEF EditorsTyped
  <2>9. OthersLeft(e)
    BY <2>2, <2>4, <2>5, <2>7 DEF OthersLeft
  <2>10. Gains(e)
    BY <2>1, <2>2, <2>3, <2>4, <2>5, <2>6, BlankTyped DEF Gains, Holds
  <2>11. CaughtAt(e)'
    <3>1. CASE E!Persists(e)
      <4>1. pending'.key # e
        BY <3>1, <2>2, BlankTyped
      <4>2. e \notin behind' => text = ed[e].text
        BY <3>1, <2>2
      <4> QED
        BY <4>1, <4>2, <3>1, <2>3, <2>4, <2>5 DEF CaughtAt
    <3>2. CASE ~E!Persists(e)
      BY <3>2, <2>2, <2>3, <2>4, PersistsKept DEF CaughtAt
    <3> QED
      BY <3>1, <3>2
  <2>12. PostedAt(e)' /\ BlankedAt(e)
    BY <2>2, <2>3, <2>4 DEF PostedAt, BlankedAt
  <2> QED
    BY <2>8, <2>9, <2>10, <2>11, <2>12 DEF Kept
<1> QED
  BY <1>1, <1>2

(* Steps of a save that leave the editor: the text of the save stays.      *)
LEMMA SaveStepKept ==
  ASSUME EditorsTyped, NEW e \in Editors, CaughtAt(e), PostedAt(e),
         NEW r \in EditorJobs, job' = [job EXCEPT ![e] = r],
         job[e].step # "saved", r.step # "none" => r.text \in Holds(e),
         Kind[e] # "edit" => r.step # "update" /\ (r.step \in {"posted", "saved"} => posted'[e].text = r.text),
         NEW p \in [text : E!Texts, files : SUBSET E!Files],
         posted' = [posted EXCEPT ![e] = p],
         memo' \in [text : E!Texts, vis : E!Visibilities, files : SUBSET E!Files],
         memo' = memo \/ (Kind[e] = "edit" /\ memo'.text \in Holds(e)),
         editorFaults' \in Nat,
         UNCHANGED <<ed, pending, draft, keep, behind, typed>>
  PROVE  Kept(e)
<1>1. job' \in [Editors -> EditorJobs] /\ job'[e] = r /\ \A d \in Editors \ {e} : job'[d] = job[d]
  BY JobSet
<1>2. /\ posted' \in [Editors -> [text : E!Texts, files : SUBSET E!Files]]
      /\ \A d \in Editors \ {e} : posted'[d] = posted[d]
  BY DEF EditorsTyped
<1>3. EditorsTyped'
  BY <1>1, <1>2 DEF EditorsTyped
<1>4. OthersLeft(e)
  BY <1>1, <1>2, UnchangedSpares DEF OthersLeft
<1>5. Gains(e)
  BY <1>1 DEF Gains, Holds
<1>6. CaughtAt(e)'
  BY <1>1, QuietStep
<1>7. PostedAt(e)' /\ BlankedAt(e)
  BY <1>1 DEF PostedAt, BlankedAt
<1> QED
  BY <1>3, <1>4, <1>5, <1>6, <1>7 DEF Kept

LEMMA SavesKept ==
  ASSUME EditorsTyped, NEW e \in Editors, CaughtAt(e), PostedAt(e),
         E!StartSave(e) \/ E!Upload(e) \/ E!Post(e) \/ E!GetPrevious(e) \/ E!UpdateMemo(e) \/ E!SaveFails(e)
  PROVE  Kept(e)
<1>t. /\ ed[e] \in EditorRecord /\ posted[e] \in [text : E!Texts, files : SUBSET E!Files]
      /\ posted = [posted EXCEPT ![e] = posted[e]]
      /\ memo \in [text : E!Texts, vis : E!Visibilities, files : SUBSET E!Files]
      /\ editorFaults \in Nat
  BY DEF EditorsTyped
<1>h. ed[e].text \in Holds(e) /\ (job[e].step # "none" => job[e].text \in Holds(e))
  BY DEF Holds
<1>1. CASE E!StartSave(e)
  <2>1. PICK r : r = [step |-> "upload", text |-> ed[e].text, vis |-> ed[e].vis,
                      files |-> ed[e].files, local |-> ed[e].local]
    OBVIOUS
  <2>2. r \in EditorJobs /\ r.step = "upload" /\ r.text = ed[e].text
    BY <2>1, <1>t DEF EditorJobs, EditorRecord
  <2>3. /\ job' = [job EXCEPT ![e] = r] /\ job[e].step = "none"
        /\ UNCHANGED <<ed, pending, draft, keep, behind, memo, posted, uploads, typed, editorFaults>>
    BY <1>1, <2>1, NoJobTyped DEF E!StartSave, E!CanSave
  <2> QED
    BY <2>2, <2>3, <1>t, <1>h, SaveStepKept
<1>2. CASE E!Upload(e)
  <2>1. PICK f \in job[e].local :
           job' = [job EXCEPT ![e].local = @ \ {f}, ![e].files = @ \cup {f}]
    BY <1>2 DEF E!Upload
  <2>2. PICK r : r = [job[e] EXCEPT !.local = @ \ {f}, !.files = @ \cup {f}]
    OBVIOUS
  <2>3. job[e] \in [step : {"upload"}, text : E!Texts, vis : E!Visibilities,
                    files : SUBSET E!Files, local : SUBSET E!Files]
    BY <1>2, JobIs DEF E!Upload
  <2>4. r \in EditorJobs /\ r.step = "upload" /\ r.text = job[e].text
    BY <2>1, <2>2, <2>3 DEF EditorJobs
  <2>5. /\ job' = [job EXCEPT ![e] = r] /\ job[e].step = "upload"
        /\ UNCHANGED <<ed, pending, draft, keep, behind, memo, posted, typed, editorFaults>>
    BY <1>2, <2>1, <2>2 DEF E!Upload
  <2> QED
    BY <2>4, <2>5, <1>t, <1>h, SaveStepKept
<1>3. CASE E!Post(e)
  <2>1. PICK r, p : r = [step |-> "posted", text |-> job[e].text]
                    /\ p = [text |-> job[e].text, files |-> job[e].files]
    OBVIOUS
  <2>2. job[e].step = "upload" /\ Kind[e] # "edit"
    BY <1>3 DEF E!Post, E!Uploaded
  <2>3. job[e] \in [step : {"upload"}, text : E!Texts, vis : E!Visibilities,
                    files : SUBSET E!Files, local : SUBSET E!Files]
    BY <2>2, JobIs
  <2>4. /\ r \in EditorJobs /\ r.step = "posted" /\ r.text = job[e].text
        /\ p \in [text : E!Texts, files : SUBSET E!Files] /\ p.text = job[e].text
    BY <2>1, <2>3 DEF EditorJobs
  <2>5. /\ job' = [job EXCEPT ![e] = r] /\ posted' = [posted EXCEPT ![e] = p]
        /\ UNCHANGED <<ed, pending, draft, keep, behind, memo, uploads, typed, editorFaults>>
    BY <1>3, <2>1 DEF E!Post
  <2>6. posted'[e].text = r.text
    BY <2>4, <2>5 DEF EditorsTyped
  <2> QED
    BY <2>2, <2>4, <2>5, <2>6, <1>t, <1>h, SaveStepKept
<1>4. CASE E!GetPrevious(e)
  <2>1. PICK r : r = [step |-> "update", text |-> job[e].text, vis |-> job[e].vis,
                      files |-> job[e].files, prev |-> memo]
    OBVIOUS
  <2>2. job[e].step = "upload" /\ Kind[e] = "edit"
    BY <1>4 DEF E!GetPrevious, E!Uploaded
  <2>3. job[e] \in [step : {"upload"}, text : E!Texts, vis : E!Visibilities,
                    files : SUBSET E!Files, local : SUBSET E!Files]
    BY <2>2, JobIs
  <2>4. r \in EditorJobs /\ r.step = "update" /\ r.text = job[e].text
    BY <2>1, <2>3, <1>t DEF EditorJobs
  <2>5. /\ job' = [job EXCEPT ![e] = r]
        /\ UNCHANGED <<ed, pending, draft, keep, behind, memo, posted, uploads, typed, editorFaults>>
    BY <1>4, <2>1 DEF E!GetPrevious
  <2> QED
    BY <2>2, <2>4, <2>5, <1>t, <1>h, SaveStepKept
<1>5. CASE E!UpdateMemo(e)
  <2>1. PICK r : r = [step |-> "posted", text |-> job[e].text]
    OBVIOUS
  <2>2. job[e].step = "update"
    BY <1>5 DEF E!UpdateMemo
  <2>3. job[e] \in [step : {"update"}, text : E!Texts, vis : E!Visibilities,
            files : SUBSET E!Files, prev : [text : E!Texts, vis : E!Visibilities, files : SUBSET E!Files]]
    BY <2>2, JobIs
  <2>4. r \in EditorJobs /\ r.step = "posted" /\ r.text = job[e].text
    BY <2>1, <2>3 DEF EditorJobs
  <2>5. /\ job' = [job EXCEPT ![e] = r]
        /\ UNCHANGED <<ed, pending, draft, keep, behind, posted, uploads, typed, editorFaults>>
    BY <1>5, <2>1 DEF E!UpdateMemo
  <2>6. PICK x, y, z : /\ memo' = [memo EXCEPT !.text = x, !.vis = y, !.files = z]
                       /\ x \in {memo.text, job[e].text} /\ y \in {memo.vis, job[e].vis}
                       /\ z \in {memo.files, job[e].files}
    <3>1. memo' = [memo EXCEPT !.text = IF "text" \in E!Mask(e) THEN job[e].text ELSE memo.text,
                               !.vis = IF "vis" \in E!Mask(e) THEN job[e].vis ELSE memo.vis,
                               !.files = IF "files" \in E!Mask(e) THEN job[e].files ELSE memo.files]
      BY <1>5 DEF E!UpdateMemo
    <3> QED
      BY <3>1
  <2>7. /\ memo' \in [text : E!Texts, vis : E!Visibilities, files : SUBSET E!Files]
        /\ memo'.text \in {memo.text, job[e].text}
    BY <2>6, <2>3, <1>t
  <2>8. CASE Kind[e] = "edit"
    <3>1. memo'.text \in Holds(e)
      BY <2>7, <2>8, <2>2, <1>h DEF Holds
    <3> QED
      BY <3>1, <2>2, <2>4, <2>5, <2>7, <2>8, <1>t, <1>h, SaveStepKept
  <2>9. CASE Kind[e] # "edit"
    BY <2>9, <2>2 DEF PostedAt
  <2> QED
    BY <2>8, <2>9
<1>6. CASE E!SaveFails(e)
  <2>1. /\ job[e].step \in {"upload", "update", "posted"} /\ editorFaults' \in Nat
        /\ job' = [job EXCEPT ![e] = E!NoJob]
        /\ UNCHANGED <<ed, pending, draft, keep, behind, memo, posted, uploads, typed>>
    BY <1>6, <1>t DEF E!SaveFails, E!Fault
  <2> QED
    BY <2>1, <1>t, NoJobTyped, SaveStepKept
<1> QED
  BY <1>1, <1>2, <1>3, <1>4, <1>5, <1>6

LEMMA ClearDraftKept ==
  ASSUME EditorsTyped, NEW e \in Editors, CaughtAt(e), PostedAt(e), E!ClearDraft(e)
  PROVE  Kept(e)
<1>1. PICK r : r = [job[e] EXCEPT !.step = "saved"]
  OBVIOUS
<1>2. /\ job' = [job EXCEPT ![e] = r] /\ draft' = [draft EXCEPT ![e] = 0] /\ job[e].step = "posted"
      /\ UNCHANGED <<ed, pending, keep, behind, memo, posted, uploads, typed, editorFaults>>
  BY <1>1 DEF E!ClearDraft
<1>3. r \in EditorJobs /\ r.step = "saved" /\ r.text = job[e].text
  BY <1>1, <1>2, JobIs DEF EditorJobs
<1>4. job' \in [Editors -> EditorJobs] /\ job'[e] = r /\ \A d \in Editors \ {e} : job'[d] = job[d]
  BY <1>2, <1>3, JobSet
<1>5. draft' \in [Editors -> E!Texts] /\ draft'[e] = 0 /\ \A d \in Editors \ {e} : draft'[d] = draft[d]
  BY <1>2, BlankTyped DEF EditorsTyped
<1>6. EditorsTyped'
  BY <1>2, <1>4, <1>5 DEF EditorsTyped
<1>7. OthersLeft(e)
  BY <1>2, <1>4, <1>5, UnchangedSpares DEF OthersLeft
<1>8. Gains(e)
  BY <1>2, <1>3, <1>4, <1>5 DEF Gains, Holds
<1>9. CaughtAt(e)' /\ PostedAt(e)' /\ BlankedAt(e)
  BY <1>2, <1>3, <1>4, <1>5 DEF CaughtAt, PostedAt, BlankedAt
<1> QED
  BY <1>6, <1>7, <1>8, <1>9 DEF Kept

LEMMA ConfirmKept ==
  ASSUME EditorsTyped, NEW e \in Editors, CaughtAt(e), PostedAt(e), E!Confirm(e)
  PROVE  Kept(e)
<1>1. /\ job[e].step = "saved" /\ job' = [job EXCEPT ![e] = E!NoJob]
      /\ UNCHANGED <<draft, keep, memo, posted, uploads, typed, editorFaults>>
  BY DEF E!Confirm
<1>j. /\ job' \in [Editors -> EditorJobs] /\ job'[e] = E!NoJob
      /\ \A d \in Editors \ {e} : job'[d] = job[d]
  BY <1>1, JobSet, NoJobTyped
<1>t. ed[e] \in EditorRecord
  BY DEF EditorsTyped
<1>2. CASE ed[e].open /\ Kind[e] = "memo"
  <2>1. PICK r : r = [E!Blank EXCEPT !.leaving = ed[e].leaving]
    OBVIOUS
  <2>2. /\ ed' = [ed EXCEPT ![e] = r]
        /\ IF ed[e].text # 0 THEN E!AutoSave(e, 0) ELSE UNCHANGED <<pending, behind>>
    BY <1>2, <2>1 DEF E!Confirm
  <2>3. r \in EditorRecord /\ r.open /\ r.text = 0 /\ r.leaving = ed[e].leaving
    BY <2>1, <1>t, BlankTyped DEF EditorRecord
  <2>4. /\ ed' \in [Editors -> EditorRecord] /\ \A d \in Editors : ~ed'[d].open => ed'[d] = E!Closed
        /\ ed'[e] = r /\ \A d \in Editors \ {e} : ed'[d] = ed[d]
    BY <2>2, <2>3, EditorSet
  <2>5. /\ pending' = E!NoCall \/ pending' \in [key : Editors, text : E!Texts]
        /\ behind' \subseteq Editors
    BY <2>2, AutoSaveTyped, BlankTyped DEF EditorsTyped
  <2>6. \A d \in Editors \ {e} : Spares(d)
    BY <2>2, AutoSaveSpares, UnchangedSpares
  <2>7. EditorsTyped'
    BY <1>1, <1>j, <2>4, <2>5 DEF EditorsTyped
  <2>8. OthersLeft(e)
    BY <1>1, <1>j, <2>4, <2>6 DEF OthersLeft
  <2>9. PostedAt(e)' /\ BlankedAt(e)
    BY <1>1, <1>2, <1>j, NoJobTyped DEF PostedAt, BlankedAt
  <2>10. CASE ed[e].text # 0
    <3>1. /\ E!Persists(e) => pending' = [key |-> e, text |-> 0]
          /\ ~E!Persists(e) => pending' = E!NoCall
      BY <2>2, <2>10, AutoSaveSpares
    <3>2. Gains(e)
      BY <1>1, <1>j, <2>3, <2>4, <3>1, BlankTyped, NoJobTyped DEF Gains, Holds
    <3>3. CaughtAt(e)'
      BY <1>1, <2>3, <2>4, <3>1, BlankTyped, PersistsKept DEF CaughtAt
    <3> QED
      BY <2>7, <2>8, <2>9, <3>2, <3>3 DEF Kept
  <2>11. CASE ed[e].text = 0
    <3>1. UNCHANGED <<pending, behind>>
      BY <2>2, <2>11
    <3>2. Gains(e)
      BY <1>1, <1>j, <2>3, <2>4, <3>1, BlankTyped, NoJobTyped DEF Gains, Holds
    <3>3. CaughtAt(e)'
      BY <1>1, <1>2, <2>3, <2>4, <2>11, <3>1, BlankTyped, PersistsKept DEF CaughtAt
    <3> QED
      BY <2>7, <2>8, <2>9, <3>2, <3>3 DEF Kept
  <2> QED
    BY <2>10, <2>11
<1>3. CASE ed[e].open /\ Kind[e] # "memo"
  BY <1>1, <1>3, ClosedKept DEF E!Confirm
<1>4. CASE ~ed[e].open
  <2>1. ed[e] = E!Closed
    BY <1>4 DEF EditorsTyped
  <2>2. ed' = [ed EXCEPT ![e] = E!Closed] /\ UNCHANGED <<pending, behind>>
    BY <1>4, <2>1 DEF E!Confirm, EditorsTyped
  <2> QED
    BY <1>1, <2>2, ClosedKept
<1> QED
  BY <1>2, <1>3, <1>4

(* The texts of two editors are different: a new text has a new number,    *)
(* and at most one editor is of the memo, which others change too.         *)
TextsOwned ==
    /\ \A e \in Editors : \A x \in Holds(e) : x <= typed
    /\ \A d, e \in Editors : d # e => \A x \in Holds(d) \cap Holds(e) : x <= 0
    /\ memo.text <= typed

EditorsInv ==
    EditorsTyped /\ TextsOwned /\ \A e \in Editors : CaughtAt(e) /\ PostedAt(e)

LEMMA HoldsNumbers ==
  ASSUME EditorsTyped, NEW e \in Editors
  PROVE  Holds(e) \subseteq Int
<1>1. /\ ed[e] \in EditorRecord /\ draft[e] \in E!Texts /\ memo.text \in E!Texts
      /\ pending.key = e => pending.text \in E!Texts
      /\ job[e].step # "none" => job[e].text \in E!Texts
  BY JobIs, BlankTyped DEF EditorsTyped
<1> QED
  BY <1>1, MemoEditorAssumption DEF EditorRecord, Holds, E!Texts

LEMMA OthersHold ==
  ASSUME EditorsTyped, NEW e \in Editors, OthersLeft(e), NEW d \in Editors \ {e}
  PROVE  Holds(d)' \subseteq Holds(d)
<1>1. Kind[d] = "edit" => memo' = memo
  BY MemoEditorAssumption DEF OthersLeft
<1> QED
  BY <1>1 DEF OthersLeft, Spares, Holds

LEMMA OthersCaught ==
  ASSUME EditorsTyped, NEW e \in Editors, OthersLeft(e), NEW d \in Editors \ {e}, CaughtAt(d), PostedAt(d)
  PROVE  CaughtAt(d)' /\ PostedAt(d)'
<1>1. E!Persists(d)' <=> E!Persists(d)
  BY PersistsKept DEF OthersLeft
<1> QED
  BY <1>1 DEF OthersLeft, Spares, CaughtAt, PostedAt

LEMMA OwnedKept ==
  ASSUME EditorsTyped, EditorsTyped', TextsOwned, NEW e \in Editors, OthersLeft(e), Gains(e)
  PROVE  TextsOwned'
<1>t. typed \in Int /\ typed' \in Int /\ typed <= typed'
  BY MemoEditorAssumption DEF EditorsTyped, OthersLeft, E!Texts
<1>1. \A d \in Editors \ {e} : Holds(d)' \subseteq Holds(d)
  BY OthersHold
<1>n. \A d \in Editors : Holds(d) \subseteq Int
  BY HoldsNumbers
<1>m. Holds(e)' \subseteq Int
  BY <1>n, <1>t DEF Gains
<1>2. \A x \in Holds(e)' : x \in Holds(e) \/ x <= 0 \/ (x = typed + 1 /\ typed' = typed + 1)
  BY DEF Gains
<1>3. ASSUME NEW d \in Editors, NEW x \in Holds(d)'
      PROVE  x <= typed'
  <2>1. CASE x \in Holds(d)
    BY <2>1, <1>n, <1>t DEF TextsOwned
  <2>2. CASE x \notin Holds(d)
    <3>1. d = e
      BY <2>2, <1>1
    <3>2. x <= 0 \/ x = typed'
      BY <2>2, <3>1, <1>2
    <3>3. 0 <= typed'
      BY MemoEditorAssumption DEF EditorsTyped, E!Texts
    <3>4. x \in Int
      BY <3>1, <1>m
    <3> QED
      BY <3>2, <3>3, <3>4, <1>t
  <2> QED
    BY <2>1, <2>2
<1>4. ASSUME NEW d \in Editors \ {e}, NEW x \in Holds(d)' \cap Holds(e)'
      PROVE  x <= 0
  BY <1>1, <1>2, <1>n, <1>t DEF TextsOwned
<1>5. ASSUME NEW c \in Editors, NEW d \in Editors, c # d, NEW x \in Holds(c)' \cap Holds(d)'
      PROVE  x <= 0
  BY <1>1, <1>4, <1>5 DEF TextsOwned
<1>6. memo'.text <= typed'
  <2>1. CASE Kind[e] = "edit"
    <3>1. memo'.text \in Holds(e)'
      BY <2>1 DEF Holds
    <3> QED
      BY <3>1, <1>3
  <2>2. CASE Kind[e] # "edit"
    <3>1. memo' = memo /\ memo.text \in Int
      BY <2>2, MemoEditorAssumption DEF OthersLeft, EditorsTyped, E!Texts
    <3> QED
      BY <3>1, <1>t DEF TextsOwned
  <2> QED
    BY <2>1, <2>2
<1> QED
  BY <1>3, <1>5, <1>6 DEF TextsOwned

LEMMA DebounceKept ==
  ASSUME EditorsInv, E!DebounceFires
  PROVE  EditorsInv'
<1>1. PICK k, t : k = pending.key /\ t = pending.text
  OBVIOUS
<1>2. /\ k # "none" /\ draft' = [draft EXCEPT ![k] = t] /\ pending' = E!NoCall
      /\ UNCHANGED <<ed, job, keep, behind, memo, posted, uploads, typed, editorFaults>>
  BY <1>1 DEF E!DebounceFires
<1>3. k \in Editors /\ t \in E!Texts
  BY <1>1, <1>2 DEF EditorsInv, EditorsTyped, E!NoCall
<1>4. draft' \in [Editors -> E!Texts] /\ draft'[k] = t /\ \A d \in Editors \ {k} : draft'[d] = draft[d]
  BY <1>2, <1>3 DEF EditorsInv, EditorsTyped
<1>5. EditorsTyped'
  BY <1>2, <1>4 DEF EditorsInv, EditorsTyped
<1>6. ASSUME NEW e \in Editors
      PROVE  Holds(e)' \subseteq Holds(e)
  BY <1>1, <1>2, <1>3, <1>4, BlankTyped DEF Holds
<1>7. TextsOwned'
  BY <1>2, <1>6 DEF EditorsInv, TextsOwned
<1>8. ASSUME NEW e \in Editors
      PROVE  CaughtAt(e)' /\ PostedAt(e)'
  <2>1. CaughtAt(e) /\ PostedAt(e)
    BY DEF EditorsInv
  <2>2. CASE e = k
    BY <2>1, <2>2, <1>1, <1>2, <1>4, BlankTyped DEF CaughtAt, PostedAt
  <2>3. CASE e # k
    BY <2>1, <2>3, <1>1, <1>2, <1>4, BlankTyped, PersistsKept DEF CaughtAt, PostedAt
  <2> QED
    BY <2>2, <2>3
<1> QED
  BY <1>5, <1>7, <1>8 DEF EditorsInv

LEMMA OthersChangeKept ==
  ASSUME EditorsInv, E!OthersChange
  PROVE  EditorsInv'
<1>t. /\ memo \in [text : E!Texts, vis : E!Visibilities, files : SUBSET E!Files]
      /\ typed \in E!Texts /\ typed \in Int /\ memo.text \in Int /\ editorFaults \in Nat
  BY MemoEditorAssumption DEF EditorsInv, EditorsTyped, E!Texts
<1>1. editorFaults' \in Nat /\ UNCHANGED <<ed, job, pending, draft, keep, behind, posted, uploads>>
  BY <1>t DEF E!OthersChange, E!Fault
<1>2. \/ typed < MaxText /\ typed' = typed + 1 /\ memo' = [memo EXCEPT !.text = typed + 1]
      \/ memo' = [memo EXCEPT !.vis = "public"] /\ typed' = typed
  BY DEF E!OthersChange
<1>3. /\ memo' \in [text : E!Texts, vis : E!Visibilities, files : SUBSET E!Files]
      /\ typed' \in E!Texts /\ typed' \in Int /\ typed <= typed' /\ memo'.text \in Int
      /\ memo'.text = memo.text \/ (memo'.text = typed' /\ typed' = typed + 1)
  BY <1>2, <1>t, MemoEditorAssumption DEF E!Texts, E!Visibilities
<1>4. EditorsTyped'
  BY <1>1, <1>3 DEF EditorsInv, EditorsTyped
<1>5. ASSUME NEW e \in Editors
      PROVE  CaughtAt(e)' /\ PostedAt(e)'
  <2>1. CaughtAt(e) /\ PostedAt(e)
    BY DEF EditorsInv
  <2> QED
    BY <2>1, <1>1, PersistsKept DEF CaughtAt, PostedAt
<1>6. ASSUME NEW e \in Editors, NEW x \in Holds(e)'
      PROVE  x \in Holds(e) \/ (Kind[e] = "edit" /\ x = typed + 1 /\ typed' = typed + 1)
  BY <1>1, <1>3 DEF Holds
<1>7. \A e \in Editors : Holds(e) \subseteq Int
  BY HoldsNumbers DEF EditorsInv
<1>o. /\ \A e \in Editors : \A x \in Holds(e) : x <= typed
      /\ \A d, e \in Editors : d # e => \A x \in Holds(d) \cap Holds(e) : x <= 0
      /\ memo.text <= typed
  BY DEF EditorsInv, TextsOwned
<1>8. ASSUME NEW e \in Editors, NEW x \in Holds(e)'
      PROVE  x <= typed'
  BY <1>3, <1>6, <1>7, <1>o, <1>t
<1>9. ASSUME NEW d \in Editors, NEW e \in Editors, d # e, NEW x \in Holds(d)' \cap Holds(e)'
      PROVE  x <= 0
  <2>1. ~(Kind[d] = "edit" /\ Kind[e] = "edit")
    BY <1>9, MemoEditorAssumption
  <2>2. x \in Holds(d) \/ x \in Holds(e)
    BY <2>1, <1>6
  <2>3. x \in Int /\ x <= typed
    BY <2>2, <1>7, <1>o
  <2>4. x \in Holds(d) /\ x \in Holds(e)
    BY <2>3, <1>6, <1>t
  <2> QED
    BY <2>4, <1>9, <1>o
<1>10. memo'.text <= typed'
  BY <1>3, <1>o, <1>t
<1>11. TextsOwned'
  BY <1>8, <1>9, <1>10 DEF TextsOwned
<1> QED
  BY <1>4, <1>5, <1>11 DEF EditorsInv

LEMMA EditorStepKept ==
  ASSUME EditorsInv, NEW e \in Editors,
         E!User(e) \/ E!FocusLeft(e) \/ E!Saving(e) \/ E!SaveFails(e)
  PROVE  Kept(e)
<1>1. EditorsTyped /\ CaughtAt(e) /\ PostedAt(e)
  BY DEF EditorsInv
<1>2. CASE E!User(e)
  BY <1>1, <1>2, OpenKept, LeaveKept, TypeKept, ChangesKept, SavesKept DEF E!User
<1>3. CASE E!FocusLeft(e)
  BY <1>1, <1>3, FocusLeftKept
<1>4. CASE E!Saving(e)
  BY <1>1, <1>4, SavesKept, NothingToSaveKept, ClearDraftKept, ConfirmKept DEF E!Saving
<1>5. CASE E!SaveFails(e)
  BY <1>1, <1>5, SavesKept
<1> QED
  BY <1>2, <1>3, <1>4, <1>5

LEMMA EditorsNext ==
  ASSUME EditorsInv, E!Next
  PROVE  EditorsInv' /\ \A e \in Editors : BlankedAt(e)
<1>1. CASE E!DebounceFires
  <2>1. ed' = ed
    BY <1>1 DEF E!DebounceFires
  <2> QED
    BY <1>1, <2>1, DebounceKept DEF BlankedAt
<1>2. CASE E!OthersChange
  <2>1. ed' = ed
    BY <1>2 DEF E!OthersChange
  <2> QED
    BY <1>2, <2>1, OthersChangeKept DEF BlankedAt
<1>3. ASSUME NEW e \in Editors, E!User(e) \/ E!FocusLeft(e) \/ E!Saving(e) \/ E!SaveFails(e)
      PROVE  EditorsInv' /\ \A d \in Editors : BlankedAt(d)
  <2>1. Kept(e)
    BY <1>3, EditorStepKept
  <2>2. EditorsTyped' /\ OthersLeft(e) /\ Gains(e)
    BY <2>1 DEF Kept
  <2>3. TextsOwned'
    BY <2>2, OwnedKept DEF EditorsInv
  <2>4. \A d \in Editors : CaughtAt(d)' /\ PostedAt(d)'
    <3>1. ASSUME NEW d \in Editors PROVE CaughtAt(d)' /\ PostedAt(d)'
      <4>1. CASE d = e
        BY <4>1, <2>1 DEF Kept
      <4>2. CASE d # e
        BY <4>2, <2>2, OthersCaught DEF EditorsInv
      <4> QED
        BY <4>1, <4>2
    <3> QED
      BY <3>1
  <2>5. \A d \in Editors : BlankedAt(d)
    BY <2>1, <2>2 DEF Kept, OthersLeft, BlankedAt
  <2> QED
    BY <2>2, <2>3, <2>4, <2>5 DEF EditorsInv
<1> QED
  BY <1>1, <1>2, <1>3 DEF E!Next

LEMMA EditorsStutter ==
  ASSUME EditorsInv, UNCHANGED editor
  PROVE  EditorsInv' /\ \A e \in Editors : BlankedAt(e)
<1>1. UNCHANGED <<ed, job, pending, draft, keep, behind, memo, posted, uploads, typed, editorFaults>>
  BY DEF editor
<1>2. \A e \in Editors : Holds(e)' = Holds(e) /\ (CaughtAt(e) => CaughtAt(e)') /\ (PostedAt(e) => PostedAt(e)')
  BY <1>1, PersistsKept DEF Holds, CaughtAt, PostedAt
<1>3. TextsOwned'
  BY <1>1, <1>2 DEF EditorsInv, TextsOwned
<1>4. EditorsTyped'
  BY <1>1 DEF EditorsInv, EditorsTyped
<1> QED
  BY <1>1, <1>2, <1>3, <1>4 DEF EditorsInv, BlankedAt

LEMMA EditorsStart ==
  ASSUME E!Init
  PROVE  EditorsInv
<1>1. /\ ed = [e \in Editors |-> IF Kind[e] = "memo" THEN E!Blank ELSE E!Closed]
      /\ job = [e \in Editors |-> E!NoJob] /\ pending = E!NoCall
      /\ draft = [e \in Editors |-> 0] /\ keep \in Preferences /\ behind = {}
      /\ memo = [text |-> 1, vis |-> "private", files |-> {}]
      /\ posted = [e \in Editors |-> [text |-> 0, files |-> {}]]
      /\ typed = 1 /\ editorFaults = 0
  BY DEF E!Init
<1>2. 0 \in E!Texts /\ 1 \in E!Texts
  BY MemoEditorAssumption DEF E!Texts
<1>3. EditorsTyped
  <2>1. ed \in [Editors -> EditorRecord] /\ \A e \in Editors : ~ed[e].open => ed[e] = E!Closed
    BY <1>1, BlankTyped
  <2>2. job \in [Editors -> EditorJobs]
    BY <1>1, NoJobTyped
  <2>3. keep \in [save : BOOLEAN, restore : BOOLEAN, edits : BOOLEAN]
    BY <1>1, MemoEditorAssumption
  <2>4. memo \in [text : E!Texts, vis : E!Visibilities, files : SUBSET E!Files]
    BY <1>1, <1>2 DEF E!Visibilities
  <2>5. draft \in [Editors -> E!Texts] /\ posted \in [Editors -> [text : E!Texts, files : SUBSET E!Files]]
    BY <1>1, <1>2
  <2> QED
    BY <1>1, <1>2, <2>1, <2>2, <2>3, <2>4, <2>5 DEF EditorsTyped
<1>4. \A e \in Editors : /\ ed[e].text = 0 /\ ed[e].leaving = -1 /\ draft[e] = 0
                         /\ pending.key # e /\ job[e].step = "none"
  BY <1>1, BlankTyped, NoJobTyped
<1>5. \A e \in Editors : CaughtAt(e) /\ PostedAt(e)
  BY <1>4 DEF CaughtAt, PostedAt
<1>6. \A e \in Editors : \A x \in Holds(e) : x \in {0, -1} \/ (Kind[e] = "edit" /\ x = 1)
  BY <1>1, <1>4 DEF Holds
<1>7. TextsOwned
  BY <1>1, <1>6, MemoEditorAssumption DEF TextsOwned
<1> QED
  BY <1>3, <1>5, <1>7 DEF EditorsInv

LEMMA EditorsFollow ==
  ASSUME EditorsInv
  PROVE  DraftsFollow
<1>1. E!DraftCaughtUp
  BY DEF EditorsInv, CaughtAt, E!DraftCaughtUp
<1>2. ASSUME NEW d \in Editors, NEW e \in Editors, d # e, draft[d] # 0
      PROVE  draft[d] # draft[e]
  <2>1. draft[d] \in Holds(d) /\ draft[e] \in Holds(e)
    BY DEF Holds
  <2>2. draft[d] \in Int /\ draft[d] > 0
    BY <1>2, MemoEditorAssumption DEF EditorsInv, EditorsTyped, E!Texts
  <2> QED
    BY <1>2, <2>1, <2>2 DEF EditorsInv, TextsOwned
<1> QED
  BY <1>1, <1>2 DEF DraftsFollow, E!DraftsStayApart

LEMMA EditorsHold == MemosSpec => []EditorsInv
<1>1. MemosInit => EditorsInv
  BY EditorsStart DEF MemosInit
<1>2. EditorsInv /\ [LivePart \/ EditorPart]_allVars => EditorsInv'
  BY StepsOfMemos, EditorsNext, EditorsStutter
<1> QED
  BY <1>1, <1>2, PTL DEF MemosSpec

(* The draft of an open editor is its text, whichever of the editors that  *)
(* share the debounce typed last, except where it is named behind; and a   *)
(* draft is never the text of another editor.                              *)
THEOREM DraftsAlwaysFollow == MemosSpec => []DraftsFollow
<1>1. EditorsInv => DraftsFollow
  BY EditorsFollow
<1> QED
  BY <1>1, EditorsHold, PTL

(* No text is taken out of an open editor before the text its save began   *)
(* with has reached the server.                                            *)
THEOREM PostedBeforeTaken == MemosSpec => TextKept
<1>1. EditorsInv /\ [E!Next]_editor
        => [\A e \in Editors : ed[e].open /\ ed[e].text # 0 /\ ed'[e].open /\ ed'[e].text = 0
                                  => posted[e].text = job[e].text]_editor
  BY EditorsNext DEF BlankedAt
<1>2. [LivePart \/ EditorPart]_allVars => [E!Next]_editor
  BY StepsOfMemos
<1> QED
  BY <1>1, <1>2, EditorsHold, PTL DEF MemosSpec, TextKept, E!TextKept, E!vars, editor
===================================================================================
