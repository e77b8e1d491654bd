-------------------------------- MODULE LiveMemos --------------------------------
(***************************************************************************)
(* The memos a page shows: the queries of web/src/hooks/useMemoQueries.ts  *)
(* with their optimistic updates, the changes that other clients make at   *)
(* the server, and the events that tell the page of them: the hub          *)
(* (server/router/api/v1/sse_hub.go), the stream (sse_handler.go) and      *)
(* web/src/hooks/useLiveMemoRefresh.ts.                                    *)
(*                                                                         *)
(* A memo is the number of its last change, 0 if it is not there.          *)
(***************************************************************************)
EXTENDS Integers, FiniteSets, Sequences

CONSTANTS
    Top,        \* memos that are no comments
    Parent,     \* the memo of each comment
    Buffer,     \* events the hub keeps for a client
    Ops,        \* what the user can have under way at once
    MaxValue,   \* bound: changes
    MaxFaults   \* bound: failures, lost connections and returns to the page

Comments == DOMAIN Parent
Memos == Top \cup Comments
Values == 0..MaxValue

ASSUME LiveMemosAssumption ==
    /\ Comments \cap Top = {} /\ \A k \in Comments : Parent[k] \in Top
    /\ Buffer \in Nat \ {0} /\ MaxValue \in Nat \ {0} /\ MaxFaults \in Nat

VARIABLES
    server,   \* the memos at the server, the comments that have their relation,
              \* and what has been deleted
    shown,    \* the queries the page uses
    last,     \* the last change tried
    made,     \* the changes the server has made
    stream,   \* the connection of the page and the events on their way
    cache,    \* the queries of the page
    op,       \* what the user has under way
    lost,     \* queries that an event or a refetch has not reached
    late,     \* queries given an answer that was no longer true
    faults

vars == <<server, shown, last, made, stream, cache, op, lost, late, faults>>

-------------------------------------------------------------------------------
(* memoKeys, userKeys.stats *)
List == <<"list">>
Stats == <<"stats">>
Detail(m) == <<"detail", m>>
CommentsOf(p) == <<"comments", p>>
Queries == {List, Stats} \cup {Detail(m) : m \in Memos} \cup {CommentsOf(p) : p \in Top}

(* The queries of the home page and of the page of a memo. *)
Views == {{List, Stats}} \cup {{Detail(p), CommentsOf(p)} : p \in Top}

(* What the server answers.  A comment is one by its relation.             *)
Truth(q) ==
    LET Shows(m) ==
            CASE q = List           -> m \notin server.related
              [] q = Stats          -> TRUE
              [] q[1] = "detail"    -> m = q[2]
              [] q[1] = "comments"  -> m \in server.related /\ Parent[m] = q[2]
    IN  [m \in Memos |-> IF Shows(m) THEN server.value[m] ELSE 0]

Nothing == [m \in Memos |-> 0]
NoQuery == [has |-> FALSE, data |-> Nothing, stale |-> FALSE, fetch |-> "none", read |-> Nothing]

(* Mutant: a fetch under way is enough. *)
RefetchedLazily(c, Q) ==
    [q \in Queries |->
        IF q \in Q \cap shown /\ c[q].fetch = "none"
        THEN [c[q] EXCEPT !.stale = TRUE, !.fetch = "sent", !.read = Nothing]
        ELSE IF q \in Q THEN [c[q] EXCEPT !.stale = TRUE]
        ELSE c[q]]

(* invalidateQueries: a query in use is fetched again, from the start.      *)
Refetched(c, Q) ==
    [q \in Queries |->
        IF q \in Q \cap shown THEN [c[q] EXCEPT !.stale = TRUE, !.fetch = "sent", !.read = Nothing]
        ELSE IF q \in Q THEN [c[q] EXCEPT !.stale = TRUE]
        ELSE c[q]]

(* removeQueries *)
Removed(c, Q) == [q \in Queries |-> IF q \in Q THEN NoQuery ELSE c[q]]

(* setQueryData; a fetch under way goes on.                                 *)
Given(c, q, data) == [c EXCEPT ![q].has = TRUE, ![q].data = data, ![q].stale = FALSE]

(* What an answer does to the queries known to be behind.                   *)
LateWith(q, data) == IF data = Truth(q) THEN late \ {q} ELSE late \cup {q}
LostWith(q, data) == IF data = Truth(q) /\ cache[q].fetch = "none" THEN lost \ {q} ELSE lost

-------------------------------------------------------------------------------
(* Mutant: a deleted memo stays in the lists. *)
AffectedKeeping(e) ==
    CASE e.type = "created" -> {List, Stats}
      [] e.type = "updated" -> {Detail(e.name), List}
      [] e.type = "deleted" -> {Stats}
      [] e.type = "comment" -> {CommentsOf(e.name), Detail(e.name)}

(* handleSSEEvent: the queries an event has fetched again.  The events of   *)
(* reactions do what "updated" does.                                       *)
Affected(e) ==
    CASE e.type = "created" -> {List, Stats}
      [] e.type = "updated" -> {Detail(e.name), List}
      [] e.type = "deleted" -> {List, Stats}
      [] e.type = "comment" -> {CommentsOf(e.name), Detail(e.name)}

Handle(e) ==
    LET removed == IF e.type = "deleted" THEN {Detail(e.name)} ELSE {} IN
    /\ cache' = Removed(Refetched(cache, Affected(e)), removed)
    /\ lost' = lost \ (Affected(e) \cup removed)
    /\ late' = late \ (Affected(e) \cup removed)

(* SSEHub.Broadcast: an event is dropped when the buffer is full.           *)
Broadcast(e) ==
    IF stream.subscribed /\ Len(stream.events) < Buffer
    THEN stream' = [stream EXCEPT !.events = Append(@, e)] /\ UNCHANGED lost
    ELSE /\ lost' = lost \cup Affected(e)
                         \cup (IF e.type = "deleted" THEN {Detail(e.name)} ELSE {})
         /\ UNCHANGED stream

Event(type, m) == [type |-> type, name |-> m]

Init ==
    /\ server = [value |-> [m \in Memos |-> IF m \in Top THEN 1 ELSE 0], related |-> {}, gone |-> {}]
    /\ shown \in Views
    /\ last = 1 /\ made = {1}
    /\ stream = [state |-> "down", subscribed |-> FALSE, events |-> <<>>]
    /\ cache = [q \in Queries |-> NoQuery]
    /\ op = [o \in Ops |-> [step |-> "none"]]
    /\ lost = {} /\ late = {} /\ faults = 0

Fault == faults < MaxFaults /\ faults' = faults + 1
Change == last < MaxValue /\ last' = last + 1

-------------------------------------------------------------------------------
(* Other clients.  A comment is a memo first and gets its relation after    *)
(* the event of its creation (CreateMemoComment).                          *)
Create(m) ==
    /\ server.value[m] = 0 /\ m \notin server.gone
    /\ (m \in Comments => server.value[Parent[m]] # 0)
    /\ Change
    /\ made' = made \cup {last + 1}
    /\ server' = [server EXCEPT !.value[m] = last + 1]
    /\ Broadcast(Event("created", m))
    /\ UNCHANGED <<shown, cache, op, late, faults>>

Relate(k) ==
    /\ server.value[k] # 0 /\ k \notin server.related
    /\ server' = [server EXCEPT !.related = @ \cup {k}]
    /\ Broadcast(Event("comment", Parent[k]))
    /\ UNCHANGED <<shown, last, made, cache, op, late, faults>>

Update(m) ==
    /\ server.value[m] # 0 /\ Change
    /\ made' = made \cup {last + 1}
    /\ server' = [server EXCEPT !.value[m] = last + 1]
    /\ Broadcast(Event("updated", m))
    /\ UNCHANGED <<shown, cache, op, late, faults>>

(* DeleteMemo takes the comments with it, without events of their own.      *)
Without(m) ==
    LET gone == {m} \cup {k \in server.related : Parent[k] = m} IN
    [value |-> [x \in Memos |-> IF x \in gone THEN 0 ELSE server.value[x]],
     related |-> server.related \ gone,
     gone |-> server.gone \cup gone]

Delete(m) ==
    /\ server.value[m] # 0 /\ (m \in Comments => m \in server.related)
    /\ server' = Without(m)
    /\ Broadcast(Event("deleted", m))
    /\ UNCHANGED <<shown, last, made, cache, op, late, faults>>

-------------------------------------------------------------------------------
(* connect: the client is content with the headers, which the handler       *)
(* sends before it subscribes.                                             *)
Connect ==
    /\ stream.state = "down"
    /\ stream' = [stream EXCEPT !.state = "connected"]
    /\ UNCHANGED <<shown, server, last, made, cache, op, lost, late, faults>>

Subscribe ==
    /\ stream.state = "connected" /\ ~stream.subscribed
    /\ stream' = [stream EXCEPT !.subscribed = TRUE]
    /\ UNCHANGED <<shown, server, last, made, cache, op, lost, late, faults>>

(* The events on their way are gone; nothing is fetched on reconnection.    *)
Disconnect ==
    /\ stream.state = "connected" /\ Fault
    /\ stream' = [state |-> "down", subscribed |-> FALSE, events |-> <<>>]
    /\ lost' = lost \cup UNION {Affected(stream.events[i])
                                  \cup (IF stream.events[i].type = "deleted"
                                        THEN {Detail(stream.events[i].name)} ELSE {})
                                  : i \in DOMAIN stream.events}
    /\ UNCHANGED <<shown, server, last, made, cache, op, late>>

Deliver ==
    /\ stream.events # <<>>
    /\ stream' = [stream EXCEPT !.events = Tail(@)]
    /\ Handle(Head(stream.events))
    /\ UNCHANGED <<shown, server, last, made, op, faults>>

(* A query comes into use, its staleTime has passed, or the page has the    *)
(* focus again: what is not being fetched is fetched.                      *)
Look(q) ==
    /\ q \in shown /\ cache[q].fetch = "none"
    /\ \/ ~cache[q].has /\ UNCHANGED faults
       \/ cache[q].has /\ Fault
    /\ q[1] \in {"detail", "comments"} => server.value[q[2]] # 0
    /\ cache' = Refetched(cache, {q})
    /\ lost' = lost \ {q} /\ late' = late \ {q}
    /\ UNCHANGED <<shown, server, last, made, stream, op>>

Read(q) ==
    /\ cache[q].fetch = "sent"
    /\ cache' = [cache EXCEPT ![q].fetch = "read", ![q].read = Truth(q)]
    /\ UNCHANGED <<shown, server, last, made, stream, op, lost, late, faults>>

Arrive(q) ==
    /\ cache[q].fetch = "read"
    /\ cache' = [cache EXCEPT ![q] = [has |-> TRUE, data |-> @.read, stale |-> FALSE,
                                      fetch |-> "none", read |-> Nothing]]
    /\ late' = late \ {q}
    /\ UNCHANGED <<shown, server, last, made, stream, op, lost, faults>>

(* A fetch and its one retry fail: the old data stay.                       *)
FetchFails(q) ==
    /\ cache[q].fetch = "sent" /\ Fault
    /\ cache' = [cache EXCEPT ![q].fetch = "none"]
    /\ lost' = lost \cup {q}
    /\ UNCHANGED <<shown, server, last, made, stream, op, late>>

-------------------------------------------------------------------------------
(* The user acts on a memo the page shows. *)
Seen(m) == \E q \in Queries : cache[q].has /\ cache[q].data[m] # 0

(* useUpdateMemo.onMutate: a refetch of the memo is cancelled, the change   *)
(* is shown and what it replaces is remembered.                            *)
StartUpdate(o, m) ==
    LET q == Detail(m) IN
    /\ op[o].step = "none" /\ Seen(m) /\ Change
    /\ op' = [op EXCEPT ![o] = [step |-> "sent", kind |-> "update", memo |-> m, value |-> last + 1,
                                had |-> cache[q].has, prev |-> cache[q].data, tries |-> 0]]
    /\ cache' = [cache EXCEPT ![q].fetch = "none", ![q].read = Nothing,
                              ![q].data = IF cache[q].has THEN [@ EXCEPT ![m] = last + 1] ELSE @]
    /\ lost' = IF cache[q].fetch # "none" THEN lost \cup {q} ELSE lost
    /\ UNCHANGED <<shown, server, made, stream, late, faults>>

StartDelete(o, m) ==
    /\ op[o].step = "none" /\ Seen(m) /\ (m \in Comments => m \in server.related)
    /\ op' = [op EXCEPT ![o] = [step |-> "sent", kind |-> "delete", memo |-> m, tries |-> 0]]
    /\ UNCHANGED <<shown, server, last, made, stream, cache, lost, late, faults>>

(* handleReactionClick: the reaction is changed, then the memo is read.     *)
StartReaction(o, m) ==
    /\ op[o].step = "none" /\ Seen(m) /\ Change
    /\ op' = [op EXCEPT ![o] = [step |-> "sent", kind |-> "react", memo |-> m, value |-> last + 1, tries |-> 1]]
    /\ UNCHANGED <<shown, server, made, stream, cache, lost, late, faults>>

(* The server does it; a memo that is not there is an error.                *)
Served(o) ==
    LET m == op[o].memo IN
    /\ op[o].step = "sent"
    /\ \/ /\ server.value[m] # 0 /\ op[o].kind \in {"update", "react"}
          /\ server' = [server EXCEPT !.value[m] = op[o].value]
          /\ made' = made \cup {op[o].value}
          /\ op' = [op EXCEPT ![o].step = IF op[o].kind = "react" THEN "get" ELSE "done"]
          /\ Broadcast(Event("updated", m))
       \/ /\ server.value[m] # 0 /\ op[o].kind = "delete"
          /\ server' = Without(m) /\ UNCHANGED made
          /\ op' = [op EXCEPT ![o].step = "done"]
          /\ Broadcast(Event("deleted", m))
       \/ /\ server.value[m] = 0
          /\ op' = [op EXCEPT ![o].step = "failed"]
          /\ UNCHANGED <<server, made, stream, lost>>
    /\ UNCHANGED <<shown, last, cache, late, faults>>

(* getMemo, of a reaction. *)
ServedGet(o) ==
    LET m == op[o].memo IN
    /\ op[o].step = "get"
    /\ op' = [op EXCEPT ![o].step = IF server.value[m] = 0 THEN "failed" ELSE "done",
                        ![o].value = server.value[m]]
    /\ UNCHANGED <<shown, server, last, made, stream, cache, lost, late, faults>>

(* The request or its answer is lost. *)
Fails(o) ==
    /\ op[o].step \in {"sent", "get", "done"} /\ Fault
    /\ op' = [op EXCEPT ![o].step = "failed"]
    /\ UNCHANGED <<shown, server, last, made, stream, cache, lost, late>>

(* Every mutation is tried once more. *)
Retry(o) ==
    /\ op[o].step = "failed" /\ op[o].tries = 0
    /\ op' = [op EXCEPT ![o].step = "sent", ![o].tries = 1]
    /\ UNCHANGED <<shown, server, last, made, stream, cache, lost, late, faults>>

Answered(m, v) == [Nothing EXCEPT ![m] = v]
ParentQuery(m) == IF m \in server.related THEN {CommentsOf(Parent[m])} ELSE {}

(* onSuccess: the answer becomes the data, whatever came in between.        *)
Succeeds(o) ==
    LET m == op[o].memo
        kind == op[o].kind
        answer == Answered(m, op[o].value)
        again == CASE kind = "update" -> {List, Stats}
                   [] kind = "react"  -> {List} \cup ParentQuery(m)
                   [] kind = "delete" -> {List, Stats}
                                         \cup (IF m \in Comments THEN {CommentsOf(Parent[m])} ELSE {})
    IN
    /\ op[o].step = "done"
    /\ op' = [op EXCEPT ![o] = [step |-> "none"]]
    /\ IF kind = "delete"
       THEN /\ cache' = Removed(Refetched(cache, again), {Detail(m)})
            /\ lost' = lost \ (again \cup {Detail(m)})
            /\ late' = late \ (again \cup {Detail(m)})
       ELSE /\ cache' = Given(Refetched(cache, again), Detail(m), answer)
            /\ lost' = LostWith(Detail(m), answer) \ again
            /\ late' = LateWith(Detail(m), answer) \ again
    /\ UNCHANGED <<shown, server, last, made, stream, faults>>

(* Mutant: nothing is rolled back. *)
GivesUpKeeping(o) ==
    /\ op[o].step = "failed" /\ op[o].tries = 1
    /\ op' = [op EXCEPT ![o] = [step |-> "none"]]
    /\ UNCHANGED <<shown, server, last, made, stream, cache, lost, late, faults>>

(* onError: the memo is what it was before the change.                      *)
GivesUp(o) ==
    LET m == op[o].memo
        q == Detail(m)
        back == op[o].kind = "update" /\ op[o].had IN
    /\ op[o].step = "failed" /\ op[o].tries = 1
    /\ op' = [op EXCEPT ![o] = [step |-> "none"]]
    /\ cache' = IF back THEN Given(cache, q, op[o].prev) ELSE cache
    /\ late' = IF back THEN LateWith(q, op[o].prev) ELSE late
    /\ lost' = IF back THEN LostWith(q, op[o].prev) ELSE lost
    /\ UNCHANGED <<shown, server, last, made, stream, faults>>

-------------------------------------------------------------------------------
Others == \E m \in Memos : Create(m) \/ Update(m) \/ Delete(m) \/ (m \in Comments /\ Relate(m))

Stream == Connect \/ Subscribe \/ Disconnect \/ Deliver

Fetching == \E q \in Queries : Look(q) \/ Read(q) \/ Arrive(q) \/ FetchFails(q)

Starts(o) == \E m \in Memos : StartUpdate(o, m) \/ StartDelete(o, m) \/ StartReaction(o, m)

Settles(o) == Served(o) \/ ServedGet(o) \/ Retry(o) \/ Succeeds(o) \/ GivesUp(o)

Next == Others \/ Stream \/ Fetching \/ \E o \in Ops : Starts(o) \/ Settles(o) \/ Fails(o)

Spec == Init /\ [][Next]_vars

-------------------------------------------------------------------------------
TypeOK ==
    /\ server \in [value : [Memos -> Values], related : SUBSET Comments, gone : SUBSET Memos]
    /\ shown \in Views
    /\ last \in Values /\ made \subseteq Values
    /\ stream \in [state : {"down", "connected"}, subscribed : BOOLEAN,
                   events : Seq([type : {"created", "updated", "deleted", "comment"}, name : Memos])]
    /\ Len(stream.events) <= Buffer
    /\ \A q \in Queries :
          /\ cache[q] \in [has : BOOLEAN, data : [Memos -> Values], stale : BOOLEAN,
                           fetch : {"none", "sent", "read"}, read : [Memos -> Values]]
          /\ cache[q].fetch # "read" => cache[q].read = Nothing
    /\ DOMAIN op = Ops
    /\ lost \subseteq Queries /\ late \subseteq Queries /\ faults \in Nat

(* Nothing the page could still learn of is on its way.                     *)
AtRest(q) ==
    /\ q \in shown /\ cache[q].has /\ cache[q].fetch = "none"
    /\ stream.events = <<>>
    /\ \A o \in Ops : op[o].step = "none"

(* The lists of a page at rest show every memo as it is at the server, and  *)
(* the statistics count those that are there, unless an event or a fetch   *)
(* was lost (useLiveMemoRefresh.ts:50-56).                                 *)
ListsFresh ==
    /\ AtRest(List) /\ List \notin lost =>
          \A m \in Top : cache[List].data[m] = Truth(List)[m]
    /\ AtRest(Stats) /\ Stats \notin lost =>
          \A m \in Top : cache[Stats].data[m] # 0 <=> server.value[m] # 0

(* So does the page of a memo, unless it was given an answer that another   *)
(* change had overtaken; and while the memo is there, all its comments are  *)
(* shown.                                                                  *)
DetailsFresh ==
    \A m \in Top :
        /\ AtRest(Detail(m)) /\ Detail(m) \notin lost \cup late =>
              cache[Detail(m)].data = Truth(Detail(m))
        /\ AtRest(CommentsOf(m)) /\ CommentsOf(m) \notin lost /\ server.value[m] # 0 =>
              \A k \in Comments : Truth(CommentsOf(m))[k] # 0 => cache[CommentsOf(m)].data[k] # 0

(* Once a change has been given up the page does not show it unless the     *)
(* server has made it (useMemoQueries.ts:118-124).                         *)
NoPhantoms ==
    \A m \in Memos :
        (\A o \in Ops : op[o].step = "none") => cache[Detail(m)].data[m] \in made \cup {0}

-------------------------------------------------------------------------------
(* Stronger statements, which the code does not keep.                       *)

(* No answer makes the page older than an event has made it.                *)
DetailsFreshAlways ==
    \A m \in Top : AtRest(Detail(m)) /\ Detail(m) \notin lost =>
        cache[Detail(m)].data = Truth(Detail(m))

(* The lists show no comments. *)
NoCommentsInLists ==
    AtRest(List) /\ List \notin lost =>
        \A k \in server.related : cache[List].data[k] = 0

(* The comments are shown as they are. *)
CommentsFresh ==
    \A p \in Top : AtRest(CommentsOf(p)) /\ CommentsOf(p) \notin lost =>
        cache[CommentsOf(p)].data = Truth(CommentsOf(p))
==================================================================================
