------------------------------- MODULE MemoTable -------------------------------
(***************************************************************************)
(* A memo server as its clients see it: the table behind CreateMemo,       *)
(* ListMemos, UpdateMemo and DeleteMemo of                                 *)
(* server/router/api/v1/memo_service.go.  The local backend of the app and *)
(* the remote instance it synchronises with both run this code.            *)
(*                                                                         *)
(* A table maps the ids to Fresh (not handed out yet), Gone (deleted; ids  *)
(* are never reused) or the memo.  Contents are model values, one of them  *)
(* the empty one (no text and no attachment); times are seconds, and 0     *)
(* stands for "not set".                                                   *)
(***************************************************************************)
EXTENDS Integers, FiniteSets, Functions

CONSTANTS
    MaxId,    \* the last database id a server can hand out
    Texts,    \* memo contents
    Blank,    \* the empty content, which Texts may have or not
    MaxTime,  \* the last second of a behaviour
    Fresh, Gone

ASSUME MemoTableAssumption ==
    /\ MaxId \in Nat /\ MaxTime \in Nat
    /\ Fresh # Gone

Ids == 1..MaxId
Fields == {"text", "vis", "pin", "st", "ct", "ut"}

Memo ==
    [text : Texts, vis : {"PRIVATE", "PUBLIC"}, pin : BOOLEAN,
     st : {"NORMAL", "ARCHIVED"}, ct : 0..MaxTime, ut : 0..MaxTime]

ASSUME FreshGoneAreNoMemos == Fresh \notin Memo /\ Gone \notin Memo

Table == [Ids -> Memo \cup {Fresh, Gone}]
EmptyTable == [i \in Ids |-> Fresh]

Live(T) == {i \in Ids : T[i] \notin {Fresh, Gone}}
Unused(T) == {i \in Ids : T[i] = Fresh}
NextId(T) == CHOOSE i \in Unused(T) : \A j \in Unused(T) : i <= j

(* CreateMemo takes the content, the visibility and the times it is given; *)
(* it does not look at pinned and state.                                   *)
CreateMemo(m) == [m EXCEPT !.pin = FALSE, !.st = "NORMAL"]

(* UpdateMemo applies the paths of the mask and, unless update_time is one *)
(* of them, sets updated_ts to the current second.                         *)
UpdateMemo(old, m, mask, now) ==
    LET new == [f \in Fields |-> IF f \in mask THEN m[f] ELSE old[f]]
    IN  IF "ut" \in mask THEN new ELSE [new EXCEPT !["ut"] = now]

DeleteMemo(T, i) == [T EXCEPT ![i] = Gone]

(* ListMemos, order_by "update_time desc": later first, then larger id.    *)
Before(T, i, j) == T[i].ut > T[j].ut \/ (T[i].ut = T[j].ut /\ i > j)
First(T) == CHOOSE i \in DOMAIN T : \A j \in DOMAIN T \ {i} : Before(T, i, j)

(* The page of `size` memos of S at an offset, and whether ListMemos       *)
(* returns a token for another one.                                        *)
Rank(T, S, i) == Cardinality({j \in S : Before(T, j, i)})
Page(T, S, offset, size) ==
    {i \in S : Rank(T, S, i) >= offset /\ Rank(T, S, i) < offset + size}
HasMore(S, offset, size) == Cardinality(S) > offset + size
================================================================================
