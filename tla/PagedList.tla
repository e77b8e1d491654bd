------------------------------- MODULE PagedList -------------------------------
(***************************************************************************)
(* A list of memos shown page by page, in one of two orders                *)
(* (web/src/components/PagedMemoList/PagedMemoList.tsx,                    *)
(* useInfiniteMemos of web/src/hooks/useMemoQueries.ts, useMemoSorting.ts, *)
(* ViewContext.tsx): pages are asked for as the user scrolls, all of them  *)
(* again after every change that is heard of, and either request cancels   *)
(* the other. A page is named by its offset in a list that changes.        *)
(*                                                                         *)
(* The cache is that of React Query, as these files use it.                *)
(***************************************************************************)
EXTENDS Naturals, Sequences, SequencesExt

CONSTANTS Memos, PageSize, MaxChanges, MaxSwitches   \* bounds: changes, switches of the order

VARIABLES
    server,   \* the memos, newest first
    unused,   \* names for new memos
    news,     \* the page has not heard of the last change yet
    order,    \* the order of the list, in localStorage too
    pages,    \* of each order, as in the cache
    stale,    \* invalidated
    fetch,    \* of each order, the fetch under way
    lost,     \* orders whose refetch has been cancelled, or has missed a change
    changes, switches

vars == <<server, unused, news, order, pages, stale, fetch, lost, changes, switches>>

Orders == {"desc", "asc"}
Memo == [name : Memos, edited : BOOLEAN]
PageOf == [memos : Seq(Memo), more : BOOLEAN]
NoFetch == [kind |-> "none", got |-> <<>>, left |-> 0]
First == [kind |-> "all", got |-> <<>>, left |-> 1]
Fresh(n) == [kind |-> "all", got |-> <<>>, left |-> n]
NextOne == [kind |-> "next", got |-> <<>>, left |-> 1]

Init ==
    /\ \E n \in 0..Cardinality(Memos) : LET s == SetToSeq(Memos) IN   \* names do not matter
        /\ server = [i \in 1..n |-> [name |-> s[i], edited |-> FALSE]]
        /\ unused = Memos \ {s[i] : i \in 1..n}
    /\ news = FALSE /\ order = "desc"
    /\ pages = [o \in Orders |-> <<>>]
    /\ stale = [o \in Orders |-> FALSE]
    /\ fetch = [o \in Orders |-> IF o = order THEN First ELSE NoFetch]
    /\ lost = {} /\ changes = 0 /\ switches = 0

-------------------------------------------------------------------------------
(* Changes, here or elsewhere.                                             *)
Change(s) ==
    /\ changes < MaxChanges /\ changes' = changes + 1
    /\ server' = s /\ news' = TRUE
    /\ UNCHANGED <<order, pages, stale, fetch, lost, switches>>

Create(m) == m \in unused /\ unused' = unused \ {m} /\ Change(<<[name |-> m, edited |-> FALSE]>> \o server)
Edit(i) == ~server[i].edited /\ Change([server EXCEPT ![i].edited = TRUE]) /\ UNCHANGED unused
Delete(i) == Change(RemoveAt(server, i)) /\ UNCHANGED unused

(* Mutant: only the order that is shown is invalidated. *)
InvalidatedShown(o) == o = order

Invalidated(o) == TRUE

(* invalidateQueries, after a change of one's own or an event: the list    *)
(* that is shown is fetched again, instead of what it was fetching.        *)
Hear ==
    /\ news /\ news' = FALSE
    /\ stale' = [o \in Orders |-> stale[o] \/ (Invalidated(o) /\ pages[o] # <<>>)]
    /\ fetch' = [fetch EXCEPT ![order] =
                    IF pages[order] = <<>> THEN First ELSE Fresh(Len(pages[order]))]
    /\ lost' = (lost \ {order}) \cup {o \in Orders \ {order} : fetch[o] # NoFetch}
    /\ UNCHANGED <<server, unused, order, pages, changes, switches>>

-------------------------------------------------------------------------------
Ordered(o) == IF o = "desc" THEN server ELSE Reverse(server)

(* ListMemos with the token of the page before.                            *)
ListPage(o, k) ==
    LET all == Ordered(o) IN
    [memos |-> SubSeq(all, k * PageSize + 1, Min({Len(all), k * PageSize + PageSize})),
      more |-> Len(all) > (k + 1) * PageSize]

Done(o, result) ==
    /\ pages' = [pages EXCEPT ![o] = result]
    /\ stale' = [stale EXCEPT ![o] = FALSE]
    /\ fetch' = [fetch EXCEPT ![o] = NoFetch]

(* A page is answered. Fetching all, the next is asked for until there are *)
(* as many as before, or no more.                                          *)
Answer(o) ==
    LET f == fetch[o]
        page == ListPage(o, IF f.kind = "next" THEN Len(pages[o]) ELSE Len(f.got))
        got == Append(f.got, page) IN
    /\ f # NoFetch
    /\ CASE f.kind = "next" -> Done(o, Append(pages[o], page))
         [] f.kind = "all" /\ (f.left = 1 \/ ~page.more) -> Done(o, got)
         [] OTHER -> /\ fetch' = [fetch EXCEPT ![o].got = got, ![o].left = @ - 1]
                     /\ UNCHANGED <<pages, stale>>
    /\ UNCHANGED <<server, unused, news, order, lost, changes, switches>>

(* fetchNextPage, near the end of the page or as long as it has no scroll  *)
(* bar: not while a next page is fetched, but instead of a refetch.        *)
NextPage ==
    LET shown == pages[order] IN
    /\ shown # <<>> /\ Last(shown).more /\ fetch[order].kind # "next"
    /\ fetch' = [fetch EXCEPT ![order] = NextOne]
    /\ lost' = IF fetch[order] = NoFetch THEN lost ELSE lost \cup {order}
    /\ UNCHANGED <<server, unused, news, order, pages, stale, changes, switches>>

(* toggleSortOrder: the list of the other order is the one in the cache,   *)
(* fetched if there is none or if it is stale. The fetch left behind goes  *)
(* on.                                                                     *)
Toggle ==
    LET o == CHOOSE p \in Orders : p # order IN
    /\ switches < MaxSwitches /\ switches' = switches + 1
    /\ order' = o
    /\ IF fetch[o] # NoFetch \/ (pages[o] # <<>> /\ ~stale[o]) THEN UNCHANGED <<fetch, lost>>
       ELSE /\ fetch' = [fetch EXCEPT ![o] = IF pages[o] = <<>> THEN First ELSE Fresh(Len(pages[o]))]
            /\ lost' = lost \ {o}
    /\ UNCHANGED <<server, unused, news, pages, stale, changes>>

Next ==
    \/ \E m \in Memos : Create(m)
    \/ \E i \in DOMAIN server : Edit(i) \/ Delete(i)
    \/ \E o \in Orders : Answer(o)
    \/ Hear \/ NextPage \/ Toggle

Spec == Init /\ [][Next]_vars

-------------------------------------------------------------------------------
TypeOK ==
    /\ server \in Seq(Memo) /\ unused \subseteq Memos
    /\ news \in BOOLEAN /\ order \in Orders
    /\ \A o \in Orders : pages[o] \in Seq(PageOf) /\ fetch[o].got \in Seq(PageOf)
    /\ stale \in [Orders -> BOOLEAN] /\ lost \subseteq Orders
    /\ changes \in 0..MaxChanges /\ switches \in 0..MaxSwitches

Shown == FlattenSeq([i \in DOMAIN pages[order] |-> pages[order][i].memos])
UpToDate == ~news /\ fetch[order] = NoFetch
Right == IsPrefix(Shown, Ordered(order)) /\ Last(pages[order]).more = (Len(Shown) < Len(server))

(* A list that has heard of all changes and fetches nothing shows, without *)
(* gaps or duplicates, the first memos of the server in its order, and     *)
(* knows whether there are more: although its pages are named by offsets,  *)
(* are fetched one by one while memos come and go, and the order that is   *)
(* not shown keeps its own. It is not so for one whose refetch the user    *)
(* has cancelled by scrolling, or that was left while it was fetching.     *)
PagesFresh == UpToDate /\ order \notin lost => Right

(* Without the exception it does not hold.                                 *)
PagesAlwaysFresh == UpToDate => Right
================================================================================
