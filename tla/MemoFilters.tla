------------------------------ MODULE MemoFilters ------------------------------
(***************************************************************************)
(* The filters of the memo lists, kept in React state and in the address   *)
(* of the page at once (web/src/contexts/MemoFilterContext.tsx), with the  *)
(* ways to change either: tags, words, dates, chips, links, the back       *)
(* button. Two effects carry a change from one side to the other, each     *)
(* with what its render saw and two refs that say what was carried last.   *)
(*                                                                         *)
(* A filter is a record, and a query its text: the sequence of its         *)
(* filters, as written by stringifyFilters.                                *)
(***************************************************************************)
EXTENDS Naturals, Sequences

CONSTANTS
    Tags, Words, Dates,   \* values of filters
    Paths, DetailPaths,   \* pages with lists, and those of a memo
    Shortcuts,
    Hasty,                \* the user may navigate while an address is rendered
    MaxEvents             \* bound: things the user does

VARIABLES
    bar,        \* the address: path and query
    seen,       \* the address of the last render (searchParams, pathname)
    filters,    \* of the last render
    queued,     \* the filters with the updates since then
    lastUrl, lastStore,   \* lastSyncedUrlRef, lastSyncedStoreRef
    shortcut,   \* the shortcut selected
    shortcuts,  \* those of the user
    wanted,     \* the filters the user has asked for: a set of one, or of none if unclear
    events

vars == <<bar, seen, filters, queued, lastUrl, lastStore, shortcut, shortcuts, wanted, events>>

Filter == [factor : {"tagSearch"}, value : Tags] \cup [factor : {"contentSearch"}, value : Words]
             \cup [factor : {"displayTime"}, value : Dates]
Query == Seq(Filter)
None == "none"

Tag(t) == [factor |-> "tagSearch", value |-> t]
Has(q, f) == \E i \in DOMAIN q : q[i] = f
Add(q, f) == IF Has(q, f) THEN q ELSE Append(q, f)
Without(q, S) == SelectSeq(q, LAMBDA f : f \notin S)

(* The page is opened at an address: the effects of the first render find  *)
(* state and address equal.                                                *)
Init ==
    /\ \E p \in Paths, q \in {<<>>} \cup {<<f>> : f \in Filter} : bar = [path |-> p, query |-> q]
    /\ seen = bar /\ filters = bar.query /\ queued = filters
    /\ lastUrl = filters /\ lastStore = filters
    /\ shortcut = None /\ shortcuts = Shortcuts
    /\ wanted = {filters} /\ events = 0

Quiet == queued = filters /\ seen = bar

Event == events < MaxEvents /\ events' = events + 1
Wants(q) == wanted' = IF Quiet THEN {q} ELSE {}

-------------------------------------------------------------------------------
(* Updates of the state. A tag that is not the filter of the render takes  *)
(* the place of the other tags.                                            *)
Update(q) ==
    /\ Event
    /\ queued' = q /\ Wants(q)
    /\ UNCHANGED <<bar, seen, filters, lastUrl, lastStore, shortcut, shortcuts>>

ClickTag(t) ==
    /\ seen.path \in Paths
    /\ Update(IF Has(filters, Tag(t)) THEN Without(queued, {Tag(t)})
              ELSE Add(Without(queued, {Tag(u) : u \in Tags}), Tag(t)))

Search(w) == Update(Add(queued, [factor |-> "contentSearch", value |-> w]))

RemoveChip(f) == Has(filters, f) /\ Update(Without(queued, {f}))

(* Navigation: dates and the tags of a memo's own page name one filter;    *)
(* links and the back button lead anywhere.                                *)
GoTo(a, q) ==
    /\ Event /\ (Hasty \/ seen = bar)
    /\ bar' = a /\ Wants(q)
    /\ UNCHANGED <<seen, filters, queued, lastUrl, lastStore, shortcut, shortcuts>>

ClickDate(d) ==
    LET q == <<[factor |-> "displayTime", value |-> d]>> IN GoTo([path |-> seen.path, query |-> q], q)

ClickTagOfMemo(t, p) == seen.path \in DetailPaths /\ GoTo([path |-> p, query |-> <<Tag(t)>>], <<Tag(t)>>)

Go(p, q) == [path |-> p, query |-> q] # bar /\ GoTo([path |-> p, query |-> q], q)

ClickShortcut(s) ==
    /\ Event /\ s \in shortcuts /\ seen.path \in Paths
    /\ shortcut' = IF shortcut = s THEN None ELSE s
    /\ UNCHANGED <<bar, seen, filters, queued, lastUrl, lastStore, shortcuts, wanted>>

(* The list of shortcuts is fetched after one has been deleted.            *)
LoseShortcut(s) ==
    /\ s \in shortcuts /\ shortcuts' = shortcuts \ {s}
    /\ UNCHANGED <<bar, seen, filters, queued, lastUrl, lastStore, shortcut, wanted, events>>

-------------------------------------------------------------------------------
(* The three effects of a render, that of the layout first: what they read *)
(* and write is a record.                                                  *)
(* A new path without filters removes those of the old one.                *)
RouteEffect(r, path, params) ==
    IF path # seen.path /\ params = <<>> THEN [r EXCEPT !.queued = <<>>] ELSE r

(* Mutant: an address without filters changes nothing. *)
AddressEffectNonEmpty(r, params) ==
    IF params # r.url /\ params # <<>> THEN [r EXCEPT !.url = params, !.queued = params, !.store = params] ELSE r

(* The address has changed, not by the effect below: it sets the state.    *)
AddressEffect(r, params) ==
    IF params # r.url THEN [r EXCEPT !.url = params, !.queued = params, !.store = params] ELSE r

(* Mutant: lastSyncedUrlRef is not set by the effect that sets the address. *)
StoreEffectUnnoted(r, fs) ==
    IF fs # r.store /\ fs # r.url
    THEN [r EXCEPT !.store = fs, !.bar = [r.bar EXCEPT !.query = fs]] ELSE r

(* The state has changed, not by the effect above: it sets the address, of *)
(* whatever page there is by now.                                          *)
StoreEffect(r, fs) ==
    IF fs # r.store /\ fs # r.url
    THEN [r EXCEPT !.store = fs, !.bar = [r.bar EXCEPT !.query = fs], !.url = fs] ELSE r

Rendered(address) ==
    LET before == [queued |-> queued, url |-> lastUrl, store |-> lastStore, bar |-> bar]
        routed == RouteEffect(before, address.path, address.query)
        told   == IF address.query # seen.query THEN AddressEffect(routed, address.query) ELSE routed
        after  == StoreEffect(told, queued) IN
    /\ seen' = address /\ filters' = queued
    /\ queued' = after.queued /\ lastUrl' = after.url /\ lastStore' = after.store /\ bar' = after.bar
    /\ UNCHANGED <<shortcut, shortcuts, wanted, events>>

(* The router tells of the address by a transition, which React may put    *)
(* off while it renders the state.                                         *)
RenderFilters == queued # filters /\ Rendered(seen)
RenderAddress == seen # bar /\ Rendered(bar)

-------------------------------------------------------------------------------
Address == [path : Paths \cup DetailPaths, query : Query]

Next ==
    \/ \E t \in Tags : ClickTag(t) \/ \E p \in Paths : ClickTagOfMemo(t, p)
    \/ \E w \in Words : Search(w)
    \/ \E f \in Filter : RemoveChip(f)
    \/ \E d \in Dates : ClickDate(d)
    \/ \E p \in Paths \cup DetailPaths, q \in {<<>>} \cup {<<f>> : f \in Filter} : Go(p, q)
    \/ \E s \in Shortcuts : ClickShortcut(s) \/ LoseShortcut(s)
    \/ RenderFilters \/ RenderAddress

Spec == Init /\ [][Next]_vars
FairSpec == Spec /\ WF_vars(RenderFilters) /\ WF_vars(RenderAddress)

-------------------------------------------------------------------------------
(* What a list asks the server for (useMemoFilters): the filters, and on   *)
(* the home page the shortcut, if it is still there.                       *)
Conditions(q, home) ==
    {q[i] : i \in DOMAIN q} \cup
        IF home /\ shortcut \in shortcuts THEN {shortcut} ELSE {}

TypeOK ==
    /\ bar \in Address /\ seen \in Address
    /\ filters \in Query /\ queued \in Query /\ lastUrl \in Query /\ lastStore \in Query
    /\ shortcut \in Shortcuts \cup {None} /\ shortcuts \subseteq Shortcuts
    /\ (\A q \in wanted : q \in Query) /\ events \in 0..MaxEvents

(* When nothing is left to render, the list asks for what the address      *)
(* says, and for what the user has asked for, if they did so while nothing *)
(* was left to render: the two effects neither lose nor undo a change of   *)
(* either side, although both react to it, each with a render of its own.  *)
FiltersSettle ==
    Quiet =>
        /\ Conditions(filters, TRUE) = Conditions(bar.query, TRUE)
        /\ wanted \subseteq {filters}

(* The two sides do not go on answering each other: all is rendered again  *)
(* and again.                                                              *)
RendersEnd == []<>Quiet
================================================================================
