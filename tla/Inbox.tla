--------------------------------- MODULE Inbox ---------------------------------
(***************************************************************************)
(* The inbox (web/src/pages/Inboxes.tsx, components/Inbox/                 *)
(* MemoCommentMessage.tsx, useNotifications of hooks/useUserQueries.ts,    *)
(* the notifications of server/router/api/v1/user_service.go): the page    *)
(* shows the notifications it has listed, each loading the memo and the    *)
(* comment it is about, while comments are written, memos deleted and      *)
(* notifications handled on another device.                                *)
(***************************************************************************)
EXTENDS Naturals

CONSTANTS
    Notes,              \* notifications there can be
    MaxChanges, MaxFaults   \* bounds: what users do; requests that fail

VARIABLES
    server,     \* their status
    gone,       \* those whose memo or comment is deleted
    open,       \* the page is shown
    filter,     \* of the page
    list,       \* the status as last listed
    listing,    \* listUserNotifications is under way
    stage,      \* what a message on the page shows
    requests,   \* to archive or delete, under way
    failed,     \* notifications a page could not load
    unread,     \* notifications this page has deleted unread
    changes, faults

vars == <<server, gone, open, filter, list, listing, stage, requests, failed, unread, changes, faults>>

(* "none" is not there yet; ids are not used again (AUTOINCREMENT).        *)
Present == {"unread", "archived"}
Statuses == Present \cup {"none", "deleted"}
Filters == {"all", "unread", "archived"}
Stages == {"absent", "loading", "shown", "error"}

Init ==
    /\ server \in [Notes -> {"none", "unread"}] /\ gone = {}
    /\ open = FALSE /\ filter = "all"
    /\ list = [n \in Notes |-> "none"] /\ listing = TRUE
    /\ stage = [n \in Notes |-> "absent"]
    /\ requests = {} /\ failed = {} /\ unread = {}
    /\ changes = 0 /\ faults = 0

Change == changes < MaxChanges /\ changes' = changes + 1
Fails == faults < MaxFaults /\ faults' = faults + 1

-------------------------------------------------------------------------------
(* Messages are there for the notifications the filter lets through; one   *)
(* that appears starts to load, one that stays keeps what it shows.        *)
Messages(o, f, l) ==
    stage' = [n \in Notes |->
        IF ~o \/ l[n] \notin Present \/ f \notin {"all", l[n]} THEN "absent"
        ELSE IF stage[n] = "absent" THEN "loading" ELSE stage[n]]

(* Elsewhere: a comment, a memo deleted, a notification handled.           *)
Comment(n) ==
    /\ Change /\ server[n] = "none" /\ n \notin gone
    /\ server' = [server EXCEPT ![n] = "unread"]
    /\ UNCHANGED <<gone, open, filter, list, listing, stage, requests, failed, unread, faults>>
DeleteMemo(n) ==
    /\ Change /\ gone' = gone \cup {n}
    /\ UNCHANGED <<server, open, filter, list, listing, stage, requests, failed, unread, faults>>
Elsewhere(n) ==
    /\ Change /\ server[n] \in Present
    /\ \/ server' = [server EXCEPT ![n] = "archived"]
       \/ server[n] = "archived" /\ server' = [server EXCEPT ![n] = "deleted"]
    /\ UNCHANGED <<gone, open, filter, list, listing, stage, requests, failed, unread, faults>>

(* The query: when the page or the navigation is shown or gets the focus   *)
(* after half a minute. Nothing here has it fetched again.                 *)
Ask ==
    /\ Change /\ ~listing /\ listing' = TRUE
    /\ UNCHANGED <<server, gone, open, filter, list, stage, requests, failed, unread, faults>>
Listed ==
    /\ listing /\ listing' = FALSE
    /\ list' = server /\ Messages(open, filter, server)
    /\ UNCHANGED <<server, gone, open, filter, requests, failed, unread, changes, faults>>
ListFails ==
    /\ Fails /\ listing /\ listing' = FALSE
    /\ UNCHANGED <<server, gone, open, filter, list, stage, requests, failed, unread, changes>>

OpenPage ==
    /\ Change /\ ~open /\ open' = TRUE /\ filter' = "all"
    /\ Messages(TRUE, "all", list)
    /\ UNCHANGED <<server, gone, list, listing, requests, failed, unread, faults>>
SetFilter(f) ==
    /\ Change /\ open /\ filter' = f
    /\ Messages(TRUE, f, list)
    /\ UNCHANGED <<server, gone, open, list, listing, requests, failed, unread, faults>>

-------------------------------------------------------------------------------
(* The effect of a message: activity, memo, comment, in turn; the first    *)
(* that fails ends it for as long as the message is there.                 *)
Loaded(n) ==
    /\ stage[n] = "loading" /\ n \notin gone
    /\ stage' = [stage EXCEPT ![n] = "shown"]
    /\ UNCHANGED <<server, gone, open, filter, list, listing, requests, failed, unread, changes, faults>>
NotLoaded(n) ==
    /\ stage[n] = "loading"
    /\ IF n \in gone THEN UNCHANGED faults ELSE Fails
    /\ stage' = [stage EXCEPT ![n] = "error"] /\ failed' = failed \cup {n}
    /\ UNCHANGED <<server, gone, open, filter, list, listing, requests, unread, changes>>

(* The buttons of a message go by the list, not by the server.             *)
Archivable(n) == stage[n] = "shown" /\ list[n] = "unread"

(* Mutant: the button that deletes is there before the message is. *)
DeletableEarly(n) == stage[n] = "loading" \/ (stage[n] = "shown" /\ list[n] # "unread")

Deletable(n) == stage[n] = "error" \/ (stage[n] = "shown" /\ list[n] # "unread")

Archive(n) ==
    /\ Change /\ Archivable(n)
    /\ requests' = requests \cup {<<"archive", n>>}
    /\ UNCHANGED <<server, gone, open, filter, list, listing, stage, failed, unread, faults>>
Delete(n) ==
    /\ Change /\ Deletable(n)
    /\ requests' = requests \cup {<<"delete", n>>}
    /\ UNCHANGED <<server, gone, open, filter, list, listing, stage, failed, unread, faults>>

(* handleNavigateToMemo leaves the page, and archives without a word.      *)
Navigate(n) ==
    /\ Change /\ stage[n] = "shown" /\ open' = FALSE
    /\ requests' = IF list[n] = "unread" THEN requests \cup {<<"archive", n>>} ELSE requests
    /\ Messages(FALSE, filter, list)
    /\ UNCHANGED <<server, gone, filter, list, listing, failed, unread, faults>>

(* UpdateUserNotification and DeleteUserNotification; one that is gone is  *)
(* an error, which the page does not show.                                 *)
Archived(n) ==
    /\ <<"archive", n>> \in requests /\ requests' = requests \ {<<"archive", n>>}
    /\ server' = [server EXCEPT ![n] = IF @ \in Present THEN "archived" ELSE @]
    /\ UNCHANGED <<gone, open, filter, list, listing, stage, failed, unread, changes, faults>>
Deleted(n) ==
    /\ <<"delete", n>> \in requests /\ requests' = requests \ {<<"delete", n>>}
    /\ server' = [server EXCEPT ![n] = "deleted"]
    /\ unread' = IF server[n] = "unread" THEN unread \cup {n} ELSE unread
    /\ UNCHANGED <<gone, open, filter, list, listing, stage, failed, changes, faults>>
RequestFails(r) ==
    /\ Fails /\ r \in requests /\ requests' = requests \ {r}
    /\ UNCHANGED <<server, gone, open, filter, list, listing, stage, failed, unread, changes>>

Next ==
    \/ \E n \in Notes :
         \/ Comment(n) \/ DeleteMemo(n) \/ Elsewhere(n)
         \/ Loaded(n) \/ NotLoaded(n)
         \/ Archive(n) \/ Delete(n) \/ Navigate(n) \/ Archived(n) \/ Deleted(n)
    \/ Ask \/ Listed \/ ListFails \/ OpenPage
    \/ \E f \in Filters : SetFilter(f)
    \/ \E r \in requests : RequestFails(r)

Spec == Init /\ [][Next]_vars

-------------------------------------------------------------------------------
TypeOK ==
    /\ server \in [Notes -> Statuses] /\ list \in [Notes -> Statuses]
    /\ {gone, failed, unread} \subseteq SUBSET Notes
    /\ {open, listing} \subseteq BOOLEAN /\ filter \in Filters
    /\ stage \in [Notes -> Stages]
    /\ requests \subseteq {"archive", "delete"} \X Notes
    /\ changes \in 0..MaxChanges /\ faults \in 0..MaxFaults

(* A notification the user has not read is deleted only if a page could    *)
(* not load it, however old the list is that the buttons go by.            *)
UnreadAreKept == unread \subseteq failed

(* Not so: a notification that is archived is not shown as unread. The     *)
(* list is not fetched again when the page has archived or deleted: the    *)
(* one is still counted and can be archived again, the other stays.        *)
ArchivedIsShown == \A n \in Notes : server[n] = "archived" /\ ~listing => list[n] # "unread"
================================================================================
