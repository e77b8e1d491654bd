---------------------------- MODULE AttachmentsPage ----------------------------
(***************************************************************************)
(* The page of the user's attachments (web/src/pages/Attachments.tsx): a   *)
(* list that grows page by page, and the button that deletes every file no *)
(* memo uses, while files are uploaded and attached to memos elsewhere.    *)
(*                                                                         *)
(* A page is named by its offset in the server's list, the file attached   *)
(* last first. The page is alone with its state: nothing tells it of       *)
(* changes.                                                                *)
(***************************************************************************)
EXTENDS Naturals, SequencesExt

CONSTANTS
    Files, PageSize,
    MaxChanges, MaxFaults   \* bounds: uploads, attachments to memos and sweeps; requests that fail

VARIABLES
    server,     \* the attachments
    shown,      \* the list on the page
    token,      \* nextPageToken, 0 for none
    listing,    \* the list is fetched from its start; the page shows only that
    more,       \* the token of the page being loaded in addition
    sweep,      \* the dialog of the deletion: its handler is under way
    doomed,     \* files whose deletion is requested
    attached,   \* files attached while their deletion was requested
    deleted,    \* files the page has deleted
    behind,     \* what the page cannot know of has happened since it listed
    changes, faults

vars == <<server, shown, token, listing, more, sweep, doomed, attached, deleted, behind, changes, faults>>

File == [name : Files, used : BOOLEAN]
Named(f, s) == \E i \in DOMAIN s : s[i].name = f
Unused(s) == {s[i].name : i \in {j \in DOMAIN s : ~s[j].used}}
Without(f, s) == IF Named(f, s) THEN RemoveAt(s, CHOOSE i \in DOMAIN s : s[i].name = f) ELSE s

Init ==
    /\ \E n \in 0..Cardinality(Files) : LET s == SetToSeq(Files) IN
        \E used \in [1..n -> BOOLEAN] : server = [i \in 1..n |-> [name |-> s[i], used |-> used[i]]]
    /\ shown = <<>> /\ token = 0 /\ listing = TRUE /\ more = 0
    /\ sweep = "none" /\ doomed = {} /\ attached = {} /\ deleted = {}
    /\ behind = FALSE
    /\ changes = 0 /\ faults = 0

-------------------------------------------------------------------------------
(* Elsewhere: a file is uploaded, or attached to a memo.                   *)
Elsewhere ==
    /\ changes < MaxChanges /\ changes' = changes + 1
    /\ behind' = TRUE
    /\ UNCHANGED <<shown, token, listing, more, sweep, doomed, deleted, faults>>

Upload(f) ==
    /\ ~Named(f, server) /\ f \notin deleted /\ Elsewhere
    /\ server' = <<[name |-> f, used |-> FALSE]>> \o server
    /\ UNCHANGED attached

Attach(f) ==
    /\ f \in Unused(server) /\ Elsewhere
    /\ server' = <<[name |-> f, used |-> TRUE]>> \o Without(f, server)
    /\ attached' = attached \cup ({f} \cap doomed)

-------------------------------------------------------------------------------
(* ListAttachments from an offset; a full page has a token, whatever       *)
(* follows it.                                                             *)
PageFrom(k) == SubSeq(server, k + 1, IF k + PageSize < Len(server) THEN k + PageSize ELSE Len(server))
TokenFrom(k) == IF Len(PageFrom(k)) = PageSize THEN k + PageSize ELSE 0

(* The list is there, from its start. Nothing cancels a page that is being *)
(* loaded, or a deletion that is still requested.                          *)
Listed ==
    /\ listing /\ listing' = FALSE
    /\ shown' = PageFrom(0) /\ token' = TokenFrom(0)
    /\ behind' = (more # 0 \/ doomed # {})
    /\ sweep' = "none"
    /\ UNCHANGED <<server, more, doomed, attached, deleted, changes, faults>>

Fails == faults < MaxFaults /\ faults' = faults + 1

ListFails ==
    /\ Fails /\ listing /\ listing' = FALSE
    /\ behind' = TRUE /\ sweep' = "none"
    /\ UNCHANGED <<server, shown, token, more, doomed, attached, deleted, changes>>

LoadMore ==
    /\ token # 0 /\ more = 0 /\ ~listing /\ sweep = "none" /\ shown # <<>>
    /\ more' = token
    /\ UNCHANGED <<server, shown, token, listing, sweep, doomed, attached, deleted, behind, changes, faults>>

MoreListed ==
    /\ more # 0 /\ more' = 0
    /\ shown' = shown \o PageFrom(more) /\ token' = TokenFrom(more)
    /\ UNCHANGED <<server, listing, sweep, doomed, attached, deleted, behind, changes, faults>>

MoreFails ==
    /\ Fails /\ more # 0 /\ more' = 0
    /\ UNCHANGED <<server, shown, token, listing, sweep, doomed, attached, deleted, behind, changes>>

-------------------------------------------------------------------------------
(* handleDeleteUnusedAttachments: all unused files are listed, whatever    *)
(* the page shows, and deleted all at once; at the first failure the rest  *)
(* is not waited for. Either way the list is fetched again.                *)
Sweep ==
    /\ sweep = "none" /\ ~listing /\ Unused(shown) # {}
    /\ changes < MaxChanges /\ changes' = changes + 1
    /\ sweep' = "listing"
    /\ UNCHANGED <<server, shown, token, listing, more, doomed, attached, deleted, behind, faults>>

(* Mutant: the list is not fetched again. *)
SweptSilently == sweep' = "none" /\ UNCHANGED listing

Swept == sweep' = "swept" /\ listing' = TRUE

SweepListed ==
    /\ sweep = "listing"
    /\ doomed' = doomed \cup Unused(server)
    /\ IF Unused(server) = {} THEN Swept ELSE sweep' = "deleting" /\ UNCHANGED listing
    /\ UNCHANGED <<server, shown, token, more, attached, deleted, behind, changes, faults>>

SweepFails ==
    /\ Fails /\ sweep = "listing" /\ Swept
    /\ UNCHANGED <<server, shown, token, more, doomed, attached, deleted, behind, changes>>

(* The server deletes the file, used or not; a file that is gone is an     *)
(* error.                                                                  *)
Deleted(f) ==
    /\ f \in doomed /\ doomed' = doomed \ {f}
    /\ server' = Without(f, server)
    /\ deleted' = IF Named(f, server) THEN deleted \cup {f} ELSE deleted
    /\ IF sweep = "deleting" /\ (doomed' = {} \/ ~Named(f, server)) THEN Swept
       ELSE UNCHANGED <<sweep, listing>>
    /\ behind' = (behind \/ sweep # "deleting")
    /\ UNCHANGED <<shown, token, more, attached, changes, faults>>

DeleteFails(f) ==
    /\ Fails /\ f \in doomed /\ doomed' = doomed \ {f}
    /\ IF sweep = "deleting" THEN Swept ELSE UNCHANGED <<sweep, listing>>
    /\ UNCHANGED <<server, shown, token, more, attached, deleted, behind, changes>>

Next ==
    \/ Listed \/ ListFails \/ LoadMore \/ MoreListed \/ MoreFails
    \/ Sweep \/ SweepListed \/ SweepFails
    \/ \E f \in Files : Upload(f) \/ Attach(f) \/ Deleted(f) \/ DeleteFails(f)

Spec == Init /\ [][Next]_vars

-------------------------------------------------------------------------------
TypeOK ==
    /\ server \in Seq(File) /\ shown \in Seq(File)
    /\ {token, more} \subseteq Nat
    /\ listing \in BOOLEAN /\ behind \in BOOLEAN
    /\ sweep \in {"none", "listing", "deleting", "swept"}
    /\ {doomed, attached, deleted} \subseteq SUBSET Files
    /\ changes \in 0..MaxChanges /\ faults \in 0..MaxFaults

(* At rest, unless something has happened since that it is not told of,    *)
(* the page shows the first attachments of the server, without gaps or     *)
(* duplicates, and offers to load more if there are more: although files   *)
(* are deleted from under the offsets of its pages.                        *)
FilesFresh ==
    ~listing /\ more = 0 /\ sweep = "none" /\ ~behind =>
        IsPrefix(shown, server) /\ (Len(shown) < Len(server) => token # 0)

(* Not so: the page deletes no file of a memo. One that is attached        *)
(* between its listing and its deletion is deleted from the memo.          *)
OnlyUnusedDeleted == deleted \cap attached = {}
================================================================================
