----------------------------- MODULE SettingLists -----------------------------
(***************************************************************************)
(* The lists of the settings, each with a dialog that creates or edits an  *)
(* item and one that asks before it deletes one: shortcuts                 *)
(* (ShortcutsSection.tsx, CreateShortcutDialog.tsx), webhooks              *)
(* (Settings/WebhookSection.tsx, CreateWebhookDialog.tsx), access tokens,  *)
(* members and identity providers (AccessTokenSection.tsx,                 *)
(* MemberSection.tsx and SSOSection.tsx of Settings, with their dialogs;   *)
(* no page shows these three). One list at a time, with its one page.      *)
(*                                                                         *)
(* Dialogs stay mounted, so that a form outlives the dialog it is shown    *)
(* in. What a form holds is known by the item it was typed for.            *)
(***************************************************************************)
EXTENDS Naturals

CONSTANTS
    Items, Existing,   \* names of items; those there at the start
    New,               \* the subject of a dialog that creates an item
    Ops,               \* slots for requests under way
    Patience,          \* users: TRUE waits for an answer before going on
    MaxTyped, MaxFaults   \* bounds: texts typed, requests that fail

VARIABLES
    kind, patient,   \* the list, and the user
    server, used,    \* items at the server; names given so far
    listed,          \* the items the page shows
    subject, open,   \* of the dialog
    form,            \* of the dialog, and of the one that only creates members
    confirm,         \* the item the user is asked about
    op,              \* requests under way
    doubtful,        \* an answer has been lost, and no list taken since
    typed, faults

vars == <<kind, patient, server, used, listed, subject, open, form, confirm, op, doubtful, typed, faults>>
user == <<kind, patient>>
dialog == <<subject, open, form>>

Kinds == {"shortcut", "webhook", "token", "member", "idp"}
Editable == {"shortcut", "member", "idp"}
InOneRow == {"shortcut", "webhook", "token"}   \* the list is one user setting
Text == [owner : Items \cup {New}, n : 0..MaxTyped]
Gone == [owner |-> New, n |-> 0]               \* no item; an empty form
Nothing == [i \in Items |-> Gone]
Idle == [step |-> "none"]
Op == [step : {"sent", "read", "written", "asked", "fetched"}, does : {"save", "delete"},
       item : Items \cup {New}, text : Text, whole : [Items -> Text], seen : [Items -> Text]]

Init ==
    /\ kind \in Kinds /\ patient \in Patience
    /\ server = [i \in Items |-> IF i \in Existing THEN [owner |-> i, n |-> 0] ELSE Gone]
    /\ used = Existing /\ listed = server
    /\ subject = New /\ open = FALSE
    /\ form = [d \in {"main", "create"} |-> Gone]
    /\ confirm = New
    /\ op = [o \in Ops |-> Idle] /\ doubtful = FALSE
    /\ typed = 0 /\ faults = 0

Free == patient => \A o \in Ops : op[o] = Idle
Form == IF kind = "member" /\ subject = New THEN "create" ELSE "main"

(* Mutant: the form is only filled when the dialog opens for the first time. *)
FormAfterOnce(s, o) ==
    IF kind \in Editable /\ s # New /\ form["main"] = Gone THEN listed[s] ELSE form["main"]

(* The effects that fill the form, when the subject becomes s and the      *)
(* dialog is open (o) or not.                                              *)
FormAfter(s, o) ==
    LET filled == IF s = New THEN Gone ELSE listed[s] IN
    CASE kind \in {"shortcut", "member"} -> IF s # subject THEN filled ELSE form["main"]
      [] kind = "token" -> IF o /\ ~open THEN Gone ELSE form["main"]
      [] kind = "idp"   -> IF ~o THEN Gone ELSE IF ~open \/ s # subject THEN filled ELSE form["main"]
      [] OTHER -> form["main"]

Show(s, o) ==
    /\ subject' = s /\ open' = o
    /\ form' = [form EXCEPT !["main"] = FormAfter(s, o)]

(* Which subject is left when the dialog closes.                           *)
Left == IF kind = "idp" THEN New ELSE subject

-------------------------------------------------------------------------------
(* The create button, and "edit" of an item (an object of its own for each *)
(* list taken: it is a new subject even if it has the same name, but that  *)
(* fills the form with the same item).                                     *)
OpenDialog(s) ==
    /\ ~open /\ confirm = New /\ Free
    /\ s # New => kind \in Editable /\ listed[s] # Gone
    /\ Show(s, TRUE)
    /\ UNCHANGED <<user, server, used, listed, confirm, op, doubtful, typed, faults>>

Type ==
    /\ open /\ typed < MaxTyped /\ typed' = typed + 1
    /\ form' = [form EXCEPT ![Form] = [owner |-> subject, n |-> typed + 1]]
    /\ UNCHANGED <<user, server, used, listed, subject, open, confirm, op, doubtful, faults>>

Close ==
    /\ open /\ Free
    /\ Show(Left, FALSE)
    /\ UNCHANGED <<user, server, used, listed, confirm, op, doubtful, typed, faults>>

Request(o, does, i, text) ==
    op' = [op EXCEPT ![o] = [step |-> "sent", does |-> does, item |-> i, text |-> text, whole |-> Nothing,
                             seen |-> IF kind = "webhook" THEN listed ELSE Nothing]]

(* The save buttons: all but that of the identity providers are disabled   *)
(* while the request of the dialog is under way.                           *)
Save(o) ==
    /\ open /\ Free /\ op[o] = Idle /\ form[Form] # Gone
    /\ kind = "idp" \/ \A p \in Ops : ~(op[p].step \in {"sent", "read", "written"} /\ op[p].does = "save")
    /\ Request(o, "save", subject, form[Form])
    /\ UNCHANGED <<user, server, used, listed, dialog, confirm, doubtful, typed, faults>>

AskDelete(i) ==
    /\ ~open /\ confirm = New /\ Free /\ listed[i] # Gone
    /\ confirm' = i
    /\ UNCHANGED <<user, server, used, listed, dialog, op, doubtful, typed, faults>>

Deleting == \E o \in Ops : op[o] # Idle /\ op[o].does = "delete" /\ op[o].item = confirm

Cancel ==
    /\ confirm # New /\ ~Deleting
    /\ confirm' = New
    /\ UNCHANGED <<user, server, used, listed, dialog, op, doubtful, typed, faults>>

(* confirmDeleteUser alone does not wait for the answer.                   *)
Confirm(o) ==
    /\ confirm # New /\ ~Deleting /\ Free /\ op[o] = Idle
    /\ Request(o, "delete", confirm, Gone)
    /\ confirm' = IF kind = "member" THEN New ELSE confirm
    /\ UNCHANGED <<user, server, used, listed, dialog, doubtful, typed, faults>>

-------------------------------------------------------------------------------
(* The server. A list in one row is read, changed and written back.        *)
Read(o) ==
    /\ op[o].step = "sent" /\ kind \in InOneRow
    /\ op' = [op EXCEPT ![o].step = "read", ![o].whole = server]
    /\ UNCHANGED <<user, server, used, listed, dialog, confirm, doubtful, typed, faults>>

Base(k) == IF kind \in InOneRow THEN k.whole ELSE server
Ready(k) == k.step = IF kind \in InOneRow THEN "read" ELSE "sent"

Write(o) ==
    LET k == op[o] IN
    /\ k # Idle /\ Ready(k)
    /\ \/ k.item = New /\ \E i \in Items \ used :
            server' = [Base(k) EXCEPT ![i] = k.text] /\ used' = used \cup {i}
       \/ k.item # New /\ Base(k)[k.item] # Gone
            /\ server' = [Base(k) EXCEPT ![k.item] = k.text] /\ UNCHANGED used
    /\ op' = [op EXCEPT ![o].step = "written", ![o].whole = Nothing]
    /\ UNCHANGED <<user, listed, dialog, confirm, doubtful, typed, faults>>

-------------------------------------------------------------------------------
(* Mutant: the list is not asked for. *)
AskNot(o) == op' = [op EXCEPT ![o] = Idle]

(* The page goes on to ask for the list; the list of members is a query,   *)
(* whose earlier fetch is cancelled.                                       *)
Ask(o) ==
    op' = [p \in Ops |->
        IF p = o THEN [op[o] EXCEPT !.step = "asked", !.seen = Nothing]
        ELSE IF kind = "member" /\ op[p].step \in {"asked", "fetched"} THEN Idle ELSE op[p]]

(* A save has been answered: the dialog closes, whatever it shows by now.  *)
Saved(o) ==
    /\ op[o].step = "written" /\ op[o].does = "save"
    /\ Show(IF kind = "shortcut" THEN New ELSE Left, FALSE)
    /\ Ask(o)
    /\ UNCHANGED <<user, server, used, listed, confirm, doubtful, typed, faults>>

(* A delete has been answered: shortcuts, members and identity providers   *)
(* are listed again, the last before the question goes away; webhooks are  *)
(* filtered out of the list there was when the user confirmed, tokens out  *)
(* of the one there is.                                                    *)
Deleted(o) ==
    LET k == op[o] IN
    /\ k.step = "written" /\ k.does = "delete"
    /\ IF kind \in {"webhook", "token"}
       THEN /\ listed' = [(IF kind = "webhook" THEN k.seen ELSE listed) EXCEPT ![k.item] = Gone]
            /\ op' = [op EXCEPT ![o] = Idle]
       ELSE Ask(o) /\ UNCHANGED listed
    /\ confirm' = IF kind \in {"idp", "member"} THEN confirm ELSE New
    /\ UNCHANGED <<user, server, used, dialog, doubtful, typed, faults>>

List(o) ==
    /\ op[o].step = "asked"
    /\ op' = [op EXCEPT ![o].step = "fetched", ![o].whole = server]
    /\ UNCHANGED <<user, server, used, listed, dialog, confirm, doubtful, typed, faults>>

(* The list is taken; those of webhooks and identity providers close the   *)
(* dialog once more.                                                       *)
Take(o) ==
    LET k == op[o] IN
    /\ k.step = "fetched"
    /\ listed' = k.whole /\ doubtful' = FALSE
    /\ op' = [op EXCEPT ![o] = Idle]
    /\ IF kind \in {"webhook", "idp"} /\ k.does = "save" THEN Show(Left, FALSE) ELSE UNCHANGED dialog
    /\ confirm' = IF kind = "idp" /\ k.does = "delete" THEN New ELSE confirm
    /\ UNCHANGED <<user, server, used, typed, faults>>

(* A request fails, at the server or on its way back. The dialog stays as  *)
(* it is, except that of the identity providers, which closes as after a   *)
(* success, and lists again; the question stays, for another try.          *)
Fails(o) ==
    LET k == op[o] IN
    /\ k # Idle /\ (Ready(k) \/ k.step \in {"written", "asked", "fetched"})
    /\ \/ faults < MaxFaults /\ faults' = faults + 1
       \/ Ready(k) /\ k.item # New /\ Base(k)[k.item] = Gone /\ UNCHANGED faults
    /\ doubtful' = (doubtful \/ k.step \in {"written", "asked", "fetched"})
    /\ IF kind = "idp" /\ k.step \in {"sent", "written"}
       THEN /\ Ask(o)
            /\ IF k.does = "save" THEN Show(Left, FALSE) ELSE UNCHANGED dialog
       ELSE op' = [op EXCEPT ![o] = Idle] /\ UNCHANGED dialog
    /\ UNCHANGED <<user, server, used, listed, confirm, typed>>

Next ==
    \/ \E s \in Items \cup {New} : OpenDialog(s)
    \/ \E i \in Items : AskDelete(i)
    \/ Type \/ Close \/ Cancel
    \/ \E o \in Ops :
        \/ Save(o) \/ Confirm(o) \/ Read(o) \/ Write(o) \/ Saved(o) \/ Deleted(o)
        \/ List(o) \/ Take(o) \/ Fails(o)

Spec == Init /\ [][Next]_vars

-------------------------------------------------------------------------------
TypeOK ==
    /\ kind \in Kinds /\ patient \in Patience
    /\ server \in [Items -> Text] /\ listed \in [Items -> Text] /\ used \subseteq Items
    /\ subject \in Items \cup {New} /\ open \in BOOLEAN
    /\ form \in [{"main", "create"} -> Text]
    /\ confirm \in Items \cup {New}
    /\ op \in [Ops -> Op \cup {Idle}] /\ doubtful \in BOOLEAN
    /\ typed \in 0..MaxTyped /\ faults \in 0..MaxFaults

(* What was typed, or loaded, for one item is never saved as another: an   *)
(* item has its own text, or the one it was created with. The dialogs      *)
(* serve one item after the other, may be closed while they save, and are  *)
(* closed by answers of earlier requests.                                  *)
ItemsKeepTheirOwn == \A i \in Items : server[i].owner \in {i, New}

(* When nothing is under way, the page of a user who waits for the answers *)
(* shows the items of the server, unless the last answer was lost. (It     *)
(* need not for one who does not wait.)                                    *)
ListSettles ==
    patient /\ ~doubtful /\ (\A o \in Ops : op[o] = Idle) => listed = server
================================================================================
