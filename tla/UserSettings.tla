------------------------------ MODULE UserSettings ------------------------------
(***************************************************************************)
(* The language, the theme and the default visibility of a user: applied   *)
(* to the page at once, sent to the server, which reads, changes and       *)
(* writes the whole setting, and fetched again after a success             *)
(* (web/src/components/Settings/PreferencesSection.tsx,                    *)
(* web/src/hooks/useUserQueries.ts, web/src/contexts/AuthContext.tsx,      *)
(* server/router/api/v1/user_service.go).                                  *)
(*                                                                         *)
(* A user is free to make a change while others are under way.  Of two     *)
(* writes that overlap the server may lose one, and of two fetches the     *)
(* older may be taken last: their fields count as doubtful then.           *)
(***************************************************************************)
EXTENDS Naturals

CONSTANTS
    Calls,       \* slots for changes under way
    MaxValue,    \* bound: values of a field
    MaxChanges, MaxFaults   \* bounds: changes, and failures or new pages

ASSUME UserSettingsAssumption ==
    MaxValue \in Nat \ {0} /\ MaxChanges \in Nat /\ MaxFaults \in Nat

VARIABLES
    server,    \* the general setting at the server
    known,     \* userGeneralSetting of the page, what its selects show
    applied,   \* the language and the theme of the page, and of localStorage
    call,      \* changes under way, each with the fetch that follows it
    chosen,    \* what the user chose last, or found on a new page
    doubtful,  \* fields whose last change, or the fetch after it, has failed,
               \* met with another, or been wiped by a change of another field
    changes, faults

vars == <<server, known, applied, call, chosen, doubtful, changes, faults>>

Fields == {"locale", "theme", "visibility"}
AppliedFields == {"locale", "theme"}

(* A value the program knows, or 0: an empty field. *)
Values == 0..MaxValue
Settings == [Fields -> Values]

(* No setting is stored as one whose fields are all empty: a change fills  *)
(* in the field it is about.                                               *)
NoSetting == [f \in Fields |-> 0]
Default == [f \in Fields |-> 1]

(* step    "sent" "read" "written"  updateUserSetting: on its way, the     *)
(*                 setting read, the changed one written                   *)
(*         "asked" "fetched"        listUserSettings: on its way, answered *)
(* whole   the setting read, or fetched                                    *)
(* orphan  the page does not wait for it any more                          *)
NoCall == [step |-> "none"]
Live == {"sent", "read", "written", "asked", "fetched"}
Call == [step : Live, field : Fields, value : Values, whole : Settings, orphan : BOOLEAN]

Open == {c \in Calls : call[c] # NoCall}

(* A new user, or one with a setting.                                      *)
Init ==
    /\ server \in {NoSetting, Default} /\ known = Default /\ chosen = Default
    /\ applied = [f \in AppliedFields |-> 1]
    /\ call = [c \in Calls |-> NoCall]
    /\ doubtful = {}
    /\ changes = 0 /\ faults = 0

Fault == faults < MaxFaults /\ faults' = faults + 1

(* ListUserSettings puts defaults in the place of a missing setting. *)
Listed(setting) == IF setting = NoSetting THEN Default ELSE setting

(* The fields of the calls under way are doubtful, if there are any.       *)
Crossed == {call[c].field : c \in Open}

-------------------------------------------------------------------------------
(* handleLocaleSelectChange, handleThemeChange, those of UserMenu, and     *)
(* handleDefaultMemoVisibilityChanged, of a select that tells of other     *)
(* values than the one it shows.                                           *)
Choose(c, f, v) ==
    /\ changes < MaxChanges /\ changes' = changes + 1
    /\ call[c] = NoCall
    /\ f = "visibility" => v # (IF known[f] = 0 THEN 1 ELSE known[f])
    /\ applied' = IF f \in AppliedFields THEN [applied EXCEPT ![f] = v] ELSE applied
    /\ call' = [call EXCEPT ![c] =
                   [step |-> "sent", field |-> f, value |-> v, whole |-> NoSetting, orphan |-> FALSE]]
    /\ chosen' = [chosen EXCEPT ![f] = v]
    /\ doubtful' = IF Open = {} THEN doubtful \ {f} ELSE doubtful \cup {f} \cup Crossed
    /\ UNCHANGED <<server, known, faults>>

(* UpdateUserSetting reads the setting, ...                                *)
Read(c) ==
    /\ call[c].step = "sent"
    /\ call' = [call EXCEPT ![c].step = "read", ![c].whole = server]
    /\ UNCHANGED <<server, known, applied, chosen, doubtful, changes, faults>>

(* ... or goes on without what it could not read, ...                      *)
ReadFails(c) ==
    /\ Fault
    /\ call[c].step = "sent"
    /\ call' = [call EXCEPT ![c].step = "read", ![c].whole = NoSetting]
    /\ UNCHANGED <<server, known, applied, chosen, doubtful, changes>>

(* Mutant: the fields outside of the mask are taken from the request. *)
MaskedAll(whole, f, v) == [g \in Fields |-> IF g = f THEN v ELSE 0]

(* ... changes the fields of the mask and writes all of it: with the other *)
(* fields empty, if it started from none.                                  *)
Masked(whole, f, v) == [whole EXCEPT ![f] = v]

Write(c) ==
    LET k == call[c] IN
    /\ k.step = "read"
    /\ server' = Masked(k.whole, k.field, k.value)
    /\ call' = [call EXCEPT ![c] = IF k.orphan THEN NoCall ELSE [k EXCEPT !.step = "written"]]
    /\ doubtful' = IF k.whole = NoSetting THEN doubtful \cup (Fields \ {k.field}) ELSE doubtful
    /\ UNCHANGED <<known, applied, chosen, changes, faults>>

(* onSuccess: refetchSettings.                                             *)
Refetch(c) ==
    /\ call[c].step = "written"
    /\ call' = [call EXCEPT ![c].step = "asked"]
    /\ UNCHANGED <<server, known, applied, chosen, doubtful, changes, faults>>

ListSettings(c) ==
    /\ call[c].step = "asked"
    /\ call' = [call EXCEPT ![c].step = "fetched", ![c].whole = Listed(server)]
    /\ UNCHANGED <<server, known, applied, chosen, doubtful, changes, faults>>

(* The page takes what was fetched, whenever it was asked for, and the     *)
(* effects of useUserLocale and useUserTheme apply a field that changes;   *)
(* for an empty one the page stays with that of localStorage.              *)
Take(c) ==
    LET fetched == call[c].whole IN
    /\ call[c].step = "fetched"
    /\ known' = fetched
    /\ applied' = [f \in AppliedFields |->
                     IF fetched[f] \notin {0, known[f]} THEN fetched[f] ELSE applied[f]]
    /\ call' = [call EXCEPT ![c] = NoCall]
    /\ UNCHANGED <<server, chosen, doubtful, changes, faults>>

(* A request or its answer is lost, or a write fails: nothing is undone,   *)
(* and the server may still go on.                                         *)
Fails(c) ==
    LET k == call[c] IN
    /\ Fault
    /\ k.step \in Live
    /\ doubtful' = doubtful \cup {k.field}
    /\ \/ call' = [call EXCEPT ![c] = NoCall]
       \/ k.step \in {"sent", "read"} /\ call' = [call EXCEPT ![c].orphan = TRUE]
    /\ UNCHANGED <<server, known, applied, chosen, changes>>

(* A new page: what localStorage has first, then the setting is loaded and *)
(* the effects apply it.  A write on its way may still change it.          *)
Reload ==
    LET writes == {c \in Calls : call[c].step \in {"sent", "read"}}
        loaded == Listed(server) IN
    /\ Fault
    /\ known' = loaded /\ chosen' = loaded
    /\ applied' = [f \in AppliedFields |-> IF loaded[f] # 0 THEN loaded[f] ELSE applied[f]]
    /\ call' = [c \in Calls |-> IF c \in writes THEN [call[c] EXCEPT !.orphan = TRUE] ELSE NoCall]
    /\ doubtful' = IF writes = {} THEN {} ELSE doubtful \cup {call[c].field : c \in writes}
    /\ UNCHANGED <<server, changes>>

Next ==
    \/ \E c \in Calls :
        \/ \E f \in Fields, v \in 1..MaxValue : Choose(c, f, v)
        \/ Read(c) \/ ReadFails(c) \/ Write(c)
        \/ Refetch(c) \/ ListSettings(c) \/ Take(c) \/ Fails(c)
    \/ Reload

Spec == Init /\ [][Next]_vars

-------------------------------------------------------------------------------
TypeOK ==
    /\ server \in Settings /\ known \in Settings /\ chosen \in Settings
    /\ applied \in [AppliedFields -> Values]
    /\ call \in [Calls -> Call \cup {NoCall}]
    /\ doubtful \subseteq Fields
    /\ changes \in 0..MaxChanges /\ faults \in 0..MaxFaults

(* When no change is under way, a field is as the user chose it last, or   *)
(* found it on a new page: at the server, in the selects and in the page,  *)
(* whatever has become of the other fields.  What may go wrong stays with  *)
(* the fields it befalls (doubtful): those whose own change has failed or  *)
(* met with another, and those a change wiped that could not read them, or *)
(* found none stored, though the page showed defaults (user_service.go:408, *)
(* 413).                                                                   *)
SettingsSettle ==
    Open = {} =>
        \A f \in Fields \ doubtful :
            /\ Listed(server)[f] = chosen[f] /\ known[f] = chosen[f]
            /\ f \in AppliedFields /\ chosen[f] # 0 => applied[f] = chosen[f]
================================================================================
