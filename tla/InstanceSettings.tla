---------------------------- MODULE InstanceSettings ----------------------------
(***************************************************************************)
(* The settings of the instance as administrators change them: the copy    *)
(* every page has (web/src/contexts/InstanceContext.tsx), the form of the  *)
(* section that is open (web/src/components/Settings/InstanceSection.tsx,   *)
(* MemoRelatedSettings.tsx, StorageSection.tsx), the dialog of the custom  *)
(* profile (UpdateCustomizedProfileDialog.tsx), and the server, which      *)
(* replaces a whole setting (server/router/api/v1/instance_service.go).    *)
(*                                                                         *)
(* A setting has two fields: of "general" a is customProfile and b stands  *)
(* for the others. Every value typed is a new number, and is a valid one.  *)
(***************************************************************************)
EXTENDS Naturals

CONSTANTS
    Pages,     \* of administrators
    Overlap,   \* a user saves, or leaves the section, before the answer to a save
    MaxEdits, MaxFaults   \* bounds: values typed, requests and answers lost

VARIABLES
    server,    \* the settings at the server
    known,     \* those of a page
    section,   \* the section a page shows
    form,      \* its form
    typed,     \* the fields of the form typed and not saved
    profile,   \* the form of the dialog, next to that of "general"
    call,      \* requests under way: two saves, and the fetches of a new page
    styles,    \* style elements in the page (b of "general")
    meant,     \* ghost: what the server would have if saves changed what was typed
    doubtful,  \* settings an answer was lost of
    edits, faults

vars == <<server, known, section, form, typed, profile, call, styles, meant, doubtful, edits, faults>>

Keys == {"general", "memo", "storage"}
Fields == {"a", "b"}
Setting == [Fields -> 0..MaxEdits]
Untouched == [f \in Fields |-> 0]

(* step  "sent" "written"   updateInstanceSetting: on its way, done        *)
(*       "asked" "fetched"  getInstanceSetting: on its way, answered       *)
NoCall == [step |-> "none", key |-> "general", value |-> Untouched, fields |-> {}]
Slots == {"form", "profile", "memo", "storage"}
Fetching(k) == [NoCall EXCEPT !.step = "asked", !.key = k]

(* The page has the settings initialize has loaded, and pages/Setting.tsx  *)
(* fetches two of them again.                                              *)
Init ==
    /\ server = [k \in Keys |-> Untouched]
    /\ known = [p \in Pages |-> [k \in Keys |-> Untouched]]
    /\ section = [p \in Pages |-> "preference"]
    /\ form = [p \in Pages |-> Untouched]
    /\ typed = [p \in Pages |-> {}]
    /\ profile = [p \in Pages |-> 0]
    /\ call = [p \in Pages |-> [s \in Slots |->
                  IF s \in Keys THEN Fetching(s) ELSE NoCall]]
    /\ styles = [p \in Pages |-> {}]
    /\ meant = [k \in Keys |-> Untouched]
    /\ doubtful = {}
    /\ edits = 0 /\ faults = 0

Quiet(p) == \A s \in Slots : call[p][s] = NoCall
MaySave(p, s) == call[p][s] = NoCall /\ (Overlap \/ Quiet(p))

-------------------------------------------------------------------------------
(* Mutant: the form of "general" keeps the profile it has started with. *)
ShowsKeeping(p, k, value) ==
    /\ known' = [known EXCEPT ![p][k] = value]
    /\ form' = [form EXCEPT ![p] = IF section[p] = k /\ k = "storage" THEN value ELSE @]
    /\ typed' = [typed EXCEPT ![p] = IF section[p] = k /\ k = "storage" THEN {} ELSE @]
    /\ styles' = styles

(* The page gets a setting, and its effects run: the form of "general"     *)
(* takes its profile, that of "storage" all of it, that of "memo" nothing;  *)
(* the new style is added to the page (App.tsx).                           *)
Shows(p, k, value) ==
    /\ known' = [known EXCEPT ![p][k] = value]
    /\ form' = [form EXCEPT ![p] = IF section[p] # k THEN @
                                   ELSE CASE k = "general" -> [@ EXCEPT !.a = value.a]
                                          [] k = "storage" -> value
                                          [] k = "memo" -> @]
    /\ typed' = [typed EXCEPT ![p] = IF section[p] = k /\ k = "storage" THEN {} ELSE @]
    /\ styles' = [styles EXCEPT ![p] =
                     IF k = "general" /\ value.b \notin {0, known[p][k].b} THEN @ \cup {value.b} ELSE @]

(* A section is selected: its form starts with what the page has, and so   *)
(* does the dialog of "general".                                           *)
Select(p, k) ==
    /\ section[p] # k
    /\ Overlap \/ (call[p]["form"] = NoCall /\ call[p]["profile"] = NoCall)
    /\ section' = [section EXCEPT ![p] = k]
    /\ form' = [form EXCEPT ![p] = IF k = "preference" THEN Untouched ELSE known[p][k]]
    /\ profile' = [profile EXCEPT ![p] = IF k = "general" THEN known[p][k].a ELSE 0]
    /\ typed' = [typed EXCEPT ![p] = {}]
    /\ UNCHANGED <<server, known, call, styles, meant, doubtful, edits, faults>>

(* The profile is typed in the dialog only.                                *)
Type(p, f) ==
    /\ section[p] \in Keys /\ (section[p] = "general" => f = "b")
    /\ edits < MaxEdits /\ edits' = edits + 1
    /\ form' = [form EXCEPT ![p][f] = edits']
    /\ typed' = [typed EXCEPT ![p] = @ \cup {f}]
    /\ UNCHANGED <<server, known, section, profile, call, styles, meant, doubtful, faults>>

TypeProfile(p) ==
    /\ section[p] = "general" /\ call[p]["profile"] = NoCall
    /\ edits < MaxEdits /\ edits' = edits + 1
    /\ profile' = [profile EXCEPT ![p] = edits']
    /\ UNCHANGED <<server, known, section, form, typed, call, styles, meant, doubtful, faults>>

(* Save: the whole form, if it differs from what the page has.             *)
Save(p) ==
    /\ section[p] \in Keys /\ form[p] # known[p][section[p]] /\ MaySave(p, "form")
    /\ call' = [call EXCEPT ![p]["form"] =
                   [step |-> "sent", key |-> section[p], value |-> form[p], fields |-> typed[p]]]
    /\ UNCHANGED <<server, known, section, form, typed, profile, styles, meant, doubtful, edits, faults>>

(* The dialog saves the setting the page has with its own profile.         *)
SaveProfile(p) ==
    /\ section[p] = "general" /\ MaySave(p, "profile")
    /\ call' = [call EXCEPT ![p]["profile"] =
                   [step |-> "sent", key |-> "general", fields |-> {"a"},
                    value |-> [known[p]["general"] EXCEPT !.a = profile[p]]]]
    /\ UNCHANGED <<server, known, section, form, typed, profile, styles, meant, doubtful, edits, faults>>

(* UpdateInstanceSetting; the mask is not looked at.                       *)
Write(p, s) ==
    LET c == call[p][s] IN
    /\ c.step = "sent"
    /\ server' = [server EXCEPT ![c.key] = c.value]
    /\ meant' = [meant EXCEPT ![c.key] = [f \in Fields |-> IF f \in c.fields THEN c.value[f] ELSE @[f]]]
    /\ call' = [call EXCEPT ![p][s].step = "written"]
    /\ UNCHANGED <<known, section, form, typed, profile, styles, doubtful, edits, faults>>

(* The page takes what it has sent, and a form fetches it again.           *)
Saved(p, s) ==
    LET c == call[p][s] IN
    /\ c.step = "written"
    /\ Shows(p, c.key, c.value)
    /\ call' = [call EXCEPT ![p][s] = IF s = "form" THEN Fetching(c.key) ELSE NoCall]
    /\ UNCHANGED <<server, section, profile, meant, doubtful, edits, faults>>

GetSetting(p, s) ==
    LET c == call[p][s] IN
    /\ c.step = "asked"
    /\ call' = [call EXCEPT ![p][s] = [c EXCEPT !.step = "fetched", !.value = server[c.key]]]
    /\ UNCHANGED <<server, known, section, form, typed, profile, styles, meant, doubtful, edits, faults>>

Fetched(p, s) ==
    LET c == call[p][s] IN
    /\ c.step = "fetched"
    /\ Shows(p, c.key, c.value)
    /\ call' = [call EXCEPT ![p][s] = NoCall]
    /\ UNCHANGED <<server, section, profile, meant, doubtful, edits, faults>>

(* A request or an answer is lost: the form stays as it is.                *)
Fails(p, s) ==
    LET c == call[p][s] IN
    /\ c # NoCall
    /\ faults < MaxFaults /\ faults' = faults + 1
    /\ call' = [call EXCEPT ![p][s] = NoCall]
    /\ doubtful' = IF c.step = "written" THEN doubtful \cup {c.key} ELSE doubtful
    /\ UNCHANGED <<server, known, section, form, typed, profile, styles, meant, edits>>

Next ==
    \E p \in Pages :
        \/ \E k \in Keys \cup {"preference"} : Select(p, k)
        \/ \E f \in Fields : Type(p, f)
        \/ TypeProfile(p) \/ Save(p) \/ SaveProfile(p)
        \/ \E s \in Slots : Write(p, s) \/ Saved(p, s) \/ GetSetting(p, s) \/ Fetched(p, s) \/ Fails(p, s)

Spec == Init /\ [][Next]_vars

-------------------------------------------------------------------------------
TypeOK ==
    /\ server \in [Keys -> Setting] /\ meant \in [Keys -> Setting]
    /\ known \in [Pages -> [Keys -> Setting]]
    /\ section \in [Pages -> Keys \cup {"preference"}]
    /\ form \in [Pages -> Setting] /\ typed \in [Pages -> SUBSET Fields]
    /\ profile \in [Pages -> 0..MaxEdits]
    /\ call \in [Pages -> [Slots -> [step : {"none", "sent", "written", "asked", "fetched"},
                                     key : Keys, value : Setting, fields : SUBSET Fields]]]
    /\ styles \in [Pages -> SUBSET (1..MaxEdits)]
    /\ doubtful \subseteq Keys
    /\ edits \in 0..MaxEdits /\ faults \in 0..MaxFaults

(* A save changes the fields that were typed and no other, although the    *)
(* form and the dialog both send the whole setting; and when a page waits  *)
(* for nothing it has what the server has. It holds for one page whose     *)
(* user waits for the answer to a save, unless that answer was lost.       *)
SavesChangeWhatWasTyped ==
    \A k \in Keys \ doubtful :
        /\ server[k] = meant[k]
        /\ \A p \in Pages : Quiet(p) => known[p][k] = server[k]

(* Not so: a page has the style of the setting only. Older ones stay.       *)
StyleIsTheSetting == \A p \in Pages : styles[p] \subseteq {known[p]["general"].b}

(* Not so: what was typed stays in the form until it is saved or the       *)
(* section is left. The fetch of a new page resets the form of "storage".   *)
TypedStays ==
    [][\A p \in Pages : \A f \in typed[p] :
          section'[p] # section[p] \/ form'[p][f] = form[p][f]
          \/ edits' # edits]_vars
================================================================================
