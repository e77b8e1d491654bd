--------------------------- MODULE MCPagesForms_proofs ---------------------------
(***************************************************************************)
(* What the dialogs and forms of the pages save, and what follows when a   *)
(* preference, a filter, the name of the instance, the theme, the focus or *)
(* the width of the window changes, for any values of the constants.       *)
(*                                                                         *)
(* Each part has an inductive invariant of its own: what a form has loaded *)
(* and not had typed is what the server has, or what its page will hear of *)
(* (InstanceInv, AccountInv, FocusInv); what components hold is what is    *)
(* stored unless they have still to hear of it (ChoiceInv, FilterInv,      *)
(* NamesInv, ShellInv); and a column is as high as the cards in it, so that *)
(* adding to a shortest one keeps them even (MasonryInv).                  *)
(***************************************************************************)
EXTENDS MCPages, SequenceTheorems, WellFoundedInduction, TLAPS

(* A step of the pages is one of a single part, the others stay.           *)
LEMMA StepsOfParts ==
  ASSUME [PagesNext]_allVars
  PROVE  /\ [Next]_vars /\ [S!Next]_sync /\ [I!Next]_inst /\ [L!Next]_lists /\ [F!Next]_filter
         /\ [P!Next]_paged /\ [A!Next]_forms /\ [D!Next]_attachments /\ [G!Next]_location
         /\ [T!Next]_typing /\ [N!Next]_notices /\ [B!Next]_shell /\ [E!Next]_focusing
         /\ [C!Next]_choices /\ [M!Next]_masonry /\ [K!Next]_checkboxes
BY DEF PagesNext, allVars, UserPart, SyncPart, InstancePart, ListPart, FilterPart, MemoPart,
       AccountPart, FilePart, LocationPart, SuggestionPart, InboxPart, AppPart, FocusPart,
       ChoicePart, MasonryPart, TaskPart

-------------------------------------------------------------------------------
(* The dialogs of the account: a field that has not been touched is as it   *)
(* was when the page was loaded, and no request has it in its mask.         *)
AccountTyped ==
    /\ account \in A!Account /\ currentUser \in A!Account /\ state \in A!Account
    /\ touched \subseteq A!Fields
    /\ updates \subseteq A!Update \cup A!PasswordUpdate
    /\ newPassword \in Texts \cup {Empty} /\ newPasswordAgain \in Texts \cup {Empty}

UntouchedIsOld == \A f \in A!Fields \ touched : state[f] = currentUser[f]
MasksTyped == \A u \in updates \cap A!Update : u.mask \subseteq u.typed
PasswordsAgreed ==
    /\ password \in agreed \cup {Empty}
    /\ newPassword = newPasswordAgain => newPassword \in agreed \cup {Empty}
    /\ \A u \in updates \cap A!PasswordUpdate : u.password \in agreed

AccountInv == AccountTyped /\ UntouchedIsOld /\ MasksTyped /\ PasswordsAgreed

LEMMA UpdatesApart == A!Update \cap A!PasswordUpdate = {}
<1> SUFFICES ASSUME NEW u \in A!Update, u \in A!PasswordUpdate
             PROVE  FALSE
  OBVIOUS
<1>1. DOMAIN u = {"user", "mask", "typed"}
  BY DEF A!Update
<1>2. DOMAIN u = {"password"}
  BY DEF A!PasswordUpdate
<1> QED
  BY <1>1, <1>2

(* The initial account is one. *)
LEMMA AccountStarts ==
  ASSUME A!Init
  PROVE  AccountInv
BY DEF A!Init, A!Account, A!Values, A!Fields, AccountInv, AccountTyped, UntouchedIsOld, MasksTyped,
       PasswordsAgreed

(* A field set to one of its values leaves an account.                     *)
LEMMA FieldSet ==
  ASSUME NEW a \in A!Account, NEW f \in A!Fields, NEW v \in A!Values(f)
  PROVE  /\ [a EXCEPT ![f] = v] \in A!Account
         /\ \A g \in A!Fields : [a EXCEPT ![f] = v][g] = IF g = f THEN v ELSE a[g]
BY DEF A!Account, A!Values

LEMMA TouchedKept ==
  ASSUME AccountInv, NEW f \in A!Fields, NEW v \in A!Values(f), A!SetPartialState(f, v)
  PROVE  AccountInv'
<1> USE DEF AccountInv
<1>1. state' \in A!Account /\ \A g \in A!Fields : state'[g] = IF g = f THEN v ELSE state[g]
  <2>1. state \in A!Account /\ state' = [state EXCEPT ![f] = v]
    BY DEF A!SetPartialState, AccountTyped
  <2>2. /\ [state EXCEPT ![f] = v] \in A!Account
        /\ \A g \in A!Fields : [state EXCEPT ![f] = v][g] = IF g = f THEN v ELSE state[g]
    BY <2>1 DEF A!Account, A!Values
  <2> QED
    BY <2>1, <2>2
<1>2. UNCHANGED <<account, currentUser, updates, password, newPassword, newPasswordAgain, agreed>>
  BY DEF A!SetPartialState, A!passwords
<1>3. UntouchedIsOld'
  BY <1>1, <1>2 DEF UntouchedIsOld, A!SetPartialState
<1>4. touched' \subseteq A!Fields
  BY DEF A!SetPartialState, AccountTyped
<1> QED
  BY <1>1, <1>2, <1>3, <1>4 DEF AccountTyped, MasksTyped, PasswordsAgreed

LEMMA SaveAccountKeeps ==
  ASSUME AccountInv, A!SaveAccount
  PROVE  AccountInv'
<1> DEFINE new == [user |-> state, mask |-> A!UpdateMask, typed |-> touched]
<1> USE DEF AccountInv
<1>1. new \in A!Update /\ new.mask \subseteq new.typed
  BY DEF AccountTyped, UntouchedIsOld, A!Update, A!UpdateMask
<1>2. updates' = updates \cup {new}
  BY DEF A!SaveAccount
<1> QED
  BY <1>1, <1>2, UpdatesApart
  DEF A!SaveAccount, A!passwords, AccountTyped, UntouchedIsOld, MasksTyped, PasswordsAgreed

LEMMA SavePasswordKeeps ==
  ASSUME AccountInv, A!SavePassword
  PROVE  AccountInv'
<1> DEFINE new == [password |-> newPassword]
<1> USE DEF AccountInv
<1>1. UNCHANGED <<account, currentUser, state, touched, password, newPassword, agreed>>
  BY DEF A!SavePassword
<1>2. AccountTyped' /\ PasswordsAgreed' /\ MasksTyped'
  <2>1. CASE newPassword # newPasswordAgain
    BY <2>1, <1>1 DEF A!SavePassword, AccountTyped, MasksTyped, PasswordsAgreed
  <2>2. CASE newPassword = newPasswordAgain
    <3>1. new \in A!PasswordUpdate /\ new.password \in agreed
      BY <2>2 DEF A!SavePassword, AccountTyped, PasswordsAgreed, A!PasswordUpdate
    <3>2. updates' = updates \cup {new} /\ newPasswordAgain' = newPasswordAgain
      BY <2>2 DEF A!SavePassword
    <3> QED
      BY <3>1, <3>2, <1>1, UpdatesApart DEF AccountTyped, MasksTyped, PasswordsAgreed
  <2> QED
    BY <2>1, <2>2
<1> QED
  BY <1>1, <1>2 DEF UntouchedIsOld

LEMMA AnswerKeeps ==
  ASSUME AccountInv, NEW u \in updates, A!Answer(u)
  PROVE  AccountInv'
<1> USE DEF AccountInv
<1>1. UNCHANGED <<currentUser, state, touched, newPassword, newPasswordAgain, agreed>>
      /\ updates' = updates \ {u}
  BY DEF A!Answer
<1>2. password' = password \/ (u \in A!PasswordUpdate /\ password' = u.password)
  BY DEF A!Answer, A!Updated, A!PasswordUpdated, A!Refused
<1>3. account' \in A!Account
  <2>1. CASE account' = account
    BY <2>1 DEF AccountTyped
  <2>2. CASE A!Updated(u)
    <3>1. u.user \in A!Account /\ account \in A!Account
      BY <2>2 DEF A!Updated, A!Update, AccountTyped
    <3>2. account' = [f \in A!Fields |-> IF f \in u.mask THEN u.user[f] ELSE account[f]]
      BY <2>2 DEF A!Updated
    <3> QED
      BY <3>1, <3>2 DEF A!Account
  <2> QED
    BY <2>1, <2>2 DEF A!Answer, A!PasswordUpdated, A!Refused
<1> QED
  BY <1>1, <1>2, <1>3 DEF AccountTyped, UntouchedIsOld, MasksTyped, PasswordsAgreed

LEMMA AccountKept ==
  ASSUME AccountInv, [A!Next]_forms
  PROVE  AccountInv'
<1> USE DEF AccountInv
<1>1. ASSUME NEW f \in A!Fields, NEW v \in A!Values(f), A!Elsewhere(f, v)
      PROVE  AccountInv'
  BY <1>1, FieldSet DEF A!Elsewhere, A!passwords, AccountTyped, UntouchedIsOld, MasksTyped, PasswordsAgreed
<1>2. CASE A!Reload
  BY <1>2 DEF A!Reload, AccountTyped, UntouchedIsOld, MasksTyped, PasswordsAgreed
<1>3. ASSUME NEW d \in A!Dialogs, A!OpenDialog(d) \/ A!CloseDialog(d)
      PROVE  AccountInv'
  BY <1>3 DEF A!OpenDialog, A!CloseDialog, A!passwords, AccountTyped, UntouchedIsOld, MasksTyped,
              PasswordsAgreed
<1>4. ASSUME NEW v \in Texts \cup {Empty}, A!TypeField(v)
      PROVE  AccountInv'
  BY <1>4, TouchedKept DEF A!TypeField, A!Fields, A!Values
<1>5. ASSUME NEW v \in Texts \cup {Empty}, A!TypePassword(v)
      PROVE  AccountInv'
  BY <1>5 DEF A!TypePassword, AccountTyped, UntouchedIsOld, MasksTyped, PasswordsAgreed
<1>6. CASE A!RemoveAvatar
  BY <1>6, TouchedKept DEF A!RemoveAvatar, A!Fields, A!Values
<1>7. ASSUME NEW v \in Images, A!ChooseImage(v)
      PROVE  AccountInv'
  BY <1>7 DEF A!ChooseImage, A!passwords, AccountTyped, UntouchedIsOld, MasksTyped, PasswordsAgreed
<1>8. ASSUME NEW v \in Images, A!ImageRead(v)
      PROVE  AccountInv'
  BY <1>8, TouchedKept DEF A!ImageRead, A!Fields, A!Values
<1>9. CASE UNCHANGED forms
  BY <1>9 DEF forms, AccountTyped, UntouchedIsOld, MasksTyped, PasswordsAgreed
<1> QED
  BY <1>1, <1>2, <1>3, <1>4, <1>5, <1>6, <1>7, <1>8, <1>9, SaveAccountKeeps, SavePasswordKeeps, AnswerKeeps
  DEF A!Next, A!vars, forms

LEMMA AccountShows ==
  ASSUME AccountInv
  PROVE  A!UpdatesWhatWasTyped
BY DEF AccountInv, MasksTyped, PasswordsAgreed, A!UpdatesWhatWasTyped
-------------------------------------------------------------------------------
(* Focus mode. Vditor's text and the editor's differ only while one of them *)
(* has still to be told, or when the text has changed while Vditor was      *)
(* loading. A user who waits acts in neither case, nor during the timer or  *)
(* a save; so nothing is ever told by a destroyed Vditor.                   *)
FocusTyped ==
    /\ content \in E!Content /\ vditorText \in E!Content /\ captured \in E!Content /\ typedIn \in E!Content
    /\ vditor \in {"none", "loading", "ready"}
    /\ {focus, exiting, late, due, dark, vdark, inFocus, unheard} \subseteq BOOLEAN
    /\ focus <=> vditor # "none"
    /\ late \/ due => focus
    /\ untold \subseteq E!Content /\ body \in 0..MaxBody

VditorHears ==
    /\ vditor = "loading" => captured = content \/ unheard
    /\ vditor = "ready" /\ ~late /\ ~due => (vditorText = content \/ unheard) /\ vdark = dark
    /\ vditor = "ready" => vdark = dark

(* What a patient user finds.                                              *)
Undisturbed ==
    /\ untold = {}
    /\ late => vditor = "ready" /\ ~due
    /\ exiting \/ saving # E!None \/ vditor = "loading" => ~late /\ ~due
    /\ exiting => saving = E!None /\ vditor # "loading"
    /\ saving # E!None => vditor # "loading"
TextsTold ==
    /\ vditor = "loading" => captured = content
    /\ vditor = "ready" /\ ~late /\ ~due => vditorText = content

FocusInv ==
    /\ FocusTyped /\ VditorHears
    /\ calm => Undisturbed /\ TextsTold /\ E!NothingOverwritten /\ E!FocusAsAsked

(* A text whose body or tags are new. *)
LEMMA TextsMade ==
  ASSUME NEW c \in E!Content
  PROVE  /\ \A b \in 0..MaxBody : [c EXCEPT !.body = b] \in E!Content
         /\ \A t \in SUBSET FocusTags : [c EXCEPT !.tags = t] \in E!Content
         /\ c.tags \subseteq FocusTags
BY DEF E!Content

LEMMA BlankIsText == E!Blank \in E!Content
BY BoundsAssumption DEF E!Blank, E!Content

LEMMA FocusStarts ==
  ASSUME E!Init
  PROVE  FocusInv
<1>1. FocusTyped
  <2>1. body \in 0..MaxBody
    BY BoundsAssumption DEF E!Init
  <2>2. /\ content \in E!Content /\ vditorText \in E!Content
        /\ captured \in E!Content /\ typedIn \in E!Content
    BY BlankIsText DEF E!Init
  <2> QED
    BY <2>1, <2>2 DEF E!Init, FocusTyped
<1>2. VditorHears
  BY DEF E!Init, VditorHears
<1>3. Undisturbed
  BY DEF E!Init, Undisturbed
<1>4. TextsTold
  BY DEF E!Init, TextsTold
<1>5. E!NothingOverwritten /\ E!FocusAsAsked
  BY DEF E!Init, E!NothingOverwritten, E!FocusAsAsked
<1> QED
  BY <1>1, <1>2, <1>3, <1>4, <1>5 DEF FocusInv

LEMMA FocusKept ==
  ASSUME FocusInv, [E!Next]_focusing
  PROVE  FocusInv'
<1> USE DEF FocusInv, FocusTyped, VditorHears, Undisturbed, TextsTold,
       E!NothingOverwritten, E!FocusAsAsked
<1>1. CASE E!TypeInArea
  BY <1>1, TextsMade, BoundsAssumption DEF E!TypeInArea, E!Still, E!Update
<1>2. CASE E!TypeInVditor
  BY <1>2, TextsMade, BoundsAssumption DEF E!TypeInVditor, E!Still
<1>3. CASE E!Input
  BY <1>3, TextsMade DEF E!Input
<1>4. CASE E!ValueEffect
  BY <1>4, TextsMade DEF E!ValueEffect
<1>5. CASE E!Initialized
  BY <1>5, TextsMade DEF E!Initialized
<1>6. CASE E!ApplyTheme
  BY <1>6, TextsMade DEF E!ApplyTheme
<1>7. CASE E!Enter
  BY <1>7, TextsMade DEF E!Enter, E!Click, E!Calm, E!Still, E!Mount
<1>8. CASE E!Toggle
  BY <1>8, TextsMade DEF E!Toggle, E!Click, E!Calm, E!Still, E!Destroy
<1>9. CASE E!LeaveFocus
  BY <1>9, TextsMade DEF E!LeaveFocus, E!Click, E!Calm, E!Still
<1>10. CASE E!FocusLeft
  BY <1>10, TextsMade DEF E!FocusLeft, E!Destroy
<1>11. CASE E!Save
  BY <1>11, TextsMade DEF E!Save, E!Click, E!Calm, E!Still
<1>12. CASE E!Saved
  BY <1>12, TextsMade, BlankIsText DEF E!Saved, E!Destroy
<1>13. CASE E!NotSaved
  BY <1>13, TextsMade DEF E!NotSaved
<1>14. ASSUME NEW said \in untold, E!Told(said)
      PROVE  FocusInv'
  BY <1>14 DEF E!Told, E!Update
<1>15. ASSUME NEW t \in FocusTags, E!AppendTag(t) \/ E!RemoveTag(t)
      PROVE  FocusInv'
  <2>1. PICK c \in E!Content : c = content
    BY DEF FocusTyped
  <2>2. [c EXCEPT !.tags = c.tags \cup {t}] \in E!Content /\ [c EXCEPT !.tags = c.tags \ {t}] \in E!Content
    BY DEF E!Content
  <2>3. PICK w \in E!Content : w = typedIn
    BY DEF FocusTyped
  <2>4. [w EXCEPT !.tags = w.tags \cup {t}] \in E!Content /\ [w EXCEPT !.tags = w.tags \ {t}] \in E!Content
    BY DEF E!Content
  <2>5. CASE E!AppendTag(t)
    BY <2>1, <2>2, <2>3, <2>4, <2>5 DEF E!AppendTag, E!Update, E!Click, E!Calm, E!Still
  <2>6. CASE E!RemoveTag(t)
    BY <2>1, <2>2, <2>3, <2>4, <2>6 DEF E!RemoveTag, E!Update, E!Click, E!Calm, E!Still
  <2> QED
    BY <1>15, <2>5, <2>6
<1>16. CASE UNCHANGED focusing
  BY <1>16 DEF focusing
<1> QED
  BY <1>1, <1>2, <1>3, <1>4, <1>5, <1>6, <1>7, <1>8, <1>9, <1>10, <1>11, <1>12, <1>13, <1>14, <1>15, <1>16 DEF E!Next, E!vars, focusing

LEMMA FocusShows ==
  ASSUME FocusInv
  PROVE  E!NothingOverwritten /\ E!FocusAsAsked /\ E!VditorFollows
BY DEF FocusInv, VditorHears, E!NothingOverwritten, E!FocusAsAsked, E!VditorFollows
-------------------------------------------------------------------------------
(* The settings of the instance, for one page whose user waits for the      *)
(* answer to a save. But for a save the page has not heard of yet, and      *)
(* settings an answer was lost of, the page has what the server has, and    *)
(* so has what it fetches. A form differs from it in the fields typed only,  *)
(* and so does what a save sends.                                           *)
InstanceTyped ==
    /\ instance \in [I!Keys -> [I!Fields -> Nat]] /\ meant \in [I!Keys -> [I!Fields -> Nat]]
    /\ settings \in [Pages -> [I!Keys -> [I!Fields -> Nat]]]
    /\ section \in [Pages -> I!Keys \cup {"preference"}]
    /\ instanceForm \in [Pages -> [I!Fields -> Nat]] /\ entered \in [Pages -> SUBSET I!Fields]
    /\ profile \in [Pages -> Nat]
    /\ saves \in [Pages -> [I!Slots -> [step : {"none", "sent", "written", "asked", "fetched"},
                                        key : I!Keys, value : [I!Fields -> Nat], fields : SUBSET I!Fields]]]
    /\ edits \in Nat

(* What is under way: a save of the form or of the dialog is alone.         *)
SavesAlone ==
    \A p \in Pages : \A s \in I!Slots :
        /\ saves[p][s].step = "none" => saves[p][s] = I!NoCall
        /\ s \in {"form", "profile"} /\ saves[p][s] # I!NoCall =>
              /\ saves[p][s].key = section[p]
              /\ \A t \in I!Slots \ {s} : saves[p][t] = I!NoCall
        /\ s \notin {"form", "profile"} => saves[p][s].step \notin {"sent", "written"}
        /\ s = "profile" => saves[p][s].step \notin {"asked", "fetched"}
        /\ s = "profile" /\ saves[p][s] # I!NoCall =>
              saves[p][s].key = "general" /\ saves[p][s].fields = {"a"}
        /\ s = "form" /\ saves[p][s].step \in {"sent", "written"} => saves[p][s].fields \subseteq entered[p]

Unheard(p, k) == \E s \in I!Slots : saves[p][s].step = "written" /\ saves[p][s].key = k

PageKnows ==
    \A p \in Pages : \A k \in I!Keys \ unsure :
        /\ ~Unheard(p, k) => settings[p][k] = instance[k]
        /\ \A s \in I!Slots :
              saves[p][s].key = k /\ saves[p][s].step \in {"written", "fetched"} =>
              saves[p][s].value = instance[k]

FormsTyped ==
    \A p \in Pages :
        /\ \A k \in I!Keys \ unsure : section[p] = k =>
              \A f \in I!Fields \ entered[p] : instanceForm[p][f] = settings[p][k][f]
        /\ section[p] = "general" => "a" \notin entered[p]
        /\ \A s \in I!Slots : saves[p][s].step \in {"sent", "written"} /\ saves[p][s].key \notin unsure =>
              \A f \in I!Fields \ saves[p][s].fields :
                  saves[p][s].value[f] = settings[p][saves[p][s].key][f]

Meant == \A k \in I!Keys \ unsure : instance[k] = meant[k]

InstanceInv == InstanceTyped /\ SavesAlone /\ PageKnows /\ FormsTyped /\ Meant

LEMMA InstanceStarts ==
  ASSUME I!Init
  PROVE  InstanceInv
<1>1. I!Untouched \in [I!Fields -> Nat] /\ \A f \in I!Fields : I!Untouched[f] = 0
  BY DEF I!Untouched
<1>2. I!NoCall \in [step : {"none", "sent", "written", "asked", "fetched"},
                    key : I!Keys, value : [I!Fields -> Nat], fields : SUBSET I!Fields]
      /\ I!NoCall.step = "none"
  BY <1>1 DEF I!NoCall, I!Keys
<1>3. \A k \in I!Keys : /\ I!Fetching(k) \in [step : {"none", "sent", "written", "asked", "fetched"},
                              key : I!Keys, value : [I!Fields -> Nat], fields : SUBSET I!Fields]
                        /\ I!Fetching(k).step = "asked" /\ I!Fetching(k).key = k
  BY <1>2 DEF I!Fetching
<1>4. \A p \in Pages : \A s \in I!Slots :
         IF s \in {"memo", "storage"} THEN saves[p][s] = I!Fetching(s) /\ s \in I!Keys ELSE saves[p][s] = I!NoCall
  BY DEF I!Init, I!Slots, I!Keys
<1>5. InstanceTyped
  <2>1. saves \in [Pages -> [I!Slots -> [step : {"none", "sent", "written", "asked", "fetched"},
                                        key : I!Keys, value : [I!Fields -> Nat], fields : SUBSET I!Fields]]]
    BY <1>2, <1>3 DEF I!Init
  <2> QED
    BY <1>1, <2>1 DEF I!Init, InstanceTyped
<1>6. SavesAlone
  BY <1>2, <1>3, <1>4 DEF SavesAlone
<1>7. PageKnows
  BY <1>1, <1>2, <1>3, <1>4 DEF I!Init, PageKnows
<1>8. FormsTyped
  BY <1>1, <1>2, <1>3, <1>4 DEF I!Init, FormsTyped, I!Keys
<1> QED
  BY <1>5, <1>6, <1>7, <1>8 DEF I!Init, InstanceInv, Meant

(* What a setting that is shown changes on its page.                       *)
LEMMA ShowsMeans ==
  ASSUME InstanceTyped, NEW p \in Pages, NEW k \in I!Keys, NEW value \in [I!Fields -> Nat],
         I!Shows(p, k, value)
  PROVE  /\ settings' \in [Pages -> [I!Keys -> [I!Fields -> Nat]]]
         /\ instanceForm' \in [Pages -> [I!Fields -> Nat]] /\ entered' \in [Pages -> SUBSET I!Fields]
         /\ \A j \in I!Keys : settings'[p][j] = IF j = k THEN value ELSE settings[p][j]
         /\ section[p] # k \/ k = "memo" => instanceForm'[p] = instanceForm[p] /\ entered'[p] = entered[p]
         /\ section[p] = k /\ k = "general" =>
                /\ instanceForm'[p]["a"] = value["a"] /\ instanceForm'[p]["b"] = instanceForm[p]["b"]
                /\ entered'[p] = entered[p]
         /\ section[p] = k /\ k = "storage" => instanceForm'[p] = value /\ entered'[p] = {}
<1>1. /\ settings \in [Pages -> [I!Keys -> [I!Fields -> Nat]]]
      /\ instanceForm \in [Pages -> [I!Fields -> Nat]] /\ entered \in [Pages -> SUBSET I!Fields]
  BY DEF InstanceTyped
<1>2. /\ settings' \in [Pages -> [I!Keys -> [I!Fields -> Nat]]]
      /\ \A j \in I!Keys : settings'[p][j] = IF j = k THEN value ELSE settings[p][j]
  BY <1>1 DEF I!Shows
<1> DEFINE Formed == IF section[p] # k THEN instanceForm[p]
                     ELSE CASE k = "general" -> [instanceForm[p] EXCEPT !.a = value.a]
                            [] k = "storage" -> value
                            [] k = "memo" -> instanceForm[p]
           Typed == IF section[p] = k /\ k = "storage" THEN {} ELSE entered[p]
<1>5. instanceForm' = [instanceForm EXCEPT ![p] = Formed] /\ entered' = [entered EXCEPT ![p] = Typed]
  BY DEF I!Shows
<1> HIDE DEF Formed, Typed
<1>6. instanceForm[p] \in [I!Fields -> Nat] /\ entered[p] \in SUBSET I!Fields
  BY <1>1
<1>7. CASE section[p] # k \/ k = "memo"
  <2>1. Formed = instanceForm[p] /\ Typed = entered[p]
    BY <1>7 DEF Formed, Typed
  <2> QED
    BY <1>1, <1>2, <1>5, <1>6, <1>7, <2>1
<1>8. CASE section[p] = k /\ k = "general"
  <2>1. Formed = [instanceForm[p] EXCEPT !.a = value.a] /\ Typed = entered[p]
    BY <1>8 DEF Formed, Typed
  <2>2. Formed \in [I!Fields -> Nat] /\ Formed["a"] = value["a"] /\ Formed["b"] = instanceForm[p]["b"]
    BY <1>6, <2>1 DEF I!Fields
  <2> QED
    BY <1>1, <1>2, <1>5, <1>6, <1>8, <2>1, <2>2
<1>9. CASE section[p] = k /\ k = "storage"
  <2>1. Formed = value /\ Typed = {}
    BY <1>9 DEF Formed, Typed
  <2> QED
    BY <1>1, <1>2, <1>5, <1>6, <1>9, <2>1
<1> QED
  BY <1>7, <1>8, <1>9 DEF I!Keys

(* One request of a page replaced by another. *)
LEMMA CallReplaced ==
  ASSUME InstanceTyped, NEW p \in Pages, NEW s \in I!Slots,
         NEW c \in [step : {"none", "sent", "written", "asked", "fetched"},
                    key : I!Keys, value : [I!Fields -> Nat], fields : SUBSET I!Fields],
         saves' = [saves EXCEPT ![p][s] = c]
  PROVE  /\ saves' \in [Pages -> [I!Slots -> [step : {"none", "sent", "written", "asked", "fetched"},
                                  key : I!Keys, value : [I!Fields -> Nat], fields : SUBSET I!Fields]]]
         /\ \A t \in I!Slots : saves'[p][t] = IF t = s THEN c ELSE saves[p][t]
<1> DEFINE R == [step : {"none", "sent", "written", "asked", "fetched"},
                 key : I!Keys, value : [I!Fields -> Nat], fields : SUBSET I!Fields]
<1>1. saves \in [Pages -> [I!Slots -> R]] /\ c \in R
  BY DEF InstanceTyped
<1> HIDE DEF R
<1>2. saves' \in [Pages -> [I!Slots -> R]] /\ \A t \in I!Slots : saves'[p][t] = IF t = s THEN c ELSE saves[p][t]
  BY <1>1
<1> QED
  BY <1>2 DEF R

(* The steps, for the one page there is. *)
LEMMA SectionKeeps ==
  ASSUME InstanceInv, NEW p \in Pages, \A q \in Pages : q = p, Overlap = FALSE,
         NEW k \in I!Keys \cup {"preference"}, I!Select(p, k)
  PROVE  InstanceInv'
<1>0. "preference" \notin I!Keys /\ {"form", "profile"} \subseteq I!Slots
  BY DEF I!Keys, I!Slots
<1>1. /\ UNCHANGED <<instance, settings, saves, meant, unsure, edits>>
      /\ saves[p]["form"] = I!NoCall /\ saves[p]["profile"] = I!NoCall
      /\ section' = [section EXCEPT ![p] = k] /\ entered' = [entered EXCEPT ![p] = {}]
  BY DEF I!Select
<1>2. /\ instanceForm' \in [Pages -> [I!Fields -> Nat]]
      /\ k \in I!Keys => instanceForm'[p] = settings[p][k]
  <2>1. I!Untouched \in [I!Fields -> Nat]
    BY DEF I!Untouched
  <2> QED
    BY <2>1, <1>0 DEF I!Select, InstanceInv, InstanceTyped
<1>3. profile' \in [Pages -> Nat]
  BY DEF I!Select, InstanceInv, InstanceTyped, I!Keys, I!Fields
<1>4. InstanceTyped' /\ section'[p] = k /\ entered'[p] = {}
  BY <1>1, <1>2, <1>3 DEF InstanceInv, InstanceTyped
<1>5. SavesAlone'
  BY <1>0, <1>1, <1>4 DEF InstanceInv, SavesAlone, I!NoCall
<1>6. PageKnows' /\ Meant'
  BY <1>1 DEF InstanceInv, PageKnows, Meant, Unheard
<1>7. FormsTyped'
  BY <1>0, <1>1, <1>2, <1>4 DEF InstanceInv, FormsTyped, InstanceTyped
<1> QED
  BY <1>4, <1>5, <1>6, <1>7 DEF InstanceInv

LEMMA FormTypedKeeps ==
  ASSUME InstanceInv, NEW p \in Pages, \A q \in Pages : q = p, Overlap = FALSE,
         NEW f \in I!Fields, I!Type(p, f)
  PROVE  InstanceInv'
<1>1. /\ UNCHANGED <<instance, settings, section, profile, saves, meant, unsure>>
      /\ section[p] = "general" => f = "b"
      /\ edits' \in Nat
  BY DEF I!Type, InstanceInv, InstanceTyped
<1>2. /\ instanceForm' \in [Pages -> [I!Fields -> Nat]]
      /\ \A g \in I!Fields \ {f} : instanceForm'[p][g] = instanceForm[p][g]
  BY <1>1 DEF I!Type, InstanceInv, InstanceTyped
<1>3. entered' \in [Pages -> SUBSET I!Fields] /\ entered'[p] = entered[p] \cup {f}
  BY DEF I!Type, InstanceInv, InstanceTyped
<1>4. InstanceTyped'
  BY <1>1, <1>2, <1>3 DEF InstanceInv, InstanceTyped
<1>5. SavesAlone'
  BY <1>1, <1>3 DEF InstanceInv, SavesAlone
<1>6. PageKnows' /\ Meant'
  BY <1>1 DEF InstanceInv, PageKnows, Meant, Unheard
<1>7. FormsTyped'
  BY <1>1, <1>2, <1>3 DEF InstanceInv, FormsTyped
<1> QED
  BY <1>4, <1>5, <1>6, <1>7 DEF InstanceInv

LEMMA ProfileTypedKeeps ==
  ASSUME InstanceInv, NEW p \in Pages, I!TypeProfile(p)
  PROVE  InstanceInv'
<1>1. UNCHANGED <<instance, settings, section, instanceForm, entered, saves, meant, unsure>>
  BY DEF I!TypeProfile
<1>2. edits' \in Nat /\ profile' \in [Pages -> Nat]
  BY DEF I!TypeProfile, InstanceInv, InstanceTyped
<1> QED
  BY <1>1, <1>2 DEF InstanceInv, InstanceTyped, SavesAlone, PageKnows, Unheard, FormsTyped, Meant

(* A save begins, of a form or of the dialog. *)
LEMMA SaveBegun ==
  ASSUME InstanceInv, NEW p \in Pages, \A q \in Pages : q = p, Overlap = FALSE,
         NEW s \in {"form", "profile"}, I!MaySave(p, s),
         NEW c \in [step : {"none", "sent", "written", "asked", "fetched"},
                    key : I!Keys, value : [I!Fields -> Nat], fields : SUBSET I!Fields],
         c.step = "sent", c.key = section[p],
         \A f \in I!Fields \ c.fields : c.key \notin unsure => c.value[f] = settings[p][c.key][f],
         s = "form" => c.fields \subseteq entered[p],
         s = "profile" => c.key = "general" /\ c.fields = {"a"},
         saves' = [saves EXCEPT ![p][s] = c],
         UNCHANGED <<instance, settings, section, instanceForm, entered, profile, meant, unsure, edits>>
  PROVE  InstanceInv'
<1>0. I!NoCall.step = "none" /\ s \in I!Slots
  BY DEF I!NoCall, I!Slots
<1>1. /\ InstanceTyped
      /\ \A t \in I!Slots : saves[p][t] = I!NoCall
  BY DEF I!MaySave, I!Quiet, InstanceInv
<1>2. /\ saves' \in [Pages -> [I!Slots -> [step : {"none", "sent", "written", "asked", "fetched"},
                              key : I!Keys, value : [I!Fields -> Nat], fields : SUBSET I!Fields]]]
      /\ \A t \in I!Slots : saves'[p][t] = IF t = s THEN c ELSE I!NoCall
  BY <1>0, <1>1, CallReplaced
<1>3. InstanceTyped'
  BY <1>2 DEF InstanceInv, InstanceTyped
<1>4. SavesAlone'
  BY <1>0, <1>2 DEF SavesAlone
<1>5. PageKnows' /\ Meant'
  BY <1>0, <1>1, <1>2 DEF InstanceInv, PageKnows, Unheard, Meant
<1>6. FormsTyped'
  BY <1>0, <1>2 DEF InstanceInv, FormsTyped
<1> QED
  BY <1>3, <1>4, <1>5, <1>6 DEF InstanceInv

LEMMA InstanceSaveKeeps ==
  ASSUME InstanceInv, NEW p \in Pages, \A q \in Pages : q = p, Overlap = FALSE, I!Save(p)
  PROVE  InstanceInv'
<1> DEFINE c == [step |-> "sent", key |-> section[p], value |-> instanceForm[p], fields |-> entered[p]]
<1>1. section[p] \in I!Keys /\ instanceForm[p] \in [I!Fields -> Nat] /\ entered[p] \in SUBSET I!Fields
  BY DEF I!Save, InstanceInv, InstanceTyped
<1>2. c \in [step : {"none", "sent", "written", "asked", "fetched"},
              key : I!Keys, value : [I!Fields -> Nat], fields : SUBSET I!Fields]
  BY <1>1
<1>3. \A f \in I!Fields \ c.fields : c.key \notin unsure => c.value[f] = settings[p][c.key][f]
  BY <1>1 DEF InstanceInv, FormsTyped
<1>4. c.step = "sent" /\ c.key = section[p] /\ c.fields \subseteq entered[p]
  OBVIOUS
<1>5. /\ saves' = [saves EXCEPT ![p]["form"] = c] /\ I!MaySave(p, "form")
      /\ UNCHANGED <<instance, settings, section, instanceForm, entered, profile, meant, unsure, edits>>
  BY DEF I!Save
<1> HIDE DEF c
<1> QED
  BY <1>2, <1>3, <1>4, <1>5, SaveBegun

LEMMA ProfileSaveKeeps ==
  ASSUME InstanceInv, NEW p \in Pages, \A q \in Pages : q = p, Overlap = FALSE, I!SaveProfile(p)
  PROVE  InstanceInv'
<1> DEFINE v == [settings[p]["general"] EXCEPT !.a = profile[p]]
           c == [step |-> "sent", key |-> "general", fields |-> {"a"}, value |-> v]
<1>1. section[p] = "general" /\ "general" \in I!Keys /\ {"a"} \in SUBSET I!Fields
  BY DEF I!SaveProfile, I!Keys, I!Fields
<1>2. settings[p]["general"] \in [I!Fields -> Nat] /\ profile[p] \in Nat
  BY <1>1 DEF InstanceInv, InstanceTyped
<1>3. v \in [I!Fields -> Nat] /\ \A f \in I!Fields \ {"a"} : v[f] = settings[p]["general"][f]
  BY <1>2
<1>4. saves' = [saves EXCEPT ![p]["profile"] = c]
  BY DEF I!SaveProfile
<1> HIDE DEF v
<1>5. c \in [step : {"none", "sent", "written", "asked", "fetched"},
              key : I!Keys, value : [I!Fields -> Nat], fields : SUBSET I!Fields]
  BY <1>1, <1>3
<1>6. \A f \in I!Fields \ c.fields : c.key \notin unsure => c.value[f] = settings[p][c.key][f]
  BY <1>3
<1>7. c.step = "sent" /\ c.key = section[p] /\ c.key = "general" /\ c.fields = {"a"}
  BY <1>1
<1>8. /\ I!MaySave(p, "profile")
      /\ UNCHANGED <<instance, settings, section, instanceForm, entered, profile, meant, unsure, edits>>
  BY DEF I!SaveProfile
<1> HIDE DEF c
<1> QED
  BY <1>4, <1>5, <1>6, <1>7, <1>8, SaveBegun

LEMMA InstanceWriteKeeps ==
  ASSUME InstanceInv, NEW p \in Pages, \A q \in Pages : q = p, NEW s \in I!Slots, I!Write(p, s)
  PROVE  InstanceInv'
<1>0. I!NoCall.step = "none"
  BY DEF I!NoCall
<1> DEFINE R == [step : {"none", "sent", "written", "asked", "fetched"},
                 key : I!Keys, value : [I!Fields -> Nat], fields : SUBSET I!Fields]
           c == saves[p][s]
           d == [c EXCEPT !.step = "written"]
<1>1. c \in R /\ c.step = "sent"
  BY DEF I!Write, InstanceInv, InstanceTyped
<1>2. s \in {"form", "profile"} /\ c # I!NoCall
  BY <1>0, <1>1 DEF InstanceInv, SavesAlone
<1>3. \A t \in I!Slots \ {s} : saves[p][t] = I!NoCall
  BY <1>2 DEF InstanceInv, SavesAlone
<1>4. d \in R /\ d.step = "written" /\ d.key = c.key /\ d.value = c.value /\ d.fields = c.fields
  BY <1>1
<1>5. saves' = [saves EXCEPT ![p][s] = d]
  BY DEF I!Write
<1>6. /\ saves' \in [Pages -> [I!Slots -> R]]
      /\ \A t \in I!Slots : saves'[p][t] = IF t = s THEN d ELSE saves[p][t]
  BY <1>4, <1>5, CallReplaced DEF InstanceInv
<1>7. UNCHANGED <<settings, section, instanceForm, entered, profile, unsure, edits>>
  BY DEF I!Write
<1>8. c.key \in I!Keys /\ c.value \in [I!Fields -> Nat]
  BY <1>1
<1>9. /\ instance' \in [I!Keys -> [I!Fields -> Nat]]
      /\ \A k \in I!Keys : instance'[k] = IF k = c.key THEN c.value ELSE instance[k]
  BY <1>8 DEF I!Write, InstanceInv, InstanceTyped
<1>10. /\ meant' \in [I!Keys -> [I!Fields -> Nat]]
       /\ \A k \in I!Keys \ {c.key} : meant'[k] = meant[k]
       /\ \A f \in I!Fields : meant'[c.key][f] = IF f \in c.fields THEN c.value[f] ELSE meant[c.key][f]
  <2> DEFINE m == [f \in I!Fields |-> IF f \in c.fields THEN c.value[f] ELSE meant[c.key][f]]
  <2>1. meant \in [I!Keys -> [I!Fields -> Nat]]
    BY DEF InstanceInv, InstanceTyped
  <2>2. meant' = [meant EXCEPT ![c.key] = m]
    BY DEF I!Write
  <2>3. m \in [I!Fields -> Nat]
    BY <1>8, <2>1
  <2>4. \A f \in I!Fields : m[f] = IF f \in c.fields THEN c.value[f] ELSE meant[c.key][f]
    OBVIOUS
  <2> HIDE DEF m
  <2> QED
    BY <1>8, <2>1, <2>2, <2>3, <2>4
<1> HIDE DEF d
<1>11. InstanceTyped'
  BY <1>6, <1>7, <1>9, <1>10 DEF InstanceInv, InstanceTyped
<1>12. SavesAlone'
  BY <1>0, <1>1, <1>2, <1>3, <1>4, <1>6, <1>7 DEF InstanceInv, SavesAlone
<1>13. PageKnows'
  <2>1. \A k \in I!Keys : Unheard(p, k)' <=> k = c.key
    BY <1>0, <1>3, <1>4, <1>6 DEF Unheard
  <2>2. \A k \in I!Keys : ~Unheard(p, k)
    BY <1>0, <1>1, <1>3 DEF Unheard
  <2>3. ASSUME NEW k \in I!Keys \ unsure, k # c.key
        PROVE  settings[p][k] = instance'[k]
    BY <1>9, <2>2, <2>3 DEF InstanceInv, PageKnows
  <2>4. \A t \in I!Slots : saves'[p][t].step \in {"written", "fetched"} => t = s
    BY <1>0, <1>3, <1>6
  <2>5. saves'[p][s].value = instance'[c.key]
    BY <1>4, <1>6, <1>8, <1>9
  <2> QED
    BY <1>4, <1>6, <1>7, <2>1, <2>3, <2>4, <2>5 DEF PageKnows
<1>14. FormsTyped'
  <2>1. \A k \in I!Keys \ unsure' : section'[p] = k =>
            \A f \in I!Fields \ entered'[p] : instanceForm'[p][f] = settings'[p][k][f]
    BY <1>7 DEF InstanceInv, FormsTyped
  <2>2. section'[p] = "general" => "a" \notin entered'[p]
    BY <1>7 DEF InstanceInv, FormsTyped
  <2>3. ASSUME NEW t \in I!Slots, saves'[p][t].step \in {"sent", "written"}, saves'[p][t].key \notin unsure'
        PROVE  \A f \in I!Fields \ saves'[p][t].fields :
                  saves'[p][t].value[f] = settings'[p][saves'[p][t].key][f]
    <3>1. t = s
      BY <1>0, <1>3, <1>6, <2>3
    <3>2. saves'[p][t] = d
      BY <1>6, <3>1
    <3>3. c.key \notin unsure
      BY <1>4, <1>7, <2>3, <3>2
    <3>4. \A f \in I!Fields \ c.fields : c.value[f] = settings[p][c.key][f]
      BY <1>1, <3>3 DEF InstanceInv, FormsTyped
    <3> QED
      BY <1>4, <1>7, <3>2, <3>4
  <2> QED
    BY <2>1, <2>2, <2>3 DEF FormsTyped
<1>15. Meant'
  <2>1. CASE c.key \in unsure
    BY <2>1, <1>7, <1>9, <1>10 DEF InstanceInv, Meant
  <2>2. CASE c.key \notin unsure
    <3>1. ~Unheard(p, c.key)
      BY <1>0, <1>1, <1>3 DEF Unheard
    <3>2. settings[p][c.key] = instance[c.key] /\ instance[c.key] = meant[c.key]
      BY <1>8, <2>2, <3>1 DEF InstanceInv, PageKnows, Meant
    <3>3. \A f \in I!Fields \ c.fields : c.value[f] = settings[p][c.key][f]
      BY <1>1, <2>2 DEF InstanceInv, FormsTyped
    <3>4. \A f \in I!Fields : meant'[c.key][f] = c.value[f]
      BY <1>10, <3>2, <3>3
    <3>5. meant'[c.key] = c.value
      BY <1>8, <1>10, <3>4
    <3> QED
      BY <1>7, <1>9, <1>10, <3>5 DEF InstanceInv, Meant
  <2> QED
    BY <2>1, <2>2
<1> QED
  BY <1>11, <1>12, <1>13, <1>14, <1>15 DEF InstanceInv

(* What the page is given - by the answer to a save, or fetched - is what   *)
(* the server has, and d is what it asks for next.                         *)
LEMMA InstanceShownKeeps ==
  ASSUME InstanceInv, NEW p \in Pages, \A q \in Pages : q = p, NEW s \in I!Slots,
         saves[p][s].step \in {"written", "fetched"},
         I!Shows(p, saves[p][s].key, saves[p][s].value),
         NEW d, d = I!NoCall \/ (s = "form" /\ d = I!Fetching(saves[p][s].key)),
         saves' = [saves EXCEPT ![p][s] = d],
         UNCHANGED <<instance, section, profile, meant, unsure, edits>>
  PROVE  InstanceInv'
<1> DEFINE R == [step : {"none", "sent", "written", "asked", "fetched"},
                 key : I!Keys, value : [I!Fields -> Nat], fields : SUBSET I!Fields]
           c == saves[p][s]
<1>1. c \in R /\ c.step \in {"written", "fetched"} /\ c.key \in I!Keys /\ c.value \in [I!Fields -> Nat]
  BY DEF InstanceInv, InstanceTyped
<1>2. /\ d \in R /\ d.step \in {"none", "asked"} /\ (d.step = "none" => d = I!NoCall)
      /\ d # I!NoCall => s = "form" /\ d.key = c.key
      /\ I!NoCall.step = "none"
  <2>1. I!NoCall \in R /\ I!NoCall.step = "none"
    BY DEF I!NoCall, I!Keys, I!Untouched
  <2>2. I!Fetching(c.key) \in R /\ I!Fetching(c.key).step = "asked" /\ I!Fetching(c.key).key = c.key
    BY <1>1, <2>1 DEF I!Fetching
  <2> QED
    BY <2>1, <2>2
<1>3. /\ saves' \in [Pages -> [I!Slots -> R]]
      /\ \A t \in I!Slots : saves'[p][t] = IF t = s THEN d ELSE saves[p][t]
  BY <1>2, CallReplaced DEF InstanceInv
<1>4. /\ settings' \in [Pages -> [I!Keys -> [I!Fields -> Nat]]]
      /\ instanceForm' \in [Pages -> [I!Fields -> Nat]] /\ entered' \in [Pages -> SUBSET I!Fields]
      /\ \A j \in I!Keys : settings'[p][j] = IF j = c.key THEN c.value ELSE settings[p][j]
      /\ section[p] # c.key \/ c.key = "memo" => instanceForm'[p] = instanceForm[p] /\ entered'[p] = entered[p]
      /\ section[p] = c.key /\ c.key = "general" =>
             /\ instanceForm'[p]["a"] = c.value["a"] /\ instanceForm'[p]["b"] = instanceForm[p]["b"]
             /\ entered'[p] = entered[p]
      /\ section[p] = c.key /\ c.key = "storage" => instanceForm'[p] = c.value /\ entered'[p] = {}
  BY <1>1, ShowsMeans DEF InstanceInv
<1>5. InstanceTyped'
  BY <1>3, <1>4 DEF InstanceInv, InstanceTyped
<1>6. SavesAlone'
  BY <1>1, <1>2, <1>3, <1>4 DEF InstanceInv, SavesAlone
<1>7. /\ s \in {"form", "profile"} => \A t \in I!Slots \ {s} : saves[p][t] = I!NoCall
      /\ s \notin {"form", "profile"} => c.step = "fetched"
  BY <1>1, <1>2 DEF InstanceInv, SavesAlone
<1>8. c.key \notin unsure => c.value = instance[c.key]
  BY <1>1 DEF InstanceInv, PageKnows
<1>9. PageKnows'
  <2>1. \A k \in I!Keys : Unheard(p, k)' => Unheard(p, k)
    BY <1>2, <1>3 DEF Unheard
  <2>2. \A k \in I!Keys \ {c.key} : Unheard(p, k) => Unheard(p, k)'
    BY <1>1, <1>3 DEF Unheard
  <2> QED
    BY <1>2, <1>3, <1>4, <1>8, <2>1, <2>2 DEF InstanceInv, PageKnows
<1>10. \A f \in I!Fields : f \notin c.fields /\ c.step = "written" /\ c.key \notin unsure =>
          c.value[f] = settings[p][c.key][f]
  BY DEF InstanceInv, FormsTyped
<1>11. c.step = "fetched" /\ c.key \notin unsure => c.value = settings[p][c.key]
  <2> SUFFICES ASSUME c.step = "fetched", c.key \notin unsure
               PROVE  ~Unheard(p, c.key)
    BY <1>1, <1>8 DEF InstanceInv, PageKnows
  <2>1. ASSUME NEW t \in I!Slots, saves[p][t].step = "written"
        PROVE  FALSE
    <3>1. t \in {"form", "profile"} /\ saves[p][t] # I!NoCall
      BY <1>2, <2>1 DEF InstanceInv, SavesAlone
    <3>2. s # t
      BY <2>1
    <3>3. c = I!NoCall
      BY <3>1, <3>2 DEF InstanceInv, SavesAlone
    <3> QED
      BY <1>1, <1>2, <3>3
  <2> QED
    BY <2>1 DEF Unheard
<1>12. FormsTyped'
  <2>1. \A t \in I!Slots : saves'[p][t].step \in {"sent", "written"} =>
           saves[p][t] = saves'[p][t] /\ t # s /\ t \in {"form", "profile"}
    BY <1>2, <1>3 DEF InstanceInv, SavesAlone
  <2>2. \A t \in I!Slots : saves'[p][t].step \notin {"sent", "written"}
    <3> SUFFICES ASSUME NEW t \in I!Slots, saves'[p][t].step \in {"sent", "written"}
                 PROVE  FALSE
      OBVIOUS
    <3>1. t # s /\ t \in {"form", "profile"} /\ saves[p][t] # I!NoCall
      BY <1>2, <2>1
    <3>2. c = I!NoCall
      BY <3>1 DEF InstanceInv, SavesAlone
    <3> QED
      BY <1>1, <1>2, <3>2
  <2>3. section[p] = "general" => "a" \notin entered'[p]
    BY <1>1, <1>4 DEF InstanceInv, FormsTyped
  <2>4. ASSUME section[p] \in I!Keys \ unsure, NEW f \in I!Fields \ entered'[p]
        PROVE  instanceForm'[p][f] = settings'[p][section[p]][f]
    <3>1. f \notin entered[p] => instanceForm[p][f] = settings[p][section[p]][f]
      BY <2>4 DEF InstanceInv, FormsTyped
    <3>2. CASE section[p] # c.key
      BY <1>4, <2>4, <3>1, <3>2
    <3>3. CASE section[p] = c.key /\ c.key = "storage"
      BY <1>1, <1>4, <2>4, <3>3
    <3>4. ASSUME section[p] = c.key, c.key # "storage", ~(c.key = "general" /\ f = "a")
          PROVE  c.value[f] = settings[p][c.key][f]
      <4>1. f \notin entered[p]
        BY <1>1, <1>4, <2>4, <3>4 DEF I!Keys
      <4>2. CASE c.step = "fetched"
        BY <1>11, <2>4, <3>4, <4>2
      <4>3. CASE c.step = "written"
        <5>1. s = "form" => c.fields \subseteq entered[p]
          BY <4>3 DEF InstanceInv, SavesAlone
        <5>2. s = "profile" => c.fields = {"a"} /\ c.key = "general"
          <6>1. s = "profile" => c # I!NoCall
            BY <1>1, <1>2
          <6> QED
            BY <6>1 DEF InstanceInv, SavesAlone
        <5>3. f \notin c.fields
          BY <1>7, <3>4, <4>1, <4>3, <5>1, <5>2
        <5> QED
          BY <1>10, <2>4, <3>4, <4>3, <5>3
      <4> QED
        BY <1>1, <4>2, <4>3
    <3>5. CASE section[p] = c.key /\ c.key = "memo"
      BY <1>4, <2>4, <3>1, <3>4, <3>5
    <3>6. CASE section[p] = c.key /\ c.key = "general"
      <4>1. CASE f = "a"
        BY <1>1, <1>4, <3>6, <4>1
      <4>2. CASE f = "b"
        BY <1>1, <1>4, <2>4, <3>1, <3>4, <3>6, <4>2
      <4> QED
        BY <4>1, <4>2 DEF I!Fields
    <3> QED
      BY <1>1, <3>2, <3>3, <3>5, <3>6 DEF I!Keys
  <2> QED
    BY <2>2, <2>3, <2>4 DEF FormsTyped
<1> QED
  BY <1>5, <1>6, <1>9, <1>12 DEF InstanceInv, Meant

LEMMA InstanceReadKeeps ==
  ASSUME InstanceInv, NEW p \in Pages, \A q \in Pages : q = p, NEW s \in I!Slots, I!GetSetting(p, s)
  PROVE  InstanceInv'
<1> DEFINE R == [step : {"none", "sent", "written", "asked", "fetched"},
                 key : I!Keys, value : [I!Fields -> Nat], fields : SUBSET I!Fields]
           c == saves[p][s]
           d == [c EXCEPT !.step = "fetched", !.value = instance[c.key]]
<1>0. I!NoCall.step = "none"
  BY DEF I!NoCall
<1>1. c \in R /\ c.step = "asked" /\ c.key \in I!Keys /\ instance[c.key] \in [I!Fields -> Nat]
  BY DEF I!GetSetting, InstanceInv, InstanceTyped
<1>2. d \in R /\ d.step = "fetched" /\ d.key = c.key /\ d.value = instance[c.key] /\ d.fields = c.fields
  BY <1>1
<1>3. saves' = [saves EXCEPT ![p][s] = d]
  BY DEF I!GetSetting
<1>4. UNCHANGED <<instance, settings, section, instanceForm, entered, profile, meant, unsure, edits>>
  BY DEF I!GetSetting
<1> HIDE DEF d
<1>5. /\ saves' \in [Pages -> [I!Slots -> R]]
      /\ \A t \in I!Slots : saves'[p][t] = IF t = s THEN d ELSE saves[p][t]
  BY <1>2, <1>3, CallReplaced DEF InstanceInv
<1>6. InstanceTyped'
  BY <1>4, <1>5 DEF InstanceInv, InstanceTyped
<1>7. SavesAlone'
  <2>1. \A t \in I!Slots : saves'[p][t] # I!NoCall <=> saves[p][t] # I!NoCall
    BY <1>0, <1>1, <1>2, <1>5
  <2>2. \A t \in I!Slots : saves'[p][t].key = saves[p][t].key /\ saves'[p][t].fields = saves[p][t].fields
    BY <1>2, <1>5
  <2>3. \A t \in I!Slots :
           \/ saves'[p][t].step = saves[p][t].step
           \/ t = s /\ saves'[p][t].step = "fetched" /\ saves[p][t].step = "asked"
    <3>1. saves'[p][s].step = "fetched" /\ saves[p][s].step = "asked"
      BY <1>1, <1>2, <1>5
    <3> QED
      BY <1>5, <3>1
  <2>4. s # "profile"
    BY <1>1 DEF InstanceInv, SavesAlone
  <2>5. UNCHANGED section /\ UNCHANGED entered
    BY <1>4
  <2>6. ASSUME NEW t \in I!Slots
        PROVE  /\ saves'[p][t].step = "none" => saves'[p][t] = I!NoCall
               /\ t \in {"form", "profile"} /\ saves'[p][t] # I!NoCall =>
                     /\ saves'[p][t].key = section[p]
                     /\ \A u \in I!Slots \ {t} : saves'[p][u] = I!NoCall
    BY <2>1, <2>2, <2>3 DEF InstanceInv, SavesAlone
  <2>7. ASSUME NEW t \in I!Slots
        PROVE  /\ t \notin {"form", "profile"} => saves'[p][t].step \notin {"sent", "written"}
               /\ t = "profile" => saves'[p][t].step \notin {"asked", "fetched"}
               /\ t = "profile" /\ saves'[p][t] # I!NoCall =>
                     saves'[p][t].key = "general" /\ saves'[p][t].fields = {"a"}
               /\ t = "form" /\ saves'[p][t].step \in {"sent", "written"} => saves'[p][t].fields \subseteq entered[p]
    BY <2>1, <2>2, <2>3, <2>4 DEF InstanceInv, SavesAlone
  <2> QED
    BY <2>5, <2>6, <2>7 DEF SavesAlone
<1>8. PageKnows'
  <2>1. \A k \in I!Keys : Unheard(p, k)' <=> Unheard(p, k)
    BY <1>1, <1>2, <1>5 DEF Unheard
  <2> QED
    BY <1>1, <1>2, <1>4, <1>5, <2>1 DEF InstanceInv, PageKnows
<1>9. FormsTyped'
  <2>1. \A t \in I!Slots : saves'[p][t].step \in {"sent", "written"} => saves'[p][t] = saves[p][t]
    BY <1>2, <1>5
  <2> QED
    BY <1>4, <2>1 DEF InstanceInv, FormsTyped
<1> QED
  BY <1>4, <1>6, <1>7, <1>8, <1>9 DEF InstanceInv, Meant

LEMMA InstanceFailsKeeps ==
  ASSUME InstanceInv, NEW p \in Pages, \A q \in Pages : q = p, NEW s \in I!Slots, I!Fails(p, s)
  PROVE  InstanceInv'
<1> DEFINE R == [step : {"none", "sent", "written", "asked", "fetched"},
                 key : I!Keys, value : [I!Fields -> Nat], fields : SUBSET I!Fields]
           c == saves[p][s]
<1>1. c \in R /\ I!NoCall \in R /\ I!NoCall.step = "none"
  BY DEF I!NoCall, I!Keys, I!Untouched, InstanceInv, InstanceTyped
<1>2. /\ saves' = [saves EXCEPT ![p][s] = I!NoCall]
      /\ UNCHANGED <<instance, settings, section, instanceForm, entered, profile, meant, edits>>
      /\ unsure \subseteq unsure' /\ (c.step = "written" => c.key \in unsure')
  BY DEF I!Fails
<1>3. /\ saves' \in [Pages -> [I!Slots -> R]]
      /\ \A t \in I!Slots : saves'[p][t] = IF t = s THEN I!NoCall ELSE saves[p][t]
  BY <1>1, <1>2, CallReplaced DEF InstanceInv
<1>4. InstanceTyped'
  BY <1>2, <1>3 DEF InstanceInv, InstanceTyped
<1>5. SavesAlone'
  BY <1>1, <1>2, <1>3 DEF InstanceInv, SavesAlone
<1>6. PageKnows'
  <2>1. \A k \in I!Keys \ unsure' : Unheard(p, k) => Unheard(p, k)'
    BY <1>2, <1>3 DEF Unheard
  <2> QED
    BY <1>1, <1>2, <1>3, <2>1 DEF InstanceInv, PageKnows
<1>7. FormsTyped'
  BY <1>1, <1>2, <1>3 DEF InstanceInv, FormsTyped
<1> QED
  BY <1>2, <1>4, <1>5, <1>6, <1>7 DEF InstanceInv, Meant

LEMMA InstanceKept ==
  ASSUME InstanceInv, [I!Next]_inst, Overlap = FALSE, \A p, q \in Pages : p = q
  PROVE  InstanceInv'
<1>1. CASE UNCHANGED inst
  BY <1>1 DEF inst, InstanceInv, InstanceTyped, SavesAlone, PageKnows, Unheard, FormsTyped, Meant
<1>2. ASSUME NEW p \in Pages, NEW s \in I!Slots, I!Saved(p, s) \/ I!Fetched(p, s)
      PROVE  InstanceInv'
  <2>1. saves[p][s].step \in {"written", "fetched"} /\ I!Shows(p, saves[p][s].key, saves[p][s].value)
    BY <1>2 DEF I!Saved, I!Fetched
  <2>2. UNCHANGED <<instance, section, profile, meant, unsure, edits>>
    BY <1>2 DEF I!Saved, I!Fetched
  <2>3. PICK d : /\ d = I!NoCall \/ (s = "form" /\ d = I!Fetching(saves[p][s].key))
                 /\ saves' = [saves EXCEPT ![p][s] = d]
    BY <1>2 DEF I!Saved, I!Fetched
  <2> QED
    BY <2>1, <2>2, <2>3, InstanceShownKeeps
<1>3. CASE I!Next
  BY <1>2, <1>3, SectionKeeps, FormTypedKeeps, ProfileTypedKeeps, InstanceSaveKeeps, ProfileSaveKeeps, InstanceWriteKeeps,
     InstanceReadKeeps, InstanceFailsKeeps
  DEF I!Next
<1> QED
  BY <1>1, <1>3 DEF I!vars, inst

LEMMA InstanceShows ==
  ASSUME InstanceInv
  PROVE  I!SavesChangeWhatWasTyped
<1>1. \A p \in Pages, k \in I!Keys : I!Quiet(p) => ~Unheard(p, k)
  BY DEF I!Quiet, I!NoCall, Unheard
<1> QED
  BY <1>1 DEF InstanceInv, PageKnows, Meant, I!SavesChangeWhatWasTyped

SavesInv == InstanceInv /\ AccountInv /\ FocusInv

(* What is saved is what was typed: a save of the instance's settings       *)
(* changes the fields that were typed, a change of the account has only     *)
(* fields that were touched, a password has been typed twice, and leaving   *)
(* focus mode or saving from it loses nothing of what a user who waits has  *)
(* typed. For one page of the settings whose user waits for the answer to a *)
(* save (InstanceSection.tsx and the other sections send whole settings).   *)
THEOREM SavesAlwaysChangeWhatWasTyped ==
  ASSUME Overlap = FALSE, \A p, q \in Pages : p = q
  PROVE  PagesSpec => []SavesChangeWhatWasTyped
<1>1. PagesInit => SavesInv
  BY InstanceStarts, AccountStarts, FocusStarts DEF PagesInit, SavesInv
<1>2. SavesInv /\ [PagesNext]_allVars => SavesInv'
  BY StepsOfParts, InstanceKept, AccountKept, FocusKept DEF SavesInv
<1>3. SavesInv => SavesChangeWhatWasTyped
  BY InstanceShows, AccountShows, FocusShows DEF SavesInv, SavesChangeWhatWasTyped
<1> QED
  BY <1>1, <1>2, <1>3, PTL DEF PagesSpec
-------------------------------------------------------------------------------
(* The preferences of the editor. But for a page in which a component was   *)
(* mounted early, the font of a page is that of all its components, also    *)
(* while an event is on its way; when there is none, they have what is      *)
(* stored.                                                                  *)
ChoiceTyped ==
    /\ mounted \in [Windows -> SUBSET Hooks] /\ DOMAIN has = Windows /\ DOMAIN font = Windows
    /\ \A w \in Windows : DOMAIN has[w] = Hooks
    /\ refused \in Nat

CopiesFollow ==
    refused = 0 => \A w \in Windows : \A h \in mounted[w] :
        /\ w \notin told => has[w][h] = C!Read
        /\ w \notin early => has[w][h].font = font[w]

ChoiceInv == ChoiceTyped /\ CopiesFollow

LEMMA ChoicesStart ==
  ASSUME C!Init
  PROVE  ChoiceInv
BY DEF C!Init, ChoiceInv, ChoiceTyped, CopiesFollow

(* What is stored changes for the pages that are told.                     *)
LEMMA StoredTells ==
  ASSUME NEW w \in Windows, NEW item, C!Stored(w, item)
  PROVE  /\ told \subseteq told'
         /\ \A v \in Windows \ {w} : v \notin told' => C!Read' = C!Read
BY DEF C!Stored, C!Read

LEMMA ChoicesTaken ==
  ASSUME ChoiceInv, NEW w \in Windows, NEW h \in mounted[w], NEW p, C!Update(w, h, p)
  PROVE  ChoiceInv'
<1>1. UNCHANGED <<mounted, early>> /\ (refused' = refused \/ refused' = refused + 1)
  BY DEF C!Update
<1>2. /\ DOMAIN has' = Windows /\ \A v \in Windows \ {w} : has'[v] = has[v]
      /\ \A g \in mounted[w] : has'[w][g] = p /\ g \in Hooks
      /\ DOMAIN has'[w] = Hooks
  BY DEF C!Update, C!Taken, ChoiceInv, ChoiceTyped
<1>3. /\ DOMAIN font' = Windows /\ \A v \in Windows \ {w} : font'[v] = font[v]
      /\ font'[w] = IF \E g \in mounted[w] : has[w][g].font # p.font THEN p.font ELSE font[w]
  BY DEF C!Update, C!Taken, ChoiceInv, ChoiceTyped
<1>4. ChoiceTyped'
  BY <1>1, <1>2, <1>3 DEF ChoiceInv, ChoiceTyped
<1>5. CopiesFollow'
  <2> SUFFICES ASSUME refused' = 0, NEW v \in Windows, NEW g \in mounted[v]
               PROVE  /\ v \notin told' => has'[v][g] = C!Read'
                      /\ v \notin early => has'[v][g].font = font'[v]
    BY <1>1 DEF CopiesFollow
  <2>1. refused = 0 /\ C!Stored(w, <<p>>)
    BY <1>1 DEF C!Update, ChoiceInv, ChoiceTyped
  <2>2. C!Read' = p
    BY <2>1 DEF C!Stored, C!Read
  <2>3. CASE v = w
    <3>1. has'[v][g] = p
      BY <1>2, <2>3
    <3>2. v \notin early => p.font = font'[v]
      BY <1>3, <2>1, <2>3 DEF ChoiceInv, CopiesFollow
    <3> QED
      BY <2>2, <3>1, <3>2
  <2>4. CASE v # w
    <3>1. has'[v] = has[v] /\ font'[v] = font[v]
      BY <1>2, <1>3, <2>4
    <3>2. v \notin told' => v \notin told /\ C!Read' = C!Read
      BY <2>1, <2>4, StoredTells
    <3> QED
      BY <2>1, <3>1, <3>2 DEF ChoiceInv, CopiesFollow
  <2> QED
    BY <2>3, <2>4
<1> QED
  BY <1>4, <1>5 DEF ChoiceInv

LEMMA ChoicesKept ==
  ASSUME ChoiceInv, [C!Next]_choices
  PROVE  ChoiceInv'
<1>1. ASSUME NEW w \in Windows, C!StorageEvent(w)
      PROVE  ChoiceInv'
  <2>1. UNCHANGED <<stored, mounted, early, refused>> /\ told' = told \ {w} /\ C!Read' = C!Read
    BY <1>1 DEF C!StorageEvent, C!Read
  <2>2. /\ DOMAIN has' = Windows /\ \A v \in Windows \ {w} : has'[v] = has[v]
        /\ \A g \in mounted[w] : has'[w][g] = C!Read /\ g \in Hooks
        /\ DOMAIN has'[w] = Hooks
    BY <1>1 DEF C!StorageEvent, ChoiceInv, ChoiceTyped
  <2>3. /\ DOMAIN font' = Windows /\ \A v \in Windows \ {w} : font'[v] = font[v]
        /\ font'[w] = IF \E g \in mounted[w] : has[w][g].font # C!Read.font THEN C!Read.font ELSE font[w]
    BY <1>1 DEF C!StorageEvent, ChoiceInv, ChoiceTyped
  <2>4. ChoiceTyped'
    BY <2>1, <2>2, <2>3 DEF ChoiceInv, ChoiceTyped
  <2>5. refused = 0 => \A g \in mounted[w] : w \notin early => C!Read.font = font'[w]
    BY <1>1, <2>3 DEF ChoiceInv, CopiesFollow
  <2>6. CopiesFollow'
    BY <2>1, <2>2, <2>3, <2>5 DEF ChoiceInv, CopiesFollow
  <2> QED
    BY <2>4, <2>6 DEF ChoiceInv
<1>2. ASSUME NEW w \in Windows, C!SignOut(w)
      PROVE  ChoiceInv'
  <2>1. /\ mounted' = [mounted EXCEPT ![w] = {}] /\ font' = [font EXCEPT ![w] = ""]
        /\ UNCHANGED <<has, early, refused>> /\ C!Stored(w, <<>>)
    BY <1>2 DEF C!SignOut
  <2>2. ChoiceTyped'
    BY <2>1 DEF ChoiceInv, ChoiceTyped
  <2>3. CopiesFollow'
    BY <2>1, StoredTells DEF ChoiceInv, ChoiceTyped, CopiesFollow
  <2> QED
    BY <2>2, <2>3 DEF ChoiceInv
<1>3. ASSUME NEW w \in Windows, NEW h \in Hooks, C!Mount(w, h)
      PROVE  ChoiceInv'
  <2>1. /\ mounted' = [mounted EXCEPT ![w] = @ \cup {h}] /\ font' = [font EXCEPT ![w] = C!Read.font]
        /\ UNCHANGED <<stored, told, refused>> /\ C!Read' = C!Read
        /\ early' = early \cup ({w} \cap told)
    BY <1>3 DEF C!Mount, C!Read
  <2>2. /\ DOMAIN has' = Windows /\ \A v \in Windows \ {w} : has'[v] = has[v]
        /\ has'[w] = [has[w] EXCEPT ![h] = C!Read]
    BY <1>3 DEF C!Mount, ChoiceInv, ChoiceTyped
  <2>3. ChoiceTyped'
    BY <2>1, <2>2 DEF ChoiceInv, ChoiceTyped
  <2>4. CopiesFollow'
    BY <2>1, <2>2 DEF ChoiceInv, ChoiceTyped, CopiesFollow
  <2> QED
    BY <2>3, <2>4 DEF ChoiceInv
<1>4. ASSUME NEW w \in Windows, NEW h \in Hooks, C!Unmount(w, h)
      PROVE  ChoiceInv'
  BY <1>4 DEF C!Unmount, C!Read, ChoiceInv, ChoiceTyped, CopiesFollow
<1>5. ASSUME NEW w \in Windows, NEW h \in Hooks, C!Change(w, h)
      PROVE  ChoiceInv'
  <2>1. PICK p : C!Update(w, h, p)
    BY <1>5 DEF C!Change
  <2> QED
    BY <2>1, ChoicesTaken DEF C!Update
<1>6. CASE UNCHANGED choices
  BY <1>6 DEF choices, C!Read, ChoiceInv, ChoiceTyped, CopiesFollow
<1> QED
  BY <1>1, <1>2, <1>3, <1>4, <1>5, <1>6 DEF C!Next, C!vars, choices

LEMMA ChoicesShow ==
  ASSUME ChoiceInv
  PROVE  C!CopiesAgree
BY DEF ChoiceInv, ChoiceTyped, CopiesFollow, C!CopiesAgree
-------------------------------------------------------------------------------
(* The filters. Both refs have the filters of the last render, which are     *)
(* those of the address, or of the address last rendered. What the user has *)
(* asked for is queued in the first case, and in the address in the second. *)
FilterInv ==
    /\ lastUrl = filters /\ lastStore = filters
    /\ filters \in {bar.query, seen.query}
    /\ DOMAIN bar = {"path", "query"} /\ bar = [path |-> bar.path, query |-> bar.query]
    /\ wanted \subseteq {IF filters = bar.query THEN queued ELSE bar.query}
    /\ wanted # {} /\ (filters # bar.query \/ seen.path # bar.path) => queued = filters

LEMMA FiltersStart ==
  ASSUME F!Init
  PROVE  FilterInv
BY DEF F!Init, FilterInv

LEMMA FiltersRendered ==
  ASSUME FilterInv, NEW address, address \in {seen, bar}, F!Rendered(address)
  PROVE  FilterInv'
<1> DEFINE before == [queued |-> queued, url |-> lastUrl, store |-> lastStore, bar |-> bar]
           routed == F!RouteEffect(before, address.path, address.query)
           informed  == IF address.query # seen.query THEN F!AddressEffect(routed, address.query) ELSE routed
           after  == F!StoreEffect(informed, queued)
<1>1. /\ seen' = address /\ filters' = queued /\ wanted' = wanted
      /\ queued' = after.queued /\ lastUrl' = after.url /\ lastStore' = after.store /\ bar' = after.bar
  BY DEF F!Rendered
<1>2. /\ routed.url = filters /\ routed.store = filters /\ routed.bar = bar
      /\ routed.queued = IF address.path # seen.path /\ address.query = <<>> THEN <<>> ELSE queued
      /\ DOMAIN routed = {"queued", "url", "store", "bar"}
  BY DEF F!RouteEffect, FilterInv
<1> HIDE DEF routed
<1>3. CASE address.query = seen.query \/ address.query = filters
  <2>1. informed.url = filters /\ informed.store = filters /\ informed.bar = bar /\ informed.queued = routed.queued
        /\ DOMAIN informed = {"queued", "url", "store", "bar"}
    BY <1>2, <1>3 DEF F!AddressEffect
  <2> HIDE DEF informed
  <2>2. CASE queued = filters
    <3>1. after = informed
      BY <2>1, <2>2 DEF F!StoreEffect
    <3> QED
      BY <1>1, <1>2, <1>3, <2>1, <2>2, <3>1 DEF FilterInv
  <2>3. CASE queued # filters
    <3>1. after = [informed EXCEPT !.store = queued, !.bar = [bar EXCEPT !.query = queued], !.url = queued]
      BY <2>1, <2>3 DEF F!StoreEffect
    <3>2. after.queued = routed.queued /\ after.store = queued /\ after.url = queued
          /\ after.bar = [bar EXCEPT !.query = queued]
      BY <2>1, <3>1
    <3> QED
      BY <1>1, <1>2, <1>3, <2>3, <3>2 DEF FilterInv
  <2> QED
    BY <2>2, <2>3
<1>4. CASE address.query # seen.query /\ address.query # filters
  <2> DEFINE q == address.query
  <2>1. informed.url = q /\ informed.store = q /\ informed.bar = bar /\ informed.queued = q
        /\ DOMAIN informed = {"queued", "url", "store", "bar"}
    BY <1>2, <1>4 DEF F!AddressEffect
  <2> HIDE DEF informed
  <2>2. address = bar /\ filters = seen.query
    BY <1>4 DEF FilterInv
  <2>3. CASE queued = q
    <3>1. after = informed
      BY <2>1, <2>3 DEF F!StoreEffect
    <3> QED
      BY <1>1, <1>2, <1>4, <2>1, <2>2, <2>3, <3>1 DEF FilterInv
  <2>4. CASE queued # q
    <3>1. after = [informed EXCEPT !.store = queued, !.bar = [bar EXCEPT !.query = queued], !.url = queued]
      BY <2>1, <2>4 DEF F!StoreEffect
    <3>2. after.queued = q /\ after.store = queued /\ after.url = queued
          /\ after.bar = [bar EXCEPT !.query = queued]
      BY <2>1, <3>1
    <3> QED
      BY <1>1, <1>2, <1>4, <2>2, <2>4, <3>2 DEF FilterInv
  <2> QED
    BY <2>3, <2>4
<1> QED
  BY <1>3, <1>4

LEMMA FiltersUpdated ==
  ASSUME FilterInv, NEW q, F!Update(q)
  PROVE  FilterInv'
BY DEF F!Update, F!Wants, F!Quiet, FilterInv

LEMMA FiltersNavigated ==
  ASSUME FilterInv, NEW p, NEW q, F!GoTo([path |-> p, query |-> q], q)
  PROVE  FilterInv'
BY DEF F!GoTo, F!Wants, F!Quiet, FilterInv

LEMMA FiltersKept ==
  ASSUME FilterInv, [F!Next]_filter
  PROVE  FilterInv'
<1>1. CASE F!RenderFilters
  BY <1>1, FiltersRendered DEF F!RenderFilters
<1>2. CASE F!RenderAddress
  BY <1>2, FiltersRendered DEF F!RenderAddress
<1>3. ASSUME NEW t \in Tags, F!ClickTag(t)
      PROVE  FilterInv'
  BY <1>3, FiltersUpdated DEF F!ClickTag
<1>4. ASSUME NEW t \in Tags, NEW p \in Paths, F!ClickTagOfMemo(t, p)
      PROVE  FilterInv'
  BY <1>4, FiltersNavigated DEF F!ClickTagOfMemo
<1>5. ASSUME NEW w \in Words, F!Search(w)
      PROVE  FilterInv'
  BY <1>5, FiltersUpdated DEF F!Search
<1>6. ASSUME NEW f \in F!Filter, F!RemoveChip(f)
      PROVE  FilterInv'
  BY <1>6, FiltersUpdated DEF F!RemoveChip
<1>7. ASSUME NEW d \in Dates, F!ClickDate(d)
      PROVE  FilterInv'
  BY <1>7, FiltersNavigated DEF F!ClickDate
<1>8. ASSUME NEW p \in Paths \cup DetailPaths, NEW q, F!Go(p, q)
      PROVE  FilterInv'
  BY <1>8, FiltersNavigated DEF F!Go
<1>9. ASSUME NEW s \in Shortcuts, F!ClickShortcut(s) \/ F!LoseShortcut(s)
      PROVE  FilterInv'
  BY <1>9 DEF F!ClickShortcut, F!LoseShortcut, FilterInv
<1>10. CASE UNCHANGED filter
  BY <1>10 DEF filter, FilterInv
<1> QED
  BY <1>1, <1>2, <1>3, <1>4, <1>5, <1>6, <1>7, <1>8, <1>9, <1>10 DEF F!Next, F!vars, filter

LEMMA FiltersShow ==
  ASSUME FilterInv
  PROVE  F!FiltersSettle
BY DEF FilterInv, F!FiltersSettle, F!Quiet, F!Conditions

-------------------------------------------------------------------------------
(* The name of a place. The effect of the name has seen that of the         *)
(* position of the debounce, once it is in the cache, and the dialog shows   *)
(* it from then on, if any of a place.                                      *)
NamesInv ==
    /\ ~waiting => debounced = position
    /\ debounced \in names \cup asking \cup {G!None}
    /\ G!None \notin names \cup asking
    /\ displayName = IF debounced \in names THEN debounced ELSE G!None
    /\ displayName # G!None => placeholder \in {displayName, G!Typed, G!None}

LEMMA NamesStart ==
  ASSUME G!Init
  PROVE  NamesInv
BY DEF G!Init, NamesInv

LEMMA NamesKept ==
  ASSUME NamesInv, [G!Next]_location
  PROVE  NamesInv'
<1> USE DEF NamesInv
<1>1. CASE G!Debounce
  BY <1>1 DEF G!Debounce, G!NamedAs
<1>2. ASSUME NEW p \in G!Positions, G!Found(p)
      PROVE  NamesInv'
  BY <1>2 DEF G!Found, G!NamedAs
<1>3. ASSUME NEW p \in G!Positions, G!Tap(p) \/ G!Located(p)
      PROVE  NamesInv'
  BY <1>3 DEF G!Tap, G!Located, G!Positioned, G!Moved
<1>4. ASSUME NEW k, NEW given, G!TypeCoordinate(k, given)
      PROVE  NamesInv'
  BY <1>4 DEF G!TypeCoordinate, G!Moved
<1>5. CASE G!Open \/ G!NotLocated \/ G!TypeName
  BY <1>5 DEF G!Open, G!NotLocated, G!TypeName
<1>6. CASE G!Confirm \/ G!Cancel \/ G!Dismiss \/ G!Remove
  BY <1>6 DEF G!Confirm, G!Cancel, G!Dismiss, G!Remove, G!Moved
<1>7. CASE UNCHANGED location
  BY <1>7 DEF location
<1> QED
  BY <1>1, <1>2, <1>3, <1>4, <1>5, <1>6, <1>7 DEF G!Next, G!vars, location

LEMMA NamesShow ==
  ASSUME NamesInv
  PROVE  G!NamesSettle
BY DEF NamesInv, G!NamesSettle
-------------------------------------------------------------------------------
(* The status bar. Runs take turns, so that of two the older one is at a    *)
(* later call, or at the same and before the other: the run that has found  *)
(* the last theme is behind all others, and no other undoes what it has set.*)
ShellTyped ==
    /\ calls \in Seq(B!Call) /\ failures \in Nat /\ theme \in Themes
    /\ phase \in {"importing", "first", "observing"}
    /\ phase = "importing" => calls = <<>>

Newest(n) ==
    /\ calls[n].theme = found
    /\ \A i \in 1..Len(calls) :
          /\ i < n => calls[i].step >= calls[n].step
          /\ i > n => calls[i].step > calls[n].step
    /\ calls[n].step > 2 => style = B!StyleOf(found)
    /\ calls[n].step > 3 => color = found

ShellInv ==
    /\ ShellTyped
    /\ failures = 0 /\ calls # <<>> => \E n \in 1..Len(calls) : Newest(n)
    /\ failures = 0 /\ calls = <<>> /\ phase # "importing" =>
          fill = found /\ color = found /\ style = B!StyleOf(found)

LEMMA ShellStarts ==
  ASSUME B!Init
  PROVE  ShellInv
BY DEF B!Init, ShellInv, ShellTyped

LEMMA StepsOfCalls ==
  ASSUME calls \in Seq(B!Call)
  PROVE  /\ \A i \in 1..Len(calls) : calls[i] \in B!Call
         /\ \A i \in 1..Len(calls) : calls[i].step \in 1..4
<1>1. \A c \in B!Call : c.step \in 1..4
  BY DEF B!Call
<1>2. \A i \in 1..Len(calls) : calls[i] \in B!Call
  OBVIOUS
<1> QED
  BY <1>1, <1>2

LEMMA ShellBegun ==
  ASSUME ShellInv, NEW t \in Themes, B!Begun(t), UNCHANGED <<style, color, fill, failures>>,
         phase' \in {"first", "observing"}, theme' \in Themes
  PROVE  ShellInv'
<1> DEFINE new == [step |-> 1, theme |-> t]
<1>1. calls \in Seq(B!Call) /\ new \in B!Call /\ new.step = 1 /\ new.theme = t
  BY DEF ShellInv, ShellTyped, B!Call
<1>2. calls' = Append(calls, new) /\ found' = t
  BY DEF B!Begun
<1> HIDE DEF new
<1>3. /\ calls' \in Seq(B!Call) /\ Len(calls') = Len(calls) + 1 /\ calls' # <<>>
      /\ \A i \in 1..Len(calls) : calls'[i] = calls[i]
      /\ calls'[Len(calls) + 1] = new
  BY <1>1, <1>2
<1>4. \A i \in 1..Len(calls) : calls[i].step \in 1..4
  BY <1>1, StepsOfCalls
<1>5. PICK m \in Nat : m = Len(calls) + 1
  BY <1>1
<1>6. Newest(m)'
  <2>1. Len(calls) \in Nat
    BY <1>1
  <2>2. \A i \in 1..Len(calls') : i < Len(calls) + 1 => calls'[i].step >= 1
    BY <1>3, <1>4, <2>1
  <2> QED
    BY <1>1, <1>2, <1>3, <1>5, <2>1, <2>2 DEF Newest
<1>7. m \in 1..Len(calls')
  BY <1>1, <1>3, <1>5
<1> QED
  BY <1>3, <1>6, <1>7 DEF ShellInv, ShellTyped

LEMMA ShellAnswered ==
  ASSUME ShellInv, B!Answered
  PROVE  ShellInv'
<1>1. PICK c : c = Head(calls)
  OBVIOUS
<1>2. /\ calls # <<>> /\ calls \in Seq(B!Call)
      /\ style' = IF c.step = 2 THEN B!StyleOf(c.theme) ELSE style
      /\ color' = IF c.step = 3 THEN c.theme ELSE color
      /\ UNCHANGED <<found, failures, theme>> /\ theme \in Themes
      /\ failures \in Nat /\ phase # "importing"
  BY <1>1 DEF B!Answered, ShellInv, ShellTyped
<1>3. /\ c \in B!Call /\ c = calls[1] /\ Len(calls) \in Nat \ {0}
      /\ Tail(calls) \in Seq(B!Call) /\ Len(Tail(calls)) = Len(calls) - 1
      /\ \A i \in 1..(Len(calls) - 1) : Tail(calls)[i] = calls[i + 1]
  BY <1>1, <1>2
<1>4. c.step \in 1..4 /\ c.theme \in Themes /\ \A i \in 1..Len(calls) : calls[i].step \in 1..4
  BY <1>2, <1>3, StepsOfCalls DEF B!Call
<1>5. CASE c.step = 4
  <2>1. calls' = Tail(calls) /\ fill' = c.theme /\ phase' = "observing"
    BY <1>1, <1>5 DEF B!Answered, B!Ends
  <2>2. ShellTyped'
    BY <1>2, <1>3, <2>1 DEF ShellTyped
  <2> SUFFICES ASSUME failures = 0
               PROVE  /\ calls' # <<>> => \E n \in 1..Len(calls') : Newest(n)'
                      /\ calls' = <<>> => fill' = found /\ color' = found /\ style' = B!StyleOf(found)
    BY <1>2, <2>1, <2>2 DEF ShellInv
  <2>3. PICK n \in 1..Len(calls) : Newest(n)
    BY <1>2 DEF ShellInv
  <2>4. CASE n = 1
    <3>1. \A i \in 1..Len(calls) : i > 1 => calls[i].step > 4
      BY <1>3, <1>5, <2>3, <2>4 DEF Newest
    <3>2. Len(calls) = 1
      <4>1. 2 \in 1..Len(calls) => FALSE
        BY <1>4, <3>1
      <4> QED
        BY <1>3, <4>1
    <3>3. calls' = <<>>
      BY <1>3, <2>1, <3>2
    <3>4. c.theme = found /\ color = found /\ style = B!StyleOf(found)
      BY <1>3, <1>5, <2>3, <2>4 DEF Newest
    <3> QED
      BY <1>2, <1>5, <2>1, <3>3, <3>4
  <2>5. CASE n # 1
    <3>0. n - 1 \in 1..(Len(calls) - 1) /\ (n - 1) + 1 = n
      BY <1>3, <2>3, <2>5
    <3>1. n - 1 \in 1..Len(calls') /\ calls'[n - 1] = calls[n] /\ calls' # <<>>
      <4>1. Len(calls') = Len(calls) - 1 /\ calls' = Tail(calls)
        BY <1>3, <2>1
      <4>2. Tail(calls)[n - 1] = calls[(n - 1) + 1]
        BY <1>3, <3>0
      <4> QED
        BY <3>0, <4>1, <4>2
    <3>2. \A i \in 1..Len(calls') : calls'[i] = calls[i + 1] /\ i + 1 \in 1..Len(calls)
      BY <1>3, <2>1
    <3>3. Newest(n - 1)'
      <4>1. UNCHANGED <<style, color, found>>
        BY <1>2, <1>5
      <4>2. \A i \in 1..Len(calls') : /\ i < n - 1 => calls'[i].step >= calls[n].step
                                      /\ i > n - 1 => calls'[i].step > calls[n].step
        BY <1>3, <2>3, <3>2 DEF Newest
      <4> QED
        BY <2>3, <3>1, <4>1, <4>2 DEF Newest
    <3> QED
      BY <3>1, <3>3
  <2> QED
    BY <2>4, <2>5
<1>6. CASE c.step # 4
  <2> DEFINE d == [c EXCEPT !.step = @ + 1]
  <2>1. calls' = Append(Tail(calls), d) /\ UNCHANGED <<fill, phase>>
    BY <1>1, <1>6 DEF B!Answered
  <2>2. d \in B!Call /\ d.step = c.step + 1 /\ d.theme = c.theme
    BY <1>3, <1>4, <1>6 DEF B!Call
  <2> HIDE DEF d
  <2>3. /\ calls' \in Seq(B!Call) /\ Len(calls') = Len(calls) /\ calls' # <<>>
        /\ \A i \in 1..(Len(calls) - 1) : calls'[i] = calls[i + 1] /\ i + 1 \in 1..Len(calls)
        /\ calls'[Len(calls)] = d
    BY <1>3, <2>1, <2>2
  <2>4. ShellTyped'
    BY <1>2, <2>1, <2>3 DEF ShellInv, ShellTyped
  <2> SUFFICES ASSUME failures = 0
               PROVE  \E n \in 1..Len(calls') : Newest(n)'
    BY <1>2, <2>3, <2>4 DEF ShellInv
  <2>5. PICK n \in 1..Len(calls) : Newest(n)
    BY <1>2 DEF ShellInv
  <2>6. CASE n = 1
    <3>1. c.theme = found
      BY <1>3, <2>5, <2>6 DEF Newest
    <3>2. \A i \in 1..(Len(calls) - 1) : calls'[i].step > c.step
      BY <1>3, <2>3, <2>5, <2>6 DEF Newest
    <3>3. \A i \in 1..(Len(calls) - 1) : calls'[i].step >= d.step
      <4>1. \A i \in 1..(Len(calls) - 1) : calls'[i].step \in 1..4
        BY <1>4, <2>3
      <4> QED
        BY <1>4, <2>2, <3>2, <4>1
    <3>4. d.step > 2 => style' = B!StyleOf(found)
      BY <1>2, <1>3, <1>4, <2>2, <2>5, <2>6, <3>1 DEF Newest
    <3>5. d.step > 3 => color' = found
      BY <1>2, <1>3, <1>4, <2>2, <2>5, <2>6, <3>1 DEF Newest
    <3>6. Newest(Len(calls))'
      BY <1>2, <1>3, <2>2, <2>3, <3>1, <3>3, <3>4, <3>5 DEF Newest
    <3> QED
      BY <1>3, <2>3, <3>6
  <2>7. CASE n # 1
    <3>1. n - 1 \in 1..(Len(calls) - 1) /\ calls'[n - 1] = calls[n]
      BY <1>3, <2>3, <2>5, <2>7
    <3>2. c.step >= calls[n].step
      BY <1>3, <2>5, <2>7 DEF Newest
    <3>3. calls[n].step > 2 => style' = B!StyleOf(found)
      BY <1>2, <1>4, <2>5, <3>2 DEF Newest
    <3>4. calls[n].step > 3 => color' = found
      BY <1>2, <1>4, <2>5, <3>2 DEF Newest
    <3>5. \A i \in 1..Len(calls) : /\ i < n - 1 => calls'[i].step >= calls[n].step
                                   /\ i > n - 1 => calls'[i].step > calls[n].step
      <4> TAKE i \in 1..Len(calls)
      <4>1. CASE i = Len(calls)
        BY <1>3, <1>4, <2>2, <2>3, <3>1, <3>2, <4>1
      <4>2. CASE i # Len(calls)
        <5>1. i \in 1..(Len(calls) - 1) /\ calls'[i] = calls[i + 1] /\ i + 1 \in 1..Len(calls)
          BY <1>3, <2>3, <4>2
        <5> QED
          BY <2>5, <5>1 DEF Newest
      <4> QED
        BY <4>1, <4>2
    <3>6. Newest(n - 1)'
      BY <1>2, <2>3, <2>5, <3>1, <3>3, <3>4, <3>5 DEF Newest
    <3> QED
      BY <1>3, <2>3, <3>1, <3>6
  <2> QED
    BY <2>6, <2>7
<1> QED
  BY <1>5, <1>6

LEMMA ShellKept ==
  ASSUME ShellInv, [B!Next]_shell
  PROVE  ShellInv'
<1>1. CASE B!FirstRun
  BY <1>1, ShellBegun DEF B!FirstRun, ShellInv, ShellTyped
<1>2. ASSUME NEW t \in Themes, B!LoadTheme(t)
      PROVE  ShellInv'
  <2>1. CASE phase = "observing"
    BY <1>2, <2>1, ShellBegun DEF B!LoadTheme
  <2>2. CASE phase # "observing"
    BY <1>2, <2>2 DEF B!LoadTheme, ShellInv, ShellTyped, Newest
  <2> QED
    BY <2>1, <2>2
<1>3. CASE B!Failed
  <2>1. failures' \in Nat /\ failures' # 0 /\ phase' = "observing" /\ theme' \in Themes
    BY <1>3 DEF B!Failed, B!Ends, ShellInv, ShellTyped
  <2>2. calls' \in Seq(B!Call)
    BY <1>3 DEF B!Failed, B!Ends, ShellInv, ShellTyped
  <2> QED
    BY <2>1, <2>2 DEF ShellInv, ShellTyped
<1>4. CASE UNCHANGED shell
  BY <1>4 DEF shell, ShellInv, ShellTyped, Newest
<1> QED
  BY <1>1, <1>2, <1>3, <1>4, ShellAnswered DEF B!Next, B!vars, shell

LEMMA ShellShows ==
  ASSUME ShellInv
  PROVE  B!BarFollows
BY DEF ShellInv, B!BarFollows
-------------------------------------------------------------------------------
(* Induction over what is laid out. A set of naturals that is not empty has *)
(* a least element ...                                                      *)
LEMMA LeastExists ==
  ASSUME NEW Z \in SUBSET Nat, Z # {}
  PROVE  \E x \in Z : \A y \in Z : x <= y
<1> DEFINE R == OpToRel(<, Nat)
<1>1. PICK x \in Z : \A y \in Z : ~(<<y, x>> \in R)
  <2> HIDE DEF R
  <2>1. IsWellFoundedOn(R, Nat)
    BY NatLessThanWellFounded DEF R
  <2> QED
    BY <2>1, WFMin
<1>2. \A y \in Z : ~(y < x)
  BY <1>1 DEF OpToRel
<1> QED
  BY <1>2

(* ... so that what holds of 0 and goes on to the next number holds of all. *)
LEMMA UpTo ==
  ASSUME NEW n \in Nat, NEW Good \in SUBSET (0..n), 0 \in Good,
         \A i \in 1..n : i - 1 \in Good => i \in Good
  PROVE  Good = 0..n
<1> SUFFICES ASSUME (0..n) \ Good # {} PROVE FALSE
  OBVIOUS
<1>1. (0..n) \ Good \in SUBSET Nat
  OBVIOUS
<1>2. PICK i \in (0..n) \ Good : \A j \in (0..n) \ Good : i <= j
  BY <1>1, LeastExists
<1>3. i \in 1..n /\ i - 1 \in 0..n /\ i - 1 < i
  BY <1>2
<1> QED
  BY <1>2, <1>3

(* A function whose values are each made of the one before exists ...       *)
Follows(f, base, step, n) == f[0] = base /\ \A i \in 1..n : f[i] = step[i][f[i - 1]]

LEMMA RecursionExists ==
  ASSUME NEW V, NEW base \in V, NEW n \in Nat, NEW step \in [1..n -> [V -> V]]
  PROVE  \E f \in [0..n -> V] : Follows(f, base, step, n)
<1> DEFINE Good == {m \in 0..n : \E f \in [0..m -> V] : Follows(f, base, step, m)}
<1>1. 0 \in Good
  <2>1. [i \in 0..0 |-> base] \in [0..0 -> V] /\ Follows([i \in 0..0 |-> base], base, step, 0)
    BY DEF Follows
  <2> QED
    BY <2>1
<1>2. ASSUME NEW m \in 1..n, m - 1 \in Good
      PROVE  m \in Good
  <2>1. PICK f \in [0..(m - 1) -> V] : Follows(f, base, step, m - 1)
    BY <1>2
  <2> DEFINE g == [i \in 0..m |-> IF i = m THEN step[m][f[m - 1]] ELSE f[i]]
  <2>2. g \in [0..m -> V]
    BY <1>2
  <2>3. Follows(g, base, step, m)
    <3>1. g[0] = base
      BY <1>2, <2>1 DEF Follows
    <3>2. ASSUME NEW i \in 1..m PROVE g[i] = step[i][g[i - 1]]
      <4>1. g[i - 1] = f[i - 1]
        BY <3>2
      <4>2. CASE i = m
        BY <4>1, <4>2
      <4>3. CASE i # m
        <5>1. i \in 1..(m - 1)
          BY <4>3
        <5>2. f[i] = step[i][f[i - 1]]
          BY <2>1, <5>1 DEF Follows
        <5> QED
          BY <4>1, <4>3, <5>2
      <4> QED
        BY <4>2, <4>3
    <3> QED
      BY <3>1, <3>2 DEF Follows
  <2> QED
    BY <2>2, <2>3
<1>3. Good = 0..n
  <2>1. Good \in SUBSET (0..n)
    OBVIOUS
  <2> HIDE DEF Good
  <2> QED
    BY <1>1, <1>2, <2>1, UpTo
<1>4. n \in Good
  BY <1>3
<1> QED
  BY <1>4

(* ... and there is only one. *)
LEMMA RecursionUnique ==
  ASSUME NEW V, NEW base \in V, NEW n \in Nat, NEW step \in [1..n -> [V -> V]],
         NEW f, NEW g, Follows(f, base, step, n), Follows(g, base, step, n)
  PROVE  \A i \in 0..n : f[i] = g[i] /\ f[i] \in V
<1> DEFINE Good == {i \in 0..n : f[i] = g[i] /\ f[i] \in V}
<1>1. 0 \in Good
  BY DEF Follows
<1>2. ASSUME NEW i \in 1..n, i - 1 \in Good
      PROVE  i \in Good
  <2>1. step[i] \in [V -> V]
    BY <1>2
  <2> QED
    BY <1>2, <2>1 DEF Follows
<1>3. Good = 0..n
  <2>1. Good \in SUBSET (0..n)
    OBVIOUS
  <2> HIDE DEF Good
  <2> QED
    BY <1>1, <1>2, <2>1, UpTo
<1> QED
  BY <1>3

(* The height of a column. *)
Summed(s, base, sizes, cards) ==
    LET upTo[k \in 0..Len(s)] == IF k = 0 THEN base ELSE upTo[k - 1] + sizes[cards[s[k]]]
    IN  upTo[Len(s)]

SumSteps(s, sizes, cards) == [k \in 1..Len(s) |-> [v \in Nat |-> v + sizes[cards[s[k]]]]]

LEMMA Before ==
  ASSUME NEW n \in Nat, NEW k \in 1..n
  PROVE  k \in 0..n /\ k - 1 \in 0..n /\ k # 0 /\ k \in Nat /\ k - 1 \in Nat
OBVIOUS

LEMMA SummedIs ==
  ASSUME NEW cards \in Seq(Cards), NEW sizes \in [Cards -> Nat], NEW base \in Nat, NEW s \in Seq(1..Len(cards))
  PROVE  /\ SumSteps(s, sizes, cards) \in [1..Len(s) -> [Nat -> Nat]]
         /\ \E f : Follows(f, base, SumSteps(s, sizes, cards), Len(s)) /\ Summed(s, base, sizes, cards) = f[Len(s)]
<1> DEFINE amount == [k \in 1..Len(s) |-> sizes[cards[s[k]]]]
<1>0. PICK n \in Nat : n = Len(s)
  OBVIOUS
<1>1. \A k \in 1..n : amount[k] \in Nat /\ amount[k] = sizes[cards[s[k]]]
  BY <1>0
<1>2. SumSteps(s, sizes, cards) = [k \in 1..n |-> [v \in Nat |-> v + amount[k]]]
  BY <1>0 DEF SumSteps
<1> HIDE DEF amount
<1>3. SumSteps(s, sizes, cards) \in [1..n -> [Nat -> Nat]]
  <2>1. \A k \in 1..n : [v \in Nat |-> v + amount[k]] \in [Nat -> Nat]
    BY <1>1
  <2> QED
    BY <1>2, <2>1
<1> DEFINE Eq(f) == f = [k \in 0..n |-> IF k = 0 THEN base ELSE f[k - 1] + sizes[cards[s[k]]]]
           fun == CHOOSE f : Eq(f)
<1>4. PICK f \in [0..n -> Nat] : Follows(f, base, SumSteps(s, sizes, cards), n)
  BY <1>0, <1>3, RecursionExists
<1>5. \A k \in 1..n : f[k] = f[k - 1] + sizes[cards[s[k]]]
  <2> TAKE k \in 1..n
  <2>1. k - 1 \in 0..n
    BY Before
  <2>2. f[k - 1] \in Nat
    BY <1>4, <2>1
  <2>3. f[k] = SumSteps(s, sizes, cards)[k][f[k - 1]]
    BY <1>4 DEF Follows
  <2> QED
    BY <1>1, <1>2, <2>2, <2>3
<1>6. Eq(f)
  <2>1. f[0] = base
    BY <1>4 DEF Follows
  <2>2. ASSUME NEW k \in 0..n PROVE f[k] = IF k = 0 THEN base ELSE f[k - 1] + sizes[cards[s[k]]]
    <3>1. k # 0 => k \in 1..n
      OBVIOUS
    <3> QED
      BY <1>5, <2>1, <3>1
  <2> QED
    BY <1>4, <2>2
<1>7. Eq(fun)
  <2> HIDE DEF Eq
  <2> QED
    BY <1>6
<1>8. fun = [k \in 0..n |-> IF k = 0 THEN base ELSE fun[k - 1] + sizes[cards[s[k]]]]
  BY <1>7
<1>9. Summed(s, base, sizes, cards) = fun[n]
  BY <1>0 DEF Summed
<1> HIDE DEF fun
<1>10. fun[0] = base /\ \A k \in 1..n : fun[k] = fun[k - 1] + amount[k]
  <2>1. 0 \in 0..n
    OBVIOUS
  <2>2. fun[0] = base
    BY <1>8, <2>1
  <2>3. ASSUME NEW k \in 1..n PROVE fun[k] = fun[k - 1] + amount[k]
    <3>1. k \in 0..n /\ k # 0
      BY Before
    <3>2. fun[k] = fun[k - 1] + sizes[cards[s[k]]]
      BY <1>8, <3>1
    <3> QED
      BY <1>1, <3>2
  <2> QED
    BY <2>2, <2>3
<1>11. \A k \in 0..n : fun[k] \in Nat
  <2> DEFINE Good == {k \in 0..n : fun[k] \in Nat}
  <2>1. 0 \in Good
    BY <1>10
  <2>2. ASSUME NEW k \in 1..n, k - 1 \in Good PROVE k \in Good
    <3>1. fun[k - 1] \in Nat /\ amount[k] \in Nat /\ fun[k] = fun[k - 1] + amount[k] /\ k \in 0..n
      BY <1>1, <1>10, <2>2, Before
    <3> QED
      BY <3>1
  <2>3. Good \in SUBSET (0..n)
    OBVIOUS
  <2> HIDE DEF Good
  <2>4. Good = 0..n
    BY <2>1, <2>2, <2>3, UpTo
  <2> QED
    BY <2>4 DEF Good
<1>12. Follows(fun, base, SumSteps(s, sizes, cards), n)
  <2>1. ASSUME NEW k \in 1..n PROVE fun[k] = SumSteps(s, sizes, cards)[k][fun[k - 1]]
    <3>1. fun[k - 1] \in Nat
      BY <1>11, Before
    <3> QED
      BY <1>2, <1>10, <3>1
  <2> QED
    BY <1>10, <2>1 DEF Follows
<1> QED
  BY <1>0, <1>3, <1>9, <1>12

LEMMA SummedEmpty ==
  ASSUME NEW cards \in Seq(Cards), NEW sizes \in [Cards -> Nat], NEW base \in Nat,
         NEW s \in Seq(1..Len(cards)), Len(s) = 0
  PROVE  Summed(s, base, sizes, cards) = base
<1>1. PICK f : Follows(f, base, SumSteps(s, sizes, cards), Len(s)) /\ Summed(s, base, sizes, cards) = f[Len(s)]
  BY SummedIs
<1> QED
  BY <1>1 DEF Follows

LEMMA SummedAppend ==
  ASSUME NEW cards \in Seq(Cards), NEW sizes \in [Cards -> Nat], NEW base \in Nat,
         NEW s \in Seq(1..Len(cards)), NEW x \in 1..Len(cards)
  PROVE  /\ Summed(s, base, sizes, cards) \in Nat
         /\ Summed(Append(s, x), base, sizes, cards) = Summed(s, base, sizes, cards) + sizes[cards[x]]
<1>1. PICK f : Follows(f, base, SumSteps(s, sizes, cards), Len(s)) /\ Summed(s, base, sizes, cards) = f[Len(s)]
  BY SummedIs
<1>2. PICK t : t = Append(s, x)
  OBVIOUS
<1>3. PICK n \in Nat : n = Len(s)
  OBVIOUS
<1>4. t \in Seq(1..Len(cards)) /\ Len(t) = n + 1 /\ t[n + 1] = x /\ \A k \in 1..n : t[k] = s[k]
  BY <1>2, <1>3, AppendProperties
<1>5. PICK g : Follows(g, base, SumSteps(t, sizes, cards), Len(t)) /\ Summed(t, base, sizes, cards) = g[Len(t)]
  BY <1>4, SummedIs
<1>6. \A k \in 1..n : SumSteps(t, sizes, cards)[k] = SumSteps(s, sizes, cards)[k]
  <2> TAKE k \in 1..n
  <2>1. k \in 1..Len(t) /\ k \in 1..Len(s) /\ t[k] = s[k]
    BY <1>3, <1>4
  <2> QED
    BY <2>1 DEF SumSteps
<1>7. Follows(g, base, SumSteps(s, sizes, cards), n)
  <2>1. \A k \in 1..n : k \in 1..Len(t)
    BY <1>4
  <2> QED
    BY <1>5, <1>6, <2>1 DEF Follows
<1>8. SumSteps(s, sizes, cards) \in [1..n -> [Nat -> Nat]]
  BY <1>3, SummedIs
<1>9. f[n] = g[n] /\ f[n] \in Nat
  <2>1. Follows(f, base, SumSteps(s, sizes, cards), n) /\ n \in 0..n
    BY <1>1, <1>3
  <2> QED
    BY <1>7, <1>8, <2>1, RecursionUnique
<1>10. g[n + 1] = SumSteps(t, sizes, cards)[n + 1][g[n]]
  <2>1. n + 1 \in 1..Len(t) /\ (n + 1) - 1 = n
    BY <1>4
  <2> QED
    BY <1>5, <2>1 DEF Follows
<1>11. SumSteps(t, sizes, cards)[n + 1] = [v \in Nat |-> v + sizes[cards[x]]]
  <2>1. n + 1 \in 1..Len(t)
    BY <1>4
  <2> QED
    BY <1>4, <2>1 DEF SumSteps
<1>12. PICK v \in Nat : v = f[n] /\ v = g[n]
  BY <1>9
<1>13. Summed(s, base, sizes, cards) = v
  BY <1>1, <1>3, <1>12
<1>14. Summed(t, base, sizes, cards) = v + sizes[cards[x]]
  <2>1. Summed(t, base, sizes, cards) = g[n + 1]
    BY <1>4, <1>5
  <2>2. g[n + 1] = [w \in Nat |-> w + sizes[cards[x]]][v]
    BY <1>10, <1>11, <1>12
  <2> QED
    BY <2>1, <2>2
<1> QED
  BY <1>2, <1>13, <1>14

(* The last of a list is one of its members.                                *)
LEMMA LastIn ==
  ASSUME NEW R, NEW s \in Seq(R), Len(s) # 0
  PROVE  s[Len(s)] \in R
OBVIOUS

(* The column that is chosen for a memo is one, and no other is shorter.    *)
LEMMA ShortestIs ==
  ASSUME NEW cols \in Nat \ {0}, NEW of \in [1..cols -> Seq(Nat)], NEW lengths \in [1..cols -> Nat]
  PROVE  M!Shortest(lengths, of) \in 1..cols /\ \A d \in 1..cols : lengths[M!Shortest(lengths, of)] <= lengths[d]
<1> DEFINE Less(c, d) == \/ lengths[c] < lengths[d]
                         \/ lengths[c] = lengths[d] /\ Len(of[c]) < Len(of[d])
                         \/ lengths[c] = lengths[d] /\ Len(of[c]) = Len(of[d]) /\ c < d
           Chosen(c) == \A d \in (1..cols) \ {c} : Less(c, d)
           low == {lengths[c] : c \in 1..cols}
<1>1. \A c \in 1..cols : lengths[c] \in Nat /\ Len(of[c]) \in Nat
  OBVIOUS
<1>2. PICK c \in 1..cols : \A d \in 1..cols : lengths[c] <= lengths[d]
  <2>1. low \in SUBSET Nat /\ lengths[1] \in low
    BY <1>1
  <2> HIDE DEF low
  <2>2. PICK x \in low : \A y \in low : x <= y
    BY <2>1, LeastExists
  <2> QED
    BY <2>2 DEF low
<1>3. PICK e \in 1..cols : /\ lengths[e] = lengths[c]
                           /\ \A d \in 1..cols : lengths[d] = lengths[c] => Len(of[e]) <= Len(of[d])
  <2> DEFINE shortest == {d \in 1..cols : lengths[d] = lengths[c]}
             few == {Len(of[d]) : d \in shortest}
  <2>1. few \in SUBSET Nat /\ Len(of[c]) \in few
    BY <1>1
  <2> HIDE DEF few
  <2>2. PICK x \in few : \A y \in few : x <= y
    BY <2>1, LeastExists
  <2> QED
    BY <2>2 DEF few
<1>4. PICK b \in 1..cols : /\ lengths[b] = lengths[c] /\ Len(of[b]) = Len(of[e])
                           /\ \A d \in 1..cols : lengths[d] = lengths[c] /\ Len(of[d]) = Len(of[e]) => b <= d
  <2> DEFINE leading == {d \in 1..cols : lengths[d] = lengths[c] /\ Len(of[d]) = Len(of[e])}
  <2>1. leading \in SUBSET Nat /\ e \in leading
    BY <1>3
  <2> HIDE DEF leading
  <2>2. PICK b \in leading : \A d \in leading : b <= d
    BY <2>1, LeastExists
  <2> QED
    BY <2>2 DEF leading
<1>5. Chosen(b)
  <2> TAKE d \in (1..cols) \ {b}
  <2>1. /\ lengths[b] \in Nat /\ lengths[d] \in Nat /\ Len(of[b]) \in Nat /\ Len(of[d]) \in Nat
        /\ b \in Nat /\ d \in Nat /\ b # d
    BY <1>1
  <2>2. /\ lengths[b] <= lengths[d]
        /\ lengths[d] = lengths[b] => Len(of[b]) <= Len(of[d])
        /\ lengths[d] = lengths[b] /\ Len(of[d]) = Len(of[b]) => b <= d
    BY <1>2, <1>3, <1>4
  <2> QED
    BY <2>1, <2>2
<1>6. M!Shortest(lengths, of) = CHOOSE m \in 1..cols : Chosen(m)
  BY DEF M!Shortest
<1>7. PICK m : m = M!Shortest(lengths, of)
  OBVIOUS
<1>8. m \in 1..cols /\ Chosen(m)
  <2> HIDE DEF Chosen
  <2> QED
    BY <1>5, <1>6, <1>7
<1>9. \A d \in 1..cols : lengths[m] <= lengths[d]
  <2> TAKE d \in 1..cols
  <2>1. d # m => Less(m, d)
    BY <1>8
  <2>2. lengths[m] \in Nat /\ lengths[d] \in Nat
    BY <1>1, <1>8
  <2> QED
    BY <2>1, <2>2
<1> QED
  BY <1>7, <1>8, <1>9

(* Layouts of the first n memos of a list: each of them is in one column,   *)
(* once, in its order; a column is as high as what is in it, and when its   *)
(* last memo was put there none was shorter.                                *)
Layouts(cards, cols) == [of : [1..cols -> Seq(1..Len(cards))], tall : [1..cols -> Nat]]

Once(of) == \A c, d \in DOMAIN of : \A j \in 1..Len(of[c]), k \in 1..Len(of[d]) :
                of[c][j] = of[d][k] => c = d /\ j = k

Placed(of, n) ==
    /\ \A c \in DOMAIN of : \A k \in 1..Len(of[c]) : of[c][k] \in 1..n
    /\ \A i \in 1..n : \E c \in DOMAIN of : \E k \in 1..Len(of[c]) : of[c][k] = i
    /\ \A c \in DOMAIN of : \A j, k \in 1..Len(of[c]) : j < k => of[c][j] < of[c][k]
    /\ n # 0 => Len(of[1]) # 0 /\ of[1][1] = 1

SameSizes(sizes, others, cards) == \A i \in 1..Len(cards) : others[cards[i]] = sizes[cards[i]]
Above(above, c) == IF c = 1 THEN above ELSE 0

Measured(made, cards, sizes, above) ==
    \A c \in DOMAIN made.of : \A others \in [Cards -> Nat] :
        SameSizes(sizes, others, cards) => made.tall[c] = Summed(made.of[c], Above(above, c), others, cards)

LastOf(s, sizes, cards) == sizes[cards[s[Len(s)]]]

Even(made, cards, sizes) ==
    \A c, d \in DOMAIN made.of :
        Len(made.of[c]) > (IF c = 1 THEN 1 ELSE 0) => made.tall[c] - LastOf(made.of[c], sizes, cards) <= made.tall[d]

GoodLayout(made, n, cards, cols, sizes, above) ==
    /\ made \in Layouts(cards, cols) /\ Once(made.of) /\ Placed(made.of, n)
    /\ Measured(made, cards, sizes, above) /\ Even(made, cards, sizes)

NoLayout(cols, above) ==
    [of |-> [c \in 1..cols |-> <<>>], tall |-> [c \in 1..cols |-> IF c = 1 THEN above ELSE 0]]

Column(i, made) == IF i = 1 THEN 1 ELSE M!Shortest(made.tall, made.of)

Place(i, made, cards, sizes) ==
    [of |-> [made.of EXCEPT ![Column(i, made)] = Append(@, i)],
     tall |-> [made.tall EXCEPT ![Column(i, made)] = @ + sizes[cards[i]]]]

LEMMA LayoutStarts ==
  ASSUME NEW cards \in Seq(Cards), NEW cols \in Nat \ {0}, NEW sizes \in [Cards -> Nat], NEW above \in Nat
  PROVE  GoodLayout(NoLayout(cols, above), 0, cards, cols, sizes, above)
<1>0. PICK none : none = <<>>
  OBVIOUS
<1>1. none \in Seq(1..Len(cards)) /\ Len(none) = 0 /\ 1..Len(none) = {}
  BY <1>0
<1>2. PICK made : made = NoLayout(cols, above)
  OBVIOUS
<1>3. /\ made = [of |-> [c \in 1..cols |-> none], tall |-> [c \in 1..cols |-> Above(above, c)]]
  BY <1>0, <1>2 DEF NoLayout, Above
<1>4. /\ DOMAIN made.of = 1..cols
      /\ \A c \in 1..cols : made.of[c] = none /\ made.tall[c] = Above(above, c) /\ Above(above, c) \in Nat
  BY <1>3 DEF Above
<1>5. made \in Layouts(cards, cols)
  BY <1>1, <1>3, <1>4 DEF Layouts
<1>6. \A c \in DOMAIN made.of : Len(made.of[c]) = 0 /\ 1..Len(made.of[c]) = {}
  BY <1>1, <1>4
<1>7. Once(made.of) /\ Placed(made.of, 0)
  BY <1>6 DEF Once, Placed
<1>8. Even(made, cards, sizes)
  BY <1>6 DEF Even
<1>9. Measured(made, cards, sizes, above)
  <2> SUFFICES ASSUME NEW c \in 1..cols, NEW others \in [Cards -> Nat]
               PROVE  made.tall[c] = Summed(made.of[c], Above(above, c), others, cards)
    BY <1>4 DEF Measured
  <2>1. PICK base \in Nat : base = Above(above, c)
    BY <1>4
  <2>2. Summed(none, base, others, cards) = base
    BY <1>1, SummedEmpty
  <2> QED
    BY <1>4, <2>1, <2>2
<1> QED
  BY <1>2, <1>5, <1>7, <1>8, <1>9 DEF GoodLayout

LEMMA LayoutGrows ==
  ASSUME NEW cards \in Seq(Cards), NEW cols \in Nat \ {0}, NEW sizes \in [Cards -> Nat], NEW above \in Nat,
         NEW i \in 1..Len(cards), NEW made, GoodLayout(made, i - 1, cards, cols, sizes, above)
  PROVE  GoodLayout(Place(i, made, cards, sizes), i, cards, cols, sizes, above)
<1> DEFINE of == made.of
           lengths == made.tall
<1>0. Len(cards) \in Nat /\ i \in Nat /\ i - 1 \in Nat /\ i # 0
  OBVIOUS
<1>1. /\ of \in [1..cols -> Seq(1..Len(cards))] /\ lengths \in [1..cols -> Nat]
      /\ Once(of) /\ Placed(of, i - 1) /\ Measured(made, cards, sizes, above) /\ Even(made, cards, sizes)
  BY DEF GoodLayout, Layouts
<1>2. PICK b : b = Column(i, made)
  OBVIOUS
<1>3. b \in 1..cols /\ (i = 1 => b = 1) /\ (i # 1 => \A d \in 1..cols : lengths[b] <= lengths[d])
  <2>1. of \in [1..cols -> Seq(Nat)]
    <3>1. 1..Len(cards) \subseteq Nat
      OBVIOUS
    <3>2. \A c \in 1..cols : of[c] \in Seq(Nat)
      BY <1>1, <3>1
    <3> QED
      BY <1>1, <3>2
  <2> HIDE DEF of, lengths
  <2>2. M!Shortest(lengths, of) \in 1..cols /\ \A d \in 1..cols : lengths[M!Shortest(lengths, of)] <= lengths[d]
    BY <1>1, <2>1, ShortestIs
  <2>3. b = IF i = 1 THEN 1 ELSE M!Shortest(lengths, of)
    BY <1>2 DEF Column, of, lengths
  <2>4. 1 \in 1..cols
    OBVIOUS
  <2> QED
    BY <2>2, <2>3, <2>4
<1>4. PICK m \in Nat : m = sizes[cards[i]]
  <2>1. cards[i] \in Cards
    OBVIOUS
  <2> QED
    BY <2>1
<1>5. PICK Grown : Grown = Place(i, made, cards, sizes)
  OBVIOUS
<1> DEFINE of2 == Grown.of
           lengths2 == Grown.tall
<1>6. /\ Grown = [of |-> [of EXCEPT ![b] = Append(of[b], i)], tall |-> [lengths EXCEPT ![b] = lengths[b] + m]]
  BY <1>2, <1>4, <1>5 DEF Place
<1>7. of2 = [of EXCEPT ![b] = Append(of[b], i)] /\ lengths2 = [lengths EXCEPT ![b] = lengths[b] + m]
  BY <1>6
<1> HIDE DEF of, lengths, of2, lengths2
<1>8. PICK q \in Nat : q = Len(of[b])
  BY <1>1, <1>3
<1>9. /\ of2 \in [1..cols -> Seq(1..Len(cards))]
      /\ Len(of2[b]) = q + 1 /\ of2[b][q + 1] = i /\ \A k \in 1..q : of2[b][k] = of[b][k]
      /\ \A c \in (1..cols) \ {b} : of2[c] = of[c]
  <2>1. of[b] \in Seq(1..Len(cards))
    BY <1>1, <1>3
  <2>2. of2[b] = Append(of[b], i)
    BY <1>1, <1>3, <1>7
  <2>3. of2[b] \in Seq(1..Len(cards)) /\ Len(of2[b]) = q + 1 /\ of2[b][q + 1] = i /\ \A k \in 1..q : of2[b][k] = of[b][k]
    BY <1>8, <2>1, <2>2, AppendProperties
  <2>4. \A c \in (1..cols) \ {b} : of2[c] = of[c]
    BY <1>1, <1>3, <1>7
  <2>5. DOMAIN of2 = 1..cols /\ of2 = [c \in 1..cols |-> of2[c]]
    BY <1>1, <1>7
  <2> QED
    BY <1>1, <1>3, <2>3, <2>4, <2>5
<1>10. /\ lengths2 \in [1..cols -> Nat] /\ lengths2[b] = lengths[b] + m
       /\ \A c \in (1..cols) \ {b} : lengths2[c] = lengths[c]
  <2>1. lengths[b] \in Nat
    BY <1>1, <1>3
  <2>2. lengths[b] + m \in Nat
    BY <1>4, <2>1
  <2> QED
    BY <1>1, <1>3, <1>7, <2>2
<1>11. /\ \A c \in 1..cols : \A k \in 1..Len(of[c]) : of[c][k] \in 1..(i - 1)
       /\ \A c \in 1..cols : Len(of[c]) \in Nat /\ Len(of2[c]) \in Nat
       /\ \A c \in 1..cols : \A k \in 1..Len(of2[c]) :
            \/ c = b /\ k = q + 1 /\ of2[c][k] = i
            \/ k \in 1..Len(of[c]) /\ of2[c][k] = of[c][k] /\ of2[c][k] \in 1..(i - 1)
  <2>1. \A c \in 1..cols : \A k \in 1..Len(of[c]) : of[c][k] \in 1..(i - 1)
    BY <1>1 DEF Placed
  <2>2. \A c \in 1..cols : Len(of[c]) \in Nat /\ Len(of2[c]) \in Nat
    BY <1>1, <1>9
  <2>3. ASSUME NEW c \in 1..cols, NEW k \in 1..Len(of2[c])
        PROVE  \/ c = b /\ k = q + 1 /\ of2[c][k] = i
               \/ k \in 1..Len(of[c]) /\ of2[c][k] = of[c][k]
    <3>1. CASE c = b
      <4>1. k \in 1..(q + 1)
        BY <1>9, <2>3, <3>1
      <4>2. k = q + 1 \/ k \in 1..q
        BY <4>1
      <4> QED
        BY <1>8, <1>9, <3>1, <4>2
    <3>2. CASE c # b
      BY <1>9, <2>3, <3>2
    <3> QED
      BY <3>1, <3>2
  <2> QED
    BY <2>1, <2>2, <2>3
<1>12. Once(of2)
  <2> SUFFICES ASSUME NEW c \in 1..cols, NEW d \in 1..cols, NEW j \in 1..Len(of2[c]), NEW k \in 1..Len(of2[d]),
                      of2[c][j] = of2[d][k]
               PROVE  c = d /\ j = k
    BY <1>9 DEF Once
  <2>1. i \notin 1..(i - 1)
    BY <1>0
  <2>2. CASE of2[c][j] = i
    <3>1. c = b /\ j = q + 1
      BY <1>11, <2>1, <2>2
    <3>2. of2[d][k] = i
      BY <2>2
    <3>3. d = b /\ k = q + 1
      BY <1>11, <2>1, <3>2
    <3> QED
      BY <3>1, <3>3
  <2>3. CASE of2[c][j] # i
    <3>1. j \in 1..Len(of[c]) /\ k \in 1..Len(of[d]) /\ of[c][j] = of[d][k]
      BY <1>11, <2>3
    <3> QED
      BY <1>1, <3>1 DEF Once
  <2> QED
    BY <2>2, <2>3
<1>13. Placed(of2, i)
  <2>1. \A c \in 1..cols : \A k \in 1..Len(of2[c]) : of2[c][k] \in 1..i
    <3>1. i \in 1..i /\ 1..(i - 1) \subseteq 1..i
      BY <1>0
    <3> QED
      BY <1>11, <3>1
  <2>2. ASSUME NEW x \in 1..i PROVE \E c \in 1..cols : \E k \in 1..Len(of2[c]) : of2[c][k] = x
    <3>1. CASE x = i
      <4>1. q + 1 \in 1..Len(of2[b]) /\ of2[b][q + 1] = x
        BY <1>9, <3>1
      <4> QED
        BY <1>3, <4>1
    <3>2. CASE x # i
      <4>1. x \in 1..(i - 1)
        BY <1>0, <3>2
      <4>2. PICK c \in 1..cols : \E k \in 1..Len(of[c]) : of[c][k] = x
        BY <1>1, <4>1 DEF Placed
      <4>3. PICK k \in 1..Len(of[c]) : of[c][k] = x
        BY <4>2
      <4>4. k \in 1..Len(of2[c]) /\ of2[c][k] = x
        <5>1. CASE c = b
          <6>1. k \in 1..q /\ k \in 1..(q + 1)
            BY <1>8, <4>3, <5>1
          <6> QED
            BY <1>9, <4>3, <5>1, <6>1
        <5>2. CASE c # b
          BY <1>9, <4>3, <5>2
        <5> QED
          BY <5>1, <5>2
      <4> QED
        BY <4>4
    <3> QED
      BY <3>1, <3>2
  <2>3. ASSUME NEW c \in 1..cols, NEW j \in 1..Len(of2[c]), NEW k \in 1..Len(of2[c]), j < k
        PROVE  of2[c][j] < of2[c][k]
    <3>1. CASE k \in 1..Len(of[c]) /\ of2[c][k] = of[c][k]
      <4>1. j \in 1..Len(of[c])
        BY <1>11, <2>3, <3>1
      <4>2. of2[c][j] = of[c][j]
        BY <1>8, <1>9, <2>3, <4>1
      <4>3. of[c][j] < of[c][k]
        BY <1>1, <2>3, <3>1, <4>1 DEF Placed
      <4> QED
        BY <3>1, <4>2, <4>3
    <3>2. CASE c = b /\ k = q + 1 /\ of2[c][k] = i
      <4>1. j # q + 1
        BY <1>8, <2>3, <3>2
      <4>2. of2[c][j] \in 1..(i - 1)
        BY <1>11, <2>3, <4>1
      <4> QED
        BY <1>0, <3>2, <4>2
    <3> QED
      BY <1>11, <3>1, <3>2
  <2>4. Len(of2[1]) # 0 /\ of2[1][1] = 1
    <3>1. CASE i = 1
      <4>1. q = 0
        <5>1. \A k \in 1..q : FALSE
          BY <1>3, <1>8, <1>11, <3>1
        <5> QED
          BY <5>1
      <4> QED
        BY <1>3, <1>9, <3>1, <4>1
    <3>2. CASE i # 1
      <4>1. i - 1 # 0 /\ 1 \in 1..cols
        BY <1>0, <3>2
      <4>2. Len(of[1]) # 0 /\ of[1][1] = 1
        BY <1>1, <4>1 DEF Placed
      <4>3. Len(of[1]) \in Nat
        BY <1>11, <4>1
      <4>4. CASE b = 1
        <5>1. q # 0 /\ 1 \in 1..q /\ q + 1 # 0
          BY <1>8, <4>2, <4>4
        <5>2. of2[b][1] = of[b][1] /\ Len(of2[b]) = q + 1
          BY <1>9, <5>1
        <5> QED
          BY <4>2, <4>4, <5>1, <5>2
      <4>5. CASE b # 1
        BY <1>9, <4>1, <4>2, <4>5
      <4> QED
        BY <4>4, <4>5
    <3> QED
      BY <3>1, <3>2
  <2> QED
    BY <1>9, <2>1, <2>2, <2>3, <2>4 DEF Placed
<1>14. Measured(Grown, cards, sizes, above)
  <2> SUFFICES ASSUME NEW c \in 1..cols, NEW others \in [Cards -> Nat], SameSizes(sizes, others, cards)
               PROVE  lengths2[c] = Summed(of2[c], Above(above, c), others, cards)
    BY <1>9 DEF Measured, of2, lengths2
  <2>1. lengths[c] = Summed(of[c], Above(above, c), others, cards)
    BY <1>1 DEF Measured, of, lengths
  <2>2. CASE c = b
    <3>1. of2[c] = Append(of[c], i)
      BY <1>1, <1>7, <2>2
    <3>2. of[c] \in Seq(1..Len(cards)) /\ Above(above, c) \in Nat
      BY <1>1 DEF Above
    <3>3. Summed(Append(of[c], i), Above(above, c), others, cards) = Summed(of[c], Above(above, c), others, cards) + others[cards[i]]
      BY <3>2, SummedAppend
    <3>4. others[cards[i]] = m
      BY <1>4 DEF SameSizes
    <3> QED
      BY <1>10, <2>1, <2>2, <3>1, <3>3, <3>4
  <2>3. CASE c # b
    BY <1>9, <1>10, <2>1, <2>3
  <2> QED
    BY <2>2, <2>3
<1>15. Even(Grown, cards, sizes)
  <2> SUFFICES ASSUME NEW c \in 1..cols, NEW d \in 1..cols, Len(of2[c]) > (IF c = 1 THEN 1 ELSE 0)
               PROVE  lengths2[c] - LastOf(of2[c], sizes, cards) <= lengths2[d]
    BY <1>9 DEF Even, of2, lengths2
  <2>1. lengths[c] \in Nat /\ lengths[d] \in Nat /\ lengths2[d] \in Nat /\ lengths[d] <= lengths2[d]
    <3>1. lengths[c] \in Nat /\ lengths[d] \in Nat /\ lengths2[d] \in Nat
      BY <1>1, <1>10
    <3>2. lengths2[d] = lengths[d] \/ lengths2[d] = lengths[d] + m
      BY <1>10
    <3> QED
      BY <1>4, <3>1, <3>2
  <2>2. CASE c = b
    <3>1. i # 1
      <4> SUFFICES ASSUME i = 1 PROVE FALSE
        OBVIOUS
      <4>1. \A k \in 1..q : FALSE
        BY <1>3, <1>8, <1>11
      <4>2. q = 0
        BY <4>1
      <4>3. c = 1 /\ Len(of2[c]) = 1
        BY <1>3, <1>9, <2>2, <4>2
      <4> QED
        BY <4>3
    <3>2. LastOf(of2[c], sizes, cards) = m
      BY <1>4, <1>9, <2>2 DEF LastOf
    <3>3. lengths[c] <= lengths[d] /\ lengths2[c] = lengths[c] + m
      BY <1>3, <1>10, <2>2, <3>1
    <3> QED
      BY <2>1, <3>2, <3>3
  <2>3. CASE c # b
    <3>1. of2[c] = of[c] /\ lengths2[c] = lengths[c]
      BY <1>9, <1>10, <2>3
    <3>2. lengths[c] - LastOf(of[c], sizes, cards) <= lengths[d]
      BY <1>1, <3>1 DEF Even, of, lengths
    <3>3. LastOf(of[c], sizes, cards) \in Nat
      <4>0. Len(of2[c]) # 0
        BY <1>11
      <4>1. Len(of[c]) \in Nat /\ Len(of[c]) # 0 /\ of[c] \in Seq(1..Len(cards))
        BY <1>1, <1>11, <3>1, <4>0
      <4>2. of[c][Len(of[c])] \in 1..Len(cards)
        <5>1. PICK R : R = 1..Len(cards)
          OBVIOUS
        <5>2. of[c] \in Seq(R)
          BY <4>1, <5>1
        <5>3. of[c][Len(of[c])] \in R
          BY <4>1, <5>2, LastIn
        <5> QED
          BY <5>1, <5>3
      <4>3. cards[of[c][Len(of[c])]] \in Cards
        BY <4>2
      <4> QED
        BY <4>3 DEF LastOf
    <3> QED
      BY <2>1, <3>1, <3>2, <3>3
  <2> QED
    BY <2>2, <2>3
<1>16. Grown \in Layouts(cards, cols)
  BY <1>6, <1>9, <1>10 DEF Layouts, of2, lengths2
<1> QED
  BY <1>5, <1>12, <1>13, <1>14, <1>15, <1>16 DEF GoodLayout, of2

(* What a list is laid out by is a layout of all its memos.                 *)
LEMMA DistributionIs ==
  ASSUME NEW cards \in Seq(Cards), NEW cols \in Nat \ {0}, NEW sizes \in [Cards -> Nat], NEW above \in Nat
  PROVE  \E made : GoodLayout(made, Len(cards), cards, cols, sizes, above) /\ M!Distribution(cards, cols, sizes, above) = made.of
<1>0. PICK n \in Nat : n = Len(cards)
  OBVIOUS
<1> DEFINE base == NoLayout(cols, above)
           Eq(f) == f = [i \in 0..n |-> IF i = 0 THEN base ELSE Place(i, f[i - 1], cards, sizes)]
           laid == CHOOSE f : Eq(f)
           V == {made \in Layouts(cards, cols) : \E i \in 0..n : GoodLayout(made, i, cards, cols, sizes, above)}
           step == [i \in 1..n |-> [made \in V |-> IF GoodLayout(made, i - 1, cards, cols, sizes, above)
                                               THEN Place(i, made, cards, sizes) ELSE made]]
<1>1. GoodLayout(base, 0, cards, cols, sizes, above)
  BY LayoutStarts
<1>2. ASSUME NEW i \in 1..n, NEW made, GoodLayout(made, i - 1, cards, cols, sizes, above)
      PROVE  GoodLayout(Place(i, made, cards, sizes), i, cards, cols, sizes, above)
  BY <1>0, <1>2, LayoutGrows
<1> HIDE DEF base
<1>3. base \in V
  BY <1>1 DEF GoodLayout
<1>4. step \in [1..n -> [V -> V]]
  <2>1. ASSUME NEW i \in 1..n, NEW made \in V, GoodLayout(made, i - 1, cards, cols, sizes, above)
        PROVE  Place(i, made, cards, sizes) \in V
    <3>1. GoodLayout(Place(i, made, cards, sizes), i, cards, cols, sizes, above)
      BY <1>2, <2>1
    <3>2. i \in 0..n
      BY Before
    <3> QED
      BY <3>1, <3>2 DEF GoodLayout
  <2> HIDE DEF V
  <2>2. \A i \in 1..n : [made \in V |-> IF GoodLayout(made, i - 1, cards, cols, sizes, above)
                                      THEN Place(i, made, cards, sizes) ELSE made] \in [V -> V]
    BY <2>1
  <2> QED
    BY <2>2
<1> HIDE DEF V
<1>5. PICK f \in [0..n -> V] : Follows(f, base, step, n)
  <2> HIDE DEF step
  <2> QED
    BY <1>3, <1>4, RecursionExists
<1>6. \A i \in 0..n : GoodLayout(f[i], i, cards, cols, sizes, above)
  <2> DEFINE Good == {i \in 0..n : GoodLayout(f[i], i, cards, cols, sizes, above)}
  <2>1. 0 \in Good
    BY <1>1, <1>5 DEF Follows
  <2>2. ASSUME NEW i \in 1..n, i - 1 \in Good PROVE i \in Good
    <3>1. i \in 0..n /\ i - 1 \in 0..n
      BY Before
    <3>2. f[i] = step[i][f[i - 1]] /\ f[i - 1] \in V
      BY <1>5, <3>1 DEF Follows
    <3>3. f[i] = Place(i, f[i - 1], cards, sizes)
      BY <2>2, <3>2
    <3> QED
      BY <1>2, <2>2, <3>1, <3>3
  <2>3. Good \in SUBSET (0..n)
    OBVIOUS
  <2> HIDE DEF Good
  <2>4. Good = 0..n
    BY <2>1, <2>2, <2>3, UpTo
  <2> QED
    BY <2>4 DEF Good
<1>7. Eq(f)
  <2>1. f[0] = base
    BY <1>5 DEF Follows
  <2>2. ASSUME NEW i \in 0..n, i # 0 PROVE f[i] = Place(i, f[i - 1], cards, sizes)
    <3>1. i \in 1..n
      BY <2>2
    <3>2. f[i] = step[i][f[i - 1]] /\ f[i - 1] \in V
      BY <1>5, <3>1, Before DEF Follows
    <3>3. GoodLayout(f[i - 1], i - 1, cards, cols, sizes, above)
      BY <1>6, <3>1, Before
    <3> QED
      BY <3>1, <3>2, <3>3
  <2> QED
    BY <1>5, <2>1, <2>2
<1>8. Eq(laid)
  <2> HIDE DEF Eq
  <2> QED
    BY <1>7
<1>9. M!Distribution(cards, cols, sizes, above) = laid[n].of
  BY <1>0 DEF M!Distribution, Place, Column, base, NoLayout
<1>10. laid = [i \in 0..n |-> IF i = 0 THEN base ELSE Place(i, laid[i - 1], cards, sizes)]
  BY <1>8
<1> HIDE DEF laid
<1>11. GoodLayout(laid[n], n, cards, cols, sizes, above)
  <2> DEFINE Good == {i \in 0..n : GoodLayout(laid[i], i, cards, cols, sizes, above)}
  <2>1. 0 \in Good
    <3>1. 0 \in 0..n
      OBVIOUS
    <3>2. laid[0] = base
      BY <1>10, <3>1
    <3> QED
      BY <1>1, <3>1, <3>2
  <2>2. ASSUME NEW i \in 1..n, i - 1 \in Good PROVE i \in Good
    <3>1. i \in 0..n /\ i # 0
      BY Before
    <3>2. laid[i] = Place(i, laid[i - 1], cards, sizes)
      BY <1>10, <3>1
    <3> QED
      BY <1>2, <2>2, <3>1, <3>2
  <2>3. Good \in SUBSET (0..n)
    OBVIOUS
  <2>4. n \in 0..n
    OBVIOUS
  <2> HIDE DEF Good
  <2>5. Good = 0..n
    BY <2>1, <2>2, <2>3, UpTo
  <2> QED
    BY <2>4, <2>5 DEF Good
<1> QED
  BY <1>0, <1>9, <1>11

(* Masonry. What is shown has been laid out by a list that may be gone, but *)
(* shows nothing twice; when lists and windows change at rest only, it is   *)
(* laid out by the list, the columns and the heights there are once neither *)
(* the effect nor the timer is due.                                         *)
MasonryTyped ==
    /\ memoList \in Seq(Cards) /\ columns \in Nat \ {0}
    /\ tall \in [Cards -> Nat] /\ itemHeights \in [Cards -> Nat]
    /\ prefix \in Nat /\ laidUnder \in Nat
    /\ timer # <<>> => /\ timer[1].list \in Seq(Cards) /\ timer[1].cols \in Nat \ {0}
                       /\ timer[1].heights = itemHeights

TimerOfList == steady /\ timer # <<>> => timer[1].list = memoList /\ timer[1].cols = columns

ShownLayout ==
    /\ Once(distribution)
    /\ steady /\ M!AtRest =>
          \E made : GoodLayout(made, Len(memoList), memoList, columns, itemHeights, laidUnder) /\ made.of = distribution

MasonryInv == MasonryTyped /\ TimerOfList /\ ShownLayout

LEMMA MasonryStarts ==
  ASSUME M!Init
  PROVE  MasonryInv
<1>1. MasonryTyped /\ TimerOfList
  <2>1. memoList \in Seq(Cards)
    <3>1. CASE memoList = <<>>
      BY <3>1
    <3>2. CASE \E m \in Cards : memoList = <<m>>
      BY <3>2
    <3> QED
      BY <3>1, <3>2 DEF M!Init, M!Lists
  <2>2. timer = <<>>
    BY DEF M!Init
  <2>3. /\ tall \in [Cards -> Nat] /\ itemHeights \in [Cards -> Nat]
        /\ prefix \in Nat /\ laidUnder \in Nat /\ columns \in Nat \ {0}
    <3>1. Heights \subseteq Nat
      BY MasonryAssumption
    <3>2. tall \in [Cards -> Heights] /\ prefix \in {0} \cup Heights /\ columns = 1 /\ laidUnder = 0
      BY DEF M!Init
    <3>3. itemHeights \in [Cards -> Nat]
      BY DEF M!Init
    <3>4. tall \in [Cards -> Nat]
      BY <3>1, <3>2
    <3> QED
      BY <3>1, <3>2, <3>3, <3>4
  <2> QED
    BY <2>1, <2>2, <2>3 DEF MasonryTyped, TimerOfList
<1>2. ShownLayout
  <2>1. PICK none : none = <<>>
    OBVIOUS
  <2>2. distribution = <<none>> /\ unlaid = TRUE /\ Len(none) = 0
    BY <2>1 DEF M!Init
  <2> QED
    BY <2>2 DEF ShownLayout, Once, M!AtRest
<1> QED
  BY <1>1, <1>2 DEF MasonryInv

(* Laying out makes what is shown a layout.                                 *)
LEMMA LaidOutShows ==
  ASSUME NEW cards \in Seq(Cards), NEW cols \in Nat \ {0}, NEW sizes \in [Cards -> Nat], prefix \in Nat,
         M!LaidOut(cards, cols, sizes)
  PROVE  /\ laidUnder' \in Nat /\ Once(distribution')
         /\ \E made : GoodLayout(made, Len(cards), cards, cols, sizes, laidUnder') /\ made.of = distribution'
<1>1. distribution' = M!Distribution(cards, cols, sizes, prefix) /\ laidUnder' = prefix
  BY DEF M!LaidOut
<1>2. PICK made : GoodLayout(made, Len(cards), cards, cols, sizes, prefix) /\ M!Distribution(cards, cols, sizes, prefix) = made.of
  BY DistributionIs
<1>3. Once(made.of)
  BY <1>2 DEF GoodLayout
<1> QED
  BY <1>1, <1>2, <1>3

LEMMA MasonryKept ==
  ASSUME MasonryInv, [M!Next]_masonry
  PROVE  MasonryInv'
<1> USE DEF MasonryInv, MasonryTyped, TimerOfList, ShownLayout, M!AtRest
<1>1. CASE M!ListChanges
  <2>1. memoList' \in Seq(Cards)
    <3>1. ASSUME NEW m \in Cards, memoList' \in {<<m>> \o memoList, Append(memoList, m)}
          PROVE  memoList' \in Seq(Cards)
      <4>1. <<m>> \in Seq(Cards)
        OBVIOUS
      <4>2. <<m>> \o memoList \in Seq(Cards)
        BY <4>1, ConcatProperties
      <4>3. Append(memoList, m) \in Seq(Cards)
        BY AppendProperties
      <4> QED
        BY <3>1, <4>2, <4>3
    <3>2. ASSUME NEW i \in DOMAIN memoList,
                 memoList' = SubSeq(memoList, 1, i - 1) \o SubSeq(memoList, i + 1, Len(memoList))
          PROVE  memoList' \in Seq(Cards)
      <4>1. i \in 1..Len(memoList) /\ Len(memoList) \in Nat
        OBVIOUS
      <4>2. SubSeq(memoList, 1, i - 1) \in Seq(Cards)
        BY <4>1, SubSeqProperties
      <4>3. SubSeq(memoList, i + 1, Len(memoList)) \in Seq(Cards)
        BY <4>1, SubSeqProperties
      <4> QED
        BY <3>2, <4>2, <4>3, ConcatProperties
    <3> QED
      BY <1>1, <3>1, <3>2 DEF M!ListChanges
  <2>2. /\ steady => timer = <<>>
        /\ unlaid' = TRUE
        /\ UNCHANGED <<steady, columns, tall, prefix, itemHeights, distribution, laidUnder, timer>>
    BY <1>1 DEF M!ListChanges
  <2> QED
    BY <2>1, <2>2
<1>2. ASSUME NEW n \in 1..MaxColumns, M!Resize(n)
      PROVE  MasonryInv'
  <2>1. n \in Nat \ {0}
    BY MasonryAssumption
  <2> QED
    BY <1>2, <2>1 DEF M!Resize
<1>3. ASSUME NEW m \in Cards, NEW h \in Heights, M!Grows(m, h)
      PROVE  MasonryInv'
  <2>1. h \in Nat
    BY MasonryAssumption
  <2>2. tall' \in [Cards -> Nat]
    BY <1>3, <2>1 DEF M!Grows
  <2> QED
    BY <1>3, <2>2 DEF M!Grows
<1>4. ASSUME NEW h \in {0} \cup Heights, M!EditorGrows(h)
      PROVE  MasonryInv'
  <2>1. h \in Nat
    BY MasonryAssumption
  <2> QED
    BY <1>4, <2>1 DEF M!EditorGrows
<1>5. CASE M!Redistribute
  <2>1. M!LaidOut(memoList, columns, itemHeights)
    BY <1>5 DEF M!Redistribute
  <2>2. /\ laidUnder' \in Nat /\ Once(distribution')
        /\ \E made : GoodLayout(made, Len(memoList), memoList, columns, itemHeights, laidUnder') /\ made.of = distribution'
    BY <2>1, LaidOutShows
  <2> QED
    BY <1>5, <2>2 DEF M!Redistribute
<1>6. ASSUME NEW m \in Cards, M!Measure(m)
      PROVE  MasonryInv'
  <2>1. itemHeights' \in [Cards -> Nat]
    BY <1>6 DEF M!Measure
  <2>2. timer' = <<[list |-> memoList, cols |-> columns, heights |-> itemHeights']>>
    BY <1>6 DEF M!Measure
  <2>3. timer'[1].list = memoList /\ timer'[1].cols = columns /\ timer'[1].heights = itemHeights' /\ timer' # <<>>
    BY <2>2
  <2> QED
    BY <1>6, <2>1, <2>3 DEF M!Measure
<1>7. CASE M!TimerFires
  <2>1. M!LaidOut(timer[1].list, timer[1].cols, timer[1].heights) /\ timer # <<>>
    BY <1>7 DEF M!TimerFires
  <2>2. PICK cards \in Seq(Cards) : cards = timer[1].list
    BY <2>1
  <2>3. PICK cols \in Nat \ {0} : cols = timer[1].cols
    BY <2>1
  <2>4. M!LaidOut(cards, cols, itemHeights)
    BY <2>1, <2>2, <2>3
  <2>5. /\ laidUnder' \in Nat /\ Once(distribution')
        /\ \E made : GoodLayout(made, Len(cards), cards, cols, itemHeights, laidUnder') /\ made.of = distribution'
    BY <2>4, LaidOutShows
  <2>6. steady => cards = memoList /\ cols = columns
    BY <2>1, <2>2, <2>3
  <2> QED
    BY <1>7, <2>5, <2>6 DEF M!TimerFires
<1>8. CASE UNCHANGED masonry
  BY <1>8 DEF masonry
<1> QED
  BY <1>1, <1>2, <1>3, <1>4, <1>5, <1>6, <1>7, <1>8 DEF M!Next

LEMMA MasonryShows ==
  ASSUME MasonryInv
  PROVE  M!LayoutSettles
<1>1. M!NoneTwice
  BY DEF MasonryInv, ShownLayout, Once, M!NoneTwice
<1>2. ASSUME steady, M!AtRest
      PROVE  /\ M!Mounted = {memoList[i] : i \in DOMAIN memoList}
             /\ memoList # <<>> => distribution[1][1] = 1
             /\ \A c \in DOMAIN distribution : \A j, k \in DOMAIN distribution[c] :
                   j < k => distribution[c][j] < distribution[c][k]
             /\ (\A m \in M!Mounted : tall[m] = itemHeights[m]) =>
                   \A c, d \in DOMAIN distribution :
                       Len(distribution[c]) > (IF c = 1 THEN 1 ELSE 0) =>
                           Summed(distribution[c], Above(laidUnder, c), tall, memoList)
                               - LastOf(distribution[c], tall, memoList)
                           <= Summed(distribution[d], Above(laidUnder, d), tall, memoList)
  <2>1. PICK made : GoodLayout(made, Len(memoList), memoList, columns, itemHeights, laidUnder) /\ made.of = distribution
    BY <1>2 DEF MasonryInv, ShownLayout
  <2>2. memoList \in Seq(Cards) /\ columns \in Nat \ {0} /\ tall \in [Cards -> Nat] /\ itemHeights \in [Cards -> Nat]
    BY DEF MasonryInv, MasonryTyped
  <2>3. /\ distribution \in [1..columns -> Seq(1..Len(memoList))] /\ Placed(distribution, Len(memoList))
        /\ Measured(made, memoList, itemHeights, laidUnder) /\ Even(made, memoList, itemHeights)
    BY <2>1 DEF GoodLayout, Layouts
  <2>4. /\ DOMAIN distribution = 1..columns /\ DOMAIN memoList = 1..Len(memoList) /\ Len(memoList) \in Nat
        /\ \A c \in 1..columns : DOMAIN distribution[c] = 1..Len(distribution[c])
    BY <2>2, <2>3
  <2>5. M!Mounted = {memoList[i] : i \in DOMAIN memoList}
    <3>1. \A i \in 1..Len(memoList) : \E c \in 1..columns : i \in M!ShownIn(c)
      BY <2>3, <2>4 DEF Placed, M!ShownIn
    <3>2. \A c \in 1..columns : M!ShownIn(c) \subseteq DOMAIN memoList
      BY DEF M!ShownIn
    <3>3. UNION {M!ShownIn(c) : c \in 1..columns} = DOMAIN memoList
      BY <2>4, <3>1, <3>2
    <3> QED
      BY <3>3 DEF M!Mounted
  <2>6. memoList # <<>> => distribution[1][1] = 1
    <3>1. memoList # <<>> => Len(memoList) # 0
      BY <2>2
    <3> QED
      BY <2>3, <3>1 DEF Placed
  <2>7. \A c \in DOMAIN distribution : \A j, k \in DOMAIN distribution[c] :
            j < k => distribution[c][j] < distribution[c][k]
    BY <2>3, <2>4 DEF Placed
  <2>8. ASSUME \A m \in M!Mounted : tall[m] = itemHeights[m],
               NEW c \in DOMAIN distribution, NEW d \in DOMAIN distribution,
               Len(distribution[c]) > (IF c = 1 THEN 1 ELSE 0)
        PROVE  Summed(distribution[c], Above(laidUnder, c), tall, memoList) - LastOf(distribution[c], tall, memoList)
               <= Summed(distribution[d], Above(laidUnder, d), tall, memoList)
    <3>1. SameSizes(itemHeights, tall, memoList)
      BY <2>4, <2>5, <2>8 DEF SameSizes
    <3>2. /\ made.tall[c] = Summed(distribution[c], Above(laidUnder, c), tall, memoList)
          /\ made.tall[d] = Summed(distribution[d], Above(laidUnder, d), tall, memoList)
      BY <2>1, <2>2, <2>3, <2>8, <3>1 DEF Measured
    <3>3. made.tall[c] - LastOf(distribution[c], itemHeights, memoList) <= made.tall[d]
      BY <2>1, <2>3, <2>8 DEF Even
    <3>4. LastOf(distribution[c], itemHeights, memoList) = LastOf(distribution[c], tall, memoList)
      <4>1. c \in 1..columns /\ Len(distribution[c]) \in Nat /\ Len(distribution[c]) # 0
        BY <2>3, <2>4, <2>8
      <4>2. distribution[c][Len(distribution[c])] \in 1..Len(memoList)
        BY <2>3, <4>1
      <4> QED
        BY <3>1, <4>2 DEF LastOf, SameSizes
    <3> QED
      BY <3>2, <3>3, <3>4
  <2> QED
    BY <2>5, <2>6, <2>7, <2>8
<1>3. M!AllShown
  BY <1>2 DEF M!AllShown
<1>4. M!Balanced
  BY <1>2 DEF M!Balanced, Summed, LastOf, Above
<1> QED
  BY <1>1, <1>3, <1>4 DEF M!LayoutSettles

EffectsInv == ChoiceInv /\ FilterInv /\ NamesInv /\ ShellInv /\ FocusInv /\ MasonryInv

(* Effects and events that follow a change come to rest where the last one  *)
(* left off: the copies of the editor's preferences, the filters and the    *)
(* address, the name of a place, the status bar, focus mode and Vditor, and *)
(* the columns, each memo in one, once, and none longer than another by     *)
(* more than its last memo.                                                 *)
THEOREM EffectsAlwaysSettle == PagesSpec => []EffectsSettle
<1>1. PagesInit => EffectsInv
  BY ChoicesStart, FiltersStart, NamesStart, ShellStarts, FocusStarts, MasonryStarts DEF PagesInit, EffectsInv
<1>2. EffectsInv /\ [PagesNext]_allVars => EffectsInv'
  BY StepsOfParts, ChoicesKept, FiltersKept, NamesKept, ShellKept, FocusKept, MasonryKept DEF EffectsInv
<1>3. EffectsInv => EffectsSettle
  BY ChoicesShow, FiltersShow, NamesShow, ShellShows, FocusShows, MasonryShows DEF EffectsInv, EffectsSettle
<1> QED
  BY <1>1, <1>2, <1>3, PTL DEF PagesSpec
================================================================================
