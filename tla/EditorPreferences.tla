---------------------------- MODULE EditorPreferences ----------------------------
(***************************************************************************)
(* The preferences of the editor (web/src/hooks/useMemoreEditorPreferences *)
(* .ts): one item of localStorage, of which every component that uses the  *)
(* hook has a copy, kept together by an event within a page and by storage *)
(* events between pages, and the font that each copy gives its page.       *)
(***************************************************************************)
EXTENDS Naturals

CONSTANTS
    Windows,    \* pages of the browser
    Hooks,      \* components of a page that may use the hook
    Fonts,
    MaxEditorEdits, MaxRefused  \* bounds: what users do; writes localStorage refuses

VARIABLES
    stored,     \* the item of localStorage
    used,       \* the components that are mounted, in each page
    has,        \* their copies
    font,       \* the font of each page
    told,       \* pages with a storage event they have not handled
    early,      \* ghost: pages in which a component was mounted meanwhile
    refused,    \* writes refused
    editorEdits

vars == <<stored, used, has, font, told, early, refused, editorEdits>>

(* enhanced stands for the other preferences too.                          *)
Default == [enhanced |-> TRUE, font |-> ""]
EditorPreferences == [enhanced : BOOLEAN, font : Fonts \cup {""}]

(* parsePreferences: without the item, the defaults.                       *)
Read == IF stored = <<>> THEN Default ELSE stored[1]

Init ==
    /\ stored = <<>>
    /\ used = [w \in Windows |-> {}]
    /\ has = [w \in Windows |-> [h \in Hooks |-> Default]]
    /\ font = [w \in Windows |-> ""]
    /\ told = {} /\ early = {}
    /\ refused = 0 /\ editorEdits = 0

Acts == editorEdits < MaxEditorEdits /\ editorEdits' = editorEdits + 1

(* Mutant: only the component that made the change has it. *)
TakenAlone(w, h, p) ==
    /\ has' = [has EXCEPT ![w][h] = p]
    /\ font' = [font EXCEPT ![w] = IF used[w] = {} THEN @ ELSE p.font]

(* Every copy of page w becomes p; the effect of a copy whose font changes *)
(* gives it to the page (applyCustomFont).                                 *)
Taken(w, h, p) ==
    /\ has' = [has EXCEPT ![w] = [g \in Hooks |-> IF g \in used[w] THEN p ELSE @[g]]]
    /\ font' = [font EXCEPT ![w] =
                  IF \E g \in used[w] : has[w][g].font # p.font THEN p.font ELSE @]

(* A change of the item is an event for the other pages.                   *)
Stored(w, item) ==
    /\ stored' = item
    /\ told' = IF item = stored THEN told ELSE told \cup (Windows \ {w})

-------------------------------------------------------------------------------
(* The hook of a component that is mounted. *)
Mount(w, h) ==
    /\ Acts /\ h \notin used[w]
    /\ used' = [used EXCEPT ![w] = @ \cup {h}]
    /\ has' = [has EXCEPT ![w][h] = Read]
    /\ font' = [font EXCEPT ![w] = Read.font]
    /\ early' = early \cup ({w} \cap told)
    /\ UNCHANGED <<stored, told, refused>>

Unmount(w, h) ==
    /\ h \in used[w]
    /\ used' = [used EXCEPT ![w] = @ \ {h}]
    /\ UNCHANGED <<stored, has, font, told, early, refused, editorEdits>>

(* updatePreferences and persistMemoreEditorPreferences: a whole copy, and *)
(* the event even if the write is refused.                                 *)
Update(w, h, p) ==
    /\ Acts /\ h \in used[w]
    /\ \/ Stored(w, <<p>>) /\ UNCHANGED refused
       \/ refused < MaxRefused /\ refused' = refused + 1 /\ UNCHANGED <<stored, told>>
    /\ Taken(w, h, p)
    /\ UNCHANGED <<used, early>>

(* The switches and the field of the settings.                             *)
Change(w, h) ==
    \/ Update(w, h, [has[w][h] EXCEPT !.enhanced = ~@])
    \/ \E f \in (Fonts \cup {""}) \ {has[w][h].font} : Update(w, h, [has[w][h] EXCEPT !.font = f])

(* handleStorageChanged, for the item as it is now.                        *)
StorageEvent(w) ==
    /\ w \in told /\ told' = told \ {w}
    /\ has' = [has EXCEPT ![w] = [g \in Hooks |-> IF g \in used[w] THEN Read ELSE @[g]]]
    /\ font' = [font EXCEPT ![w] =
                  IF \E g \in used[w] : has[w][g].font # Read.font THEN Read.font ELSE @]
    /\ UNCHANGED <<stored, used, early, refused, editorEdits>>

(* handleSignOut removes the item and leaves for a page without editors.   *)
SignOut(w) ==
    /\ Acts
    /\ Stored(w, <<>>)
    /\ used' = [used EXCEPT ![w] = {}]
    /\ font' = [font EXCEPT ![w] = ""]
    /\ UNCHANGED <<has, early, refused>>

Next ==
    \E w \in Windows :
        \/ StorageEvent(w) \/ SignOut(w)
        \/ \E h \in Hooks : Mount(w, h) \/ Unmount(w, h) \/ Change(w, h)

Spec == Init /\ [][Next]_vars

-------------------------------------------------------------------------------
TypeOK ==
    /\ stored \in {<<>>} \cup {<<p>> : p \in EditorPreferences}
    /\ used \in [Windows -> SUBSET Hooks]
    /\ has \in [Windows -> [Hooks -> EditorPreferences]]
    /\ font \in [Windows -> Fonts \cup {""}]
    /\ told \subseteq Windows /\ early \subseteq Windows
    /\ refused \in 0..MaxRefused /\ editorEdits \in 0..MaxEditorEdits

(* While localStorage takes what is written, a page that has no storage    *)
(* event to handle has one set of preferences, the stored one, in all its  *)
(* components, and their font - unless a component has been mounted in it  *)
(* before an event was handled.                                            *)
CopiesAgree ==
    refused = 0 => \A w \in Windows \ told : \A h \in used[w] :
        has[w][h] = Read /\ (w \notin early => font[w] = Read.font)

(* Not so: such a component gives the page the font it has read, and when  *)
(* it is gone and the font is set back the others, which have had the old  *)
(* one all the time, give it none.                                         *)
FontFollows ==
    refused = 0 => \A w \in Windows \ told : used[w] # {} => font[w] = Read.font

(* Not so: the components of a page agree when localStorage refuses, too.  *)
(* One that is mounted later reads what is stored.                         *)
PageAgrees == \A w \in Windows \ told : \A g, h \in used[w] : has[w][g] = has[w][h]
==================================================================================
