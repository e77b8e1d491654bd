------------------------------ MODULE FocusEditor ------------------------------
(***************************************************************************)
(* The focus mode of an editor (web/src/components/MemoEditor/index.tsx,   *)
(* components/VditorFocusEditor.tsx): the text is in two places, the state *)
(* of the editor and Vditor, which is loaded when focus mode begins.       *)
(* Vditor tells what was typed some time later, or never once it is        *)
(* destroyed; an effect gives it what has changed elsewhere; and leaving   *)
(* focus mode through the page behind it takes 200 ms.                     *)
(***************************************************************************)
EXTENDS Naturals

CONSTANTS
    FocusTags,
    Patient,    \* subset of BOOLEAN: whether the user waits for the page to be at rest
    MaxBody, MaxClicks  \* bounds: texts typed; clicks

VARIABLES
    patient,
    content,    \* state.content
    focus,      \* state.ui.isFocusMode
    exiting,    \* isExiting, while the timer of exitTimerRef runs
    vditor,     \* "none", "loading" or "ready": vditorRef
    captured,   \* the value Vditor will start with
    shown,      \* Vditor's text
    late,       \* Vditor has not told of it yet
    due,        \* the effect of value has not run yet
    gone,       \* texts of destroyed editors that may still be told
    saving,     \* what handleSave is saving
    dark, vdark, \* the theme of the page and of Vditor
    typedIn,    \* the text the user wants, and
    inFocus,    \* whether in focus mode
    unheard,    \* the text has changed while Vditor was loading
    body, clicks

vars == <<patient, content, focus, exiting, vditor, captured, shown, late, due, gone, saving,
          dark, vdark, typedIn, inFocus, unheard, body, clicks>>

Content == [body : 0..MaxBody, tags : SUBSET FocusTags]
Blank == [body |-> 0, tags |-> {}]
None == [body |-> 0]

Init ==
    /\ patient \in Patient
    /\ content = Blank /\ typedIn = Blank /\ shown = Blank /\ captured = Blank
    /\ focus = FALSE /\ exiting = FALSE /\ inFocus = FALSE
    /\ vditor = "none" /\ late = FALSE /\ due = FALSE /\ gone = {}
    /\ saving = None /\ unheard = FALSE
    /\ dark = FALSE /\ vdark = FALSE
    /\ body = 0 /\ clicks = 0

Still == ~due /\ ~exiting /\ gone = {} /\ saving = None
Calm == Still /\ ~late /\ vditor # "loading"
Click == clicks < MaxClicks /\ clicks' = clicks + 1 /\ (patient => Calm)

-------------------------------------------------------------------------------
(* updateContent, from wherever: Vditor hears of it by the effect.         *)
Update(text) ==
    /\ content' = text
    /\ due' = (due \/ (vditor # "none" /\ text # content))
    /\ unheard' = (unheard \/ (vditor = "loading" /\ text # content))

(* The area of the ordinary editor, or Vditor.                             *)
TypeInArea ==
    /\ ~focus /\ body < MaxBody /\ body' = body + 1
    /\ patient => Still
    /\ Update([content EXCEPT !.body = body + 1])
    /\ typedIn' = [typedIn EXCEPT !.body = body + 1]
    /\ UNCHANGED <<patient, focus, exiting, vditor, captured, shown, late, gone, saving, dark, vdark,
                   inFocus, clicks>>

TypeInVditor ==
    /\ vditor = "ready" /\ body < MaxBody /\ body' = body + 1
    /\ patient => Still
    /\ shown' = [shown EXCEPT !.body = body + 1] /\ late' = TRUE
    /\ typedIn' = [typedIn EXCEPT !.body = body + 1]
    /\ UNCHANGED <<patient, content, focus, exiting, vditor, captured, due, gone, saving, dark, vdark,
                   inFocus, unheard, clicks>>

(* Mutant: the callback of the first render is called for ever. *)
InputOnce ==
    /\ vditor = "ready" /\ late /\ late' = FALSE
    /\ IF captured = Blank THEN Update(shown) ELSE UNCHANGED <<content, due, unheard>>
    /\ UNCHANGED <<patient, focus, exiting, vditor, captured, shown, gone, saving, dark, vdark, typedIn,
                   inFocus, body, clicks>>

Input ==
    /\ vditor = "ready" /\ late /\ late' = FALSE
    /\ content' = shown
    /\ due' = (due \/ shown # content)
    /\ unheard' = FALSE
    /\ UNCHANGED <<patient, focus, exiting, vditor, captured, shown, gone, saving, dark, vdark, typedIn,
                   inFocus, body, clicks>>

(* Mutant: Vditor is left alone once it has a text. *)
ValueEffectOnce ==
    /\ due /\ due' = FALSE
    /\ IF vditor = "ready" /\ shown = Blank
       THEN shown' = content /\ late' = FALSE ELSE UNCHANGED <<shown, late>>
    /\ UNCHANGED <<patient, content, focus, exiting, vditor, captured, gone, saving, dark, vdark, typedIn,
                   inFocus, unheard, body, clicks>>

(* The effect of value: setValue takes what has not been told with it.     *)
ValueEffect ==
    /\ due /\ due' = FALSE
    /\ IF vditor = "ready" /\ shown # content
       THEN shown' = content /\ late' = FALSE /\ unheard' = FALSE
       ELSE UNCHANGED <<shown, late, unheard>>
    /\ UNCHANGED <<patient, content, focus, exiting, vditor, captured, gone, saving, dark, vdark, typedIn,
                   inFocus, body, clicks>>

(* initializeVditor: the value of the render that began it.                *)
Initialized ==
    /\ vditor = "loading" /\ vditor' = "ready"
    /\ shown' = captured /\ late' = FALSE
    /\ vdark' = dark
    /\ UNCHANGED <<patient, content, focus, exiting, captured, due, gone, saving, dark, typedIn, inFocus,
                   unheard, body, clicks>>

(* The observer of data-theme.                                             *)
ApplyTheme ==
    /\ clicks < MaxClicks /\ clicks' = clicks + 1
    /\ dark' = ~dark
    /\ vdark' = IF vditor = "ready" THEN ~dark ELSE vdark
    /\ UNCHANGED <<patient, content, focus, exiting, vditor, captured, shown, late, due, gone, saving,
                   typedIn, inFocus, unheard, body>>

(* Vditor is mounted, or destroyed with what it has not told.              *)
Mount == vditor' = "loading" /\ captured' = content /\ unheard' = FALSE /\ UNCHANGED <<late, due, gone>>
Destroy ==
    /\ vditor' = "none"
    /\ gone' = IF vditor = "ready" /\ late THEN gone \cup {shown} ELSE gone
    /\ late' = FALSE /\ due' = FALSE
    /\ unheard' = FALSE /\ UNCHANGED captured

Told(text) ==
    /\ text \in gone /\ gone' = gone \ {text}
    /\ \/ Update(text)
       \/ UNCHANGED <<content, due, unheard>>
    /\ UNCHANGED <<patient, focus, exiting, vditor, captured, shown, late, saving, dark, vdark, typedIn,
                   inFocus, body, clicks>>

-------------------------------------------------------------------------------
(* A double click, handleRequestFocusMode, or the menu of the toolbar,     *)
(* toggleFocusMode.                                                        *)
Enter ==
    /\ Click /\ ~focus
    /\ focus' = TRUE /\ inFocus' = TRUE
    /\ Mount
    /\ UNCHANGED <<patient, content, exiting, shown, saving, dark, vdark, typedIn, body>>

(* The menu again: at once, and the timer is left alone.                   *)
Toggle ==
    /\ Click /\ focus
    /\ focus' = FALSE /\ inFocus' = FALSE
    /\ Destroy
    /\ UNCHANGED <<patient, content, exiting, shown, saving, dark, vdark, typedIn, body>>

(* FocusModeOverlay, handleToggleFocusMode                                 *)
LeaveFocus ==
    /\ Click /\ focus /\ ~exiting
    /\ exiting' = TRUE /\ inFocus' = FALSE
    /\ UNCHANGED <<patient, content, focus, vditor, captured, shown, late, due, gone, saving, dark, vdark,
                   typedIn, unheard, body>>

(* The timer, whoever has left or entered focus mode since.                *)
FocusLeft ==
    /\ exiting /\ exiting' = FALSE
    /\ focus' = FALSE
    /\ IF focus THEN Destroy ELSE UNCHANGED <<vditor, gone, late, due, unheard, captured>>
    /\ UNCHANGED <<patient, content, shown, saving, dark, vdark, typedIn, inFocus, body, clicks>>

(* appendTagToContent, removeTagFromContent: of the text the page has.     *)
AppendTag(t) ==
    /\ Click /\ focus /\ t \notin content.tags
    /\ Update([content EXCEPT !.tags = @ \cup {t}])
    /\ typedIn' = [typedIn EXCEPT !.tags = @ \cup {t}]
    /\ UNCHANGED <<patient, focus, exiting, vditor, captured, shown, late, gone, saving, dark, vdark,
                   inFocus, body>>

RemoveTag(t) ==
    /\ Click /\ focus /\ t \in content.tags
    /\ Update([content EXCEPT !.tags = @ \ {t}])
    /\ typedIn' = [typedIn EXCEPT !.tags = @ \ {t}]
    /\ UNCHANGED <<patient, focus, exiting, vditor, captured, shown, late, gone, saving, dark, vdark,
                   inFocus, body>>

(* ctrlEnter, or the button: what the page has, not what Vditor has.       *)
Save ==
    /\ Click /\ saving = None /\ content # Blank
    /\ saving' = content
    /\ UNCHANGED <<patient, content, focus, exiting, vditor, captured, shown, late, due, gone, dark, vdark,
                   typedIn, inFocus, unheard, body>>

Saved ==
    /\ saving # None /\ saving' = None
    /\ content' = Blank /\ typedIn' = Blank
    /\ focus' = FALSE /\ inFocus' = FALSE
    /\ Destroy
    /\ UNCHANGED <<patient, exiting, shown, dark, vdark, body, clicks>>

NotSaved ==
    /\ saving # None /\ saving' = None
    /\ UNCHANGED <<patient, content, focus, exiting, vditor, captured, shown, late, due, gone, dark, vdark,
                   typedIn, inFocus, unheard, body, clicks>>

Next ==
    \/ TypeInArea \/ TypeInVditor \/ Input \/ ValueEffect \/ Initialized \/ ApplyTheme
    \/ Enter \/ Toggle \/ LeaveFocus \/ FocusLeft \/ Save \/ Saved \/ NotSaved
    \/ \E text \in gone : Told(text)
    \/ \E t \in FocusTags : AppendTag(t) \/ RemoveTag(t)

Spec == Init /\ [][Next]_vars

-------------------------------------------------------------------------------
TypeOK ==
    /\ content \in Content /\ shown \in Content /\ captured \in Content /\ typedIn \in Content
    /\ saving \in Content \cup {None} /\ gone \subseteq Content
    /\ vditor \in {"none", "loading", "ready"}
    /\ {patient, focus, exiting, late, due, dark, vdark, inFocus, unheard} \subseteq BOOLEAN
    /\ focus <=> vditor # "none"
    /\ body \in 0..MaxBody /\ clicks \in 0..MaxClicks

(* A user who acts when the page is at rest loses nothing: what was typed  *)
(* and tagged is in Vditor until that has told of it, and then in the      *)
(* editor's state, which is what a save sends.                             *)
NothingOverwritten ==
    patient => /\ (IF late THEN shown ELSE content) = typedIn
               /\ saving # None => saving = typedIn

(* Such a user leaves focus mode when he asks to.                          *)
FocusAsAsked == patient => (inFocus <=> focus /\ ~exiting)

(* At rest Vditor shows the text and the theme of the page, however fast   *)
(* the user is, unless the text has changed while Vditor was loading.      *)
VditorFollows ==
    vditor = "ready" /\ ~late /\ ~due => (shown = content \/ unheard) /\ vdark = dark
================================================================================
