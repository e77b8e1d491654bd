-------------------------------- MODULE AppShell --------------------------------
(***************************************************************************)
(* The theme and the status bar of the Android app (web/src/App.tsx,       *)
(* web/src/utils/theme.ts, hooks/useUserTheme.ts): the page gives the      *)
(* status bar the colours of its theme by four calls of a plugin, when it  *)
(* starts and whenever the theme changes, without waiting for the calls    *)
(* that are still under way.                                               *)
(*                                                                         *)
(* The plugin does the calls in the order in which they are made.          *)
(***************************************************************************)
EXTENDS Naturals, Sequences

CONSTANTS
    Themes, DarkThemes,
    MaxThemes, MaxFailures  \* bounds: themes loaded; calls that fail

VARIABLES
    theme,      \* data-theme and the style sheet that goes with it
    phase,      \* of setupStatusBar
    calls,      \* of the plugin, in order: one of each run of applyStatusBarTheme under way
    style, color,   \* of the status bar
    fill,       \* of the page behind it
    seen,       \* the theme the last run has found
    themes, failures

vars == <<theme, phase, calls, style, color, fill, seen, themes, failures>>

Call == [step : 1..4, theme : Themes]
StyleOf(t) == IF t \in DarkThemes THEN "Dark" ELSE "Light"

Init ==
    /\ theme \in Themes /\ fill = theme
    /\ phase = "importing" /\ calls = <<>>
    /\ style \in {"Dark", "Light"} /\ color = "system"
    /\ seen = "none"
    /\ themes = 0 /\ failures = 0

(* Mutant: a change is left alone while calls are under way. *)
BegunAlone(t) ==
    IF calls # <<>> THEN seen' = t /\ UNCHANGED calls
    ELSE seen' = t /\ calls' = <<[step |-> 1, theme |-> t]>>

(* applyStatusBarTheme, up to its first call.                              *)
Begun(t) == seen' = t /\ calls' = Append(calls, [step |-> 1, theme |-> t])

(* The plugin is there.                                                    *)
FirstRun ==
    /\ phase = "importing" /\ phase' = "first"
    /\ Begun(theme)
    /\ UNCHANGED <<theme, style, color, fill, themes, failures>>

(* loadTheme; the observer hears of it, even if the theme is the same.      *)
LoadTheme(t) ==
    /\ themes < MaxThemes /\ themes' = themes + 1
    /\ theme' = t
    /\ IF phase = "observing" THEN Begun(t) ELSE UNCHANGED <<seen, calls>>
    /\ UNCHANGED <<phase, style, color, fill, failures>>

(* What follows the calls of a run, which have all been answered or of     *)
(* which one has failed. After the first run, changes are observed.        *)
Ends(t) ==
    /\ calls' = Tail(calls)
    /\ fill' = t
    /\ phase' = "observing"

(* setOverlaysWebView, setStyle, setBackgroundColor, getInfo.              *)
Answered ==
    /\ calls # <<>>
    /\ LET c == Head(calls) IN
         /\ style' = IF c.step = 2 THEN StyleOf(c.theme) ELSE style
         /\ color' = IF c.step = 3 THEN c.theme ELSE color
         /\ IF c.step = 4 THEN Ends(c.theme)
            ELSE calls' = Append(Tail(calls), [c EXCEPT !.step = @ + 1]) /\ UNCHANGED <<fill, phase>>
    /\ UNCHANGED <<theme, seen, themes, failures>>

Failed ==
    /\ calls # <<>> /\ failures < MaxFailures /\ failures' = failures + 1
    /\ Ends(Head(calls).theme)
    /\ UNCHANGED <<theme, style, color, seen, themes>>

Next == FirstRun \/ Answered \/ Failed \/ \E t \in Themes : LoadTheme(t)

Spec == Init /\ [][Next]_vars

-------------------------------------------------------------------------------
TypeOK ==
    /\ theme \in Themes /\ fill \in Themes
    /\ phase \in {"importing", "first", "observing"}
    /\ calls \in Seq(Call)
    /\ style \in {"Dark", "Light"} /\ color \in Themes \cup {"system"}
    /\ seen \in Themes \cup {"none"}
    /\ themes \in 0..MaxThemes /\ failures \in 0..MaxFailures

(* When all calls have been answered and none has failed, the status bar   *)
(* and the page behind it have the colours of the theme that was last      *)
(* found, and none of a run it has overtaken.                              *)
(* Not so after a failure: the run that fails ends before older ones.      *)
BarFollows ==
    phase = "observing" /\ calls = <<>> /\ failures = 0 =>
        fill = seen /\ color = seen /\ style = StyleOf(seen)

(* Not so: that theme is the one of the page. It is observed only once the *)
(* first run has ended, and changes before that are not made up for.       *)
ThemeIsSeen == phase = "observing" => seen = theme
================================================================================
