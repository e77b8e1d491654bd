-------------------------------- MODULE TaskList --------------------------------
(***************************************************************************)
(* The checkboxes of a memo (web/src/components/MemoContent/TaskListItem   *)
(* .tsx, web/src/utils/markdown-manipulation.ts): a click finds the place  *)
(* of its checkbox among those of the page, the line that has that place   *)
(* among the tasks of the text, and sends the whole text with that line    *)
(* changed.                                                                *)
(***************************************************************************)
EXTENDS Naturals, Sequences, FiniteSets

CONSTANTS
    Memos0,         \* the texts to begin with
    Requests,       \* updates there can be at once
    Unhurried,      \* subset of BOOLEAN: whether updates are made one at a time
    MaxToggles, MaxToggleFaults     \* bounds

VARIABLES
    unhurried,
    inDetail,       \* the memo is shown on its own page, not in a list
    text,           \* the text at the server, by lines
    read,           \* the text in the query the page shows
    refetch,        \* "none", "sent", or the text that is on its way
    event,          \* an event of a change has not arrived yet
    update,         \* the updates under way
    wanted,         \* the text with what users have clicked
    rolledBack,     \* the page shows what it did before a change that was made
    toggles, toggleFaults

vars == <<unhurried, inDetail, text, read, refetch, event, update, wanted, rolledBack,
          toggles, toggleFaults>>

(* A task of a bulleted list; one of a numbered list or a quotation; what  *)
(* looks like a bulleted task in a block of code.                          *)
Lines == [kind : {"bullet", "numbered", "code"}, done : BOOLEAN]
IsTask(line) == line.kind # "code"

(* The numbers of the lines in S, as they are pushed on the way through t. *)
Pushed(t, S) ==
    LET upTo[i \in 0..Len(t)] ==
            IF i = 0 THEN <<>> ELSE IF i \in S THEN Append(upTo[i - 1], i) ELSE upTo[i - 1]
    IN  upTo[Len(t)]

(* Mutant: tasks are found by the pattern of their lines. *)
TasksByPattern(t) == Pushed(t, {i \in DOMAIN t : t[i].kind # "numbered"})

(* extractTasksFromAst: the lines of the tasks, in their order.            *)
Tasks(t) == Pushed(t, {i \in DOMAIN t : IsTask(t[i])})

(* The place of a checkbox among those of the page. *)
Place(t, i) == Cardinality({j \in 1..i : IsTask(t[j])})

(* toggleTaskAtLine: a numbered task does not have the pattern. *)
ToggledAtLine(t, i, checked) ==
    IF t[i].kind = "numbered" THEN t ELSE [t EXCEPT ![i].done = checked]

(* toggleTaskAtIndex *)
ToggledAtIndex(t, n, checked) ==
    IF n \in DOMAIN Tasks(t) THEN ToggledAtLine(t, Tasks(t)[n], checked) ELSE t

Free == [step |-> "none"]
Init ==
    /\ unhurried \in Unhurried /\ inDetail \in BOOLEAN
    /\ text \in Memos0 /\ read = text /\ wanted = text
    /\ refetch = <<"none">> /\ event = FALSE /\ rolledBack = FALSE
    /\ update = [o \in Requests |-> Free]
    /\ toggles = 0 /\ toggleFaults = 0

Toggle == toggles < MaxToggles /\ toggles' = toggles + 1
Idle == \A o \in Requests : update[o] = Free
Settled == Idle /\ refetch = <<"none">> /\ ~event

-------------------------------------------------------------------------------
(* handleChange of the checkbox of line i; the page of the memo shows the  *)
(* change at once (useUpdateMemo.onMutate), a list does not.               *)
Click(o, i) ==
    LET new == ToggledAtIndex(read, Place(read, i), ~read[i].done) IN
    /\ Toggle /\ update[o] = Free /\ (unhurried => Settled /\ ~rolledBack)
    /\ i \in DOMAIN read /\ IsTask(read[i])
    /\ update' = [update EXCEPT ![o] = [step |-> "sent", new |-> new, old |-> read]]
    /\ wanted' = IF read[i].kind = "bullet" THEN [wanted EXCEPT ![i].done = ~read[i].done] ELSE wanted
    /\ IF inDetail THEN read' = new /\ refetch' = <<"none">> ELSE UNCHANGED <<read, refetch>>
    /\ UNCHANGED <<unhurried, inDetail, rolledBack, text, event, toggleFaults>>

Served(o) ==
    /\ update[o].step = "sent"
    /\ text' = update[o].new /\ event' = TRUE
    /\ update' = [update EXCEPT ![o].step = "done"]
    /\ UNCHANGED <<unhurried, inDetail, rolledBack, read, refetch, wanted, toggles, toggleFaults>>

(* onSuccess: the answer is the data of the page of the memo; lists are    *)
(* fetched again.                                                          *)
Succeeds(o) ==
    /\ update[o].step = "done"
    /\ update' = [update EXCEPT ![o] = Free]
    /\ IF inDetail THEN read' = update[o].new /\ UNCHANGED refetch
                   ELSE refetch' = <<"sent">> /\ UNCHANGED read
    /\ UNCHANGED <<unhurried, inDetail, rolledBack, text, event, wanted, toggles, toggleFaults>>

(* onError, after the retry: the page shows what it did before. *)
Fails(o) ==
    /\ update[o].step = "sent" /\ toggleFaults < MaxToggleFaults /\ toggleFaults' = toggleFaults + 1
    /\ update' = [update EXCEPT ![o] = Free]
    /\ wanted' = text
    /\ IF inDetail THEN read' = update[o].old ELSE UNCHANGED read
    /\ UNCHANGED <<unhurried, inDetail, rolledBack, text, refetch, event, toggles>>

(* The same, when the server has made the change.                          *)
AnswerLost(o) ==
    /\ update[o].step = "done" /\ toggleFaults < MaxToggleFaults /\ toggleFaults' = toggleFaults + 1
    /\ update' = [update EXCEPT ![o] = Free]
    /\ IF inDetail THEN read' = update[o].old /\ rolledBack' = TRUE ELSE UNCHANGED <<read, rolledBack>>
    /\ UNCHANGED <<unhurried, inDetail, text, refetch, event, wanted, toggles>>

(* Another page changes one task. *)
Others(i) ==
    /\ Toggle /\ (unhurried => Idle)
    /\ i \in DOMAIN text /\ text[i].kind = "bullet"
    /\ text' = [text EXCEPT ![i].done = ~@] /\ event' = TRUE
    /\ wanted' = [wanted EXCEPT ![i].done = ~text[i].done]
    /\ UNCHANGED <<unhurried, inDetail, rolledBack, read, refetch, update, toggleFaults>>

(* handleSSEEvent: fetched again, from the start. *)
Hears ==
    /\ event /\ event' = FALSE /\ refetch' = <<"sent">>
    /\ UNCHANGED <<unhurried, inDetail, rolledBack, text, read, update, wanted, toggles, toggleFaults>>

(* refetchOnWindowFocus, where it matters. *)
Focus ==
    /\ rolledBack /\ refetch = <<"none">> /\ refetch' = <<"sent">>
    /\ UNCHANGED <<unhurried, inDetail, rolledBack, text, read, event, update, wanted, toggles, toggleFaults>>

Reads ==
    /\ refetch = <<"sent">> /\ refetch' = <<"read", text>>
    /\ UNCHANGED <<unhurried, inDetail, rolledBack, text, read, event, update, wanted, toggles, toggleFaults>>

Arrives ==
    /\ Len(refetch) = 2 /\ read' = refetch[2] /\ refetch' = <<"none">> /\ rolledBack' = FALSE
    /\ UNCHANGED <<unhurried, inDetail, text, event, update, wanted, toggles, toggleFaults>>

Next ==
    \/ \E o \in Requests : Served(o) \/ Succeeds(o) \/ Fails(o) \/ AnswerLost(o) \/ \E i \in DOMAIN read : Click(o, i)
    \/ (\E i \in DOMAIN text : Others(i)) \/ Hears \/ Focus \/ Reads \/ Arrives

Spec == Init /\ [][Next]_vars

-------------------------------------------------------------------------------
TypeOK ==
    /\ {unhurried, inDetail, event, rolledBack} \subseteq BOOLEAN
    /\ {text, read, wanted} \subseteq Seq(Lines)
    /\ refetch = <<"none">> \/ refetch = <<"sent">> \/ (Len(refetch) = 2 /\ refetch[2] \in Seq(Lines))
    /\ \A o \in Requests : update[o].step \in {"none", "sent", "done"}
    /\ toggles \in 0..MaxToggles /\ toggleFaults \in 0..MaxToggleFaults

(* Whoever clicks, and when: no line but a bulleted task ever changes.     *)
OnlyTasksChange ==
    \A i \in DOMAIN text : text[i].kind # "bullet" => text[i] = wanted[i]

(* One at a time, changes are all kept, and shown when they are settled,   *)
(* and the page of the memo has been fetched again where it took a change  *)
(* back that the server has made (an answer was lost): until then it shows *)
(* the old text, and a click would send that.                              *)
TogglesKept ==
    unhurried => /\ Idle => text = wanted
                 /\ Settled /\ ~rolledBack => read = text

TasksKeepTheirOwn == OnlyTasksChange /\ TogglesKept

(* Not so: one after the other is enough.  In a list the second click      *)
(* sends the text that the first has not reached yet.                      *)
TogglesKeptInTurn == Idle /\ toggleFaults = 0 => text = wanted
================================================================================
