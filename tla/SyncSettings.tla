------------------------------ MODULE SyncSettings ------------------------------
(***************************************************************************)
(* The synchronisation settings in the tabs of a browser: the preferences  *)
(* and the runtime status in localStorage, the copies the pages show, and  *)
(* the runs of the settings page and of the triggers that mark their       *)
(* outcome in the status                                                   *)
(* (web/src/hooks/useMemoreSyncPreferences.ts, useMemoreSyncRuntimeStatus  *)
(* .ts, web/src/components/Settings/PreferencesSection.tsx and the status  *)
(* functions of web/src/lib/memore-sync.ts).                               *)
(*                                                                         *)
(* What a run does to memos is in MemoSync, the lock of two tabs in        *)
(* SyncTabLock: here a run has an outcome and the lock is a mutex.  Writes *)
(* that localStorage refuses are left out.                                 *)
(***************************************************************************)
EXTENDS Naturals

CONSTANTS
    Tabs, Servers,
    MaxEdits,   \* bound: changes of the preferences
    MaxRuns     \* bound: runs started, and pages loaded again

VARIABLES
    prefs,     \* the preferences in localStorage
    copy,      \* those a page has
    status,    \* the runtime status in localStorage, of each server
    shown,     \* the status a page shows, of the server in its preferences
    events,    \* storage events a page has not handled yet
    job,       \* the runs of each page, by button or trigger
    lock,      \* the page and run that hold the lock of a server
    last,      \* how the last run of each phase that reports ended, per server
    chosen,    \* the preferences as they were last chosen, in any page
    edits, runs

vars == <<prefs, copy, status, shown, events, job, lock, last, chosen, edits, runs>>

(* `on` is enableRemoteSync and stands for every other preference too.      *)
Preferences == [on : BOOLEAN, url : Servers \cup {"none"}]
DefaultPreferences == [on |-> FALSE, url |-> "none"]

(* err is lastErrorPhase, bg is backgroundSyncState.                        *)
Phases == {"push", "pull", "connection"}
Status == [err : Phases \cup {"none"}, bg : {"none", "idle", "running", "locked"}]
EmptyStatus == [err |-> "none", bg |-> "none"]

(* The test of the connection, push, pull and dry run of the settings page, *)
(* and the run of a trigger, which pushes, pulls and then does comments.    *)
Jobs == {"test", "push", "pull", "dry", "triggered"}
Steps == {"none", "connection", "push", "pull", "comments", "refused", "asks"}
NoJob == [step |-> "none", server |-> "none", confirmed |-> FALSE]

(* normalizeMemoreRemoteServerUrl: is the address one of a server?          *)
Usable(s) == s # "none"

StatusOf(s) == IF Usable(s) THEN status[s] ELSE EmptyStatus

Init ==
    /\ prefs = DefaultPreferences
    /\ copy = [t \in Tabs |-> DefaultPreferences]
    /\ status = [s \in Servers |-> EmptyStatus]
    /\ shown = [t \in Tabs |-> EmptyStatus]
    /\ events = [t \in Tabs |-> {}]
    /\ job = [t \in Tabs |-> [j \in Jobs |-> NoJob]]
    /\ lock = [s \in Servers |-> <<>>]
    /\ last = [s \in Servers |-> [p \in Phases |-> "none"]]
    /\ chosen = DefaultPreferences
    /\ edits = 0 /\ runs = 0

-------------------------------------------------------------------------------
(* A write of page t: the other pages get storage events.                  *)
Noticed(t, kinds, seen) ==
    [u \in Tabs |-> IF u = t THEN events[u] \ seen ELSE events[u] \cup kinds]

(* Mutant: the event of a run is shown whatever server it is about. *)
SetStatusAnyServer(t, s, new) ==
    /\ status' = [status EXCEPT ![s] = new]
    /\ shown' = [shown EXCEPT ![t] = new]
    /\ events' = Noticed(t, {"status"}, {})

(* updateMemoreSyncRuntimeStatus: read, change, write, and tell the hook   *)
(* of the page, which takes it if it is about its server.                  *)
SetStatus(t, s, new) ==
    /\ status' = [status EXCEPT ![s] = new]
    /\ shown' = [shown EXCEPT ![t] = IF copy[t].url = s THEN new ELSE @]
    /\ events' = Noticed(t, {"status"}, {})

(* The page has new preferences p: the status of another server is read,   *)
(* and without synchronisation its background state becomes idle           *)
(* (the first effect of useMemoreTriggeredSync).                           *)
Adopt(t, p, kinds, seen) ==
    LET idles == p # copy[t] /\ ~p.on /\ Usable(p.url)
        now   == IF idles THEN [StatusOf(p.url) EXCEPT !.bg = "idle"]
                 ELSE IF p.url # copy[t].url THEN StatusOf(p.url) ELSE shown[t] IN
    /\ copy' = [copy EXCEPT ![t] = p]
    /\ status' = IF idles THEN [status EXCEPT ![p.url] = now] ELSE status
    /\ shown' = [shown EXCEPT ![t] = now]
    /\ events' = Noticed(t, kinds \cup IF idles THEN {"status"} ELSE {}, seen)

(* updateSyncPreferences: writes the whole object as this page has it.      *)
Edit(t, field, value) ==
    LET p == [copy[t] EXCEPT ![field] = value] IN
    /\ edits < MaxEdits /\ edits' = edits + 1
    /\ prefs' = p
    /\ chosen' = [chosen EXCEPT ![field] = value]
    /\ Adopt(t, p, {"prefs"}, {})
    /\ UNCHANGED <<job, lock, last, runs>>

ToggleOn(t) == Edit(t, "on", ~copy[t].on)
TypeUrl(t) == \E s \in (Servers \cup {"none"}) \ {copy[t].url} : Edit(t, "url", s)

(* The storage events: the hooks read localStorage again.                  *)
PreferencesEvent(t) ==
    /\ "prefs" \in events[t]
    /\ Adopt(t, prefs, {}, {"prefs"})
    /\ UNCHANGED <<prefs, job, lock, last, chosen, edits, runs>>

StatusEvent(t) ==
    /\ "status" \in events[t]
    /\ shown' = [shown EXCEPT ![t] = StatusOf(copy[t].url)]
    /\ events' = [events EXCEPT ![t] = @ \ {"status"}]
    /\ UNCHANGED <<prefs, copy, status, job, lock, last, chosen, edits, runs>>

-------------------------------------------------------------------------------
(* What a run writes when a phase ends: markSyncErrorStatus,               *)
(* markPushSuccessStatus, markPullSuccessStatus, clearConnectionErrorStatus *)
(* A dry run marks failures only, a push or pull that stops to ask nothing. *)

(* Mutant: a success clears nothing. *)
MarkedKeeping(s, phase, outcome) ==
    IF outcome = "failed" THEN [status[s] EXCEPT !.err = phase] ELSE status[s]

Marked(s, phase, outcome) ==
    CASE outcome = "failed" -> [status[s] EXCEPT !.err = phase]
      [] outcome = "ok" /\ status[s].err = phase -> [status[s] EXCEPT !.err = "none"]
      [] OTHER -> status[s]

Recorded(s, phase, outcome) ==
    last' = IF outcome \in {"ok", "failed"} THEN [last EXCEPT ![s][phase] = outcome] ELSE last

Idle(stat) == [stat EXCEPT !.bg = "idle"]
Locked(t, j, s) == lock[s] = <<t, j>>
Freed(t, j, s) == IF Locked(t, j, s) THEN [lock EXCEPT ![s] = <<>>] ELSE lock
Busy(t, js) == \E j \in js : job[t][j].step # "none"

(* The buttons. A push or pull that finds the lock taken ends at once.      *)
Press(t, j) ==
    LET s == copy[t].url
        locks == j \in {"push", "pull"} IN
    /\ runs < MaxRuns /\ runs' = runs + 1
    /\ Usable(s) /\ ~Busy(t, {"test"})
    /\ j # "test" => copy[t].on /\ ~Busy(t, {"push", "pull", "dry"})
    /\ locks => lock[s] = <<>>
    /\ job' = [job EXCEPT ![t][j] = [NoJob EXCEPT !.server = s,
                 !.step = CASE j = "test" -> "connection" [] j = "push" -> "push" [] OTHER -> "pull"]]
    /\ lock' = IF locks THEN [lock EXCEPT ![s] = <<t, j>>] ELSE lock
    /\ UNCHANGED <<prefs, copy, status, shown, events, last, chosen, edits>>

(* A phase of a run of the settings page ends; a dry run pushes after it    *)
(* has pulled, well or not.                                                *)
PhaseEnds(t, j) ==
    LET run == job[t][j] IN
    /\ j # "triggered" /\ run.step # "none"
    /\ \E outcome \in CASE j = "dry" -> {"unmarked", "failed"}
                        [] j = "test" -> {"ok", "failed"}
                        [] OTHER -> {"ok", "failed", "unmarked"} :
        /\ IF outcome = "unmarked" THEN UNCHANGED <<status, shown, events>>
           ELSE SetStatus(t, run.server, Marked(run.server, run.step, outcome))
        /\ Recorded(run.server, run.step, outcome)
    /\ job' = [job EXCEPT ![t][j] = IF j = "dry" /\ run.step = "pull"
                                    THEN [run EXCEPT !.step = "push"] ELSE NoJob]
    /\ lock' = Freed(t, j, run.server)
    /\ UNCHANGED <<prefs, copy, chosen, edits, runs>>

-------------------------------------------------------------------------------
(* The run of a trigger (useMemoreTriggeredSync), its background state.     *)
Trigger(t) ==
    LET s == copy[t].url
        free == lock[s] = <<>> IN
    /\ runs < MaxRuns /\ runs' = runs + 1
    /\ ~Busy(t, {"triggered"}) /\ copy[t].on /\ Usable(s)
    /\ SetStatus(t, s, [status[s] EXCEPT !.bg = "running"])
    /\ job' = [job EXCEPT ![t]["triggered"] =
                  [NoJob EXCEPT !.server = s, !.step = IF free THEN "push" ELSE "refused"]]
    /\ lock' = IF free THEN [lock EXCEPT ![s] = <<t, "triggered">>] ELSE lock
    /\ UNCHANGED <<prefs, copy, last, chosen, edits>>

TriggerRefused(t) ==
    LET run == job[t]["triggered"] IN
    /\ run.step = "refused"
    /\ SetStatus(t, run.server, [status[run.server] EXCEPT !.bg = "locked"])
    /\ job' = [job EXCEPT ![t]["triggered"] = NoJob]
    /\ UNCHANGED <<prefs, copy, lock, last, chosen, edits, runs>>

TriggeredPhaseEnds(t) ==
    LET run == job[t]["triggered"]
        s == run.server
        Goes(step, stat) ==
            /\ job' = [job EXCEPT ![t]["triggered"] =
                          IF step = "none" THEN NoJob ELSE [run EXCEPT !.step = step]]
            /\ lock' = IF step \in {"none", "asks"} THEN Freed(t, "triggered", s) ELSE lock
            /\ SetStatus(t, s, stat) IN
    /\ \/ /\ run.step = "push"
          /\ \/ Goes("none", Idle(Marked(s, "push", "failed"))) /\ Recorded(s, "push", "failed")
             \/ Goes("pull", Marked(s, "push", "ok")) /\ Recorded(s, "push", "ok")
       \/ /\ run.step = "pull"
          /\ \E outcome \in {"ok", "failed"} :
                Goes("comments", Marked(s, "pull", outcome)) /\ Recorded(s, "pull", outcome)
       \/ /\ run.step \in {"push", "pull"} /\ ~run.confirmed
          /\ Goes("asks", status[s]) /\ UNCHANGED last
       \/ /\ run.step = "comments"
          /\ Goes("none", Idle(status[s])) /\ UNCHANGED last
    /\ UNCHANGED <<prefs, copy, chosen, edits, runs>>

(* The dialog: a second run, unless the lock has been taken meanwhile; the *)
(* background state is left as it is then.                                 *)
TriggerAnswered(t) ==
    LET run == job[t]["triggered"]
        s == run.server IN
    /\ run.step = "asks"
    /\ \/ /\ SetStatus(t, s, Idle(status[s]))
          /\ job' = [job EXCEPT ![t]["triggered"] = NoJob]
          /\ UNCHANGED lock
       \/ /\ lock[s] = <<>>
          /\ job' = [job EXCEPT ![t]["triggered"] = [run EXCEPT !.step = "push", !.confirmed = TRUE]]
          /\ lock' = [lock EXCEPT ![s] = <<t, "triggered">>]
          /\ UNCHANGED <<status, shown, events>>
       \/ /\ lock[s] # <<>>
          /\ job' = [job EXCEPT ![t]["triggered"] = NoJob]
          /\ UNCHANGED <<status, shown, events, lock>>
    /\ UNCHANGED <<prefs, copy, last, chosen, edits, runs>>

-------------------------------------------------------------------------------
(* clearMemoreSyncRuntimeStatus, by its button or by that of the metadata;  *)
(* it takes the lock away from whoever has it.                             *)
ClearStatus(t) ==
    LET s == copy[t].url IN
    /\ runs < MaxRuns /\ runs' = runs + 1
    /\ Usable(s)
    /\ SetStatus(t, s, EmptyStatus)
    /\ lock' = [lock EXCEPT ![s] = <<>>]
    /\ UNCHANGED <<prefs, copy, job, last, chosen, edits>>

(* The page is loaded again: its runs end without a word, its locks are    *)
(* given back on unload, and the effects of the hooks run first.           *)
Reload(t) ==
    LET idles == ~prefs.on /\ Usable(prefs.url)
        now == IF idles THEN Idle(StatusOf(prefs.url)) ELSE StatusOf(prefs.url) IN
    /\ runs < MaxRuns /\ runs' = runs + 1
    /\ copy' = [copy EXCEPT ![t] = prefs]
    /\ status' = IF idles THEN [status EXCEPT ![prefs.url] = now] ELSE status
    /\ shown' = [shown EXCEPT ![t] = now]
    /\ events' = Noticed(t, IF idles THEN {"status"} ELSE {}, {"prefs", "status"})
    /\ job' = [job EXCEPT ![t] = [j \in Jobs |-> NoJob]]
    /\ lock' = [s \in Servers |-> IF \E j \in Jobs : Locked(t, j, s) THEN <<>> ELSE lock[s]]
    /\ UNCHANGED <<prefs, last, chosen, edits>>

Next ==
    \E t \in Tabs :
        \/ ToggleOn(t) \/ TypeUrl(t)
        \/ PreferencesEvent(t) \/ StatusEvent(t)
        \/ \E j \in Jobs \ {"triggered"} : Press(t, j) \/ PhaseEnds(t, j)
        \/ Trigger(t) \/ TriggerRefused(t) \/ TriggeredPhaseEnds(t) \/ TriggerAnswered(t)
        \/ ClearStatus(t) \/ Reload(t)

Spec == Init /\ [][Next]_vars

-------------------------------------------------------------------------------
TypeOK ==
    /\ prefs \in Preferences /\ copy \in [Tabs -> Preferences] /\ chosen \in Preferences
    /\ status \in [Servers -> Status] /\ shown \in [Tabs -> Status]
    /\ events \in [Tabs -> SUBSET {"prefs", "status"}]
    /\ job \in [Tabs -> [Jobs -> [step : Steps, server : Servers \cup {"none"}, confirmed : BOOLEAN]]]
    /\ lock \in [Servers -> {<<>>} \cup (Tabs \X Jobs)]
    /\ last \in [Servers -> [Phases -> {"none", "ok", "failed"}]]
    /\ edits \in 0..MaxEdits /\ runs \in 0..MaxRuns

(* A page that has no storage event to handle shows what localStorage has:  *)
(* the preferences, and the status of the server they name, although runs  *)
(* of other pages and of servers chosen earlier go on writing theirs.      *)
PagesAgree ==
    \A t \in Tabs :
        /\ "prefs" \notin events[t] => copy[t] = prefs
        /\ "status" \notin events[t] => shown[t] = StatusOf(copy[t].url)

(* An error is shown of a phase only if the last run of that phase that    *)
(* reports how it ended has failed.                                        *)
ErrorIsOfLastRun ==
    \A s \in Servers : status[s].err # "none" => last[s][status[s].err] = "failed"

(* Not so: the state "running" means that a triggered run is under way. A   *)
(* page that is closed, and a confirmed run that finds the lock taken,      *)
(* leave it behind.                                                        *)
RunningIsTrue ==
    \A s \in Servers : status[s].bg = "running" =>
        \E t \in Tabs : job[t]["triggered"].server = s

(* Not so: a preference stays what was chosen last. A page that has not    *)
(* handled the event of another writes its whole, older copy.              *)
PreferencesKept == prefs = chosen
================================================================================
