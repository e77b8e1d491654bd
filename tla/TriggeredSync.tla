----------------------------- MODULE TriggeredSync -----------------------------
(***************************************************************************)
(* When synchronisation runs: the hooks useMemoreTriggeredSync.ts (a       *)
(* change of a local memo, or the sync button) and useMemoreStartupSync.ts *)
(* (the first time a tab sees a server configured) of one tab, which get   *)
(* the lock of a server (SyncTabLock) and do a push, a pull and a comment  *)
(* sync under it (MemoSync).                                               *)
(*                                                                         *)
(* A trigger that comes while a triggered run is in progress is remembered *)
(* (pendingTriggerRef; a later one replaces it) and run at the end of that *)
(* run, by the same closure: with the preferences of the render the run    *)
(* was started from.                                                       *)
(***************************************************************************)
EXTENDS Naturals

CONSTANTS
    Servers,        \* remote servers the user may configure
    Off,            \* remote sync is disabled
    AutoStart,      \* autoSyncOnStartup
    OtherHolders,   \* other tabs and the settings page take the lock too
    MayFail,        \* a push or a pull may fail
    ChangeAnytime   \* preferences change during a triggered run too

TriggeredSyncAssumption ==
    /\ Off \notin Servers
    /\ {AutoStart, OtherHolders, MayFail, ChangeAnytime} \subseteq BOOLEAN

VARIABLES
    prefs,    \* the server synchronised with at present, or Off
    lock,     \* the holder of the lock of each server
    hook,     \* the triggered run
    startup,  \* the startup run of each server
    key,      \* the server of the last startup run (startupSyncKeyRef)
    lag       \* how far one change of a local memo is on its way to each server

vars == <<prefs, lock, hook, startup, key, lag>>

(* hook.phase: what the run awaits; "asking" is window.confirm, during     *)
(* which the tab does nothing else and holds no lock; "invalidating", the  *)
(* queries fetched again after the run, without the lock.                  *)
(* lag: unread, a change that no push has listed yet; read, listed by the  *)
(* push in progress; none, no change is followed.                          *)
Working == {"push", "pull", "comments"}
Hook ==
    [phase : Working \cup {"idle", "asking", "invalidating"}, server : Servers \cup {Off},
     pending : BOOLEAN, confirm : BOOLEAN]

TypeOK ==
    /\ prefs \in Servers \cup {Off}
    /\ lock \in [Servers -> {"free", "hook", "startup", "other"}]
    /\ hook \in Hook
    /\ startup \in [Servers -> Working \cup {"idle"}]
    /\ key \in Servers \cup {Off}
    /\ lag \in [Servers -> {"none", "unread", "read"}]

Resting == [phase |-> "idle", server |-> Off, pending |-> FALSE, confirm |-> FALSE]

Init ==
    /\ prefs \in Servers \cup {Off}
    /\ lock = [s \in Servers |-> "free"]
    /\ hook = Resting
    /\ startup = [s \in Servers |-> "idle"]
    /\ key = Off
    /\ lag = [s \in Servers |-> "none"]

Awake == hook.phase # "asking"
Running == hook.phase # "idle"

--------------------------------------------------------------------------------
(* The effect of the locks L and the lags G on a push that begins or ends. *)
Listed(G, s) == IF G[s] = "unread" THEN [G EXCEPT ![s] = "read"] ELSE G
Sent(G, s) == IF G[s] = "read" THEN [G EXCEPT ![s] = "none"] ELSE G
NotSent(G, s) == IF G[s] = "read" THEN [G EXCEPT ![s] = "unread"] ELSE G

(* runSyncCycle(confirm) with the locks L: the push begins if the lock is  *)
(* free; if not, the run is over, and what it was triggered for with it.   *)
RunCycle(s, confirm, pending, L, G) ==
    IF L[s] = "free"
      THEN /\ lock' = [L EXCEPT ![s] = "hook"]
           /\ hook' = [phase |-> "push", server |-> s, pending |-> pending, confirm |-> confirm]
           /\ lag' = Listed(G, s)
      ELSE /\ lock' = L
           /\ hook' = Resting
           /\ lag' = G

(* Mutant: the pending trigger is looked at only if the run has sent       *)
(* something, not on every way out.                                        *)
FinishForgets(L, G) ==
    IF hook.pending /\ hook.phase \in {"comments", "invalidating"}
      THEN RunCycle(hook.server, FALSE, FALSE, L, G)
      ELSE /\ lock' = L
           /\ hook' = [Resting EXCEPT !.pending = hook.pending]
           /\ lag' = G

(* The finally block: a pending trigger is run by the same closure. *)
Finish(L, G) ==
    IF hook.pending
      THEN RunCycle(hook.server, FALSE, FALSE, L, G)
      ELSE /\ lock' = L
           /\ hook' = Resting
           /\ lag' = G

Released(s) == [lock EXCEPT ![s] = "free"]

(* runTriggeredSync, as the event listener of the present render calls it. *)
Trigger(G) ==
    IF Running
      THEN /\ hook' = [hook EXCEPT !.pending = TRUE]
           /\ lag' = G
           /\ UNCHANGED lock
      ELSE RunCycle(prefs, FALSE, FALSE, lock, G)

(* A local memo is created, changed or deleted: a change to follow, or     *)
(* not.  The sync button triggers in the same way.  The preferences are    *)
(* looked at only if no run is in progress.                                *)
LocalChange ==
    /\ Awake
    /\ \/ (Running \/ prefs # Off) /\ Trigger(lag)
       \/ prefs # Off /\ lag[prefs] = "none" /\ Trigger([lag EXCEPT ![prefs] = "unread"])
    /\ UNCHANGED <<prefs, startup, key>>

(* Mutant: the lock is kept while the user is asked. *)
PushEndsKeepsLock ==
    /\ hook.phase = "push"
    /\ LET s == hook.server
       IN  \/ /\ hook' = [hook EXCEPT !.phase = "pull"]
              /\ lag' = Sent(lag, s)
              /\ UNCHANGED lock
           \/ /\ ~hook.confirm
              /\ hook' = [hook EXCEPT !.phase = "asking"]
              /\ lag' = Sent(lag, s)
              /\ UNCHANGED lock
           \/ MayFail /\ Finish(Released(s), NotSent(lag, s))
    /\ UNCHANGED <<prefs, startup, key>>

(* syncMemoreLocalMemosToRemote returns: an error ends the run, too many   *)
(* deletions end the task and with it the lock, and the user is asked.     *)
PushEnds ==
    /\ hook.phase = "push"
    /\ LET s == hook.server
       IN  \/ /\ hook' = [hook EXCEPT !.phase = "pull"]
              /\ lag' = Sent(lag, s)
              /\ UNCHANGED lock
           \/ /\ ~hook.confirm
              /\ hook' = [hook EXCEPT !.phase = "asking"]
              /\ lock' = Released(s)
              /\ lag' = Sent(lag, s)
           \/ MayFail /\ Finish(Released(s), NotSent(lag, s))
    /\ UNCHANGED <<prefs, startup, key>>

(* syncMemoreRemoteMemosToLocal returns; comments are synchronised even if *)
(* it has failed, but not before the user has been asked.                  *)
PullEnds ==
    /\ hook.phase = "pull"
    /\ \/ /\ hook' = [hook EXCEPT !.phase = "comments"]
          /\ UNCHANGED lock
       \/ /\ ~hook.confirm
          /\ hook' = [hook EXCEPT !.phase = "asking"]
          /\ lock' = Released(hook.server)
    /\ UNCHANGED <<prefs, startup, key, lag>>

(* The task is over and its lock free; if the run has changed something,   *)
(* the queries of the pages are fetched again before it ends.              *)
CommentsEnd ==
    /\ hook.phase = "comments"
    /\ \/ Finish(Released(hook.server), lag)
       \/ /\ hook' = [hook EXCEPT !.phase = "invalidating"]
          /\ lock' = Released(hook.server)
          /\ UNCHANGED lag
    /\ UNCHANGED <<prefs, startup, key>>

InvalidationsEnd ==
    /\ hook.phase = "invalidating"
    /\ Finish(lock, lag)
    /\ UNCHANGED <<prefs, startup, key>>

(* Mutant: a refusal leaves the run without the finally block. *)
AnswerForgets ==
    /\ hook.phase = "asking"
    /\ \/ /\ lock[hook.server] = "free"
          /\ RunCycle(hook.server, TRUE, hook.pending, lock, lag)
       \/ /\ hook' = [Resting EXCEPT !.pending = hook.pending]
          /\ UNCHANGED <<lock, lag>>
    /\ UNCHANGED <<prefs, startup, key>>

(* The user agrees, and the cycle runs again with confirmDeletions, unless *)
(* somebody has taken the lock meanwhile; or the user declines.            *)
Answer ==
    /\ hook.phase = "asking"
    /\ \/ /\ lock[hook.server] = "free"
          /\ RunCycle(hook.server, TRUE, hook.pending, lock, lag)
       \/ /\ lock[hook.server] # "free"
          /\ Finish(lock, lag)
       \/ Finish(lock, lag)
    /\ UNCHANGED <<prefs, startup, key>>

--------------------------------------------------------------------------------
(* The effect of useMemoreStartupSync: one run for a server and a token,   *)
(* beside those of other servers that are still under way, skipped for     *)
(* good if the lock is taken.  It does not ask about deletions.            *)
StartupRun ==
    /\ AutoStart /\ Awake
    /\ prefs \notin {Off, key} /\ key' = prefs
    /\ IF lock[prefs] = "free"
         THEN /\ startup' = [startup EXCEPT ![prefs] = "push"]
              /\ lock' = [lock EXCEPT ![prefs] = "startup"]
              /\ lag' = Listed(lag, prefs)
         ELSE UNCHANGED <<startup, lock, lag>>
    /\ UNCHANGED <<prefs, hook>>

StartupGoesOn(s) ==
    /\ Awake
    /\ \/ /\ startup[s] = "push"
          /\ startup' = [startup EXCEPT ![s] = "pull"]
          /\ lag' = Sent(lag, s)
          /\ UNCHANGED lock
       \/ /\ startup[s] = "push" /\ MayFail
          /\ startup' = [startup EXCEPT ![s] = "idle"] /\ lock' = Released(s)
          /\ lag' = NotSent(lag, s)
       \/ /\ startup[s] = "pull"
          /\ startup' = [startup EXCEPT ![s] = "comments"]
          /\ UNCHANGED <<lock, lag>>
       \/ /\ startup[s] = "comments"
          /\ startup' = [startup EXCEPT ![s] = "idle"] /\ lock' = Released(s)
          /\ UNCHANGED lag
    /\ UNCHANGED <<prefs, key, hook>>

(* Another tab, or the buttons of the settings page. *)
OtherTakes ==
    /\ OtherHolders
    /\ \E s \in Servers : lock[s] = "free" /\ lock' = [lock EXCEPT ![s] = "other"]
    /\ UNCHANGED <<prefs, hook, startup, key, lag>>

OtherReleases ==
    /\ \E s \in Servers : lock[s] = "other" /\ lock' = Released(s)
    /\ UNCHANGED <<prefs, hook, startup, key, lag>>

(* The user edits the preferences: another server or none, or another      *)
(* token of the same server, which is a new key.                           *)
ChangePreferences ==
    /\ Awake /\ (ChangeAnytime \/ ~Running)
    /\ \/ prefs' \in (Servers \cup {Off}) \ {prefs} /\ UNCHANGED key
       \/ key = prefs /\ key' = Off /\ UNCHANGED prefs
    /\ UNCHANGED <<lock, hook, startup, lag>>

Next ==
    \/ LocalChange \/ PushEnds \/ PullEnds \/ CommentsEnd \/ InvalidationsEnd \/ Answer
    \/ StartupRun \/ (\E s \in Servers : StartupGoesOn(s)) \/ OtherTakes \/ OtherReleases \/ ChangePreferences

(* Requests are answered or time out, the user answers the dialog, a lock  *)
(* is not held for ever, and an effect runs after its render.              *)
Fairness ==
    /\ WF_vars(PushEnds) /\ WF_vars(PullEnds) /\ WF_vars(CommentsEnd) /\ WF_vars(InvalidationsEnd)
    /\ WF_vars(Answer) /\ WF_vars(OtherReleases) /\ WF_vars(StartupRun)
    /\ \A s \in Servers : WF_vars(StartupGoesOn(s))

Spec == Init /\ [][Next]_vars
FairSpec == Spec /\ Fairness

--------------------------------------------------------------------------------
(* A remembered trigger has a run that will serve it: no trigger waits     *)
(* with nobody left to look at it.                                         *)
PendingHasServer == hook.pending => Running

(* The lock of a server is held by a run exactly while that run works on   *)
(* it: no way out of a run, by an error or a dialog, leaves the lock taken *)
(* or goes on working without it.                                          *)
LockedWhileWorking ==
    \A s \in Servers :
      /\ lock[s] = "hook" <=> hook.phase \in Working /\ hook.server = s
      /\ lock[s] = "startup" <=> startup[s] \in Working

(* A trigger remembered during a run is taken up, whatever that run meets  *)
(* with: a failure, a dialog, a lock somebody else has taken meanwhile.    *)
PendingTaken == hook.pending ~> ~hook.pending

(* New sync requests are queued instead of being dropped: a change of a    *)
(* local memo is pushed, unless the user turns away from the server.       *)
TriggersServed ==
    \A s \in Servers : lag[s] # "none" ~> lag[s] = "none" \/ prefs # s
================================================================================
