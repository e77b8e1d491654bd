----------------------------- MODULE MCSyncTabLock -----------------------------
(***************************************************************************)
(* SyncTabLock on three tabs, and TriggeredSync, which has the lock as one *)
(* variable of each server.  Time is in units of 10 s: 18 of them make the *)
(* three minutes of MEMORE_SYNC_TAB_LOCK_TTL_MS, 3 of them the 30 s of     *)
(* MEMORE_SYNC_TAB_LOCK_RENEW_INTERVAL_MS.  There are three instances, and *)
(* a behaviour is one of any: `part` says of which.  In the first the      *)
(* timers are punctual enough; in Late they may be later than an entry     *)
(* lives, and the user resets the metadata; Triggers is the hooks of one   *)
(* tab.                                                                    *)
(***************************************************************************)
EXTENDS SyncTabLock

CONSTANTS
    LongLate,
    Servers, Off, AutoStart, OtherHolders, MayFail, ChangeAnytime   \* see TriggeredSync

VARIABLES
    part, lateStore, latePc, lateDue,
    prefs, lock, hook, startup, key, lag

Late == INSTANCE SyncTabLock WITH
            store <- lateStore, pc <- latePc, due <- lateDue,
            MaxLate <- LongLate, WithReset <- TRUE

Triggers == INSTANCE TriggeredSync

ASSUME TriggersAssumption == Triggers!TriggeredSyncAssumption

late == <<lateStore, latePc, lateDue>>
triggers == <<prefs, lock, hook, startup, key, lag>>
allVars == <<part, vars, late, triggers>>

Punctually(A) == part = "punctual" /\ A /\ UNCHANGED <<part, late, triggers>>
Triggered(A) == part = "triggers" /\ A /\ UNCHANGED <<part, vars, late>>

LocksInit == part \in {"punctual", "late", "triggers"} /\ Init /\ Late!Init /\ Triggers!Init
PunctualLock == Punctually(Next)
LateLock == part = "late" /\ Late!Next /\ UNCHANGED <<part, vars, triggers>>
TriggeredRuns == Triggered(Triggers!Next)

(* The fairness of the first and the third instance. *)
LocksSpec ==
    /\ LocksInit /\ [][PunctualLock \/ LateLock \/ TriggeredRuns]_allVars
    /\ WF_allVars(Punctually(Tick))
    /\ \A t \in Tabs : WF_allVars(Punctually(Section(t))) /\ WF_allVars(Punctually(TimerFires(t)))
    /\ WF_allVars(Triggered(Triggers!PushEnds)) /\ WF_allVars(Triggered(Triggers!PullEnds))
    /\ WF_allVars(Triggered(Triggers!CommentsEnd)) /\ WF_allVars(Triggered(Triggers!InvalidationsEnd))
    /\ WF_allVars(Triggered(Triggers!Answer)) /\ WF_allVars(Triggered(Triggers!OtherReleases))
    /\ WF_allVars(Triggered(Triggers!StartupRun))
    /\ \A s \in Servers : WF_allVars(Triggered(Triggers!StartupGoesOn(s)))

(* NoStealing of the late instance under a plain name: see there. *)
NoStealingLate == Late!NoStealing

(* Those of the triggered and startup runs: see TriggeredSync. *)
PendingHasServer == Triggers!PendingHasServer
LockedWhileWorking == Triggers!LockedWhileWorking
PendingTaken == Triggers!PendingTaken
================================================================================
