-------------------------- MODULE TriggeredSync_proofs --------------------------
(***************************************************************************)
(* For any set of servers: the lock of a server is held by the triggered   *)
(* or the startup run exactly while that run works on it, and a remembered *)
(* trigger has a run in progress that will look at it.                     *)
(*                                                                         *)
(* LockedWhileWorking is not inductive: a run that ends must know which    *)
(* server it works on, or it would free another lock.  ServersKnown says   *)
(* that a run in progress, a dialog included, has a server.                *)
(***************************************************************************)
EXTENDS TriggeredSync, TLAPS

ServersKnown == Running => hook.server \in Servers

TriggerInv == TypeOK /\ PendingHasServer /\ LockedWhileWorking /\ ServersKnown

Lags == [Servers -> {"none", "unread", "read"}]

(* What a push makes of the lags when it begins and ends. *)
LEMMA LagsType ==
  ASSUME NEW G \in Lags, NEW s
  PROVE  Listed(G, s) \in Lags /\ Sent(G, s) \in Lags /\ NotSent(G, s) \in Lags
BY DEF Lags, Listed, Sent, NotSent

(* The locks L are those of the startup run and of other holders alone: no *)
(* server is locked by the triggered run.                                  *)
HookFree(L) ==
    /\ L \in [Servers -> {"free", "startup", "other"}]
    /\ \A s \in Servers : L[s] = "startup" <=> startup[s] \in Working

(* A run that ends frees its lock and nothing else. *)
LEMMA ReleasedHookFree ==
  ASSUME TriggerInv, hook.phase \in Working
  PROVE  HookFree(Released(hook.server))
BY DEF TriggerInv, TypeOK, LockedWhileWorking, ServersKnown, Running, HookFree, Released, Hook, Working

(* Outside its phases of work the triggered run holds no lock. *)
LEMMA RestingHookFree ==
  ASSUME TriggerInv, hook.phase \notin Working
  PROVE  HookFree(lock)
BY DEF TriggerInv, TypeOK, LockedWhileWorking, ServersKnown, Running, HookFree, Hook, Working

(* A cycle that begins, or finds the lock taken, establishes the invariant. *)
LEMMA RunCycleInv ==
  ASSUME TriggerInv, UNCHANGED <<prefs, startup, key>>,
         NEW s \in Servers, NEW confirm \in BOOLEAN, NEW pending \in BOOLEAN,
         NEW L, HookFree(L), NEW G \in Lags, RunCycle(s, confirm, pending, L, G)
  PROVE  TriggerInv'
<1>1. CASE L[s] = "free"
  <2>1. /\ lock' = [L EXCEPT ![s] = "hook"]
        /\ hook' = [phase |-> "push", server |-> s, pending |-> pending, confirm |-> confirm]
        /\ lag' \in Lags
    BY <1>1, LagsType DEF RunCycle
  <2>2. TypeOK'
    BY <2>1 DEF TypeOK, TriggerInv, Hook, Working, HookFree, Lags
  <2>3. LockedWhileWorking'
    <3>1. ASSUME NEW u \in Servers
          PROVE  lock'[u] = IF u = s THEN "hook" ELSE L[u]
      BY <2>1, <3>1 DEF HookFree
    <3>2. hook'.phase = "push" /\ hook'.server = s /\ startup' = startup
      BY <2>1
    <3> QED
      BY <1>1, <3>1, <3>2 DEF LockedWhileWorking, HookFree, Working
  <2>4. PendingHasServer' /\ ServersKnown'
    BY <2>1 DEF PendingHasServer, ServersKnown, Running, TriggerInv
  <2> QED
    BY <2>2, <2>3, <2>4 DEF TriggerInv
<1>2. CASE L[s] # "free"
  <2>1. lock' = L /\ hook' = Resting /\ lag' \in Lags
    BY <1>2 DEF RunCycle
  <2>2. TypeOK'
    BY <2>1 DEF TypeOK, TriggerInv, Hook, Working, HookFree, Lags, Resting
  <2>3. LockedWhileWorking' /\ PendingHasServer' /\ ServersKnown'
    BY <2>1 DEF LockedWhileWorking, HookFree, Working, PendingHasServer, ServersKnown, Running,
                TriggerInv, Resting
  <2> QED
    BY <2>2, <2>3 DEF TriggerInv
<1> QED
  BY <1>1, <1>2

(* So does a run that ends, whether a trigger is pending or not. *)
LEMMA FinishInv ==
  ASSUME TriggerInv, UNCHANGED <<prefs, startup, key>>, Running,
         NEW L, HookFree(L), NEW G \in Lags, Finish(L, G)
  PROVE  TriggerInv'
<1>1. CASE hook.pending
  <2>1. RunCycle(hook.server, FALSE, FALSE, L, G)
    BY <1>1 DEF Finish
  <2> QED
    BY <2>1, RunCycleInv DEF TriggerInv, ServersKnown
<1>2. CASE ~hook.pending
  <2>1. lock' = L /\ hook' = Resting /\ lag' \in Lags
    BY <1>2 DEF Finish
  <2>2. TypeOK'
    BY <2>1 DEF TypeOK, TriggerInv, Hook, Working, HookFree, Lags, Resting
  <2>3. LockedWhileWorking' /\ PendingHasServer' /\ ServersKnown'
    BY <2>1 DEF LockedWhileWorking, HookFree, Working, PendingHasServer, ServersKnown, Running,
                TriggerInv, Resting
  <2> QED
    BY <2>2, <2>3 DEF TriggerInv
<1> QED
  BY <1>1, <1>2

(* At first nothing runs and no lock is taken. *)
LEMMA InitTriggerInv ==
  ASSUME TriggeredSyncAssumption, Init
  PROVE  TriggerInv
BY DEF TriggeredSyncAssumption, Init, TriggerInv, TypeOK, PendingHasServer, LockedWhileWorking, ServersKnown, Running,
       Resting, Hook, Working

(* The inductive step, an action at a time. *)
LEMMA NextTriggerInv ==
  ASSUME TriggeredSyncAssumption, TriggerInv, [Next]_vars
  PROVE  TriggerInv'
<1> USE DEF TriggeredSyncAssumption
<1>0. lag \in Lags
  BY DEF TriggerInv, TypeOK, Lags
<1>1. CASE LocalChange
  <2>1. PICK G \in Lags : Trigger(G)
    <3>1. CASE Trigger(lag)
      BY <1>0, <3>1
    <3>2. CASE Trigger([lag EXCEPT ![prefs] = "unread"])
      <4>1. [lag EXCEPT ![prefs] = "unread"] \in Lags
        BY <1>0 DEF Lags
      <4> QED
        BY <4>1, <3>2
    <3> QED
      BY <1>1, <3>1, <3>2 DEF LocalChange
  <2>2. (Running \/ prefs \in Servers) /\ UNCHANGED <<prefs, startup, key>>
    BY <1>1 DEF LocalChange, TriggerInv, TypeOK
  <2>3. CASE Running
    <3>1. hook' = [hook EXCEPT !.pending = TRUE] /\ lag' \in Lags /\ lock' = lock
      BY <2>1, <2>3 DEF Trigger
    <3>2. TypeOK'
      BY <3>1, <2>2 DEF TriggerInv, TypeOK, Hook, Lags
    <3>3. LockedWhileWorking' /\ PendingHasServer' /\ ServersKnown'
      BY <3>1, <2>2, <2>3 DEF TriggerInv, TypeOK, LockedWhileWorking, PendingHasServer,
                              ServersKnown, Running, Hook
    <3> QED
      BY <3>2, <3>3 DEF TriggerInv
  <2>4. CASE ~Running
    <3>1. RunCycle(prefs, FALSE, FALSE, lock, G)
      BY <2>1, <2>4 DEF Trigger
    <3>2. HookFree(lock)
      BY <2>4, RestingHookFree DEF Running, Working
    <3> QED
      BY <2>2, <2>4, <3>1, <3>2, RunCycleInv
  <2> QED
    BY <2>3, <2>4
<1>2. CASE PushEnds
  <2> DEFINE s == hook.server
  <2>0. /\ hook.phase = "push" /\ Running /\ s \in Servers /\ UNCHANGED <<prefs, startup, key>>
        /\ HookFree(Released(s)) /\ Sent(lag, s) \in Lags /\ NotSent(lag, s) \in Lags
    <3>1. hook.phase = "push" /\ UNCHANGED <<prefs, startup, key>>
      BY <1>2 DEF PushEnds
    <3>2. Running /\ s \in Servers
      BY <3>1 DEF Running, TriggerInv, ServersKnown
    <3> QED
      BY <3>1, <3>2, <1>0, LagsType, ReleasedHookFree DEF Working
  <2>1. CASE hook' = [hook EXCEPT !.phase = "pull"] /\ lag' = Sent(lag, s) /\ UNCHANGED lock
    <3>1. TypeOK'
      BY <2>0, <2>1 DEF TriggerInv, TypeOK, Hook, Lags, Working
    <3>2. LockedWhileWorking' /\ PendingHasServer' /\ ServersKnown'
      BY <2>0, <2>1 DEF TriggerInv, TypeOK, LockedWhileWorking, PendingHasServer, ServersKnown,
                        Running, Hook, Working
    <3> QED
      BY <3>1, <3>2 DEF TriggerInv
  <2>2. CASE hook' = [hook EXCEPT !.phase = "asking"] /\ lock' = Released(s) /\ lag' = Sent(lag, s)
    <3>1. TypeOK'
      BY <2>0, <2>2 DEF TriggerInv, TypeOK, Hook, Lags, Working, HookFree
    <3>2. LockedWhileWorking' /\ PendingHasServer' /\ ServersKnown'
      BY <2>0, <2>2 DEF TriggerInv, TypeOK, LockedWhileWorking, PendingHasServer, ServersKnown,
                        Running, Hook, Working, HookFree
    <3> QED
      BY <3>1, <3>2 DEF TriggerInv
  <2>3. CASE Finish(Released(s), NotSent(lag, s))
    BY <2>0, <2>3, FinishInv
  <2> QED
    BY <1>2, <2>1, <2>2, <2>3 DEF PushEnds
<1>3. CASE PullEnds
  <2>0. /\ hook.phase = "pull" /\ hook.server \in Servers /\ UNCHANGED <<prefs, startup, key, lag>>
        /\ HookFree(Released(hook.server))
    BY <1>3, ReleasedHookFree DEF PullEnds, TriggerInv, ServersKnown, Running, Working
  <2>1. CASE hook' = [hook EXCEPT !.phase = "comments"] /\ UNCHANGED lock
    BY <2>0, <2>1 DEF TriggerInv, TypeOK, LockedWhileWorking, PendingHasServer, ServersKnown,
                      Running, Hook, Working
  <2>2. CASE hook' = [hook EXCEPT !.phase = "asking"] /\ lock' = Released(hook.server)
    BY <2>0, <2>2 DEF TriggerInv, TypeOK, LockedWhileWorking, PendingHasServer, ServersKnown,
                      Running, Hook, Working, HookFree
  <2> QED
    BY <1>3, <2>1, <2>2 DEF PullEnds
<1>4. CASE CommentsEnd
  <2>1. hook.phase = "comments" /\ Running /\ UNCHANGED <<prefs, startup, key>>
    BY <1>4 DEF CommentsEnd, Running
  <2>2. HookFree(Released(hook.server)) /\ hook.server \in Servers
    BY <2>1, ReleasedHookFree DEF Working, TriggerInv, ServersKnown
  <2>3. CASE Finish(Released(hook.server), lag)
    BY <1>0, <2>1, <2>2, <2>3, FinishInv
  <2>4. CASE hook' = [hook EXCEPT !.phase = "invalidating"] /\ lock' = Released(hook.server) /\ UNCHANGED lag
    BY <2>1, <2>2, <2>4 DEF TriggerInv, TypeOK, LockedWhileWorking, PendingHasServer, ServersKnown,
                            Running, Hook, Working, HookFree
  <2> QED
    BY <1>4, <2>3, <2>4 DEF CommentsEnd
<1>5. CASE InvalidationsEnd
  <2>1. hook.phase = "invalidating" /\ Running /\ UNCHANGED <<prefs, startup, key>>
    BY <1>5 DEF InvalidationsEnd, Running
  <2>2. HookFree(lock)
    BY <2>1, RestingHookFree DEF Working
  <2> QED
    BY <1>0, <1>5, <2>1, <2>2, FinishInv DEF InvalidationsEnd
<1>6. CASE Answer
  <2>1. /\ hook.phase = "asking" /\ Running /\ UNCHANGED <<prefs, startup, key>>
        /\ hook.server \in Servers /\ hook.pending \in BOOLEAN
    BY <1>6 DEF Answer, Running, TriggerInv, ServersKnown, TypeOK, Hook
  <2>2. HookFree(lock)
    BY <2>1, RestingHookFree DEF Working
  <2>3. RunCycle(hook.server, TRUE, hook.pending, lock, lag) \/ Finish(lock, lag)
    BY <1>6 DEF Answer
  <2> QED
    BY <1>0, <2>1, <2>2, <2>3, FinishInv, RunCycleInv
<1>7. CASE StartupRun
  <2>1. /\ prefs \in Servers /\ key' = prefs /\ UNCHANGED <<prefs, hook>>
        /\ Listed(lag, prefs) \in Lags
    BY <1>0, <1>7, LagsType DEF StartupRun, TriggerInv, TypeOK
  <2>2. CASE lock[prefs] = "free"
    <3>1. /\ startup' = [startup EXCEPT ![prefs] = "push"]
          /\ lock' = [lock EXCEPT ![prefs] = "startup"] /\ lag' \in Lags
      BY <1>7, <2>1, <2>2 DEF StartupRun
    <3> QED
      BY <2>1, <2>2, <3>1 DEF TriggerInv, TypeOK, LockedWhileWorking, PendingHasServer,
                              ServersKnown, Running, Working, Lags
  <2>3. CASE lock[prefs] # "free"
    <3>1. UNCHANGED <<startup, lock, lag>>
      BY <1>7, <2>3 DEF StartupRun
    <3> QED
      BY <2>1, <3>1 DEF TriggerInv, TypeOK, LockedWhileWorking, PendingHasServer,
                        ServersKnown, Running, Working
  <2> QED
    BY <2>2, <2>3
<1>8. ASSUME NEW s \in Servers, StartupGoesOn(s) PROVE TriggerInv'
  <2>1. /\ startup[s] \in Working /\ UNCHANGED <<prefs, key, hook>>
        /\ Sent(lag, s) \in Lags /\ NotSent(lag, s) \in Lags
    BY <1>0, <1>8, LagsType DEF StartupGoesOn, Working
  <2>2. lag' \in Lags
    BY <1>0, <1>8, <2>1 DEF StartupGoesOn
  <2>3. \/ \E phase \in Working : startup' = [startup EXCEPT ![s] = phase] /\ lock' = lock
        \/ startup' = [startup EXCEPT ![s] = "idle"] /\ lock' = Released(s)
    BY <1>8 DEF StartupGoesOn, Working
  <2>4. CASE \E phase \in Working : startup' = [startup EXCEPT ![s] = phase] /\ lock' = lock
    BY <2>1, <2>2, <2>4 DEF TriggerInv, TypeOK, LockedWhileWorking, PendingHasServer,
                            ServersKnown, Running, Working, Lags
  <2>5. CASE startup' = [startup EXCEPT ![s] = "idle"] /\ lock' = Released(s)
    BY <2>1, <2>2, <2>5 DEF TriggerInv, TypeOK, LockedWhileWorking, PendingHasServer,
                            ServersKnown, Running, Working, Lags, Released
  <2> QED
    BY <2>3, <2>4, <2>5
<1>9. CASE OtherTakes
  BY <1>9 DEF OtherTakes, TriggerInv, TypeOK, LockedWhileWorking, PendingHasServer, ServersKnown,
              Running
<1>10. CASE OtherReleases
  BY <1>10 DEF OtherReleases, Released, TriggerInv, TypeOK, LockedWhileWorking, PendingHasServer,
              ServersKnown, Running
<1>11. CASE ChangePreferences
  BY <1>11 DEF ChangePreferences, TriggerInv, TypeOK, LockedWhileWorking, PendingHasServer,
               ServersKnown, Running
<1>12. CASE UNCHANGED vars
  BY <1>12 DEF vars, TriggerInv, TypeOK, LockedWhileWorking, PendingHasServer, ServersKnown, Running
<1> QED
  BY <1>1, <1>2, <1>3, <1>4, <1>5, <1>6, <1>7, <1>8, <1>9, <1>10, <1>11, <1>12 DEF Next

(* The inductive invariant of the triggers. *)
THEOREM TriggerInvariant ==
  ASSUME TriggeredSyncAssumption
  PROVE  Spec => []TriggerInv
<1>1. Init => TriggerInv
  BY InitTriggerInv
<1>2. TriggerInv /\ [Next]_vars => TriggerInv'
  BY NextTriggerInv
<1> QED
  BY <1>1, <1>2, PTL DEF Spec

(* Types. *)
THEOREM TypeCorrect ==
  ASSUME TriggeredSyncAssumption
  PROVE  Spec => []TypeOK
<1>1. TriggerInv => TypeOK
  BY DEF TriggerInv
<1> QED
  BY <1>1, TriggerInvariant, PTL

(* No way out of a run (an error, a dialog, a refusal) leaves the lock of  *)
(* its server taken or goes on working without it.                         *)
THEOREM LocksFollowWork ==
  ASSUME TriggeredSyncAssumption
  PROVE  Spec => []LockedWhileWorking
<1>1. TriggerInv => LockedWhileWorking
  BY DEF TriggerInv
<1> QED
  BY <1>1, TriggerInvariant, PTL

(* A trigger never waits with no run left to look at it. *)
THEOREM PendingIsWatched ==
  ASSUME TriggeredSyncAssumption
  PROVE  Spec => []PendingHasServer
<1>1. TriggerInv => PendingHasServer
  BY DEF TriggerInv
<1> QED
  BY <1>1, TriggerInvariant, PTL
================================================================================
