--------------------------- MODULE SyncTabLock_proofs ---------------------------
(***************************************************************************)
(* With atomic storage sections, a renewal timer that is late by less than *)
(* the lifetime of the entry allows, and no forced release, the lock of    *)
(* SyncTabLock is a mutex for any set of tabs.                             *)
(*                                                                         *)
(* MutualExclusion alone is not inductive: nothing in it says that a       *)
(* running task still owns the entry.  LockInv says so, and says how much  *)
(* time the entry has left: TTL - RenewInterval + due, which the bound on  *)
(* due keeps positive until the timer has fired.                           *)
(***************************************************************************)
EXTENDS SyncTabLock, TLAPS

USE LockAssumption

(* The tabs start with no entry and no task. *)
LEMMA InitLockInv == Init => LockInv
  BY DEF Init, LockInv, TypeOK, OwnerInv, SectionInv, Entry, Free, States, Sections, Held, Holds

(* The inductive step: every action of the lock preserves LockInv. *)
LEMMA NextLockInv ==
  ASSUME TimelyAndUndisturbed, LockInv, [Next]_vars
  PROVE  LockInv'
<1> USE DEF LockInv, TypeOK, OwnerInv, SectionInv, Entry, Free, States, Sections, Held, Holds,
            StorageFree, Goto, OwnEntry, TimelyAndUndisturbed
<1>1. ASSUME NEW t \in Tabs, StartTask(t) PROVE LockInv'
  BY <1>1 DEF StartTask
<1>2. ASSUME NEW t \in Tabs, WriteEntry(t) PROVE LockInv'
  BY <1>2 DEF WriteEntry
<1>3. ASSUME NEW t \in Tabs, VerifyEntry(t) PROVE LockInv'
  <2>1. /\ Holds(t) /\ store.left = TTL
        /\ pc' = [pc EXCEPT ![t] = "task"]
        /\ due' = [due EXCEPT ![t] = RenewInterval]
        /\ store' = store
    BY <1>3 DEF VerifyEntry
  <2>2. TypeOK'
    BY <2>1
  <2>3. OwnerInv'
    BY <2>1
  <2>4. SectionInv'
    BY <2>1
  <2> QED
    BY <2>2, <2>3, <2>4
<1>4. ASSUME NEW t \in Tabs, TimerFires(t) PROVE LockInv'
  <2>1. /\ Holds(t)
        /\ pc' = [pc EXCEPT ![t] = "renew"]
        /\ due' = [due EXCEPT ![t] = RenewInterval]
        /\ store' = store
    BY <1>4 DEF TimerFires
  <2>2. \A u \in Tabs \ {t} : pc[u] \notin Sections /\ pc[u] # "task"
    BY <1>4 DEF TimerFires
  <2>3. TypeOK'
    BY <2>1
  <2>4. OwnerInv'
    BY <2>1
  <2>5. SectionInv'
    BY <2>1, <2>2
  <2> QED
    BY <2>3, <2>4, <2>5
<1>5. ASSUME NEW t \in Tabs, WriteRenewal(t) PROVE LockInv'
  BY <1>5 DEF WriteRenewal
<1>6. ASSUME NEW t \in Tabs, SettleTask(t) PROVE LockInv'
  BY <1>6 DEF SettleTask
<1>7. ASSUME NEW t \in Tabs, WriteRelease(t) PROVE LockInv'
  BY <1>7 DEF WriteRelease
<1>8. ASSUME NEW t \in Tabs, Unload(t) PROVE LockInv'
  BY <1>8 DEF Unload
<1>9. ASSUME NEW t \in Tabs, Crash(t) PROVE LockInv'
  BY <1>9 DEF Crash
<1>10. ASSUME Tick PROVE LockInv'
  BY <1>10 DEF Tick
<1>11. CASE ForceRelease
  BY <1>11 DEF ForceRelease
<1>12. CASE UNCHANGED vars
  BY <1>12 DEF vars
<1> QED
  BY <1>1, <1>2, <1>3, <1>4, <1>5, <1>6, <1>7, <1>8, <1>9, <1>10, <1>11, <1>12 DEF Next

(* LockInv holds of every behaviour of a punctual, undisturbed lock. *)
THEOREM LockInvariant == ASSUME TimelyAndUndisturbed PROVE Spec => []LockInv
  BY InitLockInv, NextLockInv, PTL DEF Spec

(* Two running tasks would own the same entry. *)
THEOREM MutualExclusionHolds ==
  ASSUME TimelyAndUndisturbed PROVE Spec => []MutualExclusion
<1>1. LockInv => MutualExclusion
  BY DEF LockInv, OwnerInv, MutualExclusion, Running, Holds
<1> QED
  BY <1>1, LockInvariant, PTL

(* Whoever is running when a tab verifies its entry would own it too, so   *)
(* nobody is: an acquisition maps to Enter, the end of a task to Leave,    *)
(* everything else leaves the set of running tabs alone.                   *)
LEMMA StepRefinesMutex ==
  ASSUME TimelyAndUndisturbed, LockInv, [Next]_vars
  PROVE  [Mutex!Next]_Running
<1> USE DEF LockInv, TypeOK, OwnerInv, SectionInv, States, Sections, Goto, Holds, Running
<1> SUFFICES ASSUME Next PROVE Mutex!Next \/ UNCHANGED Running
  BY DEF vars
<1>1. ASSUME NEW t \in Tabs, VerifyEntry(t) PROVE Mutex!Enter(t)
  <2>1. pc' = [pc EXCEPT ![t] = "task"]
    BY <1>1 DEF VerifyEntry
  <2>2. Running = {}
    BY <1>1 DEF VerifyEntry
  <2>3. Running' = {t}
    BY <2>1, <2>2
  <2> QED
    BY <2>2, <2>3 DEF Mutex!Enter
<1>2. ASSUME NEW t \in Tabs, pc[t] \in {"task", "renew"}, NEW s \in {"idle", "release"},
             pc' = [pc EXCEPT ![t] = s]
      PROVE  Mutex!Leave(t)
  <2>1. Running = {t}
    BY <1>2
  <2>2. Running' = {}
    BY <1>2, <2>1
  <2> QED
    BY <2>1, <2>2 DEF Mutex!Leave
<1>3. ASSUME NEW t \in Tabs, SettleTask(t) \/ Unload(t) \/ Crash(t)
      PROVE  Mutex!Leave(t) \/ UNCHANGED Running
  <2>1. CASE pc[t] \in {"task", "renew"}
    BY <1>2, <1>3, <2>1 DEF SettleTask, Unload, Crash
  <2>2. CASE pc[t] \notin {"task", "renew"}
    BY <1>3, <2>2 DEF SettleTask, Unload, Crash
  <2> QED
    BY <2>1, <2>2
<1>4. ASSUME NEW t \in Tabs,
             StartTask(t) \/ WriteEntry(t) \/ TimerFires(t) \/ WriteRenewal(t) \/ WriteRelease(t)
      PROVE  UNCHANGED Running
  BY <1>4 DEF StartTask, WriteEntry, TimerFires, WriteRenewal, WriteRelease
<1>5. ASSUME Tick \/ ForceRelease PROVE UNCHANGED Running
  BY <1>5 DEF Tick, ForceRelease
<1> QED
  BY <1>1, <1>3, <1>4, <1>5 DEF Next, Mutex!Next

(* The lock implements the mutex its callers rely on. *)
THEOREM ImplementsMutex == ASSUME TimelyAndUndisturbed PROVE Spec => MutexSpec
<1>1. Init => Mutex!Init
  BY DEF Init, Mutex!Init, Running
<1> QED
  BY <1>1, LockInvariant, StepRefinesMutex, PTL DEF Spec, MutexSpec, Mutex!Spec

--------------------------------------------------------------------------------
(* What remains of it when timers are later than the entry lives and the   *)
(* user resets: sections still exclude each other, a tab in the middle of  *)
(* an acquisition has seen no entry, and a tab in the middle of any other  *)
(* section owns the entry, since no time passes and nobody else writes.    *)
OwnSections ==
    /\ \A t, u \in Tabs : pc[t] \in Sections /\ pc[u] \in Sections => t = u
    /\ \A t \in Tabs : pc[t] = "acquire" => ~Held
    /\ \A t \in Tabs : pc[t] \in {"verify", "renew", "release"} => Holds(t)
LateLockInv == TypeOK /\ OwnSections

LEMMA InitLateLockInv == Init => LateLockInv
  BY DEF Init, LateLockInv, TypeOK, OwnSections, Entry, Free, States, Sections

(* The inductive step: however late the timers are, whatever is reset.     *)
LEMMA NextLateLockInv ==
  ASSUME AtomicStorage, LateLockInv, [Next]_vars
  PROVE  LateLockInv'
<1> USE DEF LateLockInv, TypeOK, OwnSections, Entry, Free, States, Sections, Held, Holds,
            StorageFree, Goto, OwnEntry
<1>1. ASSUME NEW t \in Tabs, StartTask(t) PROVE LateLockInv'
  BY <1>1 DEF StartTask
<1>2. ASSUME NEW t \in Tabs, WriteEntry(t) PROVE LateLockInv'
  BY <1>2 DEF WriteEntry
<1>3. ASSUME NEW t \in Tabs, VerifyEntry(t) PROVE LateLockInv'
  BY <1>3 DEF VerifyEntry
<1>4. ASSUME NEW t \in Tabs, TimerFires(t) PROVE LateLockInv'
  BY <1>4 DEF TimerFires
<1>5. ASSUME NEW t \in Tabs, WriteRenewal(t) PROVE LateLockInv'
  BY <1>5 DEF WriteRenewal
<1>6. ASSUME NEW t \in Tabs, SettleTask(t) PROVE LateLockInv'
  BY <1>6 DEF SettleTask
<1>7. ASSUME NEW t \in Tabs, WriteRelease(t) PROVE LateLockInv'
  BY <1>7 DEF WriteRelease
<1>8. ASSUME NEW t \in Tabs, Unload(t) PROVE LateLockInv'
  BY <1>8 DEF Unload
<1>9. ASSUME NEW t \in Tabs, Crash(t) PROVE LateLockInv'
  BY <1>9 DEF Crash
<1>10. ASSUME Tick PROVE LateLockInv'
  BY <1>10 DEF Tick
<1>11. CASE ForceRelease
  BY <1>11 DEF ForceRelease
<1>12. CASE UNCHANGED vars
  BY <1>12 DEF vars
<1> QED
  BY <1>1, <1>2, <1>3, <1>4, <1>5, <1>6, <1>7, <1>8, <1>9, <1>10, <1>11, <1>12 DEF Next

(* With atomic storage sections, and however late timers are and whatever  *)
(* is reset, an entry that has not expired leaves its owner only by a step *)
(* of the owner or by the user's reset.                                    *)
THEOREM NobodySteals == ASSUME AtomicStorage PROVE Spec => NoStealing
<1> DEFINE Kept == \A t \in Tabs : Holds(t) /\ store'.owner # t => pc'[t] # pc[t] \/ ForceRelease
<1>1. ASSUME LateLockInv, [Next]_vars PROVE [Kept]_vars
  <2> SUFFICES ASSUME Next, NEW t \in Tabs, Holds(t), store'.owner # t, ~ForceRelease
               PROVE  pc'[t] # pc[t]
    BY <1>1
  <2> USE <1>1 DEF LateLockInv, TypeOK, OwnSections, Entry, Free, States, Sections, Held, Holds,
                   Goto, OwnEntry
  <2>1. ASSUME NEW u \in Tabs, WriteEntry(u) \/ WriteRenewal(u) \/ WriteRelease(u)
        PROVE  pc'[t] # pc[t]
    BY <2>1 DEF WriteEntry, WriteRenewal, WriteRelease
  <2>2. ASSUME NEW u \in Tabs, Unload(u) \/ Crash(u)
        PROVE  pc'[t] # pc[t]
    BY <2>2 DEF Unload, Crash
  <2>3. ASSUME NEW u \in Tabs,
               StartTask(u) \/ VerifyEntry(u) \/ TimerFires(u) \/ SettleTask(u)
        PROVE  FALSE
    BY <2>3 DEF StartTask, VerifyEntry, TimerFires, SettleTask
  <2>4. ASSUME Tick PROVE FALSE
    BY <2>4 DEF Tick
  <2> QED
    BY <2>1, <2>2, <2>3, <2>4 DEF Next
<1>2. Spec => []LateLockInv
  BY InitLateLockInv, NextLateLockInv, PTL DEF Spec
<1> QED
  BY <1>1, <1>2, PTL DEF Spec, NoStealing

================================================================================
