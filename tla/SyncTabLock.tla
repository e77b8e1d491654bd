------------------------------ MODULE SyncTabLock ------------------------------
(***************************************************************************)
(* The lock that keeps two tabs from synchronising with the same remote    *)
(* server at once (web/src/lib/memore-sync.ts, lines 336-532).             *)
(*                                                                         *)
(* The lock is an entry of a JSON map in localStorage, which every tab of  *)
(* the origin shares: {ownerId, lockId, expiresAt}.  A tab takes it by     *)
(* load - write - load again, renews it from a setInterval timer while the *)
(* task runs, and deletes it when the task settles.  One entry of the map  *)
(* is modelled: the one of the server the tabs synchronise with.           *)
(*                                                                         *)
(* Each load-then-write section is synchronous JavaScript.  Within a tab   *)
(* nothing interleaves with it, but browsers run tabs in several processes *)
(* and do not lock localStorage across them.  AtomicStorage says whether   *)
(* the sections of different tabs exclude each other.                      *)
(*                                                                         *)
(* Time is counted in units of the renewal period.  Deadlines are kept as  *)
(* the time left to them, so that no clock grows without bound.            *)
(***************************************************************************)
EXTENDS Integers

CONSTANTS
    Tabs,            \* tabs that may synchronise with the server
    NoOwner,         \* the map has no entry for the server
    Dead,            \* the ownerId of a page that no longer exists
    TTL,             \* MEMORE_SYNC_TAB_LOCK_TTL_MS
    RenewInterval,   \* MEMORE_SYNC_TAB_LOCK_RENEW_INTERVAL_MS
    MaxLate,         \* how late the browser may run the renewal timer
    AtomicStorage,   \* sections of different tabs do not interleave
    WithReset        \* the user may clear the status or reset the metadata

ASSUME LockAssumption ==
    /\ NoOwner # Dead /\ NoOwner \notin Tabs /\ Dead \notin Tabs
    /\ TTL \in Nat \ {0} /\ RenewInterval \in Nat \ {0} /\ MaxLate \in Nat
    /\ AtomicStorage \in BOOLEAN /\ WithReset \in BOOLEAN

VARIABLES
    store,   \* the entry in localStorage: its owner and the time left to it
    pc,      \* where each tab is in runMemoreSyncTaskWithLock
    due      \* time left until the tab's renewal timer should fire

vars == <<store, pc, due>>

(* idle     no task of this tab is in progress                             *)
(* acquire  tryAcquire loaded the map and found no entry                   *)
(* verify   tryAcquire wrote its own entry and will load it again          *)
(* task     the task runs, between two of its awaits                       *)
(* renew    the timer loaded the map and found the tab's own entry         *)
(* release  the task has settled; release found the tab's own entry        *)
States == {"idle", "acquire", "verify", "task", "renew", "release"}
Sections == {"acquire", "verify", "renew", "release"}

Entry == [owner : Tabs \cup {NoOwner, Dead}, left : 0..TTL]
Free == [owner |-> NoOwner, left |-> 0]

TypeOK ==
    /\ store \in Entry
    /\ pc \in [Tabs -> States]
    /\ due \in [Tabs -> -MaxLate..RenewInterval]

(* Mutant of Held: the load forgets to drop expired entries. *)
HeldUnexpiring == store.owner # NoOwner

(* loadMemoreSyncTabLockMap drops entries whose expiresAt has passed. *)
Held == store.owner # NoOwner /\ store.left > 0

Holds(t) == Held /\ store.owner = t

OwnEntry(t) == [owner |-> t, left |-> TTL]

(* Nothing else runs in the middle of a storage section of another tab. *)
StorageFree(t) == AtomicStorage => \A u \in Tabs \ {t} : pc[u] \notin Sections

Goto(t, state) == pc' = [pc EXCEPT ![t] = state]

Init ==
    /\ store = Free
    /\ pc = [t \in Tabs |-> "idle"]
    /\ due = [t \in Tabs |-> 0]

--------------------------------------------------------------------------------
(* Mutant of StartTask: tryAcquire does not look for another entry. *)
StartTaskUnchecked(t) ==
    /\ pc[t] = "idle" /\ StorageFree(t)
    /\ Goto(t, "acquire")
    /\ UNCHANGED <<store, due>>

(* runMemoreSyncTaskWithLock: a tab whose task is in progress returns      *)
(* IN_PROGRESS, one that finds an entry returns LOCKED; neither changes    *)
(* anything.  The first load of tryAcquire.                                *)
StartTask(t) ==
    /\ pc[t] = "idle" /\ StorageFree(t)
    /\ ~Held
    /\ Goto(t, "acquire")
    /\ UNCHANGED <<store, due>>

WriteEntry(t) ==
    /\ pc[t] = "acquire" /\ StorageFree(t)
    /\ store' = OwnEntry(t)
    /\ Goto(t, "verify")
    /\ UNCHANGED due

(* The second load of tryAcquire, then the task and its timer start. *)
VerifyEntry(t) ==
    /\ pc[t] = "verify" /\ StorageFree(t)
    /\ IF Holds(t)
         THEN Goto(t, "task") /\ due' = [due EXCEPT ![t] = RenewInterval]
         ELSE Goto(t, "idle") /\ UNCHANGED due
    /\ UNCHANGED store

(* The timer fires.  What renew returns is not looked at: a task whose     *)
(* entry has gone runs on without it.                                      *)
TimerFires(t) ==
    /\ pc[t] = "task" /\ due[t] <= 0 /\ StorageFree(t)
    /\ due' = [due EXCEPT ![t] = RenewInterval]
    /\ IF Holds(t) THEN Goto(t, "renew") ELSE UNCHANGED pc
    /\ UNCHANGED store

(* Mutant of WriteRenewal: the renewal keeps the old expiresAt. *)
WriteRenewalStale(t) ==
    /\ pc[t] = "renew" /\ StorageFree(t)
    /\ Goto(t, "task")
    /\ UNCHANGED <<store, due>>

WriteRenewal(t) ==
    /\ pc[t] = "renew" /\ StorageFree(t)
    /\ store' = OwnEntry(t)
    /\ Goto(t, "task")
    /\ UNCHANGED due

(* Mutant of SettleTask: release does not compare the owner. *)
SettleTaskUnowned(t) ==
    /\ pc[t] = "task" /\ StorageFree(t)
    /\ Goto(t, IF Held THEN "release" ELSE "idle")
    /\ due' = [due EXCEPT ![t] = 0]
    /\ UNCHANGED store

(* The finally block: the timer is cleared, then release loads the map.    *)
SettleTask(t) ==
    /\ pc[t] = "task" /\ StorageFree(t)
    /\ Goto(t, IF Holds(t) THEN "release" ELSE "idle")
    /\ due' = [due EXCEPT ![t] = 0]
    /\ UNCHANGED store

WriteRelease(t) ==
    /\ pc[t] = "release" /\ StorageFree(t)
    /\ store' = Free
    /\ Goto(t, "idle")
    /\ UNCHANGED due

(* The page is closed or reloaded: the beforeunload handler deletes the    *)
(* entries the page owns, and the page that replaces it has a new ownerId. *)
Unload(t) ==
    /\ pc[t] = "task" /\ StorageFree(t)
    /\ store' = IF Holds(t) THEN Free ELSE store
    /\ Goto(t, "idle")
    /\ due' = [due EXCEPT ![t] = 0]

(* The page dies without beforeunload: its entry stays until it expires.   *)
Crash(t) ==
    /\ pc[t] # "idle"
    /\ store' = IF store.owner = t THEN [store EXCEPT !.owner = Dead] ELSE store
    /\ Goto(t, "idle")
    /\ due' = [due EXCEPT ![t] = 0]

(* clearMemoreSyncRuntimeStatus and resetMemoreSyncMetadata, called from   *)
(* the settings page of any tab, delete the entry whoever owns it.         *)
ForceRelease ==
    /\ WithReset
    /\ Held
    /\ AtomicStorage => \A t \in Tabs : pc[t] \notin Sections
    /\ store' = Free
    /\ UNCHANGED <<pc, due>>

(* Time passes; a live tab's timer is never later than MaxLate.  A section *)
(* that cannot be interleaved takes no time.                               *)
Tick ==
    /\ AtomicStorage => \A t \in Tabs : pc[t] \notin Sections
    /\ \A t \in Tabs : pc[t] \in {"task", "renew"} => due[t] > -MaxLate
    /\ store' = [store EXCEPT !.left = IF @ > 0 THEN @ - 1 ELSE 0]
    /\ due' = [t \in Tabs |-> IF pc[t] \in {"task", "renew"} THEN due[t] - 1 ELSE due[t]]
    /\ UNCHANGED pc

Section(t) == WriteEntry(t) \/ VerifyEntry(t) \/ WriteRenewal(t) \/ WriteRelease(t)

Next ==
    \/ \E t \in Tabs :
         \/ StartTask(t) \/ WriteEntry(t) \/ VerifyEntry(t)
         \/ TimerFires(t) \/ WriteRenewal(t)
         \/ SettleTask(t) \/ WriteRelease(t)
         \/ Unload(t) \/ Crash(t)
    \/ ForceRelease
    \/ Tick

(* Synchronous code runs to its end and due timers fire, unless the page   *)
(* dies; the wall clock advances.  Nothing makes a tab start or settle a   *)
(* task.                                                                   *)
Fairness ==
    /\ WF_vars(Tick)
    /\ \A t \in Tabs : WF_vars(Section(t)) /\ WF_vars(TimerFires(t))

Spec == Init /\ [][Next]_vars
FairSpec == Spec /\ Fairness

--------------------------------------------------------------------------------
Running == {t \in Tabs : pc[t] \in {"task", "renew"}}

(* At most one tab runs a synchronisation task: what                       *)
(* runMemoreSyncTaskWithLock is for.                                       *)
MutualExclusion == \A t, u \in Running : t = u

(* An unexpired entry of a living page is replaced or deleted only by a    *)
(* step of that page, or by the user's reset: the ownerId and lockId tests *)
(* of renew and release keep a page that has lost the lock from freeing    *)
(* another page's.                                                         *)
NoStealing ==
    [][\A t \in Tabs : Holds(t) /\ store'.owner # t => pc'[t] # pc[t] \/ ForceRelease]_vars

(* The lock of a page that died without releasing it does not block        *)
(* synchronisation for ever: the entry expires.                            *)
DeadLockExpires == (Held /\ store.owner = Dead) ~> ~(Held /\ store.owner = Dead)

(* The lock as its callers see it. *)
Mutex == INSTANCE SyncMutex WITH inside <- Running
MutexSpec == Mutex!Spec

(* What mutual exclusion rests on. *)
TimelyAndUndisturbed ==
    AtomicStorage /\ ~WithReset /\ RenewInterval + MaxLate < TTL

(* The inductive invariant: a tab past its acquisition owns the entry, and *)
(* the entry of a running task outlives the latest moment of its renewal.  *)
OwnerInv ==
    /\ \A t \in Tabs : pc[t] \in {"verify", "task", "renew", "release"} => Holds(t)
    /\ \A t \in Tabs : pc[t] = "verify" => store.left = TTL
    /\ \A t \in Tabs : pc[t] = "renew" => due[t] = RenewInterval
    /\ \A t \in Tabs : pc[t] = "task" => store.left = TTL - RenewInterval + due[t]
SectionInv ==
    /\ \A t, u \in Tabs : pc[t] \in Sections /\ pc[u] \in Sections => t = u
    /\ \A t \in Tabs : pc[t] = "acquire" => ~Held
LockInv == TypeOK /\ OwnerInv /\ SectionInv
================================================================================
