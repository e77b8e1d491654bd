------------------------------- MODULE SyncMutex -------------------------------
(***************************************************************************)
(* What the synchronisation lock of web/src/lib/memore-sync.ts promises    *)
(* its callers: runMemoreSyncTaskWithLock(url, task) runs at most one task *)
(* at a time for one remote server, whichever tab it is called from.       *)
(*                                                                         *)
(* SyncTabLock implements this specification when its storage sections are *)
(* atomic, its renewal timer is punctual enough and nobody resets the lock *)
(* (theorem ImplementsMutex of SyncTabLock_proofs).                        *)
(***************************************************************************)
CONSTANT Tabs       \* the browser tabs that share one localStorage

VARIABLE inside     \* the tabs whose synchronisation task is running

Init == inside = {}

(* A tab's task starts; nobody else's is running. *)
Enter(t) == inside = {} /\ inside' = {t}

(* The task returns or throws, or the tab goes away. *)
Leave(t) == inside = {t} /\ inside' = {}

Next == \E t \in Tabs : Enter(t) \/ Leave(t)

Spec == Init /\ [][Next]_inside
================================================================================
