---------------------------- MODULE MCMemoSyncFaults ----------------------------
(***************************************************************************)
(* MemoSync with requests that fail, runs that die, a full localStorage    *)
(* and metadata that the user resets, exports and imports.                 *)
(***************************************************************************)
EXTENDS MemoSync, TLC

CONSTANTS ShortTime

(* The bound of the instance: there are two memos on a side only until     *)
(* ShortTime and while no metadata has been exported; with one memo on     *)
(* each side time goes on until MaxTime.                                   *)
OneMemo == \A i \in Ids \ {1} : local[i] = Fresh /\ remote[i] = Fresh
Bounded == clock > ShortTime \/ backup # EmptyDisk => OneMemo

(* Contents are only compared, so they may be swapped. *)
TextSymmetry == Permutations(Texts \ {Blank})
================================================================================
