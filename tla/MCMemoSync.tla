------------------------------- MODULE MCMemoSync -------------------------------
(* Small instances of MemoSync. *)
EXTENDS MemoSync, TLC

(* Contents are only compared, so those that are not empty may be swapped. *)
TextSymmetry == Permutations(Texts \ {Blank})
================================================================================
