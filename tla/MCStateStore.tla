----------------------------- MODULE MCStateStore -----------------------------
(***************************************************************************)
(* Small instances of StateStore for TLC.  Tasks, writers and readers are  *)
(* model values and interchangeable.                                       *)
(***************************************************************************)
EXTENDS StateStore

Symmetry == Permutations(Ids) \cup Permutations(Writers) \cup Permutations(Readers)
===============================================================================
