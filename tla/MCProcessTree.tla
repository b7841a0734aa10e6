---- MODULE MCProcessTree ----
(***************************************************************************)
(* Small instances of ProcessTree for TLC.                                 *)
(***************************************************************************)
EXTENDS ProcessTree
====
