---- MODULE MCLogReaders ----
(***************************************************************************)
(* Small instances of LogReaders for TLC.                                  *)
(***************************************************************************)
EXTENDS LogReaders
====
