--------------------------- MODULE MCDaemonControl ----------------------------
(***************************************************************************)
(* Small instances of DaemonControl for TLC.                               *)
(***************************************************************************)
EXTENDS DaemonControl
===============================================================================
