---------------------------- MODULE MCTaskService -----------------------------
(***************************************************************************)
(* Small instances of TaskService for TLC.                                 *)
(***************************************************************************)
EXTENDS TaskService

\* One task that is submitted at most twice; two tasks, once each.
Twice == <<"build", "build">>
OnceEach == <<"build", "serve">>
===============================================================================
