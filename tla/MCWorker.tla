------------------------------- MODULE MCWorker -------------------------------
(***************************************************************************)
(* A small instance of Worker for TLC: two submissions of one task and one *)
(* of a long-running task.                                                 *)
(***************************************************************************)
EXTENDS Worker

TwoOfOne == <<"build", "build", "serve">>
===============================================================================
