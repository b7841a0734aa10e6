---- MODULE MCInfraStacks ----
(***************************************************************************)
(* A small instance of InfraStacks for TLC.                                *)
(***************************************************************************)
EXTENDS InfraStacks

CONSTANTS n, p, dev, other

MCCliRequests == {[id |-> n, type |-> "browser", project |-> None, port |-> None],
                  [id |-> n, type |-> "browser", project |-> None, port |-> other]}
====
