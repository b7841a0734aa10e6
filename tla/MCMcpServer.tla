---- MODULE MCMcpServer ----
(***************************************************************************)
(* A small instance of McpServer for TLC.                                  *)
(***************************************************************************)
EXTENDS McpServer
====
