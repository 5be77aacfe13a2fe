---------------------------- MODULE MCPareamento ----------------------------
(* Instances of Pareamento for TLC. *)
EXTENDS Pareamento
============================================================================
