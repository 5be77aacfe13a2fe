----------------------------- MODULE MCChegada -----------------------------
(* Instances of Chegada for TLC. *)
EXTENDS Chegada
============================================================================
