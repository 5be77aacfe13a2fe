--------------------------- MODULE MCIaResiliente ---------------------------
(* Instances of IaResiliente for TLC. *)
EXTENDS IaResiliente
============================================================================
