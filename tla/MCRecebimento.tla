--------------------------- MODULE MCRecebimento ----------------------------
(* Instance of the bridge's goroutines for TLC. *)
EXTENDS Recebimento
============================================================================
