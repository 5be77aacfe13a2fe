----------------------------- MODULE MCEntrega -----------------------------
(* Instances of Entrega, with its journal, for TLC. *)
EXTENDS EntregaRegistro
============================================================================
