-------------------------- MODULE MCContextoVideo --------------------------
(* Instance of ContextoVideo for TLC. *)
EXTENDS ContextoVideo
============================================================================
