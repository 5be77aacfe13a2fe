---------------------------- MODULE MCRetryMidia ----------------------------
(* Instances of RetryMidia for TLC. *)
EXTENDS RetryMidia
============================================================================
