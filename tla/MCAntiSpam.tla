---------------------------- MODULE MCAntiSpam ----------------------------
(* Instances of AntiSpam for TLC. *)
EXTENDS AntiSpam
============================================================================
