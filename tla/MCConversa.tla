----------------------------- MODULE MCConversa -----------------------------
(* Instance of the conversation: kinds of message and bounds for TLC.      *)
EXTENDS ReceptorTelegram
============================================================================
