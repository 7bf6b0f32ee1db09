--------------------------------- MODULE MC_ChatApp ---------------------------------
(* TLC instances of ChatApp, and of the streams it uses. *)
EXTENDS ChatApp
=============================================================================
