---------------------------- MODULE MC_ServerFraming ----------------------------
(* TLC instances of ServerFraming: a buffer of 4 bytes stands for 1024. *)
EXTENDS ServerFraming

AnySizes == {2, 3, 4, 5, 6}
=============================================================================
