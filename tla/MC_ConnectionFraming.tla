------------------------- MODULE MC_ConnectionFraming -------------------------
(* TLC instances of the two framings: a buffer of 4 bytes stands for 1024. *)
EXTENDS ConnectionFraming

AnySizes == {2, 3, 4, 5}
=============================================================================
