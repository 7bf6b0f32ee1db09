---------------------------- MODULE MC_Backpressure ----------------------------
(* TLC instances of Backpressure. *)
EXTENDS Backpressure
=============================================================================
