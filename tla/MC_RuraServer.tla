----------------------------- MODULE MC_RuraServer -----------------------------
(* TLC instances of RuraServer. *)
EXTENDS RuraServerProps, TLC

MessageOnly == {"message"}
HistoryOnly == {"message", "history"}
NoFlags     == {}
BothFlags   == BOOLEAN
NoLimits    == {}
OneRow      == {1}
HugeLimit   == {7}   \* with HalfWord = 4, `7 as i64` is -1
SessionSymmetry == Permutations(Session)
=============================================================================
