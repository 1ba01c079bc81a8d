------------------------------- MODULE MCLRU -------------------------------
(* Small instances of LRU for TLC. *)
EXTENDS LRU, TLC

(* LastAccessAt left out by the caller, or the Unix epoch. *)
NoTime      == {ZeroTime}
NoneOrEpoch == {ZeroTime, 0}

Symmetry == Permutations(Clients) \cup Permutations(Workers)
=============================================================================
