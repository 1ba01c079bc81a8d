------------------------------- MODULE MCTree -------------------------------
(* Small instances of Tree for TLC: a root above a leaf that has one blob. *)
EXTENDS Tree, TLC

CONSTANTS root, leaf, blob

MCChildrenOf == [n \in Nodes |-> IF n = root THEN {leaf} ELSE {}]
MCBlobsOf    == [n \in Nodes |-> IF n = leaf THEN {blob} ELSE {}]

Symmetry == Permutations(Clients)
=============================================================================
