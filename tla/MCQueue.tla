------------------------------ MODULE MCQueue ------------------------------
(* The queue on small instances. *)
EXTENDS Queue, TLC

CONSTANTS c1, c2, q1

Symmetry == Permutations(Clients)

(* All clients are goroutines of one process. *)
OneProcess == [c \in Clients |-> q1]
=============================================================================
