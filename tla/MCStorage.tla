----------------------------- MODULE MCStorage -----------------------------
(* A small instance of Storage for TLC. *)
EXTENDS Storage, TLC

(* The stores share nothing but Engine.Close: one of them is used at a     *)
(* time.  While the engine is being closed callbacks are short.            *)
Untroubled == ~kv.closed /\ \A x \in Closers : closer[x] = "idle"

Bounded ==
  \/ /\ backend = "memory"
     /\ data = Empty /\ \A c \in Clients : tx[c] = NoTx
  \/ /\ service = "memory"
     /\ object = NoObject /\ \A u \in Uploaders : put[u] = NoPut
     /\ Untroubled \/ \A c \in Clients : Len(tx[c].log) = 0

Symmetry ==
  UNION {Permutations(S) : S \in {Clients, Uploaders, Closers, Keys}}
=============================================================================
