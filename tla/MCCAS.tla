------------------------------- MODULE MCCAS --------------------------------
(* Small instances of CAS for TLC. *)
EXTENDS CAS, TLC

CONSTANTS a, b

NoFn == [v \in Values |-> NoValue]

(* An update that always writes, and one that fails on the value b. *)
Flip  == [v \in Values |-> IF v = a THEN b ELSE a]
OnlyA == [v \in Values |-> IF v = a THEN b ELSE NoValue]

MCOp(kind, key, value, expect, fn) ==
  [kind |-> kind, key |-> key, value |-> value, expect |-> expect, fn |-> fn, limit |-> 0]

MCCreate(k)    == MCOp("create", k, a, 0, NoFn)
MCGet(k)       == MCOp("get", k, NoValue, 0, NoFn)
MCSwap(k, e, v) == MCOp("swap", k, v, e, NoFn)
MCUpdate(k, f) == MCOp("update", k, NoValue, 0, f)
MCDelete(k, e) == MCOp("delete", k, NoValue, e, NoFn)

(* Every operation, on one key or more. *)
MCOps ==
  UNION {{MCCreate(k), MCGet(k), MCSwap(k, 1, b), MCSwap(k, 2, a), MCSwap(k, 2, b),
          MCUpdate(k, Flip), MCUpdate(k, OnlyA), MCDelete(k, 0), MCDelete(k, 2)} : k \in Keys}

(* Enough to delete, reclaim and make a record again. *)
MCOpsGC == UNION {{MCCreate(k), MCDelete(k, 0)} : k \in Keys}

Symmetry == Permutations(Clients)
=============================================================================
