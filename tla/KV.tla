--------------------------------- MODULE KV ---------------------------------
(***************************************************************************)
(* The two implementations of storage.KV.  MemoryKV (storage/memory.go)    *)
(* holds its mutex from the beginning to the end of a transaction and      *)
(* buffers the writes; slateDBKV (storage/slatedb.go) holds a read lock    *)
(* for as long as an operation uses the database handle, and SlateDB, an   *)
(* external library, validates the transaction at its commit.  Close takes *)
(* the lock exclusively.                                                   *)
(*                                                                         *)
(* Every operation of a callback is a step.  A call that finds the store   *)
(* closed is a stuttering step, and so are plain reads.                    *)
(***************************************************************************)
EXTENDS Integers, Sequences

CONSTANTS
  Clients,   \* goroutines that use the store
  Closers,   \* goroutines that close it
  Keys,
  Values,
  Nothing,   \* the value of a key that is not there
  Untouched, \* what memoryTx.pending holds for a key it does not have
  Faults,    \* SlateDB returns errors, also for commits that took effect
  MaxOps     \* bound: operations of one callback

ASSUME ValuesAssumption == Nothing \notin Values /\ Untouched \notin Values \cup {Nothing}
ASSUME BoundsAssumption == Faults \in BOOLEAN /\ MaxOps \in Nat

VARIABLES
  backend,  \* which implementation it is
  data,     \* m.data, or what SlateDB has committed
  tx,       \* the transaction of each client
  holders,  \* who holds the lock: one client, or readers
  closers,  \* who waits for the lock in Close
  kv        \* the closed flag and the SlateDB handle

kvVars == <<backend, data, tx, holders, closers, kv>>

Serial == INSTANCE SerialKV
  WITH running <- {c \in Clients : tx[c].pc = "run"},
       log     <- [c \in Clients |-> tx[c].log],
       result  <- [c \in Clients |-> tx[c].result]

(* pc: idle, in the callback, or past it (deferred calls are due).         *)
(* ended: a ghost, how often Commit or Rollback was called.  dirty: the    *)
(* keys that others wrote since the snapshot, which SlateDB keeps track of. *)
Transactions ==
  [pc: {"idle", "run", "ended"}, result: {"none", "ok", "error"}, log: Seq(Serial!Ops),
   snap: Serial!Contents, pending: [Keys -> Values \cup {Nothing, Untouched}],
   dirty: SUBSET Keys, finished: BOOLEAN, ended: Nat]

NoWrites == [k \in Keys |-> Untouched]
Empty    == [k \in Keys |-> Nothing]

NoTx == [pc |-> "idle", result |-> "none", log |-> <<>>, snap |-> Empty,
         pending |-> NoWrites, dirty |-> {}, finished |-> FALSE, ended |-> 0]

-----------------------------------------------------------------------------
(* The locks *)

(* A Close that does not wait for the operations under way. *)
MayCloseAnyTime == TRUE

(* A MemoryKV that runs transactions under a read lock. *)
MayEnterShared == closers = {}

(* A mutex lets in one; an RWMutex lets in readers unless a writer waits.  *)
MayEnter == IF backend = "memory" THEN holders = {} ELSE closers = {}
MayClose == holders = {}

(* checkLocked, beginOperation *)
Enters(c) == MayEnter /\ ~kv.closed /\ holders' = holders \cup {c}
Leaves(c) == holders' = holders \ {c}

-----------------------------------------------------------------------------
(* Transactions *)

TxBegin(c) ==
  /\ tx[c].pc = "idle"
  /\ Enters(c)
  /\ tx' = [tx EXCEPT ![c] =
              [NoTx EXCEPT !.pc = "run",
                           !.snap = IF backend = "memory" THEN Empty ELSE data]]
  /\ UNCHANGED <<backend, data, closers, kv>>

(* memoryTx.snap is the live map; SlateDB's is a snapshot. *)
Base(c) == IF backend = "memory" THEN data ELSE tx[c].snap

(* What a transaction sees, and what its commit makes of base. *)
Overlaid(base, pending) ==
  [k \in Keys |-> IF pending[k] = Untouched THEN base[k] ELSE pending[k]]

View(c) == Overlaid(Base(c), tx[c].pending)

Operates(c, o, pending) ==
  /\ tx[c].pc = "run"
  /\ Len(tx[c].log) < MaxOps
  /\ tx' = [tx EXCEPT ![c].log = Append(@, o), ![c].pending = pending]
  /\ UNCHANGED <<backend, data, holders, closers, kv>>

TxGet(c) == \E k \in Keys :
  Operates(c, [op |-> "get", key |-> k, value |-> View(c)[k]], tx[c].pending)

(* tx.Put, and with v = Nothing tx.Delete. *)
TxPut(c) == \E k \in Keys, v \in Values \cup {Nothing} :
  Operates(c, [op |-> "put", key |-> k, value |-> v], [tx[c].pending EXCEPT ![k] = v])

TxScan(c) == Operates(c, [op |-> "scan", found |-> Serial!Present(View(c))], tx[c].pending)

(* The keys that the transaction of c read or wrote: SlateDB validates both. *)
Scanned(c) == \E i \in DOMAIN tx[c].log : tx[c].log[i].op = "scan"
Used(c) == IF Scanned(c) THEN Keys ELSE {tx[c].log[i].key : i \in DOMAIN tx[c].log}
Wrote(c) == {k \in Keys : tx[c].pending[k] # Untouched}

Conflict(c) == backend = "slatedb" /\ tx[c].dirty \cap Used(c) # {}

(* The transaction of c is over, its callback returned; a commit or        *)
(* rollback was called ends times.                                         *)
Ended(t, r, finished, ends) ==
  [t EXCEPT !.pc = "ended", !.result = r, !.log = <<>>, !.pending = NoWrites, !.snap = Empty,
            !.dirty = {}, !.finished = finished, !.ended = ends]

(* The keys in ks now differ from what others' snapshots hold. *)
Dirtied(t, ks) == IF t.pc = "run" /\ backend = "slatedb" THEN [t EXCEPT !.dirty = @ \cup ks] ELSE t

Lands(c, r) ==
  /\ data' = Overlaid(data, tx[c].pending)
  /\ tx' = [d \in Clients |-> IF d = c THEN Ended(tx[c], r, TRUE, 1) ELSE Dirtied(tx[d], Wrote(c))]
  /\ UNCHANGED <<backend, holders, closers, kv>>

TxCommit(c) ==
  /\ tx[c].pc = "run"
  /\ ~Conflict(c)
  /\ Lands(c, "ok")

(* Commit returns an error although it took effect. *)
TxCommitUnreported(c) ==
  /\ Faults /\ backend = "slatedb"
  /\ tx[c].pc = "run"
  /\ ~Conflict(c)
  /\ Lands(c, "error")

(* ErrConflict, or another error of Commit. *)
TxCommitFails(c) ==
  /\ tx[c].pc = "run"
  /\ Conflict(c) \/ (Faults /\ backend = "slatedb")
  /\ tx' = [tx EXCEPT ![c] = Ended(@, "error", TRUE, 1)]
  /\ UNCHANGED <<backend, data, holders, closers, kv>>

(* A rollback that does not set finished. *)
RolledBackUnmarked(t) == Ended(t, "error", FALSE, 1)

RolledBack(t) == Ended(t, "error", TRUE, 1)

(* The callback returns an error. *)
TxRollback(c) ==
  /\ tx[c].pc = "run"
  /\ tx' = [tx EXCEPT ![c] = RolledBack(@)]
  /\ UNCHANGED <<backend, data, holders, closers, kv>>

(* The callback panics: only the deferred calls run. *)
TxPanic(c) ==
  /\ tx[c].pc = "run"
  /\ tx' = [tx EXCEPT ![c] = Ended(@, "error", FALSE, 0)]
  /\ UNCHANGED <<backend, data, holders, closers, kv>>

(* The deferred calls: Rollback unless finished, Destroy, the unlock. *)
TxReturn(c) ==
  /\ tx[c].pc = "ended"
  /\ tx' = [tx EXCEPT ![c] = NoTx]
  /\ Leaves(c)
  /\ UNCHANGED <<backend, data, closers, kv>>

(* kv.Put and kv.Delete: the lock, the write and the unlock. *)
PlainWrite(c) ==
  /\ tx[c].pc = "idle"
  /\ MayEnter /\ ~kv.closed
  /\ \E k \in Keys, v \in Values \cup {Nothing} :
       /\ data' = [data EXCEPT ![k] = v]
       /\ tx' = [d \in Clients |-> Dirtied(tx[d], {k})]
  /\ UNCHANGED <<backend, holders, closers, kv>>

-----------------------------------------------------------------------------
(* Close *)

CloseCalled(x) ==
  /\ x \notin closers
  /\ closers' = closers \cup {x}
  /\ UNCHANGED <<backend, data, tx, holders, kv>>

(* With the lock: the flag, or ErrClosed; slateDBKV also destroys db. *)
CloseLocked(x) ==
  /\ x \in closers
  /\ MayClose
  /\ kv' = [closed |-> TRUE, handle |-> IF backend = "slatedb" THEN "destroyed" ELSE kv.handle]
  /\ closers' = closers \ {x}
  /\ UNCHANGED <<backend, data, tx, holders>>

KVInit ==
  /\ backend \in {"memory", "slatedb"}
  /\ data = Empty
  /\ tx = [c \in Clients |-> NoTx]
  /\ holders = {}
  /\ closers = {}
  /\ kv = [closed |-> FALSE, handle |-> "open"]

KVStep(c) ==
  \/ TxBegin(c) \/ TxGet(c) \/ TxPut(c) \/ TxScan(c)
  \/ TxCommit(c) \/ TxCommitUnreported(c) \/ TxCommitFails(c)
  \/ TxRollback(c) \/ TxPanic(c) \/ TxReturn(c) \/ PlainWrite(c)
=============================================================================
