--------------------------- MODULE StorageProofs ----------------------------
(***************************************************************************)
(* Proofs about Storage, for any clients, closers, keys, values and bodies *)
(* of any length: Close destroys the SlateDB handle under nobody, every    *)
(* transaction is ended once, no Engine.Close returns before both stores   *)
(* are closed, and no Put stores a body that has not the declared size.    *)
(***************************************************************************)
EXTENDS Storage, TLAPS

-----------------------------------------------------------------------------
(* Transactions *)

LEMMA EmptyTypes ==
  /\ Empty \in Serial!Contents
  /\ NoWrites \in [Keys -> Values \cup {Nothing, Untouched}]
BY DEF Empty, NoWrites, Serial!Contents

LEMMA NoTxType == NoTx \in Transactions /\ NoTx.pc = "idle"
<1>1. <<>> \in Seq(Serial!Ops)
  OBVIOUS
<1> QED
  BY <1>1, EmptyTypes DEF NoTx, Transactions

EndedOnce(t) == t.pc = "ended" => t.ended + (IF t.finished THEN 0 ELSE 1) = 1

LEMMA EndedShape ==
  ASSUME NEW t \in Transactions, NEW r \in {"ok", "error"}, NEW f \in BOOLEAN, NEW n \in Nat
  PROVE  LET e == Ended(t, r, f, n)
         IN  e \in Transactions /\ e.pc = "ended" /\ e.finished = f /\ e.ended = n
<1>1. <<>> \in Seq(Serial!Ops)
  OBVIOUS
<1> QED
  BY <1>1, EmptyTypes DEF Ended, Transactions

(* After Commit or Rollback, and after a panic. *)
LEMMA EndedType ==
  ASSUME NEW t \in Transactions, NEW r \in {"ok", "error"}
  PROVE  LET e == Ended(t, r, TRUE, 1)
         IN  e \in Transactions /\ e.pc = "ended" /\ EndedOnce(e)
<1> DEFINE e == Ended(t, r, TRUE, 1)
<1>1. TRUE \in BOOLEAN /\ 1 \in Nat
  OBVIOUS
<1>2. e \in Transactions /\ e.pc = "ended" /\ e.finished = TRUE /\ e.ended = 1
  BY <1>1, EndedShape, Zenon
<1> HIDE DEF e
<1>3. (IF e.finished THEN 0 ELSE 1) = 0
  BY <1>2, Zenon
<1>4. e.ended + (IF e.finished THEN 0 ELSE 1) = 1
  BY <1>2, <1>3
<1> QED
  BY <1>2, <1>4 DEF EndedOnce, e

LEMMA PanicType ==
  ASSUME NEW t \in Transactions
  PROVE  LET e == Ended(t, "error", FALSE, 0)
         IN  e \in Transactions /\ e.pc = "ended" /\ EndedOnce(e)
<1> DEFINE e == Ended(t, "error", FALSE, 0)
<1>1. FALSE \in BOOLEAN /\ 0 \in Nat /\ "error" \in {"ok", "error"}
  OBVIOUS
<1>2. e \in Transactions /\ e.pc = "ended" /\ e.finished = FALSE /\ e.ended = 0
  BY <1>1, EndedShape, Zenon
<1> HIDE DEF e
<1>3. (IF e.finished THEN 0 ELSE 1) = 1
  BY <1>2, Zenon
<1>4. e.ended + (IF e.finished THEN 0 ELSE 1) = 1
  BY <1>2, <1>3
<1> QED
  BY <1>2, <1>4 DEF EndedOnce, e

LEMMA DirtiedType ==
  ASSUME NEW t \in Transactions, NEW ks \in SUBSET Keys
  PROVE  LET e == Dirtied(t, ks)
         IN  /\ e \in Transactions
             /\ e.pc = t.pc /\ e.finished = t.finished /\ e.ended = t.ended
BY DEF Dirtied, Transactions

LEMMA BegunType ==
  ASSUME NEW d \in Serial!Contents
  PROVE  LET e == [NoTx EXCEPT !.pc = "run", !.snap = d]
         IN  e \in Transactions /\ e.pc = "run"
BY NoTxType DEF NoTx, Transactions

LEMMA OperatedType ==
  ASSUME NEW t \in Transactions, NEW l \in Seq(Serial!Ops),
         NEW p \in [Keys -> Values \cup {Nothing, Untouched}]
  PROVE  LET e == [t EXCEPT !.log = l, !.pending = p]
         IN  e \in Transactions /\ e.pc = t.pc
BY DEF Transactions

LEMMA OverlaidType ==
  ASSUME NEW b \in Serial!Contents, NEW p \in [Keys -> Values \cup {Nothing, Untouched}]
  PROVE  Overlaid(b, p) \in Serial!Contents
BY DEF Overlaid, Serial!Contents

-----------------------------------------------------------------------------
(* What a step of a client of the KV does to its transaction and its lock. *)

KVTypes ==
  /\ backend \in {"memory", "slatedb"}
  /\ data \in Serial!Contents
  /\ tx \in [Clients -> Transactions]
  /\ holders \subseteq Clients /\ closers \subseteq Closers
  /\ kv \in [closed: BOOLEAN, handle: {"open", "destroyed"}]

(* t becomes u as seen by another client's step. *)
Alike(t, u) == u.pc = t.pc /\ u.finished = t.finished /\ u.ended = t.ended

(* The transaction of c goes on or ends; c waits for nothing and enters;   *)
(* c leaves; c writes without a transaction.                               *)
Change(c) ==
  /\ data' \in Serial!Contents /\ tx' \in [Clients -> Transactions]
  /\ \A d \in Clients \ {c} : Alike(tx[d], tx'[d])
  /\ \/ /\ tx[c].pc = "run" /\ tx'[c].pc # "idle" /\ EndedOnce(tx'[c]) /\ holders' = holders
     \/ /\ tx'[c].pc = "run" /\ ~kv.closed /\ holders' = holders \cup {c}
     \/ tx'[c].pc = "idle" /\ holders' = holders \ {c}
     \/ tx[c].pc = "idle" /\ Alike(tx[c], tx'[c]) /\ holders' = holders
  /\ UNCHANGED <<backend, closers, kv>>

(* One transaction is replaced. *)
LEMMA ReplaceTx ==
  ASSUME KVTypes, NEW c \in Clients, NEW e \in Transactions, tx' = [tx EXCEPT ![c] = e]
  PROVE  /\ tx' \in [Clients -> Transactions] /\ tx'[c] = e
         /\ \A d \in Clients \ {c} : Alike(tx[d], tx'[d])
BY DEF KVTypes, Alike

LEMMA BeginChange == ASSUME KVTypes, NEW c \in Clients, TxBegin(c) PROVE Change(c)
<1> DEFINE d == IF backend = "memory" THEN Empty ELSE data
           e == [NoTx EXCEPT !.pc = "run", !.snap = d]
<1>1. d \in Serial!Contents
  BY EmptyTypes DEF KVTypes
<1>2. tx' = [tx EXCEPT ![c] = e]
  BY DEF TxBegin
<1> HIDE DEF d
<1>3. e \in Transactions /\ e.pc = "run"
  BY <1>1, BegunType
<1> HIDE DEF e
<1> QED
  BY <1>2, <1>3, ReplaceTx DEF Change, TxBegin, Enters, KVTypes

LEMMA OperationChange ==
  ASSUME KVTypes, NEW c \in Clients, NEW o \in Serial!Ops,
         NEW p \in [Keys -> Values \cup {Nothing, Untouched}], Operates(c, o, p)
  PROVE  Change(c)
<1> DEFINE l == Append(tx[c].log, o)
           e == [tx[c] EXCEPT !.log = l, !.pending = p]
<1>1. tx[c] \in Transactions /\ tx[c].log \in Seq(Serial!Ops)
  BY DEF KVTypes, Transactions
<1>2. l \in Seq(Serial!Ops)
  BY <1>1
<1>3. tx' = [tx EXCEPT ![c] = e]
  BY DEF Operates, KVTypes
<1> HIDE DEF l
<1>4. e \in Transactions /\ e.pc = tx[c].pc
  BY <1>1, <1>2, OperatedType
<1> HIDE DEF e
<1>5. tx[c].pc = "run" /\ UNCHANGED <<backend, data, holders, closers, kv>>
  BY DEF Operates
<1> QED
  BY <1>3, <1>4, <1>5, ReplaceTx DEF Change, EndedOnce, KVTypes

LEMMA OperationsChange ==
  ASSUME KVTypes, NEW c \in Clients, TxGet(c) \/ TxPut(c) \/ TxScan(c)
  PROVE  Change(c)
<1>1. tx[c].pending \in [Keys -> Values \cup {Nothing, Untouched}]
  BY DEF KVTypes, Transactions
<1>2. View(c) \in Serial!Contents
  <2>1. Base(c) \in Serial!Contents
    BY DEF Base, KVTypes, Transactions
  <2> QED
    BY <1>1, <2>1, OverlaidType DEF View
<1>3. CASE TxGet(c)
  <2>1. PICK k \in Keys :
          Operates(c, [op |-> "get", key |-> k, value |-> View(c)[k]], tx[c].pending)
    BY <1>3 DEF TxGet
  <2>2. [op |-> "get", key |-> k, value |-> View(c)[k]] \in Serial!Ops
    BY <1>2 DEF Serial!Ops, Serial!Contents
  <2> QED
    BY <1>1, <2>1, <2>2, OperationChange
<1>4. CASE TxPut(c)
  <2>1. PICK k \in Keys, v \in Values \cup {Nothing} :
          Operates(c, [op |-> "put", key |-> k, value |-> v], [tx[c].pending EXCEPT ![k] = v])
    BY <1>4 DEF TxPut
  <2>2. [op |-> "put", key |-> k, value |-> v] \in Serial!Ops
    BY <2>1 DEF Serial!Ops
  <2>3. [tx[c].pending EXCEPT ![k] = v] \in [Keys -> Values \cup {Nothing, Untouched}]
    BY <1>1, <2>1
  <2> QED
    BY <2>1, <2>2, <2>3, OperationChange
<1>5. CASE TxScan(c)
  <2>1. [op |-> "scan", found |-> Serial!Present(View(c))] \in Serial!Ops
    BY DEF Serial!Ops, Serial!Present
  <2> QED
    BY <1>1, <1>5, <2>1, OperationChange DEF TxScan
<1> QED
  BY <1>3, <1>4, <1>5

LEMMA LandingChange ==
  ASSUME KVTypes, NEW c \in Clients, NEW r \in {"ok", "error"}, tx[c].pc = "run", Lands(c, r)
  PROVE  Change(c)
<1> DEFINE e == Ended(tx[c], r, TRUE, 1)
           u(d) == Dirtied(tx[d], Wrote(c))
<1>1. \A d \in Clients : tx[d] \in Transactions
  BY DEF KVTypes
<1>2. e \in Transactions /\ EndedOnce(e) /\ e.pc = "ended"
  BY <1>1, EndedType
<1>3. \A d \in Clients : u(d) \in Transactions /\ Alike(tx[d], u(d))
  BY <1>1, DirtiedType DEF Wrote, Alike
<1>4. tx' = [d \in Clients |-> IF d = c THEN e ELSE u(d)]
  BY DEF Lands
<1> HIDE DEF e, u
<1>5. /\ tx' \in [Clients -> Transactions] /\ tx'[c] = e
      /\ \A d \in Clients \ {c} : Alike(tx[d], tx'[d])
  BY <1>2, <1>3, <1>4
<1>6. data' \in Serial!Contents
  <2>1. tx[c].pending \in [Keys -> Values \cup {Nothing, Untouched}]
    BY DEF KVTypes, Transactions
  <2> QED
    BY <2>1, OverlaidType DEF Lands, KVTypes
<1> QED
  BY <1>2, <1>5, <1>6 DEF Change, Lands

(* The transaction ends without an effect. *)
LEMMA EndingChange ==
  ASSUME KVTypes, NEW c \in Clients, NEW e \in Transactions, e.pc = "ended", EndedOnce(e),
         tx[c].pc = "run", tx' = [tx EXCEPT ![c] = e],
         UNCHANGED <<backend, data, holders, closers, kv>>
  PROVE  Change(c)
BY ReplaceTx DEF Change, KVTypes

LEMMA KVChange ==
  ASSUME KVTypes, NEW c \in Clients, KVStep(c)
  PROVE  Change(c)
<1>1. CASE TxCommit(c) \/ TxCommitUnreported(c)
  BY <1>1, LandingChange DEF TxCommit, TxCommitUnreported
<1>2. CASE TxCommitFails(c) \/ TxRollback(c)
  <2> DEFINE e == Ended(tx[c], "error", TRUE, 1)
  <2>1. e \in Transactions /\ e.pc = "ended" /\ EndedOnce(e)
    BY EndedType DEF KVTypes
  <2>2. /\ tx[c].pc = "run" /\ tx' = [tx EXCEPT ![c] = e]
        /\ UNCHANGED <<backend, data, holders, closers, kv>>
    BY <1>2 DEF TxCommitFails, TxRollback, RolledBack
  <2> HIDE DEF e
  <2> QED
    BY <2>1, <2>2, EndingChange
<1>3. CASE TxPanic(c)
  <2> DEFINE e == Ended(tx[c], "error", FALSE, 0)
  <2>1. e \in Transactions /\ e.pc = "ended" /\ EndedOnce(e)
    BY PanicType DEF KVTypes
  <2>2. /\ tx[c].pc = "run" /\ tx' = [tx EXCEPT ![c] = e]
        /\ UNCHANGED <<backend, data, holders, closers, kv>>
    BY <1>3 DEF TxPanic
  <2> HIDE DEF e
  <2> QED
    BY <2>1, <2>2, EndingChange
<1>4. CASE TxReturn(c)
  <2>1. tx' = [tx EXCEPT ![c] = NoTx]
    BY <1>4 DEF TxReturn
  <2> QED
    BY <1>4, <2>1, NoTxType, ReplaceTx DEF Change, TxReturn, Leaves, KVTypes
<1>5. CASE PlainWrite(c)
  <2>1. PICK k \in Keys, v \in Values \cup {Nothing} :
          /\ data' = [data EXCEPT ![k] = v]
          /\ tx' = [d \in Clients |-> Dirtied(tx[d], {k})]
    BY <1>5 DEF PlainWrite
  <2>2. \A d \in Clients : tx[d] \in Transactions
    BY DEF KVTypes
  <2>3. \A d \in Clients : Dirtied(tx[d], {k}) \in Transactions
                           /\ Alike(tx[d], Dirtied(tx[d], {k}))
    BY <2>2, DirtiedType DEF Alike
  <2>4. tx' \in [Clients -> Transactions] /\ \A d \in Clients : Alike(tx[d], tx'[d])
    BY <2>1, <2>3
  <2>5. data' \in Serial!Contents
    BY <2>1 DEF KVTypes, Serial!Contents
  <2> QED
    BY <1>5, <2>4, <2>5 DEF Change, PlainWrite
<1> QED
  BY <1>1, <1>2, <1>3, <1>4, <1>5, BeginChange, OperationsChange DEF KVStep

-----------------------------------------------------------------------------
(* The lock and the handle *)

(* Who is in a transaction holds the lock, which Close leaves nobody with. *)
UseInv ==
  /\ \A c \in Clients : tx[c].pc # "idle" => c \in holders
  /\ kv.closed => holders = {}
  /\ kv.handle # "open" => kv.closed

OnceInv == \A c \in Clients : EndedOnce(tx[c])

LEMMA ChangeKeeps ==
  ASSUME KVTypes, UseInv, OnceInv, NEW c \in Clients, Change(c)
  PROVE  KVTypes' /\ UseInv' /\ OnceInv'
<1>1. KVTypes'
  BY DEF KVTypes, Change
<1>2. ASSUME NEW d \in Clients PROVE (tx[d].pc # "idle" => d \in holders)'
  <2>1. CASE d = c
    BY <2>1 DEF Change, Alike, UseInv
  <2>2. CASE d # c
    BY <2>2 DEF Change, Alike, UseInv
  <2> QED
    BY <2>1, <2>2
<1>3. (kv.closed => holders = {})'
  BY DEF Change, UseInv
<1>4. (kv.handle # "open" => kv.closed)'
  BY DEF Change, UseInv
<1>5. ASSUME NEW d \in Clients PROVE EndedOnce(tx[d])'
  <2>1. CASE d = c
    BY <2>1 DEF Change, Alike, OnceInv, EndedOnce
  <2>2. CASE d # c
    BY <2>2 DEF Change, Alike, OnceInv, EndedOnce
  <2> QED
    BY <2>1, <2>2
<1> QED
  BY <1>1, <1>2, <1>3, <1>4, <1>5 DEF UseInv, OnceInv

LEMMA ClosingKeeps ==
  ASSUME KVTypes, UseInv, OnceInv, NEW x \in Closers, CloseCalled(x) \/ CloseLocked(x)
  PROVE  KVTypes' /\ UseInv' /\ OnceInv' /\ (kv.closed => kv'.closed)
<1>1. CASE CloseCalled(x)
  BY <1>1 DEF CloseCalled, KVTypes, UseInv, OnceInv, EndedOnce
<1>2. CASE CloseLocked(x)
  <2> DEFINE h == IF backend = "slatedb" THEN "destroyed" ELSE kv.handle
  <2>1. kv' = [closed |-> TRUE, handle |-> h] /\ holders = {}
        /\ UNCHANGED <<backend, data, tx, holders>> /\ closers' = closers \ {x}
    BY <1>2 DEF CloseLocked, MayClose
  <2>2. h \in {"open", "destroyed"}
    BY DEF KVTypes
  <2> HIDE DEF h
  <2>3. kv' \in [closed: BOOLEAN, handle: {"open", "destroyed"}] /\ kv'.closed
    BY <2>1, <2>2
  <2> QED
    BY <2>1, <2>3 DEF KVTypes, UseInv, OnceInv, EndedOnce
<1> QED
  BY <1>1, <1>2

-----------------------------------------------------------------------------
(* Puts *)

BlobTypes ==
  /\ service \in {"memory", "s3"}
  /\ object \in Lengths \cup {NoObject}
  /\ put \in [Uploaders -> Puts]
  /\ blobsClosed \in BOOLEAN

(* What the reader has given and still has are the body, and no more was   *)
(* taken than is due; what is decided is decided rightly.                  *)
Exact(p) ==
  /\ p.pc # "idle" => p.body \in Lengths
  /\ p.pc = "read" => p.taken + p.left = p.body
  /\ p.pc = "read" /\ p.size # Unknown => p.taken <= p.size
  /\ p.pc = "read" /\ (service = "memory" \/ p.size = Unknown) => p.taken = 0
  /\ p.pc = "store" => p.taken = p.body /\ p.size \in {Unknown, p.body}
  /\ p.pc = "mismatch" => p.size \notin {Unknown, p.body}

PutInv == \A u \in Uploaders : Exact(put[u])

LEMMA PutFields ==
  ASSUME NEW p \in Puts
  PROVE  /\ p.pc \in {"idle", "read", "store", "mismatch"} /\ p.body \in Lengths \cup {0}
         /\ p.size \in Lengths \cup {Unknown} /\ p.left \in Nat /\ p.taken \in Nat
         /\ p.body \in Nat /\ p.size \in Int
<1>1. /\ p.pc \in {"idle", "read", "store", "mismatch"} /\ p.body \in Lengths \cup {0}
      /\ p.size \in Lengths \cup {Unknown} /\ p.left \in Nat /\ p.taken \in Nat
  BY DEF Puts
<1>2. Lengths \cup {0} \subseteq Nat /\ Lengths \cup {Unknown} \subseteq Int
  BY LengthsAssumption DEF Unknown
<1>3. p.body \in Nat /\ p.size \in Int
  BY <1>1, <1>2, Zenon
<1> QED
  BY <1>1, <1>3, Zenon

LEMMA NoPutType == NoPut \in Puts /\ Exact(NoPut)
BY DEF NoPut, Puts, Exact

LEMMA BegunPut ==
  ASSUME NEW n \in Lengths, NEW size \in Lengths \cup {Unknown}
  PROVE  LET q == [NoPut EXCEPT !.pc = "read", !.body = n, !.size = size, !.left = n]
         IN  q \in Puts /\ Exact(q)
<1> DEFINE q == [NoPut EXCEPT !.pc = "read", !.body = n, !.size = size, !.left = n]
<1>1. n \in Nat /\ size \in Int /\ (size # Unknown => size >= 0)
  BY LengthsAssumption DEF Unknown
<1>2. /\ q \in Puts /\ q.pc = "read" /\ q.body = n /\ q.size = size /\ q.left = n
      /\ q.taken = 0
  BY <1>1 DEF NoPut, Puts
<1> HIDE DEF q
<1>3. Exact(q)
  BY <1>1, <1>2 DEF Exact
<1> QED
  BY <1>2, <1>3 DEF q

LEMMA PieceType ==
  ASSUME NEW p \in Puts, Exact(p), p.pc = "read", p.size # Unknown,
         NEW n \in 0..p.left, NEW eof \in BOOLEAN, n <= Remaining(p), eof => n = p.left,
         service = "s3"
  PROVE  Piece(p, n, eof) \in Puts /\ Exact(Piece(p, n, eof))
<1> DEFINE pc == IF eof /\ Remaining(p) - n > 0 THEN "mismatch" ELSE "read"
           left == p.left - n
           taken == p.taken + n
           q == [p EXCEPT !.pc = pc, !.left = left, !.taken = taken]
<1>1. Piece(p, n, eof) = q
  BY DEF Piece, Puts
<1>2. /\ p.left \in Nat /\ p.taken \in Nat /\ p.body \in Nat /\ p.size \in Int
      /\ p.taken + p.left = p.body /\ p.taken <= p.size /\ p.body \in Lengths
      /\ n \in Nat /\ n <= p.left
  BY PutFields DEF Exact
<1>3. left \in Nat /\ taken \in Nat /\ taken + left = p.body
  BY <1>2
<1>4. taken <= p.size
  BY <1>2 DEF Remaining
<1>5. pc \in {"read", "mismatch"}
  OBVIOUS
<1>6. pc = "mismatch" => p.size # p.body
  BY <1>2 DEF Remaining
<1> HIDE DEF pc, left, taken
<1>7. /\ q \in Puts /\ q.pc = pc /\ q.body = p.body /\ q.size = p.size
      /\ q.left = left /\ q.taken = taken
  BY <1>3, <1>5 DEF Puts
<1> HIDE DEF q
<1>8. Exact(q)
  BY <1>2, <1>3, <1>4, <1>5, <1>6, <1>7 DEF Exact
<1> QED
  BY <1>1, <1>7, <1>8

LEMMA ProbedType ==
  ASSUME NEW p \in Puts, Exact(p), p.pc = "read", p.size # Unknown, Remaining(p) = 0
  PROVE  Probed(p) \in Puts /\ Exact(Probed(p))
<1>1. /\ p.left \in Nat /\ p.taken \in Nat /\ p.body \in Nat /\ p.size \in Int
      /\ p.taken + p.left = p.body /\ p.body \in Lengths /\ p.taken = p.size
  BY PutFields DEF Exact, Remaining
<1>2. CASE p.left > 0
  <2> DEFINE left == p.left - 1
             q == [p EXCEPT !.pc = "mismatch", !.left = left, !.taken = p.taken]
  <2>1. Probed(p) = q
    BY <1>2 DEF Probed, Puts
  <2>2. left \in Nat /\ p.size # p.body
    BY <1>1, <1>2
  <2> HIDE DEF left
  <2>3. q \in Puts /\ q.pc = "mismatch" /\ q.body = p.body /\ q.size = p.size
    BY <1>1, <2>2 DEF Puts
  <2> HIDE DEF q
  <2> QED
    BY <1>1, <2>1, <2>2, <2>3 DEF Exact
<1>3. CASE ~(p.left > 0)
  <2> DEFINE q == [p EXCEPT !.pc = "store", !.left = p.left, !.taken = p.taken]
  <2>1. Probed(p) = q
    BY <1>3 DEF Probed, Puts
  <2>2. q \in Puts /\ q.pc = "store" /\ q.body = p.body /\ q.size = p.size /\ q.taken = p.taken
    BY <1>1 DEF Puts
  <2>3. p.taken = p.body /\ p.size = p.body
    BY <1>1, <1>3
  <2> HIDE DEF q
  <2> QED
    BY <1>1, <2>1, <2>2, <2>3 DEF Exact
<1> QED
  BY <1>2, <1>3

(* MemoryBlobStore reads at most one byte more than is due. *)
LEMMA ReadAllType ==
  ASSUME NEW p \in Puts, Exact(p), p.pc = "read", service = "memory",
         NEW n, n = IF p.size = Unknown \/ p.body <= ReadLimit(p.size)
                    THEN p.body ELSE ReadLimit(p.size)
  PROVE  LET q == [p EXCEPT !.pc = IF p.size \in {Unknown, n} THEN "store" ELSE "mismatch",
                            !.taken = n, !.left = @ - n]
         IN  q \in Puts /\ Exact(q)
<1> DEFINE pc == IF p.size \in {Unknown, n} THEN "store" ELSE "mismatch"
           left == p.left - n
           q == [p EXCEPT !.pc = pc, !.taken = n, !.left = left]
<1>1. /\ p.left \in Nat /\ p.body \in Nat /\ p.size \in Int /\ p.taken = 0
      /\ p.taken + p.left = p.body /\ p.body \in Lengths
      /\ p.size # Unknown => p.size \in Nat
  BY PutFields, LengthsAssumption DEF Exact
<1>2. p.left = p.body
  BY <1>1
<1>3. n \in Nat /\ n <= p.body
  BY <1>1 DEF ReadLimit
<1>4. left \in Nat
  BY <1>1, <1>2, <1>3
<1>5. pc \in {"store", "mismatch"}
  OBVIOUS
<1>6. pc = "store" => n = p.body /\ p.size \in {Unknown, p.body}
  BY <1>1 DEF ReadLimit
<1>7. pc = "mismatch" => p.size \notin {Unknown, p.body}
  BY <1>1 DEF ReadLimit
<1> HIDE DEF pc, left
<1>8. q \in Puts /\ q.pc = pc /\ q.body = p.body /\ q.size = p.size /\ q.taken = n
  BY <1>3, <1>4, <1>5 DEF Puts
<1> HIDE DEF q
<1>9. Exact(q)
  BY <1>1, <1>5, <1>6, <1>7, <1>8 DEF Exact
<1> QED
  BY <1>8, <1>9 DEF q, left, pc

LEMMA RawType ==
  ASSUME NEW p \in Puts, Exact(p), p.pc = "read", p.size = Unknown
  PROVE  LET q == [p EXCEPT !.pc = "store", !.taken = p.left, !.left = 0]
         IN  q \in Puts /\ Exact(q)
<1> DEFINE q == [p EXCEPT !.pc = "store", !.taken = p.left, !.left = 0]
<1>1. p.left \in Nat /\ p.body \in Nat /\ p.taken = 0 /\ p.taken + p.left = p.body
      /\ p.body \in Lengths
  BY PutFields DEF Exact
<1>2. p.left = p.body
  BY <1>1
<1>3. q \in Puts /\ q.pc = "store" /\ q.body = p.body /\ q.size = p.size /\ q.taken = p.left
  BY <1>1 DEF Puts
<1> HIDE DEF q
<1>4. Exact(q)
  BY <1>1, <1>2, <1>3 DEF Exact
<1> QED
  BY <1>3, <1>4 DEF q

(* One Put is replaced. *)
LEMMA ReplacePut ==
  ASSUME BlobTypes, PutInv, NEW u \in Uploaders, NEW q \in Puts, Exact(q),
         put' = [put EXCEPT ![u] = q], UNCHANGED <<service, blobsClosed>>,
         object' \in Lengths \cup {NoObject}
  PROVE  BlobTypes' /\ PutInv'
<1>1. BlobTypes'
  BY DEF BlobTypes
<1>2. ASSUME NEW v \in Uploaders PROVE Exact(put[v])'
  BY DEF BlobTypes, PutInv, Exact
<1> QED
  BY <1>1, <1>2 DEF PutInv

LEMMA BlobsKeep ==
  ASSUME BlobTypes, PutInv, NEW u \in Uploaders, BlobsStep(u)
  PROVE  BlobTypes' /\ PutInv'
<1> DEFINE p == put[u]
<1>1. p \in Puts /\ Exact(p) /\ object \in Lengths \cup {NoObject}
  BY DEF BlobTypes, PutInv
<1>2. CASE PutBegin(u)
  <2>1. PICK n \in Lengths, size \in Lengths \cup {Unknown} :
          put' = [put EXCEPT ![u] =
                    [NoPut EXCEPT !.pc = "read", !.body = n, !.size = size, !.left = n]]
    BY <1>2 DEF PutBegin
  <2> DEFINE q == [NoPut EXCEPT !.pc = "read", !.body = n, !.size = size, !.left = n]
  <2>2. q \in Puts /\ Exact(q)
    BY BegunPut
  <2>3. put' = [put EXCEPT ![u] = q]
    BY <2>1
  <2> HIDE DEF q
  <2> QED
    BY <1>1, <1>2, <2>2, <2>3, ReplacePut DEF PutBegin
<1>3. CASE PutReadAll(u)
  <2> DEFINE n == IF p.size = Unknown \/ p.body <= ReadLimit(p.size)
                  THEN p.body ELSE ReadLimit(p.size)
             q == [p EXCEPT !.pc = IF p.size \in {Unknown, n} THEN "store" ELSE "mismatch",
                            !.taken = n, !.left = @ - n]
  <2>1. p.pc = "read" /\ service = "memory" /\ put' = [put EXCEPT ![u] = q]
    BY <1>3 DEF PutReadAll
  <2>2. q \in Puts /\ Exact(q)
    BY <1>1, <2>1, ReadAllType
  <2> HIDE DEF q
  <2> QED
    BY <1>1, <1>3, <2>1, <2>2, ReplacePut DEF PutReadAll
<1>4. CASE PutReadPiece(u)
  <2>1. PICK n \in 0..p.left, eof \in BOOLEAN :
          n <= Remaining(p) /\ (eof => n = p.left) /\ put' = [put EXCEPT ![u] = Piece(p, n, eof)]
    BY <1>4 DEF PutReadPiece
  <2>2. Piece(p, n, eof) \in Puts /\ Exact(Piece(p, n, eof))
    BY <1>1, <1>4, <2>1, PieceType DEF PutReadPiece
  <2> QED
    BY <1>1, <1>4, <2>1, <2>2, ReplacePut DEF PutReadPiece
<1>5. CASE PutProbe(u)
  <2>1. put' = [put EXCEPT ![u] = Probed(p)]
    BY <1>5 DEF PutProbe
  <2>2. Probed(p) \in Puts /\ Exact(Probed(p))
    BY <1>1, <1>5, ProbedType DEF PutProbe
  <2> QED
    BY <1>1, <1>5, <2>1, <2>2, ReplacePut DEF PutProbe
<1>6. CASE PutReadRaw(u)
  <2> DEFINE q == [p EXCEPT !.pc = "store", !.taken = p.left, !.left = 0]
  <2>1. put' = [put EXCEPT ![u] = q]
    BY <1>6 DEF PutReadRaw, BlobTypes
  <2>2. q \in Puts /\ Exact(q)
    BY <1>1, <1>6, RawType DEF PutReadRaw
  <2> HIDE DEF q
  <2> QED
    BY <1>1, <1>6, <2>1, <2>2, ReplacePut DEF PutReadRaw
<1>7. CASE PutStore(u)
  <2>1. object' \in Lengths \cup {NoObject}
    BY <1>1, <1>7 DEF PutStore, Exact
  <2> QED
    BY <1>7, <2>1, NoPutType, ReplacePut DEF PutStore
<1>8. CASE PutFails(u)
  BY <1>1, <1>8, NoPutType, ReplacePut DEF PutFails
<1>9. CASE BlobDelete(u)
  BY <1>9 DEF BlobDelete, BlobTypes, PutInv, Exact
<1> QED
  BY <1>2, <1>3, <1>4, <1>5, <1>6, <1>7, <1>8, <1>9 DEF BlobsStep

-----------------------------------------------------------------------------
(* The engine *)

EngineTypes ==
  /\ once \in {"new", "running", "done"}
  /\ closer \in [Closers -> {"idle", "kv", "blobs", "once", "direct", "returned"}]

(* The stores are closed one after the other, and for good. *)
CloseInv ==
  /\ \A x \in Closers : closer[x] = "blobs" => kv.closed
  /\ \A x \in Closers : closer[x] = "returned" => once = "done"
  /\ once = "done" => kv.closed /\ (service = "memory" => blobsClosed)

IInv ==
  /\ KVTypes /\ BlobTypes /\ EngineTypes
  /\ UseInv /\ OnceInv /\ PutInv /\ CloseInv

LEMMA InitInv == Init => IInv
<1> SUFFICES ASSUME Init PROVE IInv
  OBVIOUS
<1>1. KVTypes
  BY EmptyTypes, NoTxType DEF Init, KVInit, KVTypes
<1>2. BlobTypes /\ PutInv
  BY NoPutType DEF Init, BlobsInit, BlobTypes, PutInv
<1>3. UseInv /\ OnceInv
  BY NoTxType DEF Init, KVInit, UseInv, OnceInv, EndedOnce
<1>4. EngineTypes /\ CloseInv
  BY DEF Init, EngineTypes, CloseInv
<1> QED
  BY <1>1, <1>2, <1>3, <1>4 DEF IInv

(* Steps that leave the engine alone, and the closed flags closed. *)
LEMMA CloseKept ==
  ASSUME CloseInv, UNCHANGED engineVars, kv.closed => kv'.closed,
         service' = service, blobsClosed => blobsClosed'
  PROVE  CloseInv'
BY DEF CloseInv, engineVars

LEMMA EngineKeeps ==
  ASSUME IInv, NEW x \in Closers, CloseStep(x)
  PROVE  IInv'
<1>1. CASE EngineClose(x)
  <2>1. UNCHANGED blobVars /\ UNCHANGED kv
    BY <1>1 DEF EngineClose, CloseCalled, kvVars
  <2>2. KVTypes' /\ UseInv' /\ OnceInv'
    <3>1. CASE UNCHANGED kvVars
      BY <3>1 DEF IInv, kvVars, KVTypes, UseInv, OnceInv, EndedOnce
    <3>2. CASE CloseCalled(x)
      BY <3>2, ClosingKeeps DEF IInv
    <3> QED
      BY <1>1, <3>1, <3>2 DEF EngineClose
  <2>3. BlobTypes' /\ PutInv'
    BY <2>1 DEF IInv, blobVars, BlobTypes, PutInv, Exact
  <2>4. OnceEnters \in {"kv", "once"} /\ closer' = [closer EXCEPT ![x] = OnceEnters]
    BY <1>1 DEF EngineClose, OnceEnters
  <2>5. once' = once \/ (once = "new" /\ once' = "running")
    BY <1>1 DEF EngineClose
  <2>6. EngineTypes'
    BY <2>4, <2>5 DEF IInv, EngineTypes
  <2>7. CloseInv'
    BY <2>1, <2>4, <2>5 DEF IInv, EngineTypes, CloseInv, blobVars
  <2> QED
    BY <2>2, <2>3, <2>6, <2>7 DEF IInv
<1>2. CASE EngineKVClosed(x) \/ DirectClosed(x) \/ DirectClose(x)
  <2>1. KVTypes' /\ UseInv' /\ OnceInv' /\ (kv.closed => kv'.closed)
    BY <1>2, ClosingKeeps DEF IInv, EngineKVClosed, DirectClosed, DirectClose
  <2>2. BlobTypes' /\ PutInv'
    BY <1>2 DEF IInv, EngineKVClosed, DirectClosed, DirectClose, blobVars, BlobTypes,
         PutInv, Exact
  <2>3. EngineTypes'
    BY <1>2 DEF IInv, EngineKVClosed, DirectClosed, DirectClose, EngineTypes
  <2>4. EngineKVClosed(x) => kv'.closed
    BY DEF EngineKVClosed, CloseLocked
  <2>5. CloseInv'
    <3>1. UNCHANGED <<service, blobsClosed, once>>
      BY <1>2 DEF EngineKVClosed, DirectClosed, DirectClose, blobVars
    <3>2. \/ closer' = [closer EXCEPT ![x] = "blobs"] /\ kv'.closed
          \/ closer' = [closer EXCEPT ![x] = "idle"]
          \/ closer' = [closer EXCEPT ![x] = "direct"]
      BY <1>2, <2>4 DEF EngineKVClosed, DirectClosed, DirectClose
    <3> QED
      BY <2>1, <3>1, <3>2 DEF IInv, EngineTypes, CloseInv
  <2> QED
    BY <2>1, <2>2, <2>3, <2>5 DEF IInv
<1>3. CASE EngineBlobsClosed(x) \/ EngineCloseWaited(x)
  <2>1. KVTypes' /\ UseInv' /\ OnceInv' /\ kv' = kv
    BY <1>3 DEF EngineBlobsClosed, EngineCloseWaited, IInv, kvVars, KVTypes, UseInv,
         OnceInv, EndedOnce
  <2>2. /\ service' = service /\ object' = object /\ put' = put
        /\ blobsClosed' = blobsClosed \/ blobsClosed' = (service = "memory")
    BY <1>3 DEF EngineBlobsClosed, EngineCloseWaited, BlobsClose, blobVars
  <2>3. BlobTypes' /\ PutInv'
    BY <2>2 DEF IInv, BlobTypes, PutInv, Exact
  <2>4. closer' = [closer EXCEPT ![x] = "returned"] /\ once' = "done"
    BY <1>3 DEF EngineBlobsClosed, EngineCloseWaited
  <2>5. EngineTypes'
    BY <2>4 DEF IInv, EngineTypes
  <2>6. kv.closed
    BY <1>3 DEF IInv, CloseInv, EngineBlobsClosed, EngineCloseWaited
  <2>7. service = "memory" => blobsClosed'
    BY <1>3 DEF IInv, CloseInv, EngineBlobsClosed, EngineCloseWaited, BlobsClose, blobVars
  <2>8. CloseInv'
    BY <2>1, <2>2, <2>4, <2>6, <2>7 DEF IInv, EngineTypes, CloseInv
  <2> QED
    BY <2>1, <2>3, <2>5, <2>8 DEF IInv
<1> QED
  BY <1>1, <1>2, <1>3 DEF CloseStep

LEMMA InvStep ==
  ASSUME IInv, [Next]_vars
  PROVE  IInv'
<1>1. ASSUME NEW c \in Clients, KVStep(c), UNCHANGED <<blobVars, engineVars>> PROVE IInv'
  <2>1. Change(c)
    BY <1>1, KVChange DEF IInv
  <2>2. KVTypes' /\ UseInv' /\ OnceInv' /\ kv' = kv
    BY <2>1, ChangeKeeps DEF IInv, Change
  <2>3. BlobTypes' /\ PutInv' /\ EngineTypes'
    BY <1>1 DEF IInv, blobVars, engineVars, BlobTypes, PutInv, Exact, EngineTypes
  <2>4. CloseInv'
    BY <1>1, <2>2, CloseKept DEF IInv, blobVars
  <2> QED
    BY <2>2, <2>3, <2>4 DEF IInv
<1>2. ASSUME NEW u \in Uploaders, BlobsStep(u), UNCHANGED <<kvVars, engineVars>> PROVE IInv'
  <2>1. BlobTypes' /\ PutInv'
    BY <1>2, BlobsKeep DEF IInv
  <2>2. KVTypes' /\ UseInv' /\ OnceInv' /\ EngineTypes'
    BY <1>2 DEF IInv, kvVars, engineVars, KVTypes, UseInv, OnceInv, EndedOnce, EngineTypes
  <2>3. UNCHANGED <<service, blobsClosed>>
    BY <1>2 DEF BlobsStep, PutBegin, PutReadAll, PutReadPiece, PutProbe, PutReadRaw,
         PutStore, PutFails, BlobDelete
  <2>4. CloseInv'
    BY <1>2, <2>3, CloseKept DEF IInv, kvVars
  <2> QED
    BY <2>1, <2>2, <2>4 DEF IInv
<1>3. CASE UNCHANGED vars
  BY <1>3 DEF IInv, vars, kvVars, blobVars, engineVars, KVTypes, BlobTypes, EngineTypes,
       UseInv, OnceInv, EndedOnce, PutInv, Exact, CloseInv
<1> QED
  BY <1>1, <1>2, <1>3, EngineKeeps DEF Next

LEMMA Invariance == Spec => []IInv
BY InitInv, InvStep, PTL DEF Spec

-----------------------------------------------------------------------------
(* The theorems *)

(* The values keep their types; the object always has a length that some   *)
(* complete body had.                                                      *)
THEOREM TypeCorrect == Spec => []TypeOK
<1>1. IInv => TypeOK
  BY DEF IInv, KVTypes, BlobTypes, EngineTypes, TypeOK
<1> QED
  BY <1>1, Invariance, PTL

(* Close destroys the SlateDB handle only when no transaction uses it, and *)
(* no transaction starts afterwards.                                       *)
THEOREM HandleIsSafe == Spec => []HandleOutlivesUse
<1>1. IInv => HandleOutlivesUse
  BY DEF IInv, UseInv, HandleOutlivesUse
<1> QED
  BY <1>1, Invariance, PTL

(* A transaction is committed or rolled back once, whether its callback    *)
(* succeeds, fails or panics.                                              *)
THEOREM EveryTxnEndsOnce == Spec => []TxnEndedOnce
<1>1. IInv => TxnEndedOnce
  BY DEF IInv, OnceInv, EndedOnce, TxnEndedOnce
<1> QED
  BY <1>1, Invariance, PTL

(* No Engine.Close returns before both stores are closed and their         *)
(* transactions are over, however many callers there are.                  *)
THEOREM CloseWaits == Spec => []CloseReturnsClosed
<1>1. IInv => CloseReturnsClosed
  BY DEF IInv, UseInv, CloseInv, CloseReturnsClosed
<1> QED
  BY <1>1, Invariance, PTL

(* The exact-size readers accept a body if and only if it has the declared *)
(* size, for every size and every way of reading it.                       *)
THEOREM OnlyWholeBodies == Spec => []SizesExact
<1>1. IInv => SizesExact
  BY DEF IInv, PutInv, Exact, SizesExact
<1> QED
  BY <1>1, Invariance, PTL

(* For every object and every range: what GetBlob delivers is the range,   *)
(* cut at the end of the object, from either store.                        *)
LEMMA RangeLemma ==
  ASSUME NEW z \in Nat, NEW start \in Int, NEW end \in Int, NEW to \in 0..z,
         service \in {"memory", "s3"}, end >= -1,
         to = IF end < 0 \/ end > z THEN z ELSE end
  PROVE  GetBlob(z, start, end) = IF start \in 0..to THEN <<start, to>> ELSE NoRange
<1> DEFINE got == OpenRange(z, start, to)
<1>1. CASE start < 0 \/ start > to
  <2>1. GetBlob(z, start, end) = NoRange
    BY <1>1 DEF GetBlob
  <2> QED
    BY <1>1, <2>1
<1>2. CASE start >= 0 /\ start <= to
  <2>1. got = <<start, to>>
    <3>1. CASE service = "memory"
      BY <1>2, <3>1 DEF OpenRange, OpenRangeMemory
    <3>2. CASE service = "s3" /\ start = to
      BY <1>2, <3>2 DEF OpenRange, OpenRangeS3
    <3>3. CASE service = "s3" /\ start < to
      <4>1. start < z /\ ~(LastByte(to) >= z) /\ LastByte(to) + 1 = to
        BY <1>2, <3>3 DEF LastByte
      <4> QED
        BY <1>2, <3>3, <4>1 DEF OpenRange, OpenRangeS3
    <3> QED
      BY <1>2, <3>1, <3>2, <3>3
  <2>2. got[1] = start /\ got[2] = to
    BY <2>1
  <2>3. GetBlob(z, start, end) = got
    BY <1>2, <2>2 DEF GetBlob
  <2> QED
    BY <1>2, <2>1, <2>3
<1> QED
  BY <1>1, <1>2

(* A range that was asked for is delivered exactly, whatever the length of *)
(* the object.                                                             *)
THEOREM RangesAreExact == Spec => []RangesExact
<1>1. ASSUME IInv PROVE RangesExact
  <2> SUFFICES ASSUME object # NoObject, NEW start \in -1..(object + 1),
                      NEW end \in -1..(object + 1)
               PROVE  LET to == IF end = -1 \/ end > object THEN object ELSE end
                      IN  GetBlob(object, start, end)
                            = IF start \in 0..to THEN <<start, to>> ELSE NoRange
    BY DEF RangesExact
  <2>1. object \in Nat /\ service \in {"memory", "s3"}
    BY <1>1, LengthsAssumption DEF IInv, BlobTypes
  <2> DEFINE to == IF end = -1 \/ end > object THEN object ELSE end
  <2>2. /\ start \in Int /\ end \in Int /\ end >= -1 /\ to \in 0..object
        /\ to = IF end < 0 \/ end > object THEN object ELSE end
    BY <2>1
  <2> HIDE DEF to
  <2>3. GetBlob(object, start, end) = IF start \in 0..to THEN <<start, to>> ELSE NoRange
    BY <2>1, <2>2, RangeLemma
  <2> QED
    BY <2>3 DEF to
<1> QED
  BY <1>1, Invariance, PTL
=============================================================================
