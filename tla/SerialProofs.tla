---------------------------- MODULE SerialProofs ----------------------------
(***************************************************************************)
(* Both KVs implement the serial store, for any clients, keys and values   *)
(* and callbacks of any length: what a MemoryKV's mutex and what SlateDB's *)
(* validation of a snapshot achieve is the same promise.                   *)
(***************************************************************************)
EXTENDS StorageProofs

-----------------------------------------------------------------------------
(* Runs *)

(* s is the history of a run of l from d to e. *)
History(s, d, l, e) ==
  /\ s \in [0..Len(l) -> Serial!Contents]
  /\ s[0] = d /\ s[Len(l)] = e
  /\ \A i \in 1..Len(l) :
       Serial!Truthful(s[i - 1], l[i]) /\ s[i] = Serial!After(s[i - 1], l[i])

LEMMA RunsHistory ==
  ASSUME NEW d, NEW l, NEW e
  PROVE  Serial!Runs(d, l, e) <=> \E s : History(s, d, l, e)
BY DEF Serial!Runs, History

LEMMA RunsEmpty ==
  ASSUME NEW d \in Serial!Contents
  PROVE  Serial!Runs(d, <<>>, d)
<1> DEFINE s == [i \in 0..0 |-> d]
<1>1. History(s, d, <<>>, d)
  BY DEF History
<1> QED
  BY <1>1, RunsHistory

LEMMA AfterType ==
  ASSUME NEW d \in Serial!Contents, NEW o \in Serial!Ops
  PROVE  Serial!After(d, o) \in Serial!Contents
BY DEF Serial!Contents, Serial!Ops, Serial!After

(* One more operation that returns the truth. *)
LEMMA RunsAppend ==
  ASSUME NEW d \in Serial!Contents, NEW e \in Serial!Contents, NEW l \in Seq(Serial!Ops),
         NEW o \in Serial!Ops, Serial!Runs(d, l, e), Serial!Truthful(e, o)
  PROVE  Serial!Runs(d, Append(l, o), Serial!After(e, o))
<1>1. PICK s : History(s, d, l, e)
  BY RunsHistory
<1> DEFINE n == Len(l)
           m == Append(l, o)
           f == Serial!After(e, o)
           r == [i \in 0..(n + 1) |-> IF i = n + 1 THEN f ELSE s[i]]
<1>2. n \in Nat /\ Len(m) = n + 1 /\ m[n + 1] = o /\ \A i \in 1..n : m[i] = l[i]
  OBVIOUS
<1>3. f \in Serial!Contents
  BY AfterType
<1> HIDE DEF m, f
<1>4. r \in [0..Len(m) -> Serial!Contents]
  BY <1>1, <1>2, <1>3 DEF History
<1>5. r[0] = d /\ r[Len(m)] = f /\ r[n] = e
  BY <1>1, <1>2 DEF History
<1>6. ASSUME NEW i \in 1..Len(m)
      PROVE  Serial!Truthful(r[i - 1], m[i]) /\ r[i] = Serial!After(r[i - 1], m[i])
  <2>1. CASE i = n + 1
    <3>1. i - 1 = n /\ r[i] = f /\ m[i] = o
      BY <1>2, <2>1
    <3> QED
      BY <3>1, <1>5 DEF f
  <2>2. CASE i # n + 1
    <3>1. i \in 1..n /\ i - 1 \in 0..n /\ i # n + 1 /\ i - 1 # n + 1
      BY <1>2, <2>2
    <3>2. r[i - 1] = s[i - 1] /\ r[i] = s[i] /\ m[i] = l[i]
      BY <1>2, <3>1
    <3> HIDE DEF r
    <3> QED
      BY <1>1, <3>1, <3>2 DEF History
  <2> QED
    BY <2>1, <2>2
<1> HIDE DEF r
<1>7. History(r, d, m, f)
  BY <1>4, <1>5, <1>6 DEF History
<1> QED
  BY <1>7, RunsHistory DEF m, f

(* The operations of l read and write only keys in U; a scan reads all. *)
Within(l, U) ==
  \A i \in 1..Len(l) : IF l[i].op = "scan" THEN U = Keys ELSE l[i].key \in U

(* e on U, f elsewhere. *)
Mixed(U, e, f) == [k \in Keys |-> IF k \in U THEN e[k] ELSE f[k]]

LEMMA MixedAfter ==
  ASSUME NEW U \in SUBSET Keys, NEW d \in Serial!Contents, NEW f \in Serial!Contents,
         NEW o \in Serial!Ops, IF o.op = "scan" THEN U = Keys ELSE o.key \in U
  PROVE  /\ Serial!After(Mixed(U, d, f), o) = Mixed(U, Serial!After(d, o), f)
         /\ Serial!Truthful(d, o) => Serial!Truthful(Mixed(U, d, f), o)
<1>1. CASE o.op = "scan"
  <2>1. Mixed(U, d, f) = d
    BY <1>1 DEF Mixed, Serial!Contents
  <2> QED
    BY <1>1, <2>1 DEF Serial!After
<1>2. CASE o.op # "scan"
  <2>1. o.key \in U /\ o.op \in {"get", "put"}
    BY <1>2 DEF Serial!Ops
  <2>2. Serial!After(Mixed(U, d, f), o) = Mixed(U, Serial!After(d, o), f)
    <3>1. CASE o.op = "put"
      <4>1. /\ Serial!After(d, o) = [d EXCEPT ![o.key] = o.value]
            /\ Serial!After(Mixed(U, d, f), o) = [Mixed(U, d, f) EXCEPT ![o.key] = o.value]
        BY <3>1 DEF Serial!After
      <4> QED
        BY <2>1, <4>1 DEF Mixed, Serial!Contents
    <3>2. CASE o.op # "put"
      BY <3>2 DEF Serial!After
    <3> QED
      BY <3>1, <3>2
  <2>3. Mixed(U, d, f)[o.key] = d[o.key]
    BY <2>1 DEF Mixed
  <2> QED
    BY <1>2, <2>1, <2>2, <2>3 DEF Serial!Truthful
<1> QED
  BY <1>1, <1>2

(* A run is one from any other contents that agree on the keys it uses. *)
LEMMA RunsElsewhere ==
  ASSUME NEW U \in SUBSET Keys, NEW l \in Seq(Serial!Ops), Within(l, U),
         NEW d \in Serial!Contents, NEW e \in Serial!Contents, NEW f \in Serial!Contents,
         \A k \in U : f[k] = d[k], Serial!Runs(d, l, e)
  PROVE  Serial!Runs(f, l, Mixed(U, e, f))
<1>1. PICK s : History(s, d, l, e)
  BY RunsHistory
<1> DEFINE r == [i \in 0..Len(l) |-> Mixed(U, s[i], f)]
<1>2. \A b \in Serial!Contents : Mixed(U, b, f) \in Serial!Contents
  BY DEF Mixed, Serial!Contents
<1>3. Len(l) \in Nat /\ s \in [0..Len(l) -> Serial!Contents]
  BY <1>1 DEF History
<1>4. r \in [0..Len(l) -> Serial!Contents]
  BY <1>2, <1>3
<1>5. Mixed(U, d, f) = f
  BY DEF Mixed, Serial!Contents
<1>6. r[0] = f /\ r[Len(l)] = Mixed(U, e, f)
  <2>1. s[0] = d /\ s[Len(l)] = e /\ 0 \in 0..Len(l) /\ Len(l) \in 0..Len(l)
    BY <1>1, <1>3 DEF History
  <2> QED
    BY <2>1, <1>5
<1>7. ASSUME NEW i \in 1..Len(l)
      PROVE  Serial!Truthful(r[i - 1], l[i]) /\ r[i] = Serial!After(r[i - 1], l[i])
  <2>1. i \in 0..Len(l) /\ i - 1 \in 0..Len(l)
    BY <1>3
  <2>2. r[i - 1] = Mixed(U, s[i - 1], f) /\ r[i] = Mixed(U, s[i], f)
    BY <2>1
  <2>3. s[i - 1] \in Serial!Contents /\ l[i] \in Serial!Ops
    BY <1>3, <2>1
  <2>4. Serial!Truthful(s[i - 1], l[i]) /\ s[i] = Serial!After(s[i - 1], l[i])
    BY <1>1 DEF History
  <2>5. IF l[i].op = "scan" THEN U = Keys ELSE l[i].key \in U
    BY DEF Within
  <2> HIDE DEF r
  <2> QED
    BY <2>2, <2>3, <2>4, <2>5, MixedAfter
<1> HIDE DEF r
<1>8. History(r, f, l, Mixed(U, e, f))
  BY <1>4, <1>6, <1>7 DEF History
<1> QED
  BY <1>8, RunsHistory

-----------------------------------------------------------------------------
(* Transactions under way *)

(* In a callback: alone on its base, the operations so far return what     *)
(* they returned; what it writes it uses; and where its snapshot is not    *)
(* what is stored, SlateDB knows it.                                       *)
RunInv(c) ==
  /\ Serial!Runs(Base(c), tx[c].log, View(c))
  /\ Wrote(c) \subseteq Used(c)
  /\ backend = "slatedb" => \A k \in Keys \ tx[c].dirty : data[k] = tx[c].snap[k]

TxInv(c) ==
  /\ tx[c].pc = "ended" <=> tx[c].result # "none"
  /\ tx[c].pc # "run" => tx[c].log = <<>>
  /\ tx[c].pc = "run" => RunInv(c)

(* The mutex of MemoryKV. *)
MutexInv == backend = "memory" => \A c, d \in holders : c = d

SerialInv == IInv /\ MutexInv /\ \A c \in Clients : TxInv(c)

LEMMA TxTypes ==
  ASSUME KVTypes, NEW c \in Clients
  PROVE  /\ tx[c].log \in Seq(Serial!Ops)
         /\ tx[c].pending \in [Keys -> Values \cup {Nothing, Untouched}]
         /\ tx[c].snap \in Serial!Contents /\ data \in Serial!Contents
         /\ Base(c) \in Serial!Contents /\ View(c) \in Serial!Contents
         /\ tx[c].dirty \in SUBSET Keys
<1>1. /\ tx[c].log \in Seq(Serial!Ops)
      /\ tx[c].pending \in [Keys -> Values \cup {Nothing, Untouched}]
      /\ tx[c].snap \in Serial!Contents /\ data \in Serial!Contents
      /\ tx[c].dirty \in SUBSET Keys
  BY DEF KVTypes, Transactions
<1>2. Base(c) \in Serial!Contents
  BY <1>1 DEF Base
<1> QED
  BY <1>1, <1>2, OverlaidType DEF View

(* What t and u have in common when another client writes. *)
SameRun(t, u) ==
  /\ u.pc = t.pc /\ u.result = t.result /\ u.log = t.log
  /\ u.snap = t.snap /\ u.pending = t.pending

(* A write by another client keeps a transaction sound if it is on record. *)
LEMMA OthersKeep ==
  ASSUME KVTypes, KVTypes', NEW d \in Clients, TxInv(d), SameRun(tx[d], tx'[d]),
         backend' = backend,
         tx[d].pc = "run" /\ backend = "memory" => data' = data,
         tx[d].pc = "run" /\ backend = "slatedb" =>
           \A k \in Keys \ tx'[d].dirty : k \notin tx[d].dirty /\ data'[k] = data[k]
  PROVE  TxInv(d)'
<1>1. ASSUME tx[d].pc = "run" PROVE RunInv(d)'
  <2>0. RunInv(d)
    BY <1>1 DEF TxInv
  <2>1. Base(d)' = Base(d)
    BY <1>1 DEF Base, SameRun, KVTypes
  <2>2. View(d)' = View(d)
    BY <2>1 DEF View, Overlaid, SameRun
  <2>3. Wrote(d)' = Wrote(d) /\ Used(d)' = Used(d)
    BY DEF Wrote, Used, Scanned, SameRun
  <2>4. Serial!Runs(Base(d), tx[d].log, View(d))'
    BY <2>0, <2>1, <2>2, RunsHistory DEF RunInv, SameRun, Serial!Runs
  <2>5. (backend = "slatedb" => \A k \in Keys \ tx[d].dirty : data[k] = tx[d].snap[k])'
    BY <1>1, <2>0 DEF RunInv, SameRun
  <2> QED
    BY <2>0, <2>3, <2>4, <2>5 DEF RunInv
<1> QED
  BY <1>1 DEF TxInv, SameRun

LEMMA UsedKeys ==
  ASSUME KVTypes, NEW c \in Clients
  PROVE  Used(c) \in SUBSET Keys /\ Within(tx[c].log, Used(c))
<1>1. tx[c].log \in Seq(Serial!Ops)
  BY TxTypes
<1>2. \A i \in DOMAIN tx[c].log :
        tx[c].log[i].op # "scan" => tx[c].log[i].key \in Keys
  BY <1>1 DEF Serial!Ops
<1>3. DOMAIN tx[c].log = 1..Len(tx[c].log)
  BY <1>1
<1>4. CASE Scanned(c)
  BY <1>2, <1>3, <1>4 DEF Used, Within
<1>5. CASE ~Scanned(c)
  BY <1>2, <1>3, <1>5 DEF Used, Scanned, Within
<1> QED
  BY <1>4, <1>5

LEMMA BeginKeeps ==
  ASSUME KVTypes, NEW c \in Clients, TxBegin(c)
  PROVE  TxInv(c)' /\ \A d \in Clients \ {c} : tx'[d] = tx[d]
<1> DEFINE d == IF backend = "memory" THEN Empty ELSE data
           e == [NoTx EXCEPT !.pc = "run", !.snap = d]
<1>1. tx' = [tx EXCEPT ![c] = e] /\ UNCHANGED <<backend, data>>
  BY DEF TxBegin
<1>2. /\ e.pc = "run" /\ e.result = "none" /\ e.log = <<>> /\ e.snap = d
      /\ e.pending = NoWrites /\ e.dirty = {}
  BY DEF NoTx
<1> HIDE DEF e
<1>3. tx'[c] = e /\ \A x \in Clients \ {c} : tx'[x] = tx[x]
  BY <1>1 DEF KVTypes
<1>4. Base(c)' = data /\ data \in Serial!Contents
  BY <1>1, <1>2, <1>3 DEF Base, KVTypes
<1>5. View(c)' = data
  BY <1>2, <1>3, <1>4 DEF View, Overlaid, NoWrites, Serial!Contents
<1>6. Serial!Runs(Base(c), tx[c].log, View(c))'
  BY <1>2, <1>3, <1>4, <1>5, RunsEmpty DEF Serial!Runs
<1>7. Wrote(c)' = {}
  BY <1>2, <1>3 DEF Wrote, NoWrites
<1>8. (backend = "slatedb" => \A k \in Keys \ tx[c].dirty : data[k] = tx[c].snap[k])'
  BY <1>1, <1>2, <1>3 DEF KVTypes
<1>9. RunInv(c)'
  BY <1>6, <1>7, <1>8 DEF RunInv
<1> QED
  BY <1>2, <1>3, <1>9 DEF TxInv

(* An operation that returns what the transaction sees, and whose write    *)
(* the transaction sees from then on.                                      *)
LEMMA OperationKeeps ==
  ASSUME KVTypes, NEW c \in Clients, TxInv(c), NEW o \in Serial!Ops,
         NEW p \in [Keys -> Values \cup {Nothing, Untouched}], Operates(c, o, p),
         Serial!Truthful(View(c), o), Overlaid(Base(c), p) = Serial!After(View(c), o),
         \A k \in Keys : p[k] # Untouched => k \in Wrote(c) \/ (o.op # "scan" /\ k = o.key)
  PROVE  TxInv(c)' /\ \A d \in Clients \ {c} : tx'[d] = tx[d]
<1> DEFINE l == Append(tx[c].log, o)
           e == [tx[c] EXCEPT !.log = l, !.pending = p]
<1>0. tx[c] \in Transactions /\ tx[c].log \in Seq(Serial!Ops)
  BY DEF KVTypes, Transactions
<1>1. tx' = [tx EXCEPT ![c] = e] /\ UNCHANGED <<backend, data>> /\ tx[c].pc = "run"
  BY DEF Operates, KVTypes
<1>2. /\ DOMAIN tx[c].log = 1..Len(tx[c].log) /\ DOMAIN l = 1..(Len(tx[c].log) + 1)
      /\ l[Len(tx[c].log) + 1] = o /\ \A i \in DOMAIN tx[c].log : l[i] = tx[c].log[i]
      /\ Len(tx[c].log) \in Nat
  BY <1>0
<1>3. Serial!Runs(Base(c), l, Serial!After(View(c), o))
  BY <1>0, <1>1, TxTypes, RunsAppend DEF TxInv, RunInv
<1> HIDE DEF l
<1>4. /\ e.pc = "run" /\ e.result = tx[c].result /\ e.log = l /\ e.snap = tx[c].snap
      /\ e.pending = p /\ e.dirty = tx[c].dirty
  BY <1>0, <1>1 DEF Transactions
<1> HIDE DEF e
<1>5. tx'[c] = e /\ \A d \in Clients \ {c} : tx'[d] = tx[d]
  BY <1>1 DEF KVTypes
<1>6. Base(c)' = Base(c)
  BY <1>1, <1>4, <1>5 DEF Base
<1>7. View(c)' = Serial!After(View(c), o)
  BY <1>4, <1>5, <1>6 DEF View
<1>8. Serial!Runs(Base(c), tx[c].log, View(c))'
  BY <1>3, <1>4, <1>5, <1>6, <1>7 DEF Serial!Runs
<1>9. Wrote(c)' \subseteq Used(c)'
  <2>1. Used(c) \subseteq Used(c)' /\ (o.op # "scan" => o.key \in Used(c)')
    <3>0. tx'[c].log = l
      BY <1>4, <1>5
    <3>1. Used(c) \in SUBSET Keys /\ (o.op # "scan" => o.key \in Keys)
      BY UsedKeys DEF Serial!Ops
    <3>2. CASE Scanned(c)'
      BY <3>1, <3>2 DEF Used
    <3>3. CASE ~Scanned(c)'
      <4>1. ~Scanned(c) /\ Len(tx[c].log) + 1 \in DOMAIN l
        BY <1>2, <3>0, <3>3 DEF Scanned
      <4>2. Used(c) = {tx[c].log[i].key : i \in DOMAIN tx[c].log}
        BY <4>1 DEF Used
      <4>3. Used(c)' = {l[i].key : i \in DOMAIN l}
        BY <3>0, <3>3 DEF Used
      <4> QED
        BY <1>2, <4>1, <4>2, <4>3
    <3> QED
      BY <3>2, <3>3
  <2>2. Wrote(c) \subseteq Used(c)
    BY <1>1 DEF TxInv, RunInv
  <2>3. Wrote(c)' = {k \in Keys : p[k] # Untouched}
    BY <1>4, <1>5 DEF Wrote
  <2> QED
    BY <2>1, <2>2, <2>3
<1>10. (backend = "slatedb" => \A k \in Keys \ tx[c].dirty : data[k] = tx[c].snap[k])'
  BY <1>1, <1>4, <1>5 DEF TxInv, RunInv
<1>11. RunInv(c)'
  BY <1>8, <1>9, <1>10 DEF RunInv
<1> QED
  BY <1>1, <1>4, <1>5, <1>11 DEF TxInv

LEMMA OperationsKeep ==
  ASSUME KVTypes, NEW c \in Clients, TxInv(c), TxGet(c) \/ TxPut(c) \/ TxScan(c)
  PROVE  /\ TxInv(c)' /\ \A d \in Clients \ {c} : tx'[d] = tx[d]
         /\ \E o \in Serial!Ops : \E p : Operates(c, o, p)
<1>1. /\ tx[c].pending \in [Keys -> Values \cup {Nothing, Untouched}]
      /\ View(c) \in Serial!Contents /\ Base(c) \in Serial!Contents
  BY TxTypes
<1>2. \A k \in Keys : tx[c].pending[k] # Untouched => k \in Wrote(c)
  BY DEF Wrote
<1>3. CASE TxGet(c)
  <2>1. PICK k \in Keys :
          Operates(c, [op |-> "get", key |-> k, value |-> View(c)[k]], tx[c].pending)
    BY <1>3 DEF TxGet
  <2> DEFINE o == [op |-> "get", key |-> k, value |-> View(c)[k]]
  <2>2. o \in Serial!Ops
    BY <1>1 DEF Serial!Ops, Serial!Contents
  <2>3. Serial!Truthful(View(c), o)
    BY DEF Serial!Truthful
  <2>4. Overlaid(Base(c), tx[c].pending) = Serial!After(View(c), o)
    BY DEF View, Serial!After
  <2> HIDE DEF o
  <2> QED
    BY <1>1, <1>2, <2>1, <2>2, <2>3, <2>4, OperationKeeps DEF o
<1>4. CASE TxPut(c)
  <2>1. PICK k \in Keys, v \in Values \cup {Nothing} :
          Operates(c, [op |-> "put", key |-> k, value |-> v], [tx[c].pending EXCEPT ![k] = v])
    BY <1>4 DEF TxPut
  <2> DEFINE o == [op |-> "put", key |-> k, value |-> v]
             p == [tx[c].pending EXCEPT ![k] = v]
  <2>2. o \in Serial!Ops /\ o.op = "put" /\ o.key = k
    BY <2>1 DEF Serial!Ops
  <2>3. p \in [Keys -> Values \cup {Nothing, Untouched}]
    BY <1>1, <2>1
  <2>4. Serial!Truthful(View(c), o)
    BY DEF Serial!Truthful
  <2>5. Overlaid(Base(c), p) = Serial!After(View(c), o)
    <3>1. Serial!After(View(c), o) = [View(c) EXCEPT ![k] = v]
      BY DEF Serial!After
    <3>2. v # Untouched
      BY <2>1, ValuesAssumption
    <3> QED
      BY <1>1, <2>1, <3>1, <3>2 DEF View, Overlaid
  <2>6. \A j \in Keys : p[j] # Untouched => j \in Wrote(c) \/ (o.op # "scan" /\ j = o.key)
    BY <1>1, <1>2, <2>2
  <2>7. Operates(c, o, p)
    BY <2>1
  <2> HIDE DEF o, p
  <2> QED
    BY <2>2, <2>3, <2>4, <2>5, <2>6, <2>7, OperationKeeps
<1>5. CASE TxScan(c)
  <2> DEFINE o == [op |-> "scan", found |-> Serial!Present(View(c))]
  <2>1. o \in Serial!Ops
    BY DEF Serial!Ops, Serial!Present
  <2>2. Serial!Truthful(View(c), o)
    BY DEF Serial!Truthful
  <2>3. Overlaid(Base(c), tx[c].pending) = Serial!After(View(c), o)
    BY DEF View, Serial!After
  <2>4. Operates(c, o, tx[c].pending)
    BY <1>5 DEF TxScan
  <2> HIDE DEF o
  <2> QED
    BY <1>1, <1>2, <2>1, <2>2, <2>3, <2>4, OperationKeeps
<1> QED
  BY <1>3, <1>4, <1>5

(* The commit of a transaction without a conflict is a run on what is      *)
(* stored now.                                                             *)
LEMMA CommitRuns ==
  ASSUME KVTypes, NEW c \in Clients, TxInv(c), tx[c].pc = "run", ~Conflict(c)
  PROVE  Serial!Runs(data, tx[c].log, Overlaid(data, tx[c].pending))
<1>0. RunInv(c)
  BY DEF TxInv
<1>1. CASE backend = "memory"
  BY <1>0, <1>1 DEF RunInv, View, Base
<1>2. CASE backend = "slatedb"
  <2> DEFINE U == Used(c)
             V == View(c)
  <2>1. tx[c].dirty \cap U = {} /\ U \in SUBSET Keys /\ Within(tx[c].log, U)
    BY <1>2, UsedKeys DEF Conflict
  <2>2. \A k \in U : data[k] = tx[c].snap[k]
    BY <1>0, <1>2, <2>1 DEF RunInv
  <2>3. /\ tx[c].log \in Seq(Serial!Ops) /\ tx[c].snap \in Serial!Contents
        /\ data \in Serial!Contents /\ V \in Serial!Contents
        /\ tx[c].pending \in [Keys -> Values \cup {Nothing, Untouched}]
    BY TxTypes
  <2>4. Serial!Runs(tx[c].snap, tx[c].log, V)
    BY <1>0, <1>2 DEF RunInv, Base
  <2>5. Overlaid(data, tx[c].pending) = Mixed(U, V, data)
    <3>1. V = Overlaid(tx[c].snap, tx[c].pending)
      BY <1>2 DEF View, Base
    <3>2. ASSUME NEW k \in Keys, k \notin U PROVE tx[c].pending[k] = Untouched
      BY <1>0, <3>2 DEF RunInv, Wrote
    <3> HIDE DEF U, V
    <3> QED
      BY <2>1, <2>2, <2>3, <3>1, <3>2 DEF Overlaid, Mixed
  <2> HIDE DEF U, V
  <2> QED
    BY <2>1, <2>2, <2>3, <2>4, <2>5, RunsElsewhere
<1> QED
  BY <1>1, <1>2 DEF KVTypes

LEMMA EndedFields ==
  ASSUME NEW t \in Transactions, NEW r \in {"ok", "error"}, NEW f \in BOOLEAN, NEW n \in Nat
  PROVE  /\ Ended(t, r, f, n).pc = "ended" /\ Ended(t, r, f, n).result = r
         /\ Ended(t, r, f, n).log = <<>>
BY DEF Ended, Transactions

LEMMA EndedInv ==
  ASSUME NEW c \in Clients, tx'[c].pc = "ended", tx'[c].result \in {"ok", "error"},
         tx'[c].log = <<>>
  PROVE  TxInv(c)'
BY DEF TxInv

(* Others that run while keys ks are written. *)
LEMMA DirtiedFields ==
  ASSUME NEW t \in Transactions, NEW ks \in SUBSET Keys
  PROVE  /\ SameRun(t, Dirtied(t, ks))
         /\ t.pc = "run" /\ backend = "slatedb" => Dirtied(t, ks).dirty = t.dirty \cup ks
BY DEF Dirtied, Transactions, SameRun

LEMMA LandingKeeps ==
  ASSUME SerialInv, KVTypes', NEW c \in Clients, tx[c].pc = "run", NEW r \in {"ok", "error"},
         Lands(c, r)
  PROVE  /\ \A d \in Clients : TxInv(d)'
         /\ tx'[c].pc = "ended" /\ tx'[c].result = r /\ tx'[c].log = <<>>
         /\ \A d \in Clients \ {c} : SameRun(tx[d], tx'[d])
<1>0. KVTypes /\ tx[c] \in Transactions
  BY DEF SerialInv, IInv, KVTypes
<1>1. /\ data' = Overlaid(data, tx[c].pending) /\ backend' = backend
      /\ tx'[c] = Ended(tx[c], r, TRUE, 1)
      /\ \A d \in Clients \ {c} : tx'[d] = Dirtied(tx[d], Wrote(c))
  BY DEF Lands
<1>2. tx'[c].pc = "ended" /\ tx'[c].result = r /\ tx'[c].log = <<>>
  <2> DEFINE e == Ended(tx[c], r, TRUE, 1)
  <2>1. e.pc = "ended" /\ e.result = r /\ e.log = <<>>
    <3>1. TRUE \in BOOLEAN /\ 1 \in Nat /\ "error" \in {"ok", "error"}
      OBVIOUS
    <3> QED
      BY <1>0, <3>1, EndedFields, Zenon
  <2>2. tx'[c] = e
    BY <1>1
  <2> HIDE DEF e
  <2> QED
    BY <2>1, <2>2, Zenon
<1>3. ASSUME NEW d \in Clients \ {c} PROVE SameRun(tx[d], tx'[d]) /\ TxInv(d)'
  <2>0. TxInv(d) /\ tx[d] \in Transactions
    BY <1>0 DEF SerialInv, KVTypes
  <2>1. Wrote(c) \in SUBSET Keys
    BY DEF Wrote
  <2>2. SameRun(tx[d], tx'[d])
    BY <1>1, <2>0, <2>1, DirtiedFields
  <2>3. ~(tx[d].pc = "run" /\ backend = "memory")
    BY DEF SerialInv, MutexInv, IInv, UseInv
  <2>4. ASSUME tx[d].pc = "run", backend = "slatedb", NEW k \in Keys \ tx'[d].dirty
        PROVE  k \notin tx[d].dirty /\ data'[k] = data[k]
    <3>1. tx'[d].dirty = tx[d].dirty \cup Wrote(c)
      BY <1>1, <2>0, <2>1, <2>4, DirtiedFields
    <3> QED
      BY <1>1, <3>1 DEF Wrote, Overlaid
  <2> QED
    BY <1>0, <1>1, <2>0, <2>2, <2>3, <2>4, OthersKeep
<1>4. TxInv(c)'
  BY <1>2, EndedInv
<1> QED
  BY <1>2, <1>3, <1>4

LEMMA WriteKeeps ==
  ASSUME SerialInv, KVTypes', NEW c \in Clients, PlainWrite(c)
  PROVE  \A d \in Clients : TxInv(d)' /\ SameRun(tx[d], tx'[d])
<1>0. KVTypes
  BY DEF SerialInv, IInv
<1>1. PICK k \in Keys, v \in Values \cup {Nothing} :
        /\ data' = [data EXCEPT ![k] = v]
        /\ tx' = [d \in Clients |-> Dirtied(tx[d], {k})]
  BY DEF PlainWrite
<1>2. backend' = backend /\ (backend = "memory" => holders = {})
  BY DEF PlainWrite, MayEnter
<1> SUFFICES ASSUME NEW d \in Clients PROVE TxInv(d)' /\ SameRun(tx[d], tx'[d])
  OBVIOUS
<1>3. TxInv(d) /\ tx[d] \in Transactions /\ tx'[d] = Dirtied(tx[d], {k})
  BY <1>0, <1>1 DEF SerialInv, KVTypes
<1>4. SameRun(tx[d], tx'[d])
  BY <1>3, DirtiedFields
<1>5. ~(tx[d].pc = "run" /\ backend = "memory")
  BY <1>2 DEF SerialInv, IInv, UseInv
<1>6. ASSUME tx[d].pc = "run", backend = "slatedb", NEW j \in Keys \ tx'[d].dirty
      PROVE  j \notin tx[d].dirty /\ data'[j] = data[j]
  <2>1. tx'[d].dirty = tx[d].dirty \cup {k}
    BY <1>3, <1>6, DirtiedFields
  <2> QED
    BY <1>0, <1>1, <2>1 DEF KVTypes, Serial!Contents
<1> QED
  BY <1>0, <1>2, <1>3, <1>4, <1>5, <1>6, OthersKeep

-----------------------------------------------------------------------------
(* The refinement of a client's steps *)

LEMMA AloneKeeps ==
  ASSUME SerialInv, KVTypes', NEW c \in Clients, UNCHANGED <<backend, data>>,
         \A d \in Clients \ {c} : tx'[d] = tx[d], TxInv(c)'
  PROVE  \A d \in Clients : TxInv(d)' /\ (d # c => SameRun(tx[d], tx'[d]))
<1> SUFFICES ASSUME NEW d \in Clients \ {c} PROVE TxInv(d)' /\ SameRun(tx[d], tx'[d])
  OBVIOUS
<1>1. KVTypes /\ TxInv(d) /\ SameRun(tx[d], tx'[d])
  BY DEF SerialInv, IInv, SameRun
<1> QED
  BY <1>1, OthersKeep

(* What the serial store shows of a transaction that ends, and of others. *)
LEMMA ShowsEnded ==
  ASSUME KVTypes, KVTypes', NEW c \in Clients, tx[c].pc = "run", tx'[c].pc = "ended",
         tx'[c].log = <<>>, NEW r, tx'[c].result = r,
         \A d \in Clients \ {c} : SameRun(tx[d], tx'[d])
  PROVE  Serial!Ended(c, r)
BY DEF Serial!Ended, SameRun, KVTypes

LEMMA ShowsSame ==
  ASSUME KVTypes, KVTypes', \A d \in Clients : SameRun(tx[d], tx'[d])
  PROVE  /\ {c \in Clients : tx[c].pc = "run"}' = {c \in Clients : tx[c].pc = "run"}
         /\ [c \in Clients |-> tx[c].log]' = [c \in Clients |-> tx[c].log]
         /\ [c \in Clients |-> tx[c].result]' = [c \in Clients |-> tx[c].result]
BY DEF SameRun

(* A transaction ends without an effect. *)
LEMMA EndingRefines ==
  ASSUME SerialInv, KVTypes', NEW c \in Clients, tx[c].pc = "run",
         UNCHANGED <<backend, data>>, NEW f \in BOOLEAN, NEW n \in Nat,
         tx' = [tx EXCEPT ![c] = Ended(tx[c], "error", f, n)]
  PROVE  (\A d \in Clients : TxInv(d)') /\ Serial!Fail(c)
<1>0. KVTypes /\ tx[c] \in Transactions
  BY DEF SerialInv, IInv, KVTypes
<1>1. tx'[c] = Ended(tx[c], "error", f, n) /\ \A d \in Clients \ {c} : tx'[d] = tx[d]
  BY <1>0 DEF KVTypes
<1>2. tx'[c].pc = "ended" /\ tx'[c].result = "error" /\ tx'[c].log = <<>>
  <2> DEFINE e == Ended(tx[c], "error", f, n)
  <2>1. e.pc = "ended" /\ e.result = "error" /\ e.log = <<>>
    <3>1. TRUE \in BOOLEAN /\ 1 \in Nat /\ "error" \in {"ok", "error"}
      OBVIOUS
    <3> QED
      BY <1>0, <3>1, EndedFields, Zenon
  <2>2. tx'[c] = e
    BY <1>1
  <2> HIDE DEF e
  <2> QED
    BY <2>1, <2>2, Zenon
<1>3. TxInv(c)'
  BY <1>2, EndedInv
<1>4. \A d \in Clients : TxInv(d)' /\ (d # c => SameRun(tx[d], tx'[d]))
  BY <1>1, <1>3, AloneKeeps
<1>5. Serial!Ended(c, "error")
  BY <1>0, <1>2, <1>4, ShowsEnded
<1> QED
  BY <1>4, <1>5 DEF Serial!Fail

LEMMA CommitRefines ==
  ASSUME SerialInv, KVTypes', NEW c \in Clients, tx[c].pc = "run", ~Conflict(c),
         NEW r \in {"ok", "error"}, Lands(c, r)
  PROVE  (\A d \in Clients : TxInv(d)') /\ (Serial!Succeed(c) \/ Serial!Unknown(c))
<1>0. KVTypes /\ TxInv(c)
  BY DEF SerialInv, IInv
<1>1. /\ \A d \in Clients : TxInv(d)'
      /\ tx'[c].pc = "ended" /\ tx'[c].result = r /\ tx'[c].log = <<>>
      /\ \A d \in Clients \ {c} : SameRun(tx[d], tx'[d])
  BY LandingKeeps
<1>2. Serial!Ended(c, r)
  BY <1>0, <1>1, ShowsEnded
<1>3. Serial!Runs(data, tx[c].log, data')
  BY <1>0, CommitRuns DEF Lands
<1>4. [d \in Clients |-> tx[d].log][c] = tx[c].log
  OBVIOUS
<1> QED
  BY <1>1, <1>2, <1>3, <1>4 DEF Serial!Succeed, Serial!Unknown

LEMMA BeginRefines ==
  ASSUME SerialInv, KVTypes', NEW c \in Clients, TxBegin(c)
  PROVE  (\A d \in Clients : TxInv(d)') /\ Serial!Begin(c)
<1>0. KVTypes /\ TxInv(c) /\ tx[c].pc = "idle"
  BY DEF SerialInv, IInv, TxBegin
<1>1. TxInv(c)' /\ \A d \in Clients \ {c} : tx'[d] = tx[d]
  BY <1>0, BeginKeeps
<1>2. tx'[c].pc = "run" /\ tx'[c].log = <<>> /\ tx'[c].result = "none"
  <2> DEFINE b == IF backend = "memory" THEN Empty ELSE data
             e == [NoTx EXCEPT !.pc = "run", !.snap = b]
  <2>1. tx'[c] = e
    BY <1>0 DEF TxBegin, KVTypes
  <2>2. e.pc = "run" /\ e.log = <<>> /\ e.result = "none"
    BY DEF NoTx
  <2> HIDE DEF e
  <2> QED
    BY <2>1, <2>2
<1>3. UNCHANGED <<backend, data>>
  BY DEF TxBegin
<1>4. \A d \in Clients : TxInv(d)' /\ (d # c => SameRun(tx[d], tx'[d]))
  BY <1>1, <1>3, AloneKeeps
<1>5. tx[c].result = "none"
  BY <1>0 DEF TxInv
<1> QED
  BY <1>0, <1>1, <1>2, <1>3, <1>4, <1>5 DEF Serial!Begin, KVTypes

LEMMA OperationRefines ==
  ASSUME SerialInv, KVTypes', NEW c \in Clients, TxGet(c) \/ TxPut(c) \/ TxScan(c)
  PROVE  (\A d \in Clients : TxInv(d)') /\ Serial!Operation(c)
<1>0. KVTypes /\ TxInv(c)
  BY DEF SerialInv, IInv
<1>1. /\ TxInv(c)' /\ \A d \in Clients \ {c} : tx'[d] = tx[d]
      /\ \E o \in Serial!Ops : \E p : Operates(c, o, p)
  BY <1>0, OperationsKeep
<1>2. PICK o \in Serial!Ops : \E p : Operates(c, o, p)
  BY <1>1
<1>3. PICK p : Operates(c, o, p)
  BY <1>2
<1> DEFINE l == Append(tx[c].log, o)
<1>4. /\ tx[c].pc = "run" /\ UNCHANGED <<backend, data>>
      /\ tx'[c].pc = "run" /\ tx'[c].log = l /\ tx'[c].result = tx[c].result
  <2> DEFINE e == [tx[c] EXCEPT !.log = l, !.pending = p]
  <2>1. tx[c].pc = "run" /\ UNCHANGED <<backend, data>> /\ tx'[c] = e
    BY <1>0, <1>3 DEF Operates, KVTypes
  <2>2. tx[c] \in Transactions
    BY <1>0 DEF KVTypes
  <2> HIDE DEF l
  <2>3. e.pc = tx[c].pc /\ e.log = l /\ e.result = tx[c].result
    BY <2>2 DEF Transactions
  <2> HIDE DEF e
  <2> QED
    BY <2>1, <2>3
<1>5. \A d \in Clients : TxInv(d)' /\ (d # c => SameRun(tx[d], tx'[d]))
  BY <1>1, <1>4, AloneKeeps
<1>6. [d \in Clients |-> tx[d].log]' =
        [[d \in Clients |-> tx[d].log] EXCEPT ![c] = Append(@, o)]
  BY <1>1, <1>4
<1>7. UNCHANGED <<data, {d \in Clients : tx[d].pc = "run"}, [d \in Clients |-> tx[d].result]>>
  BY <1>1, <1>4
<1>8. Serial!Operation(c)
  BY <1>4, <1>6, <1>7 DEF Serial!Operation
<1> QED
  BY <1>5, <1>8

LEMMA ReturnRefines ==
  ASSUME SerialInv, KVTypes', NEW c \in Clients, TxReturn(c)
  PROVE  (\A d \in Clients : TxInv(d)') /\ Serial!Return(c)
<1>0. KVTypes /\ TxInv(c)
  BY DEF SerialInv, IInv
<1>1. /\ tx[c].pc = "ended" /\ UNCHANGED <<backend, data>> /\ tx'[c] = NoTx
      /\ \A d \in Clients \ {c} : tx'[d] = tx[d]
  BY <1>0 DEF TxReturn, KVTypes
<1>2. NoTx.pc = "idle" /\ NoTx.log = <<>> /\ NoTx.result = "none"
  BY DEF NoTx
<1>3. TxInv(c)'
  BY <1>1, <1>2 DEF TxInv
<1>4. \A d \in Clients : TxInv(d)' /\ (d # c => SameRun(tx[d], tx'[d]))
  BY <1>1, <1>3, AloneKeeps
<1>5. tx[c].result # "none" /\ tx[c].log = <<>>
  BY <1>0, <1>1 DEF TxInv
<1>6. Serial!Return(c)
  BY <1>1, <1>2, <1>5 DEF Serial!Return
<1> QED
  BY <1>4, <1>6

LEMMA WriteRefines ==
  ASSUME SerialInv, KVTypes', NEW c \in Clients, PlainWrite(c)
  PROVE  (\A d \in Clients : TxInv(d)') /\ Serial!Write
<1>0. KVTypes
  BY DEF SerialInv, IInv
<1>1. \A d \in Clients : TxInv(d)' /\ SameRun(tx[d], tx'[d])
  BY WriteKeeps
<1>2. \E k \in Keys, v \in Values \cup {Nothing} : data' = [data EXCEPT ![k] = v]
  BY DEF PlainWrite
<1> QED
  BY <1>0, <1>1, <1>2, ShowsSame DEF Serial!Write

(* Every step of a client is one of the serial store. *)
LEMMA ClientRefines ==
  ASSUME SerialInv, KVTypes', NEW c \in Clients, KVStep(c)
  PROVE  (\A d \in Clients : TxInv(d)') /\ Serial!Next
<1>1. CASE TxBegin(c)
  BY <1>1, BeginRefines DEF Serial!Next
<1>2. CASE TxGet(c) \/ TxPut(c) \/ TxScan(c)
  BY <1>2, OperationRefines DEF Serial!Next
<1>3. CASE TxCommit(c) \/ TxCommitUnreported(c)
  BY <1>3, CommitRefines DEF Serial!Next, TxCommit, TxCommitUnreported
<1>4. CASE TxCommitFails(c) \/ TxRollback(c)
  <2>1. /\ tx[c].pc = "run" /\ UNCHANGED <<backend, data>>
        /\ tx' = [tx EXCEPT ![c] = Ended(tx[c], "error", TRUE, 1)]
    BY <1>4 DEF TxCommitFails, TxRollback, RolledBack
  <2>2. TRUE \in BOOLEAN /\ 1 \in Nat
    OBVIOUS
  <2>3. (\A d \in Clients : TxInv(d)') /\ Serial!Fail(c)
    BY <2>1, <2>2, EndingRefines, Zenon
  <2> QED
    BY <2>3 DEF Serial!Next
<1>5. CASE TxPanic(c)
  <2>1. /\ tx[c].pc = "run" /\ UNCHANGED <<backend, data>>
        /\ tx' = [tx EXCEPT ![c] = Ended(tx[c], "error", FALSE, 0)]
    BY <1>5 DEF TxPanic
  <2>2. FALSE \in BOOLEAN /\ 0 \in Nat
    OBVIOUS
  <2>3. (\A d \in Clients : TxInv(d)') /\ Serial!Fail(c)
    BY <2>1, <2>2, EndingRefines, Zenon
  <2> QED
    BY <2>3 DEF Serial!Next
<1>6. CASE TxReturn(c)
  BY <1>6, ReturnRefines DEF Serial!Next
<1>7. CASE PlainWrite(c)
  BY <1>7, WriteRefines DEF Serial!Next
<1> QED
  BY <1>1, <1>2, <1>3, <1>4, <1>5, <1>6, <1>7 DEF KVStep

(* A MemoryKV lets a second client in only when the first has left. *)
LEMMA MutexKept ==
  ASSUME KVTypes, MutexInv, NEW c \in Clients, KVStep(c)
  PROVE  MutexInv'
<1>1. backend' = backend
      /\ \/ holders' = holders
         \/ holders' = holders \ {c}
         \/ holders' = holders \cup {c} /\ MayEnter
  BY DEF KVStep, TxBegin, TxGet, TxPut, TxScan, Operates, TxCommit, TxCommitUnreported,
         Lands, TxCommitFails, TxRollback, TxPanic, TxReturn, PlainWrite, Enters, Leaves
<1> QED
  BY <1>1 DEF MutexInv, MayEnter

(* Steps that leave the KV's contents, transactions and lock alone. *)
LEMMA OtherStepsKeep ==
  ASSUME SerialInv, KVTypes', UNCHANGED <<backend, data, tx, holders>>
  PROVE  /\ MutexInv' /\ \A d \in Clients : TxInv(d)'
         /\ UNCHANGED Serial!serialVars
<1>1. MutexInv'
  BY DEF SerialInv, MutexInv
<1>2. ASSUME NEW d \in Clients PROVE TxInv(d)'
  BY OthersKeep DEF SerialInv, IInv, SameRun
<1>3. UNCHANGED Serial!serialVars
  BY DEF Serial!serialVars
<1> QED
  BY <1>1, <1>2, <1>3

LEMMA SerialStep ==
  ASSUME SerialInv, [Next]_vars
  PROVE  SerialInv' /\ (Serial!Next \/ UNCHANGED Serial!serialVars)
<1>0. IInv /\ KVTypes /\ MutexInv
  BY DEF SerialInv, IInv
<1>1. IInv' /\ KVTypes'
  <2>1. IInv'
    BY <1>0, InvStep
  <2> QED
    BY <2>1 DEF IInv
<1>2. CASE \E c \in Clients : KVStep(c)
  BY <1>0, <1>1, <1>2, MutexKept, ClientRefines DEF SerialInv
<1>3. CASE UNCHANGED <<backend, data, tx, holders>>
  BY <1>1, <1>3, OtherStepsKeep DEF SerialInv
<1>4. (\E c \in Clients : KVStep(c)) \/ UNCHANGED <<backend, data, tx, holders>>
  <2>1. CASE \E u \in Uploaders : BlobsStep(u) /\ UNCHANGED <<kvVars, engineVars>>
    BY <2>1 DEF kvVars
  <2>2. CASE \E x \in Closers : CloseStep(x)
    BY <2>2 DEF CloseStep, EngineClose, EngineKVClosed, EngineBlobsClosed, EngineCloseWaited,
                DirectClose, DirectClosed, CloseCalled, CloseLocked, kvVars
  <2>3. CASE UNCHANGED vars
    BY <2>3 DEF vars, kvVars
  <2> QED
    BY <2>1, <2>2, <2>3 DEF Next
<1> QED
  BY <1>2, <1>3, <1>4

(* The KV with a mutex and the KV that validates snapshots keep the        *)
(* promise of storage.KV: every transaction that succeeds, also one whose  *)
(* commit is reported as an error, was told what it would have been told   *)
(* had it run alone at that moment, and has the effect it would have had;  *)
(* the others have none.  For any clients, keys, values and callbacks, and *)
(* however Close interferes.                                               *)
THEOREM TransactionsAreSerializable == Spec => Serializable
<1>1. Init => SerialInv /\ Serial!Init
  <2> SUFFICES ASSUME Init PROVE SerialInv /\ Serial!Init
    OBVIOUS
  <2>1. NoTx.pc = "idle" /\ NoTx.log = <<>> /\ NoTx.result = "none"
    BY DEF NoTx
  <2>2. IInv /\ MutexInv
    BY InitInv DEF MutexInv, Init, KVInit
  <2>3. \A c \in Clients : TxInv(c)
    BY <2>1 DEF Init, KVInit, TxInv
  <2>4. Serial!Init
    BY <2>1 DEF Init, KVInit, Serial!Init, Empty
  <2> QED
    BY <2>2, <2>3, <2>4 DEF SerialInv
<1>2. SerialInv /\ [Next]_vars => SerialInv' /\ [Serial!Next]_(Serial!serialVars)
  BY SerialStep
<1> QED
  BY <1>1, <1>2, PTL DEF Spec, Serializable, Serial!Spec
=============================================================================
