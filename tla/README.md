# A TLA+ model of s3collections

`s3collections` builds four durable collections on two kinds of stores: a
key/value store with serializable transactions (`storage.KV`: in memory or
SlateDB) for metadata, and a `BlobStore` (in memory or S3) for bodies.  Its hard
part is that one call of a collection is several accesses to two stores that
share no transaction, made by several goroutines and processes that may crash
in between.  The modules here model those calls, TLC explores their
interleavings on small instances, and TLAPS proves every safety property for
instances of every size.

## Inventory

| Component | State | Operations | What makes it correct |
|---|---|---|---|
| `queue/queue.go` | a job record per ID (KV), a body per payload key (BlobStore), `Job` handles, the maintenance goroutine, `closed` | Enqueue, Claim, Renew, Retry, Dead, Complete, RequeueDead, ListDead, OpenPayload, StartMaintenance, Close | a body exists as long as its job does; no job is lost, or delivered after it was completed; one holder at a time; bounded deliveries; FIFO; leases of dead workers are recovered |
| `cas/cas.go` | a versioned record per key (KV), tombstones | Create, Get, GetMeta, CompareAndSwap, Update, Delete, List, GC | linearizable per key; revisions are not reused; GC takes only expired tombstones |
| `tree/tree.go` | manifests, nodes, refs, leases (KV), bodies (BlobStore) | PutBlob, StatBlob, GetBlob, PutNode, GetNode, refs with compare-and-swap, leases with fencing tokens, PlanGC, SweepGC(Fenced) | a manifest has its body; a ref leads to a complete tree; the fence keeps old holders out; no lost update of a ref |
| `lru/lru.go` | a record per key (KV), the evictor and its workers, `closed` | Get, Set, Touch, Delete, Len, Stats, StartEvictor, Close | the evictor removes the least recently used entries and none that was used after its scan; no touch undoes a Set; capacity is reached eventually; Close leaves nothing running |
| `storage/` | KV, transactions, BlobStore, Engine | Get, Put, Delete, Scan, Transaction; Put, Open, OpenRange, Stat, Delete; Close | transactions are serializable and all-or-nothing; Close waits for them; scans and ranges are exact; bodies have the declared size |

The collections never call each other; they meet in the stores.  A collection
runs a callback in `kv.Transaction` and, on `ErrConflict`, runs it again up to
16 times.  Background work is one goroutine per `Queue` (maintenance) and per
LRU store (evictor), started by the application and stopped by a context or by
`Close`.  What is hard to test (listed line by line under `hazards` in
`PROJECT.json`): calls of two workers that meet between the transaction and the
blob access of one of them, crashes at that point, leases that expire while the
holder acts, plans and scans that are stale when they are executed, commits
whose outcome is not known, and revisions, versions and tokens that start again
from 1 after a deletion.

## Modules

| Module | Models |
|---|---|
| `WorkQueue` | the promise of `docs/reference.md`, "Queue": a table of jobs with their bodies in which every change is one step |
| `Queue` | `queue/queue.go`; instantiates `WorkQueue` and is shown to implement it |
| `CASRecords` | the records of `cas/cas.go` and what the callback of each operation makes of the record it reads: the sequential meaning of the store |
| `AtomicCAS` | the promise of `cas/doc.go`: every call takes effect in one step between its invocation and its return |
| `CAS` | `cas/cas.go` over the optimistic transactions of `storage/slatedb.go`; instantiates `AtomicCAS` and is shown to implement it |
| `Tree` | `tree/tree.go` |
| `LRU` | `lru/lru.go` |
| `SerialKV` | the promise of `storage.KV`: serializable, all-or-nothing transactions |
| `KV` | the two KVs of `storage/memory.go` and `storage/slatedb.go`; instantiates `SerialKV` and is shown to implement it |
| `Blobs` | the two blob stores of `storage/memory.go` and `storage/s3.go`, and the ranges of `Tree.GetBlob` |
| `Scans` | the range scans of both KVs, as operators |
| `Storage` | `storage.Engine`: composes `KV`, `Blobs` and `Scans` with `Engine.Close` |
| `MCQueue`, `MCCAS`, `MCTree`, `MCLRU`, `MCStorage` | constants, symmetry and constraints for TLC |
| `QueueProofs`, `CASProofs`, `TreeProofs`, `LRUProofs`, `StorageProofs` | theorems and proofs |
| `SerialProofs` | that `KV` implements `SerialKV` (extends `StorageProofs`) |
| `ScanProofs` | what the operators of `Scans` return, for every set of keys |
| `Induction` | induction over numbers and finite sets by least counterexamples, for `LRUProofs` and `ScanProofs` |

### Queue

Every `q.transaction(...)` and every call of the BlobStore is one step; control
between two of them is in `call[c].pc` (a client) or `reaper[q].pc` (the
maintenance goroutine).  So `Complete` is `CompleteMark` or `CompleteResume`,
then `CompleteDelete`, then `CompleteRemove`, and anything may happen in
between.  A method that fails its checks changes nothing and is a stuttering
step; so are `ListDead` and `OpenPayload`.

* Time is a counter.  A transaction reads the clock before it commits, so each
  of them acts on a reading that may be late by one of `Lags`.
* `newID()` (16 random bytes) is the next unused number, for payload keys and
  lease tokens.
* A lease is identified by its token *and* its deadline in `LeaseRecovered`:
  `Renew` sets no limit, so a live holder may keep a job for as long as it renews
  it in time.  The bound `MaxNow` in the guard of `Renew` only cuts the model off.
* A body is identified with the client that uploads it: `sha` in the record is
  right if it is the same client as in the BlobStore.
* `Disturbances` says what may go wrong: errors of either store (an upload may
  have landed all the same; a failed transaction has changed nothing, which is
  the contract of `storage.Tx`), crashes of a process, `Close` and cancelled
  contexts.  Several `Queue` objects on the same stores are several processes.
* `Seen` is the refinement mapping to `WorkQueue`: a completed record shows no
  job, any other shows its state, attempts, deadline and token together with the
  body that the BlobStore has under its payload key *at that moment*.  So a body
  that is overwritten or deleted too early would be a change of the table that
  no step of `WorkQueue` allows; an upload that is not published yet, and the
  cleanup after `CompleteMark`, are not seen at all.
* `published`, `acked` and `handle[c].released` are history: no action's guard
  reads them.

### CAS

`Begin` runs the callback on the snapshot, `Commit` lands what it wrote unless
another commit wrote the key since (`stale`), `Conflict` starts again or gives
up after `MaxAttempts`.  `StoreFails` is an error without an effect and
`CommitUnreported` one with it.  GC is a scan (`GCScan`) and one such
transaction per tombstone (`GCNext`), done by a client like any other call.
The callbacks are operators of `CASRecords`, shared with `AtomicCAS`, so the
refinement is about concurrency and not about the meaning of the operations.
`Seen` is the refinement mapping: a running call is pending, a call that has
its result is done, and GC is not visible except for the tombstones it removes.
A call's timestamp is any time between its invocation and its effect.  The clock
never goes back: `UpdatedAtMonotone` and the retention of tombstones are about a
wall clock (`cas.go:101`) that is not set back.  `ErrConflict` is an alias of
`ErrRevisionMismatch` in the code; the model keeps the two apart to tell
exhausted retries from a refused swap.

### Tree

The children and blobs of a node ID are constants, which is what content
addressing means.  `PlanGC` is a scan of the refs, one step per node it walks, a
scan of the nodes and a scan of the manifests; a sweep is its transaction and
one step per body.  `session[c]` is what a caller keeps between its calls: its
lease token, its plan, the version it saw of a ref, and as history what was done
to that ref `since` (nothing, written, deleted and perhaps made again).

`tree.go:645-649` and `docs/reference.md` ask callers to "serialize ref
publication through the same lease".  `Disciplined` is the weakest reading of
this we found sufficient: a caller moves refs only with
`CompareAndSwapRefFenced`, only to a tree whose nodes and blobs it stored itself
since it acquired the lease and since its last sweep, and drops its plan when it
acquires the lease or moves a ref.  Puts are not fenced and a holder that was
fenced off keeps running.  Without `Disciplined` callers do anything the API
allows: they keep a plan across anything they do, sweep with it, fenced or not,
as often as they like, and move refs to trees that they did not store.

### LRU

`Set`, `Touch`, `Delete` and the two halves of a `Get` with `TouchOnGet` are
steps after `CheckOpen`; the evictor's tick is `EvictBegin` (the scan and the
choice of victims, which read one snapshot), then a worker takes a victim
(`SendVictim`), runs its transaction (`EvictEntry`, `EvictFails`) and reports an
error (`ReportError`) on a channel of bounded room.  `RoundDone` is `wg.Wait()`.

* The wall clock may stand still or be set back: a reading is any of `Times`.
  So nothing proved here rests on time; the revision does the work.
* `ZeroTime` is `UnixNano()` of the zero `time.Time`, which is not 0.
* A call that finds the store closed, and every failed call, changes nothing.
* `lastSet` and `since` are history.  `since[k]` is what happened to `k` since
  the evictor's scan; a key that was deleted and set again is `recreated`, and
  `UsedEntriesStay` says nothing about it, since its revisions start again and
  the re-check of the worker cannot tell.

### KV, Blobs, Scans and Storage

`backend` and `service` choose an implementation in the initial state.  Every
operation of a transaction's callback is a step, so callbacks of two clients
interleave wherever the lock lets them: MemoryKV's mutex is held to the end of
the transaction, slateDBKV's is an RWMutex which a waiting Close closes to new
readers.  `memoryTx` reads the live map under its `pending` writes; SlateDB reads
a snapshot and validates at commit what was read or written (external:
`Conflict`, `Dirtied`).  `tx[c].log` records the operations and what they
returned; `SerialKV` demands of a transaction that succeeds that its log is what
running alone, at that moment, would have returned (`Runs`: there is a history of
contents, one per operation, that explains the log).  `finished` is the code's
flag, `ended` a ghost that counts commits and rollbacks.

This refinement is what `Queue`, `Tree` and `LRU` use when they make a
transaction one step: a retried conflict has no effect, a success is atomic.
They do not use `TxCommitUnreported`, a commit that takes effect and reports an
error, which the contract of `storage.Tx` excludes and SlateDB may do.

A Put of a blob reads a body whose length is all that matters: in one go
(`readExactSize`, a limit of one byte more than is due) or piece by piece, with
`EOF` together with the last bytes or after them (`exactSizeReader` and its
probe).  Ranges and scans are pure operators; keys are byte strings over
`0..TopByte`, where `TopByte` stands for 0xFF.  A sorted sequence has each key at
the place that the number of the keys below it gives it; the iterator of SlateDB
skips the keys that fail the tests of `scanWith` and keeps the order.  A
continuation outside the prefix makes `keyRange` ask for a range that ends before
it starts; that SlateDB finds it empty is an assumption about SlateDB.

## Runs

| Run | Shows | Bounds |
|---|---|---|
| `queue` | `PayloadIntact`, `PublishedBodyTracked`, `NoLostJob`, `NeverRedelivered`, `CompletedOnce`, `MutualExclusion`, `ActsAsOneTable`, types | one ID, two clients, one process, crashes and store errors, clock readings up to a tick old, 4 identifiers, 3 ticks |
| `queue_order` | `AttemptsBounded`, `FIFO` | two IDs, one client, with and without delay, 1 or 2 attempts, 5 identifiers, 3 ticks |
| `queue_live` | `LeaseRecovered`, `CompletedCleaned`, `CloseTerminates` | one client, leases of 1 and 2 ticks, 3 ticks, all disturbances |
| `cas` | `Linearizable`, `UpdatedAtMonotone`, `OnlyExpiredReclaimed`, types | one key, two clients, two values, 2 attempts, 4 revisions, 3 ticks, retention 1 |
| `tree` | `RefsComplete`, `OneFenceHolder`, types | root, leaf, one blob; two clients; 3 tokens, 2 uploads, 2 versions |
| `tree_any` | `ManifestsHaveBodies`, `RefWritesAreCurrent` for callers without discipline, with failures, crashes, deletes of refs and releases | one node, one blob, 2 uploads, 2 versions |
| `lru` | `SetsSurvive`, `VictimsExact`, `UsedEntriesStay`, `QuietAfterClose`, types | two keys, two clients, two workers, two sizes, both caps, a clock that stands still, 2 revisions |
| `lru_live` | `ErrorsNeverBlock`, `VictimsExact` by bytes alone, `CapacityReached`, `CloseTerminates` | two keys, one client, two workers, two sizes, the cap on items disabled, a failing KV |
| `storage` | `Serializable`, `HandleOutlivesUse`, `TxnEndedOnce`, `CloseReturnsClosed`, `SizesExact`, `RangesExact`, `ScansExact`, types | two clients, two keys, 2 operations per callback; two uploads of up to 2 bytes; two closers; every set of keys of up to 2 bytes over 2 byte values, every option |

The bounds are the smallest that let the cases happen which the properties are
about: with four identifiers an ID is enqueued, claimed, reaped or completed,
enqueued and claimed again while the first holder still has its handle; with
five, two jobs are enqueued and claimed, and what was retried, reaped or requeued
competes with another job for the next claim; with two versions a ref is deleted,
made again and has the version that a client saw before; with
two attempts a call loses a conflict once and wins, or loses twice; with three
tokens both clients hold the lease, lose it and come back; with two uploads a
body is uploaded, swept and uploaded again; with two keys and two workers a
round has a victim in hand, one that waits, and both fail; two operations are
the least that make a transaction read what another one writes, and write what
that one reads; two bytes with two values have a prefix that ends in 0xFF and
one that is all 0xFF.  Every mutant in `PROJECT.json` is found within them.  TLC
stops at the bounds: the clock, the identifiers, the versions, the uploads and
the operations stay in the guards (`MaxNow`, `MaxFresh`, `MaxRevision`,
`MaxToken`, `MaxObject`, `MaxVersion`, `MaxOps`).  `MCStorage` adds a constraint:
the KV and the blob store share nothing but `Engine.Close`, so that one of them
rests while the other is used, and callbacks are empty while a Close is under
way.  Several processes on the same queue and several keys of a CAS store
multiply the states without new interleavings on one record; for them there are
the proofs.  Faults of the stores under the discipline of `tree` are left to the
proof of `RefsComplete`, which has them.

Deadlock is checked where the system always has a step; in the `lru` runs and
`storage` (`CHECK_DEADLOCK FALSE`) everything is closed at the end or
a bound is reached.

### Where code and documentation disagree

Three runs end in a counterexample to a sentence of the documentation; the
findings in `PROJECT.json` quote them:

* `cas_reuse`: revisions start again after GC (`cas.go:211`), against
  "monotonically increasing Revision".  With tombstones kept for ever, the
  default, the sentence is right: theorem `RevisionsAreFresh`.
* `tree_restart`: tokens start again after `ReleaseLease` (`tree.go:551`),
  against "Tokens increase monotonically per lease name", and versions after
  `DeleteRef` (`tree.go:464`), against "a monotonically increasing version"
  (`tree/doc.go:16-17`).  `StaleHoldersAreFenced` is about both at once: if only one
  of them started again, the check of the other would still refuse the swap.  In
  the trace a
  client acquires token 1, reads version 1 of a ref and deletes it (it makes no
  difference who does); another client acquires the lease, makes the ref again
  with version 1, releases the lease and acquires it with token 1; the first
  client then overwrites a ref it never saw, although another client holds the
  lease.  Without `ReleaseLease` only one client passes the
  fence (theorem `FenceExcludes`), and without a deletion in between no swap
  hides a write (theorem `VersionsHideNoWrite`).
* `lru_set_access`: a Set without a `LastAccessAt` is stored with a time before
  all others (`lru.go:244` compares `UnixNano()` with 0), against "Zero is
  replaced with the current time on Set".  The entry is the next victim.

Smaller ones, for which there is no run: a stale
holder's `Complete` returns nil if the job is gone (`queue.go:434`), against
"`ErrLeaseExpired` is returned when a stale holder acts after expiry"; after its
context ended, maintenance of a queue cannot be started again
(`queue.go:587`).

### Fairness

`queue_live` and `lru_live` assume some: the background goroutine and its
workers are scheduled by the Go runtime and the ticker fires (weak fairness of
their steps and of the clock); stores do not fail for ever (strong fairness of
the steps that succeed, since each failure disables them for a while); a waiting
`Close` goes on.  Clients owe nothing: they may stop anywhere, and nothing assumes
that a holder stops renewing.  `LeaseRecovered`
and `CompletedCleaned` are about behaviours in which some goroutine is not
cancelled from some time on, `CapacityReached` about those in which the evictor
runs on and the callers are quiet from some time on.

## Proofs

The theorems hold for all values of the constants that meet the named
assumptions of the modules (nonempty or finite sets, natural numbers, a `NoValue`
outside `Values`): any number of IDs, clients, processes, keys, workers and
attempts, and every graph of nodes.

* **Queue.**  `PayloadIntact` and its companions are not inductive.  `StoreInv`
  adds who may still touch a body: identifiers in use were handed out
  (`FreshInv`); a body that is not published belongs to the one `Enqueue` that
  uploaded it (`PrivateInv`); a record is completed exactly when a claim
  completed its payload (`JobInv`); a published body is named by the record of
  its ID (`TrackInv`); a holder, or a sweep, whose token is in the record knows
  the right payload key, and what it cleans up was completed (`HandleInv`,
  `ReaperInv`).  `LeaseInv` says that a lease which has not expired and was not
  given up is the one in the record, and that tokens are not shared.
  `StoreStep` and `LeaseStep` prove the two halves action by action,
  `Invariance` combines them, and each property follows from it, also
  `DeliveriesAreBounded` and the action property `FirstInFirstOut`.
* **Queue as one table.**  `JobsActAsOneTable` is the refinement of `WorkQueue`.
  By `StoreInv`, before and after a step, the body seen is the one that the
  record's hash names (`SeenIsShown`), so what a step does to the table is what
  it does to the records (`TableMoves`, `TableStays`).  Then one lemma per kind of
  step: `Publish` is `Enqueue`; `ClaimJob` is `Deliver`, whose bound on the
  attempts is `DeliveriesAreBounded`; `Renew`, `Retry`, `Dead` and `CompleteMark`
  are what the holder of the token in the table may do (`WorkAct`); `ReapExpired`
  takes back jobs whose deadline has passed, since its reading of the clock is
  never ahead (`WorkTakeBack`); a crash forgets leases; everything else, all
  deletions of bodies and removals of records included, is stuttering.
* **CAS.**  `IInv` says that a transaction that is not stale would still do what
  its callback did: its outcome is that of the callback on the record *as it is
  now*, at some time since the call began (`CommitInv`).  From it follow the
  refinement (`StoreIsLinearizable`, one step per action: `Commit` is `Effect`
  or, for GC, `Collect`; a read is an `Effect` at `Begin`; conflicts and GC's
  own steps are stuttering), `TimesAdvance`, `OnlyTombstonesGo` and, for
  `Retention = 0`, `RevisionsAreFresh`.
* **Tree.**  `BodiesStay` holds for all callers: staging keys are used once and
  are not shared (`KeysInv`, `StagedInv`), and a body that a sweep or a PutBlob
  is about to delete is in no manifest and will be in none (`ItemsInv`,
  `DoomedInv`).  `RefsStayComplete` is proved for `Disciplined` callers that do
  not release the lease.  Only the holder of the lease moves refs or executes a
  plan (`FenceInv`), so what it stored since it acquired the lease is still
  there (`PutInv`), its plan and the walk it comes from contain nothing that a
  ref leads to (`WalkInv`, `BlobsInv`, `SafePlan`), and a sweep keeps
  `RefsComplete`.  `FenceExcludes` assumes that leases are not released.
  `VersionsHideNoWrite` holds for all callers (`SeenInv`: until its ref is
  deleted, the version that a client saw is at most the current one, and less
  once somebody wrote); the ref that was deleted and made again is the exception
  in the property itself.
* **LRU.**  `LifeInv`: workers exist only within a round, and Close returns only
  when no round can begin.  `VictimInv`: as long as the key of a victim in flight
  was not recreated, its record has the victim's revision if it was not written
  since the scan and a greater one if it was, so the re-check of a worker is
  exact without its comparison of times.  `NoSetIsUndone` is inductive with the
  types: all writes of a caller are of the next revision, and touches keep the
  rest.  `VictimsAreExact` is about the choice itself: the order of the
  evictor's sort is strict and total and every nonempty set of entries has a
  first one (`EntryOrder`, `LeastEntry`); what is before a victim is a victim
  (`ChosenFirst`); and the sum of sizes, a fold, is a number for every finite set
  (`FoldExists`, `SizeType`), so that a rest which is not over the caps is within
  them (`OverOrWithin`).  `WorkersNeverBlock` counts (`RoomInv`): the victims
  not handed out, those in hand and the errors already sent are never more than
  the room that was made for the errors of the round.
* **Storage.**  `UseInv`: who is in a transaction holds the lock, and a closed KV
  has no holders.  `PutInv` (`Exact`): what was taken and what the reader still
  has are the body, and no more is taken than is due.  `CloseInv` orders the
  closing of the stores and `closeOnce`.  `RangesAreExact` needs only the types.
* **Serializability.**  `TransactionsAreSerializable` is the refinement of
  `SerialKV` by both KVs, with `Storage` around them.  `SerialInv` adds to the
  invariants above that MemoryKV's lock has one holder (`MutexInv`) and, of each
  transaction, that its log is a run from what it reads to what it sees
  (`RunInv`), that it used what it wrote, and that a snapshot of SlateDB differs
  from the data only in keys that were dirtied since.  A run is also one from
  any contents that agree on the keys it used (`RunsElsewhere`); at a commit
  without a conflict the data are such contents (`CommitRuns`), so the
  transaction takes effect there in one step of `SerialKV`.  Every other action
  is stuttering, a failure without an effect, or a single write.
* **Scans.**  `MemoryScanIsExact` and `SlateDBScanIsExact` are about every finite
  set of byte strings of any length, every prefix, continuation, direction and
  limit; `ScansAreExact` is the case that the run checks, for every `TopByte`.
  The order of Go's strings is strict, transitive and total (`OrderByPlace`
  reduces it to the first place where two strings differ), so the number of keys
  below a key is monotone and takes each value below the number of keys
  (`RankIsOnto`, by counting), which makes `Ascending` a sorted sequence of
  exactly the keys.  `StoresScanAlike`: the range asked of SlateDB contains every
  key that the tests let pass, because the successor of a prefix is above every
  string with that prefix (`SuccessorIsAbove`), also when the prefix ends in 0xFF.

The provers cannot instantiate the library's induction theorems, which take an
operator; the lemmas of `Induction` state instead that a set of counterexamples without a
least element is empty, and the proofs about sums, sorted sequences and strings
use that.

Only model-checked: the liveness properties `LeaseRecovered`, `CompletedCleaned`,
`CapacityReached` and the two `CloseTerminates`, since fairness and `ENABLED` are
out of the prover's reach.

## Not modelled, and the plan

Operations that only read (`ListDead`, `GetMeta`, `List`, `StatBlob`, `GetNode`,
`CheckFence`, `Len`, `Stats`, and `Open` and `Stat` of the blob stores) are left
out, and so are JSON and key encoding, sharding, the value size limit, manifests
without an object key, `CreatedAt` of LRU entries, the joining of errors, and the
configuration of S3 and SlateDB, which are external.  The stub of SlateDB and the
examples have no state.  What could come next:

1. Commits that are reported as errors for the queue, the tree and the LRU
   (today only in `CAS` and `KV`): the contract of `storage.Tx` excludes them.
2. Paging of `cas.List` and `queue.ListDead` against concurrent writers.

## How to run

    tlc -workers 2 -config MCQueue.cfg MCQueue      # likewise the other runs
    tlapm QueueProofs.tla                           # likewise the other proofs
