-------------------------------- MODULE CAS ---------------------------------
(***************************************************************************)
(* The record store of cas/cas.go over an optimistic transactional KV (the *)
(* SlateDB engine of storage/slatedb.go).  s.transact runs a callback on a *)
(* snapshot (Begin), then commits what it wrote (Commit) unless another    *)
(* transaction wrote the key in between (Conflict), and retries.  Clients  *)
(* and a client's GC interleave between the two.                           *)
(***************************************************************************)
EXTENDS CASRecords

CONSTANTS
  Clients,       \* goroutines that call the store
  Ops,           \* the calls they may make
  Retention,     \* WithTombstoneRetention; 0: tombstones are kept for ever
  MaxAttempts,   \* transact's maxAttempts (16)
  Faults,        \* whether the KV may return errors other than ErrConflict
  MaxNow,        \* bound: the clock stops here
  MaxRevision    \* bound: no record is written past this revision

ASSUME OpsAssumption ==
  \A op \in Ops :
    /\ op \in Op
    /\ op.kind \notin {"none", "reclaim"}
    /\ op.kind \in {"create", "swap"} => op.value \in Values
ASSUME RetentionAssumption == Retention \in Nat
ASSUME AttemptsAssumption == MaxAttempts \in Nat \ {0}
ASSUME LimitsAssumption ==
  MaxNow \in Nat \ {0} /\ MaxRevision \in Nat \ {0} /\ Faults \in BOOLEAN

VARIABLES
  now,    \* the clock
  recs,   \* KV: the record of every key
  call,   \* what each client is in the middle of
  last    \* history: the highest revision each key ever had

vars == <<now, recs, call, last>>

(* pc: begin (about to run the callback), commit (the callback wrote       *)
(* out.rec), return (about to return out), gc (between two of GC's         *)
(* transactions).  stale: the key was written since the snapshot.          *)
Call == [pc: {"idle", "begin", "commit", "return", "gc"}, op: Op, since: Nat,
         attempts: 0..(MaxAttempts - 1), stale: BOOLEAN, out: Outcome, todo: SUBSET Keys]

Start(op, todo) == [pc |-> "begin", op |-> op, since |-> now, attempts |-> 0,
                    stale |-> FALSE, out |-> Fails("nil"), todo |-> todo]

Idle == [pc |-> "idle", op |-> NoOp, since |-> 0, attempts |-> 0,
         stale |-> FALSE, out |-> Fails("nil"), todo |-> {}]

(* The callback wrote: its transaction is about to commit out.rec. *)
Wrote(cl, out) == [cl EXCEPT !.pc = "commit", !.stale = FALSE, !.out = out]

(* Another attempt of the same call. *)
Again(cl) == [cl EXCEPT !.pc = "begin", !.attempts = cl.attempts + 1,
                        !.stale = FALSE, !.out = Fails("nil")]

(* What follows when the call's transaction ended with out: GC goes on     *)
(* with its next tombstone unless there was an error.                      *)
Ended(cl, out) ==
  [cl EXCEPT !.pc = IF cl.op.kind = "reclaim" /\ out.err = "nil" THEN "gc" ELSE "return",
             !.stale = FALSE, !.out = out]

Invoke(c) ==
  /\ call[c].pc = "idle"
  /\ \E op \in Ops : call' = [call EXCEPT ![c] = Start(op, {})]
  /\ UNCHANGED <<now, recs, last>>

(* The callback runs on the snapshot its transaction (for Get: the one     *)
(* read) sees.  An error or no write: nothing is left to commit.           *)
Begin(c) ==
  /\ call[c].pc = "begin"
  /\ LET out == Callback(call[c].op, recs[call[c].op.key], now) IN
       /\ out.rec.revision <= MaxRevision
       /\ call' = [call EXCEPT ![c] =
                     IF out.writes THEN Wrote(@, out) ELSE Ended(@, out)]
  /\ UNCHANGED <<now, recs, last>>

(* A store that commits without looking for conflicts. *)
ConflictsIgnored(c) == FALSE

(* The commit is refused: the key was written since the snapshot. *)
Conflicts(c) == call[c].stale

(* The callbacks that ran on the old record of key will not commit. *)
MarkStale(cl, key) ==
  [cl EXCEPT !.stale = cl.stale \/ (cl.pc = "commit" /\ cl.op.key = key)]

(* The write of c lands; the client sees it as done. *)
Land(c, done) ==
  LET key == call[c].op.key
      rec == call[c].out.rec
  IN  /\ recs' = [recs EXCEPT ![key] = rec]
      /\ last' = [last EXCEPT ![key] = IF rec.revision > @ THEN rec.revision ELSE @]
      /\ call' = [d \in Clients |-> IF d = c THEN done ELSE MarkStale(call[d], key)]

Commit(c) ==
  /\ call[c].pc = "commit"
  /\ ~Conflicts(c)
  /\ Land(c, Ended(call[c], call[c].out))
  /\ UNCHANGED now

(* A retry loop that goes round once more than maxAttempts. *)
MayRetryOnceMore(attempts) == attempts < MaxAttempts

MayRetry(attempts) == attempts + 1 < MaxAttempts

(* ErrConflict: transact starts again, with a new snapshot. *)
Conflict(c) ==
  /\ call[c].pc = "commit"
  /\ Conflicts(c)
  /\ call' = [call EXCEPT ![c] =
                IF MayRetry(call[c].attempts) THEN Again(@) ELSE Ended(@, Fails("conflict"))]
  /\ UNCHANGED <<now, recs, last>>

(* The context ends or the KV returns an error before anything is written. *)
StoreFails(c) ==
  /\ Faults
  /\ call[c].pc \in {"begin", "commit"}
  /\ call' = [call EXCEPT ![c] = Ended(@, Fails("storage"))]
  /\ UNCHANGED <<now, recs, last>>

(* The commit is reported as an error, and has happened. *)
CommitUnreported(c) ==
  /\ Faults
  /\ call[c].pc = "commit"
  /\ ~Conflicts(c)
  /\ Land(c, Ended(call[c], Fails("storage")))
  /\ UNCHANGED now

Return(c) ==
  /\ call[c].pc = "return"
  /\ call' = [call EXCEPT ![c] = Idle]
  /\ UNCHANGED <<now, recs, last>>

-----------------------------------------------------------------------------
(* GC: a scan, then one transaction per tombstone the scan saw expired *)

ReclaimOp(key, limit) == [NoOp EXCEPT !.kind = "reclaim", !.key = key, !.limit = limit]

Scanned(todo, limit) ==
  [Idle EXCEPT !.pc = "gc", !.op = [NoOp EXCEPT !.limit = limit], !.todo = todo]

GCScan(c) ==
  /\ Retention > 0
  /\ call[c].pc = "idle"
  /\ LET limit == now - Retention IN
       call' = [call EXCEPT ![c] =
                  Scanned({k \in Keys : Reclaimable(recs[k], limit)}, limit)]
  /\ UNCHANGED <<now, recs, last>>

GCNext(c) ==
  /\ call[c].pc = "gc"
  /\ \E k \in call[c].todo :
       call' = [call EXCEPT ![c] =
                  Start(ReclaimOp(k, call[c].op.limit), call[c].todo \ {k})]
  /\ UNCHANGED <<now, recs, last>>

GCDone(c) ==
  /\ call[c].pc = "gc"
  /\ call[c].todo = {}
  /\ call' = [call EXCEPT ![c] = Idle]
  /\ UNCHANGED <<now, recs, last>>

-----------------------------------------------------------------------------
Tick ==
  /\ now < MaxNow
  /\ now' = now + 1
  /\ UNCHANGED <<recs, call, last>>

Init ==
  /\ now = 1
  /\ recs = [k \in Keys |-> Absent]
  /\ call = [c \in Clients |-> Idle]
  /\ last = [k \in Keys |-> 0]

ClientStep(c) ==
  \/ Invoke(c) \/ Begin(c) \/ Commit(c) \/ Conflict(c)
  \/ StoreFails(c) \/ CommitUnreported(c) \/ Return(c)
  \/ GCScan(c) \/ GCNext(c) \/ GCDone(c)

Next == Tick \/ \E c \in Clients : ClientStep(c)

Spec == Init /\ [][Next]_vars

-----------------------------------------------------------------------------
(* Properties *)

(* The values the records and the calls range over. *)
TypeOK ==
  /\ now \in 1..MaxNow
  /\ recs \in [Keys -> Record]
  /\ call \in [Clients -> Call]
  /\ last \in [Keys -> Nat]

(* The abstract view of a call: GC is not a call of the atomic store. *)
Seen(cl) ==
  IF cl.pc \notin {"begin", "commit", "return"} \/ cl.op.kind = "reclaim"
  THEN [pc |-> "idle", op |-> NoOp, since |-> 0, result |-> Fails("nil")]
  ELSE [pc |-> IF cl.pc = "return" THEN "done" ELSE "pending", op |-> cl.op,
        since |-> cl.since, result |-> IF cl.pc = "return" THEN cl.out ELSE Fails("nil")]

Atomic == INSTANCE AtomicCAS WITH client <- [c \in Clients |-> Seen(call[c])]

(* Linearizability (cas/doc.go): with concurrent callers, conflicts,       *)
(* retries, unreported commits and GC, every call acts as one atomic step  *)
(* and no update is lost.                                                  *)
Linearizable == Atomic!Spec

(* UpdatedAt of a key never goes back, although a transaction reads the    *)
(* clock before it commits, as long as the clock itself is not set back    *)
(* (New reads the wall clock; Tick only advances it).                      *)
UpdatedAtMonotone ==
  [][\A k \in Keys : recs'[k].state # "absent" => recs[k].updatedAt <= recs'[k].updatedAt]_vars

(* No write takes a revision the key already had: of the clients that saw  *)
(* a revision, one CompareAndSwap can win.                                 *)
RevisionNeverReused ==
  [][\A k \in Keys :
       recs'[k] # recs[k] /\ recs'[k].state # "absent" => recs'[k].revision > last[k]]_vars

(* GC takes away nothing but a tombstone made more than Retention ago, no  *)
(* matter what happened to the key between its scan and its transaction.   *)
OnlyExpiredReclaimed ==
  [][\A k \in Keys :
       recs[k].state # "absent" /\ recs'[k].state = "absent"
         => /\ recs[k].state = "tombstone"
            /\ recs[k].deletedAt + Retention < now]_vars
=============================================================================
