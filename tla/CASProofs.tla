------------------------------ MODULE CASProofs -----------------------------
(* The transactional record store implements the atomic one. *)
EXTENDS CAS, TLAPS

-----------------------------------------------------------------------------
(* Types *)

(* Records and calls as the store makes them: a live record has a value,   *)
(* a missing one has no revision.                                          *)
GoodRecord == {r \in Record : /\ r.state = "live" => r.value \in Values
                              /\ r.state = "absent" => r.revision = 0}
GoodOp     == {op \in Op : op.kind \in {"create", "swap"} => op.value \in Values}
GoodOut    == [err: Errors, rec: GoodRecord, writes: BOOLEAN]

(* The constant records have their types. *)
LEMMA Constants ==
  /\ Absent \in GoodRecord
  /\ \A e \in Errors : Fails(e) \in GoodOut /\ Fails(e).writes = FALSE /\ Fails(e).err = e
  /\ \A r \in GoodRecord :
       /\ Keeps(r) \in GoodOut /\ Keeps(r).writes = FALSE /\ Keeps(r).err = "nil"
       /\ Keeps(r).rec = r
       /\ Writes(r) \in GoodOut /\ Writes(r).writes = TRUE /\ Writes(r).err = "nil"
       /\ Writes(r).rec = r
<1>1. Absent \in GoodRecord
  BY DEF Absent, GoodRecord, Record, States
<1> QED
  BY <1>1 DEF Fails, Keeps, Writes, GoodOut, Errors

(* The fields of a record. *)
LEMMA RecordFields ==
  ASSUME NEW r \in GoodRecord
  PROVE  /\ r.revision \in Nat /\ r.createdAt \in Nat /\ r.updatedAt \in Nat
         /\ r.deletedAt \in Nat /\ r.state \in States
         /\ r.value \in Values \cup {NoValue}
         /\ r.state = "live" => r.value \in Values
         /\ r.state = "absent" => r.revision = 0
BY DEF GoodRecord, Record

(* A write: one revision further, at the time of the callback. *)
Successor(r, s, t) ==
  s \in GoodRecord /\ s.revision = r.revision + 1 /\ s.updatedAt = t /\ s.state # "absent"

(* What a callback may do to a record: nothing, a write, a reclaim. *)
Effects(op, r, t, out) ==
  /\ out \in GoodOut
  /\ out.writes =>
       /\ out.err = "nil"
       /\ op.kind # "reclaim" => Successor(r, out.rec, t)
       /\ op.kind = "reclaim" => out.rec = Absent /\ Reclaimable(r, op.limit)

(* The record a new key or a resurrection, a new value or a Delete writes. *)
LEMMA NewRecords ==
  ASSUME NEW r \in GoodRecord, NEW t \in Nat
  PROVE  /\ \A v \in Values, s \in Nat : Successor(r, NewRecord(v, r.revision + 1, s, t), t)
         /\ \A v \in Values : r.state = "live" => Successor(r, Revised(r, v, t), t)
         /\ Successor(r, Buried(r, t), t)
<1>1. r.revision + 1 \in Nat
  BY RecordFields
<1>2. \A v \in Values, s \in Nat : Successor(r, NewRecord(v, r.revision + 1, s, t), t)
  BY <1>1 DEF Successor, NewRecord, GoodRecord, Record, States
<1>3. \A v \in Values : r.state = "live" => Successor(r, Revised(r, v, t), t)
  BY <1>1 DEF Successor, Revised, GoodRecord, Record, States
<1>4. Successor(r, Buried(r, t), t)
  BY <1>1 DEF Successor, Buried, GoodRecord, Record, States
<1> QED
  BY <1>2, <1>3, <1>4

(* What each callback does. *)
LEMMA CallbackEffects ==
  ASSUME NEW op \in GoodOp, NEW r \in GoodRecord, NEW t \in Nat
  PROVE  Effects(op, r, t, Callback(op, r, t))
<1>0. /\ op.kind \in Kinds /\ op.expect \in Nat
      /\ op.fn \in [Values -> Values \cup {NoValue}]
      /\ op.kind \in {"create", "swap"} => op.value \in Values
  BY DEF GoodOp, Op
<1>1. \A e \in Errors : Effects(op, r, t, Fails(e))
  BY Constants DEF Effects
<1>2. Effects(op, r, t, Keeps(r))
  BY Constants DEF Effects
<1>3. \A s : op.kind # "reclaim" /\ Successor(r, s, t) => Effects(op, r, t, Writes(s))
  BY Constants DEF Effects, Successor
<1>4. \A v \in Values : r.state = "live" /\ op.kind # "reclaim" => Effects(op, r, t, Set(r, v, t))
  BY <1>2, <1>3, NewRecords DEF Set
<1>5. {"exists", "deleted", "not found", "mismatch", "rejected"} \subseteq Errors
  BY DEF Errors
<1>6. CASE op.kind = "create"
  <2>1. Callback(op, r, t) = Create(r, op.value, t)
    BY <1>6, Zenon DEF Callback
  <2>2. CASE r.state = "absent"
    <3>1. Create(r, op.value, t) = Writes(NewRecord(op.value, r.revision + 1, t, t))
      BY <2>2, RecordFields DEF Create
    <3>2. Successor(r, NewRecord(op.value, r.revision + 1, t, t), t)
      BY <1>0, <1>6, NewRecords
    <3> QED
      BY <3>1, <3>2, <2>1, <1>3, <1>6
  <2>3. CASE r.state = "live"
    <3>1. Create(r, op.value, t) = Fails("exists")
      BY <2>3 DEF Create
    <3> QED
      BY <3>1, <2>1, <1>1, <1>5
  <2>4. CASE r.state = "tombstone" /\ AllowResurrection
    <3>1. Create(r, op.value, t) = Writes(NewRecord(op.value, r.revision + 1, r.createdAt, t))
      BY <2>4 DEF Create
    <3>2. Successor(r, NewRecord(op.value, r.revision + 1, r.createdAt, t), t)
      BY <1>0, <1>6, NewRecords, RecordFields
    <3> QED
      BY <3>1, <3>2, <2>1, <1>3, <1>6
  <2>5. CASE r.state = "tombstone" /\ ~AllowResurrection
    <3>1. Create(r, op.value, t) = Fails("deleted")
      BY <2>5 DEF Create
    <3> QED
      BY <3>1, <2>1, <1>1, <1>5
  <2> QED
    BY <2>2, <2>3, <2>4, <2>5, RecordFields DEF States
<1>7. CASE op.kind = "get"
  <2>1. Callback(op, r, t) = Get(r)
    BY <1>7 DEF Callback
  <2> QED
    BY <2>1, <1>1, <1>2, <1>5 DEF Get
<1>8. CASE op.kind = "swap"
  <2>1. Callback(op, r, t) = Swap(r, op.expect, op.value, t)
    BY <1>8 DEF Callback
  <2> QED
    BY <2>1, <1>0, <1>1, <1>4, <1>5, <1>8 DEF Swap
<1>9. CASE op.kind = "update"
  <2>1. Callback(op, r, t) = Update(r, op.fn, t)
    BY <1>9 DEF Callback
  <2> QED
    BY <2>1, <1>0, <1>1, <1>4, <1>5, <1>9, RecordFields DEF Update
<1>10. CASE op.kind = "delete"
  <2>1. Callback(op, r, t) = Delete(r, op.expect, t)
    BY <1>10 DEF Callback
  <2> QED
    BY <2>1, <1>1, <1>3, <1>5, <1>10, NewRecords DEF Delete
<1>11. CASE op.kind = "reclaim"
  <2>1. Callback(op, r, t) = Reclaim(r, op.limit)
    BY <1>11 DEF Callback
  <2>2. Reclaimable(r, op.limit) => Effects(op, r, t, Writes(Absent))
    BY <1>11, Constants DEF Effects
  <2> QED
    BY <2>1, <2>2, <1>2 DEF Reclaim
<1>12. CASE op.kind = "none"
  <2>1. Callback(op, r, t) = Keeps(r)
    BY <1>12 DEF Callback
  <2> QED
    BY <2>1, <1>2
<1> QED
  BY <1>0, <1>6, <1>7, <1>8, <1>9, <1>10, <1>11, <1>12 DEF Kinds

-----------------------------------------------------------------------------
(* The inductive invariant *)

GoodCall == [pc: {"idle", "begin", "commit", "return", "gc"}, op: GoodOp, since: Nat,
             attempts: 0..(MaxAttempts - 1), stale: BOOLEAN, out: GoodOut, todo: SUBSET Keys]

TypeInv ==
  /\ now \in 1..MaxNow
  /\ recs \in [Keys -> GoodRecord]
  /\ call \in [Clients -> GoodCall]
  /\ last \in [Keys -> Nat]

(* No record is from the future, and without GC last is the revision.      *)
RecordInv ==
  \A k \in Keys : /\ recs[k].updatedAt <= now
                  /\ Retention = 0 => last[k] = recs[k].revision

(* A call that is not stale would still do what its callback did: its      *)
(* outcome is that of the callback on the record as it is now.             *)
CommitInv(cl) ==
  /\ cl.pc \in {"begin", "commit"} => cl.since \in 1..now
  /\ cl.pc = "commit" => cl.out.writes
  /\ cl.pc = "commit" /\ ~cl.stale =>
       \E t \in cl.since..now :
         /\ recs[cl.op.key].updatedAt <= t
         /\ cl.out = Callback(cl.op, recs[cl.op.key], t)

(* What a GC is after was deleted before its retention began. *)
LimitInv(cl) ==
  cl.pc = "gc" \/ (cl.op.kind = "reclaim" /\ cl.pc \in {"begin", "commit"})
    => Retention > 0 /\ cl.op.limit <= now - Retention

CallsInv == \A c \in Clients : CommitInv(call[c]) /\ LimitInv(call[c])

IInv == TypeInv /\ RecordInv /\ CallsInv

(* A call that has not returned anything yet. *)
LEMMA NoFailure == Fails("nil") \in GoodOut
BY Constants DEF Errors

(* A call starts with its first attempt. *)
LEMMA FirstAttempt == 0 \in 0..(MaxAttempts - 1)
BY AttemptsAssumption

(* The records of calls. *)
LEMMA IdleCall ==
  /\ NoOp \in GoodOp /\ NoOp.kind = "none"
  /\ Idle \in GoodCall /\ Idle.pc = "idle" /\ Idle.op = NoOp
  /\ \A S \in SUBSET Keys, n \in Int :
       /\ Scanned(S, n) \in GoodCall
       /\ Scanned(S, n).pc = "gc" /\ Scanned(S, n).op.limit = n
  /\ \A k \in Keys, n \in Int :
       /\ ReclaimOp(k, n) \in GoodOp
       /\ ReclaimOp(k, n).kind = "reclaim" /\ ReclaimOp(k, n).limit = n
<1>1. NoOp \in Op /\ NoOp.kind = "none"
  <2>1. (CHOOSE k \in Keys : TRUE) \in Keys
    BY KeysAssumption, Zenon
  <2> QED
    BY <2>1 DEF NoOp, Op, Kinds
<1>2. NoOp \in GoodOp
  BY <1>1 DEF GoodOp
<1>3. \A n \in Int : /\ [NoOp EXCEPT !.limit = n] \in GoodOp
                     /\ [NoOp EXCEPT !.limit = n].limit = n
  BY <1>1 DEF GoodOp, Op, Kinds
<1>4. Idle \in GoodCall /\ Idle.pc = "idle" /\ Idle.op = NoOp
  BY <1>2, NoFailure, FirstAttempt DEF Idle, GoodCall
<1>5. \A S \in SUBSET Keys, n \in Int :
       /\ Scanned(S, n) \in GoodCall
       /\ Scanned(S, n).pc = "gc" /\ Scanned(S, n).op.limit = n
  BY <1>3, <1>4 DEF Scanned, GoodCall
<1>6. \A k \in Keys, n \in Int :
       /\ ReclaimOp(k, n) \in GoodOp
       /\ ReclaimOp(k, n).kind = "reclaim" /\ ReclaimOp(k, n).limit = n
  BY <1>1 DEF ReclaimOp, GoodOp, Op, Kinds
<1> QED
  BY <1>1, <1>2, <1>4, <1>5, <1>6

(* The steps of a transaction on the record of its call. *)
LEMMA CallRecords ==
  ASSUME NEW cl \in GoodCall, NEW out \in GoodOut
  PROVE  /\ Wrote(cl, out) \in GoodCall /\ Wrote(cl, out).pc = "commit"
         /\ Wrote(cl, out).op = cl.op /\ Wrote(cl, out).since = cl.since
         /\ Wrote(cl, out).out = out
         /\ MayRetry(cl.attempts) => Again(cl) \in GoodCall
         /\ Again(cl).pc = "begin" /\ Again(cl).op = cl.op /\ Again(cl).since = cl.since
         /\ Ended(cl, out) \in GoodCall
         /\ Ended(cl, out).pc = IF cl.op.kind = "reclaim" /\ out.err = "nil" THEN "gc" ELSE "return"
         /\ Ended(cl, out).op = cl.op /\ Ended(cl, out).since = cl.since
         /\ Ended(cl, out).out = out
<1>1. /\ Wrote(cl, out) \in GoodCall /\ Wrote(cl, out).pc = "commit"
      /\ Wrote(cl, out).op = cl.op /\ Wrote(cl, out).since = cl.since
      /\ Wrote(cl, out).out = out
  BY DEF Wrote, GoodCall
<1>2. MayRetry(cl.attempts) => cl.attempts + 1 \in 0..(MaxAttempts - 1)
  <2>1. cl.attempts \in 0..(MaxAttempts - 1)
    BY DEF GoodCall
  <2> QED
    BY <2>1, AttemptsAssumption DEF MayRetry
<1>3. MayRetry(cl.attempts) => Again(cl) \in GoodCall
  BY <1>2, NoFailure DEF Again, GoodCall
<1>4. Again(cl).pc = "begin" /\ Again(cl).op = cl.op /\ Again(cl).since = cl.since
  BY DEF Again, GoodCall
<1>5. /\ Ended(cl, out) \in GoodCall
      /\ Ended(cl, out).pc = IF cl.op.kind = "reclaim" /\ out.err = "nil" THEN "gc" ELSE "return"
      /\ Ended(cl, out).op = cl.op /\ Ended(cl, out).since = cl.since
      /\ Ended(cl, out).out = out
  BY DEF Ended, GoodCall
<1> QED
  BY <1>1, <1>3, <1>4, <1>5

(* Another call's write changes nothing of a call but its staleness. *)
LEMMA StaleCall ==
  ASSUME NEW cl \in GoodCall, NEW k
  PROVE  /\ MarkStale(cl, k) \in GoodCall
         /\ MarkStale(cl, k).pc = cl.pc /\ MarkStale(cl, k).op = cl.op
         /\ MarkStale(cl, k).since = cl.since /\ MarkStale(cl, k).out = cl.out
         /\ ~MarkStale(cl, k).stale =>
              ~cl.stale /\ ~(cl.pc = "commit" /\ cl.op.key = k)
BY DEF MarkStale, GoodCall

(* A call begins. *)
LEMMA StartCall ==
  ASSUME now \in Nat, NEW op \in GoodOp, NEW S \in SUBSET Keys
  PROVE  /\ Start(op, S) \in GoodCall /\ Start(op, S).pc = "begin"
         /\ Start(op, S).op = op /\ Start(op, S).since = now
BY NoFailure, FirstAttempt DEF Start, GoodCall

-----------------------------------------------------------------------------
(* The invariant is preserved *)

(* The fields of a call. *)
LEMMA CallFields ==
  ASSUME TypeInv, NEW c \in Clients
  PROVE  /\ call[c] \in GoodCall /\ call[c].op \in GoodOp /\ call[c].op.key \in Keys
         /\ call[c].op.limit \in Int /\ call[c].since \in Nat /\ call[c].out \in GoodOut
         /\ call[c].out.rec \in GoodRecord /\ call[c].todo \in SUBSET Keys
         /\ recs[call[c].op.key] \in GoodRecord
BY DEF TypeInv, GoodCall, GoodOp, Op, GoodOut

(* A step in which one client goes on and the store stays as it is. *)
LEMMA LocalStep ==
  ASSUME IInv, NEW c \in Clients, NEW r \in GoodCall,
         UNCHANGED <<now, recs, last>>, call' = [call EXCEPT ![c] = r],
         CommitInv(r), LimitInv(r)
  PROVE  IInv'
<1>1. TypeInv'
  BY DEF IInv, TypeInv
<1>2. RecordInv'
  BY DEF IInv, RecordInv
<1>3. \A d \in Clients : call'[d] = IF d = c THEN r ELSE call[d]
  BY DEF IInv, TypeInv
<1>4. \A d \in Clients : CommitInv(call'[d]) /\ LimitInv(call'[d])
  BY <1>3 DEF IInv, CallsInv
<1>5. CallsInv'
  BY <1>4 DEF CallsInv, CommitInv, LimitInv
<1> QED
  BY <1>1, <1>2, <1>5 DEF IInv

(* What a transaction that may commit is about to write. *)
LEMMA Writing ==
  ASSUME IInv, NEW c \in Clients, call[c].pc = "commit", ~call[c].stale
  PROVE  \E t \in call[c].since..now :
           /\ t \in Nat /\ recs[call[c].op.key].updatedAt <= t
           /\ call[c].out = Callback(call[c].op, recs[call[c].op.key], t)
           /\ call[c].out.writes
           /\ Effects(call[c].op, recs[call[c].op.key], t, call[c].out)
<1>1. PICK t \in call[c].since..now :
           /\ recs[call[c].op.key].updatedAt <= t
           /\ call[c].out = Callback(call[c].op, recs[call[c].op.key], t)
  BY DEF IInv, CallsInv, CommitInv
<1>2. call[c].since \in 1..now /\ call[c].out.writes
  BY DEF IInv, CallsInv, CommitInv
<1>3. t \in Nat
  BY <1>2 DEF IInv, TypeInv
<1>4. Effects(call[c].op, recs[call[c].op.key], t, Callback(call[c].op, recs[call[c].op.key], t))
  BY <1>3, CallFields, CallbackEffects DEF IInv
<1> QED
  BY <1>1, <1>2, <1>3, <1>4

(* The write of a client lands: the others are stale or about other keys. *)
LEMMA LandStep ==
  ASSUME IInv, NEW c \in Clients, call[c].pc = "commit", ~call[c].stale,
         NEW done \in GoodCall, Land(c, done), UNCHANGED now,
         CommitInv(done), LimitInv(done), done.pc \in {"return", "gc"}
  PROVE  IInv'
<1> DEFINE key == call[c].op.key
           rec == call[c].out.rec
<1>1. key \in Keys /\ rec \in GoodRecord /\ recs[key] \in GoodRecord
  BY CallFields DEF IInv
<1>2. /\ recs' = [recs EXCEPT ![key] = rec]
      /\ last' = [last EXCEPT ![key] = IF rec.revision > last[key] THEN rec.revision ELSE last[key]]
      /\ call' = [d \in Clients |-> IF d = c THEN done ELSE MarkStale(call[d], key)]
  BY DEF Land
<1>3. PICK t \in call[c].since..now :
           /\ t \in Nat
           /\ Effects(call[c].op, recs[call[c].op.key], t, call[c].out)
           /\ call[c].out.writes
  BY Writing
<1>4. TypeInv'
  <2>1. recs' \in [Keys -> GoodRecord]
    BY <1>1, <1>2 DEF IInv, TypeInv
  <2>2. last' \in [Keys -> Nat]
    BY <1>1, <1>2, RecordFields DEF IInv, TypeInv
  <2>3. \A d \in Clients : MarkStale(call[d], key) \in GoodCall
    BY StaleCall, CallFields DEF IInv
  <2>4. call' \in [Clients -> GoodCall]
    BY <1>2, <2>3
  <2> QED
    BY <2>1, <2>2, <2>4 DEF IInv, TypeInv
<1>5. rec.updatedAt <= now
  <2>1. CASE call[c].op.kind # "reclaim"
    <3>1. rec.updatedAt = t
      BY <1>3, <2>1 DEF Effects, Successor
    <3>2. t <= now /\ now \in Nat
      BY CallFields DEF IInv, TypeInv
    <3> QED
      BY <3>1, <3>2
  <2>2. CASE call[c].op.kind = "reclaim"
    <3>1. rec = Absent
      BY <1>3, <2>2 DEF Effects
    <3> QED
      BY <3>1 DEF IInv, TypeInv, Absent
  <2> QED
    BY <2>1, <2>2
<1>6. Retention = 0 => rec.revision = recs[key].revision + 1
  <2>1. Retention = 0 => call[c].op.kind # "reclaim"
    BY DEF IInv, CallsInv, LimitInv
  <2> QED
    BY <2>1, <1>3 DEF Effects, Successor
<1>7. RecordInv'
  <2> SUFFICES ASSUME NEW k \in Keys
               PROVE  /\ recs'[k].updatedAt <= now
                      /\ Retention = 0 => last'[k] = recs'[k].revision
    BY DEF RecordInv
  <2>0. recs[k].updatedAt <= now /\ (Retention = 0 => last[k] = recs[k].revision)
    BY DEF IInv, RecordInv
  <2>1. CASE k = key
    <3>1. recs'[k] = rec /\ last'[k] = IF rec.revision > last[key] THEN rec.revision ELSE last[key]
      BY <1>1, <1>2, <2>1 DEF IInv, TypeInv
    <3>2. rec.revision \in Nat /\ recs[key].revision \in Nat
      BY <1>1, RecordFields
    <3> QED
      BY <3>1, <3>2, <2>0, <2>1, <1>5, <1>6
  <2>2. CASE k # key
    BY <1>1, <1>2, <2>0, <2>2 DEF IInv, TypeInv
  <2> QED
    BY <2>1, <2>2
<1>8. CallsInv'
  <2> SUFFICES ASSUME NEW d \in Clients
               PROVE  CommitInv(call[d])' /\ LimitInv(call[d])'
    BY DEF CallsInv
  <2>1. CASE d = c
    <3>1. call'[d] = done
      BY <1>2, <2>1
    <3> QED
      BY <3>1 DEF CommitInv, LimitInv
  <2>2. CASE d # c
    <3>1. call'[d] = MarkStale(call[d], key)
      BY <1>2, <2>2
    <3>2. CommitInv(call[d]) /\ LimitInv(call[d]) /\ call[d] \in GoodCall
      BY CallFields DEF IInv, CallsInv
    <3>3. /\ call'[d].pc = call[d].pc /\ call'[d].op = call[d].op
          /\ call'[d].since = call[d].since /\ call'[d].out = call[d].out
          /\ ~call'[d].stale => ~call[d].stale /\ ~(call[d].pc = "commit" /\ call[d].op.key = key)
      BY <3>1, <3>2, StaleCall
    <3>4. call[d].op.key # key => recs'[call[d].op.key] = recs[call[d].op.key]
      BY <1>1, <1>2, CallFields DEF IInv, TypeInv
    <3>5. LimitInv(call[d])'
      BY <3>2, <3>3 DEF LimitInv
    <3>6. CommitInv(call[d])'
      BY <3>2, <3>3, <3>4 DEF CommitInv
    <3> QED
      BY <3>5, <3>6
  <2> QED
    BY <2>1, <2>2
<1> QED
  BY <1>4, <1>7, <1>8 DEF IInv

(* A call that has ended, with an outcome or an error. *)
LEMMA EndedInv ==
  ASSUME IInv, NEW c \in Clients, call[c].pc \in {"begin", "commit"}, NEW out \in GoodOut
  PROVE  /\ Ended(call[c], out) \in GoodCall
         /\ Ended(call[c], out).pc \in {"return", "gc"}
         /\ CommitInv(Ended(call[c], out)) /\ LimitInv(Ended(call[c], out))
<1>1. /\ Ended(call[c], out) \in GoodCall
      /\ Ended(call[c], out).op = call[c].op
      /\ Ended(call[c], out).pc =
           IF call[c].op.kind = "reclaim" /\ out.err = "nil" THEN "gc" ELSE "return"
  BY CallFields, CallRecords DEF IInv
<1>2. LimitInv(call[c])
  BY DEF IInv, CallsInv
<1> QED
  BY <1>1, <1>2 DEF CommitInv, LimitInv

(* Every step of a client preserves the invariant. *)
LEMMA ClientInv ==
  ASSUME IInv, NEW c \in Clients, ClientStep(c)
  PROVE  IInv'
<1>0. now \in 1..MaxNow /\ now \in Nat
  BY DEF IInv, TypeInv
<1>1. CASE Invoke(c)
  <2>1. PICK op \in Ops : call' = [call EXCEPT ![c] = Start(op, {})]
    BY <1>1 DEF Invoke
  <2>2. op \in GoodOp /\ op.kind # "reclaim"
    BY OpsAssumption DEF GoodOp
  <2>3. PICK r : r = Start(op, {})
    OBVIOUS
  <2>4. r \in GoodCall /\ r.pc = "begin" /\ r.op = op /\ r.since = now
    BY <2>2, <2>3, <1>0, StartCall
  <2>5. CommitInv(r) /\ LimitInv(r)
    BY <2>2, <2>4, <1>0 DEF CommitInv, LimitInv
  <2> QED
    BY <2>1, <2>3, <2>4, <2>5, <1>1, LocalStep DEF Invoke
<1>2. CASE Begin(c)
  <2>1. PICK out : out = Callback(call[c].op, recs[call[c].op.key], now)
    OBVIOUS
  <2>2. /\ call[c].pc = "begin" /\ UNCHANGED <<now, recs, last>>
        /\ call' = [call EXCEPT ![c] =
                      IF out.writes THEN Wrote(call[c], out) ELSE Ended(call[c], out)]
    BY <1>2, <2>1 DEF Begin
  <2>3. out \in GoodOut
    BY <2>1, <1>0, CallbackEffects, CallFields DEF IInv, Effects
  <2>4. CASE out.writes
    <3>1. PICK r : r = Wrote(call[c], out)
      OBVIOUS
    <3>2. /\ r \in GoodCall /\ r.pc = "commit" /\ r.op = call[c].op
          /\ r.since = call[c].since /\ r.out = out
      BY <3>1, <2>3, CallRecords, CallFields DEF IInv
    <3>3. CommitInv(call[c]) /\ LimitInv(call[c])
      BY DEF IInv, CallsInv
    <3>4. LimitInv(r)
      BY <3>2, <3>3, <2>2 DEF LimitInv
    <3>5. recs[call[c].op.key].updatedAt <= now
      BY CallFields DEF IInv, RecordInv
    <3>6. now \in call[c].since..now /\ call[c].since \in 1..now
      BY <3>3, <2>2, <1>0 DEF CommitInv
    <3>7. CommitInv(r)
      BY <3>2, <3>5, <3>6, <2>1, <2>4 DEF CommitInv
    <3> QED
      BY <3>1, <3>2, <3>4, <3>7, <2>2, <2>4, LocalStep
  <2>5. CASE ~out.writes
    <3>1. PICK r : r = Ended(call[c], out)
      OBVIOUS
    <3>2. r \in GoodCall /\ CommitInv(r) /\ LimitInv(r)
      BY <3>1, <2>2, <2>3, EndedInv
    <3> QED
      BY <3>1, <3>2, <2>2, <2>5, LocalStep
  <2> QED
    BY <2>4, <2>5
<1>3. CASE Commit(c)
  <2>1. PICK done : done = Ended(call[c], call[c].out)
    OBVIOUS
  <2>2. /\ call[c].pc = "commit" /\ ~call[c].stale /\ Land(c, done) /\ UNCHANGED now
    BY <1>3, <2>1 DEF Commit, Conflicts
  <2>3. done \in GoodCall /\ CommitInv(done) /\ LimitInv(done) /\ done.pc \in {"return", "gc"}
    BY <2>1, <2>2, EndedInv, CallFields DEF IInv
  <2> QED
    BY <2>2, <2>3, LandStep
<1>4. CASE CommitUnreported(c)
  <2>1. PICK done : done = Ended(call[c], Fails("storage"))
    OBVIOUS
  <2>2. /\ call[c].pc = "commit" /\ ~call[c].stale /\ Land(c, done) /\ UNCHANGED now
    BY <1>4, <2>1 DEF CommitUnreported, Conflicts
  <2>3. Fails("storage") \in GoodOut
    BY Constants DEF Errors
  <2>4. done \in GoodCall /\ CommitInv(done) /\ LimitInv(done) /\ done.pc \in {"return", "gc"}
    BY <2>1, <2>2, <2>3, EndedInv
  <2> QED
    BY <2>2, <2>4, LandStep
<1>5. CASE Conflict(c)
  <2>1. /\ call[c].pc = "commit" /\ UNCHANGED <<now, recs, last>>
        /\ call' = [call EXCEPT ![c] = IF MayRetry(call[c].attempts) THEN Again(call[c])
                                       ELSE Ended(call[c], Fails("conflict"))]
    BY <1>5 DEF Conflict
  <2>2. CASE MayRetry(call[c].attempts)
    <3>1. PICK r : r = Again(call[c])
      OBVIOUS
    <3>2. r \in GoodCall /\ r.pc = "begin" /\ r.op = call[c].op /\ r.since = call[c].since
      BY <3>1, <2>2, NoFailure, CallRecords, CallFields DEF IInv
    <3>3. CommitInv(call[c]) /\ LimitInv(call[c])
      BY DEF IInv, CallsInv
    <3>4. CommitInv(r) /\ LimitInv(r)
      BY <3>2, <3>3, <2>1 DEF CommitInv, LimitInv
    <3> QED
      BY <3>1, <3>2, <3>4, <2>1, <2>2, LocalStep
  <2>3. CASE ~MayRetry(call[c].attempts)
    <3>1. PICK r : r = Ended(call[c], Fails("conflict"))
      OBVIOUS
    <3>2. Fails("conflict") \in GoodOut
      BY Constants DEF Errors
    <3>3. r \in GoodCall /\ CommitInv(r) /\ LimitInv(r)
      BY <3>1, <3>2, <2>1, EndedInv
    <3> QED
      BY <3>1, <3>3, <2>1, <2>3, LocalStep
  <2> QED
    BY <2>2, <2>3
<1>6. CASE StoreFails(c)
  <2>1. PICK r : r = Ended(call[c], Fails("storage"))
    OBVIOUS
  <2>2. Fails("storage") \in GoodOut
    BY Constants DEF Errors
  <2>3. /\ call[c].pc \in {"begin", "commit"} /\ UNCHANGED <<now, recs, last>>
        /\ call' = [call EXCEPT ![c] = r]
    BY <1>6, <2>1 DEF StoreFails
  <2>4. r \in GoodCall /\ CommitInv(r) /\ LimitInv(r)
    BY <2>1, <2>2, <2>3, EndedInv
  <2> QED
    BY <2>3, <2>4, LocalStep
<1>7. Idle \in GoodCall /\ CommitInv(Idle) /\ LimitInv(Idle)
  BY IdleCall DEF CommitInv, LimitInv
<1>8. CASE Return(c)
  BY <1>7, <1>8, LocalStep DEF Return
<1>9. CASE GCDone(c)
  BY <1>7, <1>9, LocalStep DEF GCDone
<1>10. CASE GCScan(c)
  <2>1. PICK r : r = Scanned({k \in Keys : Reclaimable(recs[k], now - Retention)}, now - Retention)
    OBVIOUS
  <2>2. r \in GoodCall /\ r.pc = "gc" /\ r.op.limit = now - Retention
    BY <2>1, <1>0, RetentionAssumption, IdleCall
  <2>3. CommitInv(r) /\ LimitInv(r)
    BY <2>2, <1>0, <1>10, RetentionAssumption DEF CommitInv, LimitInv, GCScan
  <2> QED
    BY <2>1, <2>2, <2>3, <1>10, LocalStep DEF GCScan
<1>11. CASE GCNext(c)
  <2>1. PICK k \in call[c].todo :
          call' = [call EXCEPT ![c] = Start(ReclaimOp(k, call[c].op.limit), call[c].todo \ {k})]
    BY <1>11 DEF GCNext
  <2>2. PICK op, S, r :
          op = ReclaimOp(k, call[c].op.limit) /\ S = call[c].todo \ {k} /\ r = Start(op, S)
    OBVIOUS
  <2>3. op \in GoodOp /\ op.kind = "reclaim" /\ op.limit = call[c].op.limit /\ S \in SUBSET Keys
    BY <2>2, IdleCall, CallFields DEF IInv
  <2>4. r \in GoodCall /\ r.pc = "begin" /\ r.op = op /\ r.since = now
    BY <2>2, <2>3, <1>0, StartCall
  <2>5. call[c].pc = "gc" /\ LimitInv(call[c])
    BY <1>11 DEF GCNext, IInv, CallsInv
  <2>6. CommitInv(r) /\ LimitInv(r)
    BY <2>3, <2>4, <2>5, <1>0 DEF CommitInv, LimitInv
  <2> QED
    BY <2>1, <2>2, <2>4, <2>6, <1>11, LocalStep DEF GCNext
<1> QED
  BY <1>1, <1>2, <1>3, <1>4, <1>5, <1>6, <1>8, <1>9, <1>10, <1>11 DEF ClientStep

(* IInv is an inductive invariant of the store. *)
THEOREM Invariance == Spec => []IInv
<1>1. Init => IInv
  <2> SUFFICES ASSUME Init PROVE IInv
    OBVIOUS
  <2>1. TypeInv
    BY IdleCall, Constants, LimitsAssumption DEF Init, TypeInv
  <2>0. Absent.updatedAt = 0 /\ Absent.revision = 0
    BY DEF Absent
  <2>2. RecordInv
    <3>1. now = 1 /\ \A k \in Keys : recs[k] = Absent /\ last[k] = 0
      BY DEF Init
    <3>2. \A k \in Keys : recs[k].updatedAt = 0 /\ recs[k].revision = 0
      BY <2>0, <3>1
    <3>3. \A k \in Keys : recs[k].updatedAt <= now
      <4> SUFFICES ASSUME NEW k \in Keys PROVE recs[k].updatedAt <= now
        OBVIOUS
      <4>1. recs[k].updatedAt = 0 /\ now = 1
        BY <3>1, <3>2
      <4> HIDE DEF Init
      <4> QED
        BY <4>1
    <3>4. \A k \in Keys : last[k] = recs[k].revision
      BY <3>1, <3>2
    <3> QED
      BY <3>3, <3>4 DEF RecordInv
  <2>3. CallsInv
    BY IdleCall DEF Init, CallsInv, CommitInv, LimitInv
  <2> QED
    BY <2>1, <2>2, <2>3 DEF IInv
<1>2. IInv /\ [Next]_vars => IInv'
  <2> SUFFICES ASSUME IInv, [Next]_vars PROVE IInv'
    OBVIOUS
  <2>1. CASE Tick
    <3>0. now \in Nat /\ now' = now + 1 /\ UNCHANGED <<recs, call, last>> /\ now' \in 1..MaxNow
      BY <2>1, LimitsAssumption DEF Tick, IInv, TypeInv
    <3>1. TypeInv'
      BY <3>0 DEF IInv, TypeInv
    <3>2. RecordInv'
      BY <3>0, RecordFields DEF IInv, RecordInv, TypeInv
    <3>3. \A c \in Clients : LimitInv(call[c])'
      BY <3>0, RetentionAssumption, CallFields DEF IInv, CallsInv, LimitInv
    <3>4. \A c \in Clients : CommitInv(call[c])'
      <4> SUFFICES ASSUME NEW c \in Clients PROVE CommitInv(call[c])'
        OBVIOUS
      <4>1. CommitInv(call[c]) /\ call[c].since \in Nat
        BY CallFields DEF IInv, CallsInv
      <4>2. \A t \in call[c].since..now : t \in call[c].since..now'
        BY <3>0, <4>1
      <4>3. call[c].since \in 1..now => call[c].since \in 1..now'
        BY <3>0
      <4> QED
        BY <3>0, <4>1, <4>2, <4>3 DEF CommitInv
    <3> QED
      BY <3>1, <3>2, <3>3, <3>4 DEF IInv, CallsInv
  <2>2. CASE \E c \in Clients : ClientStep(c)
    BY <2>2, ClientInv
  <2>3. CASE UNCHANGED vars
    BY <2>3 DEF vars, IInv, TypeInv, RecordInv, CallsInv, CommitInv, LimitInv
  <2> QED
    BY <2>1, <2>2, <2>3 DEF Next
<1> QED
  BY <1>1, <1>2, PTL DEF Spec

(* The variables of the store always have their types. *)
THEOREM TypeCorrect == Spec => []TypeOK
<1>1. IInv => TypeOK
  <2> SUFFICES ASSUME IInv PROVE TypeOK
    OBVIOUS
  <2>1. GoodRecord \subseteq Record /\ GoodOp \subseteq Op
    BY DEF GoodRecord, GoodOp
  <2>2. GoodOut \subseteq Outcome
    BY <2>1 DEF GoodOut, Outcome
  <2>3. GoodCall \subseteq Call
    BY <2>1, <2>2 DEF GoodCall, Call
  <2> QED
    BY <2>1, <2>3 DEF IInv, TypeInv, TypeOK
<1> QED
  BY <1>1, Invariance, PTL

-----------------------------------------------------------------------------
(* What a step may never do to a record *)

(* A step changes at most one record: it writes its successor, with a      *)
(* later time, or takes an expired tombstone away.                         *)
LEMMA RecordStep ==
  ASSUME IInv, [Next]_vars, NEW k \in Keys, recs'[k] # recs[k]
  PROVE  /\ recs[k] \in GoodRecord /\ recs'[k] \in GoodRecord
         /\ \/ /\ recs'[k].revision = recs[k].revision + 1
               /\ recs[k].updatedAt <= recs'[k].updatedAt
               /\ recs'[k].state # "absent"
            \/ /\ recs'[k] = Absent
               /\ recs[k].state = "tombstone"
               /\ recs[k].deletedAt + Retention < now
<1>1. PICK c \in Clients : Commit(c) \/ CommitUnreported(c)
  BY DEF Next, vars, Tick, ClientStep, Invoke, Begin, Conflict, StoreFails, Return,
         GCScan, GCNext, GCDone
<1>2. /\ call[c].pc = "commit" /\ ~call[c].stale
      /\ recs' = [recs EXCEPT ![call[c].op.key] = call[c].out.rec]
  BY <1>1 DEF Commit, CommitUnreported, Conflicts, Land
<1>3. recs[k] \in GoodRecord /\ call[c].out.rec \in GoodRecord /\ call[c].op.limit \in Int
  BY CallFields DEF IInv, TypeInv
<1>4. k = call[c].op.key /\ recs'[k] = call[c].out.rec
  BY <1>2 DEF IInv, TypeInv
<1>5. PICK t \in Nat : recs[k].updatedAt <= t /\ Effects(call[c].op, recs[k], t, call[c].out)
  BY <1>2, <1>4, Writing
<1>6. call[c].out.writes
  BY <1>2 DEF IInv, CallsInv, CommitInv
<1>7. CASE call[c].op.kind # "reclaim"
  BY <1>3, <1>4, <1>5, <1>6, <1>7 DEF Effects, Successor
<1>8. CASE call[c].op.kind = "reclaim"
  <2>1. recs'[k] = Absent /\ Reclaimable(recs[k], call[c].op.limit)
    BY <1>4, <1>5, <1>6, <1>8 DEF Effects
  <2>2. Retention > 0 /\ call[c].op.limit <= now - Retention
    BY <1>2, <1>8 DEF IInv, CallsInv, LimitInv
  <2>3. recs[k].state = "tombstone" /\ recs[k].deletedAt < call[c].op.limit
    BY <2>1 DEF Reclaimable
  <2>4. recs[k].deletedAt \in Nat /\ now \in Nat
    BY <1>3, RecordFields DEF IInv, TypeInv
  <2>5. recs[k].deletedAt + Retention < now
    BY <2>2, <2>3, <2>4, <1>3, RetentionAssumption
  <2> QED
    BY <2>1, <2>3, <2>5, <1>3, <1>4
<1> QED
  BY <1>7, <1>8

(* UpdatedAt never goes back, although the clock is read before the        *)
(* commit, as long as the clock itself is not set back.                    *)
THEOREM TimesAdvance == Spec => UpdatedAtMonotone
<1> DEFINE A == \A k \in Keys :
      recs'[k].state # "absent" => recs[k].updatedAt <= recs'[k].updatedAt
<1>1. IInv /\ [Next]_vars => [A]_vars
  <2> SUFFICES ASSUME IInv, [Next]_vars, NEW k \in Keys, recs'[k].state # "absent"
               PROVE  recs[k].updatedAt <= recs'[k].updatedAt
    OBVIOUS
  <2>1. CASE recs'[k] = recs[k]
    <3>1. recs[k].updatedAt \in Nat
      BY RecordFields DEF IInv, TypeInv
    <3> QED
      BY <2>1, <3>1
  <2>2. CASE recs'[k] # recs[k]
    <3>1. Absent.state = "absent"
      BY DEF Absent
    <3> QED
      BY <2>2, <3>1, RecordStep
  <2> QED
    BY <2>1, <2>2
<1> QED
  BY <1>1, Invariance, PTL DEF Spec, UpdatedAtMonotone

(* Without GC (Retention = 0) no revision of a key is used twice. *)
THEOREM RevisionsAreFresh == Retention = 0 => (Spec => RevisionNeverReused)
<1> SUFFICES ASSUME Retention = 0 PROVE Spec => RevisionNeverReused
  OBVIOUS
<1> DEFINE A == \A k \in Keys :
      recs'[k] # recs[k] /\ recs'[k].state # "absent" => recs'[k].revision > last[k]
<1>1. IInv /\ [Next]_vars => [A]_vars
  <2> SUFFICES ASSUME IInv, [Next]_vars, NEW k \in Keys,
                      recs'[k] # recs[k], recs'[k].state # "absent"
               PROVE  recs'[k].revision > last[k]
    OBVIOUS
  <2>1. Absent.state = "absent"
    BY DEF Absent
  <2>2. recs'[k].revision = recs[k].revision + 1 /\ recs[k] \in GoodRecord
    BY <2>1, RecordStep
  <2>3. last[k] = recs[k].revision
    BY DEF IInv, RecordInv
  <2>4. recs[k].revision \in Nat
    BY <2>2, RecordFields
  <2> QED
    BY <2>2, <2>3, <2>4
<1> QED
  BY <1>1, Invariance, PTL DEF Spec, RevisionNeverReused

(* Only tombstones past their retention disappear: GC looks again inside   *)
(* its transaction, and the record cannot change until it commits.         *)
THEOREM OnlyTombstonesGo == Spec => OnlyExpiredReclaimed
<1> DEFINE A == \A k \in Keys :
      recs[k].state # "absent" /\ recs'[k].state = "absent"
        => /\ recs[k].state = "tombstone"
           /\ recs[k].deletedAt + Retention < now
<1>1. IInv /\ [Next]_vars => [A]_vars
  <2> SUFFICES ASSUME IInv, [Next]_vars, NEW k \in Keys,
                      recs[k].state # "absent", recs'[k].state = "absent"
               PROVE  recs[k].state = "tombstone" /\ recs[k].deletedAt + Retention < now
    OBVIOUS
  <2> QED
    BY RecordStep
<1> QED
  BY <1>1, Invariance, PTL DEF Spec, OnlyExpiredReclaimed

-----------------------------------------------------------------------------
(* Linearizability: every step is a step of the atomic store *)

(* The atomic store is the same about records and callbacks. *)
LEMMA SameCallback ==
  ASSUME NEW op, NEW r, NEW t
  PROVE  Atomic!Callback(op, r, t) = Callback(op, r, t)
BY Zenon DEF Atomic!Callback, Callback, Atomic!Create, Create, Atomic!Get, Get, Atomic!Swap, Swap,
  Atomic!Update, Update, Atomic!Delete, Delete, Atomic!Reclaim, Reclaim, Atomic!Set, Set,
  Atomic!Reclaimable, Reclaimable, Atomic!Fails, Fails, Atomic!Keeps, Keeps, Atomic!Writes, Writes,
  Atomic!NewRecord, NewRecord, Atomic!Revised, Revised, Atomic!Buried, Buried,
  Atomic!Absent, Absent

(* What the atomic store sees of a call. *)
Pending(op, since) == [pc |-> "pending", op |-> op, since |-> since, result |-> Fails("nil")]
Done(op, since, out) == [pc |-> "done", op |-> op, since |-> since, result |-> out]
Quiet == [pc |-> "idle", op |-> NoOp, since |-> 0, result |-> Fails("nil")]

(* A running call is seen as pending, one that returns as done, and GC as  *)
(* nothing.                                                                *)
LEMMA SeenCalls ==
  ASSUME NEW cl \in GoodCall
  PROVE  /\ cl.pc \in {"begin", "commit"} /\ cl.op.kind # "reclaim"
              => Seen(cl) = Pending(cl.op, cl.since)
         /\ cl.pc = "return" /\ cl.op.kind # "reclaim"
              => Seen(cl) = Done(cl.op, cl.since, cl.out)
         /\ cl.pc \in {"idle", "gc"} \/ cl.op.kind = "reclaim" => Seen(cl) = Quiet
BY DEF Seen, Pending, Done, Quiet, GoodCall

(* The constants of the atomic store. *)
LEMMA SameConstants ==
  /\ Atomic!Quiet = Quiet
  /\ \A e : Atomic!Fails(e) = Fails(e)
  /\ Atomic!Absent = Absent
BY DEF Atomic!Quiet, Quiet, Atomic!NoOp, NoOp, Atomic!Fails, Fails, Atomic!Absent, Absent

(* The clients as the atomic store sees them. *)
seen == [c \in Clients |-> Seen(call[c])]

(* A step of one client that the atomic store does not see. *)
LEMMA Unseen ==
  ASSUME TypeInv, NEW c \in Clients, NEW r, call' = [call EXCEPT ![c] = r],
         Seen(r) = Seen(call[c])
  PROVE  UNCHANGED seen
BY DEF seen, TypeInv

(* A step of one client that it sees. *)
LEMMA SeenStep ==
  ASSUME TypeInv, NEW c \in Clients, NEW r, call' = [call EXCEPT ![c] = r]
  PROVE  seen' = [seen EXCEPT ![c] = Seen(r)]
BY DEF seen, TypeInv

(* A write that lands makes others stale, which it does not see. *)
LEMMA SeenLand ==
  ASSUME TypeInv, NEW c \in Clients, NEW r, Land(c, r)
  PROVE  seen' = [seen EXCEPT ![c] = Seen(r)]
<1>1. \A d \in Clients : Seen(MarkStale(call[d], call[c].op.key)) = Seen(call[d])
  <2> SUFFICES ASSUME NEW d \in Clients
               PROVE  Seen(MarkStale(call[d], call[c].op.key)) = Seen(call[d])
    OBVIOUS
  <2> QED
    BY CallFields, StaleCall DEF Seen
<1>2. \A d \in Clients : call'[d] = IF d = c THEN r ELSE MarkStale(call[d], call[c].op.key)
  BY DEF Land
<1> QED
  BY <1>1, <1>2 DEF seen

(* The ways a call can end, as steps of the atomic store. *)
LEMMA AtomicSteps ==
  ASSUME TypeInv, NEW c \in Clients, NEW op \in GoodOp, NEW since \in Nat,
         seen[c] = Pending(op, since)
  PROVE  /\ \A t \in since..now : LET out == Callback(op, recs[op.key], t) IN
              /\ recs' = IF out.writes THEN [recs EXCEPT ![op.key] = out.rec] ELSE recs
              /\ seen' = [seen EXCEPT ![c] = Done(op, since, out)]
              /\ UNCHANGED now
              => Atomic!Next
         /\ \A t \in since..now : LET out == Callback(op, recs[op.key], t) IN
              /\ out.writes
              /\ recs' = [recs EXCEPT ![op.key] = out.rec]
              /\ seen' = [seen EXCEPT ![c] = Done(op, since, Fails("storage"))]
              /\ UNCHANGED now
              => Atomic!Next
         /\ \A e \in {"conflict", "storage"} :
              /\ seen' = [seen EXCEPT ![c] = Done(op, since, Fails(e))]
              /\ UNCHANGED <<now, recs>>
              => Atomic!Next
<1>1. seen[c].pc = "pending" /\ seen[c].op = op /\ seen[c].since = since
  BY DEF Pending
<1>2. \A out : seen' = [seen EXCEPT ![c] = Done(op, since, out)] => Atomic!Answer(c, out)
  BY <1>1 DEF Atomic!Answer, Done, seen
<1>3. ASSUME NEW t \in since..now,
             LET out == Callback(op, recs[op.key], t) IN
              /\ recs' = IF out.writes THEN [recs EXCEPT ![op.key] = out.rec] ELSE recs
              /\ seen' = [seen EXCEPT ![c] = Done(op, since, out)]
              /\ UNCHANGED now
      PROVE  Atomic!Next
  <2>1. Atomic!Effect(c)
    BY <1>1, <1>2, <1>3, SameCallback DEF Atomic!Effect, seen
  <2> QED
    BY <2>1 DEF Atomic!Next
<1>4. ASSUME NEW t \in since..now,
             LET out == Callback(op, recs[op.key], t) IN
              /\ out.writes
              /\ recs' = [recs EXCEPT ![op.key] = out.rec]
              /\ seen' = [seen EXCEPT ![c] = Done(op, since, Fails("storage"))]
              /\ UNCHANGED now
      PROVE  Atomic!Next
  <2>1. Atomic!EffectUnreported(c)
    BY <1>1, <1>2, <1>4, SameCallback, SameConstants DEF Atomic!EffectUnreported, seen
  <2> QED
    BY <2>1 DEF Atomic!Next
<1>5. ASSUME NEW e \in {"conflict", "storage"},
             seen' = [seen EXCEPT ![c] = Done(op, since, Fails(e))],
             UNCHANGED <<now, recs>>
      PROVE  Atomic!Next
  <2>1. Atomic!GiveUp(c)
    BY <1>1, <1>2, <1>5, SameConstants DEF Atomic!GiveUp, seen
  <2> QED
    BY <2>1 DEF Atomic!Next
<1> QED
  BY <1>3, <1>4, <1>5

(* GC takes a tombstone away: seen as Collect. *)
LEMMA CollectStep ==
  ASSUME IInv, NEW c \in Clients, call[c].pc = "commit", ~call[c].stale,
         call[c].op.kind = "reclaim", NEW r, Land(c, r), UNCHANGED now, Seen(r) = Quiet
  PROVE  Atomic!Next
<1> DEFINE key == call[c].op.key
<1>1. key \in Keys /\ recs[key] \in GoodRecord /\ call[c].op.limit \in Int
  BY CallFields DEF IInv
<1>2. call[c].out.rec = Absent /\ Reclaimable(recs[key], call[c].op.limit)
  BY Writing DEF Effects
<1>3. Retention > 0 /\ call[c].op.limit <= now - Retention
  BY DEF IInv, CallsInv, LimitInv
<1>4. recs[key].state = "tombstone" /\ recs[key].deletedAt < call[c].op.limit
  BY <1>2 DEF Reclaimable
<1>5. recs[key].deletedAt + Retention < now
  <2>1. recs[key].deletedAt \in Nat /\ now \in Nat
    BY <1>1, RecordFields DEF IInv, TypeInv
  <2> QED
    BY <2>1, <1>1, <1>3, <1>4, RetentionAssumption
<1>6. seen' = seen
  <2>1. Seen(call[c]) = Quiet
    BY CallFields, SeenCalls DEF IInv
  <2>2. seen' = [seen EXCEPT ![c] = Seen(r)]
    BY SeenLand DEF IInv
  <2> QED
    BY <2>1, <2>2 DEF seen
<1>7. recs' = [recs EXCEPT ![key] = Absent]
  BY <1>2 DEF Land
<1>8. Atomic!Collect(key)
  BY <1>3, <1>4, <1>5, <1>6, <1>7, SameConstants DEF Atomic!Collect, seen
<1> QED
  BY <1>1, <1>8 DEF Atomic!Next

(* The end of a call or of a step of GC, as it is seen. *)
LEMMA SeenEnded ==
  ASSUME IInv, NEW c \in Clients, call[c].pc \in {"begin", "commit"}, NEW out \in GoodOut
  PROVE  /\ call[c].op.kind # "reclaim" =>
              /\ Seen(call[c]) = Pending(call[c].op, call[c].since)
              /\ Seen(Ended(call[c], out)) = Done(call[c].op, call[c].since, out)
         /\ call[c].op.kind = "reclaim" =>
              Seen(call[c]) = Quiet /\ Seen(Ended(call[c], out)) = Quiet
<1>1. call[c] \in GoodCall
  BY CallFields DEF IInv
<1>2. PICK r : r = Ended(call[c], out)
  OBVIOUS
<1>3. /\ r \in GoodCall /\ r.op = call[c].op /\ r.since = call[c].since /\ r.out = out
      /\ call[c].op.kind # "reclaim" => r.pc = "return"
  BY <1>1, <1>2, CallRecords
<1> QED
  BY <1>1, <1>2, <1>3, SeenCalls

(* A transaction that ends without a write: a read, an error, a failure. *)
LEMMA FailStep ==
  ASSUME IInv, NEW c \in Clients, call[c].pc \in {"begin", "commit"},
         NEW e \in {"conflict", "storage"}, UNCHANGED <<now, recs>>,
         call' = [call EXCEPT ![c] = Ended(call[c], Fails(e))]
  PROVE  Atomic!Next \/ UNCHANGED seen
<1>1. Fails(e) \in GoodOut
  BY Constants DEF Errors
<1>2. call[c].op \in GoodOp /\ call[c].since \in Nat
  BY CallFields DEF IInv
<1>3. CASE call[c].op.kind = "reclaim"
  BY <1>1, <1>3, SeenEnded, Unseen DEF IInv
<1>4. CASE call[c].op.kind # "reclaim"
  <2>1. seen[c] = Pending(call[c].op, call[c].since)
    BY <1>1, <1>4, SeenEnded DEF seen
  <2>2. seen' = [seen EXCEPT ![c] = Done(call[c].op, call[c].since, Fails(e))]
    BY <1>1, <1>4, SeenEnded, SeenStep DEF IInv
  <2> QED
    BY <1>2, <2>1, <2>2, AtomicSteps DEF IInv
<1> QED
  BY <1>3, <1>4

(* Every step of a client is a step of the atomic store, or none. *)
LEMMA ClientRefines ==
  ASSUME IInv, NEW c \in Clients, ClientStep(c)
  PROVE  Atomic!Next \/ UNCHANGED <<now, recs, seen>>
<1>0. /\ call[c] \in GoodCall /\ call[c].op \in GoodOp /\ call[c].since \in Nat
      /\ call[c].out \in GoodOut /\ now \in Nat /\ TypeInv
  BY CallFields DEF IInv, TypeInv
<1>1. CASE Invoke(c)
  <2>1. PICK op \in Ops : call' = [call EXCEPT ![c] = Start(op, {})]
    BY <1>1 DEF Invoke
  <2>2. op \in GoodOp /\ op.kind # "reclaim"
    BY OpsAssumption DEF GoodOp
  <2>3. PICK r : r = Start(op, {})
    OBVIOUS
  <2>4. r \in GoodCall /\ r.pc = "begin" /\ r.op = op /\ r.since = now
    BY <2>2, <2>3, <1>0, StartCall
  <2>5. Seen(r) = Pending(op, now)
    BY <2>2, <2>4, SeenCalls
  <2>6. seen' = [seen EXCEPT ![c] = Pending(op, now)]
    BY <2>1, <2>3, <2>5, <1>0, SeenStep
  <2>7. Seen(call[c]) = Quiet
    BY <1>0, <1>1, SeenCalls DEF Invoke
  <2>8. seen[c].pc = "idle"
    BY <2>7 DEF seen, Quiet
  <2>9. Atomic!Invoke(c)
    BY <2>6, <2>8, <1>1, SameConstants DEF Atomic!Invoke, Invoke, Pending, seen
  <2> QED
    BY <2>9 DEF Atomic!Next
<1>2. CASE Begin(c)
  <2>1. PICK out : out = Callback(call[c].op, recs[call[c].op.key], now)
    OBVIOUS
  <2>2. /\ call[c].pc = "begin" /\ UNCHANGED <<now, recs, last>>
        /\ call' = [call EXCEPT ![c] =
                      IF out.writes THEN Wrote(call[c], out) ELSE Ended(call[c], out)]
    BY <1>2, <2>1 DEF Begin
  <2>3. out \in GoodOut
    BY <2>1, <1>0, CallbackEffects, CallFields DEF Effects
  <2>4. CASE out.writes
    <3>1. PICK r : r = Wrote(call[c], out)
      OBVIOUS
    <3>2. /\ r \in GoodCall /\ r.pc = "commit" /\ r.op = call[c].op
          /\ r.since = call[c].since
      BY <3>1, <2>3, <1>0, CallRecords
    <3>3. Seen(r) = Seen(call[c])
      BY <3>2, <2>2, <1>0, SeenCalls
    <3>4. call' = [call EXCEPT ![c] = r]
      BY <2>2, <2>4, <3>1
    <3> QED
      BY <3>3, <3>4, <2>2, <1>0, Unseen
  <2>5. CASE ~out.writes /\ call[c].op.kind = "reclaim"
    <3>1. call' = [call EXCEPT ![c] = Ended(call[c], out)]
      BY <2>2, <2>5
    <3> QED
      BY <3>1, <2>2, <2>3, <2>5, <1>0, SeenEnded, Unseen
  <2>6. CASE ~out.writes /\ call[c].op.kind # "reclaim"
    <3>1. call' = [call EXCEPT ![c] = Ended(call[c], out)]
      BY <2>2, <2>6
    <3>2. seen[c] = Pending(call[c].op, call[c].since)
      BY <2>2, <2>3, <2>6, SeenEnded DEF seen
    <3>3. seen' = [seen EXCEPT ![c] = Done(call[c].op, call[c].since, out)]
      <4>1. Seen(Ended(call[c], out)) = Done(call[c].op, call[c].since, out)
        BY <2>2, <2>3, <2>6, SeenEnded
      <4>2. seen' = [seen EXCEPT ![c] = Seen(Ended(call[c], out))]
        BY <3>1, <1>0, SeenStep
      <4> QED
        BY <4>1, <4>2
    <3>4. now \in call[c].since..now
      BY <2>2, <1>0 DEF IInv, CallsInv, CommitInv
    <3> QED
      BY <3>2, <3>3, <3>4, <2>1, <2>2, <2>6, <1>0, AtomicSteps
  <2> QED
    BY <2>4, <2>5, <2>6
<1>3. CASE Commit(c)
  <2>1. PICK done : done = Ended(call[c], call[c].out)
    OBVIOUS
  <2>2. call[c].pc = "commit" /\ ~call[c].stale /\ Land(c, done) /\ UNCHANGED now
    BY <1>3, <2>1 DEF Commit, Conflicts
  <2>3. CASE call[c].op.kind = "reclaim"
    BY <2>1, <2>2, <2>3, <1>0, SeenEnded, CollectStep
  <2>4. CASE call[c].op.kind # "reclaim"
    <3>1. PICK t \in call[c].since..now :
            /\ call[c].out = Callback(call[c].op, recs[call[c].op.key], t)
            /\ call[c].out.writes
      BY <2>2, Writing
    <3>2. seen[c] = Pending(call[c].op, call[c].since)
      BY <2>2, <2>4, <1>0, SeenEnded DEF seen
    <3>3. seen' = [seen EXCEPT ![c] = Done(call[c].op, call[c].since, call[c].out)]
      BY <2>1, <2>2, <2>4, <1>0, SeenEnded, SeenLand
    <3>4. recs' = [recs EXCEPT ![call[c].op.key] = call[c].out.rec]
      BY <2>2 DEF Land
    <3> QED
      BY <3>1, <3>2, <3>3, <3>4, <2>2, <1>0, AtomicSteps
  <2> QED
    BY <2>3, <2>4
<1>4. CASE CommitUnreported(c)
  <2>1. PICK done : done = Ended(call[c], Fails("storage"))
    OBVIOUS
  <2>2. call[c].pc = "commit" /\ ~call[c].stale /\ Land(c, done) /\ UNCHANGED now
    BY <1>4, <2>1 DEF CommitUnreported, Conflicts
  <2>3. Fails("storage") \in GoodOut
    BY Constants DEF Errors
  <2>4. CASE call[c].op.kind = "reclaim"
    BY <2>1, <2>2, <2>3, <2>4, SeenEnded, CollectStep
  <2>5. CASE call[c].op.kind # "reclaim"
    <3>1. PICK t \in call[c].since..now :
            /\ call[c].out = Callback(call[c].op, recs[call[c].op.key], t)
            /\ call[c].out.writes
      BY <2>2, Writing
    <3>2. seen[c] = Pending(call[c].op, call[c].since)
      BY <2>2, <2>3, <2>5, SeenEnded DEF seen
    <3>3. seen' = [seen EXCEPT ![c] = Done(call[c].op, call[c].since, Fails("storage"))]
      BY <2>1, <2>2, <2>3, <2>5, <1>0, SeenEnded, SeenLand
    <3>4. recs' = [recs EXCEPT ![call[c].op.key] = call[c].out.rec]
      BY <2>2 DEF Land
    <3> QED
      BY <3>1, <3>2, <3>3, <3>4, <2>2, <1>0, AtomicSteps
  <2> QED
    BY <2>4, <2>5
<1>5. CASE Conflict(c)
  <2>1. /\ call[c].pc = "commit" /\ UNCHANGED <<now, recs, last>>
        /\ call' = [call EXCEPT ![c] = IF MayRetry(call[c].attempts) THEN Again(call[c])
                                       ELSE Ended(call[c], Fails("conflict"))]
    BY <1>5 DEF Conflict
  <2>2. CASE MayRetry(call[c].attempts)
    <3>1. PICK r : r = Again(call[c])
      OBVIOUS
    <3>2. r \in GoodCall /\ r.pc = "begin" /\ r.op = call[c].op /\ r.since = call[c].since
      BY <3>1, <2>2, <1>0, NoFailure, CallRecords
    <3>3. Seen(r) = Seen(call[c])
      BY <3>2, <2>1, <1>0, SeenCalls
    <3>4. call' = [call EXCEPT ![c] = r]
      BY <3>1, <2>1, <2>2
    <3> QED
      BY <3>3, <3>4, <2>1, <1>0, Unseen
  <2>3. CASE ~MayRetry(call[c].attempts)
    <3>1. call' = [call EXCEPT ![c] = Ended(call[c], Fails("conflict"))]
      BY <2>1, <2>3
    <3> QED
      BY <3>1, <2>1, FailStep
  <2> QED
    BY <2>2, <2>3
<1>6. CASE StoreFails(c)
  <2>1. /\ call[c].pc \in {"begin", "commit"} /\ UNCHANGED <<now, recs, last>>
        /\ call' = [call EXCEPT ![c] = Ended(call[c], Fails("storage"))]
    BY <1>6 DEF StoreFails
  <2> QED
    BY <2>1, FailStep
<1>7. Seen(Idle) = Quiet
  BY IdleCall, SeenCalls
<1>8. CASE Return(c)
  <2>1. seen' = [seen EXCEPT ![c] = Quiet] /\ UNCHANGED <<now, recs>>
    BY <1>0, <1>7, <1>8, SeenStep DEF Return
  <2>2. CASE call[c].op.kind = "reclaim"
    <3>1. Seen(call[c]) = Quiet
      BY <2>2, <1>0, SeenCalls
    <3> QED
      BY <3>1, <2>1 DEF seen
  <2>3. CASE call[c].op.kind # "reclaim"
    <3>1. Seen(call[c]) = Done(call[c].op, call[c].since, call[c].out)
      BY <2>3, <1>0, <1>8, SeenCalls DEF Return
    <3>2. seen[c].pc = "done"
      BY <3>1 DEF seen, Done
    <3>3. Atomic!Return(c)
      BY <3>2, <2>1, SameConstants DEF Atomic!Return, seen
    <3> QED
      BY <3>3 DEF Atomic!Next
  <2> QED
    BY <2>2, <2>3
<1>9. CASE GCDone(c)
  <2>1. Seen(call[c]) = Quiet
    BY <1>0, <1>9, SeenCalls DEF GCDone
  <2> QED
    BY <2>1, <1>0, <1>7, <1>9, Unseen DEF GCDone
<1>10. CASE GCScan(c)
  <2>1. PICK r : r = Scanned({k \in Keys : Reclaimable(recs[k], now - Retention)}, now - Retention)
    OBVIOUS
  <2>2. r \in GoodCall /\ r.pc = "gc"
    BY <2>1, <1>0, RetentionAssumption, IdleCall
  <2>3. Seen(r) = Quiet /\ Seen(call[c]) = Quiet
    BY <2>2, <1>0, <1>10, SeenCalls DEF GCScan
  <2> QED
    BY <2>1, <2>3, <1>0, <1>10, Unseen DEF GCScan
<1>11. CASE GCNext(c)
  <2>1. PICK k \in call[c].todo :
          call' = [call EXCEPT ![c] = Start(ReclaimOp(k, call[c].op.limit), call[c].todo \ {k})]
    BY <1>11 DEF GCNext
  <2>2. PICK op, S, r :
          op = ReclaimOp(k, call[c].op.limit) /\ S = call[c].todo \ {k} /\ r = Start(op, S)
    OBVIOUS
  <2>3. op \in GoodOp /\ op.kind = "reclaim" /\ S \in SUBSET Keys
    BY <2>2, IdleCall, CallFields DEF IInv
  <2>4. r \in GoodCall /\ r.op = op
    BY <2>2, <2>3, <1>0, StartCall
  <2>5. Seen(r) = Quiet /\ Seen(call[c]) = Quiet
    BY <2>3, <2>4, <1>0, <1>11, SeenCalls DEF GCNext
  <2> QED
    BY <2>1, <2>2, <2>5, <1>0, <1>11, Unseen DEF GCNext
<1> QED
  BY <1>1, <1>2, <1>3, <1>4, <1>5, <1>6, <1>8, <1>9, <1>10, <1>11 DEF ClientStep

(* The store of cas.go is linearizable: it implements the atomic one.      *)
THEOREM StoreIsLinearizable == Spec => Linearizable
<1>1. Init => Atomic!Init
  <2> SUFFICES ASSUME Init PROVE Atomic!Init
    OBVIOUS
  <2>1. Seen(Idle) = Quiet
    BY IdleCall, SeenCalls
  <2> QED
    BY <2>1, SameConstants DEF Init, Atomic!Init
<1>2. IInv /\ [Next]_vars => [Atomic!Next]_(Atomic!atomicVars)
  <2> SUFFICES ASSUME IInv, [Next]_vars
               PROVE  Atomic!Next \/ UNCHANGED Atomic!atomicVars
    OBVIOUS
  <2>0. UNCHANGED <<now, recs, seen>> => UNCHANGED Atomic!atomicVars
    BY DEF Atomic!atomicVars, seen
  <2>1. CASE Tick
    BY <2>1 DEF Tick, Atomic!Next, Atomic!Tick
  <2>2. CASE \E c \in Clients : ClientStep(c)
    BY <2>0, <2>2, ClientRefines
  <2>3. CASE UNCHANGED vars
    BY <2>0, <2>3 DEF vars, seen
  <2> QED
    BY <2>1, <2>2, <2>3 DEF Next
<1> QED
  BY <1>1, <1>2, Invariance, PTL DEF Spec, Linearizable, Atomic!Spec
=============================================================================
