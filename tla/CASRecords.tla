----------------------------- MODULE CASRecords -----------------------------
(***************************************************************************)
(* The records of cas/cas.go and what the callback of each operation makes *)
(* of the record it reads: the sequential meaning of the store, used by    *)
(* the atomic store (AtomicCAS) and by the transactional one (CAS).        *)
(* Times are natural numbers and 0 is Go's zero time.                      *)
(***************************************************************************)
EXTENDS Integers

CONSTANTS
  Keys,               \* user keys
  Values,             \* the values of records
  NoValue,            \* no value: of a tombstone, and of an update function that fails
  AllowResurrection   \* the option WithAllowResurrection

ASSUME KeysAssumption == Keys # {}
ASSUME ValuesAssumption == NoValue \notin Values
ASSUME ResurrectionAssumption == AllowResurrection \in BOOLEAN

States == {"absent", "live", "tombstone"}

Record == [state: States, value: Values \cup {NoValue}, revision: Nat,
           createdAt: Nat, updatedAt: Nat, deletedAt: Nat]

(* The KV has nothing under the key. *)
Absent == [state |-> "absent", value |-> NoValue, revision |-> 0,
           createdAt |-> 0, updatedAt |-> 0, deletedAt |-> 0]

Kinds == {"none", "create", "get", "swap", "update", "delete", "reclaim"}

(* A call.  limit is the cutoff of GC, for the transaction that reclaims a *)
(* tombstone.                                                              *)
Op == [kind: Kinds, key: Keys, value: Values \cup {NoValue}, expect: Nat,
       fn: [Values -> Values \cup {NoValue}], limit: Int]

(* What an idle client holds. *)
NoOp == [kind |-> "none", key |-> CHOOSE k \in Keys : TRUE, value |-> NoValue,
         expect |-> 0, fn |-> [v \in Values |-> NoValue], limit |-> 0]

(* In the code ErrConflict is ErrRevisionMismatch; here "conflict" is the  *)
(* one that transact returns after its last attempt, "mismatch" the one    *)
(* that a callback returns.                                                *)
Errors == {"nil", "exists", "deleted", "not found", "mismatch", "rejected",
           "conflict", "storage"}

(* What a callback returns, the record it leaves, whether it wrote it. *)
Outcome == [err: Errors, rec: Record, writes: BOOLEAN]

Fails(err)  == [err |-> err, rec |-> Absent, writes |-> FALSE]
Keeps(rec)  == [err |-> "nil", rec |-> rec, writes |-> FALSE]
Writes(rec) == [err |-> "nil", rec |-> rec, writes |-> TRUE]

NewRecord(value, revision, createdAt, t) ==
  [state |-> "live", value |-> value, revision |-> revision,
   createdAt |-> createdAt, updatedAt |-> t, deletedAt |-> 0]

Create(r, value, t) ==
  CASE r.state = "absent" -> Writes(NewRecord(value, 1, t, t))
    [] r.state = "live"   -> Fails("exists")
    [] r.state = "tombstone" ->
         IF AllowResurrection
         THEN Writes(NewRecord(value, r.revision + 1, r.createdAt, t))
         ELSE Fails("deleted")

Get(r) == IF r.state = "live" THEN Keeps(r) ELSE Fails("not found")

Revised(r, value, t) ==
  [r EXCEPT !.value = value, !.revision = r.revision + 1, !.updatedAt = t]

(* A write of the value the record already has does not bump the revision. *)
Set(r, value, t) == IF r.value = value THEN Keeps(r) ELSE Writes(Revised(r, value, t))

Swap(r, expect, value, t) ==
  IF r.state # "live" THEN Fails("not found")
  ELSE IF r.revision # expect THEN Fails("mismatch") ELSE Set(r, value, t)

(* fn[v] = NoValue: fn returned an error, or a value that is too large. *)
Update(r, fn, t) ==
  IF r.state # "live" THEN Fails("not found")
  ELSE IF fn[r.value] = NoValue THEN Fails("rejected") ELSE Set(r, fn[r.value], t)

Buried(r, t) ==
  [r EXCEPT !.state = "tombstone", !.value = NoValue, !.revision = r.revision + 1,
            !.updatedAt = t, !.deletedAt = t]

Delete(r, expect, t) ==
  IF r.state # "live" THEN Fails("not found")
  ELSE IF expect # 0 /\ r.revision # expect THEN Fails("mismatch") ELSE Writes(Buried(r, t))

(* A GC that does not look again at when the tombstone was made. *)
ReclaimableByState(r, limit) == r.state = "tombstone"

(* The test of GC, in its scan and again in its transactions. *)
Reclaimable(r, limit) == r.state = "tombstone" /\ r.deletedAt # 0 /\ r.deletedAt < limit

Reclaim(r, limit) == IF Reclaimable(r, limit) THEN Writes(Absent) ELSE Keeps(r)

(* The callback of op, run on record r at time t. *)
Callback(op, r, t) ==
  CASE op.kind = "create"  -> Create(r, op.value, t)
    [] op.kind = "get"     -> Get(r)
    [] op.kind = "swap"    -> Swap(r, op.expect, op.value, t)
    [] op.kind = "update"  -> Update(r, op.fn, t)
    [] op.kind = "delete"  -> Delete(r, op.expect, t)
    [] op.kind = "reclaim" -> Reclaim(r, op.limit)
    [] OTHER               -> Keeps(r)
=============================================================================
