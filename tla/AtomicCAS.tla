----------------------------- MODULE AtomicCAS ------------------------------
(***************************************************************************)
(* What the package cas promises ("CompareAndSwap, Update, and Delete are  *)
(* linearizable per key"): every call takes effect in one step between its *)
(* invocation and its return, with the meaning CASRecords gives it, and    *)
(* returns what that step saw.  Only a tombstone older than the retention  *)
(* disappears.                                                             *)
(***************************************************************************)
EXTENDS CASRecords

CONSTANTS Clients, Ops, Retention

VARIABLES
  now,     \* the clock
  recs,    \* the record of every key
  client   \* the call of each client: since is when it was invoked

atomicVars == <<now, recs, client>>

Quiet == [pc |-> "idle", op |-> NoOp, since |-> 0, result |-> Fails("nil")]

Init ==
  /\ now = 1
  /\ recs = [k \in Keys |-> Absent]
  /\ client = [c \in Clients |-> Quiet]

Invoke(c) ==
  /\ client[c].pc = "idle"
  /\ \E op \in Ops :
       client' = [client EXCEPT ![c] =
                    [pc |-> "pending", op |-> op, since |-> now, result |-> Fails("nil")]]
  /\ UNCHANGED <<now, recs>>

Answer(c, result) ==
  client' = [client EXCEPT ![c] =
               [pc |-> "done", op |-> client[c].op, since |-> client[c].since,
                result |-> result]]

(* The call takes effect. *)
Effect(c) ==
  /\ client[c].pc = "pending"
  /\ \E t \in client[c].since..now :
       LET key == client[c].op.key
           out == Callback(client[c].op, recs[key], t)
       IN  /\ recs' = IF out.writes THEN [recs EXCEPT ![key] = out.rec] ELSE recs
           /\ Answer(c, out)
  /\ UNCHANGED now

(* The call returns ErrConflict or the error of a store without an effect. *)
GiveUp(c) ==
  /\ client[c].pc = "pending"
  /\ \E err \in {"conflict", "storage"} : Answer(c, Fails(err))
  /\ UNCHANGED <<now, recs>>

(* The store takes the write and reports an error all the same. *)
EffectUnreported(c) ==
  /\ client[c].pc = "pending"
  /\ \E t \in client[c].since..now :
       LET key == client[c].op.key
           out == Callback(client[c].op, recs[key], t)
       IN  /\ out.writes
           /\ recs' = [recs EXCEPT ![key] = out.rec]
  /\ Answer(c, Fails("storage"))
  /\ UNCHANGED now

Return(c) ==
  /\ client[c].pc = "done"
  /\ client' = [client EXCEPT ![c] = Quiet]
  /\ UNCHANGED <<now, recs>>

(* GC, at any time: a tombstone older than the retention disappears. *)
Collect(k) ==
  /\ Retention > 0
  /\ recs[k].state = "tombstone"
  /\ recs[k].deletedAt + Retention < now
  /\ recs' = [recs EXCEPT ![k] = Absent]
  /\ UNCHANGED <<now, client>>

Tick == now' = now + 1 /\ UNCHANGED <<recs, client>>

Next ==
  \/ \E c \in Clients :
       Invoke(c) \/ Effect(c) \/ GiveUp(c) \/ EffectUnreported(c) \/ Return(c)
  \/ \E k \in Keys : Collect(k)
  \/ Tick

Spec == Init /\ [][Next]_atomicVars
=============================================================================
