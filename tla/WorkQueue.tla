----------------------------- MODULE WorkQueue ------------------------------
(***************************************************************************)
(* What the package queue promises (docs/reference.md, "Queue"): a table   *)
(* of jobs with their bodies, in which every change is one step.  A job is *)
(* there as a whole or not at all; a worker gets it under a token that     *)
(* nobody else has; only the worker whose token is in the table moves it;  *)
(* it is taken back only when its lease has run out; and it leaves the     *)
(* table only when such a worker finishes it, for good.                    *)
(***************************************************************************)
EXTENDS Naturals

CONSTANTS
  IDs,         \* names of jobs
  Clients,     \* those who enqueue and work; a client is its own body
  Keys,        \* one for each job that may ever be enqueued
  MaxRetries,  \* how often a job may be delivered
  MaxNow       \* the end of time

VARIABLES
  now,    \* the clock
  fresh,  \* how many identifiers were drawn
  table,  \* the job of each name
  lease,  \* the name and the token that each worker got last
  used    \* the keys of all jobs that were ever in the table

workVars == <<now, fresh, used, table, lease>>

NoJob   == [state |-> "none"]
NoLease == [id |-> 0, token |-> 0]

Job(key, body, max) ==
  [state |-> "pending", key |-> key, body |-> body, attempts |-> 0, max |-> max,
   until |-> 0, token |-> 0]

(* The same job, at another point of its life. *)
Become(j, state, attempts, until, token) ==
  [state |-> state, key |-> j.key, body |-> j.body, attempts |-> attempts, max |-> j.max,
   until |-> until, token |-> token]

Delivered(j, until, token) == Become(j, "claimed", j.attempts + 1, until, token)
Extended(j, until)         == Become(j, "claimed", j.attempts, until, j.token)
Buried(j)                  == Become(j, "dead", j.attempts, 0, 0)
Requeued(j)                == Become(j, "pending", 0, 0, j.token)

(* After its last delivery a job goes to the dead letters. *)
Back(j) == IF j.attempts >= j.max THEN Buried(j) ELSE Become(j, "pending", j.attempts, 0, 0)

Enqueue(c) ==
  /\ UNCHANGED <<now, fresh>>
  /\ \E key \in Keys \ used :
       /\ used' = used \cup {key}
       /\ \E id \in IDs, max \in MaxRetries :
            /\ table[id] = NoJob
            /\ table' = [table EXCEPT ![id] = Job(key, c, max)]
  /\ UNCHANGED lease

Deliver(c) ==
  /\ fresh' = fresh + 1
  /\ UNCHANGED <<now, used>>
  /\ \E id \in IDs, until \in 0..MaxNow :
       /\ table[id].state = "pending"
       /\ table[id].attempts < table[id].max \/ table[id].attempts = 0
       /\ table' = [table EXCEPT ![id] = Delivered(table[id], until, fresh + 1)]
       /\ lease' = [lease EXCEPT ![c] = [id |-> id, token |-> fresh + 1]]

(* The worker's token is the one in the table. *)
Holds(c) ==
  /\ lease[c].id \in IDs
  /\ table[lease[c].id].state = "claimed"
  /\ table[lease[c].id].token = lease[c].token

Moved(c, j) == table' = [table EXCEPT ![lease[c].id] = j]

(* What a worker does with its job: it asks for more time, gives the job   *)
(* back, gives it up or finishes it.                                       *)
Extend(c)   == \E until \in 0..MaxNow : Moved(c, Extended(table[lease[c].id], until))
GiveBack(c) == Moved(c, Back(table[lease[c].id]))
Bury(c)     == Moved(c, Buried(table[lease[c].id]))
Finish(c)   == Moved(c, NoJob)

Act(c) ==
  /\ UNCHANGED <<now, fresh, used>>
  /\ Holds(c)
  /\ Extend(c) \/ GiveBack(c) \/ Bury(c) \/ Finish(c)
  /\ UNCHANGED lease

Requeue ==
  /\ UNCHANGED <<now, fresh, used>>
  /\ \E id \in IDs :
       /\ table[id].state = "dead"
       /\ table' = [table EXCEPT ![id] = Requeued(table[id])]
  /\ UNCHANGED lease

(* Jobs whose leases have run out go back, several at a time. *)
TakeBack ==
  /\ UNCHANGED <<now, fresh, used>>
  /\ \E gone \in SUBSET {id \in IDs : table[id].state = "claimed" /\ table[id].until <= now} :
       table' = [id \in IDs |-> IF id \in gone THEN Back(table[id]) ELSE table[id]]
  /\ UNCHANGED lease

(* Workers crash. *)
Forget ==
  /\ UNCHANGED <<now, fresh, used, table>>
  /\ \E lost \in SUBSET Clients :
       lease' = [c \in Clients |-> IF c \in lost THEN NoLease ELSE lease[c]]

(* An identifier that no worker gets. *)
Draw == fresh' = fresh + 1 /\ UNCHANGED <<now, used, table, lease>>

Tick == now' = now + 1 /\ UNCHANGED <<fresh, used, table, lease>>

Init ==
  /\ now = 1
  /\ fresh = 0
  /\ table = [id \in IDs |-> NoJob]
  /\ lease = [c \in Clients |-> NoLease]
  /\ used = {}

Next ==
  \/ TakeBack \/ Requeue \/ Forget \/ Draw \/ Tick
  \/ \E c \in Clients : Enqueue(c) \/ Deliver(c) \/ Act(c)

Spec == Init /\ [][Next]_workVars
=============================================================================
