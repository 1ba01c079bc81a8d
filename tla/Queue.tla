------------------------------- MODULE Queue -------------------------------
(***************************************************************************)
(* The durable work queue of queue/queue.go: job records in a transaction- *)
(* al KV store, payload bodies in a BlobStore, and the calls that move     *)
(* both.  A call is cut into one action per access to a store: every       *)
(* q.transaction(...) is one serializable, all-or-nothing step, every      *)
(* BlobStore call is one step that may fail, and steps of different        *)
(* callers, of the maintenance goroutines and of crashes interleave.       *)
(*                                                                         *)
(* Time is a natural number.  now starts at 1, so that 0 is Go's zero      *)
(* time.Time{}, and newID() (16 random bytes) is the next unused number,   *)
(* so that 0 is the empty lease token "".  A transaction reads the clock   *)
(* before it commits: it may act on a reading that is late by one of Lags. *)
(***************************************************************************)
EXTENDS Integers, FiniteSets

CONSTANTS
  IDs,             \* job IDs, numbers so that the tie-break on ID is an order
  Clients,         \* goroutines that call a queue; a client is its own body
  Queues,          \* Queue objects on the same stores, each in its own process
  QueueOf,         \* the Queue object each client calls
  NoBody,          \* what the BlobStore holds under a key that is not there
  LeaseDurations,  \* the lease lengths Claim and Renew may be asked for
  Delays,          \* the delays Enqueue and Retry may be asked for
  MaxRetries,      \* the values a job's MaxRetries may have
  Disturbances,    \* what may go wrong: "store", "crash", "close"
  Lags,            \* how late a transaction's reading of the clock may be
  MaxNow,          \* bound: the clock, and every time asked for, stops here
  MaxFresh         \* bound: newID() is called at most this often

ASSUME IDsAssumption == IDs \subseteq Nat \ {0}
ASSUME ClientsAssumption == NoBody \notin Clients /\ QueueOf \in [Clients -> Queues]
ASSUME TimesAssumption ==
  /\ LeaseDurations \subseteq Nat
  /\ Delays \subseteq Nat
  /\ Lags \subseteq Nat
  /\ MaxRetries \subseteq Nat
ASSUME DisturbancesAssumption == Disturbances \subseteq {"store", "crash", "close"}
ASSUME BoundsAssumption == MaxNow \in Nat \ {0} /\ MaxFresh \in Nat

VARIABLES
  now,        \* the wall clock
  fresh,      \* how many identifiers newID() has handed out
  jobs,       \* KV: the job record of each ID
  blobs,      \* BlobStore: the body under each payload key
  call,       \* what each client is in the middle of
  handle,     \* the *Job each client holds
  reaper,     \* the maintenance goroutine of each Queue object
  lifecycle,  \* each Queue object: open, closing (Close waits), closed
  published,  \* history: payload keys that ever were in a job record
  acked       \* history: the lease tokens that completed each payload key's job

storeVars   == <<jobs, blobs>>
historyVars == <<published, acked>>
vars == <<now, fresh, jobs, blobs, call, handle, reaper, lifecycle, published, acked>>

ClockReadings == {t \in 1..now : now - t \in Lags}

-----------------------------------------------------------------------------
(* Data *)

PayloadKeys == IDs \X (1..MaxFresh)
NoKey       == <<0, 0>>

(* A payload key that ignores newID(): the bug PayloadKey's suffix avoids. *)
PayloadKeyWithoutNonce(id, n) == <<id, 1>>

PayloadKey(id, n) == <<id, n>>

JobStates == {"absent", "pending", "claimed", "dead", "completed"}

JobMeta == [state: JobStates, payload: PayloadKeys \cup {NoKey}, sha: Clients \cup {NoBody},
            attempts: Nat, max: Nat, availableAt: Nat, createdAt: Nat,
            leaseUntil: Nat, token: Nat]

(* The KV has no record under the job's key. *)
Absent == [state |-> "absent", payload |-> NoKey, sha |-> NoBody, attempts |-> 0,
           max |-> 0, availableAt |-> 0, createdAt |-> 0, leaseUntil |-> 0, token |-> 0]

Calls == [pc: {"idle", "upload", "publish", "discard", "claim", "requeue", "delete", "remove"},
          id: IDs \cup {0}, key: PayloadKeys \cup {NoKey}, max: Nat,
          availableAt: Nat, createdAt: Nat]

(* A call that has begun, about the job id, at time t if it needs one. *)
Begun(pc, id, t) ==
  [pc |-> pc, id |-> id, key |-> NoKey, max |-> 0, availableAt |-> t, createdAt |-> 0]

Idle == Begun("idle", 0, 0)

(* released: the holder itself gave the job up (Retry, Dead or Complete).  *)
Handles == [id: IDs \cup {0}, token: Nat, payload: PayloadKeys \cup {NoKey},
            sha: Clients \cup {NoBody}, until: Nat, released: BOOLEAN]

NoHandle == [id |-> 0, token |-> 0, payload |-> NoKey, sha |-> NoBody, until |-> 0,
             released |-> FALSE]

Exists(m) == m.state # "absent"

(* A job record as the transaction of Enqueue first writes it. *)
NewJob(c) == [state |-> "pending", payload |-> call[c].key, sha |-> c, attempts |-> 0,
              max |-> call[c].max, availableAt |-> call[c].availableAt,
              createdAt |-> call[c].createdAt, leaseUntil |-> 0, token |-> 0]

(* What the transactions of Claim, Renew, Retry, Dead and RequeueDead make *)
(* of a record (the first one counts the attempts down instead of up).     *)
ClaimedCountingDown(m, until, token) ==
  [m EXCEPT !.state = "claimed", !.attempts = m.attempts - 1,
            !.leaseUntil = until, !.token = token]

Claimed(m, until, token) ==
  [m EXCEPT !.state = "claimed", !.attempts = m.attempts + 1,
            !.leaseUntil = until, !.token = token]

Renewed(m, until) == [m EXCEPT !.leaseUntil = until]

Returned(m, at) ==
  [m EXCEPT !.state = "pending", !.availableAt = at, !.leaseUntil = 0, !.token = 0]

Killed(m) == [m EXCEPT !.state = "dead", !.leaseUntil = 0, !.token = 0]

Requeued(m, at) ==
  [m EXCEPT !.state = "pending", !.attempts = 0, !.availableAt = at, !.leaseUntil = 0]

ExhaustedOffByOne(m) == m.attempts > m.max
Exhausted(m)         == m.attempts >= m.max

(* A delivery that failed: the job goes back, or to the dead letters. *)
GivenBack(m, at) == IF Exhausted(m) THEN Killed(m) ELSE Returned(m, at)

(* A claim that never checks the token: whoever holds a Job may act on it. *)
HoldsLeaseAnyToken(m, h, t) == m.state = "claimed" /\ m.leaseUntil > t

(* The checks of transition and of Complete's first transaction, at the    *)
(* reading t of the clock.                                                 *)
HoldsLease(m, h, t) ==
  /\ m.state = "claimed"
  /\ m.token # 0
  /\ m.token = h.token
  /\ m.leaseUntil > t

-----------------------------------------------------------------------------
(* Enqueue *)

(* Enqueue: the queue is open and the first Get finds no job; a job that   *)
(* is found returns created = false and changes nothing.                   *)
EnqueueBegin(c) ==
  /\ call[c].pc = "idle"
  /\ lifecycle[QueueOf[c]] = "open"
  /\ \E id \in IDs :
       /\ ~Exists(jobs[id])
       /\ call' = [call EXCEPT ![c] = Begun("upload", id, 0)]
  /\ UNCHANGED <<now, fresh, storeVars, handle, reaper, lifecycle, historyVars>>

(* The body is uploaded under a key nobody else uses, then the clock is    *)
(* read for the record that the next step publishes.                       *)
UploadPayload(c) ==
  /\ call[c].pc = "upload"
  /\ fresh < MaxFresh
  /\ LET key == PayloadKey(call[c].id, fresh + 1) IN
       /\ blobs' = [blobs EXCEPT ![key] = c]
       /\ \E delay \in Delays, max \in MaxRetries :
            /\ now + delay <= MaxNow
            /\ call' = [call EXCEPT ![c] =
                          [pc |-> "publish", id |-> call[c].id, key |-> key, max |-> max,
                           availableAt |-> now + delay, createdAt |-> now]]
  /\ fresh' = fresh + 1
  /\ UNCHANGED <<now, jobs, handle, reaper, lifecycle, historyVars>>

(* BlobStore.Put returns an error; the object may have landed all the same. *)
UploadFails(c) ==
  /\ "store" \in Disturbances
  /\ call[c].pc = "upload"
  /\ fresh < MaxFresh
  /\ blobs' \in {blobs, [blobs EXCEPT ![PayloadKey(call[c].id, fresh + 1)] = c]}
  /\ fresh' = fresh + 1
  /\ call' = [call EXCEPT ![c] = Idle]
  /\ UNCHANGED <<now, jobs, handle, reaper, lifecycle, historyVars>>

(* The publishing transaction commits: the job becomes visible. *)
Publish(c) ==
  /\ call[c].pc = "publish"
  /\ ~Exists(jobs[call[c].id])
  /\ jobs' = [jobs EXCEPT ![call[c].id] = NewJob(c)]
  /\ published' = published \cup {call[c].key}
  /\ call' = [call EXCEPT ![c] = Idle]
  /\ UNCHANGED <<now, fresh, blobs, handle, reaper, lifecycle, acked>>

(* The publishing transaction finds the job (errJobExists) or returns an   *)
(* error; either way the uploaded body is discarded next.                  *)
PublishRejected(c) ==
  /\ call[c].pc = "publish"
  /\ Exists(jobs[call[c].id]) \/ "store" \in Disturbances
  /\ call' = [call EXCEPT ![c].pc = "discard"]
  /\ UNCHANGED <<now, fresh, storeVars, handle, reaper, lifecycle, historyVars>>

(* The Delete's error is ignored: the body may stay behind as an orphan. *)
DiscardPayload(c) ==
  /\ call[c].pc = "discard"
  /\ \/ blobs' = [blobs EXCEPT ![call[c].key] = NoBody]
     \/ "store" \in Disturbances /\ UNCHANGED blobs
  /\ call' = [call EXCEPT ![c] = Idle]
  /\ UNCHANGED <<now, fresh, jobs, handle, reaper, lifecycle, historyVars>>

-----------------------------------------------------------------------------
(* Claim *)

Candidates(t) == {id \in IDs : jobs[id].state = "pending" /\ jobs[id].availableAt <= t}

(* Claim order without the comparison of AvailableAt. *)
BeforeByIDOnly(i, j) == i < j

(* The order of Claim's sort: AvailableAt, then CreatedAt, then ID. *)
Before(i, j) ==
  \/ jobs[i].availableAt < jobs[j].availableAt
  \/ /\ jobs[i].availableAt = jobs[j].availableAt
     /\ \/ jobs[i].createdAt < jobs[j].createdAt
        \/ jobs[i].createdAt = jobs[j].createdAt /\ i < j

ClaimBegin(c) ==
  /\ call[c].pc = "idle"
  /\ lifecycle[QueueOf[c]] = "open"
  /\ call' = [call EXCEPT ![c].pc = "claim"]
  /\ UNCHANGED <<now, fresh, storeVars, handle, reaper, lifecycle, historyVars>>

(* Claim's transaction takes the first candidate and returns a new Job. *)
ClaimJob(c) ==
  /\ call[c].pc = "claim"
  /\ fresh < MaxFresh
  /\ \E t \in ClockReadings : \E id \in Candidates(t), lease \in LeaseDurations :
       /\ t + lease <= MaxNow
       /\ \A other \in Candidates(t) \ {id} : Before(id, other)
       /\ jobs' = [jobs EXCEPT ![id] = Claimed(@, t + lease, fresh + 1)]
       /\ handle' = [handle EXCEPT ![c] =
                       [id |-> id, token |-> fresh + 1, payload |-> jobs[id].payload,
                        sha |-> jobs[id].sha, until |-> t + lease,
                        released |-> FALSE]]
  /\ fresh' = fresh + 1
  /\ call' = [call EXCEPT ![c] = Idle]
  /\ UNCHANGED <<now, blobs, reaper, lifecycle, historyVars>>

(* ErrNoJob, or the transaction returned an error. *)
ClaimNothing(c) ==
  /\ call[c].pc = "claim"
  /\ \/ \E t \in ClockReadings : Candidates(t) = {}
     \/ "store" \in Disturbances
  /\ call' = [call EXCEPT ![c] = Idle]
  /\ UNCHANGED <<now, fresh, storeVars, handle, reaper, lifecycle, historyVars>>

-----------------------------------------------------------------------------
(* The methods of a Job.  None of them asks whether the queue is open.     *)
(* One that finds the lease gone, or whose transaction fails, returns an   *)
(* error and changes nothing: that is a stuttering step.                   *)

(* A client that can call a method of the Job it holds. *)
HasJob(c) == call[c].pc = "idle" /\ handle[c].id # 0

Held(c) == jobs[handle[c].id]

(* The new deadline is computed from a second reading of the clock.  There *)
(* is no limit to renewals but the bound on times.                         *)
Renew(c) ==
  /\ HasJob(c)
  /\ \E t, u \in ClockReadings, lease \in LeaseDurations :
       /\ t <= u
       /\ u + lease <= MaxNow
       /\ HoldsLease(Held(c), handle[c], t)
       /\ jobs' = [jobs EXCEPT ![handle[c].id] = Renewed(@, u + lease)]
       /\ handle' = [handle EXCEPT ![c].until = u + lease]
  /\ UNCHANGED <<now, fresh, blobs, call, reaper, lifecycle, historyVars>>

Retry(c) ==
  /\ HasJob(c)
  /\ \E t, u \in ClockReadings, delay \in Delays :
       /\ t <= u
       /\ u + delay <= MaxNow
       /\ HoldsLease(Held(c), handle[c], t)
       /\ jobs' = [jobs EXCEPT ![handle[c].id] = GivenBack(@, u + delay)]
  /\ handle' = [handle EXCEPT ![c].released = TRUE]
  /\ UNCHANGED <<now, fresh, blobs, call, reaper, lifecycle, historyVars>>

Dead(c) ==
  /\ HasJob(c)
  /\ \E t \in ClockReadings : HoldsLease(Held(c), handle[c], t)
  /\ jobs' = [jobs EXCEPT ![handle[c].id] = Killed(@)]
  /\ handle' = [handle EXCEPT ![c].released = TRUE]
  /\ UNCHANGED <<now, fresh, blobs, call, reaper, lifecycle, historyVars>>

(* Completing a job by dropping its record at once. *)
MarkCompletedByRemoving(m) == Absent

(* The record that Complete's first transaction writes: the token stays.   *)
MarkCompleted(m) == [m EXCEPT !.state = "completed", !.leaseUntil = 0]

(* Complete's first transaction by the current holder. *)
CompleteMark(c) ==
  /\ HasJob(c)
  /\ \E t \in ClockReadings : HoldsLease(Held(c), handle[c], t)
  /\ jobs' = [jobs EXCEPT ![handle[c].id] = MarkCompleted(@)]
  /\ acked' = [acked EXCEPT ![Held(c).payload] = @ \cup {handle[c].token}]
  /\ handle' = [handle EXCEPT ![c].released = TRUE]
  /\ call' = [call EXCEPT ![c].pc = "delete"]
  /\ UNCHANGED <<now, fresh, blobs, reaper, lifecycle, published>>

(* Complete's first transaction finds no record, or the job already        *)
(* completed with this token (a retried Complete): it goes on to cleanup.  *)
CompleteResume(c) ==
  /\ HasJob(c)
  /\ \/ ~Exists(Held(c))
     \/ Held(c).state = "completed" /\ Held(c).token = handle[c].token
  /\ call' = [call EXCEPT ![c].pc = "delete"]
  /\ UNCHANGED <<now, fresh, storeVars, handle, reaper, lifecycle, historyVars>>

CompleteDelete(c) ==
  /\ call[c].pc = "delete"
  /\ blobs' = [blobs EXCEPT ![handle[c].payload] = NoBody]
  /\ call' = [call EXCEPT ![c].pc = "remove"]
  /\ UNCHANGED <<now, fresh, jobs, handle, reaper, lifecycle, historyVars>>

(* A cleanup transaction that removes whatever record the ID has by now. *)
RemovableAlways(m, token) == Exists(m)

(* The re-check of the cleanup transactions before they remove the record. *)
Removable(m, token) == m.state = "completed" /\ m.token = token

(* Complete's last transaction; an ID without a record is success too, and *)
(* a record that is not this handle's completed one is ErrNotClaimed.      *)
CompleteRemove(c) ==
  /\ call[c].pc = "remove"
  /\ IF Removable(Held(c), handle[c].token)
     THEN jobs' = [jobs EXCEPT ![handle[c].id] = Absent]
     ELSE UNCHANGED jobs
  /\ call' = [call EXCEPT ![c] = Idle]
  /\ UNCHANGED <<now, fresh, blobs, handle, reaper, lifecycle, historyVars>>

(* The blob store or the last transaction returned an error. *)
CompleteFails(c) ==
  /\ "store" \in Disturbances
  /\ call[c].pc \in {"delete", "remove"}
  /\ call' = [call EXCEPT ![c] = Idle]
  /\ UNCHANGED <<now, fresh, storeVars, handle, reaper, lifecycle, historyVars>>

-----------------------------------------------------------------------------
(* RequeueDead reads the clock before its transaction. *)

RequeueBegin(c) ==
  /\ call[c].pc = "idle"
  /\ lifecycle[QueueOf[c]] = "open"
  /\ \E id \in IDs :
       call' = [call EXCEPT ![c] = Begun("requeue", id, now)]
  /\ UNCHANGED <<now, fresh, storeVars, handle, reaper, lifecycle, historyVars>>

(* A RequeueDead that takes any job. *)
RequeueAnyState(c) ==
  /\ call[c].pc = "requeue"
  /\ Exists(jobs[call[c].id])
  /\ jobs' = [jobs EXCEPT ![call[c].id] = Requeued(@, call[c].availableAt)]
  /\ call' = [call EXCEPT ![c] = Idle]
  /\ UNCHANGED <<now, fresh, blobs, handle, reaper, lifecycle, historyVars>>

RequeueDead(c) ==
  /\ call[c].pc = "requeue"
  /\ jobs[call[c].id].state = "dead"
  /\ jobs' = [jobs EXCEPT ![call[c].id] = Requeued(@, call[c].availableAt)]
  /\ call' = [call EXCEPT ![c] = Idle]
  /\ UNCHANGED <<now, fresh, blobs, handle, reaper, lifecycle, historyVars>>

(* ErrJobNotFound, ErrNotDead or a failed transaction. *)
RequeueRejected(c) ==
  /\ call[c].pc = "requeue"
  /\ jobs[call[c].id].state # "dead" \/ "store" \in Disturbances
  /\ call' = [call EXCEPT ![c] = Idle]
  /\ UNCHANGED <<now, fresh, storeVars, handle, reaper, lifecycle, historyVars>>

-----------------------------------------------------------------------------
(* Maintenance: one goroutine, started once per Queue object *)

SweepItem == [id: IDs, token: Nat, payload: PayloadKeys]

(* pc: off (q.cancel is nil), idle (waits for the ticker), reap (in        *)
(* reapExpired's transaction), sweep (walks todo, the completed jobs that  *)
(* transaction saw), remove (has deleted the bodies of swept), exited.     *)
Reapers == [pc: {"off", "idle", "reap", "sweep", "remove", "exited"},
            cancelled: BOOLEAN, todo: SUBSET SweepItem, swept: SUBSET SweepItem]

ReaperOff == [pc |-> "off", cancelled |-> FALSE, todo |-> {}, swept |-> {}]

(* A reaper that looks at the deadline only. *)
ExpiredAnyState(m, t) == m.state \in {"claimed", "completed"} /\ m.leaseUntil <= t

Expired(m, t) == m.state = "claimed" /\ m.leaseUntil # 0 /\ m.leaseUntil <= t

(* A reaper that leaves a job without attempts left as it is. *)
ReapedWithoutDead(m, t) == IF Expired(m, t) /\ ~Exhausted(m) THEN Returned(m, t) ELSE m

(* What reapExpired's transaction makes of a record. *)
Reaped(m, t) == IF Expired(m, t) THEN GivenBack(m, t) ELSE m

(* A reaper that does not look for jobs whose cleanup was interrupted. *)
CompletedItemsForgotten == {}

CompletedItems ==
  {[id |-> id, token |-> jobs[id].token, payload |-> jobs[id].payload] :
     id \in {i \in IDs : jobs[i].state = "completed"}}

(* Once per Queue object: q.cancel stays set when the goroutine has ended. *)
StartMaintenance(q) ==
  /\ lifecycle[q] = "open"
  /\ reaper[q].pc = "off"
  /\ reaper' = [reaper EXCEPT ![q] = [@ EXCEPT !.pc = "idle"]]
  /\ UNCHANGED <<now, fresh, storeVars, call, handle, lifecycle, historyVars>>

(* The application cancels the context it gave StartMaintenance. *)
CancelMaintenance(q) ==
  /\ "close" \in Disturbances
  /\ reaper[q].pc \notin {"off", "exited"}
  /\ reaper' = [reaper EXCEPT ![q] = [@ EXCEPT !.cancelled = TRUE]]
  /\ UNCHANGED <<now, fresh, storeVars, call, handle, lifecycle, historyVars>>

(* The ticker fires and the context is not cancelled yet. *)
ReapBegin(q) ==
  /\ reaper[q].pc = "idle"
  /\ ~reaper[q].cancelled
  /\ reaper' = [reaper EXCEPT ![q].pc = "reap"]
  /\ UNCHANGED <<now, fresh, storeVars, call, handle, lifecycle, historyVars>>

(* reapExpired's transaction over all the job records. *)
ReapExpired(q) ==
  /\ reaper[q].pc = "reap"
  /\ \E t \in ClockReadings : jobs' = [id \in IDs |-> Reaped(jobs[id], t)]
  /\ reaper' = [reaper EXCEPT ![q] = [@ EXCEPT !.pc = "sweep", !.todo = CompletedItems]]
  /\ UNCHANGED <<now, fresh, blobs, call, handle, lifecycle, historyVars>>

ReapFails(q) ==
  /\ "store" \in Disturbances
  /\ reaper[q].pc = "reap"
  /\ reaper' = [reaper EXCEPT ![q].pc = "idle"]
  /\ UNCHANGED <<now, fresh, storeVars, call, handle, lifecycle, historyVars>>

SweepDelete(q) ==
  /\ reaper[q].pc = "sweep"
  /\ \E item \in reaper[q].todo :
       /\ blobs' = [blobs EXCEPT ![item.payload] = NoBody]
       /\ reaper' = [reaper EXCEPT ![q] =
                       [@ EXCEPT !.pc = "remove", !.todo = reaper[q].todo \ {item},
                                 !.swept = {item}]]
  /\ UNCHANGED <<now, fresh, jobs, call, handle, lifecycle, historyVars>>

(* The blob store returned an error: the job waits for another tick. *)
SweepDeleteFails(q) ==
  /\ "store" \in Disturbances
  /\ reaper[q].pc = "sweep"
  /\ \E item \in reaper[q].todo : reaper' = [reaper EXCEPT ![q].todo = @ \ {item}]
  /\ UNCHANGED <<now, fresh, storeVars, call, handle, lifecycle, historyVars>>

(* The transaction that removes a swept job, if it still is that job. *)
SweepRemove(q) ==
  /\ reaper[q].pc = "remove"
  /\ \E item \in reaper[q].swept :
       IF Removable(jobs[item.id], item.token)
       THEN jobs' = [jobs EXCEPT ![item.id] = Absent]
       ELSE UNCHANGED jobs
  /\ reaper' = [reaper EXCEPT ![q] = [@ EXCEPT !.pc = "sweep", !.swept = {}]]
  /\ UNCHANGED <<now, fresh, blobs, call, handle, lifecycle, historyVars>>

(* It failed, for instance because the context is cancelled by now. *)
SweepRemoveFails(q) ==
  /\ "store" \in Disturbances
  /\ reaper[q].pc = "remove"
  /\ reaper' = [reaper EXCEPT ![q] = [@ EXCEPT !.pc = "sweep", !.swept = {}]]
  /\ UNCHANGED <<now, fresh, storeVars, call, handle, lifecycle, historyVars>>

SweepDone(q) ==
  /\ reaper[q].pc = "sweep"
  /\ reaper[q].todo = {}
  /\ reaper' = [reaper EXCEPT ![q].pc = "idle"]
  /\ UNCHANGED <<now, fresh, storeVars, call, handle, lifecycle, historyVars>>

ReaperExit(q) ==
  /\ reaper[q].pc = "idle"
  /\ reaper[q].cancelled
  /\ reaper' = [reaper EXCEPT ![q].pc = "exited"]
  /\ UNCHANGED <<now, fresh, storeVars, call, handle, lifecycle, historyVars>>

-----------------------------------------------------------------------------
(* The Queue objects, their processes and the clock *)

(* A Close that waits for the goroutine and does not cancel it. *)
CloseBeginWithoutCancel(q) ==
  /\ "close" \in Disturbances
  /\ lifecycle[q] = "open"
  /\ lifecycle' = [lifecycle EXCEPT ![q] = "closing"]
  /\ UNCHANGED <<now, fresh, storeVars, call, handle, reaper, historyVars>>

(* Close up to the wait for the goroutine, and the end of that wait. *)
CloseBegin(q) ==
  /\ "close" \in Disturbances
  /\ lifecycle[q] = "open"
  /\ lifecycle' = [lifecycle EXCEPT ![q] = "closing"]
  /\ reaper' = [reaper EXCEPT ![q] = [@ EXCEPT !.cancelled = (reaper[q].pc # "off")]]
  /\ UNCHANGED <<now, fresh, storeVars, call, handle, historyVars>>

CloseReturn(q) ==
  /\ lifecycle[q] = "closing"
  /\ reaper[q].pc \in {"off", "exited"}
  /\ lifecycle' = [lifecycle EXCEPT ![q] = "closed"]
  /\ UNCHANGED <<now, fresh, storeVars, call, handle, reaper, historyVars>>

(* New: another Queue object on the same stores; old Jobs keep working. *)
Reopen(q) ==
  /\ lifecycle[q] = "closed"
  /\ lifecycle' = [lifecycle EXCEPT ![q] = "open"]
  /\ reaper' = [reaper EXCEPT ![q] = ReaperOff]
  /\ UNCHANGED <<now, fresh, storeVars, call, handle, historyVars>>

(* A process dies and is started again: what is not in a store is gone. *)
Crash(q) ==
  /\ "crash" \in Disturbances
  /\ call' = [c \in Clients |-> IF QueueOf[c] = q THEN Idle ELSE call[c]]
  /\ handle' = [c \in Clients |-> IF QueueOf[c] = q THEN NoHandle ELSE handle[c]]
  /\ reaper' = [reaper EXCEPT ![q] = ReaperOff]
  /\ lifecycle' = [lifecycle EXCEPT ![q] = "open"]
  /\ UNCHANGED <<now, fresh, storeVars, historyVars>>

Tick ==
  /\ now < MaxNow
  /\ now' = now + 1
  /\ UNCHANGED <<fresh, storeVars, call, handle, reaper, lifecycle, historyVars>>

-----------------------------------------------------------------------------
Init ==
  /\ now = 1
  /\ fresh = 0
  /\ jobs = [id \in IDs |-> Absent]
  /\ blobs = [k \in PayloadKeys |-> NoBody]
  /\ call = [c \in Clients |-> Idle]
  /\ handle = [c \in Clients |-> NoHandle]
  /\ reaper = [q \in Queues |-> ReaperOff]
  /\ lifecycle = [q \in Queues |-> "open"]
  /\ published = {}
  /\ acked = [k \in PayloadKeys |-> {}]

ClientStep(c) ==
  \/ EnqueueBegin(c) \/ UploadPayload(c) \/ UploadFails(c)
  \/ Publish(c) \/ PublishRejected(c) \/ DiscardPayload(c)
  \/ ClaimBegin(c) \/ ClaimJob(c) \/ ClaimNothing(c)
  \/ Renew(c) \/ Retry(c) \/ Dead(c)
  \/ CompleteMark(c) \/ CompleteResume(c) \/ CompleteDelete(c)
  \/ CompleteRemove(c) \/ CompleteFails(c)
  \/ RequeueBegin(c) \/ RequeueDead(c) \/ RequeueRejected(c)

MaintenanceStep(q) ==
  \/ StartMaintenance(q) \/ CancelMaintenance(q)
  \/ ReapBegin(q) \/ ReapExpired(q) \/ ReapFails(q)
  \/ SweepDelete(q) \/ SweepDeleteFails(q) \/ SweepRemove(q) \/ SweepRemoveFails(q)
  \/ SweepDone(q) \/ ReaperExit(q)

ProcessStep(q) == CloseBegin(q) \/ CloseReturn(q) \/ Reopen(q) \/ Crash(q)

Next ==
  \/ \E c \in Clients : ClientStep(c)
  \/ \E q \in Queues : MaintenanceStep(q) \/ ProcessStep(q)
  \/ Tick

Spec == Init /\ [][Next]_vars

-----------------------------------------------------------------------------
(* Properties *)

(* The values that the records, handles and goroutines of the queue range  *)
(* over.                                                                   *)
TypeOK ==
  /\ now \in 1..MaxNow
  /\ fresh \in 0..MaxFresh
  /\ jobs \in [IDs -> JobMeta]
  /\ blobs \in [PayloadKeys -> Clients \cup {NoBody}]
  /\ call \in [Clients -> Calls]
  /\ handle \in [Clients -> Handles]
  /\ reaper \in [Queues -> Reapers]
  /\ lifecycle \in [Queues -> {"open", "closing", "closed"}]
  /\ published \subseteq PayloadKeys
  /\ acked \in [PayloadKeys -> SUBSET Nat]

(* Until a job is completed, its payload key holds exactly the body that   *)
(* its record's size and hash were computed from, so that OpenPayload      *)
(* never meets a missing or a corrupt payload: no Complete, sweep or       *)
(* abandoned Enqueue ever deletes or overwrites a body in use.             *)
PayloadIntact ==
  \A id \in IDs :
    jobs[id].state \in {"pending", "claimed", "dead"} => blobs[jobs[id].payload] = jobs[id].sha

(* As long as the body of a job that was once published is in the          *)
(* BlobStore, some record still names its key: no crash between the steps  *)
(* of Complete or of a sweep leaves a body that nothing can find again.    *)
PublishedBodyTracked ==
  \A k \in published :
    blobs[k] # NoBody => \E id \in IDs : Exists(jobs[id]) /\ jobs[id].payload = k

(* A job that Enqueue published is in the store until a holder completed   *)
(* it, whatever stale handles and concurrent cleanups do to its ID.        *)
NoLostJob ==
  \A k \in published :
    acked[k] # {} \/ \E id \in IDs : Exists(jobs[id]) /\ jobs[id].payload = k

(* A job that a holder completed is never pending, claimed or dead again:  *)
(* neither the reaper nor a retry brings it back.                          *)
NeverRedelivered ==
  \A id \in IDs :
    Exists(jobs[id]) /\ acked[jobs[id].payload] # {} => jobs[id].state = "completed"

(* At most one claim of a job is the one that completed it. *)
CompletedOnce == \A k \in PayloadKeys : \A s, t \in acked[k] : s = t

(* Two clients never both hold an unexpired lease on the same job. *)
MutualExclusion ==
  \A c, d \in Clients :
    /\ c # d
    /\ ~handle[c].released /\ handle[c].until > now
    /\ ~handle[d].released /\ handle[d].until > now
    => handle[c].id # handle[d].id

(* A job is delivered no more often than MaxRetries allows (once at least) *)
(* and goes to the dead letters after that, whoever gives it up.           *)
AttemptsBounded ==
  \A id \in IDs :
    /\ jobs[id].attempts <= jobs[id].max \/ jobs[id].attempts <= 1
    /\ jobs[id].state = "pending" => jobs[id].attempts < jobs[id].max \/ jobs[id].attempts = 0

(* First in, first out: no Claim takes a job while one that was created    *)
(* earlier, without a delay, still waits for its first delivery.  (A job   *)
(* that RequeueDead made available before it was created may overtake.)    *)
FIFO ==
  [][\A i, j \in IDs :
       /\ jobs[j].state = "pending" /\ jobs'[j].state = "claimed"
       /\ jobs[j].availableAt >= jobs[j].createdAt
       /\ jobs[i].state = "pending" /\ jobs[i].availableAt = jobs[i].createdAt
       => jobs[j].createdAt <= jobs[i].createdAt]_vars

-----------------------------------------------------------------------------
(* What a caller sees of a record: completed jobs are gone, and the body   *)
(* of a job is the one that the BlobStore has under its key.               *)
Seen(m, bodies) ==
  IF m.state \in {"absent", "completed"} THEN [state |-> "none"]
  ELSE [state |-> m.state, key |-> m.payload, body |-> bodies[m.payload],
        attempts |-> m.attempts, max |-> m.max, until |-> m.leaseUntil, token |-> m.token]

Work == INSTANCE WorkQueue WITH
          Keys <- PayloadKeys, used <- published,
          table <- [id \in IDs |-> Seen(jobs[id], blobs)],
          lease <- [c \in Clients |-> [id |-> handle[c].id, token |-> handle[c].token]]

(* The two stores, with uploads, cleanups, maintenance, errors and crashes *)
(* between any two accesses, act as one table of jobs in which every       *)
(* change is one step: no half of an Enqueue or of a Complete is ever      *)
(* seen, no job changes under a worker, only the worker with the current   *)
(* token moves it, and it is not there again once it was completed.        *)
ActsAsOneTable == Work!Spec

-----------------------------------------------------------------------------
(* Liveness.  The goroutine of a Queue object is scheduled, its stores do  *)
(* not fail for ever, and time passes.                                     *)

ReaperFairness(q) ==
  /\ WF_vars(ReapBegin(q))
  /\ SF_vars(ReapExpired(q))
  /\ WF_vars(ReapExpired(q) \/ ReapFails(q))
  /\ SF_vars(SweepDelete(q))
  /\ WF_vars(SweepDelete(q) \/ SweepDeleteFails(q) \/ SweepDone(q))
  /\ SF_vars(SweepRemove(q))
  /\ WF_vars(SweepRemove(q) \/ SweepRemoveFails(q))
  /\ WF_vars(ReaperExit(q))
  /\ WF_vars(CloseReturn(q))

FairSpec == Spec /\ WF_vars(Tick) /\ \A q \in Queues : ReaperFairness(q)

(* Some goroutine runs from now on and is never cancelled. *)
Maintained == \E q \in Queues : <>[](reaper[q].pc \notin {"off", "exited"} /\ ~reaper[q].cancelled)

(* A claim of the job id under the token n that ends at d. *)
Lease(id, n, d) ==
  jobs[id].state = "claimed" /\ jobs[id].token = n /\ jobs[id].leaseUntil = d

(* With maintenance running, no lease outlives its deadline for ever: its  *)
(* holder renews it or gives the job back, or the reaper takes it, also    *)
(* when the holder crashed.  (A holder may keep a job by renewing it again *)
(* and again; Renew sets no limit.)                                        *)
LeaseRecovered ==
  Maintained => \A id \in IDs, n \in 1..MaxFresh, d \in 1..MaxNow :
    Lease(id, n, d) ~> ~Lease(id, n, d)

(* With maintenance running, a completed job whose Complete was cut short  *)
(* is removed all the same.                                                *)
CompletedCleaned ==
  Maintained => \A id \in IDs : (jobs[id].state = "completed") ~> (jobs[id].state # "completed")

(* Close returns. *)
CloseTerminates == \A q \in Queues : (lifecycle[q] = "closing") ~> (lifecycle[q] # "closing")
=============================================================================
