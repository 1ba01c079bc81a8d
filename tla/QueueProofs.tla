----------------------------- MODULE QueueProofs -----------------------------
(* Theorems about the queue, for every value of its constants. *)
EXTENDS Queue, TLAPS

-----------------------------------------------------------------------------
(* Records: what each operator on a record returns. *)

(* The records of an idle client, of no handle, of no goroutine and of no  *)
(* job have their types.                                                   *)
LEMMA BaseTypes ==
  Idle \in Calls /\ NoHandle \in Handles /\ ReaperOff \in Reapers /\ Absent \in JobMeta
BY DEF Idle, Begun, Calls, NoHandle, Handles, ReaperOff, Reapers, Absent, JobMeta, JobStates

(* The records of an idle and of a begun call are calls. *)
LEMMA CallRecords ==
  /\ Idle.pc = "idle"
  /\ \A id \in IDs, t \in Nat, pc \in {"upload", "requeue"} :
       /\ Begun(pc, id, t) \in Calls
       /\ Begun(pc, id, t).pc = pc
       /\ Begun(pc, id, t).id = id
  /\ \A r \in Calls, pc \in {"discard", "claim", "delete", "remove"} :
       /\ [r EXCEPT !.pc = pc] \in Calls
       /\ [r EXCEPT !.pc = pc].pc = pc
       /\ [r EXCEPT !.pc = pc].id = r.id
       /\ [r EXCEPT !.pc = pc].key = r.key
BY DEF Idle, Begun, Calls

(* Claim keeps the payload and the hash of a record. *)
LEMMA ClaimedRecord ==
  ASSUME NEW m \in JobMeta, NEW at \in Nat, NEW n \in Nat
  PROVE  /\ Claimed(m, at, n) \in JobMeta
         /\ Claimed(m, at, n).state = "claimed"
         /\ Claimed(m, at, n).payload = m.payload
         /\ Claimed(m, at, n).sha = m.sha
         /\ Claimed(m, at, n).leaseUntil = at
         /\ Claimed(m, at, n).token = n
<1>1. m.attempts + 1 \in Nat
  BY DEF JobMeta
<1> QED
  BY <1>1 DEF JobMeta, JobStates, Claimed

(* Renew keeps everything of a record but its deadline. *)
LEMMA RenewedRecord ==
  ASSUME NEW m \in JobMeta, NEW at \in Nat
  PROVE  /\ Renewed(m, at) \in JobMeta
         /\ Renewed(m, at).state = m.state
         /\ Renewed(m, at).payload = m.payload
         /\ Renewed(m, at).sha = m.sha
         /\ Renewed(m, at).leaseUntil = at
         /\ Renewed(m, at).token = m.token
BY DEF JobMeta, JobStates, Renewed

(* The dead-letter transition keeps payload and hash. *)
LEMMA KilledRecord ==
  ASSUME NEW m \in JobMeta
  PROVE  /\ Killed(m) \in JobMeta
         /\ Killed(m).state = "dead"
         /\ Killed(m).payload = m.payload
         /\ Killed(m).sha = m.sha
         /\ Killed(m).leaseUntil = 0
         /\ Killed(m).token = 0
BY DEF JobMeta, JobStates, Killed

(* Giving a job back keeps its payload and hash. *)
LEMMA ReturnedRecord ==
  ASSUME NEW m \in JobMeta, NEW at \in Nat
  PROVE  /\ Returned(m, at) \in JobMeta
         /\ Returned(m, at).state = "pending"
         /\ Returned(m, at).payload = m.payload
         /\ Returned(m, at).sha = m.sha
         /\ Returned(m, at).leaseUntil = 0
         /\ Returned(m, at).token = 0
BY DEF JobMeta, JobStates, Returned

(* Complete's mark keeps payload, hash and token. *)
LEMMA MarkCompletedRecord ==
  ASSUME NEW m \in JobMeta
  PROVE  /\ MarkCompleted(m) \in JobMeta
         /\ MarkCompleted(m).state = "completed"
         /\ MarkCompleted(m).payload = m.payload
         /\ MarkCompleted(m).sha = m.sha
         /\ MarkCompleted(m).leaseUntil = 0
         /\ MarkCompleted(m).token = m.token
BY DEF JobMeta, JobStates, MarkCompleted

(* RequeueDead keeps payload and hash. *)
LEMMA RequeuedRecord ==
  ASSUME NEW m \in JobMeta, NEW at \in Nat
  PROVE  /\ Requeued(m, at) \in JobMeta
         /\ Requeued(m, at).state = "pending"
         /\ Requeued(m, at).payload = m.payload
         /\ Requeued(m, at).sha = m.sha
         /\ Requeued(m, at).leaseUntil = 0
         /\ Requeued(m, at).token = m.token
BY DEF JobMeta, JobStates, Requeued

(* Retry and the reaper leave a pending or a dead record. *)
LEMMA GivenBackRecord ==
  ASSUME NEW m \in JobMeta, NEW at \in Nat
  PROVE  /\ GivenBack(m, at) \in JobMeta
         /\ GivenBack(m, at).state \in {"pending", "dead"}
         /\ GivenBack(m, at).payload = m.payload
         /\ GivenBack(m, at).sha = m.sha
         /\ GivenBack(m, at).token = 0
BY KilledRecord, ReturnedRecord DEF GivenBack

(* A handle that is renewed or released is a handle. *)
LEMMA HandleRecords ==
  ASSUME NEW h \in Handles, NEW b \in BOOLEAN, NEW t \in Nat
  PROVE  /\ [h EXCEPT !.released = b] \in Handles
         /\ [h EXCEPT !.until = t] \in Handles
BY DEF Handles

(* The goroutine records that maintenance makes are such records. *)
LEMMA ReaperRecords ==
  ASSUME NEW r \in Reapers
  PROVE  /\ \A b \in BOOLEAN : [r EXCEPT !.cancelled = b] \in Reapers
         /\ [r EXCEPT !.pc = "reap"] \in Reapers
         /\ [r EXCEPT !.pc = "idle"] \in Reapers
         /\ [r EXCEPT !.pc = "exited"] \in Reapers
         /\ [r EXCEPT !.pc = "sweep", !.swept = {}] \in Reapers
         /\ \A todo \in SUBSET SweepItem :
              /\ [r EXCEPT !.pc = "sweep", !.todo = todo] \in Reapers
              /\ [r EXCEPT !.todo = todo] \in Reapers
              /\ \A item \in SweepItem :
                   [r EXCEPT !.pc = "remove", !.todo = todo, !.swept = {item}] \in Reapers
BY DEF Reapers

-----------------------------------------------------------------------------
(* Type correctness *)

(* A call that needs a job ID, a payload key or a bound has one. *)
CallArgs ==
  \A c \in Clients :
    /\ call[c].pc \in {"upload", "publish", "discard", "requeue"} => call[c].id \in IDs
    /\ call[c].pc \in {"publish", "discard"} => call[c].key \in PayloadKeys
    /\ call[c].pc = "publish" => call[c].max \in MaxRetries

TypeInv == TypeOK /\ CallArgs

(* What newID() returns is a natural number within its bound. *)
LEMMA FreshType ==
  ASSUME TypeOK, fresh < MaxFresh
  PROVE  /\ fresh + 1 \in Nat
         /\ fresh + 1 \in 0..MaxFresh
         /\ \A id \in IDs : PayloadKey(id, fresh + 1) \in PayloadKeys
BY BoundsAssumption DEF TypeOK, PayloadKey, PayloadKeys

(* A reading of the clock, and a reading plus a duration, is a time. *)
LEMMA ReadingType ==
  ASSUME TypeOK
  PROVE  /\ now \in Nat
         /\ \A t \in ClockReadings : t \in Nat
         /\ \A t \in ClockReadings, d \in LeaseDurations : t + d \in Nat
         /\ \A t \in ClockReadings, d \in Delays : t + d \in Nat
         /\ \A d \in Delays : now + d \in Nat
BY TimesAssumption, BoundsAssumption DEF TypeOK, ClockReadings

(* The record that UploadPayload leaves for the publishing transaction,    *)
(* and the record that transaction writes.                                 *)
LEMMA PublishRecords ==
  /\ \A id \in IDs, key \in PayloadKeys, max, at, t \in Nat :
       [pc |-> "publish", id |-> id, key |-> key, max |-> max,
        availableAt |-> at, createdAt |-> t] \in Calls
  /\ TypeOK => \A c \in Clients : NewJob(c) \in JobMeta
BY DEF Calls, TypeOK, NewJob, JobMeta, JobStates

(* A refused create goes on to the cleanup with the same id and key. *)
LEMMA RejectedCall ==
  ASSUME TypeOK, NEW c \in Clients, PublishRejected(c)
  PROVE  \E r \in Calls :
           /\ call' = [call EXCEPT ![c] = r]
           /\ r.pc = "discard" /\ r.id = call[c].id /\ r.key = call[c].key
<1> DEFINE r == [call[c] EXCEPT !.pc = "discard"]
<1>1. call[c] \in Calls
  BY DEF TypeOK
<1>2. r \in Calls /\ r.pc = "discard" /\ r.id = call[c].id /\ r.key = call[c].key
  BY <1>1, CallRecords
<1>3. call' = [call EXCEPT ![c] = r]
  BY DEF PublishRejected
<1> HIDE DEF r
<1> QED
  BY <1>2, <1>3

(* The steps of Enqueue keep the types. *)
LEMMA TypeEnqueue ==
  ASSUME TypeInv, NEW c \in Clients,
         \/ EnqueueBegin(c) \/ UploadPayload(c) \/ UploadFails(c)
         \/ Publish(c) \/ PublishRejected(c) \/ DiscardPayload(c)
  PROVE  TypeInv'
<1> USE DEF storeVars, historyVars, TypeInv
<1>1. CASE EnqueueBegin(c)
  <2>1. PICK id \in IDs : call' = [call EXCEPT ![c] = Begun("upload", id, 0)]
    BY <1>1 DEF EnqueueBegin
  <2>2. call' \in [Clients -> Calls] /\ CallArgs'
    BY <2>1, CallRecords DEF TypeOK, CallArgs
  <2> QED
    BY <1>1, <2>2 DEF TypeOK, EnqueueBegin
<1>2. CASE UploadPayload(c)
  <2>1. call[c].id \in IDs
    BY <1>2 DEF UploadPayload, CallArgs
  <2> DEFINE key == PayloadKey(call[c].id, fresh + 1)
  <2>2. key \in PayloadKeys /\ fresh' \in 0..MaxFresh
    BY <1>2, <2>1, FreshType DEF UploadPayload
  <2>3. PICK at \in Nat, max \in MaxRetries, t \in Nat :
          call' = [call EXCEPT ![c] = [pc |-> "publish", id |-> call[c].id, key |-> key,
                                       max |-> max, availableAt |-> at, createdAt |-> t]]
    BY <1>2, ReadingType, TimesAssumption DEF UploadPayload
  <2> HIDE DEF key
  <2>4. call' \in [Clients -> Calls] /\ CallArgs'
    BY <2>1, <2>2, <2>3, PublishRecords, TimesAssumption DEF TypeOK, CallArgs
  <2>5. blobs' \in [PayloadKeys -> Clients \cup {NoBody}]
    BY <1>2 DEF TypeOK, UploadPayload
  <2> QED
    BY <1>2, <2>2, <2>4, <2>5 DEF TypeOK, UploadPayload
<1>3. CASE UploadFails(c)
  <2>1. call' \in [Clients -> Calls] /\ CallArgs'
    BY <1>3, BaseTypes, CallRecords DEF TypeOK, UploadFails, CallArgs
  <2>2. blobs' \in [PayloadKeys -> Clients \cup {NoBody}]
    <3> DEFINE key == PayloadKey(call[c].id, fresh + 1)
    <3>1. blobs' = blobs \/ blobs' = [blobs EXCEPT ![key] = c]
      BY <1>3 DEF UploadFails
    <3> QED
      BY <3>1 DEF TypeOK
  <2>3. fresh' \in 0..MaxFresh
    BY <1>3, FreshType DEF UploadFails
  <2> QED
    BY <1>3, <2>1, <2>2, <2>3 DEF TypeOK, UploadFails
<1>4. CASE Publish(c)
  <2>1. call' \in [Clients -> Calls] /\ CallArgs'
    BY <1>4, BaseTypes, CallRecords DEF TypeOK, Publish, CallArgs
  <2>2. jobs' \in [IDs -> JobMeta]
    BY <1>4, PublishRecords DEF TypeOK, Publish
  <2>3. published' \subseteq PayloadKeys
    BY <1>4 DEF TypeOK, Publish, CallArgs
  <2> QED
    BY <1>4, <2>1, <2>2, <2>3 DEF TypeOK, Publish
<1>5. CASE PublishRejected(c)
  <2>1. call[c].id \in IDs /\ call[c].key \in PayloadKeys
    BY <1>5 DEF PublishRejected, CallArgs
  <2>2. PICK r \in Calls : /\ call' = [call EXCEPT ![c] = r]
                           /\ r.pc = "discard" /\ r.id = call[c].id /\ r.key = call[c].key
    BY <1>5, RejectedCall
  <2>3. call' \in [Clients -> Calls] /\ CallArgs'
    BY <2>1, <2>2 DEF TypeOK, CallArgs
  <2> QED
    BY <1>5, <2>3 DEF TypeOK, PublishRejected
<1>6. CASE DiscardPayload(c)
  BY <1>6, BaseTypes, CallRecords DEF TypeOK, DiscardPayload, CallArgs
<1> QED
  BY <1>1, <1>2, <1>3, <1>4, <1>5, <1>6

(* The steps of Claim keep the types. *)
LEMMA TypeClaim ==
  ASSUME TypeInv, NEW c \in Clients,
         \/ ClaimBegin(c) \/ ClaimJob(c) \/ ClaimNothing(c)
         \/ RequeueBegin(c) \/ RequeueDead(c) \/ RequeueRejected(c)
  PROVE  TypeInv'
<1> USE DEF storeVars, historyVars, TypeInv
<1>1. CASE ClaimBegin(c)
  BY <1>1, CallRecords DEF TypeOK, ClaimBegin, CallArgs
<1>2. CASE ClaimJob(c)
  <2>1. fresh + 1 \in Nat /\ fresh' \in 0..MaxFresh
    BY <1>2, FreshType DEF ClaimJob
  <2>2. PICK id \in IDs, until \in Nat :
          /\ jobs' = [jobs EXCEPT ![id] = Claimed(@, until, fresh + 1)]
          /\ handle' = [handle EXCEPT ![c] =
                          [id |-> id, token |-> fresh + 1, payload |-> jobs[id].payload,
                           sha |-> jobs[id].sha, until |-> until,
                           released |-> FALSE]]
    BY <1>2, ReadingType DEF ClaimJob, Candidates
  <2>3. jobs' \in [IDs -> JobMeta]
    BY <2>1, <2>2, ClaimedRecord DEF TypeOK
  <2>4. jobs[id].payload \in PayloadKeys \cup {NoKey} /\ jobs[id].sha \in Clients \cup {NoBody}
    BY DEF TypeOK, JobMeta
  <2>5. handle' \in [Clients -> Handles]
    BY <2>1, <2>2, <2>4 DEF TypeOK, Handles
  <2>6. call' \in [Clients -> Calls] /\ CallArgs'
    BY <1>2, BaseTypes, CallRecords DEF TypeOK, ClaimJob, CallArgs
  <2> QED
    BY <1>2, <2>1, <2>3, <2>5, <2>6 DEF TypeOK, ClaimJob
<1>3. CASE ClaimNothing(c)
  BY <1>3, BaseTypes, CallRecords DEF TypeOK, ClaimNothing, CallArgs
<1>4. CASE RequeueBegin(c)
  <2>1. PICK id \in IDs : call' = [call EXCEPT ![c] = Begun("requeue", id, now)]
    BY <1>4 DEF RequeueBegin
  <2>2. call' \in [Clients -> Calls] /\ CallArgs'
    BY <2>1, CallRecords, ReadingType DEF TypeOK, CallArgs
  <2> QED
    BY <1>4, <2>2 DEF TypeOK, RequeueBegin
<1>5. CASE RequeueDead(c)
  <2>1. call' \in [Clients -> Calls] /\ CallArgs'
    BY <1>5, BaseTypes, CallRecords DEF TypeOK, RequeueDead, CallArgs
  <2>2. call[c].availableAt \in Nat
    BY DEF TypeOK, Calls
  <2>3. jobs' \in [IDs -> JobMeta]
    BY <1>5, <2>2, RequeuedRecord DEF TypeOK, RequeueDead
  <2> QED
    BY <1>5, <2>1, <2>3 DEF TypeOK, RequeueDead
<1>6. CASE RequeueRejected(c)
  BY <1>6, BaseTypes, CallRecords DEF TypeOK, RequeueRejected, CallArgs
<1> QED
  BY <1>1, <1>2, <1>3, <1>4, <1>5, <1>6

(* The methods of a Job keep the types. *)
LEMMA TypeJob ==
  ASSUME TypeInv, NEW c \in Clients,
         \/ Renew(c) \/ Retry(c) \/ Dead(c)
         \/ CompleteMark(c) \/ CompleteResume(c) \/ CompleteDelete(c)
         \/ CompleteRemove(c) \/ CompleteFails(c)
  PROVE  TypeInv'
<1> USE DEF storeVars, historyVars, TypeInv
<1>1. CASE Renew(c)
  <2>1. PICK until \in Nat :
          /\ jobs' = [jobs EXCEPT ![handle[c].id] = Renewed(@, until)]
          /\ handle' = [handle EXCEPT ![c].until = until]
    BY <1>1, ReadingType DEF Renew
  <2>2. jobs' \in [IDs -> JobMeta]
    BY <2>1, RenewedRecord DEF TypeOK
  <2>3. handle' \in [Clients -> Handles]
    BY <2>1, HandleRecords DEF TypeOK
  <2> QED
    BY <1>1, <2>2, <2>3 DEF TypeOK, Renew, CallArgs
<1>2. CASE Retry(c)
  <2>1. PICK at \in Nat : jobs' = [jobs EXCEPT ![handle[c].id] = GivenBack(@, at)]
    BY <1>2, ReadingType DEF Retry
  <2>2. jobs' \in [IDs -> JobMeta]
    BY <2>1, GivenBackRecord DEF TypeOK
  <2>3. handle' \in [Clients -> Handles]
    BY <1>2, HandleRecords DEF TypeOK, Retry
  <2> QED
    BY <1>2, <2>2, <2>3 DEF TypeOK, Retry, CallArgs
<1>3. CASE Dead(c)
  <2>1. jobs' \in [IDs -> JobMeta]
    BY <1>3, KilledRecord DEF TypeOK, Dead
  <2>2. handle' \in [Clients -> Handles]
    BY <1>3, HandleRecords DEF TypeOK, Dead
  <2> QED
    BY <1>3, <2>1, <2>2 DEF TypeOK, Dead, CallArgs
<1>4. CASE CompleteMark(c)
  <2>1. jobs' \in [IDs -> JobMeta]
    BY <1>4, MarkCompletedRecord DEF TypeOK, CompleteMark
  <2>2. handle' \in [Clients -> Handles]
    BY <1>4, HandleRecords DEF TypeOK, CompleteMark
  <2>3. call' \in [Clients -> Calls] /\ CallArgs'
    BY <1>4, CallRecords DEF TypeOK, CompleteMark, CallArgs
  <2>4. handle[c].token \in Nat
    BY DEF TypeOK, Handles
  <2>5. acked' \in [PayloadKeys -> SUBSET Nat]
    BY <1>4, <2>4 DEF TypeOK, CompleteMark
  <2> QED
    BY <1>4, <2>1, <2>2, <2>3, <2>5 DEF TypeOK, CompleteMark
<1>5. CASE CompleteResume(c)
  BY <1>5, CallRecords DEF TypeOK, CompleteResume, CallArgs
<1>6. CASE CompleteDelete(c)
  BY <1>6, CallRecords DEF TypeOK, CompleteDelete, CallArgs
<1>7. CASE CompleteRemove(c)
  <2>1. jobs' \in [IDs -> JobMeta]
    BY <1>7, BaseTypes DEF TypeOK, CompleteRemove
  <2>2. handle' \in [Clients -> Handles]
    BY <1>7, HandleRecords DEF TypeOK, CompleteRemove
  <2>3. call' \in [Clients -> Calls] /\ CallArgs'
    BY <1>7, BaseTypes, CallRecords DEF TypeOK, CompleteRemove, CallArgs
  <2> QED
    BY <1>7, <2>1, <2>2, <2>3 DEF TypeOK, CompleteRemove
<1>8. CASE CompleteFails(c)
  BY <1>8, BaseTypes, CallRecords DEF TypeOK, CompleteFails, CallArgs
<1> QED
  BY <1>1, <1>2, <1>3, <1>4, <1>5, <1>6, <1>7, <1>8

(* The completed jobs that a tick of the reaper collects are sweep items.  *)
(* They have a payload key because no record is completed without one.     *)
LEMMA TypeMaintenance ==
  ASSUME TypeInv, NEW q \in Queues, MaintenanceStep(q), CompletedItems \subseteq SweepItem
  PROVE  TypeInv'
<1> USE DEF storeVars, historyVars, TypeInv
<1>0. reaper[q] \in Reapers
  BY DEF TypeOK
<1>1. CASE StartMaintenance(q) \/ CancelMaintenance(q)
  <2>1. \E r \in Reapers : reaper' = [reaper EXCEPT ![q] = r]
    BY <1>0, <1>1, ReaperRecords DEF StartMaintenance, CancelMaintenance
  <2> QED
    BY <1>1, <2>1 DEF TypeOK, CallArgs, StartMaintenance, CancelMaintenance
<1>2. CASE ReapBegin(q) \/ ReapFails(q) \/ SweepDone(q) \/ ReaperExit(q)
  <2>1. \E r \in Reapers : reaper' = [reaper EXCEPT ![q] = r]
    BY <1>0, <1>2, ReaperRecords DEF ReapBegin, ReapFails, SweepDone, ReaperExit
  <2> QED
    BY <1>2, <2>1 DEF TypeOK, CallArgs, ReapBegin, ReapFails, SweepDone, ReaperExit
<1>3. CASE ReapExpired(q)
  <2>1. PICK t \in Nat : jobs' = [id \in IDs |-> Reaped(jobs[id], t)]
    BY <1>3, ReadingType DEF ReapExpired
  <2>2. jobs' \in [IDs -> JobMeta]
    BY <2>1, GivenBackRecord DEF TypeOK, Reaped
  <2>3. reaper' \in [Queues -> Reapers]
    BY <1>3, ReaperRecords DEF TypeOK, ReapExpired
  <2> QED
    BY <1>3, <2>2, <2>3 DEF TypeOK, CallArgs, ReapExpired
<1>4. CASE SweepDelete(q) \/ SweepDeleteFails(q)
  <2>1. PICK item \in reaper[q].todo :
          /\ blobs' \in {blobs, [blobs EXCEPT ![item.payload] = NoBody]}
          /\ \/ reaper' = [reaper EXCEPT ![q] = [@ EXCEPT !.pc = "remove",
                              !.todo = reaper[q].todo \ {item}, !.swept = {item}]]
             \/ reaper' = [reaper EXCEPT ![q] = [@ EXCEPT !.todo = reaper[q].todo \ {item}]]
    BY <1>4 DEF SweepDelete, SweepDeleteFails
  <2>2. reaper[q].todo \in SUBSET SweepItem
    BY DEF TypeOK, Reapers
  <2>3. \E r \in Reapers : reaper' = [reaper EXCEPT ![q] = r]
    <3>1. reaper[q].todo \ {item} \in SUBSET SweepItem /\ item \in SweepItem
      BY <2>2
    <3> QED
      BY <1>0, <2>1, <3>1, ReaperRecords
  <2>4. blobs' \in [PayloadKeys -> Clients \cup {NoBody}]
    BY <2>1 DEF TypeOK
  <2> QED
    BY <1>4, <2>3, <2>4 DEF TypeOK, CallArgs, SweepDelete, SweepDeleteFails
<1>5. CASE SweepRemove(q) \/ SweepRemoveFails(q)
  <2>1. \E r \in Reapers : reaper' = [reaper EXCEPT ![q] = r]
    BY <1>0, <1>5, ReaperRecords DEF SweepRemove, SweepRemoveFails
  <2>2. jobs' \in [IDs -> JobMeta]
    BY <1>5, BaseTypes DEF TypeOK, SweepRemove, SweepRemoveFails
  <2> QED
    BY <1>5, <2>1, <2>2 DEF TypeOK, CallArgs, SweepRemove, SweepRemoveFails
<1> QED
  BY <1>1, <1>2, <1>3, <1>4, <1>5 DEF MaintenanceStep

(* Close, reopening, crashes and the clock keep the types. *)
LEMMA TypeProcess ==
  ASSUME TypeInv, (\E q \in Queues : ProcessStep(q)) \/ Tick
  PROVE  TypeInv'
<1> USE DEF storeVars, historyVars, TypeInv
<1>1. ASSUME NEW q \in Queues, CloseBegin(q) \/ CloseReturn(q) \/ Reopen(q)
      PROVE  TypeInv'
  <2>0. reaper[q] \in Reapers /\ (reaper[q].pc # "off") \in BOOLEAN
    BY DEF TypeOK
  <2>1. reaper' = reaper \/ \E r \in Reapers : reaper' = [reaper EXCEPT ![q] = r]
    BY <1>1, <2>0, BaseTypes, ReaperRecords DEF CloseBegin, CloseReturn, Reopen
  <2>2. lifecycle' \in [Queues -> {"open", "closing", "closed"}]
    BY <1>1 DEF TypeOK, CloseBegin, CloseReturn, Reopen
  <2> QED
    BY <1>1, <2>1, <2>2 DEF TypeOK, CallArgs, CloseBegin, CloseReturn, Reopen
<1>2. ASSUME NEW q \in Queues, Crash(q)
      PROVE  TypeInv'
  <2>1. call' \in [Clients -> Calls] /\ CallArgs'
    BY <1>2, BaseTypes, CallRecords DEF TypeOK, Crash, CallArgs
  <2>2. handle' \in [Clients -> Handles] /\ reaper' \in [Queues -> Reapers]
    BY <1>2, BaseTypes DEF TypeOK, Crash
  <2> QED
    BY <1>2, <2>1, <2>2 DEF TypeOK, Crash
<1>3. CASE Tick
  <2>1. now' \in 1..MaxNow
    BY <1>3, BoundsAssumption DEF TypeOK, Tick
  <2> QED
    BY <1>3, <2>1 DEF TypeOK, CallArgs, Tick
<1> QED
  BY <1>1, <1>2, <1>3 DEF ProcessStep

-----------------------------------------------------------------------------
(* The inductive invariant *)

(* A call that has uploaded a body nobody else knows the key of. *)
Private(c) == call[c].pc \in {"publish", "discard"}

Items(q) == reaper[q].todo \cup reaper[q].swept

(* Every identifier in use was handed out by newID(). *)
FreshInv ==
  /\ \A k \in published : k[2] <= fresh
  /\ \A c \in Clients : Private(c) => call[c].key[2] <= fresh
  /\ \A id \in IDs : jobs[id].token <= fresh
  /\ \A c \in Clients : handle[c].token <= fresh
  /\ \A q \in Queues : \A item \in Items(q) : item.token <= fresh

(* An uploaded body is not in any record yet and belongs to one call. *)
PrivateInv ==
  /\ \A c \in Clients : Private(c) => call[c].key \notin published /\ call[c].key[1] = call[c].id
  /\ \A c \in Clients : call[c].pc = "publish" => blobs[call[c].key] = c
  /\ \A c, d \in Clients : Private(c) /\ Private(d) /\ call[c].key = call[d].key => c = d

(* A record names a published body of its own ID, and is completed exactly *)
(* when a claim completed it.                                              *)
JobInv ==
  \A id \in IDs : Exists(jobs[id]) =>
    /\ jobs[id].payload \in published
    /\ jobs[id].payload[1] = id
    /\ jobs[id].state = "completed" <=> acked[jobs[id].payload] # {}
    /\ jobs[id].state = "completed" => jobs[id].token # 0

Tracked(k) == Exists(jobs[k[1]]) /\ jobs[k[1]].payload = k

(* A published body's key is in the record of its ID until the job is      *)
(* completed and, after that, as long as the body exists.                  *)
TrackInv ==
  \A k \in published : (acked[k] # {} \/ Tracked(k)) /\ (blobs[k] # NoBody => Tracked(k))

AckedInv ==
  \A k \in PayloadKeys : acked[k] # {} => k \in published

(* A holder knows the body of its job by the right key as long as its      *)
(* token is in the record; while it cleans up, the job is completed.       *)
HandleInv ==
  \A c \in Clients :
    /\ handle[c].id # 0 =>
         /\ handle[c].payload \in published
         /\ handle[c].payload[1] = handle[c].id
         /\ handle[c].token # 0
         /\ jobs[handle[c].id].token = handle[c].token
              => jobs[handle[c].id].payload = handle[c].payload
    /\ call[c].pc \in {"delete", "remove"} =>
         handle[c].id # 0 /\ acked[handle[c].payload] # {}
    /\ call[c].pc = "remove" => blobs[handle[c].payload] = NoBody

(* The same of the jobs that a reaper is about to clean up. *)
ReaperInv ==
  \A q \in Queues : \A item \in Items(q) :
    /\ item.token # 0
    /\ acked[item.payload] # {}
    /\ jobs[item.id].token = item.token => jobs[item.id].payload = item.payload
    /\ item \in reaper[q].swept => blobs[item.payload] = NoBody

StoreInv ==
  /\ TypeInv
  /\ FreshInv
  /\ PrivateInv
  /\ JobInv
  /\ TrackInv
  /\ AckedInv
  /\ HandleInv
  /\ ReaperInv
  /\ PayloadIntact
  /\ CompletedOnce

(* A live lease that its holder did not give up is the one in the record,  *)
(* with the deadline that the holder knows; no two handles share a token.  *)
LeaseInv ==
  /\ \A c \in Clients : handle[c].until > now /\ ~handle[c].released =>
       /\ handle[c].id # 0
       /\ jobs[handle[c].id].state = "claimed"
       /\ jobs[handle[c].id].token = handle[c].token
       /\ jobs[handle[c].id].leaseUntil = handle[c].until
  /\ \A c, d \in Clients :
       handle[c].token = handle[d].token /\ handle[c].token # 0 => c = d

(* A client without a Job holds no job, no token and no lease. *)
LEMMA NoHandleFields ==
  NoHandle.id = 0 /\ NoHandle.token = 0 /\ NoHandle.until = 0
BY DEF NoHandle

(* What the steps that only move jobs between the states before completion *)
(* have in common; many leave the stores alone altogether.                 *)
Live == {"pending", "claimed", "dead"}

MovesJobs ==
  \A id \in IDs :
    \/ jobs'[id] = jobs[id]
    \/ /\ jobs[id].state \in Live /\ jobs'[id].state \in Live
       /\ jobs'[id].payload = jobs[id].payload
       /\ jobs'[id].sha = jobs[id].sha
       /\ jobs'[id].token \in {jobs[id].token, 0}

KeepsCalls ==
  \A c \in Clients :
    \/ call'[c] = call[c]
    \/ call'[c].pc \in {"idle", "upload", "claim", "requeue"}
    \/ /\ call[c].pc = "publish" /\ call'[c].pc = "discard"
       /\ call'[c].key = call[c].key /\ call'[c].id = call[c].id

KeepsHandles ==
  \A c \in Clients :
    \/ /\ handle'[c].id = handle[c].id
       /\ handle'[c].token = handle[c].token
       /\ handle'[c].payload = handle[c].payload
    \/ handle'[c] = NoHandle /\ call'[c] = Idle

CollectsItems ==
  \A q \in Queues :
    /\ reaper'[q].todo \subseteq reaper[q].todo \cup CompletedItems
    /\ reaper'[q].swept \subseteq reaper[q].swept

(* The items collected are completed jobs with the token and payload of    *)
(* their record.                                                           *)
LEMMA Collected ==
  ASSUME StoreInv, NEW item \in CompletedItems
  PROVE  /\ item.id \in IDs
         /\ jobs[item.id].state = "completed"
         /\ item.token = jobs[item.id].token
         /\ item.payload = jobs[item.id].payload
         /\ item.token # 0
         /\ item.payload \in published
         /\ acked[item.payload] # {}
         /\ item \in SweepItem
<1>1. PICK id \in IDs :
        /\ jobs[id].state = "completed"
        /\ item = [id |-> id, token |-> jobs[id].token, payload |-> jobs[id].payload]
  BY DEF CompletedItems
<1>2. item.id = id /\ item.token = jobs[id].token /\ item.payload = jobs[id].payload
  BY <1>1
<1>3. /\ jobs[id].payload \in published
      /\ acked[jobs[id].payload] # {}
      /\ jobs[id].token # 0
  BY <1>1 DEF StoreInv, JobInv, Exists
<1>4. jobs[id].payload \in PayloadKeys /\ jobs[id].token \in Nat
  BY <1>3 DEF StoreInv, TypeInv, TypeOK, JobMeta
<1> QED
  BY <1>1, <1>2, <1>3, <1>4 DEF SweepItem

(* A step that only moves jobs between the states before completion keeps  *)
(* StoreInv.                                                               *)
LEMMA MovingStep ==
  ASSUME StoreInv, TypeInv',
         UNCHANGED <<fresh, blobs, published, acked>>,
         MovesJobs, KeepsCalls, KeepsHandles, CollectsItems
  PROVE  StoreInv'
<1> USE DEF StoreInv
<1>1. FreshInv'
  <2>1. \A c \in Clients : Private(c)' => Private(c) /\ call'[c].key = call[c].key
    BY DEF KeepsCalls, Private
  <2>2. \A id \in IDs : jobs'[id].token <= fresh
    BY DEF MovesJobs, FreshInv, TypeInv, TypeOK
  <2>3. \A c \in Clients : handle'[c].token <= fresh
    BY NoHandleFields DEF KeepsHandles, FreshInv, TypeInv, TypeOK
  <2>4. \A q \in Queues : \A item \in Items(q)' : item.token <= fresh
    BY Collected DEF CollectsItems, Items, FreshInv
  <2> QED
    BY <2>1, <2>2, <2>3, <2>4 DEF FreshInv
<1>2. PrivateInv'
  <2>1. \A c \in Clients :
          Private(c)' => Private(c) /\ call'[c].key = call[c].key /\ call'[c].id = call[c].id
    BY DEF KeepsCalls, Private
  <2>2. \A c \in Clients : call'[c].pc = "publish" => call'[c] = call[c]
    BY DEF KeepsCalls
  <2> QED
    BY <2>1, <2>2 DEF PrivateInv
<1>3. JobInv' /\ PayloadIntact'
  BY DEF MovesJobs, JobInv, PayloadIntact, Exists, Live
<1>4. TrackInv'
  <2>1. \A k \in published : k[1] \in IDs
    BY DEF TypeInv, TypeOK, PayloadKeys
  <2>2. \A id \in IDs : Exists(jobs[id]) => Exists(jobs'[id]) /\ jobs'[id].payload = jobs[id].payload
    BY DEF MovesJobs, Exists, Live
  <2> QED
    BY <2>1, <2>2 DEF TrackInv, Tracked
<1>5. AckedInv' /\ CompletedOnce'
  BY DEF AckedInv, CompletedOnce
<1>6. HandleInv'
  <2>1. \A id \in IDs : \A n \in Nat \ {0} :
          jobs'[id].token = n => jobs[id].token = n /\ jobs'[id].payload = jobs[id].payload
    BY DEF MovesJobs
  <2>2. \A c \in Clients : call'[c].pc \in {"delete", "remove"} => call'[c] = call[c]
    BY DEF KeepsCalls
  <2>3. Idle.pc = "idle"
    BY CallRecords
  <2>4. \A c \in Clients : handle[c].id # 0 => handle[c].id \in IDs /\ handle[c].token \in Nat
    BY DEF TypeInv, TypeOK, Handles
  <2> QED
    BY <2>1, <2>2, <2>3, <2>4, NoHandleFields DEF KeepsHandles, HandleInv
<1>7. ReaperInv'
  <2>1. \A id \in IDs : \A n \in Nat \ {0} :
          jobs'[id].token = n => jobs[id].token = n /\ jobs'[id].payload = jobs[id].payload
    BY DEF MovesJobs
  <2>2. \A q \in Queues : \A item \in Items(q) : item.id \in IDs /\ item.token \in Nat
    BY DEF TypeInv, TypeOK, Reapers, Items, SweepItem
  <2>3. \A item \in CompletedItems : item.token \in Nat
    BY Collected DEF SweepItem
  <2> QED
    BY <2>1, <2>2, <2>3, Collected DEF CollectsItems, Items, ReaperInv
<1> QED
  BY <1>1, <1>2, <1>3, <1>4, <1>5, <1>6, <1>7

(* The key of a new upload is in no record, in no other call and in no     *)
(* handle.                                                                 *)
LEMMA NewKey ==
  ASSUME StoreInv, fresh < MaxFresh, NEW id \in IDs, NEW key, key = PayloadKey(id, fresh + 1)
  PROVE  /\ key \in PayloadKeys
         /\ key \notin published
         /\ key[1] = id /\ key[2] = fresh + 1
         /\ \A d \in Clients : Private(d) => call[d].key # key
<1>1. key \in PayloadKeys
  BY FreshType DEF StoreInv, TypeInv
<1>2. key[1] = id /\ key[2] = fresh + 1
  BY DEF PayloadKey
<1>3. fresh \in Nat
  BY BoundsAssumption DEF StoreInv, TypeInv, TypeOK
<1> QED
  BY <1>1, <1>2, <1>3 DEF StoreInv, FreshInv

(* Uploading a body under a new key keeps StoreInv. *)
LEMMA StoreUpload ==
  ASSUME StoreInv, TypeInv', NEW c \in Clients, UploadPayload(c) \/ UploadFails(c)
  PROVE  StoreInv'
<1> USE DEF StoreInv
<1> DEFINE key == PayloadKey(call[c].id, fresh + 1)
<1>1. call[c].pc = "upload" /\ fresh < MaxFresh /\ fresh' = fresh + 1 /\ call[c].id \in IDs
  BY DEF UploadPayload, UploadFails, TypeInv, CallArgs
<1>2. UNCHANGED <<now, jobs, handle, reaper, lifecycle, published, acked>>
  BY DEF UploadPayload, UploadFails, historyVars
<1>3. /\ key \in PayloadKeys
      /\ key \notin published
      /\ key[1] = call[c].id /\ key[2] = fresh + 1
      /\ \A d \in Clients : Private(d) => call[d].key # key
  BY <1>1, NewKey
<1>4. \/ /\ blobs' = [blobs EXCEPT ![key] = c]
         /\ call'[c].pc = "publish" /\ call'[c].key = key /\ call'[c].id = call[c].id
         /\ \A d \in Clients \ {c} : call'[d] = call[d]
      \/ /\ blobs' \in {blobs, [blobs EXCEPT ![key] = c]}
         /\ call'[c].pc = "idle"
         /\ \A d \in Clients \ {c} : call'[d] = call[d]
  <2>1. CASE UploadPayload(c)
    <3>1. PICK max \in MaxRetries, delay \in Delays :
            call' = [call EXCEPT ![c] =
                       [pc |-> "publish", id |-> call[c].id, key |-> key, max |-> max,
                        availableAt |-> now + delay, createdAt |-> now]]
      BY <2>1 DEF UploadPayload
    <3>2. blobs' = [blobs EXCEPT ![key] = c]
      BY <2>1 DEF UploadPayload
    <3> QED
      BY <3>1, <3>2 DEF TypeInv, TypeOK
  <2>2. CASE UploadFails(c)
    BY <2>2, CallRecords DEF UploadFails, TypeInv, TypeOK
  <2> QED
    BY <2>1, <2>2
<1> HIDE DEF key
<1>5. blobs'[key] = c \/ call'[c].pc # "publish"
  BY <1>3, <1>4 DEF TypeInv, TypeOK
<1>6. \A k \in PayloadKeys : k # key => blobs'[k] = blobs[k]
  BY <1>4 DEF TypeInv, TypeOK
<1>7. fresh \in Nat /\ published \subseteq PayloadKeys
  BY BoundsAssumption DEF TypeInv, TypeOK
<1>8. FreshInv'
  <2>1. \A n \in Nat : n <= fresh => n <= fresh'
    BY <1>1, <1>7
  <2>2. \A k \in published : k[2] \in Nat
    BY DEF TypeInv, TypeOK, PayloadKeys
  <2>3. \A d \in Clients : Private(d)' =>
          call'[d].key[2] = fresh' \/ (Private(d) /\ call'[d].key = call[d].key)
    BY <1>1, <1>3, <1>4 DEF Private
  <2>4. \A d \in Clients : Private(d) => call[d].key[2] \in Nat
    BY DEF TypeInv, CallArgs, Private, PayloadKeys
  <2>5. \A d \in Clients : Private(d)' => call'[d].key[2] <= fresh'
    BY <1>1, <1>7, <2>1, <2>3, <2>4 DEF FreshInv
  <2>6. \A id \in IDs : jobs[id].token \in Nat
    BY DEF TypeInv, TypeOK, JobMeta
  <2>7. \A d \in Clients : handle[d].token \in Nat
    BY DEF TypeInv, TypeOK, Handles
  <2>8. \A q \in Queues : \A item \in Items(q) : item.token \in Nat
    BY DEF TypeInv, TypeOK, Reapers, Items, SweepItem
  <2> QED
    BY <1>2, <2>1, <2>2, <2>5, <2>6, <2>7, <2>8 DEF FreshInv, Items
<1>9. PrivateInv'
  <2>1. \A d \in Clients \ {c} : call'[d] = call[d]
    BY <1>4
  <2>2. Private(c)' => call'[c].pc = "publish" /\ call'[c].key = key /\ call'[c].id = call[c].id
    BY <1>4 DEF Private
  <2>3. \A d \in Clients : call[d].pc = "publish" => call[d].key \in PayloadKeys /\ Private(d)
    BY DEF TypeInv, CallArgs, Private
  <2> QED
    BY <1>2, <1>3, <1>5, <1>6, <2>1, <2>2, <2>3 DEF PrivateInv, Private
<1>10. \A id \in IDs : Exists(jobs[id]) => blobs'[jobs[id].payload] = blobs[jobs[id].payload]
  BY <1>3, <1>6, <1>7 DEF JobInv
<1>11. JobInv' /\ AckedInv' /\ CompletedOnce'
  BY <1>2 DEF JobInv, AckedInv, CompletedOnce
<1>12. PayloadIntact'
  BY <1>2, <1>10 DEF PayloadIntact, Exists
<1>13. TrackInv'
  BY <1>2, <1>3, <1>6, <1>7 DEF TrackInv, Tracked
<1>14. HandleInv'
  <2>1. \A d \in Clients : call'[d].pc \in {"delete", "remove"} => call'[d] = call[d]
    BY <1>4
  <2>2. \A d \in Clients : handle[d].id # 0 => blobs'[handle[d].payload] = blobs[handle[d].payload]
    BY <1>3, <1>6, <1>7 DEF HandleInv
  <2> QED
    BY <1>2, <2>1, <2>2 DEF HandleInv
<1>15. ReaperInv'
  <2>1. \A q \in Queues : \A item \in Items(q) : item.payload \in PayloadKeys
    BY DEF TypeInv, TypeOK, Reapers, Items, SweepItem
  <2>2. \A q \in Queues : \A item \in Items(q) : blobs'[item.payload] = blobs[item.payload]
    BY <1>3, <1>6, <2>1 DEF ReaperInv, AckedInv
  <2> QED
    BY <1>2, <2>2 DEF ReaperInv, Items
<1> QED
  BY <1>8, <1>9, <1>11, <1>12, <1>13, <1>14, <1>15

(* Discarding a body that was never published keeps StoreInv. *)
LEMMA StoreDiscard ==
  ASSUME StoreInv, TypeInv', NEW c \in Clients, DiscardPayload(c)
  PROVE  StoreInv'
<1> USE DEF StoreInv
<1> DEFINE key == call[c].key
<1>1. call[c].pc = "discard" /\ key \in PayloadKeys /\ key \notin published
  BY DEF DiscardPayload, TypeInv, CallArgs, PrivateInv, Private
<1>2. UNCHANGED <<fresh, jobs, handle, reaper, published, acked>>
  BY DEF DiscardPayload, historyVars
<1>3. call'[c].pc = "idle" /\ \A d \in Clients \ {c} : call'[d] = call[d]
  BY CallRecords DEF DiscardPayload, TypeInv, TypeOK
<1>4. \A k \in PayloadKeys : k # key => blobs'[k] = blobs[k]
  BY DEF DiscardPayload, TypeInv, TypeOK
<1>5. \A d \in Clients : Private(d) /\ d # c => call[d].key # key
  BY <1>1 DEF PrivateInv, Private
<1>6. published \subseteq PayloadKeys
  BY DEF TypeInv, TypeOK
<1> HIDE DEF key
<1>7. FreshInv' /\ JobInv' /\ AckedInv' /\ CompletedOnce'
  BY <1>2, <1>3 DEF FreshInv, Private, Items, JobInv, AckedInv, CompletedOnce
<1>8. PrivateInv'
  <2>1. \A d \in Clients : Private(d)' => d # c /\ Private(d) /\ call'[d] = call[d]
    BY <1>3 DEF Private
  <2>2. \A d \in Clients : Private(d) => call[d].key \in PayloadKeys
    BY DEF TypeInv, CallArgs, Private
  <2> QED
    BY <1>2, <1>4, <1>5, <2>1, <2>2 DEF PrivateInv, Private
<1>9. PayloadIntact' /\ TrackInv'
  BY <1>1, <1>2, <1>4, <1>6 DEF PayloadIntact, JobInv, Exists, TrackInv, Tracked
<1>10. HandleInv'
  <2>1. \A d \in Clients : call'[d].pc \in {"delete", "remove"} => call'[d] = call[d]
    BY <1>3
  <2>2. \A d \in Clients : handle[d].id # 0 => blobs'[handle[d].payload] = blobs[handle[d].payload]
    BY <1>1, <1>4, <1>6 DEF HandleInv
  <2> QED
    BY <1>2, <2>1, <2>2 DEF HandleInv
<1>11. ReaperInv'
  <2>1. \A q \in Queues : \A item \in Items(q) : item.payload \in PayloadKeys
    BY DEF TypeInv, TypeOK, Reapers, Items, SweepItem
  <2>2. \A q \in Queues : \A item \in Items(q) : blobs'[item.payload] = blobs[item.payload]
    BY <1>1, <1>4, <2>1 DEF ReaperInv, AckedInv
  <2> QED
    BY <1>2, <2>2 DEF ReaperInv, Items
<1> QED
  BY <1>7, <1>8, <1>9, <1>10, <1>11

(* What the record that Enqueue publishes says. *)
LEMMA NewJobFields ==
  ASSUME NEW c \in Clients
  PROVE  /\ NewJob(c).state = "pending" /\ NewJob(c).payload = call[c].key
         /\ NewJob(c).sha = c /\ NewJob(c).token = 0
BY DEF NewJob

(* Publishing a job keeps StoreInv. *)
LEMMA StorePublish ==
  ASSUME StoreInv, TypeInv', NEW c \in Clients, Publish(c)
  PROVE  StoreInv'
<1> USE DEF StoreInv
<1>0. PICK key, id : key = call[c].key /\ id = call[c].id
  OBVIOUS
<1>1. /\ call[c].pc = "publish" /\ Private(c)
      /\ id \in IDs /\ key \in PayloadKeys
      /\ key \notin published /\ key[1] = id /\ blobs[key] = c /\ key[2] <= fresh
  BY <1>0 DEF Publish, TypeInv, CallArgs, PrivateInv, FreshInv, Private
<1>2. UNCHANGED <<fresh, blobs, handle, reaper, acked>> /\ published' = published \cup {key}
  BY <1>0 DEF Publish
<1>3. call'[c].pc = "idle" /\ \A d \in Clients \ {c} : call'[d] = call[d]
  BY CallRecords DEF Publish, TypeInv, TypeOK
<1>4. /\ ~Exists(jobs[id]) /\ jobs'[id].state = "pending" /\ jobs'[id].payload = key
      /\ jobs'[id].sha = c /\ jobs'[id].token = 0
      /\ \A i \in IDs \ {id} : jobs'[i] = jobs[i]
  BY <1>0, <1>1, NewJobFields DEF Publish, TypeInv, TypeOK
<1>5. acked[key] = {}
  BY <1>1 DEF AckedInv
<1>6. fresh \in Nat /\ published \subseteq PayloadKeys
  BY BoundsAssumption DEF TypeInv, TypeOK
<1>7. \A d \in Clients : Private(d)' => d # c /\ Private(d) /\ call'[d] = call[d]
  BY <1>3 DEF Private
<1>8. FreshInv'
  BY <1>1, <1>2, <1>4, <1>6, <1>7 DEF FreshInv, Items
<1>9. PrivateInv'
  <2>1. \A d \in Clients : Private(d)' => call'[d].key # key
    BY <1>0, <1>1, <1>7 DEF PrivateInv
  <2>2. \A d \in Clients : call'[d].pc = "publish" => Private(d)'
    BY DEF Private
  <2> QED
    BY <1>2, <1>7, <2>1, <2>2 DEF PrivateInv
<1>10. JobInv' /\ PayloadIntact'
  BY <1>1, <1>2, <1>4, <1>5 DEF JobInv, PayloadIntact, Exists
<1>11. TrackInv'
  <2>1. Tracked(key)'
    BY <1>1, <1>4 DEF Tracked, Exists
  <2>2. \A k \in published : Tracked(k) => Tracked(k)'
    <3> SUFFICES ASSUME NEW k \in published, Tracked(k) PROVE Tracked(k)'
      OBVIOUS
    <3>1. k[1] \in IDs
      BY DEF TypeInv, TypeOK, PayloadKeys
    <3>2. k[1] # id
      BY <1>4 DEF Tracked
    <3> QED
      BY <1>4, <3>1, <3>2 DEF Tracked
  <2> QED
    BY <1>2, <2>1, <2>2 DEF TrackInv
<1>12. AckedInv' /\ CompletedOnce'
  BY <1>2 DEF AckedInv, CompletedOnce
<1>13. HandleInv'
  <2>1. \A d \in Clients : call'[d].pc \in {"delete", "remove"} => call'[d] = call[d]
    BY <1>3
  <2>2. \A d \in Clients : handle[d].id # 0 => handle[d].id \in IDs
    BY DEF TypeInv, TypeOK, Handles
  <2> QED
    BY <1>2, <1>4, <2>1, <2>2 DEF HandleInv
<1>14. ReaperInv'
  <2>1. \A q \in Queues : \A item \in Items(q) : item.id \in IDs
    BY DEF TypeInv, TypeOK, Reapers, Items, SweepItem
  <2> QED
    BY <1>2, <1>4, <2>1 DEF ReaperInv, Items
<1> QED
  BY <1>8, <1>9, <1>10, <1>11, <1>12, <1>13, <1>14

(* Claiming a job with a new token keeps StoreInv. *)
LEMMA StoreClaim ==
  ASSUME StoreInv, TypeInv', NEW c \in Clients, ClaimJob(c)
  PROVE  StoreInv'
<1> USE DEF StoreInv
<1>1. PICK id \in IDs, until \in Nat :
        /\ jobs[id].state = "pending"
        /\ jobs' = [jobs EXCEPT ![id] = Claimed(@, until, fresh + 1)]
        /\ handle' = [handle EXCEPT ![c] =
                        [id |-> id, token |-> fresh + 1, payload |-> jobs[id].payload,
                         sha |-> jobs[id].sha, until |-> until,
                         released |-> FALSE]]
  BY ReadingType DEF ClaimJob, Candidates, TypeInv
<1>2. UNCHANGED <<blobs, reaper, published, acked>> /\ fresh' = fresh + 1
  BY DEF ClaimJob, historyVars
<1>3. call'[c].pc = "idle" /\ \A d \in Clients \ {c} : call'[d] = call[d]
  BY CallRecords DEF ClaimJob, TypeInv, TypeOK
<1>4. fresh \in Nat /\ fresh + 1 \in Nat /\ jobs[id] \in JobMeta /\ jobs \in [IDs -> JobMeta]
  BY BoundsAssumption DEF TypeInv, TypeOK
<1>5. /\ jobs'[id].state = "claimed" /\ jobs'[id].payload = jobs[id].payload
      /\ jobs'[id].sha = jobs[id].sha /\ jobs'[id].token = fresh + 1
      /\ \A i \in IDs \ {id} : jobs'[i] = jobs[i]
  <2>1. PICK m \in JobMeta : m = Claimed(jobs[id], until, fresh + 1) /\ jobs' = [jobs EXCEPT ![id] = m]
    BY <1>1, <1>4, ClaimedRecord
  <2>2. /\ m.state = "claimed" /\ m.payload = jobs[id].payload
        /\ m.sha = jobs[id].sha /\ m.token = fresh + 1
    BY <1>4, <2>1, ClaimedRecord
  <2> QED
    BY <1>4, <2>1, <2>2
<1>6. /\ handle'[c].id = id /\ handle'[c].token = fresh + 1
      /\ handle'[c].payload = jobs[id].payload
      /\ \A d \in Clients \ {c} : handle'[d] = handle[d]
  BY <1>1 DEF TypeInv, TypeOK
<1>7. /\ jobs[id].payload \in published /\ jobs[id].payload[1] = id
      /\ acked[jobs[id].payload] = {}
  BY <1>1 DEF JobInv, Exists
<1>8. FreshInv'
  <2>1. \A d \in Clients : Private(d)' => Private(d) /\ call'[d] = call[d]
    BY <1>3 DEF Private
  <2>2. \A k \in published : k[2] \in Nat
    BY DEF TypeInv, TypeOK, PayloadKeys
  <2>3. \A d \in Clients : Private(d) => call[d].key[2] \in Nat
    BY DEF TypeInv, CallArgs, Private, PayloadKeys
  <2>4. \A i \in IDs : jobs[i].token \in Nat
    BY DEF TypeInv, TypeOK, JobMeta
  <2>5. \A d \in Clients : handle[d].token \in Nat
    BY DEF TypeInv, TypeOK, Handles
  <2>6. \A q \in Queues : \A item \in Items(q) : item.token \in Nat
    BY DEF TypeInv, TypeOK, Reapers, Items, SweepItem
  <2>7. \A n \in Nat : n <= fresh => n <= fresh'
    BY <1>2, <1>4
  <2>8. \A i \in IDs : jobs'[i].token <= fresh'
    BY <1>2, <1>4, <1>5, <2>4, <2>7 DEF FreshInv
  <2>9. \A d \in Clients : handle'[d].token <= fresh'
    BY <1>2, <1>4, <1>6, <2>5, <2>7 DEF FreshInv
  <2> QED
    BY <1>2, <2>1, <2>2, <2>3, <2>6, <2>7, <2>8, <2>9 DEF FreshInv, Items
<1>9. PrivateInv'
  BY <1>2, <1>3 DEF PrivateInv, Private
<1>10. JobInv' /\ PayloadIntact'
  <2>1. jobs[id].state = "pending" /\ blobs[jobs[id].payload] = jobs[id].sha
    BY <1>1 DEF PayloadIntact
  <2> QED
    BY <1>2, <1>5, <1>7, <2>1 DEF JobInv, PayloadIntact, Exists
<1>11. TrackInv'
  <2>1. \A k \in published : k[1] \in IDs
    BY DEF TypeInv, TypeOK, PayloadKeys
  <2>2. \A i \in IDs : Exists(jobs[i]) => Exists(jobs'[i]) /\ jobs'[i].payload = jobs[i].payload
    BY <1>5 DEF Exists
  <2> QED
    BY <1>2, <2>1, <2>2 DEF TrackInv, Tracked
<1>12. AckedInv' /\ CompletedOnce'
  BY <1>2 DEF AckedInv, CompletedOnce
<1>13. HandleInv'
  <2>1. \A d \in Clients : call'[d].pc \in {"delete", "remove"} => d # c /\ call'[d] = call[d]
    BY <1>3
  <2>2. \A d \in Clients : handle[d].id # 0 => handle[d].id \in IDs
    BY DEF TypeInv, TypeOK, Handles
  <2>3. \A d \in Clients : handle[d].token # fresh + 1
    BY <1>4 DEF FreshInv, TypeInv, TypeOK, Handles
  <2> QED
    BY <1>2, <1>4, <1>5, <1>6, <1>7, <2>1, <2>2, <2>3 DEF HandleInv
<1>14. ReaperInv'
  <2>1. \A q \in Queues : \A item \in Items(q) : item.id \in IDs /\ item.token \in Nat
    BY DEF TypeInv, TypeOK, Reapers, Items, SweepItem
  <2>2. \A q \in Queues : \A item \in Items(q) : item.token # fresh + 1
    BY <1>4, <2>1 DEF FreshInv
  <2> QED
    BY <1>2, <1>5, <2>1, <2>2 DEF ReaperInv, Items
<1> QED
  BY <1>8, <1>9, <1>10, <1>11, <1>12, <1>13, <1>14

(* What the check of the lease tells about the record it is made on. *)
LEMMA Holding ==
  ASSUME StoreInv, NEW c \in Clients, HasJob(c), NEW t, HoldsLease(Held(c), handle[c], t)
  PROVE  /\ handle[c].id \in IDs
         /\ jobs[handle[c].id].state = "claimed"
         /\ jobs[handle[c].id].token = handle[c].token
         /\ jobs[handle[c].id].payload = handle[c].payload
         /\ handle[c].payload \in published
         /\ acked[handle[c].payload] = {}
<1>1. handle[c].id # 0 /\ handle[c].id \in IDs
  BY DEF HasJob, StoreInv, TypeInv, TypeOK, Handles
<1>2. jobs[handle[c].id].state = "claimed" /\ jobs[handle[c].id].token = handle[c].token
  BY DEF HoldsLease, Held
<1>3. jobs[handle[c].id].payload = handle[c].payload /\ handle[c].payload \in published
  BY <1>1, <1>2 DEF StoreInv, HandleInv
<1> QED
  BY <1>1, <1>2, <1>3 DEF StoreInv, JobInv, Exists

(* Complete's first transaction keeps StoreInv. *)
LEMMA StoreMark ==
  ASSUME StoreInv, TypeInv', NEW c \in Clients, CompleteMark(c)
  PROVE  StoreInv'
<1> USE DEF StoreInv
<1>0. PICK id, key, n : id = handle[c].id /\ key = handle[c].payload /\ n = handle[c].token
  OBVIOUS
<1>1. /\ id \in IDs /\ id # 0 /\ n # 0
      /\ jobs[id].state = "claimed" /\ jobs[id].token = n /\ jobs[id].payload = key
      /\ key \in published /\ key \in PayloadKeys /\ acked[key] = {}
  <2>1. PICK t : HoldsLease(Held(c), handle[c], t)
    BY DEF CompleteMark
  <2> QED
    BY <1>0, <2>1, Holding DEF CompleteMark, HasJob, TypeInv, TypeOK, HandleInv
<1>2. UNCHANGED <<fresh, blobs, reaper, published>>
  BY DEF CompleteMark
<1>3. /\ acked'[key] = {n}
      /\ \A k \in PayloadKeys : k # key => acked'[k] = acked[k]
  BY <1>0, <1>1 DEF CompleteMark, Held, TypeInv, TypeOK
<1>4. /\ jobs'[id].state = "completed" /\ jobs'[id].payload = key
      /\ jobs'[id].sha = jobs[id].sha /\ jobs'[id].token = n
      /\ \A i \in IDs \ {id} : jobs'[i] = jobs[i]
  <2>1. jobs \in [IDs -> JobMeta] /\ jobs' = [jobs EXCEPT ![id] = MarkCompleted(jobs[id])]
    BY <1>0 DEF CompleteMark, TypeInv, TypeOK
  <2> QED
    BY <1>1, <2>1, MarkCompletedRecord
<1>5. \A d \in Clients : /\ handle'[d].id = handle[d].id /\ handle'[d].token = handle[d].token
                        /\ handle'[d].payload = handle[d].payload
  BY DEF CompleteMark, TypeInv, TypeOK, Handles
<1>6. call'[c].pc = "delete" /\ \A d \in Clients \ {c} : call'[d] = call[d]
  BY CallRecords DEF CompleteMark, TypeInv, TypeOK
<1>7. FreshInv'
  BY <1>1, <1>2, <1>4, <1>5, <1>6 DEF FreshInv, Items, Private
<1>8. PrivateInv'
  BY <1>2, <1>6 DEF PrivateInv, Private
<1>9. JobInv'
  <2>1. \A i \in IDs : i # id /\ Exists(jobs[i]) => jobs[i].payload \in PayloadKeys /\ jobs[i].payload # key
    BY <1>1 DEF JobInv, Exists, TypeInv, TypeOK
  <2> QED
    BY <1>1, <1>2, <1>3, <1>4, <2>1 DEF JobInv, Exists
<1>10. PayloadIntact'
  BY <1>2, <1>4 DEF PayloadIntact
<1>11. TrackInv'
  <2>1. \A k \in published : k[1] \in IDs /\ k \in PayloadKeys
    BY DEF TypeInv, TypeOK, PayloadKeys
  <2>2. \A i \in IDs : Exists(jobs[i]) => Exists(jobs'[i]) /\ jobs'[i].payload = jobs[i].payload
    BY <1>1, <1>4 DEF Exists
  <2>3. \A k \in published : acked[k] # {} => acked'[k] # {}
    BY <1>3, <2>1
  <2> QED
    BY <1>2, <2>1, <2>2, <2>3 DEF TrackInv, Tracked
<1>12. AckedInv' /\ CompletedOnce'
  BY <1>1, <1>2, <1>3 DEF AckedInv, CompletedOnce
<1>13. HandleInv'
  <2>1. \A d \in Clients : handle[d].id # 0 => handle[d].id \in IDs /\ handle[d].payload \in PayloadKeys
    BY DEF TypeInv, TypeOK, Handles, HandleInv
  <2>2. \A i \in IDs : jobs'[i].token = jobs[i].token /\ jobs'[i].payload = jobs[i].payload
    BY <1>1, <1>4
  <2>3. \A k \in PayloadKeys : acked[k] # {} => acked'[k] # {}
    BY <1>3
  <2> QED
    <3>1. acked'[handle'[c].payload] # {} /\ handle'[c].id # 0 /\ call'[c].pc = "delete"
      BY <1>0, <1>1, <1>3, <1>5, <1>6
    <3>2. \A d \in Clients : call'[d].pc \in {"delete", "remove"} => d = c \/ call'[d] = call[d]
      BY <1>6
    <3>3. \A d \in Clients : handle'[d].id # 0 =>
            /\ handle'[d].payload \in published
            /\ handle'[d].payload[1] = handle'[d].id
            /\ handle'[d].token # 0
            /\ jobs'[handle'[d].id].token = handle'[d].token
                 => jobs'[handle'[d].id].payload = handle'[d].payload
      BY <1>5, <2>1, <2>2 DEF HandleInv
    <3>4. \A d \in Clients : call'[d].pc \in {"delete", "remove"} =>
            handle'[d].id # 0 /\ acked'[handle'[d].payload] # {}
      BY <1>5, <2>1, <2>3, <3>1, <3>2 DEF HandleInv
    <3>5. \A d \in Clients : call'[d].pc = "remove" => blobs[handle'[d].payload] = NoBody
      BY <1>5, <1>6 DEF HandleInv
    <3> QED
      BY <1>2, <3>3, <3>4, <3>5 DEF HandleInv
<1>14. ReaperInv'
  <2>1. \A q \in Queues : \A item \in Items(q) : item.id \in IDs /\ item.payload \in PayloadKeys
    BY DEF TypeInv, TypeOK, Reapers, Items, SweepItem
  <2>2. \A i \in IDs : jobs'[i].token = jobs[i].token /\ jobs'[i].payload = jobs[i].payload
    BY <1>1, <1>4
  <2>3. \A k \in PayloadKeys : acked[k] # {} => acked'[k] # {}
    BY <1>3
  <2> QED
    BY <1>2, <2>1, <2>2, <2>3 DEF ReaperInv, Items
<1> QED
  BY <1>7, <1>8, <1>9, <1>10, <1>11, <1>12, <1>13, <1>14

(* A Complete that finds the record gone or completed cleans up after a    *)
(* job that somebody completed: a job is not lost any other way.           *)
LEMMA StoreResume ==
  ASSUME StoreInv, TypeInv', NEW c \in Clients, CompleteResume(c)
  PROVE  StoreInv'
<1> USE DEF StoreInv
<1>1. UNCHANGED <<fresh, jobs, blobs, handle, reaper, published, acked>>
  BY DEF CompleteResume, storeVars, historyVars
<1>2. call'[c].pc = "delete" /\ \A d \in Clients \ {c} : call'[d] = call[d]
  BY CallRecords DEF CompleteResume, TypeInv, TypeOK
<1>3. handle[c].id # 0 /\ handle[c].id \in IDs
  BY DEF CompleteResume, HasJob, TypeInv, TypeOK, Handles
<1>4. acked[handle[c].payload] # {}
  <2>1. CASE ~Exists(Held(c))
    BY <1>3, <2>1 DEF HandleInv, TrackInv, Tracked, Held
  <2>2. CASE Held(c).state = "completed" /\ Held(c).token = handle[c].token
    BY <1>3, <2>2 DEF HandleInv, JobInv, Exists, Held
  <2> QED
    BY <2>1, <2>2 DEF CompleteResume
<1>5. HandleInv'
  BY <1>1, <1>2, <1>3, <1>4 DEF HandleInv
<1> QED
  BY <1>1, <1>2, <1>5 DEF FreshInv, Private, Items, PrivateInv, JobInv, TrackInv, Tracked,
     AckedInv, ReaperInv, PayloadIntact, CompletedOnce

(* Deleting the body of a completed job. *)
LEMMA StoreDelete ==
  ASSUME StoreInv, TypeInv', NEW key \in PayloadKeys, acked[key] # {},
         blobs' = [blobs EXCEPT ![key] = NoBody],
         UNCHANGED <<fresh, jobs, handle, published, acked>>,
         \A c \in Clients : \/ call'[c] = call[c]
                            \/ /\ call[c].pc = "delete" /\ call'[c].pc = "remove"
                               /\ handle[c].payload = key,
         \A q \in Queues : /\ Items(q)' \subseteq Items(q)
                           /\ \A item \in reaper'[q].swept :
                                item \in reaper[q].swept \/ item.payload = key
  PROVE  StoreInv'
<1> USE DEF StoreInv
<1>1. /\ blobs'[key] = NoBody
      /\ \A k \in PayloadKeys : k # key => blobs'[k] = blobs[k]
  BY DEF TypeInv, TypeOK
<1>2. \A c \in Clients : Private(c)' => Private(c) /\ call'[c] = call[c]
  BY DEF Private
<1>3. FreshInv' /\ JobInv' /\ AckedInv' /\ CompletedOnce'
  BY <1>2 DEF FreshInv, JobInv, AckedInv, CompletedOnce
<1>4. PrivateInv'
  <2>1. \A c \in Clients : Private(c) => call[c].key \in PayloadKeys /\ call[c].key # key
    BY DEF TypeInv, CallArgs, Private, PrivateInv, AckedInv
  <2> QED
    BY <1>1, <1>2, <2>1 DEF PrivateInv, Private
<1>5. PayloadIntact'
  <2>1. \A id \in IDs : jobs[id].state \in Live => jobs[id].payload \in PayloadKeys /\ jobs[id].payload # key
    BY DEF JobInv, Exists, Live, TypeInv, TypeOK
  <2> QED
    BY <1>1, <2>1 DEF PayloadIntact, Live
<1>6. TrackInv'
  <2>1. published \subseteq PayloadKeys
    BY DEF TypeInv, TypeOK
  <2> QED
    BY <1>1, <2>1 DEF TrackInv, Tracked
<1>7. HandleInv'
  <2>1. \A c \in Clients : call[c].pc = "remove" => handle[c].payload \in PayloadKeys
    BY DEF HandleInv, TypeInv, TypeOK
  <2> QED
    BY <1>1, <2>1 DEF HandleInv
<1>8. ReaperInv'
  <2>1. \A q \in Queues : \A item \in Items(q) : item.payload \in PayloadKeys
    BY DEF TypeInv, TypeOK, Reapers, Items, SweepItem
  <2> QED
    BY <1>1, <2>1 DEF ReaperInv, Items
<1> QED
  BY <1>3, <1>4, <1>5, <1>6, <1>7, <1>8

(* Removing the record of a completed job whose body is gone. *)
LEMMA StoreRemove ==
  ASSUME StoreInv, TypeInv',
         NEW id \in IDs, jobs[id].state = "completed", blobs[jobs[id].payload] = NoBody,
         jobs' = [jobs EXCEPT ![id] = Absent],
         UNCHANGED <<fresh, blobs, published, acked>>, KeepsCalls, KeepsHandles,
         \A q \in Queues : Items(q)' \subseteq Items(q) /\ reaper'[q].swept \subseteq reaper[q].swept
  PROVE  StoreInv'
<1> USE DEF StoreInv
<1>1. /\ jobs'[id].state = "absent" /\ jobs'[id].token = 0
      /\ \A i \in IDs \ {id} : jobs'[i] = jobs[i]
  BY DEF TypeInv, TypeOK, Absent
<1>2. \A c \in Clients :
        Private(c)' => Private(c) /\ call'[c].key = call[c].key /\ call'[c].id = call[c].id
  BY DEF KeepsCalls, Private
<1>3. FreshInv'
  <2>1. fresh \in Nat
    BY BoundsAssumption DEF TypeInv, TypeOK
  <2>2. \A i \in IDs : jobs'[i].token <= fresh
    BY <1>1, <2>1 DEF FreshInv
  <2>3. \A c \in Clients : handle'[c].token <= fresh
    BY <2>1, NoHandleFields DEF KeepsHandles, FreshInv
  <2> QED
    BY <1>2, <2>2, <2>3 DEF FreshInv
<1>4. PrivateInv'
  <2>1. \A c \in Clients : call'[c].pc = "publish" => call'[c] = call[c]
    BY DEF KeepsCalls
  <2> QED
    BY <1>2, <2>1 DEF PrivateInv
<1>5. JobInv' /\ PayloadIntact' /\ AckedInv' /\ CompletedOnce'
  <2>1. JobInv'
    BY <1>1 DEF JobInv, Exists
  <2>2. PayloadIntact'
    BY <1>1 DEF PayloadIntact
  <2>3. AckedInv' /\ CompletedOnce'
    BY DEF AckedInv, CompletedOnce
  <2> QED
    BY <2>1, <2>2, <2>3
<1>6. TrackInv'
  <2> SUFFICES ASSUME NEW k \in published
               PROVE  (acked[k] # {} \/ Tracked(k)') /\ (blobs[k] # NoBody => Tracked(k)')
    BY DEF TrackInv
  <2>1. k[1] \in IDs
    BY DEF TypeInv, TypeOK, PayloadKeys
  <2>2. CASE jobs[id].payload = k
    BY <2>2 DEF JobInv, Exists
  <2>3. CASE jobs[id].payload # k
    BY <1>1, <2>1, <2>3 DEF TrackInv, Tracked
  <2> QED
    BY <2>2, <2>3
<1>7. HandleInv'
  <2>1. \A c \in Clients : call'[c].pc \in {"delete", "remove"} => call'[c] = call[c]
    BY DEF KeepsCalls
  <2>2. Idle.pc = "idle"
    BY CallRecords
  <2>3. \A c \in Clients : handle[c].id # 0 => handle[c].id \in IDs
    BY DEF TypeInv, TypeOK, Handles
  <2> QED
    BY <1>1, <2>1, <2>2, <2>3, NoHandleFields DEF KeepsHandles, HandleInv
<1>8. ReaperInv'
  <2>1. \A q \in Queues : \A item \in Items(q) : item.id \in IDs
    BY DEF TypeInv, TypeOK, Reapers, Items, SweepItem
  <2> QED
    BY <1>1, <2>1 DEF ReaperInv
<1> QED
  BY <1>3, <1>4, <1>5, <1>6, <1>7, <1>8

-----------------------------------------------------------------------------
(* Every step keeps the invariant *)

(* Every step keeps the types. *)
LEMMA TypeNext == StoreInv /\ [Next]_vars => TypeInv'
<1> SUFFICES ASSUME StoreInv, [Next]_vars PROVE TypeInv'
  OBVIOUS
<1>1. TypeInv /\ CompletedItems \subseteq SweepItem
  BY Collected DEF StoreInv
<1>2. ASSUME NEW c \in Clients, ClientStep(c) PROVE TypeInv'
  BY <1>1, <1>2, TypeEnqueue, TypeClaim, TypeJob DEF ClientStep
<1>3. ASSUME NEW q \in Queues, MaintenanceStep(q) PROVE TypeInv'
  BY <1>1, <1>3, TypeMaintenance
<1>4. CASE (\E q \in Queues : ProcessStep(q)) \/ Tick
  BY <1>1, <1>4, TypeProcess
<1>5. CASE UNCHANGED vars
  BY <1>1, <1>5 DEF vars, TypeInv, TypeOK, CallArgs
<1> QED
  BY <1>2, <1>3, <1>4, <1>5 DEF Next

(* Steps that change no job leave every job where it is, and so on. *)
LEMMA Unmoved ==
  /\ UNCHANGED jobs => MovesJobs
  /\ UNCHANGED call => KeepsCalls
  /\ UNCHANGED handle => KeepsHandles
  /\ UNCHANGED reaper => CollectsItems
BY DEF MovesJobs, KeepsCalls, KeepsHandles, CollectsItems

(* Writing one record that stays before completion only moves jobs. *)
LEMMA MovesOne ==
  ASSUME TypeOK, NEW id \in IDs, NEW m, jobs' = [jobs EXCEPT ![id] = m],
         jobs[id].state \in Live, m.state \in Live, m.payload = jobs[id].payload,
         m.sha = jobs[id].sha, m.token \in {jobs[id].token, 0}
  PROVE  MovesJobs
BY DEF TypeOK, MovesJobs

(* A call that ends, or begins without a body, keeps the other calls. *)
LEMMA KeepsOther ==
  ASSUME TypeOK, NEW c \in Clients, NEW r, call' = [call EXCEPT ![c] = r],
         r.pc \in {"idle", "upload", "claim", "requeue"}
  PROVE  KeepsCalls
BY DEF TypeOK, KeepsCalls

(* Every step of a client keeps StoreInv. *)
LEMMA StoreClient ==
  ASSUME StoreInv, TypeInv', NEW c \in Clients, ClientStep(c)
  PROVE  StoreInv'
<1> USE DEF storeVars, historyVars
<1>1. CASE \/ EnqueueBegin(c) \/ PublishRejected(c) \/ ClaimBegin(c) \/ ClaimNothing(c)
           \/ CompleteFails(c) \/ RequeueBegin(c) \/ RequeueRejected(c)
  <2>1. UNCHANGED <<fresh, jobs, blobs, handle, reaper, published, acked>>
    BY <1>1 DEF EnqueueBegin, PublishRejected, ClaimBegin, ClaimNothing, CompleteFails,
                RequeueBegin, RequeueRejected
  <2>2. KeepsCalls
    <3>0. TypeOK /\ 0 \in Nat /\ now \in Nat
      BY ReadingType DEF StoreInv, TypeInv
    <3>1. CASE EnqueueBegin(c)
      <4>1. PICK id \in IDs : call' = [call EXCEPT ![c] = Begun("upload", id, 0)]
        BY <3>1 DEF EnqueueBegin
      <4>2. Begun("upload", id, 0).pc = "upload"
        BY DEF Begun
      <4> QED
        BY <3>0, <4>1, <4>2, KeepsOther
    <3>2. CASE PublishRejected(c)
      <4>1. PICK r \in Calls : /\ call' = [call EXCEPT ![c] = r]
                               /\ r.pc = "discard" /\ r.id = call[c].id /\ r.key = call[c].key
        BY <3>0, <3>2, RejectedCall
      <4>2. call[c].pc = "publish"
        BY <3>2 DEF PublishRejected
      <4> QED
        BY <3>0, <4>1, <4>2 DEF KeepsCalls, TypeOK
    <3>3. CASE ClaimBegin(c)
      BY <3>3, CallRecords DEF ClaimBegin, KeepsCalls, StoreInv, TypeInv, TypeOK
    <3>4. CASE ClaimNothing(c) \/ CompleteFails(c) \/ RequeueRejected(c)
      BY <3>4, CallRecords
         DEF ClaimNothing, CompleteFails, RequeueRejected, KeepsCalls, StoreInv, TypeInv, TypeOK
    <3>5. CASE RequeueBegin(c)
      <4>1. PICK id \in IDs : call' = [call EXCEPT ![c] = Begun("requeue", id, now)]
        BY <3>5 DEF RequeueBegin
      <4>2. Begun("requeue", id, now).pc = "requeue"
        BY DEF Begun
      <4> QED
        BY <3>0, <4>1, <4>2, KeepsOther
    <3> QED
      BY <1>1, <3>1, <3>2, <3>3, <3>4, <3>5
  <2> QED
    BY <2>1, <2>2, Unmoved, MovingStep
<1>2. CASE Renew(c) \/ Retry(c) \/ Dead(c)
  <2>1. UNCHANGED <<fresh, blobs, call, reaper, published, acked>>
    BY <1>2 DEF Renew, Retry, Dead
  <2>2. KeepsHandles
    BY <1>2 DEF Renew, Retry, Dead, KeepsHandles, StoreInv, TypeInv, TypeOK, Handles
  <2>3. HasJob(c) /\ \E t \in ClockReadings : HoldsLease(Held(c), handle[c], t)
    BY <1>2 DEF Renew, Retry, Dead
  <2>4. handle[c].id \in IDs /\ jobs[handle[c].id].state = "claimed"
    BY <2>3, Holding
  <2>5. PICK at \in Nat : \/ jobs' = [jobs EXCEPT ![handle[c].id] = Renewed(@, at)]
                          \/ jobs' = [jobs EXCEPT ![handle[c].id] = GivenBack(@, at)]
                          \/ jobs' = [jobs EXCEPT ![handle[c].id] = Killed(@)]
    <3>1. 0 \in Nat /\ TypeOK
      BY DEF StoreInv, TypeInv
    <3> QED
      BY <1>2, <3>1, ReadingType DEF Renew, Retry, Dead
  <2>6. MovesJobs
    <3>1. TypeOK /\ jobs[handle[c].id] \in JobMeta
      BY <2>4 DEF StoreInv, TypeInv, TypeOK
    <3>2. PICK m : /\ jobs' = [jobs EXCEPT ![handle[c].id] = m]
                   /\ m \in {Renewed(jobs[handle[c].id], at), GivenBack(jobs[handle[c].id], at),
                             Killed(jobs[handle[c].id])}
      BY <2>5
    <3>3. /\ m.state \in Live /\ m.payload = jobs[handle[c].id].payload
          /\ m.sha = jobs[handle[c].id].sha /\ m.token \in {jobs[handle[c].id].token, 0}
      <4>1. CASE m = Renewed(jobs[handle[c].id], at)
        BY <2>4, <3>1, <4>1, RenewedRecord DEF Live
      <4>2. CASE m = GivenBack(jobs[handle[c].id], at)
        BY <3>1, <4>2, GivenBackRecord DEF Live
      <4>3. CASE m = Killed(jobs[handle[c].id])
        BY <3>1, <4>3, KilledRecord DEF Live
      <4> QED
        BY <3>2, <4>1, <4>2, <4>3
    <3>4. jobs[handle[c].id].state \in Live
      BY <2>4 DEF Live
    <3> QED
      BY <2>4, <3>1, <3>2, <3>3, <3>4, MovesOne
  <2> QED
    BY <2>1, <2>2, <2>6, Unmoved, MovingStep
<1>3. CASE RequeueDead(c)
  <2>1. UNCHANGED <<fresh, blobs, handle, reaper, published, acked>>
    BY <1>3 DEF RequeueDead
  <2>2. KeepsCalls
    BY <1>3, CallRecords DEF RequeueDead, KeepsCalls, StoreInv, TypeInv, TypeOK
  <2>3. call[c].availableAt \in Nat
    BY DEF StoreInv, TypeInv, TypeOK, Calls
  <2>4. MovesJobs
    <3>1. TypeOK /\ call[c].id \in IDs /\ jobs[call[c].id] \in JobMeta
      BY <1>3 DEF RequeueDead, StoreInv, TypeInv, CallArgs, TypeOK
    <3>2. PICK m : /\ jobs' = [jobs EXCEPT ![call[c].id] = m]
                   /\ m = Requeued(jobs[call[c].id], call[c].availableAt)
      BY <1>3 DEF RequeueDead
    <3>3. /\ m.state \in Live /\ m.payload = jobs[call[c].id].payload
          /\ m.sha = jobs[call[c].id].sha /\ m.token = jobs[call[c].id].token
      BY <2>3, <3>1, <3>2, RequeuedRecord DEF Live
    <3>4. jobs[call[c].id].state \in Live
      BY <1>3 DEF RequeueDead, Live
    <3> QED
      BY <3>1, <3>2, <3>3, <3>4, MovesOne
  <2> QED
    BY <2>1, <2>2, <2>4, Unmoved, MovingStep
<1>4. CASE CompleteDelete(c)
  <2>1. /\ call[c].pc = "delete" /\ handle[c].payload \in PayloadKeys
        /\ acked[handle[c].payload] # {}
    BY <1>4 DEF CompleteDelete, StoreInv, HandleInv, TypeInv, TypeOK
  <2>2. call'[c].pc = "remove" /\ \A d \in Clients \ {c} : call'[d] = call[d]
    BY <1>4, CallRecords DEF CompleteDelete, StoreInv, TypeInv, TypeOK
  <2>3. /\ UNCHANGED <<fresh, jobs, handle, reaper, published, acked>>
        /\ blobs' = [blobs EXCEPT ![handle[c].payload] = NoBody]
    BY <1>4 DEF CompleteDelete
  <2>4. \A q \in Queues : Items(q)' \subseteq Items(q)
    BY <2>3 DEF Items
  <2> QED
    BY <2>1, <2>2, <2>3, <2>4, StoreDelete
<1>5. CASE CompleteRemove(c)
  <2>1. UNCHANGED <<fresh, blobs, reaper, published, acked>>
    BY <1>5 DEF CompleteRemove
  <2>2. KeepsCalls
    BY <1>5, CallRecords DEF CompleteRemove, KeepsCalls, StoreInv, TypeInv, TypeOK
  <2>3. KeepsHandles
    BY <1>5 DEF CompleteRemove, KeepsHandles, StoreInv, TypeInv, TypeOK, Handles
  <2>4. CASE Removable(Held(c), handle[c].token)
    <3>1. /\ handle[c].id \in IDs
          /\ jobs[handle[c].id].state = "completed"
          /\ blobs[jobs[handle[c].id].payload] = NoBody
      BY <1>5, <2>4
         DEF CompleteRemove, Removable, Held, StoreInv, HandleInv, TypeInv, TypeOK, Handles
    <3>2. jobs' = [jobs EXCEPT ![handle[c].id] = Absent]
      BY <1>5, <2>4 DEF CompleteRemove
    <3>3. \A q \in Queues : Items(q)' \subseteq Items(q)
      BY <2>1 DEF Items
    <3> QED
      BY <2>1, <2>2, <2>3, <3>1, <3>2, <3>3, StoreRemove
  <2>5. CASE ~Removable(Held(c), handle[c].token)
    BY <1>5, <2>1, <2>2, <2>3, <2>5, Unmoved, MovingStep DEF CompleteRemove
  <2> QED
    BY <2>4, <2>5
<1> QED
  BY <1>1, <1>2, <1>3, <1>4, <1>5, StoreUpload, StorePublish, StoreDiscard, StoreClaim,
     StoreMark, StoreResume DEF ClientStep

(* What the steps of a maintenance goroutine leave of its items. *)
LEMMA ReaperFields ==
  ASSUME NEW r \in Reapers, NEW b \in BOOLEAN, NEW item
  PROVE  /\ [r EXCEPT !.cancelled = b].todo = r.todo
         /\ [r EXCEPT !.cancelled = b].swept = r.swept
         /\ [r EXCEPT !.pc = "idle"].todo = r.todo
         /\ [r EXCEPT !.pc = "idle"].swept = r.swept
         /\ [r EXCEPT !.todo = r.todo \ {item}].todo = r.todo \ {item}
         /\ [r EXCEPT !.todo = r.todo \ {item}].swept = r.swept
         /\ [r EXCEPT !.pc = "sweep", !.swept = {}].todo = r.todo
         /\ [r EXCEPT !.pc = "sweep", !.swept = {}].swept = {}
BY DEF Reapers

(* A step of one goroutine that collects no new items. *)
LEMMA CollectsLess ==
  ASSUME TypeOK, NEW q \in Queues, NEW r, reaper' = [reaper EXCEPT ![q] = r],
         r.todo \subseteq reaper[q].todo, r.swept \subseteq reaper[q].swept
  PROVE  CollectsItems
BY DEF TypeOK, CollectsItems

(* Every step of a maintenance goroutine keeps StoreInv. *)
LEMMA StoreMaintenance ==
  ASSUME StoreInv, TypeInv', NEW q \in Queues, MaintenanceStep(q)
  PROVE  StoreInv'
<1> USE DEF storeVars, historyVars
<1>0. TypeOK /\ reaper[q] \in Reapers /\ reaper \in [Queues -> Reapers]
  BY DEF StoreInv, TypeInv, TypeOK
<1>1. CASE \/ StartMaintenance(q) \/ CancelMaintenance(q)
           \/ ReapBegin(q) \/ ReapFails(q) \/ SweepDone(q) \/ ReaperExit(q)
           \/ SweepDeleteFails(q) \/ SweepRemoveFails(q)
  <2>1. UNCHANGED <<fresh, jobs, blobs, call, handle, published, acked>>
    BY <1>1 DEF StartMaintenance, CancelMaintenance, ReapBegin, ReapFails,
                SweepDone, ReaperExit, SweepDeleteFails, SweepRemoveFails
  <2>2. CollectsItems
    <3>1. CASE StartMaintenance(q) \/ CancelMaintenance(q)
      <4>1. CASE StartMaintenance(q)
        BY <1>0, <4>1, ReaperFields, CollectsLess DEF StartMaintenance
      <4>2. CASE CancelMaintenance(q)
        BY <1>0, <4>2, ReaperFields, CollectsLess DEF CancelMaintenance
      <4> QED
        BY <3>1, <4>1, <4>2
    <3>2. CASE ReapBegin(q) \/ ReapFails(q) \/ SweepDone(q) \/ ReaperExit(q)
      <4>1. PICK r : /\ reaper' = [reaper EXCEPT ![q] = r]
                     /\ r.todo = reaper[q].todo /\ r.swept = reaper[q].swept
        BY <1>0, <3>2 DEF ReapBegin, ReapFails, SweepDone, ReaperExit, Reapers
      <4> QED
        BY <1>0, <4>1, CollectsLess
    <3>3. CASE SweepDeleteFails(q) \/ SweepRemoveFails(q)
      <4>1. CASE SweepDeleteFails(q)
        <5>1. PICK item \in reaper[q].todo :
                reaper' = [reaper EXCEPT ![q] = [reaper[q] EXCEPT !.todo = reaper[q].todo \ {item}]]
          BY <4>1 DEF SweepDeleteFails
        <5>2. PICK r : r = [reaper[q] EXCEPT !.todo = reaper[q].todo \ {item}]
          OBVIOUS
        <5>3. r.todo = reaper[q].todo \ {item} /\ r.swept = reaper[q].swept
          BY <1>0, <5>2 DEF Reapers
        <5> QED
          BY <1>0, <5>1, <5>2, <5>3, CollectsLess
      <4>2. CASE SweepRemoveFails(q)
        BY <1>0, <4>2, ReaperFields, CollectsLess DEF SweepRemoveFails
      <4> QED
        BY <3>3, <4>1, <4>2
    <3> QED
      BY <1>1, <3>1, <3>2, <3>3
  <2> QED
    BY <2>1, <2>2, Unmoved, MovingStep
<1>2. CASE ReapExpired(q)
  <2>1. UNCHANGED <<fresh, blobs, call, handle, published, acked>>
    BY <1>2 DEF ReapExpired
  <2>2. PICK t \in Nat : jobs' = [id \in IDs |-> Reaped(jobs[id], t)]
    BY <1>0, <1>2, ReadingType DEF ReapExpired
  <2>3. MovesJobs
    <3> SUFFICES ASSUME NEW id \in IDs, jobs'[id] # jobs[id]
                 PROVE  /\ jobs[id].state \in Live /\ jobs'[id].state \in Live
                        /\ jobs'[id].payload = jobs[id].payload
                        /\ jobs'[id].sha = jobs[id].sha
                        /\ jobs'[id].token \in {jobs[id].token, 0}
      BY DEF MovesJobs
    <3>1. jobs'[id] = GivenBack(jobs[id], t) /\ jobs[id].state = "claimed"
      BY <2>2 DEF Reaped, Expired
    <3>2. jobs[id] \in JobMeta
      BY <1>0 DEF TypeOK
    <3> QED
      BY <3>1, <3>2, GivenBackRecord DEF Live
  <2>4. CollectsItems
    BY <1>0, <1>2 DEF ReapExpired, CollectsItems, Reapers
  <2> QED
    BY <2>1, <2>3, <2>4, Unmoved, MovingStep
<1>3. CASE SweepDelete(q)
  <2>1. PICK item \in reaper[q].todo :
          /\ blobs' = [blobs EXCEPT ![item.payload] = NoBody]
          /\ reaper' = [reaper EXCEPT ![q] = [@ EXCEPT !.pc = "remove",
                           !.todo = reaper[q].todo \ {item}, !.swept = {item}]]
    BY <1>3 DEF SweepDelete
  <2>2. item.payload \in PayloadKeys /\ acked[item.payload] # {}
    BY <1>0 DEF StoreInv, ReaperInv, Items, Reapers, SweepItem
  <2>3. UNCHANGED <<fresh, jobs, call, handle, published, acked>>
    BY <1>3 DEF SweepDelete
  <2>4. \A p \in Queues : /\ Items(p)' \subseteq Items(p)
                          /\ \A i \in reaper'[p].swept : i \in reaper[p].swept \/ i.payload = item.payload
    BY <1>0, <2>1 DEF Items, Reapers
  <2> QED
    BY <2>1, <2>2, <2>3, <2>4, StoreDelete
<1>4. CASE SweepRemove(q)
  <2>1. UNCHANGED <<fresh, blobs, call, handle, published, acked>>
    BY <1>4 DEF SweepRemove
  <2>2. \A p \in Queues : /\ reaper'[p].todo = reaper[p].todo
                          /\ reaper'[p].swept \subseteq reaper[p].swept
    BY <1>0, <1>4 DEF SweepRemove, Reapers
  <2>3. PICK item \in reaper[q].swept :
          IF Removable(jobs[item.id], item.token)
          THEN jobs' = [jobs EXCEPT ![item.id] = Absent]
          ELSE UNCHANGED jobs
    BY <1>4 DEF SweepRemove
  <2>4. CASE Removable(jobs[item.id], item.token)
    <3>1. item.id \in IDs
      BY <1>0 DEF Reapers, SweepItem
    <3>2. jobs[item.id].state = "completed" /\ blobs[jobs[item.id].payload] = NoBody
      BY <2>4 DEF Removable, StoreInv, ReaperInv, Items
    <3>3. \A p \in Queues : Items(p)' \subseteq Items(p)
      BY <2>2 DEF Items
    <3> QED
      BY <2>1, <2>2, <2>3, <2>4, <3>1, <3>2, <3>3, Unmoved, StoreRemove
  <2>5. CASE ~Removable(jobs[item.id], item.token)
    <3>1. CollectsItems
      BY <2>2 DEF CollectsItems
    <3> QED
      BY <2>1, <2>3, <2>5, <3>1, Unmoved, MovingStep
  <2> QED
    BY <2>4, <2>5
<1> QED
  BY <1>1, <1>2, <1>3, <1>4 DEF MaintenanceStep

(* Close, reopening and crashes keep StoreInv. *)
LEMMA StoreProcess ==
  ASSUME StoreInv, TypeInv', NEW q \in Queues, ProcessStep(q)
  PROVE  StoreInv'
<1> USE DEF storeVars, historyVars
<1>0. TypeOK /\ reaper[q] \in Reapers /\ reaper \in [Queues -> Reapers]
  BY DEF StoreInv, TypeInv, TypeOK
<1>1. UNCHANGED <<fresh, jobs, blobs, published, acked>>
  BY DEF ProcessStep, CloseBegin, CloseReturn, Reopen, Crash
<1>2. CollectsItems
  <2>1. CASE CloseBegin(q)
    <3>1. (reaper[q].pc # "off") \in BOOLEAN
      OBVIOUS
    <3> QED
      BY <1>0, <2>1, <3>1, ReaperFields, CollectsLess DEF CloseBegin
  <2>2. CASE CloseReturn(q)
    BY <2>2, Unmoved DEF CloseReturn
  <2>3. CASE Reopen(q) \/ Crash(q)
    <3>1. reaper' = [reaper EXCEPT ![q] = ReaperOff]
      BY <2>3 DEF Reopen, Crash
    <3>2. ReaperOff.todo = {} /\ ReaperOff.swept = {}
      BY DEF ReaperOff
    <3> QED
      BY <1>0, <3>1, <3>2, CollectsLess
  <2> QED
    BY <2>1, <2>2, <2>3 DEF ProcessStep
<1>3. KeepsCalls /\ KeepsHandles
  <2>1. CASE CloseBegin(q) \/ CloseReturn(q) \/ Reopen(q)
    BY <2>1, Unmoved DEF CloseBegin, CloseReturn, Reopen
  <2>2. CASE Crash(q)
    BY <2>2, CallRecords DEF Crash, KeepsCalls, KeepsHandles
  <2> QED
    BY <2>1, <2>2 DEF ProcessStep
<1> QED
  BY <1>1, <1>2, <1>3, Unmoved, MovingStep

(* Every step of the queue keeps StoreInv: bodies, records, handles and    *)
(* sweeps stay consistent through Enqueue, Claim, Complete and the reaper. *)
THEOREM StoreStep == StoreInv /\ [Next]_vars => StoreInv'
<1> SUFFICES ASSUME StoreInv, [Next]_vars PROVE StoreInv'
  OBVIOUS
<1>1. TypeInv'
  BY TypeNext
<1>2. ASSUME NEW c \in Clients, ClientStep(c) PROVE StoreInv'
  BY <1>1, <1>2, StoreClient
<1>3. ASSUME NEW q \in Queues, MaintenanceStep(q) \/ ProcessStep(q) PROVE StoreInv'
  BY <1>1, <1>3, StoreMaintenance, StoreProcess
<1>4. CASE Tick \/ UNCHANGED vars
  <2>1. UNCHANGED <<fresh, jobs, blobs, call, handle, reaper, published, acked>>
    BY <1>4 DEF Tick, vars, storeVars, historyVars
  <2> QED
    BY <1>1, <2>1, Unmoved, MovingStep
<1> QED
  BY <1>2, <1>3, <1>4 DEF Next

-----------------------------------------------------------------------------
(* Leases *)

LiveHandle(c) == handle[c].until > now /\ ~handle[c].released

(* Whoever passes the check of the lease is the only client that may       *)
(* believe to hold it.                                                     *)
LEMMA SoleHolder ==
  ASSUME StoreInv, LeaseInv, NEW c \in Clients, HasJob(c), NEW t, HoldsLease(Held(c), handle[c], t)
  PROVE  \A d \in Clients \ {c} : handle[d].id = handle[c].id => ~LiveHandle(d)
<1>1. jobs[handle[c].id].token = handle[c].token /\ handle[c].token # 0
  BY DEF HoldsLease, Held
<1> QED
  BY <1>1 DEF LeaseInv, LiveHandle

(* Clients keep the leases they had, or fewer, and no record changes under *)
(* a client that still believes to hold it.                                *)
LEMMA LeaseKept ==
  ASSUME StoreInv, LeaseInv, now' \in Nat, now <= now',
         \A c \in Clients :
           \/ /\ handle'[c].id = handle[c].id /\ handle'[c].token = handle[c].token
              /\ handle'[c].until = handle[c].until
              /\ handle[c].released => handle'[c].released
           \/ handle'[c] = NoHandle,
         \A id \in IDs :
           \/ jobs'[id] = jobs[id]
           \/ jobs[id].state # "claimed"
           \/ \A c \in Clients : handle'[c].id = id => ~LiveHandle(c)'
  PROVE  LeaseInv'
<1>1. \A c \in Clients : handle[c].until \in Nat /\ (handle[c].id # 0 => handle[c].id \in IDs)
  BY DEF StoreInv, TypeInv, TypeOK, Handles
<1>2. now \in Nat
  BY ReadingType DEF StoreInv, TypeInv
<1>3. \A c \in Clients : LiveHandle(c)' =>
        /\ LiveHandle(c)
        /\ handle'[c].id = handle[c].id /\ handle'[c].token = handle[c].token
        /\ handle'[c].until = handle[c].until
  BY <1>1, <1>2, NoHandleFields DEF LiveHandle
<1>4. \A c, d \in Clients :
        handle'[c].token = handle'[d].token /\ handle'[c].token # 0 => c = d
  BY NoHandleFields DEF LeaseInv
<1>5. ASSUME NEW c \in Clients, LiveHandle(c)'
      PROVE  /\ handle'[c].id # 0
             /\ jobs'[handle'[c].id].state = "claimed"
             /\ jobs'[handle'[c].id].token = handle'[c].token
             /\ jobs'[handle'[c].id].leaseUntil = handle'[c].until
  <2>1. /\ handle[c].id # 0 /\ jobs[handle[c].id].state = "claimed"
        /\ jobs[handle[c].id].token = handle[c].token
        /\ jobs[handle[c].id].leaseUntil = handle[c].until
    BY <1>3, <1>5 DEF LeaseInv, LiveHandle
  <2>2. jobs'[handle[c].id] = jobs[handle[c].id]
    BY <1>1, <1>3, <1>5, <2>1
  <2> QED
    BY <1>3, <1>5, <2>1, <2>2
<1> QED
  BY <1>4, <1>5 DEF LeaseInv, LiveHandle

(* A claim makes its caller the only holder. *)
LEMMA LeaseClaim ==
  ASSUME StoreInv, LeaseInv, NEW c \in Clients, ClaimJob(c)
  PROVE  LeaseInv'
<1>1. PICK id \in IDs, until \in Nat :
        /\ jobs[id].state = "pending"
        /\ jobs' = [jobs EXCEPT ![id] = Claimed(@, until, fresh + 1)]
        /\ handle' = [handle EXCEPT ![c] =
                        [id |-> id, token |-> fresh + 1, payload |-> jobs[id].payload,
                         sha |-> jobs[id].sha, until |-> until,
                         released |-> FALSE]]
  BY ReadingType DEF ClaimJob, Candidates, StoreInv, TypeInv
<1>2. UNCHANGED now
  BY DEF ClaimJob
<1>3. /\ fresh \in Nat /\ fresh + 1 \in Nat /\ id # 0
      /\ jobs \in [IDs -> JobMeta] /\ jobs[id] \in JobMeta
  BY BoundsAssumption, IDsAssumption DEF StoreInv, TypeInv, TypeOK
<1>4. /\ jobs'[id].state = "claimed" /\ jobs'[id].token = fresh + 1
      /\ jobs'[id].leaseUntil = until
      /\ \A i \in IDs \ {id} : jobs'[i] = jobs[i]
  <2>1. PICK m \in JobMeta : m = Claimed(jobs[id], until, fresh + 1) /\ jobs' = [jobs EXCEPT ![id] = m]
    BY <1>1, <1>3, ClaimedRecord
  <2>2. m.state = "claimed" /\ m.token = fresh + 1 /\ m.leaseUntil = until
    BY <1>3, <2>1, ClaimedRecord
  <2> QED
    BY <1>3, <2>1, <2>2
<1>5. /\ handle'[c].id = id /\ handle'[c].token = fresh + 1 /\ handle'[c].until = until
      /\ \A d \in Clients \ {c} : handle'[d] = handle[d]
  BY <1>1 DEF StoreInv, TypeInv, TypeOK
<1>6. \A d \in Clients : handle[d].token # fresh + 1
  BY <1>3 DEF StoreInv, FreshInv, TypeInv, TypeOK, Handles
<1>7. \A d \in Clients : handle[d].id # 0 => handle[d].id \in IDs
  BY DEF StoreInv, TypeInv, TypeOK, Handles
<1>8. \A d, e \in Clients :
        handle'[d].token = handle'[e].token /\ handle'[d].token # 0 => d = e
  BY <1>5, <1>6 DEF LeaseInv
<1>9. ASSUME NEW d \in Clients, LiveHandle(d)'
      PROVE  /\ handle'[d].id # 0
             /\ jobs'[handle'[d].id].state = "claimed"
             /\ jobs'[handle'[d].id].token = handle'[d].token
             /\ jobs'[handle'[d].id].leaseUntil = handle'[d].until
  <2>1. CASE d = c
    BY <1>3, <1>4, <1>5, <2>1
  <2>2. CASE d # c
    <3>1. handle'[d] = handle[d] /\ LiveHandle(d)
      BY <1>2, <1>5, <1>9, <2>2 DEF LiveHandle
    <3>2. handle[d].id # 0 /\ jobs[handle[d].id].state = "claimed" /\ handle[d].id # id
      BY <1>1, <3>1 DEF LeaseInv, LiveHandle
    <3>3. jobs'[handle[d].id] = jobs[handle[d].id]
      BY <1>4, <1>7, <3>2
    <3> QED
      BY <3>1, <3>2, <3>3 DEF LeaseInv, LiveHandle
  <2> QED
    BY <2>1, <2>2
<1> QED
  BY <1>8, <1>9 DEF LeaseInv, LiveHandle

(* Renew moves the deadlines of record and handle together. *)
LEMMA LeaseRenew ==
  ASSUME StoreInv, LeaseInv, NEW c \in Clients, Renew(c)
  PROVE  LeaseInv'
<1>1. PICK t, until \in Nat :
        /\ HoldsLease(Held(c), handle[c], t)
        /\ jobs' = [jobs EXCEPT ![handle[c].id] = Renewed(@, until)]
        /\ handle' = [handle EXCEPT ![c].until = until]
  BY ReadingType DEF Renew, StoreInv, TypeInv
<1>2. UNCHANGED now /\ HasJob(c) /\ handle[c].id # 0
  BY DEF Renew, HasJob
<1>3. PICK id : id = handle[c].id
  OBVIOUS
<1>4. id \in IDs /\ jobs[id].state = "claimed" /\ jobs[id].token = handle[c].token
  BY <1>1, <1>2, <1>3, Holding
<1>5. /\ jobs'[id].state = "claimed" /\ jobs'[id].token = handle[c].token
      /\ jobs'[id].leaseUntil = until
      /\ \A i \in IDs \ {id} : jobs'[i] = jobs[i]
  <2>1. jobs \in [IDs -> JobMeta] /\ jobs' = [jobs EXCEPT ![id] = Renewed(jobs[id], until)]
    BY <1>1, <1>3 DEF StoreInv, TypeInv, TypeOK
  <2>2. PICK m \in JobMeta : m = Renewed(jobs[id], until) /\ jobs' = [jobs EXCEPT ![id] = m]
    BY <1>4, <2>1, RenewedRecord
  <2>3. m.state = jobs[id].state /\ m.token = jobs[id].token /\ m.leaseUntil = until
    BY <1>4, <2>1, <2>2, RenewedRecord
  <2> QED
    BY <1>4, <2>1, <2>2, <2>3
<1>6. /\ \A d \in Clients : handle'[d].id = handle[d].id /\ handle'[d].token = handle[d].token
      /\ handle'[c].until = until
      /\ \A d \in Clients \ {c} : handle'[d] = handle[d]
  BY <1>1 DEF StoreInv, TypeInv, TypeOK, Handles
<1>7. ASSUME NEW d \in Clients, LiveHandle(d)'
      PROVE  /\ handle'[d].id # 0
             /\ jobs'[handle'[d].id].state = "claimed"
             /\ jobs'[handle'[d].id].token = handle'[d].token
             /\ jobs'[handle'[d].id].leaseUntil = handle'[d].until
  <2>1. CASE d = c
    BY <1>2, <1>3, <1>5, <1>6, <2>1
  <2>2. CASE d # c
    <3>1. handle'[d] = handle[d] /\ LiveHandle(d)
      BY <1>2, <1>6, <1>7, <2>2 DEF LiveHandle
    <3>2. handle[d].id # id
      BY <1>1, <1>2, <1>3, <2>2, <3>1, SoleHolder
    <3>3. handle[d].id # 0 /\ handle[d].id \in IDs
      BY <3>1 DEF LeaseInv, LiveHandle, StoreInv, TypeInv, TypeOK, Handles
    <3> QED
      BY <1>5, <3>1, <3>2, <3>3 DEF LeaseInv, LiveHandle
  <2> QED
    BY <2>1, <2>2
<1> QED
  BY <1>6, <1>7 DEF LeaseInv, LiveHandle

(* Retry, Dead and Complete: the holder gives the lease up. *)
LEMMA LeaseGivenUp ==
  ASSUME StoreInv, LeaseInv, NEW c \in Clients, Retry(c) \/ Dead(c) \/ CompleteMark(c)
  PROVE  LeaseInv'
<1>1. PICK t : HoldsLease(Held(c), handle[c], t)
  BY DEF Retry, Dead, CompleteMark
<1>2. /\ HasJob(c) /\ UNCHANGED now
      /\ handle' = [handle EXCEPT ![c].released = TRUE]
      /\ \E m : jobs' = [jobs EXCEPT ![handle[c].id] = m]
  BY DEF Retry, Dead, CompleteMark
<1>3. \A d \in Clients :
        /\ handle'[d].id = handle[d].id /\ handle'[d].token = handle[d].token
        /\ handle'[d].until = handle[d].until
        /\ handle[d].released => handle'[d].released
        /\ d # c => handle'[d] = handle[d]
  BY <1>2 DEF StoreInv, TypeInv, TypeOK, Handles
<1>4. handle'[c].released
  BY <1>2 DEF StoreInv, TypeInv, TypeOK, Handles
<1>5. \A d \in Clients : handle'[d].id = handle[c].id => ~LiveHandle(d)'
  BY <1>1, <1>2, <1>3, <1>4, SoleHolder DEF LiveHandle
<1>6. \A i \in IDs : i # handle[c].id => jobs'[i] = jobs[i]
  BY <1>2 DEF StoreInv, TypeInv, TypeOK
<1>7. now' \in Nat /\ now <= now'
  BY <1>2, ReadingType DEF StoreInv, TypeInv
<1> QED
  BY <1>3, <1>5, <1>6, <1>7, LeaseKept

(* Steps that change no record of a claimed job. *)
LEMMA LeaseOther ==
  ASSUME StoreInv, LeaseInv, UNCHANGED now,
         \A c \in Clients :
           \/ /\ handle'[c].id = handle[c].id /\ handle'[c].token = handle[c].token
              /\ handle'[c].until = handle[c].until
              /\ handle[c].released => handle'[c].released
           \/ handle'[c] = NoHandle,
         \A id \in IDs : jobs'[id] = jobs[id] \/ jobs[id].state # "claimed"
  PROVE  LeaseInv'
<1>1. now' \in Nat /\ now <= now'
  BY ReadingType DEF StoreInv, TypeInv
<1> QED
  BY <1>1, LeaseKept

(* Every step of a client keeps LeaseInv. *)
LEMMA LeaseClient ==
  ASSUME StoreInv, LeaseInv, NEW c \in Clients, ClientStep(c)
  PROVE  LeaseInv'
<1> USE DEF storeVars
<1>1. CASE \/ EnqueueBegin(c) \/ UploadPayload(c) \/ UploadFails(c) \/ PublishRejected(c)
           \/ DiscardPayload(c) \/ ClaimBegin(c) \/ ClaimNothing(c) \/ CompleteResume(c)
           \/ CompleteDelete(c) \/ CompleteFails(c) \/ RequeueBegin(c) \/ RequeueRejected(c)
  <2>1. UNCHANGED <<now, jobs, handle>>
    BY <1>1 DEF EnqueueBegin, UploadPayload, UploadFails, PublishRejected, DiscardPayload,
         ClaimBegin, ClaimNothing, CompleteResume, CompleteDelete, CompleteFails,
         RequeueBegin, RequeueRejected
  <2> QED
    BY <2>1, LeaseOther
<1>2. CASE Publish(c) \/ RequeueDead(c)
  <2>1. /\ UNCHANGED <<now, handle>> /\ jobs[call[c].id].state # "claimed"
        /\ \E m : jobs' = [jobs EXCEPT ![call[c].id] = m]
    BY <1>2 DEF Publish, RequeueDead, Exists
  <2>2. \A id \in IDs : jobs'[id] = jobs[id] \/ jobs[id].state # "claimed"
    BY <2>1 DEF StoreInv, TypeInv, TypeOK
  <2> QED
    BY <2>1, <2>2, LeaseOther
<1>3. CASE CompleteRemove(c)
  <2>1. UNCHANGED now
    BY <1>3 DEF CompleteRemove
  <2>2. \A d \in Clients :
          /\ handle'[d].id = handle[d].id /\ handle'[d].token = handle[d].token
          /\ handle'[d].until = handle[d].until
          /\ handle[d].released => handle'[d].released
    BY <1>3 DEF CompleteRemove, StoreInv, TypeInv, TypeOK, Handles
  <2>3. \A id \in IDs : jobs'[id] = jobs[id] \/ jobs[id].state # "claimed"
    BY <1>3 DEF CompleteRemove, Removable, Held, StoreInv, TypeInv, TypeOK
  <2> QED
    BY <2>1, <2>2, <2>3, LeaseOther
<1> QED
  BY <1>1, <1>2, <1>3, LeaseClaim, LeaseRenew, LeaseGivenUp DEF ClientStep

(* The reaper takes a lease only when its deadline has passed for the      *)
(* holder as well: its reading of the clock is never ahead.                *)
LEMMA LeaseMaintenance ==
  ASSUME StoreInv, LeaseInv, NEW q \in Queues, MaintenanceStep(q)
  PROVE  LeaseInv'
<1> USE DEF storeVars
<1>1. UNCHANGED <<now, handle>>
  BY DEF MaintenanceStep, StartMaintenance, CancelMaintenance, ReapBegin,
         ReapExpired, ReapFails, SweepDelete, SweepDeleteFails, SweepRemove, SweepRemoveFails,
         SweepDone, ReaperExit
<1>2. CASE ReapExpired(q)
  <2>1. PICK t \in ClockReadings : jobs' = [id \in IDs |-> Reaped(jobs[id], t)]
    BY <1>2 DEF ReapExpired
  <2>2. now \in Nat /\ t \in Nat /\ t <= now
    BY ReadingType DEF ClockReadings, StoreInv, TypeInv
  <2>3. \A id \in IDs : jobs'[id] = jobs[id] \/ jobs[id].leaseUntil <= t
    BY <2>1 DEF Reaped, Expired
  <2>4. \A id \in IDs : jobs[id].leaseUntil \in Nat
    BY DEF StoreInv, TypeInv, TypeOK, JobMeta
  <2>5. ASSUME NEW id \in IDs, jobs'[id] # jobs[id], NEW c \in Clients, handle'[c].id = id
        PROVE  ~LiveHandle(c)'
    <3>1. jobs[id].leaseUntil <= now
      BY <2>2, <2>3, <2>4, <2>5
    <3>2. handle[c].id = id /\ (LiveHandle(c)' => LiveHandle(c))
      BY <1>1, <2>5 DEF LiveHandle
    <3>3. LiveHandle(c) => jobs[id].leaseUntil > now
      BY <3>2 DEF LeaseInv, LiveHandle
    <3> QED
      BY <2>2, <2>4, <3>1, <3>2, <3>3
  <2>6. now' \in Nat /\ now <= now'
    BY <1>1, <2>2
  <2> QED
    BY <1>1, <2>5, <2>6, LeaseKept
<1>3. CASE SweepRemove(q)
  <2>1. \A id \in IDs : jobs'[id] = jobs[id] \/ jobs[id].state # "claimed"
    BY <1>3 DEF SweepRemove, Removable, StoreInv, TypeInv, TypeOK
  <2> QED
    BY <1>1, <2>1, LeaseOther
<1>4. CASE ~ReapExpired(q) /\ ~SweepRemove(q)
  <2>1. UNCHANGED jobs
    BY <1>4 DEF MaintenanceStep, StartMaintenance, CancelMaintenance,
         ReapBegin, ReapFails, SweepDelete, SweepDeleteFails, SweepRemoveFails, SweepDone, ReaperExit
  <2> QED
    BY <1>1, <2>1, LeaseOther
<1> QED
  BY <1>2, <1>3, <1>4

(* Every step of the queue keeps LeaseInv: a client that believes to hold  *)
(* an unexpired lease holds the token of the record.                       *)
THEOREM LeaseStep == StoreInv /\ LeaseInv /\ [Next]_vars => LeaseInv'
<1> SUFFICES ASSUME StoreInv, LeaseInv, [Next]_vars PROVE LeaseInv'
  OBVIOUS
<1> USE DEF storeVars
<1>1. ASSUME NEW c \in Clients, ClientStep(c) PROVE LeaseInv'
  BY <1>1, LeaseClient
<1>2. ASSUME NEW q \in Queues, MaintenanceStep(q) PROVE LeaseInv'
  BY <1>2, LeaseMaintenance
<1>3. ASSUME NEW q \in Queues, ProcessStep(q) PROVE LeaseInv'
  <2>1. UNCHANGED <<now, jobs>>
    BY <1>3 DEF ProcessStep, CloseBegin, CloseReturn, Reopen, Crash
  <2>2. \A c \in Clients : handle'[c] = handle[c] \/ handle'[c] = NoHandle
    BY <1>3 DEF ProcessStep, CloseBegin, CloseReturn, Reopen, Crash
  <2> QED
    BY <2>1, <2>2, LeaseOther
<1>4. CASE Tick
  <2>1. now \in Nat
    BY ReadingType DEF StoreInv, TypeInv
  <2>2. UNCHANGED <<jobs, handle>> /\ now' \in Nat /\ now <= now'
    BY <1>4, <2>1 DEF Tick
  <2> QED
    BY <2>2, LeaseKept
<1>5. CASE UNCHANGED vars
  BY <1>5, LeaseOther DEF vars
<1> QED
  BY <1>1, <1>2, <1>3, <1>4, <1>5 DEF Next

-----------------------------------------------------------------------------
(* The theorems *)

IInv == StoreInv /\ LeaseInv

(* The empty queue satisfies the inductive invariant. *)
LEMMA InitInv == Init => IInv
<1> SUFFICES ASSUME Init PROVE IInv
  OBVIOUS
<1>1. TypeOK
  BY BaseTypes, BoundsAssumption DEF Init, TypeOK
<1>2. /\ \A id \in IDs : jobs[id].state = "absent" /\ jobs[id].token = 0
      /\ \A c \in Clients : call[c].pc = "idle"
      /\ \A c \in Clients : handle[c].id = 0 /\ handle[c].token = 0 /\ handle[c].until = 0
      /\ \A q \in Queues : Items(q) = {}
      /\ published = {} /\ fresh = 0 /\ now = 1
      /\ \A k \in PayloadKeys : acked[k] = {}
  BY CallRecords, NoHandleFields DEF Init, Absent, ReaperOff, Items
<1>3. StoreInv
  BY <1>1, <1>2 DEF StoreInv, TypeInv, CallArgs, FreshInv, PrivateInv, Private, JobInv, Exists,
     TrackInv, AckedInv, HandleInv, ReaperInv, PayloadIntact, CompletedOnce
<1>4. LeaseInv
  BY <1>2 DEF LeaseInv
<1> QED
  BY <1>3, <1>4 DEF IInv

(* IInv is an inductive invariant of the queue. *)
THEOREM Invariance == Spec => []IInv
<1>1. IInv /\ [Next]_vars => IInv'
  BY StoreStep, LeaseStep DEF IInv
<1> QED
  BY <1>1, InitInv, PTL DEF Spec

(* The variables of the queue always have their types. *)
THEOREM TypeCorrect == Spec => []TypeOK
<1>1. IInv => TypeOK
  BY DEF IInv, StoreInv, TypeInv
<1> QED
  BY <1>1, Invariance, PTL

(* A job's body is in place, unchanged, until the job is completed. *)
THEOREM PayloadsStayIntact == Spec => []PayloadIntact
<1>1. IInv => PayloadIntact
  BY DEF IInv, StoreInv
<1> QED
  BY <1>1, Invariance, PTL

(* A published body that still exists can be found from a record. *)
THEOREM BodiesStayTracked == Spec => []PublishedBodyTracked
<1>1. IInv => PublishedBodyTracked
  <2>1. TypeOK => \A k \in published : k[1] \in IDs
    BY DEF TypeOK, PayloadKeys
  <2> QED
    BY <2>1 DEF IInv, StoreInv, TypeInv, TrackInv, Tracked, PublishedBodyTracked
<1> QED
  BY <1>1, Invariance, PTL

(* A published job leaves the store only after a holder completed it. *)
THEOREM JobsAreNotLost == Spec => []NoLostJob
<1>1. IInv => NoLostJob
  <2>1. TypeOK => \A k \in published : k[1] \in IDs
    BY DEF TypeOK, PayloadKeys
  <2> QED
    BY <2>1 DEF IInv, StoreInv, TypeInv, TrackInv, Tracked, NoLostJob
<1> QED
  BY <1>1, Invariance, PTL

(* A completed job is never delivered again. *)
THEOREM CompletedStaysCompleted == Spec => []NeverRedelivered
<1>1. IInv => NeverRedelivered
  BY DEF IInv, StoreInv, JobInv, NeverRedelivered
<1> QED
  BY <1>1, Invariance, PTL

(* At most one claim completes a job. *)
THEOREM OneCompletion == Spec => []CompletedOnce
<1>1. IInv => CompletedOnce
  BY DEF IInv, StoreInv
<1> QED
  BY <1>1, Invariance, PTL

(* Two clients never both hold an unexpired lease on the same job. *)
THEOREM LeasesAreExclusive == Spec => []MutualExclusion
<1>1. IInv => MutualExclusion
  <2> SUFFICES ASSUME IInv, NEW c \in Clients, NEW d \in Clients, c # d,
                      LiveHandle(c), LiveHandle(d), handle[c].id = handle[d].id
               PROVE  FALSE
    BY DEF MutualExclusion, LiveHandle
  <2>1. handle[c].token = handle[d].token /\ handle[c].id # 0
    BY DEF IInv, LeaseInv, LiveHandle
  <2>2. handle[c].token # 0
    BY <2>1 DEF IInv, StoreInv, HandleInv
  <2> QED
    BY <2>1, <2>2 DEF IInv, LeaseInv
<1> QED
  BY <1>1, Invariance, PTL

-----------------------------------------------------------------------------
(* Deliveries: how one record may change, apart from a Claim. *)

RecordMoves(m, n) ==
  \/ n = m \/ n = Absent
  \/ \E c \in Clients : n = NewJob(c)
  \/ m.state = "claimed" /\ (n = Killed(m) \/ n = MarkCompleted(m))
  \/ m.state = "claimed" /\ \E at \in Nat : n = Renewed(m, at) \/ n = GivenBack(m, at)
  \/ m.state = "dead" /\ \E at \in Nat : n = Requeued(m, at)

(* A step that rewrites one record moves all of them. *)
LEMMA OneRecordMoves ==
  ASSUME TypeOK, NEW id, NEW n, jobs' = [jobs EXCEPT ![id] = n],
         id \in IDs => RecordMoves(jobs[id], n)
  PROVE  \A i \in IDs : RecordMoves(jobs[i], jobs'[i])
<1>1. \A i \in IDs : jobs'[i] = IF i = id THEN n ELSE jobs[i]
  BY DEF TypeOK
<1>2. \A i \in IDs \ {id} : RecordMoves(jobs[i], jobs'[i])
  BY <1>1 DEF RecordMoves
<1> QED
  BY <1>1, <1>2

(* A step that leaves the records alone. *)
LEMMA NoRecordMoves ==
  ASSUME UNCHANGED jobs
  PROVE  \A i \in IDs : RecordMoves(jobs[i], jobs'[i])
BY DEF RecordMoves

(* What the clients do to a record, apart from Claim. *)
LEMMA ClientMoves ==
  ASSUME StoreInv, NEW c \in Clients, ClientStep(c), ~ClaimJob(c)
  PROVE  \A i \in IDs : RecordMoves(jobs[i], jobs'[i])
<1> USE DEF storeVars
<1>0. TypeOK /\ call[c].availableAt \in Nat
  BY DEF StoreInv, TypeInv, TypeOK, Calls
<1>1. CASE \/ EnqueueBegin(c) \/ UploadPayload(c) \/ UploadFails(c) \/ PublishRejected(c)
           \/ DiscardPayload(c) \/ ClaimBegin(c) \/ ClaimNothing(c) \/ CompleteResume(c)
           \/ CompleteDelete(c) \/ CompleteFails(c) \/ RequeueBegin(c) \/ RequeueRejected(c)
  <2>1. UNCHANGED jobs
    BY <1>1 DEF EnqueueBegin, UploadPayload, UploadFails, PublishRejected, DiscardPayload,
         ClaimBegin, ClaimNothing, CompleteResume, CompleteDelete, CompleteFails,
         RequeueBegin, RequeueRejected
  <2> QED
    BY <2>1, NoRecordMoves
<1>2. CASE Publish(c)
  <2>1. RecordMoves(jobs[call[c].id], NewJob(c))
    BY DEF RecordMoves
  <2> QED
    BY <1>0, <1>2, <2>1, OneRecordMoves DEF Publish
<1>3. CASE RequeueDead(c)
  <2>1. RecordMoves(jobs[call[c].id], Requeued(jobs[call[c].id], call[c].availableAt))
    BY <1>0, <1>3 DEF RequeueDead, RecordMoves
  <2>2. jobs' = [jobs EXCEPT ![call[c].id] = Requeued(jobs[call[c].id], call[c].availableAt)]
    BY <1>3 DEF RequeueDead
  <2> QED
    BY <1>0, <2>1, <2>2, OneRecordMoves
<1>4. CASE Renew(c)
  <2>1. PICK t \in ClockReadings, u \in ClockReadings, lease \in LeaseDurations :
          /\ HoldsLease(Held(c), handle[c], t)
          /\ jobs' = [jobs EXCEPT ![handle[c].id] = Renewed(Held(c), u + lease)]
    BY <1>4 DEF Renew, Held
  <2>2. u + lease \in Nat
    BY ReadingType, TimesAssumption DEF StoreInv, TypeInv
  <2>3. RecordMoves(Held(c), Renewed(Held(c), u + lease))
    BY <2>1, <2>2 DEF HoldsLease, RecordMoves
  <2> QED
    BY <1>0, <2>1, <2>3, OneRecordMoves DEF Held
<1>5. CASE Retry(c)
  <2>1. PICK t \in ClockReadings, u \in ClockReadings, delay \in Delays :
          /\ HoldsLease(Held(c), handle[c], t)
          /\ jobs' = [jobs EXCEPT ![handle[c].id] = GivenBack(Held(c), u + delay)]
    BY <1>5 DEF Retry, Held
  <2>2. u + delay \in Nat
    BY ReadingType, TimesAssumption DEF StoreInv, TypeInv
  <2>3. RecordMoves(Held(c), GivenBack(Held(c), u + delay))
    BY <2>1, <2>2 DEF HoldsLease, RecordMoves
  <2> QED
    BY <1>0, <2>1, <2>3, OneRecordMoves DEF Held
<1>6. CASE Dead(c) \/ CompleteMark(c)
  <2>1. /\ Held(c).state = "claimed"
        /\ \/ jobs' = [jobs EXCEPT ![handle[c].id] = Killed(Held(c))]
           \/ jobs' = [jobs EXCEPT ![handle[c].id] = MarkCompleted(Held(c))]
    BY <1>6 DEF Dead, CompleteMark, HoldsLease, Held
  <2>2. RecordMoves(Held(c), Killed(Held(c))) /\ RecordMoves(Held(c), MarkCompleted(Held(c)))
    BY <2>1 DEF RecordMoves
  <2> QED
    BY <1>0, <2>1, <2>2, OneRecordMoves DEF Held
<1>7. CASE CompleteRemove(c)
  <2>1. RecordMoves(Held(c), Absent)
    BY DEF RecordMoves
  <2> QED
    BY <1>0, <1>7, <2>1, OneRecordMoves, NoRecordMoves DEF CompleteRemove, Held
<1> QED
  BY <1>1, <1>2, <1>3, <1>4, <1>5, <1>6, <1>7 DEF ClientStep

(* What a step does to a record, unless it is a Claim. *)
LEMMA StepMoves ==
  ASSUME StoreInv, [Next]_vars, \A c \in Clients : ~ClaimJob(c)
  PROVE  \A i \in IDs : RecordMoves(jobs[i], jobs'[i])
<1> USE DEF storeVars
<1>0. TypeOK
  BY DEF StoreInv, TypeInv
<1>1. ASSUME NEW c \in Clients, ClientStep(c)
      PROVE  \A i \in IDs : RecordMoves(jobs[i], jobs'[i])
  BY <1>1, ClientMoves
<1>2. ASSUME NEW q \in Queues, ReapExpired(q)
      PROVE  \A i \in IDs : RecordMoves(jobs[i], jobs'[i])
  <2>1. PICK t \in ClockReadings : jobs' = [id \in IDs |-> Reaped(jobs[id], t)]
    BY <1>2 DEF ReapExpired
  <2>2. t \in Nat
    BY ReadingType DEF StoreInv, TypeInv
  <2>3. \A i \in IDs : jobs'[i] = Reaped(jobs[i], t)
    BY <2>1
  <2> QED
    BY <2>2, <2>3 DEF Reaped, Expired, RecordMoves
<1>3. ASSUME NEW q \in Queues, SweepRemove(q)
      PROVE  \A i \in IDs : RecordMoves(jobs[i], jobs'[i])
  <2>1. \A i \in IDs : jobs'[i] = jobs[i] \/ jobs'[i] = Absent
    BY <1>0, <1>3 DEF SweepRemove, TypeOK
  <2> QED
    BY <2>1 DEF RecordMoves
<1>4. ASSUME NEW q \in Queues, MaintenanceStep(q), ~ReapExpired(q), ~SweepRemove(q)
      PROVE  \A i \in IDs : RecordMoves(jobs[i], jobs'[i])
  <2>1. UNCHANGED jobs
    BY <1>4 DEF MaintenanceStep, StartMaintenance, CancelMaintenance,
         ReapBegin, ReapFails, SweepDelete, SweepDeleteFails, SweepRemoveFails, SweepDone, ReaperExit
  <2> QED
    BY <2>1, NoRecordMoves
<1>5. CASE (\E q \in Queues : ProcessStep(q)) \/ Tick \/ UNCHANGED vars
  <2>1. UNCHANGED jobs
    BY <1>5 DEF ProcessStep, CloseBegin, CloseReturn, Reopen, Crash, Tick, vars
  <2> QED
    BY <2>1, NoRecordMoves
<1> QED
  BY <1>1, <1>2, <1>3, <1>4, <1>5 DEF Next

(* The bound of one record. *)
Bounded(m) ==
  /\ m.attempts <= m.max \/ m.attempts <= 1
  /\ m.state = "pending" => m.attempts < m.max \/ m.attempts = 0

(* The other ways a record changes keep its attempts, or start from 0. *)
LEMMA MovesStayBounded ==
  ASSUME NEW m \in JobMeta, NEW n \in JobMeta, Bounded(m), RecordMoves(m, n)
  PROVE  Bounded(n)
<1>0. m.attempts \in Nat /\ m.max \in Nat /\ n.attempts \in Nat /\ n.max \in Nat
  BY DEF JobMeta
<1>1. ASSUME n.attempts = 0 PROVE Bounded(n)
  BY <1>0, <1>1 DEF Bounded
<1>2. Absent.attempts = 0 /\ \A c \in Clients : NewJob(c).attempts = 0
  BY DEF Absent, NewJob
<1>3. \A at \in Nat : Requeued(m, at).attempts = 0
  BY DEF Requeued, JobMeta
<1>4. ASSUME n.attempts = m.attempts, n.max = m.max, n.state # "pending" PROVE Bounded(n)
  BY <1>0, <1>4 DEF Bounded
<1>5. /\ Killed(m).attempts = m.attempts /\ Killed(m).max = m.max
      /\ Killed(m).state = "dead"
      /\ MarkCompleted(m).attempts = m.attempts /\ MarkCompleted(m).max = m.max
      /\ MarkCompleted(m).state = "completed"
  BY DEF Killed, MarkCompleted, JobMeta
<1>6. \A at \in Nat : /\ Renewed(m, at).attempts = m.attempts /\ Renewed(m, at).max = m.max
                      /\ Renewed(m, at).state = m.state
  BY DEF Renewed, JobMeta
<1>7. ASSUME NEW at \in Nat, n = GivenBack(m, at) PROVE Bounded(n)
  <2>1. CASE Exhausted(m)
    BY <1>4, <1>5, <1>7, <2>1 DEF GivenBack
  <2>2. CASE ~Exhausted(m)
    <3>1. n.attempts = m.attempts /\ n.max = m.max
      BY <1>7, <2>2 DEF GivenBack, Returned, JobMeta
    <3>2. m.attempts < m.max
      BY <1>0, <2>2 DEF Exhausted
    <3> QED
      BY <1>0, <3>1, <3>2 DEF Bounded
  <2> QED
    BY <2>1, <2>2
<1> QED
  BY <1>1, <1>2, <1>3, <1>4, <1>5, <1>6, <1>7 DEF RecordMoves

(* A job is not delivered more often than it may be, for any number of     *)
(* workers, crashes and failed stores.                                     *)
THEOREM DeliveriesAreBounded == Spec => []AttemptsBounded
<1>1. AttemptsBounded <=> \A id \in IDs : Bounded(jobs[id])
  BY DEF AttemptsBounded, Bounded
<1>2. Init => AttemptsBounded
  <2>1. Absent.attempts = 0
    BY DEF Absent
  <2> QED
    BY <2>1 DEF Init, AttemptsBounded
<1>3. IInv /\ IInv' /\ AttemptsBounded /\ [Next]_vars => AttemptsBounded'
  <2> SUFFICES ASSUME IInv, IInv', AttemptsBounded, [Next]_vars, NEW id \in IDs
               PROVE  Bounded(jobs'[id])
    BY DEF AttemptsBounded, Bounded
  <2>1. jobs[id] \in JobMeta /\ jobs'[id] \in JobMeta /\ Bounded(jobs[id]) /\ StoreInv /\ TypeOK
    BY <1>1 DEF IInv, StoreInv, TypeInv, TypeOK
  <2>2. CASE \A c \in Clients : ~ClaimJob(c)
    BY <2>1, <2>2, StepMoves, MovesStayBounded
  <2>3. ASSUME NEW c \in Clients, ClaimJob(c) PROVE Bounded(jobs'[id])
    <3>1. PICK t \in ClockReadings, j \in IDs, lease \in LeaseDurations :
            /\ jobs[j].state = "pending"
            /\ jobs' = [jobs EXCEPT ![j] = Claimed(jobs[j], t + lease, fresh + 1)]
      BY <2>3 DEF ClaimJob, Candidates
    <3>2. CASE id # j
      BY <2>1, <3>1, <3>2
    <3>3. CASE id = j
      <4>1. jobs'[id] = Claimed(jobs[id], t + lease, fresh + 1)
        BY <2>1, <3>1, <3>3 DEF TypeOK
      <4>2. /\ jobs'[id].attempts = jobs[id].attempts + 1 /\ jobs'[id].max = jobs[id].max
            /\ jobs'[id].state = "claimed"
        BY <2>1, <4>1 DEF Claimed, JobMeta
      <4>3. jobs[id].attempts \in Nat /\ jobs[id].max \in Nat
        BY <2>1 DEF JobMeta
      <4> QED
        BY <2>1, <3>1, <3>3, <4>2, <4>3 DEF Bounded
    <3> QED
      BY <3>2, <3>3
  <2> QED
    BY <2>2, <2>3
<1> QED
  BY <1>2, <1>3, Invariance, PTL DEF Spec

(* The oldest job that was not delayed is claimed first. *)
THEOREM FirstInFirstOut == Spec => FIFO
<1>1. ASSUME IInv, [Next]_vars, NEW i \in IDs, NEW j \in IDs,
             jobs[j].state = "pending", jobs'[j].state = "claimed",
             jobs[j].availableAt >= jobs[j].createdAt,
             jobs[i].state = "pending", jobs[i].availableAt = jobs[i].createdAt
      PROVE  jobs[j].createdAt <= jobs[i].createdAt
  <2>0. /\ StoreInv /\ TypeOK /\ jobs[j] \in JobMeta
        /\ jobs[i].availableAt \in Nat /\ jobs[j].availableAt \in Nat
        /\ jobs[i].createdAt \in Nat /\ jobs[j].createdAt \in Nat
    <3>1. StoreInv /\ TypeOK
      BY <1>1 DEF IInv, StoreInv, TypeInv
    <3>2. jobs[i] \in JobMeta /\ jobs[j] \in JobMeta
      BY <3>1 DEF TypeOK
    <3> QED
      BY <3>1, <3>2 DEF JobMeta
  <2>1. ~RecordMoves(jobs[j], jobs'[j])
    <3>1. \A c \in Clients : NewJob(c).state = "pending"
      BY DEF NewJob
    <3>2. Absent.state = "absent"
      BY DEF Absent
    <3>3. \A at \in Nat : Requeued(jobs[j], at).state = "pending"
      BY <2>0 DEF Requeued, JobMeta
    <3> QED
      BY <1>1, <3>1, <3>2, <3>3 DEF RecordMoves
  <2>2. PICK c \in Clients : ClaimJob(c)
    BY <1>1, <2>0, <2>1, StepMoves
  <2>3. PICK t \in ClockReadings, k \in IDs :
          /\ jobs[k].availableAt <= t
          /\ \A other \in Candidates(t) \ {k} : Before(k, other)
          /\ \E m : jobs' = [jobs EXCEPT ![k] = m]
    BY <2>2 DEF ClaimJob, Candidates
  <2>4. k = j
    BY <1>1, <2>0, <2>3 DEF TypeOK
  <2>5. t \in Nat
    BY <2>0, ReadingType DEF StoreInv, TypeInv
  <2>6. CASE i = j
    BY <2>0, <2>6
  <2>7. CASE i # j /\ jobs[i].availableAt <= t
    <3>1. Before(j, i)
      BY <1>1, <2>3, <2>4, <2>7 DEF Candidates
    <3> QED
      BY <1>1, <2>0, <3>1 DEF Before
  <2>8. CASE ~(jobs[i].availableAt <= t)
    BY <1>1, <2>0, <2>3, <2>4, <2>5, <2>8
  <2> QED
    BY <2>6, <2>7, <2>8
<1>2. IInv /\ [Next]_vars =>
        [\A i, j \in IDs :
           /\ jobs[j].state = "pending" /\ jobs'[j].state = "claimed"
           /\ jobs[j].availableAt >= jobs[j].createdAt
           /\ jobs[i].state = "pending" /\ jobs[i].availableAt = jobs[i].createdAt
           => jobs[j].createdAt <= jobs[i].createdAt]_vars
  BY <1>1
<1> QED
  BY <1>2, Invariance, PTL DEF Spec, FIFO

-----------------------------------------------------------------------------
(* The refinement of WorkQueue *)

(* Seen, with the body that the record says it has. *)
Shown(m) ==
  IF m.state \in {"absent", "completed"} THEN [state |-> "none"]
  ELSE [state |-> m.state, key |-> m.payload, body |-> m.sha,
        attempts |-> m.attempts, max |-> m.max, until |-> m.leaseUntil, token |-> m.token]

LEMMA SeenIsShown ==
  ASSUME StoreInv
  PROVE  \A id \in IDs : Seen(jobs[id], blobs) = Shown(jobs[id])
<1> SUFFICES ASSUME NEW id \in IDs PROVE Seen(jobs[id], blobs) = Shown(jobs[id])
  OBVIOUS
<1>1. jobs[id].state \in JobStates
  BY DEF StoreInv, TypeInv, TypeOK, JobMeta
<1>2. jobs[id].state \notin {"absent", "completed"} => blobs[jobs[id].payload] = jobs[id].sha
  BY <1>1 DEF StoreInv, PayloadIntact, JobStates
<1> QED
  BY <1>2 DEF Seen, Shown

(* The same of the next state. *)
LEMMA SeenIsShownNext ==
  ASSUME StoreInv'
  PROVE  \A id \in IDs : Seen(jobs'[id], blobs') = Shown(jobs'[id])
<1> SUFFICES ASSUME NEW id \in IDs PROVE Seen(jobs'[id], blobs') = Shown(jobs'[id])
  OBVIOUS
<1>1. jobs'[id].state \in JobStates
  BY DEF StoreInv, TypeInv, TypeOK, JobMeta
<1>2. jobs'[id].state \notin {"absent", "completed"} => blobs'[jobs'[id].payload] = jobs'[id].sha
  BY <1>1 DEF StoreInv, PayloadIntact, JobStates
<1> QED
  BY <1>2 DEF Seen, Shown

(* The table, and what a step that rewrites one record makes of it.        *)
LEMMA TableMoves ==
  ASSUME StoreInv, StoreInv', NEW id \in IDs, NEW n, jobs' = [jobs EXCEPT ![id] = n]
  PROVE  [i \in IDs |-> Seen(jobs'[i], blobs')]
           = [[i \in IDs |-> Seen(jobs[i], blobs)] EXCEPT ![id] = Shown(n)]
<1>1. \A i \in IDs : jobs'[i] = IF i = id THEN n ELSE jobs[i]
  BY DEF StoreInv, TypeInv, TypeOK
<1>2. \A i \in IDs : Seen(jobs'[i], blobs') = IF i = id THEN Shown(n) ELSE Seen(jobs[i], blobs)
  BY <1>1, SeenIsShown, SeenIsShownNext
<1> QED
  BY <1>2

(* The table after a step that changes no record visibly. *)
LEMMA TableStays ==
  ASSUME StoreInv, StoreInv', \A i \in IDs : Shown(jobs'[i]) = Shown(jobs[i])
  PROVE  [i \in IDs |-> Seen(jobs'[i], blobs')] = [i \in IDs |-> Seen(jobs[i], blobs)]
<1>1. \A i \in IDs : Seen(jobs'[i], blobs') = Seen(jobs[i], blobs)
  BY SeenIsShown, SeenIsShownNext
<1> QED
  BY <1>1

(* What a record that is not completed shows. *)
LEMMA ShownFields ==
  ASSUME NEW m, m.state \in Live
  PROVE  /\ Shown(m) = [state |-> m.state, key |-> m.payload, body |-> m.sha,
                        attempts |-> m.attempts, max |-> m.max, until |-> m.leaseUntil,
                        token |-> m.token]
         /\ Shown(m).state = m.state /\ Shown(m).key = m.payload /\ Shown(m).body = m.sha
         /\ Shown(m).attempts = m.attempts /\ Shown(m).max = m.max
         /\ Shown(m).until = m.leaseUntil /\ Shown(m).token = m.token
BY DEF Shown, Live

(* A job whose payload, hash and bound are kept. *)
LEMMA ShownBecomes ==
  ASSUME NEW m, m.state \in Live, NEW n, n.state \in Live,
         n.payload = m.payload, n.sha = m.sha, n.max = m.max
  PROVE  Shown(n) = Work!Become(Shown(m), n.state, n.attempts, n.leaseUntil, n.token)
BY ShownFields DEF Work!Become

(* What the operators on records show. *)
LEMMA ShownRecords ==
  ASSUME NEW m \in JobMeta, m.state \in Live
  PROVE  /\ Shown(Killed(m)) = Work!Buried(Shown(m))
         /\ Shown(MarkCompleted(m)) = Work!NoJob
         /\ \A at \in Nat : Shown(GivenBack(m, at)) = Work!Back(Shown(m))
         /\ m.state = "claimed" =>
              \A at \in Nat : Shown(Renewed(m, at)) = Work!Extended(Shown(m), at)
         /\ \A at \in Nat : Shown(Requeued(m, at)) = Work!Requeued(Shown(m))
         /\ \A at, n \in Nat : Shown(Claimed(m, at, n)) = Work!Delivered(Shown(m), at, n)
<1>1. Shown(Killed(m)) = Work!Buried(Shown(m))
  <2> DEFINE r == Killed(m)
  <2>1. /\ r.state = "dead" /\ r.payload = m.payload /\ r.sha = m.sha
        /\ r.attempts = m.attempts /\ r.max = m.max /\ r.leaseUntil = 0 /\ r.token = 0
    BY DEF Killed, JobMeta
  <2> HIDE DEF r
  <2>2. Shown(r) = Work!Become(Shown(m), "dead", m.attempts, 0, 0)
    BY <2>1, ShownBecomes DEF Live
  <2> QED
    BY <2>2, ShownFields DEF r, Work!Buried
<1>2. Shown(MarkCompleted(m)) = Work!NoJob
  BY DEF MarkCompleted, Work!NoJob, Shown, JobMeta
<1>3. ASSUME NEW at \in Nat PROVE Shown(GivenBack(m, at)) = Work!Back(Shown(m))
  <2>1. CASE m.attempts >= m.max
    BY <1>1, <2>1, ShownFields DEF GivenBack, Exhausted, Work!Back
  <2>2. CASE ~(m.attempts >= m.max)
    <3> DEFINE r == Returned(m, at)
    <3>1. /\ r.state = "pending" /\ r.payload = m.payload /\ r.sha = m.sha
          /\ r.attempts = m.attempts /\ r.max = m.max /\ r.leaseUntil = 0 /\ r.token = 0
      BY DEF Returned, JobMeta
    <3>2. GivenBack(m, at) = r
      BY <2>2 DEF GivenBack, Exhausted
    <3> HIDE DEF r
    <3>3. Shown(r) = Work!Become(Shown(m), "pending", m.attempts, 0, 0)
      BY <3>1, ShownBecomes DEF Live
    <3> QED
      BY <2>2, <3>2, <3>3, ShownFields DEF Work!Back
  <2> QED
    BY <2>1, <2>2
<1>4. ASSUME NEW at \in Nat, m.state = "claimed"
      PROVE  Shown(Renewed(m, at)) = Work!Extended(Shown(m), at)
  <2> DEFINE r == Renewed(m, at)
  <2>1. /\ r.state = "claimed" /\ r.payload = m.payload /\ r.sha = m.sha
        /\ r.attempts = m.attempts /\ r.max = m.max /\ r.leaseUntil = at /\ r.token = m.token
    BY <1>4 DEF Renewed, JobMeta
  <2> HIDE DEF r
  <2>2. Shown(r) = Work!Become(Shown(m), "claimed", m.attempts, at, m.token)
    BY <2>1, ShownBecomes DEF Live
  <2> QED
    BY <2>2, ShownFields DEF r, Work!Extended
<1>5. ASSUME NEW at \in Nat PROVE Shown(Requeued(m, at)) = Work!Requeued(Shown(m))
  <2> DEFINE r == Requeued(m, at)
  <2>1. /\ r.state = "pending" /\ r.payload = m.payload /\ r.sha = m.sha
        /\ r.attempts = 0 /\ r.max = m.max /\ r.leaseUntil = 0 /\ r.token = m.token
    BY DEF Requeued, JobMeta
  <2> HIDE DEF r
  <2>2. Shown(r) = Work!Become(Shown(m), "pending", 0, 0, m.token)
    BY <2>1, ShownBecomes DEF Live
  <2> QED
    BY <2>2, ShownFields DEF r, Work!Requeued
<1>6. ASSUME NEW at \in Nat, NEW n \in Nat
      PROVE  Shown(Claimed(m, at, n)) = Work!Delivered(Shown(m), at, n)
  <2> DEFINE r == Claimed(m, at, n)
  <2>1. /\ r.state = "claimed" /\ r.payload = m.payload /\ r.sha = m.sha
        /\ r.attempts = m.attempts + 1 /\ r.max = m.max /\ r.leaseUntil = at /\ r.token = n
    BY DEF Claimed, JobMeta
  <2> HIDE DEF r
  <2>2. Shown(r) = Work!Become(Shown(m), "claimed", m.attempts + 1, at, n)
    BY <2>1, ShownBecomes DEF Live
  <2> QED
    BY <2>2, ShownFields DEF r, Work!Delivered
<1> QED
  BY <1>1, <1>2, <1>3, <1>4, <1>5, <1>6

(* The leases after a step that keeps every handle's job and token. *)
LEMMA LeaseStays ==
  ASSUME \A c \in Clients : handle'[c].id = handle[c].id /\ handle'[c].token = handle[c].token
  PROVE  [c \in Clients |-> [id |-> handle'[c].id, token |-> handle'[c].token]]
           = [c \in Clients |-> [id |-> handle[c].id, token |-> handle[c].token]]
OBVIOUS

(* A step of which the table shows nothing. *)
LEMMA NothingShown ==
  ASSUME StoreInv, StoreInv', UNCHANGED <<now, fresh, published>>,
         \A i \in IDs : Shown(jobs'[i]) = Shown(jobs[i]),
         \A c \in Clients : handle'[c].id = handle[c].id /\ handle'[c].token = handle[c].token
  PROVE  UNCHANGED Work!workVars
BY TableStays, LeaseStays DEF Work!workVars

(* A cleanup removes a record that is not shown any more. *)
LEMMA RemovalIsHidden ==
  ASSUME StoreInv, NEW id, NEW token, Removable(jobs[id], token),
         jobs' = [jobs EXCEPT ![id] = Absent]
  PROVE  \A i \in IDs : Shown(jobs'[i]) = Shown(jobs[i])
<1>1. \A i \in IDs : jobs'[i] = IF i = id THEN Absent ELSE jobs[i]
  BY DEF StoreInv, TypeInv, TypeOK
<1>2. Shown(Absent) = [state |-> "none"]
  BY DEF Shown, Absent
<1>3. Shown(jobs[id]) = [state |-> "none"]
  BY DEF Shown, Removable
<1> QED
  BY <1>1, <1>2, <1>3

(* Beginning a call, being refused, and cleaning up are not seen. *)
LEMMA WorkQuiet ==
  ASSUME StoreInv, StoreInv', NEW c \in Clients,
         \/ EnqueueBegin(c) \/ PublishRejected(c) \/ DiscardPayload(c) \/ ClaimBegin(c)
         \/ ClaimNothing(c) \/ CompleteResume(c) \/ CompleteDelete(c) \/ CompleteRemove(c)
         \/ CompleteFails(c) \/ RequeueBegin(c) \/ RequeueRejected(c)
  PROVE  UNCHANGED Work!workVars
<1>1. UNCHANGED <<now, fresh, published, handle>>
  BY DEF EnqueueBegin, PublishRejected, DiscardPayload, ClaimBegin, ClaimNothing,
       CompleteResume, CompleteDelete, CompleteRemove, CompleteFails, RequeueBegin,
       RequeueRejected, historyVars
<1>2. \A i \in IDs : Shown(jobs'[i]) = Shown(jobs[i])
  <2>1. CASE UNCHANGED jobs
    BY <2>1
  <2>2. CASE Removable(Held(c), handle[c].token) /\ jobs' = [jobs EXCEPT ![handle[c].id] = Absent]
    BY <2>2, RemovalIsHidden DEF Held
  <2> QED
    BY <2>1, <2>2 DEF EnqueueBegin, PublishRejected, DiscardPayload, ClaimBegin, ClaimNothing,
         CompleteResume, CompleteDelete, CompleteRemove, CompleteFails, RequeueBegin,
         RequeueRejected, storeVars
<1> QED
  BY <1>1, <1>2, NothingShown

(* An upload draws an identifier; the body is not seen yet. *)
LEMMA WorkDraw ==
  ASSUME StoreInv, StoreInv', NEW c \in Clients, UploadPayload(c) \/ UploadFails(c)
  PROVE  Work!Draw
<1>1. fresh' = fresh + 1 /\ UNCHANGED <<now, published, jobs, handle>>
  BY DEF UploadPayload, UploadFails, historyVars
<1>2. \A i \in IDs : Shown(jobs'[i]) = Shown(jobs[i])
  BY <1>1
<1> QED
  BY <1>1, <1>2, TableStays, LeaseStays DEF Work!Draw

(* The publishing transaction puts the job, with its body, in the table. *)
LEMMA WorkEnqueue ==
  ASSUME StoreInv, StoreInv', NEW c \in Clients, Publish(c)
  PROVE  Work!Enqueue(c)
<1> DEFINE id == call[c].id
           key == call[c].key
           max == call[c].max
<1>1. id \in IDs /\ key \in PayloadKeys \ published /\ max \in MaxRetries
  BY DEF Publish, StoreInv, TypeInv, CallArgs, PrivateInv, Private
<1>2. /\ UNCHANGED <<now, fresh, handle>> /\ published' = published \cup {key}
      /\ jobs' = [jobs EXCEPT ![id] = NewJob(c)] /\ ~Exists(jobs[id])
  BY DEF Publish
<1>3. Shown(NewJob(c)) = Work!Job(key, c, max)
  BY DEF Shown, NewJob, Work!Job
<1>4. Seen(jobs[id], blobs) = Work!NoJob
  BY <1>2 DEF Seen, Exists, Work!NoJob
<1> HIDE DEF id, key, max
<1>5. [i \in IDs |-> Seen(jobs'[i], blobs')]
        = [[i \in IDs |-> Seen(jobs[i], blobs)] EXCEPT ![id] = Work!Job(key, c, max)]
  BY <1>1, <1>2, <1>3, TableMoves
<1>6. [i \in IDs |-> Seen(jobs[i], blobs)][id] = Work!NoJob
  BY <1>1, <1>4
<1>7. UNCHANGED [d \in Clients |-> [id |-> handle[d].id, token |-> handle[d].token]]
  BY <1>2
<1> QED
  BY <1>1, <1>2, <1>5, <1>6, <1>7 DEF Work!Enqueue

(* What the table shows of a job that is not completed. *)
LEMMA TableAt ==
  ASSUME StoreInv, NEW id \in IDs, jobs[id].state \in Live
  PROVE  /\ jobs[id] \in JobMeta
         /\ [i \in IDs |-> Seen(jobs[i], blobs)][id] = Shown(jobs[id])
         /\ Shown(jobs[id]).state = jobs[id].state
         /\ Shown(jobs[id]).attempts = jobs[id].attempts
         /\ Shown(jobs[id]).max = jobs[id].max
         /\ Shown(jobs[id]).until = jobs[id].leaseUntil
         /\ Shown(jobs[id]).token = jobs[id].token
<1>1. jobs[id] \in JobMeta
  BY DEF StoreInv, TypeInv, TypeOK
<1>2. [i \in IDs |-> Seen(jobs[i], blobs)][id] = Shown(jobs[id])
  BY SeenIsShown
<1> QED
  BY <1>1, <1>2, ShownFields

(* Claim's transaction is a delivery. *)
LEMMA WorkDeliver ==
  ASSUME StoreInv, StoreInv', AttemptsBounded, NEW c \in Clients, ClaimJob(c)
  PROVE  Work!Deliver(c)
<1>1. PICK t \in ClockReadings, id \in IDs, d \in LeaseDurations :
        /\ jobs[id].state = "pending" /\ t + d <= MaxNow
        /\ jobs' = [jobs EXCEPT ![id] = Claimed(jobs[id], t + d, fresh + 1)]
        /\ handle' = [handle EXCEPT ![c] =
                        [id |-> id, token |-> fresh + 1, payload |-> jobs[id].payload,
                         sha |-> jobs[id].sha, until |-> t + d, released |-> FALSE]]
  BY DEF ClaimJob, Candidates
<1>2. fresh' = fresh + 1 /\ UNCHANGED <<now, published>>
  BY DEF ClaimJob, historyVars
<1>3. t + d \in Nat /\ fresh + 1 \in Nat /\ t + d \in 0..MaxNow
  BY <1>1, ReadingType, BoundsAssumption DEF StoreInv, TypeInv, TypeOK
<1>4. PICK until \in 0..MaxNow : until = t + d
  BY <1>3
<1>5. jobs[id].state \in Live
  BY <1>1 DEF Live
<1>6. Shown(Claimed(jobs[id], until, fresh + 1)) = Work!Delivered(Shown(jobs[id]), until, fresh + 1)
  BY <1>3, <1>4, <1>5, TableAt, ShownRecords
<1>7. [i \in IDs |-> Seen(jobs'[i], blobs')]
        = [[i \in IDs |-> Seen(jobs[i], blobs)] EXCEPT
             ![id] = Work!Delivered(Shown(jobs[id]), until, fresh + 1)]
  BY <1>1, <1>4, <1>6, TableMoves
<1>8. [e \in Clients |-> [id |-> handle'[e].id, token |-> handle'[e].token]]
        = [[e \in Clients |-> [id |-> handle[e].id, token |-> handle[e].token]] EXCEPT
             ![c] = [id |-> id, token |-> fresh + 1]]
  <2>1. /\ handle'[c].id = id /\ handle'[c].token = fresh + 1
        /\ \A e \in Clients \ {c} : handle'[e] = handle[e]
    BY <1>1 DEF StoreInv, TypeInv, TypeOK
  <2> QED
    BY <2>1
<1>9. Shown(jobs[id]).state = "pending"
      /\ (Shown(jobs[id]).attempts < Shown(jobs[id]).max \/ Shown(jobs[id]).attempts = 0)
  BY <1>1, <1>5, TableAt DEF AttemptsBounded
<1> QED
  BY <1>2, <1>5, <1>7, <1>8, <1>9, TableAt DEF Work!Deliver

(* A worker whose lease passes the check is the one that the table names. *)
LEMMA WorkHolds ==
  ASSUME StoreInv, NEW c \in Clients, HasJob(c), NEW t, HoldsLease(Held(c), handle[c], t)
  PROVE  /\ Work!Holds(c)
         /\ handle[c].id \in IDs /\ jobs[handle[c].id].state = "claimed"
         /\ jobs[handle[c].id].state \in Live
         /\ jobs[handle[c].id] \in JobMeta
<1>1. /\ handle[c].id \in IDs /\ jobs[handle[c].id].state = "claimed"
      /\ jobs[handle[c].id].token = handle[c].token
  BY Holding
<1>2. jobs[handle[c].id].state \in Live
  BY <1>1 DEF Live
<1>3. /\ [d \in Clients |-> [id |-> handle[d].id, token |-> handle[d].token]][c].id = handle[c].id
      /\ [d \in Clients |-> [id |-> handle[d].id, token |-> handle[d].token]][c].token
           = handle[c].token
  OBVIOUS
<1>4. PICK id \in IDs : id = handle[c].id
  BY <1>1
<1>5. /\ [i \in IDs |-> Seen(jobs[i], blobs)][id].state = "claimed"
      /\ [i \in IDs |-> Seen(jobs[i], blobs)][id].token = handle[c].token
      /\ jobs[id] \in JobMeta
  BY <1>1, <1>2, <1>4, TableAt
<1> QED
  BY <1>1, <1>2, <1>3, <1>4, <1>5 DEF Work!Holds


(* The worker's job in the table, and a step that replaces its record. *)
LEMMA WorkMoves ==
  ASSUME StoreInv, StoreInv', NEW c \in Clients, handle[c].id \in IDs,
         jobs[handle[c].id].state \in Live, NEW n,
         jobs' = [jobs EXCEPT ![handle[c].id] = n]
  PROVE  /\ Work!Moved(c, Shown(n))
         /\ [i \in IDs |-> Seen(jobs[i], blobs)]
              [[d \in Clients |-> [id |-> handle[d].id, token |-> handle[d].token]][c].id]
              = Shown(jobs[handle[c].id])
<1>1. [d \in Clients |-> [id |-> handle[d].id, token |-> handle[d].token]][c].id = handle[c].id
  OBVIOUS
<1>2. PICK id \in IDs : id = handle[c].id
  OBVIOUS
<1>3. [i \in IDs |-> Seen(jobs'[i], blobs')]
        = [[i \in IDs |-> Seen(jobs[i], blobs)] EXCEPT ![id] = Shown(n)]
  BY <1>2, TableMoves
<1>4. [i \in IDs |-> Seen(jobs[i], blobs)][id] = Shown(jobs[id])
  BY <1>2, TableAt
<1> QED
  BY <1>1, <1>2, <1>3, <1>4 DEF Work!Moved

(* The methods of a Job are what its worker may do in the table. *)
LEMMA WorkAct ==
  ASSUME StoreInv, StoreInv', NEW c \in Clients,
         Renew(c) \/ Retry(c) \/ Dead(c) \/ CompleteMark(c)
  PROVE  Work!Act(c)
<1>1. HasJob(c) /\ UNCHANGED <<now, fresh, published>>
  BY DEF Renew, Retry, Dead, CompleteMark, historyVars
<1>2. PICK t : HoldsLease(Held(c), handle[c], t)
  BY DEF Renew, Retry, Dead, CompleteMark
<1>3. /\ Work!Holds(c)
      /\ handle[c].id \in IDs /\ jobs[handle[c].id].state = "claimed"
      /\ jobs[handle[c].id].state \in Live
      /\ jobs[handle[c].id] \in JobMeta
  BY <1>1, <1>2, WorkHolds
<1>4. \A d \in Clients : handle'[d].id = handle[d].id /\ handle'[d].token = handle[d].token
  <2>1. \/ \E until : handle' = [handle EXCEPT ![c].until = until]
        \/ handle' = [handle EXCEPT ![c].released = TRUE]
    BY DEF Renew, Retry, Dead, CompleteMark
  <2> QED
    BY <2>1 DEF StoreInv, TypeInv, TypeOK, Handles
<1>5. [d \in Clients |-> [id |-> handle'[d].id, token |-> handle'[d].token]]
        = [d \in Clients |-> [id |-> handle[d].id, token |-> handle[d].token]]
  BY <1>4, LeaseStays
<1>6. PICK m \in JobMeta : m = jobs[handle[c].id] /\ m.state = "claimed" /\ m.state \in Live
  BY <1>3
<1>7. CASE Renew(c)
  <2>1. PICK until \in 0..MaxNow : jobs' = [jobs EXCEPT ![handle[c].id] = Renewed(m, until)]
    <3>1. PICK u \in ClockReadings, d \in LeaseDurations :
            u + d <= MaxNow /\ jobs' = [jobs EXCEPT ![handle[c].id] = Renewed(m, u + d)]
      BY <1>6, <1>7 DEF Renew
    <3>2. u + d \in 0..MaxNow
      BY <3>1, ReadingType, BoundsAssumption DEF StoreInv, TypeInv
    <3> QED
      BY <3>1, <3>2
  <2>2. Shown(Renewed(m, until)) = Work!Extended(Shown(m), until)
    BY <1>6, ShownRecords, BoundsAssumption
  <2>3. Work!Moved(c, Work!Extended(Shown(m), until))
    BY <1>3, <2>1, <2>2, WorkMoves
  <2>4. Work!Extend(c)
    BY <1>3, <1>6, <2>1, <2>3, WorkMoves DEF Work!Extend
  <2> QED
    BY <1>1, <1>3, <1>5, <2>4 DEF Work!Act
<1>8. CASE Retry(c)
  <2>1. PICK at \in Nat : jobs' = [jobs EXCEPT ![handle[c].id] = GivenBack(m, at)]
    BY <1>6, <1>8, ReadingType DEF Retry, StoreInv, TypeInv
  <2>2. Shown(GivenBack(m, at)) = Work!Back(Shown(m))
    BY <1>6, ShownRecords
  <2>3. Work!Moved(c, Work!Back(Shown(m)))
    BY <1>3, <2>1, <2>2, WorkMoves
  <2>4. Work!GiveBack(c)
    BY <1>3, <1>6, <2>1, <2>3, WorkMoves DEF Work!GiveBack
  <2> QED
    BY <1>1, <1>3, <1>5, <2>4 DEF Work!Act
<1>9. CASE Dead(c)
  <2>1. jobs' = [jobs EXCEPT ![handle[c].id] = Killed(m)]
    BY <1>6, <1>9 DEF Dead
  <2>2. Shown(Killed(m)) = Work!Buried(Shown(m))
    BY <1>6, ShownRecords
  <2>3. Work!Moved(c, Work!Buried(Shown(m)))
    BY <1>3, <2>1, <2>2, WorkMoves
  <2>4. Work!Bury(c)
    BY <1>3, <1>6, <2>1, <2>3, WorkMoves DEF Work!Bury
  <2> QED
    BY <1>1, <1>3, <1>5, <2>4 DEF Work!Act
<1>10. CASE CompleteMark(c)
  <2>1. jobs' = [jobs EXCEPT ![handle[c].id] = MarkCompleted(m)]
    BY <1>6, <1>10 DEF CompleteMark
  <2>2. Shown(MarkCompleted(m)) = Work!NoJob
    BY <1>6, ShownRecords
  <2>3. Work!Finish(c)
    BY <1>3, <2>1, <2>2, WorkMoves DEF Work!Finish
  <2> QED
    BY <1>1, <1>3, <1>5, <2>3 DEF Work!Act
<1> QED
  BY <1>7, <1>8, <1>9, <1>10

(* RequeueDead's transaction takes a job from the dead letters. *)
LEMMA WorkRequeue ==
  ASSUME StoreInv, StoreInv', NEW c \in Clients, RequeueDead(c)
  PROVE  Work!Requeue
<1>1. PICK id \in IDs, at \in Nat :
        jobs[id].state = "dead" /\ jobs' = [jobs EXCEPT ![id] = Requeued(jobs[id], at)]
  BY DEF RequeueDead, StoreInv, TypeInv, TypeOK, CallArgs, Calls
<1>2. UNCHANGED <<now, fresh, published, handle>>
  BY DEF RequeueDead, historyVars
<1>3. jobs[id].state \in Live
  BY <1>1 DEF Live
<1>4. Shown(Requeued(jobs[id], at)) = Work!Requeued(Shown(jobs[id]))
  BY <1>3, TableAt, ShownRecords
<1>5. [i \in IDs |-> Seen(jobs'[i], blobs')]
        = [[i \in IDs |-> Seen(jobs[i], blobs)] EXCEPT ![id] = Work!Requeued(Shown(jobs[id]))]
  BY <1>1, <1>4, TableMoves
<1> QED
  BY <1>1, <1>2, <1>3, <1>5, TableAt DEF Work!Requeue

(* The reaper's transaction takes back jobs whose leases have run out: its *)
(* reading of the clock is never ahead.                                    *)
LEMMA WorkTakeBack ==
  ASSUME StoreInv, StoreInv', NEW q \in Queues, ReapExpired(q)
  PROVE  Work!TakeBack
<1>1. PICK t \in ClockReadings : jobs' = [id \in IDs |-> Reaped(jobs[id], t)]
  BY DEF ReapExpired
<1>2. UNCHANGED <<now, fresh, published, handle>>
  BY DEF ReapExpired, historyVars
<1>3. t \in Nat /\ now \in Nat /\ t <= now
  BY ReadingType DEF StoreInv, TypeInv, ClockReadings
<1> DEFINE gone == {id \in IDs : Expired(jobs[id], t)}
           table == [i \in IDs |-> Seen(jobs[i], blobs)]
<1>4. ASSUME NEW id \in gone
      PROVE  /\ id \in IDs
             /\ table[id].state = "claimed" /\ table[id].until <= now
             /\ Seen(jobs'[id], blobs') = Work!Back(table[id])
  <2>1. id \in IDs /\ jobs[id].state = "claimed" /\ jobs[id].leaseUntil <= t
    BY DEF Expired
  <2>2. jobs[id].state \in Live /\ jobs[id] \in JobMeta /\ jobs[id].leaseUntil \in Nat
    BY <2>1 DEF Live, StoreInv, TypeInv, TypeOK, JobMeta
  <2>3. table[id] = Shown(jobs[id]) /\ table[id].state = "claimed" /\ table[id].until <= now
    BY <1>3, <2>1, <2>2, TableAt
  <2>4. jobs'[id] = GivenBack(jobs[id], t)
    BY <1>1, <2>1 DEF Reaped
  <2>5. Shown(GivenBack(jobs[id], t)) = Work!Back(Shown(jobs[id]))
    BY <1>3, <2>2, ShownRecords
  <2> QED
    BY <2>1, <2>3, <2>4, <2>5, SeenIsShownNext
<1>5. ASSUME NEW id \in IDs \ gone PROVE Seen(jobs'[id], blobs') = table[id]
  <2>1. jobs'[id] = jobs[id]
    BY <1>1 DEF Reaped
  <2> QED
    BY <2>1, SeenIsShown, SeenIsShownNext
<1>6. gone \subseteq {id \in IDs : table[id].state = "claimed" /\ table[id].until <= now}
  BY <1>4
<1>7. [i \in IDs |-> Seen(jobs'[i], blobs')]
        = [id \in IDs |-> IF id \in gone THEN Work!Back(table[id]) ELSE table[id]]
  BY <1>4, <1>5
<1>8. UNCHANGED [d \in Clients |-> [id |-> handle[d].id, token |-> handle[d].token]]
  BY <1>2
<1> QED
  BY <1>2, <1>6, <1>7, <1>8 DEF Work!TakeBack

(* A client's step is one step of the table, or none. *)
LEMMA WorkClient ==
  ASSUME StoreInv, StoreInv', AttemptsBounded, NEW c \in Clients, ClientStep(c)
  PROVE  [Work!Next]_(Work!workVars)
<1>1. \/ UNCHANGED Work!workVars \/ Work!Draw \/ Work!Requeue
      \/ Work!Enqueue(c) \/ Work!Deliver(c) \/ Work!Act(c)
  BY WorkQuiet, WorkDraw, WorkEnqueue, WorkDeliver, WorkAct, WorkRequeue DEF ClientStep
<1> QED
  BY <1>1 DEF Work!Next

(* A maintenance step is: the sweep of completed jobs is not seen. *)
LEMMA WorkMaintenance ==
  ASSUME StoreInv, StoreInv', NEW q \in Queues, MaintenanceStep(q)
  PROVE  [Work!Next]_(Work!workVars)
<1>1. CASE ReapExpired(q)
  BY <1>1, WorkTakeBack DEF Work!Next
<1>2. CASE ~ReapExpired(q)
  <2>1. UNCHANGED <<now, fresh, published, handle>>
    BY <1>2 DEF MaintenanceStep, StartMaintenance, CancelMaintenance, ReapBegin, ReapFails,
         SweepDelete, SweepDeleteFails, SweepRemove, SweepRemoveFails, SweepDone, ReaperExit,
         historyVars
  <2>2. \/ UNCHANGED jobs
        \/ \E id, token : Removable(jobs[id], token) /\ jobs' = [jobs EXCEPT ![id] = Absent]
    <3>1. CASE SweepRemove(q)
      BY <3>1 DEF SweepRemove
    <3>2. CASE ~SweepRemove(q)
      BY <1>2, <3>2 DEF MaintenanceStep, StartMaintenance, CancelMaintenance, ReapBegin,
           ReapFails, SweepDelete, SweepDeleteFails, SweepRemoveFails, SweepDone, ReaperExit,
           storeVars
    <3> QED
      BY <3>1, <3>2
  <2>3. \A i \in IDs : Shown(jobs'[i]) = Shown(jobs[i])
    BY <2>2, RemovalIsHidden
  <2>4. UNCHANGED Work!workVars
    BY <2>1, <2>3, NothingShown
  <2> QED
    BY <2>4
<1> QED
  BY <1>1, <1>2

(* A crash forgets the leases of one process, and nothing else. *)
LEMMA WorkProcess ==
  ASSUME StoreInv, StoreInv', NEW q \in Queues, ProcessStep(q)
  PROVE  [Work!Next]_(Work!workVars)
<1>1. UNCHANGED <<now, fresh, jobs, published>>
  BY DEF ProcessStep, CloseBegin, CloseReturn, Reopen, Crash, storeVars, historyVars
<1>2. \A i \in IDs : Shown(jobs'[i]) = Shown(jobs[i])
  BY <1>1
<1>3. CASE UNCHANGED handle
  <2>1. UNCHANGED Work!workVars
    BY <1>1, <1>2, <1>3, NothingShown
  <2> QED
    BY <2>1
<1>4. CASE Crash(q)
  <2> DEFINE lost == {c \in Clients : QueueOf[c] = q}
             lease == [c \in Clients |-> [id |-> handle[c].id, token |-> handle[c].token]]
  <2>1. \A c \in Clients : handle'[c] = IF c \in lost THEN NoHandle ELSE handle[c]
    BY <1>4 DEF Crash
  <2>2. \A c \in Clients : [id |-> handle'[c].id, token |-> handle'[c].token]
                             = IF c \in lost THEN Work!NoLease ELSE lease[c]
    BY <2>1 DEF NoHandle, Work!NoLease
  <2>3. [c \in Clients |-> [id |-> handle'[c].id, token |-> handle'[c].token]]
          = [c \in Clients |-> IF c \in lost THEN Work!NoLease ELSE lease[c]]
    BY <2>2
  <2>4. lost \in SUBSET Clients
    OBVIOUS
  <2>5. Work!Forget
    BY <1>1, <1>2, <2>3, <2>4, TableStays DEF Work!Forget
  <2> QED
    BY <2>5 DEF Work!Next
<1> QED
  BY <1>3, <1>4 DEF ProcessStep, CloseBegin, CloseReturn, Reopen

(* The queue with its two stores, its maintenance, its errors and crashes  *)
(* implements the table of jobs in which every change is one step, for     *)
(* every number of jobs, clients and processes.                            *)
THEOREM JobsActAsOneTable == Spec => ActsAsOneTable
<1>1. Init => Work!Init
  <2> SUFFICES ASSUME Init PROVE Work!Init
    OBVIOUS
  <2>1. \A id \in IDs : Seen(jobs[id], blobs) = Work!NoJob
    BY DEF Init, Seen, Absent, Work!NoJob
  <2>2. \A c \in Clients : [id |-> handle[c].id, token |-> handle[c].token] = Work!NoLease
    BY DEF Init, NoHandle, Work!NoLease
  <2> QED
    BY <2>1, <2>2 DEF Init, Work!Init
<1>2. StoreInv /\ StoreInv' /\ AttemptsBounded /\ [Next]_vars => [Work!Next]_(Work!workVars)
  <2> SUFFICES ASSUME StoreInv, StoreInv', AttemptsBounded, [Next]_vars
               PROVE  [Work!Next]_(Work!workVars)
    OBVIOUS
  <2>1. CASE Tick
    <3>1. now' = now + 1 /\ UNCHANGED <<fresh, published, jobs, handle>>
      BY <2>1 DEF Tick, storeVars, historyVars
    <3>2. \A i \in IDs : Shown(jobs'[i]) = Shown(jobs[i])
      BY <3>1
    <3>3. Work!Tick
      BY <3>1, <3>2, TableStays, LeaseStays DEF Work!Tick
    <3> QED
      BY <3>3 DEF Work!Next
  <2>2. CASE UNCHANGED vars
    <3>1. UNCHANGED <<now, fresh, published, jobs, handle>>
      BY <2>2 DEF vars
    <3>2. \A i \in IDs : Shown(jobs'[i]) = Shown(jobs[i])
      BY <3>1
    <3>3. UNCHANGED Work!workVars
      BY <3>1, <3>2, NothingShown
    <3> QED
      BY <3>3
  <2> QED
    BY <2>1, <2>2, WorkClient, WorkMaintenance, WorkProcess DEF Next
<1>3. IInv => StoreInv
  BY DEF IInv
<1> QED
  BY <1>1, <1>2, <1>3, Invariance, DeliveriesAreBounded, PTL
  DEF Spec, ActsAsOneTable, Work!Spec
==============================================================================
