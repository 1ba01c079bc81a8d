-------------------------------- MODULE LRU --------------------------------
(***************************************************************************)
(* The cache metadata store of lru/lru.go: one record per key in a         *)
(* transactional KV, callers that set, touch, read and delete records, and *)
(* an evictor goroutine whose workers delete what a scan of the store      *)
(* chose.  Every s.transaction(...) and every kv call is one step.         *)
(*                                                                         *)
(* time.Now().UnixNano() is the wall clock, which may be set back: a       *)
(* reading is any of Times.  UnixNano() of the zero time.Time, which a     *)
(* caller passes as LastAccessAt if it has none, is ZeroTime and not 0.    *)
(***************************************************************************)
EXTENDS Integers, FiniteSets, FiniteSetsExt

CONSTANTS
  Keys,           \* user keys, numbers so that the tie-break is an order
  Clients,        \* goroutines that call the store
  Workers,        \* the evictor's workers
  Sizes,          \* values of SizeBytes
  Times,          \* readings of the wall clock
  Given,          \* UnixNano() of the LastAccessAt that callers pass to Set
  CapacityBytes,  \* soft caps; 0 disables
  CapacityItems,
  Faults,         \* the KV returns errors
  MaxRevision     \* bound: no entry is written past this revision

ASSUME KeysAssumption == Keys \subseteq Nat /\ IsFiniteSet(Keys)
ASSUME RecordsAssumption == Sizes \subseteq Nat

(* UnixNano() of the zero time.Time: a moment before every reading. *)
ZeroTime == -1

ASSUME TimesAssumption == Times \subseteq Nat \ {0} /\ Given \subseteq Nat \cup {ZeroTime}
ASSUME OptionsAssumption ==
  CapacityBytes \in Nat /\ CapacityItems \in Nat /\ Faults \in BOOLEAN
ASSUME RevisionsAssumption == MaxRevision \in Nat \ {0}

VARIABLES
  entries,   \* KV: the record of each key
  call,      \* what each client is in the middle of
  evictor,   \* the evictor goroutine
  worker,    \* the victim each worker has in hand
  store,     \* the Store object: closed, its context, its Close
  lastSet,   \* history: the size of the Set an entry stems from, -1 if none
  since      \* history: what happened to each key since the evictor's scan

vars == <<entries, call, evictor, worker, store, lastSet, since>>

-----------------------------------------------------------------------------
(* Records *)

Accesses == Times \cup Given

Absent  == [rev |-> 0, size |-> 0, access |-> 0]
Records == [rev: 1..MaxRevision, size: Sizes, access: Accesses] \cup {Absent}

Exists(m) == m.rev # 0

(* open: passed checkOpen.  get: Get has read a record, at a time, and is  *)
(* about to touch it.                                                      *)
Calls == [pc: {"idle", "open"}, key: {0}, read: {Absent}]
           \cup [pc: {"get"}, key: Keys, read: Records]
Idle  == [pc |-> "idle", key |-> 0, read |-> Absent]

Victims == [key: Keys, rev: 1..MaxRevision, access: Accesses]

(* busy: in its transaction for a victim.  failed: with an error to report. *)
WorkerStates == [pc: {"busy"}, victim: Victims] \cup [pc: {"free", "failed"}]
Free == [pc |-> "free"]

(* left: victims that are not handed out yet.  errs, room: what is in      *)
(* errCh, and its capacity.                                                *)
Evictors == [pc: {"off", "wait", "round", "exited"}, left: SUBSET Victims,
             errs: Nat, room: Nat]

(* Get's touch of the record it read before its transaction. *)
RetouchedFromRead(m, r, at) == [r EXCEPT !.rev = @ + 1, !.access = at]

(* The record that Touch's transaction writes over m; and Get's, which     *)
(* read r before.                                                          *)
Touched(m, at) == [m EXCEPT !.rev = @ + 1, !.access = at]
Retouched(m, r, at) == Touched(m, at)

(* What Set makes of a LastAccessAt: the test is for the number 0. *)
Defaulted(given, at) == IF given = 0 THEN at ELSE given

(* A Set that leaves the revision of a new key at 0. *)
WrittenUnnumbered(m, size, given, at) ==
  [rev |-> m.rev, size |-> size, access |-> Defaulted(given, at)]

(* The record that Set's transaction writes over m. *)
Written(m, size, given, at) ==
  [rev |-> m.rev + 1, size |-> size, access |-> Defaulted(given, at)]

-----------------------------------------------------------------------------
(* The calls: checkOpen, then a transaction.  A call that finds the store  *)
(* closed is a stuttering step; the arguments of the others are chosen     *)
(* when they matter.                                                       *)

CheckOpen(c) ==
  /\ call[c].pc = "idle"
  /\ ~store.closed
  /\ call' = [call EXCEPT ![c].pc = "open"]
  /\ UNCHANGED <<entries, evictor, worker, store, lastSet, since>>

(* What the evictor's scan does not know about k any more. *)
Noted(k, what) ==
  since' = IF evictor.pc = "round"
           THEN [since EXCEPT ![k] = IF @ = "recreated" THEN @ ELSE what] ELSE since

(* The call of c writes m under k and returns. *)
Puts(c, k, m) ==
  /\ m.rev <= MaxRevision
  /\ entries' = [entries EXCEPT ![k] = m]
  /\ Noted(k, IF Exists(entries[k]) THEN "written" ELSE "recreated")
  /\ call' = [call EXCEPT ![c] = Idle]
  /\ UNCHANGED <<evictor, worker, store>>

Set(c, k, size, given, at) ==
  /\ call[c].pc = "open"
  /\ Puts(c, k, Written(entries[k], size, given, at))
  /\ lastSet' = [lastSet EXCEPT ![k] = size]

Touch(c) ==
  /\ call[c].pc = "open"
  /\ \E k \in Keys, t \in Times :
       Exists(entries[k]) /\ Puts(c, k, Touched(entries[k], t))
  /\ UNCHANGED lastSet

Delete(c) ==
  /\ call[c].pc = "open"
  /\ \E k \in Keys :
       /\ Exists(entries[k])
       /\ entries' = [entries EXCEPT ![k] = Absent]
       /\ lastSet' = [lastSet EXCEPT ![k] = -1]
  /\ call' = [call EXCEPT ![c] = Idle]
  /\ UNCHANGED <<evictor, worker, store, since>>

(* Get with TouchOnGet: the read, and later a transaction of its own. *)
GetRead(c) ==
  /\ call[c].pc = "open"
  /\ \E k \in Keys :
       /\ Exists(entries[k])
       /\ call' = [call EXCEPT ![c] = [pc |-> "get", key |-> k, read |-> entries[k]]]
  /\ UNCHANGED <<entries, evictor, worker, store, lastSet, since>>

GetTouch(c) ==
  /\ call[c].pc = "get"
  /\ Exists(entries[call[c].key])
  /\ \E t \in Times :
       Puts(c, call[c].key, Retouched(entries[call[c].key], call[c].read, t))
  /\ UNCHANGED lastSet

(* The call changes nothing: a Get without TouchOnGet, ErrNotFound (which  *)
(* Get's touch ignores), an error of the KV, or only conflicts.            *)
CallEnds(c) ==
  /\ call[c].pc # "idle"
  /\ call' = [call EXCEPT ![c] = Idle]
  /\ UNCHANGED <<entries, evictor, worker, store, lastSet, since>>

-----------------------------------------------------------------------------
(* victims() *)

Present == {k \in Keys : Exists(entries[k])}

(* The order of the sort: LastAccessAt, then the key. *)
Earlier(v, u) == v.access < u.access \/ (v.access = u.access /\ v.key < u.key)

Entry(k) == [key |-> k, rev |-> entries[k].rev, access |-> entries[k].access]

SizeOf(S) == MapThenSumSet(LAMBDA k : entries[k].size, S)

(* Caps that count as exceeded when they are reached. *)
OverAtCap(S) ==
  \/ CapacityBytes > 0 /\ SizeOf(S) >= CapacityBytes
  \/ CapacityItems > 0 /\ Cardinality(S) >= CapacityItems

Over(S) ==
  \/ CapacityBytes > 0 /\ SizeOf(S) > CapacityBytes
  \/ CapacityItems > 0 /\ Cardinality(S) > CapacityItems

(* From here on: k and what comes after it in the order. *)
NotBefore(k) == {j \in Present : ~Earlier(Entry(j), Entry(k))}

(* The loop goes on to k if it was over its caps at k and all before. *)
Chosen ==
  {k \in Present : \A j \in Present : k \in NotBefore(j) => Over(NotBefore(j))}

-----------------------------------------------------------------------------
(* The evictor *)

(* errCh with room for one error. *)
ErrRoomOne(vs) == 1

ErrRoom(vs) == Cardinality(vs)

(* A tick: the scan and the choice; without victims nothing happens. *)
EvictBegin ==
  LET vs == {Entry(k) : k \in Chosen} IN
  /\ evictor.pc = "wait"
  /\ ~store.cancelled
  /\ vs # {}
  /\ evictor' = [pc |-> "round", left |-> vs, errs |-> 0, room |-> ErrRoom(vs)]
  /\ UNCHANGED <<entries, call, worker, store, lastSet, since>>

(* jobs <- victim: some worker takes the first victim that is left. *)
SendVictim(w) ==
  /\ evictor.pc = "round"
  /\ worker[w] = Free
  /\ \E v \in evictor.left :
       /\ \A u \in evictor.left \ {v} : Earlier(v, u)
       /\ worker' = [worker EXCEPT ![w] = [pc |-> "busy", victim |-> v]]
       /\ evictor' = [evictor EXCEPT !.left = @ \ {v}]
  /\ UNCHANGED <<entries, call, store, lastSet, since>>

(* case <-ctx.Done(): the rest is not handed out. *)
StopSending ==
  /\ evictor.pc = "round"
  /\ store.cancelled
  /\ evictor.left # {}
  /\ evictor' = [evictor EXCEPT !.left = {}]
  /\ UNCHANGED <<entries, call, worker, store, lastSet, since>>

(* Re-checks that look at one of the two numbers only. *)
UnchangedByAccess(m, v) == m.access = v.access
UnchangedByTime(m, v)   == m.rev = v.rev /\ m.access = v.access /\ v.access > 0

(* The re-check of a worker's transaction. *)
Unchanged(m, v) == m.rev = v.rev /\ m.access = v.access

Evicted(v) == Exists(entries[v.key]) /\ Unchanged(entries[v.key], v)

EvictEntry(w) ==
  /\ worker[w].pc = "busy"
  /\ LET v == worker[w].victim IN
     IF Evicted(v)
     THEN /\ entries' = [entries EXCEPT ![v.key] = Absent]
          /\ lastSet' = [lastSet EXCEPT ![v.key] = -1]
     ELSE UNCHANGED <<entries, lastSet>>
  /\ worker' = [worker EXCEPT ![w] = Free]
  /\ UNCHANGED <<call, evictor, store, since>>

(* Its transaction returned an error. *)
EvictFails(w) ==
  /\ Faults \/ store.cancelled
  /\ worker[w].pc = "busy"
  /\ worker' = [worker EXCEPT ![w] = [pc |-> "failed"]]
  /\ UNCHANGED <<entries, call, evictor, store, lastSet, since>>

(* errCh <- err, which blocks while errCh is full: it is read only after   *)
(* wg.Wait().                                                              *)
ReportError(w) ==
  /\ worker[w].pc = "failed"
  /\ evictor.errs < evictor.room
  /\ evictor' = [evictor EXCEPT !.errs = @ + 1]
  /\ worker' = [worker EXCEPT ![w] = Free]
  /\ UNCHANGED <<entries, call, store, lastSet, since>>

(* A round that ends without wg.Wait(). *)
RoundOverUnwaited == evictor.left = {}

RoundOver == evictor.left = {} /\ \A w \in Workers : worker[w] = Free

RoundDone ==
  /\ evictor.pc = "round"
  /\ RoundOver
  /\ evictor' = [evictor EXCEPT !.pc = "wait", !.errs = 0, !.room = 0]
  /\ since' = [k \in Keys |-> "same"]
  /\ UNCHANGED <<entries, call, worker, store, lastSet>>

EvictorExit ==
  /\ evictor.pc = "wait"
  /\ store.cancelled
  /\ evictor' = [evictor EXCEPT !.pc = "exited"]
  /\ UNCHANGED <<entries, call, worker, store, lastSet, since>>

-----------------------------------------------------------------------------
(* The Store object *)

StartEvictor ==
  /\ ~store.closed
  /\ evictor.pc = "off"
  /\ evictor' = [evictor EXCEPT !.pc = "wait"]
  /\ UNCHANGED <<entries, call, worker, store, lastSet, since>>

(* The application cancels the context it gave StartEvictor. *)
CancelEvictor ==
  /\ evictor.pc \notin {"off", "exited"}
  /\ ~store.cancelled
  /\ store' = [store EXCEPT !.cancelled = TRUE]
  /\ UNCHANGED <<entries, call, evictor, worker, lastSet, since>>

(* A Close that waits for the evictor but does not cancel its context. *)
CloseBeginUncancelled ==
  /\ ~store.closed
  /\ store' = [store EXCEPT !.closed = TRUE, !.close = "waiting"]
  /\ UNCHANGED <<entries, call, evictor, worker, lastSet, since>>

CloseBegin ==
  /\ ~store.closed
  /\ store' = [store EXCEPT !.closed = TRUE, !.close = "waiting",
                            !.cancelled = @ \/ evictor.pc # "off"]
  /\ UNCHANGED <<entries, call, evictor, worker, lastSet, since>>

CloseReturn ==
  /\ store.close = "waiting"
  /\ evictor.pc \in {"off", "exited"}
  /\ store' = [store EXCEPT !.close = "returned"]
  /\ UNCHANGED <<entries, call, evictor, worker, lastSet, since>>

-----------------------------------------------------------------------------
Init ==
  /\ entries = [k \in Keys |-> Absent]
  /\ call = [c \in Clients |-> Idle]
  /\ evictor = [pc |-> "off", left |-> {}, errs |-> 0, room |-> 0]
  /\ worker = [w \in Workers |-> Free]
  /\ store = [closed |-> FALSE, cancelled |-> FALSE, close |-> "none"]
  /\ lastSet = [k \in Keys |-> -1]
  /\ since = [k \in Keys |-> "same"]

ClientStep(c) ==
  \/ CheckOpen(c) \/ Touch(c) \/ Delete(c) \/ GetRead(c) \/ GetTouch(c) \/ CallEnds(c)
  \/ \E k \in Keys, size \in Sizes, given \in Given, at \in Times : Set(c, k, size, given, at)

EvictorStep ==
  \/ EvictBegin \/ StopSending \/ RoundDone \/ EvictorExit
  \/ \E w \in Workers : SendVictim(w) \/ EvictEntry(w) \/ EvictFails(w) \/ ReportError(w)

StoreStep == StartEvictor \/ CancelEvictor \/ CloseBegin \/ CloseReturn

Next == (\E c \in Clients : ClientStep(c)) \/ EvictorStep \/ StoreStep

Spec == Init /\ [][Next]_vars

(* The goroutines are scheduled, the ticker fires, and the KV does not     *)
(* fail for ever.                                                          *)
Fairness ==
  /\ WF_vars(EvictBegin) /\ WF_vars(StopSending) /\ WF_vars(RoundDone)
  /\ WF_vars(EvictorExit) /\ WF_vars(CloseReturn)
  /\ WF_vars(\E w \in Workers : SendVictim(w))
  /\ \A w \in Workers : /\ SF_vars(EvictEntry(w)) /\ WF_vars(ReportError(w))
                        /\ WF_vars(EvictEntry(w) \/ EvictFails(w))

FairSpec == Spec /\ Fairness

-----------------------------------------------------------------------------
(* Properties *)

(* The values of the store, the calls and the goroutines. *)
TypeOK ==
  /\ entries \in [Keys -> Records]
  /\ call \in [Clients -> Calls]
  /\ evictor \in Evictors
  /\ worker \in [Workers -> WorkerStates]
  /\ store \in [closed: BOOLEAN, cancelled: BOOLEAN, close: {"none", "waiting", "returned"}]
  /\ lastSet \in [Keys -> Sizes \cup {-1}]
  /\ since \in [Keys -> {"same", "written", "recreated"}]

(* An entry is there exactly if its last Set was not followed by a delete  *)
(* or an eviction, and it has that Set's size: a Touch, or a Get that read *)
(* before the key was deleted or set again, neither brings an entry back   *)
(* nor undoes a Set.                                                       *)
SetsSurvive ==
  \A k \in Keys : lastSet[k] = IF Exists(entries[k]) THEN entries[k].size ELSE -1

(* The soft caps as Options describes them; <= 0 disables. *)
WithinCaps(S) ==
  /\ CapacityBytes > 0 => SizeOf(S) <= CapacityBytes
  /\ CapacityItems > 0 => Cardinality(S) <= CapacityItems

(* Whatever is stored, the entries chosen are the least recently used      *)
(* ones, their removal is enough for both caps, and that of all but the    *)
(* most recent of them is not.                                             *)
VictimsExact ==
  LET kept == Present \ Chosen IN
  /\ WithinCaps(kept)
  /\ \A v \in Chosen, k \in kept : Earlier(Entry(v), Entry(k))
  /\ \A v \in Chosen :
       (\A u \in Chosen \ {v} : Earlier(Entry(u), Entry(v))) => ~WithinCaps(kept \cup {v})

(* A worker removes no entry that was set or touched after the scan chose  *)
(* it.  (A key that was deleted and set again may look as before: its      *)
(* revisions start from 1 again.)                                          *)
UsedEntriesStay ==
  [][\A w \in Workers :
       EvictEntry(w) /\ Evicted(worker[w].victim)
         => since[worker[w].victim.key] # "written"]_vars

(* Once Close has returned, the evictor and its workers are gone, also     *)
(* when a round was under way: nothing of the store's own touches the KV.  *)
QuietAfterClose ==
  store.close = "returned" =>
    evictor.pc \in {"off", "exited"} /\ \A w \in Workers : worker[w] = Free

(* A worker that has an error to report never waits: errCh, which is read  *)
(* only when all workers are gone, has room for it.                        *)
ErrorsNeverBlock ==
  \A w \in Workers : worker[w].pc = "failed" => evictor.errs < evictor.room

(* Close returns, although the evictor may be in a round whose workers     *)
(* fail and report errors that nobody reads yet.                           *)
CloseTerminates == (store.close = "waiting") ~> (store.close = "returned")

(* While the evictor runs and from some time on nobody calls the store,    *)
(* the store gets within its caps and stays there.                         *)
CapacityReached ==
  <>[](/\ evictor.pc \in {"wait", "round"} /\ ~store.cancelled
       /\ \A c \in Clients : call[c].pc = "idle")
    => <>[]WithinCaps(Present)

(* "Zero is replaced with the current time on Set": a Set without a        *)
(* LastAccessAt makes its entry more recent than every entry that was      *)
(* accessed before the Set's reading of the clock.                         *)
SetIsAnAccess ==
  [][\A c \in Clients, k, j \in Keys, size \in Sizes, at \in Times :
       /\ Set(c, k, size, ZeroTime, at)
       /\ j # k /\ Exists(entries[j]) /\ entries[j].access < at
       => ~Earlier(Entry(k)', Entry(j)')]_vars
=============================================================================
