----------------------------- MODULE LRUProofs ------------------------------
(***************************************************************************)
(* Proofs about LRU, for any keys, callers, workers, sizes, caps and clock *)
(* readings: no touch undoes a Set or brings a deleted entry back, no      *)
(* worker evicts an entry that was used after the scan that chose it, the  *)
(* victims are the least recently used entries and as few as get within    *)
(* the caps, no worker waits to report an error, and nothing of the        *)
(* evictor is left once Close has returned.                                *)
(***************************************************************************)
EXTENDS LRU, Induction

-----------------------------------------------------------------------------
(* Types *)

(* The records of entries that exist. *)
Live == [rev: 1..MaxRevision, size: Sizes, access: Accesses]

LEMMA RecordTypes ==
  ASSUME NEW m \in Records
  PROVE  /\ m.rev \in Nat /\ (Exists(m) => m \in Live)
         /\ m = Absent \/ Exists(m)
BY RevisionsAssumption DEF Records, Absent, Exists, Live

LEMMA AbsentFields == Absent \in Records /\ ~Exists(Absent) /\ Absent.rev = 0
BY DEF Absent, Records, Exists

(* What Set and a touch write, if it is within the bound. *)
LEMMA WrittenRecord ==
  ASSUME NEW m \in Records, NEW size \in Sizes, NEW given \in Given, NEW at \in Times,
         Written(m, size, given, at).rev <= MaxRevision
  PROVE  LET n == Written(m, size, given, at)
         IN  n \in Records /\ n.rev = m.rev + 1 /\ n.size = size /\ Exists(n)
<1>1. m.rev \in Nat
  BY RecordTypes
<1>2. Written(m, size, given, at).rev = m.rev + 1
  BY DEF Written
<1>3. Defaulted(given, at) \in Accesses
  BY DEF Defaulted, Accesses
<1>4. m.rev + 1 \in 1..MaxRevision
  BY <1>1, <1>2, RevisionsAssumption
<1>5. [rev |-> m.rev + 1, size |-> size, access |-> Defaulted(given, at)] \in Records
  BY <1>3, <1>4 DEF Records
<1> QED
  BY <1>1, <1>4, <1>5 DEF Written, Exists

LEMMA TouchedRecord ==
  ASSUME NEW m \in Records, Exists(m), NEW at \in Times, Touched(m, at).rev <= MaxRevision
  PROVE  LET n == Touched(m, at)
         IN  n \in Records /\ n.rev = m.rev + 1 /\ n.size = m.size /\ Exists(n)
<1>1. m \in Live /\ m.rev \in Nat
  BY RecordTypes
<1> DEFINE r == m.rev + 1
<1>2. /\ Touched(m, at).rev = r /\ Touched(m, at).size = m.size
      /\ Touched(m, at) = [rev |-> r, size |-> m.size, access |-> at]
  <2>1. Touched(m, at) = [m EXCEPT !.rev = r, !.access = at]
    BY DEF Touched
  <2> HIDE DEF r
  <2> QED
    BY <1>1, <2>1 DEF Live
<1>3. m.rev + 1 \in 1..MaxRevision
  BY <1>1, <1>2, RevisionsAssumption
<1>4. m.size \in Sizes /\ at \in Accesses
  BY <1>1 DEF Live, Accesses
<1>5. [rev |-> m.rev + 1, size |-> m.size, access |-> at] \in Records
  BY <1>3, <1>4 DEF Records
<1> QED
  BY <1>1, <1>2, <1>3, <1>5 DEF Exists

LEMMA IdleType == Idle \in Calls
BY AbsentFields DEF Idle, Calls

(* The victims of a scan are finitely many. *)
LEMMA VictimsFinite ==
  ASSUME TypeOK
  PROVE  /\ {Entry(k) : k \in Chosen} \in SUBSET Victims
         /\ ErrRoom({Entry(k) : k \in Chosen}) \in Nat
<1>1. Chosen \subseteq Keys /\ \A k \in Chosen : Exists(entries[k])
  BY DEF Chosen, Present
<1>2. ASSUME NEW k \in Chosen PROVE Entry(k) \in Victims
  <2>1. entries[k] \in Live
    BY <1>1, RecordTypes DEF TypeOK
  <2> QED
    BY <1>1, <2>1 DEF Entry, Victims, Live
<1>3. IsFiniteSet(Chosen)
  BY <1>1, FS_Subset, KeysAssumption
<1> DEFINE f == [k \in Chosen |-> Entry(k)]
<1>4. f \in Surjection(Chosen, {Entry(k) : k \in Chosen})
  BY DEF Surjection
<1> HIDE DEF f
<1>5. Cardinality({Entry(k) : k \in Chosen}) \in Nat
  BY <1>3, <1>4, FS_Surjection, FS_CardinalityType
<1> QED
  BY <1>2, <1>5 DEF ErrRoom

(* A busy worker has a victim. *)
LEMMA WorkerTypes ==
  ASSUME NEW x \in WorkerStates
  PROVE  x.pc = "busy" => x.victim \in Victims /\ x # Free
BY DEF WorkerStates, Free

LEMMA WorkersToBe ==
  /\ Free \in WorkerStates /\ [pc |-> "failed"] \in WorkerStates
  /\ \A v \in Victims : [pc |-> "busy", victim |-> v] \in WorkerStates
BY DEF WorkerStates, Free

-----------------------------------------------------------------------------
(* What a transaction of a caller does *)

(* The call of c replaces the record of k by its next revision n. *)
Writes(c, k, n) ==
  /\ n \in Records /\ n.rev = entries[k].rev + 1 /\ Exists(n)
  /\ Puts(c, k, n)

(* Set, Touch and the touch of a Get are writes of the next revision; the  *)
(* touches keep the size.                                                  *)
LEMMA SetWrites ==
  ASSUME TypeOK, NEW c \in Clients, NEW k \in Keys, NEW size \in Sizes,
         NEW given \in Given, NEW at \in Times, Set(c, k, size, given, at)
  PROVE  \E n : Writes(c, k, n) /\ n.size = size /\ lastSet' = [lastSet EXCEPT ![k] = size]
<1> DEFINE n == Written(entries[k], size, given, at)
<1>1. entries[k] \in Records
  BY DEF TypeOK
<1>2. n.rev <= MaxRevision /\ Puts(c, k, n)
  BY DEF Set, Puts
<1>3. n \in Records /\ n.rev = entries[k].rev + 1 /\ n.size = size /\ Exists(n)
  BY <1>1, <1>2, WrittenRecord
<1> HIDE DEF n
<1> QED
  BY <1>2, <1>3 DEF Set, Writes

LEMMA TouchWrites ==
  ASSUME TypeOK, NEW c \in Clients, NEW k \in Keys, NEW at \in Times,
         Exists(entries[k]), Puts(c, k, Touched(entries[k], at))
  PROVE  \E n : Writes(c, k, n) /\ n.size = entries[k].size
<1> DEFINE n == Touched(entries[k], at)
<1>1. entries[k] \in Records
  BY DEF TypeOK
<1>2. n.rev <= MaxRevision /\ Puts(c, k, n)
  BY DEF Puts
<1>3. n \in Records /\ n.rev = entries[k].rev + 1 /\ n.size = entries[k].size /\ Exists(n)
  BY <1>1, <1>2, TouchedRecord
<1> HIDE DEF n
<1> QED
  BY <1>2, <1>3 DEF Writes

(* Either touch, of an entry that is there. *)
Touches(c) ==
  \E k \in Keys, n \in Records :
    /\ Writes(c, k, n) /\ Exists(entries[k]) /\ n.size = entries[k].size
    /\ UNCHANGED lastSet

LEMMA TouchTouches ==
  ASSUME TypeOK, NEW c \in Clients, Touch(c)
  PROVE  Touches(c)
<1>1. PICK k \in Keys, at \in Times :
        Exists(entries[k]) /\ Puts(c, k, Touched(entries[k], at))
  BY DEF Touch
<1>2. PICK n : Writes(c, k, n) /\ n.size = entries[k].size
  BY <1>1, TouchWrites
<1>3. n \in Records /\ UNCHANGED lastSet
  BY <1>2 DEF Writes, Touch
<1> QED
  BY <1>1, <1>2, <1>3 DEF Touches

LEMMA GetTouchTouches ==
  ASSUME TypeOK, NEW c \in Clients, GetTouch(c)
  PROVE  Touches(c)
<1> DEFINE k == call[c].key
<1>1. PICK at \in Times : Exists(entries[k]) /\ Puts(c, k, Touched(entries[k], at))
  BY DEF GetTouch, Retouched
<1>2. k \in Keys
  BY DEF TypeOK, Calls, GetTouch
<1>3. PICK n : Writes(c, k, n) /\ n.size = entries[k].size
  BY <1>1, <1>2, TouchWrites
<1>4. n \in Records /\ UNCHANGED lastSet
  BY <1>3 DEF Writes, GetTouch
<1> QED
  BY <1>1, <1>2, <1>3, <1>4 DEF Touches

-----------------------------------------------------------------------------
(* The type invariant *)

LEMMA InitTypes == Init => TypeOK
<1> SUFFICES ASSUME Init PROVE TypeOK
  OBVIOUS
<1>1. entries \in [Keys -> Records] /\ call \in [Clients -> Calls]
  BY AbsentFields, IdleType DEF Init
<1>2. evictor \in Evictors /\ worker \in [Workers -> WorkerStates]
  BY WorkersToBe DEF Init, Evictors
<1> QED
  BY <1>1, <1>2 DEF Init, TypeOK

LEMMA WriteTypes ==
  ASSUME TypeOK, NEW c \in Clients, NEW k \in Keys, NEW n, Writes(c, k, n)
  PROVE  /\ entries' \in [Keys -> Records] /\ call' \in [Clients -> Calls]
         /\ since' \in [Keys -> {"same", "written", "recreated"}]
         /\ UNCHANGED <<evictor, worker, store>>
<1>1. entries' \in [Keys -> Records]
  BY DEF TypeOK, Writes, Puts
<1>2. call' \in [Clients -> Calls] /\ UNCHANGED <<evictor, worker, store>>
  BY IdleType DEF TypeOK, Writes, Puts
<1> DEFINE what == IF Exists(entries[k]) THEN "written" ELSE "recreated"
<1>3. Noted(k, what) /\ what \in {"same", "written", "recreated"}
  BY DEF Writes, Puts
<1> HIDE DEF what
<1>4. since' \in [Keys -> {"same", "written", "recreated"}]
  BY <1>3 DEF TypeOK, Noted
<1> QED
  BY <1>1, <1>2, <1>4

LEMMA ClientTypes ==
  ASSUME TypeOK, NEW c \in Clients, ClientStep(c)
  PROVE  TypeOK'
<1>1. CASE CheckOpen(c)
  <2>1. call[c] \in Calls /\ call[c].pc = "idle"
    BY <1>1 DEF TypeOK, CheckOpen
  <2>2. [call[c] EXCEPT !.pc = "open"] \in Calls
    BY <2>1 DEF Calls
  <2>3. call' \in [Clients -> Calls]
    BY <1>1, <2>2 DEF TypeOK, CheckOpen
  <2> QED
    BY <1>1, <2>3 DEF TypeOK, CheckOpen
<1>2. CASE Touch(c) \/ GetTouch(c)
  <2>1. PICK k \in Keys, n \in Records : Writes(c, k, n) /\ UNCHANGED lastSet
    BY <1>2, TouchTouches, GetTouchTouches DEF Touches
  <2> QED
    BY <2>1, WriteTypes DEF TypeOK
<1>3. CASE Delete(c)
  BY <1>3, AbsentFields, IdleType DEF TypeOK, Delete
<1>4. CASE GetRead(c)
  <2>1. PICK k \in Keys :
          call' = [call EXCEPT ![c] = [pc |-> "get", key |-> k, read |-> entries[k]]]
    BY <1>4 DEF GetRead
  <2>2. [pc |-> "get", key |-> k, read |-> entries[k]] \in Calls
    BY <2>1 DEF TypeOK, Calls
  <2> QED
    BY <1>4, <2>1, <2>2 DEF TypeOK, GetRead
<1>5. CASE CallEnds(c)
  BY <1>5, IdleType DEF TypeOK, CallEnds
<1>6. ASSUME NEW k \in Keys, NEW size \in Sizes, NEW given \in Given, NEW at \in Times,
             Set(c, k, size, given, at)
      PROVE  TypeOK'
  <2>1. PICK n : Writes(c, k, n) /\ lastSet' = [lastSet EXCEPT ![k] = size]
    BY <1>6, SetWrites
  <2> QED
    BY <2>1, WriteTypes DEF TypeOK
<1> QED
  BY <1>1, <1>2, <1>3, <1>4, <1>5, <1>6 DEF ClientStep

LEMMA EvictorTypes ==
  ASSUME TypeOK, EvictorStep
  PROVE  TypeOK'
<1>1. CASE EvictBegin
  <2> DEFINE vs == {Entry(k) : k \in Chosen}
  <2>1. vs \in SUBSET Victims /\ ErrRoom(vs) \in Nat
    BY VictimsFinite
  <2>2. evictor' = [pc |-> "round", left |-> vs, errs |-> 0, room |-> ErrRoom(vs)]
    BY <1>1 DEF EvictBegin
  <2> HIDE DEF vs
  <2>3. evictor' \in Evictors
    BY <2>1, <2>2 DEF Evictors
  <2> QED
    BY <1>1, <2>3 DEF TypeOK, EvictBegin
<1>2. CASE StopSending \/ RoundDone \/ EvictorExit
  <2>1. evictor' \in Evictors
    <3>1. CASE StopSending
      BY <3>1 DEF TypeOK, Evictors, StopSending
    <3>2. CASE RoundDone
      BY <3>2 DEF TypeOK, Evictors, RoundDone
    <3>3. CASE EvictorExit
      BY <3>3 DEF TypeOK, Evictors, EvictorExit
    <3> QED
      BY <1>2, <3>1, <3>2, <3>3
  <2>2. since' \in [Keys -> {"same", "written", "recreated"}]
    BY <1>2 DEF TypeOK, StopSending, RoundDone, EvictorExit
  <2> QED
    BY <1>2, <2>1, <2>2 DEF TypeOK, StopSending, RoundDone, EvictorExit
<1>3. ASSUME NEW w \in Workers, SendVictim(w) PROVE TypeOK'
  <2>1. PICK v \in evictor.left :
          /\ worker' = [worker EXCEPT ![w] = [pc |-> "busy", victim |-> v]]
          /\ evictor' = [evictor EXCEPT !.left = @ \ {v}]
    BY <1>3 DEF SendVictim
  <2>2. evictor' \in Evictors /\ v \in Victims
    BY <2>1 DEF TypeOK, Evictors
  <2>3. worker' \in [Workers -> WorkerStates]
    BY <2>1, <2>2, WorkersToBe DEF TypeOK
  <2> QED
    BY <1>3, <2>2, <2>3 DEF TypeOK, SendVictim
<1>4. ASSUME NEW w \in Workers, EvictEntry(w) PROVE TypeOK'
  <2> DEFINE v == worker[w].victim
  <2>1. worker' \in [Workers -> WorkerStates]
    BY <1>4, WorkersToBe DEF TypeOK, EvictEntry
  <2>2. \/ /\ entries' = [entries EXCEPT ![v.key] = Absent]
           /\ lastSet' = [lastSet EXCEPT ![v.key] = -1]
        \/ UNCHANGED <<entries, lastSet>>
    BY <1>4 DEF EvictEntry
  <2>3. entries' \in [Keys -> Records] /\ lastSet' \in [Keys -> Sizes \cup {-1}]
    BY <2>2, AbsentFields DEF TypeOK
  <2> QED
    BY <1>4, <2>1, <2>3 DEF TypeOK, EvictEntry
<1>5. ASSUME NEW w \in Workers, EvictFails(w) \/ ReportError(w) PROVE TypeOK'
  <2>1. worker' \in [Workers -> WorkerStates]
    BY <1>5, WorkersToBe DEF TypeOK, EvictFails, ReportError
  <2>2. evictor' \in Evictors
    BY <1>5 DEF TypeOK, Evictors, EvictFails, ReportError
  <2> QED
    BY <1>5, <2>1, <2>2 DEF TypeOK, EvictFails, ReportError
<1> QED
  BY <1>1, <1>2, <1>3, <1>4, <1>5 DEF EvictorStep

LEMMA StoreTypes ==
  ASSUME TypeOK, StoreStep
  PROVE  TypeOK'
<1>1. evictor' \in Evictors
  BY DEF TypeOK, Evictors, StoreStep, StartEvictor, CancelEvictor, CloseBegin, CloseReturn
<1>2. store' \in [closed: BOOLEAN, cancelled: BOOLEAN,
                  close: {"none", "waiting", "returned"}]
  BY Zenon DEF TypeOK, StoreStep, StartEvictor, CancelEvictor, CloseBegin, CloseReturn
<1> QED
  BY <1>1, <1>2 DEF TypeOK, StoreStep, StartEvictor, CancelEvictor, CloseBegin, CloseReturn

LEMMA TypeStep == TypeOK /\ [Next]_vars => TypeOK'
<1>1. ASSUME TypeOK, UNCHANGED vars PROVE TypeOK'
  BY <1>1 DEF TypeOK, vars
<1> QED
  BY <1>1, ClientTypes, EvictorTypes, StoreTypes DEF Next

(* Every value keeps its type: in particular a worker's victim is always   *)
(* an entry that existed, and errCh's room is a number of victims.         *)
THEOREM TypeCorrect == Spec => []TypeOK
BY InitTypes, TypeStep, PTL DEF Spec

-----------------------------------------------------------------------------
(* Sets and touches *)

(* The inductive form of SetsSurvive, key by key. *)
KeyInv(k) == lastSet[k] = IF Exists(entries[k]) THEN entries[k].size ELSE -1

LEMMA SetsStep ==
  ASSUME TypeOK, SetsSurvive, [Next]_vars
  PROVE  SetsSurvive'
<1>1. SUFFICES ASSUME NEW j \in Keys PROVE KeyInv(j)'
  BY DEF SetsSurvive, KeyInv
<1>2. KeyInv(j)
  BY DEF SetsSurvive, KeyInv
<1>3. ASSUME NEW c \in Clients, NEW k \in Keys, NEW n, Writes(c, k, n),
             \/ lastSet' = [lastSet EXCEPT ![k] = n.size]
             \/ UNCHANGED lastSet /\ Exists(entries[k]) /\ n.size = entries[k].size
      PROVE  KeyInv(j)'
  <2>1. entries' = [entries EXCEPT ![k] = n] /\ Exists(n)
    BY <1>3 DEF Writes, Puts
  <2>2. CASE j # k
    BY <1>2, <1>3, <2>1, <2>2 DEF KeyInv, TypeOK
  <2>3. CASE j = k
    BY <1>2, <1>3, <2>1, <2>3 DEF KeyInv, TypeOK
  <2> QED
    BY <2>2, <2>3
<1>4. ASSUME NEW k \in Keys, entries' = [entries EXCEPT ![k] = Absent],
             lastSet' = [lastSet EXCEPT ![k] = -1]
      PROVE  KeyInv(j)'
  BY <1>2, <1>4, AbsentFields DEF KeyInv, TypeOK
<1>5. ASSUME UNCHANGED <<entries, lastSet>> PROVE KeyInv(j)'
  BY <1>2, <1>5 DEF KeyInv
<1>6. ASSUME NEW c \in Clients, ClientStep(c) PROVE KeyInv(j)'
  <2>1. CASE Touch(c) \/ GetTouch(c)
    BY <1>3, <2>1, TouchTouches, GetTouchTouches DEF Touches
  <2>2. CASE Delete(c)
    BY <1>4, <2>2 DEF Delete
  <2>3. CASE CheckOpen(c) \/ GetRead(c) \/ CallEnds(c)
    BY <1>5, <2>3 DEF CheckOpen, GetRead, CallEnds
  <2>4. ASSUME NEW k \in Keys, NEW size \in Sizes, NEW given \in Given, NEW at \in Times,
               Set(c, k, size, given, at)
        PROVE  KeyInv(j)'
    <3>1. PICK n : Writes(c, k, n) /\ n.size = size /\ lastSet' = [lastSet EXCEPT ![k] = size]
      BY <2>4, SetWrites
    <3> QED
      BY <1>3, <3>1
  <2> QED
    BY <1>6, <2>1, <2>2, <2>3, <2>4 DEF ClientStep
<1>7. ASSUME NEW w \in Workers, EvictEntry(w) PROVE KeyInv(j)'
  <2>1. worker[w].victim.key \in Keys
    BY <1>7, WorkerTypes DEF TypeOK, EvictEntry, Victims
  <2> QED
    BY <1>4, <1>5, <1>7, <2>1 DEF EvictEntry
<1>8. CASE EvictorStep
  BY <1>5, <1>7, <1>8 DEF EvictorStep, EvictBegin, StopSending, RoundDone, EvictorExit,
       SendVictim, EvictFails, ReportError
<1>9. CASE StoreStep \/ UNCHANGED vars
  BY <1>5, <1>9 DEF StoreStep, StartEvictor, CancelEvictor, CloseBegin, CloseReturn, vars
<1> QED
  BY <1>6, <1>8, <1>9 DEF Next

(* No touch brings an entry back that was deleted or evicted, nor undoes a *)
(* Set, whatever was read before: an entry is always the one of the last   *)
(* Set of its key.                                                         *)
THEOREM NoSetIsUndone == Spec => []SetsSurvive
<1>1. Init => SetsSurvive
  BY AbsentFields DEF Init, SetsSurvive
<1>2. TypeOK /\ SetsSurvive /\ [Next]_vars => SetsSurvive'
  BY SetsStep
<1> QED
  BY <1>1, <1>2, TypeCorrect, PTL DEF Spec

-----------------------------------------------------------------------------
(* The evictor and Close *)

(* Workers exist only within a round, and Close returns only when the      *)
(* evictor is gone and no other can be started.                            *)
RoundInv == evictor.pc # "round" => evictor.left = {} /\ \A w \in Workers : worker[w] = Free
CloseInv ==
  /\ store.close # "none" => store.closed
  /\ store.close = "returned" => evictor.pc \in {"off", "exited"}

LifeInv == RoundInv /\ CloseInv

LEMMA LifeStep ==
  ASSUME TypeOK, LifeInv, [Next]_vars
  PROVE  LifeInv'
<1>1. ASSUME UNCHANGED <<evictor, worker, store>> PROVE LifeInv'
  BY <1>1 DEF LifeInv, RoundInv, CloseInv
<1>2. ASSUME NEW c \in Clients, ClientStep(c) PROVE LifeInv'
  BY <1>1, <1>2 DEF ClientStep, CheckOpen, Touch, Delete, GetRead, GetTouch, CallEnds,
       Set, Puts
<1>3. ASSUME evictor.pc = "round", evictor'.pc = "round", UNCHANGED store PROVE LifeInv'
  BY <1>3 DEF LifeInv, RoundInv, CloseInv
<1>4. CASE EvictBegin
  BY <1>4 DEF EvictBegin, LifeInv, RoundInv, CloseInv
<1>5. CASE StopSending
  BY <1>3, <1>5 DEF StopSending, TypeOK, Evictors
<1>6. CASE RoundDone
  BY <1>6 DEF RoundDone, RoundOver, TypeOK, Evictors, LifeInv, RoundInv, CloseInv
<1>7. CASE EvictorExit
  BY <1>7 DEF EvictorExit, TypeOK, Evictors, LifeInv, RoundInv, CloseInv
<1>8. ASSUME NEW w \in Workers, SendVictim(w) PROVE LifeInv'
  BY <1>3, <1>8 DEF SendVictim, TypeOK, Evictors
<1>9. ASSUME NEW w \in Workers, EvictEntry(w) \/ EvictFails(w) \/ ReportError(w)
      PROVE  LifeInv'
  <2>1. worker[w] # Free
    BY <1>9 DEF EvictEntry, EvictFails, ReportError, Free
  <2>2. evictor.pc = "round"
    BY <2>1 DEF LifeInv, RoundInv
  <2>3. evictor'.pc = "round" /\ UNCHANGED store
    BY <1>9, <2>2 DEF EvictEntry, EvictFails, ReportError, TypeOK, Evictors
  <2> QED
    BY <1>3, <2>2, <2>3
<1>10. CASE StartEvictor
  BY <1>10 DEF StartEvictor, TypeOK, Evictors, LifeInv, RoundInv, CloseInv
<1>11. CASE CancelEvictor \/ CloseBegin \/ CloseReturn
  <2>1. RoundInv'
    BY <1>11 DEF CancelEvictor, CloseBegin, CloseReturn, LifeInv, RoundInv
  <2>2. CloseInv'
    BY <1>11 DEF CancelEvictor, CloseBegin, CloseReturn, LifeInv, CloseInv, TypeOK
  <2> QED
    BY <2>1, <2>2 DEF LifeInv
<1>12. CASE UNCHANGED vars
  BY <1>1, <1>12 DEF vars
<1> QED
  BY <1>2, <1>4, <1>5, <1>6, <1>7, <1>8, <1>9, <1>10, <1>11, <1>12
     DEF Next, EvictorStep, StoreStep

LEMMA LifeInvariant == Spec => []LifeInv
<1>1. Init => LifeInv
  BY DEF Init, LifeInv, RoundInv, CloseInv
<1>2. TypeOK /\ LifeInv /\ [Next]_vars => LifeInv'
  BY LifeStep
<1> QED
  BY <1>1, <1>2, TypeCorrect, PTL DEF Spec

(* Once Close has returned, no worker is in a transaction and the evictor  *)
(* does not run, however many workers were in a round when it was called.  *)
THEOREM NothingRunsAfterClose == Spec => []QuietAfterClose
<1>1. LifeInv => QuietAfterClose
  BY DEF LifeInv, RoundInv, CloseInv, QuietAfterClose
<1> QED
  BY <1>1, LifeInvariant, PTL

-----------------------------------------------------------------------------
(* Victims of a round *)

(* As long as the key of a victim was not deleted and set again, the       *)
(* revision of its record tells whether it was written since the scan.     *)
Current(v) ==
  Exists(entries[v.key]) =>
    /\ since[v.key] = "same" => entries[v.key].rev = v.rev
    /\ since[v.key] = "written" => entries[v.key].rev > v.rev

VictimInv ==
  /\ evictor.pc # "round" => \A k \in Keys : since[k] = "same"
  /\ \A v \in evictor.left : Current(v)
  /\ \A w \in Workers : worker[w].pc = "busy" => Current(worker[w].victim)

(* A caller's write, within a round, of any key. *)
LEMMA WriteKeepsCurrent ==
  ASSUME TypeOK, NEW c \in Clients, NEW k \in Keys, NEW n, Writes(c, k, n),
         evictor.pc = "round", NEW v \in Victims, Current(v)
  PROVE  Current(v)'
<1> DEFINE j == v.key
<1>1. j \in Keys /\ v.rev \in Nat
  BY RevisionsAssumption DEF Victims
<1>2. entries' = [entries EXCEPT ![k] = n] /\ n.rev = entries[k].rev + 1
  BY DEF Writes, Puts
<1>3. since' = [since EXCEPT ![k] =
        IF @ = "recreated" THEN @
        ELSE IF Exists(entries[k]) THEN "written" ELSE "recreated"]
  BY DEF Writes, Puts, Noted
<1>4. CASE j # k
  <2>1. entries'[j] = entries[j] /\ since'[j] = since[j]
    BY <1>1, <1>2, <1>3, <1>4 DEF TypeOK
  <2> QED
    BY <2>1 DEF Current
<1>5. CASE j = k
  <2>1. entries'[j].rev = entries[j].rev + 1 /\ entries[j].rev \in Nat
    BY <1>1, <1>2, <1>5, RecordTypes DEF TypeOK
  <2>2. since'[j] = IF since[j] = "recreated" THEN "recreated"
                    ELSE IF Exists(entries[j]) THEN "written" ELSE "recreated"
    BY <1>1, <1>3, <1>5 DEF TypeOK
  <2>3. since[j] \in {"same", "written", "recreated"}
    BY <1>1 DEF TypeOK
  <2>4. CASE since[j] = "recreated" \/ ~Exists(entries[j])
    <3>1. since'[j] = "recreated"
      BY <2>2, <2>4
    <3> QED
      BY <3>1 DEF Current
  <2>5. CASE since[j] # "recreated" /\ Exists(entries[j])
    <3>1. since'[j] = "written"
      BY <2>2, <2>5
    <3>2. entries[j].rev >= v.rev
      BY <1>1, <2>1, <2>3, <2>5 DEF Current
    <3>3. entries'[j].rev > v.rev
      BY <1>1, <2>1, <3>2
    <3> QED
      BY <3>1, <3>3 DEF Current
  <2> QED
    BY <2>4, <2>5
<1> QED
  BY <1>4, <1>5

(* A removal, of any key. *)
LEMMA RemovalKeepsCurrent ==
  ASSUME TypeOK, NEW k \in Keys, entries' = [entries EXCEPT ![k] = Absent],
         UNCHANGED since, NEW v \in Victims, Current(v)
  PROVE  Current(v)'
<1>1. v.key \in Keys
  BY DEF Victims
<1>2. CASE v.key # k
  <2>1. entries'[v.key] = entries[v.key] /\ since'[v.key] = since[v.key]
    BY <1>1, <1>2 DEF TypeOK
  <2> QED
    BY <2>1 DEF Current
<1>3. CASE v.key = k
  <2>1. entries'[v.key] = Absent
    BY <1>1, <1>3 DEF TypeOK
  <2> QED
    BY <2>1, AbsentFields DEF Current
<1> QED
  BY <1>2, <1>3

(* The victims in flight stay current if each does and none is new. *)
LEMMA VictimsKept ==
  ASSUME TypeOK, VictimInv, UNCHANGED <<evictor, worker>>,
         evictor.pc # "round" => UNCHANGED since,
         \A v \in Victims : Current(v) => Current(v)'
  PROVE  VictimInv'
<1>1. \A v \in evictor.left : v \in Victims
  BY DEF TypeOK, Evictors
<1>2. \A w \in Workers : worker[w].pc = "busy" => worker[w].victim \in Victims
  BY WorkerTypes DEF TypeOK
<1>3. evictor'.pc # "round" => \A k \in Keys : since'[k] = "same"
  BY DEF VictimInv
<1>4. \A v \in evictor'.left : Current(v)'
  BY <1>1 DEF VictimInv
<1>5. ASSUME NEW w \in Workers, worker'[w].pc = "busy" PROVE Current(worker[w].victim)'
  BY <1>2, <1>5 DEF VictimInv
<1> QED
  BY <1>3, <1>4, <1>5 DEF VictimInv, Current

LEMMA WriteKeepsVictims ==
  ASSUME TypeOK, LifeInv, VictimInv, NEW c \in Clients, NEW k \in Keys, NEW n, Writes(c, k, n)
  PROVE  VictimInv'
<1>1. UNCHANGED <<evictor, worker>>
  BY DEF Writes, Puts
<1>2. CASE evictor.pc = "round"
  BY <1>1, <1>2, WriteKeepsCurrent, VictimsKept
<1>3. CASE evictor.pc # "round"
  <2>1. since' = since
    BY <1>3 DEF Writes, Puts, Noted
  <2>2. evictor.left = {} /\ \A w \in Workers : worker[w].pc # "busy"
    BY <1>3 DEF LifeInv, RoundInv, Free
  <2> QED
    BY <1>1, <2>1, <2>2 DEF VictimInv
<1> QED
  BY <1>2, <1>3

LEMMA ClientKeepsVictims ==
  ASSUME TypeOK, LifeInv, VictimInv, NEW c \in Clients, ClientStep(c)
  PROVE  VictimInv'
<1>1. CASE Touch(c) \/ GetTouch(c)
  BY <1>1, TouchTouches, GetTouchTouches, WriteKeepsVictims DEF Touches
<1>2. CASE Delete(c)
  <2>1. PICK k \in Keys : entries' = [entries EXCEPT ![k] = Absent]
    BY <1>2 DEF Delete
  <2>2. UNCHANGED <<evictor, worker, since>>
    BY <1>2 DEF Delete
  <2> QED
    BY <2>1, <2>2, RemovalKeepsCurrent, VictimsKept
<1>3. CASE CheckOpen(c) \/ GetRead(c) \/ CallEnds(c)
  BY <1>3 DEF CheckOpen, GetRead, CallEnds, VictimInv, Current
<1>4. ASSUME NEW k \in Keys, NEW size \in Sizes, NEW given \in Given, NEW at \in Times,
             Set(c, k, size, given, at)
      PROVE  VictimInv'
  BY <1>4, SetWrites, WriteKeepsVictims
<1> QED
  BY <1>1, <1>2, <1>3, <1>4 DEF ClientStep

LEMMA EvictorKeepsVictims ==
  ASSUME TypeOK, LifeInv, VictimInv, EvictorStep
  PROVE  VictimInv'
<1>1. CASE EvictBegin
  <2>1. evictor' = [pc |-> "round", left |-> {Entry(k) : k \in Chosen}, errs |-> 0,
                    room |-> ErrRoom({Entry(k) : k \in Chosen})]
    BY <1>1 DEF EvictBegin
  <2>2. UNCHANGED <<entries, worker, since>> /\ evictor.pc # "round"
    BY <1>1 DEF EvictBegin
  <2>3. Chosen \subseteq Keys
    BY DEF Chosen, Present
  <2>4. ASSUME NEW k \in Chosen PROVE Current(Entry(k))'
    <3>1. since[k] = "same"
      BY <2>2, <2>3 DEF VictimInv
    <3>2. LET v == Entry(k) IN v.key = k /\ v.rev = entries[k].rev
      BY DEF Entry
    <3> QED
      BY <2>2, <3>1, <3>2 DEF Current, Entry
  <2>5. \A v \in evictor'.left : Current(v)'
    BY <2>1, <2>2, <2>4 DEF Entry
  <2>6. \A w \in Workers : worker'[w].pc # "busy"
    BY <2>2 DEF LifeInv, RoundInv, Free
  <2>7. evictor'.pc = "round"
    BY <2>1
  <2> QED
    BY <2>5, <2>6, <2>7 DEF VictimInv
<1>2. CASE StopSending
  BY <1>2 DEF StopSending, TypeOK, Evictors, VictimInv, Current
<1>3. CASE RoundDone
  <2>1. evictor'.left = {} /\ \A w \in Workers : worker'[w].pc # "busy"
    BY <1>3 DEF RoundDone, RoundOver, TypeOK, Evictors, Free
  <2>2. \A k \in Keys : since'[k] = "same"
    BY <1>3 DEF RoundDone
  <2> QED
    BY <2>1, <2>2 DEF VictimInv
<1>4. CASE EvictorExit
  BY <1>4 DEF EvictorExit, TypeOK, Evictors, VictimInv, Current
<1>5. ASSUME NEW w \in Workers, SendVictim(w) PROVE VictimInv'
  <2>1. PICK v \in evictor.left :
          /\ worker' = [worker EXCEPT ![w] = [pc |-> "busy", victim |-> v]]
          /\ evictor' = [evictor EXCEPT !.left = @ \ {v}]
    BY <1>5 DEF SendVictim
  <2>2. UNCHANGED <<entries, since>> /\ evictor.pc = "round"
    BY <1>5 DEF SendVictim
  <2>3. evictor'.pc = "round" /\ evictor'.left \subseteq evictor.left
    BY <2>1, <2>2 DEF TypeOK, Evictors
  <2>4. \A u \in evictor.left : Current(u)'
    BY <2>2 DEF VictimInv, Current
  <2>5. ASSUME NEW x \in Workers, worker'[x].pc = "busy" PROVE Current(worker[x].victim)'
    <3>1. CASE x = w
      <4>1. worker'[x].victim = v
        BY <2>1, <3>1 DEF TypeOK
      <4> QED
        BY <2>4, <4>1 DEF Current
    <3>2. CASE x # w
      <4>1. worker'[x] = worker[x]
        BY <2>1, <3>2 DEF TypeOK
      <4> QED
        BY <2>2, <2>5, <4>1 DEF VictimInv, Current
    <3> QED
      BY <3>1, <3>2
  <2> QED
    BY <2>3, <2>4, <2>5 DEF VictimInv
<1>6. ASSUME NEW w \in Workers, EvictEntry(w) PROVE VictimInv'
  <2>1. UNCHANGED <<evictor, since>> /\ worker' = [worker EXCEPT ![w] = Free]
    BY <1>6 DEF EvictEntry
  <2>2. worker[w].victim.key \in Keys
    BY <1>6, WorkerTypes DEF TypeOK, EvictEntry, Victims
  <2>3. \A v \in Victims : Current(v) => Current(v)'
    <3>1. CASE entries' = [entries EXCEPT ![worker[w].victim.key] = Absent]
      BY <2>1, <2>2, <3>1, RemovalKeepsCurrent
    <3>2. CASE entries' = entries
      BY <2>1, <3>2 DEF Current
    <3> QED
      BY <1>6, <3>1, <3>2 DEF EvictEntry
  <2>4. \A v \in evictor.left : Current(v)'
    BY <2>3 DEF VictimInv, TypeOK, Evictors
  <2>5. ASSUME NEW x \in Workers, worker'[x].pc = "busy" PROVE Current(worker[x].victim)'
    <3>1. worker'[x] = worker[x]
      BY <2>1, <2>5 DEF TypeOK, Free
    <3>2. Current(worker[x].victim) /\ worker[x].victim \in Victims
      BY <2>5, <3>1, WorkerTypes DEF VictimInv, TypeOK
    <3> QED
      BY <2>3, <3>1, <3>2 DEF Current
  <2>6. evictor'.pc # "round" => \A k \in Keys : since'[k] = "same"
    BY <2>1 DEF VictimInv
  <2> QED
    BY <2>1, <2>4, <2>5, <2>6 DEF VictimInv
<1>7. ASSUME NEW w \in Workers, EvictFails(w) \/ ReportError(w) PROVE VictimInv'
  <2>1. UNCHANGED <<entries, since>> /\ evictor'.pc = evictor.pc /\ evictor'.left = evictor.left
    BY <1>7 DEF EvictFails, ReportError, TypeOK, Evictors
  <2>2. ASSUME NEW x \in Workers, worker'[x].pc = "busy" PROVE worker'[x] = worker[x]
    BY <1>7, <2>2 DEF EvictFails, ReportError, TypeOK, Free
  <2> QED
    BY <2>1, <2>2 DEF VictimInv, Current
<1> QED
  BY <1>1, <1>2, <1>3, <1>4, <1>5, <1>6, <1>7 DEF EvictorStep

LEMMA VictimStep ==
  ASSUME TypeOK, LifeInv, VictimInv, [Next]_vars
  PROVE  VictimInv'
<1>1. CASE StartEvictor
  BY <1>1 DEF StartEvictor, TypeOK, Evictors, VictimInv, Current
<1>2. CASE CancelEvictor \/ CloseBegin \/ CloseReturn \/ UNCHANGED vars
  BY <1>2 DEF CancelEvictor, CloseBegin, CloseReturn, vars, VictimInv, Current
<1> QED
  BY <1>1, <1>2, ClientKeepsVictims, EvictorKeepsVictims DEF Next, StoreStep

LEMMA VictimInvariant == Spec => []VictimInv
<1>1. Init => VictimInv
  BY DEF Init, VictimInv, Free
<1>2. TypeOK /\ LifeInv /\ VictimInv /\ [Next]_vars => VictimInv'
  BY VictimStep
<1> QED
  BY <1>1, <1>2, TypeCorrect, LifeInvariant, PTL DEF Spec

(* No worker removes an entry that was set or touched after the scan that  *)
(* chose it, however old the scan is and whatever the clock says.          *)
THEOREM UsedEntriesAreKept == Spec => UsedEntriesStay
<1> DEFINE Kept == \A w \in Workers :
      EvictEntry(w) /\ Evicted(worker[w].victim) => since[worker[w].victim.key] # "written"
<1>1. ASSUME TypeOK, VictimInv PROVE Kept
  <2> SUFFICES ASSUME NEW w \in Workers, EvictEntry(w), Evicted(worker[w].victim)
               PROVE  since[worker[w].victim.key] # "written"
    OBVIOUS
  <2> DEFINE v == worker[w].victim
  <2>1. worker[w].pc = "busy" /\ v \in Victims
    BY <1>1, WorkerTypes DEF EvictEntry, TypeOK
  <2>2. Exists(entries[v.key]) /\ entries[v.key].rev = v.rev
    BY DEF Evicted, Unchanged
  <2>3. v.rev \in Nat /\ ~(v.rev > v.rev)
    BY <2>1, RevisionsAssumption DEF Victims
  <2> QED
    BY <1>1, <2>1, <2>2, <2>3 DEF VictimInv, Current
<1>2. TypeOK /\ VictimInv => [Kept]_vars
  BY <1>1
<1> QED
  BY <1>2, TypeCorrect, VictimInvariant, PTL DEF UsedEntriesStay

-----------------------------------------------------------------------------
(* The total size of a set of entries *)

(* The fold of SizeOf: g[s] is the size of s, for the sets s in D. *)
Pick(s) == CHOOSE x \in s : TRUE
FoldEquation(g, D) ==
  g = [s \in D |-> IF s = {} THEN 0 ELSE entries[Pick(s)].size + g[s \ {Pick(s)}]]

LEMMA PickType == ASSUME NEW s, s # {} PROVE Pick(s) \in s
BY DEF Pick

LEMMA SizeOfFold ==
  ASSUME NEW S
  PROVE  SizeOf(S) = (CHOOSE g : FoldEquation(g, SUBSET S))[S]
BY DEF SizeOf, MapThenSumSet, MapThenFoldSet, Pick, FoldEquation

(* The fold is well defined: on sets of at most n elements, for each n. *)
Level(S, n) == {s \in SUBSET S : Cardinality(s) <= n}

LEMMA LevelStep ==
  ASSUME NEW S, IsFiniteSet(S), NEW n \in Nat, NEW s \in Level(S, n + 1), s # {}
  PROVE  s \ {Pick(s)} \in Level(S, n)
<1>1. IsFiniteSet(s) /\ Pick(s) \in s
  BY FS_Subset, PickType DEF Level
<1>2. /\ Cardinality(s) = Cardinality(s \ {Pick(s)}) + 1
      /\ Cardinality(s) \in Nat /\ Cardinality(s \ {Pick(s)}) \in Nat
  BY <1>1, OneLess
<1> QED
  BY <1>2 DEF Level

LEMMA FoldExists ==
  ASSUME NEW S, IsFiniteSet(S)
  PROVE  \E g : FoldEquation(g, SUBSET S)
<1> DEFINE B == {n \in Nat : ~\E g : FoldEquation(g, Level(S, n))}
<1>1. 0 \notin B
  <2> DEFINE g == [s \in Level(S, 0) |-> 0]
  <2>1. ASSUME NEW s \in Level(S, 0) PROVE s = {}
    <3>1. IsFiniteSet(s) /\ Cardinality(s) <= 0
      BY FS_Subset DEF Level
    <3>2. Cardinality(s) \in Nat
      BY <3>1, FS_CardinalityType
    <3> QED
      BY <3>1, <3>2, FS_EmptySet
  <2>2. FoldEquation(g, Level(S, 0))
    BY <2>1 DEF FoldEquation
  <2> QED
    BY <2>2
<1>2. ASSUME NEW n \in Nat, n \notin B PROVE n + 1 \notin B
  <2>1. PICK g : FoldEquation(g, Level(S, n))
    BY <1>2
  <2> DEFINE value(s) == IF s = {} THEN 0 ELSE entries[Pick(s)].size + g[s \ {Pick(s)}]
             h == [s \in Level(S, n + 1) |-> value(s)]
  <2>2. \A s \in Level(S, n) : g[s] = value(s)
    BY <2>1 DEF FoldEquation
  <2>3. Level(S, n) \subseteq Level(S, n + 1)
    <3> SUFFICES ASSUME NEW s \in Level(S, n) PROVE s \in Level(S, n + 1)
      OBVIOUS
    <3>1. Cardinality(s) \in Nat /\ Cardinality(s) <= n /\ s \in SUBSET S
      BY FS_Subset, FS_CardinalityType DEF Level
    <3> QED
      BY <3>1 DEF Level
  <2>4. \A s \in Level(S, n) : h[s] = g[s]
    BY <2>2, <2>3
  <2>5. ASSUME NEW s \in Level(S, n + 1), s # {}
        PROVE  g[s \ {Pick(s)}] = h[s \ {Pick(s)}]
    BY <2>4, <2>5, LevelStep
  <2>6. FoldEquation(h, Level(S, n + 1))
    <3>1. \A s \in Level(S, n + 1) :
            value(s) = IF s = {} THEN 0 ELSE entries[Pick(s)].size + h[s \ {Pick(s)}]
      BY <2>5
    <3> QED
      BY <3>1 DEF FoldEquation
  <2> HIDE DEF h
  <2> QED
    BY <2>6
<1>3. B = {}
  BY <1>1, <1>2, NoLeastCounterexample
<1>4. Cardinality(S) \in Nat
  BY FS_CardinalityType
<1>5. Level(S, Cardinality(S)) = SUBSET S
  BY FS_Subset DEF Level
<1> QED
  BY <1>3, <1>4, <1>5

(* The size of a finite set of entries is a number, that of none is 0. *)
LEMMA SizeType ==
  ASSUME TypeOK, NEW S \in SUBSET Present
  PROVE  SizeOf(S) \in Nat /\ SizeOf({}) = 0
<1>1. S \subseteq Keys /\ IsFiniteSet(S) /\ \A k \in S : entries[k].size \in Nat
  <2>1. S \subseteq Keys /\ IsFiniteSet(S)
    BY FS_Subset, KeysAssumption DEF Present
  <2>2. ASSUME NEW k \in S PROVE entries[k].size \in Nat
    <3>1. entries[k] \in Live
      BY RecordTypes DEF Present, TypeOK
    <3> QED
      BY <3>1, RecordsAssumption DEF Live
  <2> QED
    BY <2>1, <2>2
<1> DEFINE g == CHOOSE f : FoldEquation(f, SUBSET S)
<1>2. FoldEquation(g, SUBSET S)
  BY <1>1, FoldExists
<1> HIDE DEF g
<1> DEFINE B == {n \in Nat : \E s \in SUBSET S : Cardinality(s) = n /\ g[s] \notin Nat}
<1>3. 0 \notin B
  <2>1. ASSUME NEW s \in SUBSET S, Cardinality(s) = 0 PROVE g[s] \in Nat
    <3>1. s = {}
      BY <1>1, <2>1, FS_Subset, FS_EmptySet
    <3> QED
      BY <1>2, <3>1 DEF FoldEquation
  <2> QED
    BY <2>1
<1>4. ASSUME NEW n \in Nat, n \notin B PROVE n + 1 \notin B
  <2> SUFFICES ASSUME NEW s \in SUBSET S, Cardinality(s) = n + 1 PROVE g[s] \in Nat
    OBVIOUS
  <2>1. IsFiniteSet(s) /\ s # {}
    BY <1>1, FS_Subset, FS_EmptySet
  <2> DEFINE x == Pick(s)
             t == s \ {x}
  <2>2. x \in s
    BY <2>1, PickType
  <2> HIDE DEF x
  <2>3. t \in SUBSET S /\ Cardinality(t) = n
    <3>1. Cardinality(t) \in Nat /\ Cardinality(s) = Cardinality(t) + 1
      BY <2>1, <2>2, OneLess
    <3> HIDE DEF t
    <3>2. Cardinality(t) = n
      BY <3>1
    <3> QED
      BY <3>2 DEF t
  <2>4. g[t] \in Nat /\ entries[x].size \in Nat
    BY <1>1, <1>4, <2>2, <2>3
  <2>5. g[s] = entries[x].size + g[t]
    BY <1>2, <2>1 DEF FoldEquation, x
  <2> QED
    BY <2>4, <2>5
<1>5. B = {}
  BY <1>3, <1>4, NoLeastCounterexample
<1>6. Cardinality(S) \in Nat
  BY <1>1, FS_CardinalityType
<1>7. SizeOf(S) \in Nat
  BY <1>5, <1>6, SizeOfFold DEF g
<1>8. SizeOf({}) = 0
  <2> DEFINE f == CHOOSE e : FoldEquation(e, SUBSET {})
  <2>1. FoldEquation(f, SUBSET {})
    BY FS_EmptySet, FoldExists
  <2> HIDE DEF f
  <2>2. f[{}] = 0
    BY <2>1 DEF FoldEquation
  <2> QED
    BY <2>2, SizeOfFold DEF f
<1> QED
  BY <1>7, <1>8

-----------------------------------------------------------------------------
(* The choice of victims *)

LEMMA EntryFields ==
  ASSUME TypeOK, NEW x \in Present
  PROVE  /\ Entry(x).access = entries[x].access /\ Entry(x).key = x /\ x \in Nat
         /\ entries[x].access \in Int /\ entries[x].access + 1 \in Nat
<1>1. entries[x] \in Live /\ x \in Nat
  BY RecordTypes, KeysAssumption DEF Present, TypeOK
<1>2. entries[x].access \in Accesses
  BY <1>1 DEF Live
<1>3. entries[x].access \in Nat \cup {-1}
  BY <1>2, TimesAssumption DEF Accesses, ZeroTime
<1>4. Entry(x).access = entries[x].access /\ Entry(x).key = x
  BY DEF Entry
<1> QED
  BY <1>1, <1>3, <1>4

(* The order of the sort is strict and total. *)
LEMMA EntryOrder ==
  ASSUME TypeOK, NEW i \in Present, NEW j \in Present, NEW k \in Present
  PROVE  /\ ~Earlier(Entry(i), Entry(i))
         /\ Earlier(Entry(i), Entry(j)) \/ Earlier(Entry(j), Entry(i)) \/ i = j
         /\ Earlier(Entry(i), Entry(j)) => ~Earlier(Entry(j), Entry(i))
         /\ Earlier(Entry(i), Entry(j)) /\ Earlier(Entry(j), Entry(k))
              => Earlier(Entry(i), Entry(k))
<1>1. ASSUME NEW x \in Present
      PROVE  Entry(x).access \in Int /\ Entry(x).key = x /\ x \in Int
  BY EntryFields
<1> QED
  BY <1>1 DEF Earlier

LEMMA LeastEntry ==
  ASSUME TypeOK, NEW S \in SUBSET Present, S # {}
  PROVE  \E m \in S : \A k \in S : ~Earlier(Entry(k), Entry(m))
<1>1. ASSUME NEW x \in S
      PROVE  /\ Entry(x).access = entries[x].access /\ entries[x].access + 1 \in Nat
             /\ entries[x].access \in Int /\ Entry(x).key = x /\ x \in Nat
  BY EntryFields
<1> DEFINE A == {entries[x].access + 1 : x \in S}
<1>2. PICK a \in A : \A b \in A : a <= b
  <2>1. A \subseteq Nat /\ A # {}
    BY <1>1
  <2> HIDE DEF A
  <2> QED
    BY <2>1, LeastNumber
<1> DEFINE F == {x \in S : entries[x].access + 1 = a}
<1>3. PICK m \in F : \A x \in F : m <= x
  <2>1. F \subseteq Nat /\ F # {}
    BY <1>1, <1>2
  <2> HIDE DEF F
  <2> QED
    BY <2>1, LeastNumber
<1>4. m \in S /\ entries[m].access + 1 = a
  BY <1>3
<1>5. ASSUME NEW k \in S PROVE ~Earlier(Entry(k), Entry(m))
  <2>1. a <= entries[k].access + 1
    BY <1>2
  <2>2. entries[k].access + 1 = a => m <= k
    BY <1>3
  <2> QED
    BY <1>1, <1>4, <2>1, <2>2 DEF Earlier
<1> QED
  BY <1>4, <1>5

LEMMA OverOrWithin ==
  ASSUME TypeOK, NEW S \in SUBSET Present
  PROVE  WithinCaps(S) <=> ~Over(S)
<1>1. SizeOf(S) \in Nat
  BY SizeType
<1>2. Cardinality(S) \in Nat
  BY FS_Subset, FS_CardinalityType, KeysAssumption DEF Present
<1> QED
  BY <1>1, <1>2, OptionsAssumption DEF WithinCaps, Over

(* What is before a victim is a victim. *)
LEMMA ChosenFirst ==
  ASSUME TypeOK, NEW v \in Chosen, NEW k \in Present \ Chosen
  PROVE  Earlier(Entry(v), Entry(k))
<1>1. v \in Present
  BY DEF Chosen
<1>2. PICK j \in Present : k \in NotBefore(j) /\ ~Over(NotBefore(j))
  BY DEF Chosen
<1>3. v \notin NotBefore(j)
  BY <1>2 DEF Chosen
<1>4. Earlier(Entry(v), Entry(j)) /\ ~Earlier(Entry(k), Entry(j))
  BY <1>1, <1>2, <1>3 DEF NotBefore
<1>5. Earlier(Entry(j), Entry(k)) \/ j = k
  BY <1>2, <1>4, EntryOrder
<1> QED
  BY <1>1, <1>2, <1>4, <1>5, EntryOrder

(* What victims() chooses is exact, for any number of entries of any size: *)
(* the least recently used ones, as many as it takes to get within both    *)
(* caps and not one more.                                                  *)
THEOREM VictimsAreExact == Spec => []VictimsExact
<1>1. ASSUME TypeOK PROVE VictimsExact
  <2> DEFINE kept == Present \ Chosen
  <2>0. Chosen \subseteq Present /\ kept \in SUBSET Present
    BY DEF Chosen
  <2>1. \A v \in Chosen, k \in kept : Earlier(Entry(v), Entry(k))
    BY <1>1, ChosenFirst
  <2>2. WithinCaps(kept)
    <3>1. CASE kept = {}
      <4>1. SizeOf({}) = 0 /\ Cardinality({}) = 0
        BY <1>1, <2>0, SizeType, FS_EmptySet
      <4> QED
        BY <3>1, <4>1, OptionsAssumption DEF WithinCaps
    <3>2. CASE kept # {}
      <4>1. PICK m \in kept : \A k \in kept : ~Earlier(Entry(k), Entry(m))
        BY <1>1, <2>0, <3>2, LeastEntry
      <4>2. PICK j \in Present : m \in NotBefore(j) /\ ~Over(NotBefore(j))
        BY <4>1 DEF Chosen
      <4>3. j \notin Chosen
        <5>1. j \in NotBefore(j)
          BY <1>1, <4>2, EntryOrder DEF NotBefore
        <5> QED
          BY <4>2, <5>1 DEF Chosen
      <4>4. j = m
        BY <1>1, <4>1, <4>2, <4>3, EntryOrder DEF NotBefore
      <4>5. NotBefore(m) = kept
        <5>1. ASSUME NEW k \in NotBefore(m) PROVE k \in kept
          BY <1>1, <2>1, <4>1, <5>1 DEF NotBefore
        <5> QED
          BY <4>1, <5>1 DEF NotBefore
      <4> QED
        BY <1>1, <2>0, <4>2, <4>4, <4>5, OverOrWithin
    <3> QED
      BY <3>1, <3>2
  <2>3. ASSUME NEW v \in Chosen, \A u \in Chosen \ {v} : Earlier(Entry(u), Entry(v))
        PROVE  ~WithinCaps(kept \cup {v})
    <3>1. v \in Present /\ v \in NotBefore(v)
      BY <1>1, <2>0, EntryOrder DEF NotBefore
    <3>2. Over(NotBefore(v))
      BY <3>1 DEF Chosen
    <3>3. NotBefore(v) = kept \cup {v}
      <4>1. ASSUME NEW k \in Present PROVE k \in NotBefore(v) <=> k \in kept \/ k = v
        <5>1. CASE k \in kept
          <6>1. Earlier(Entry(v), Entry(k))
            BY <2>1, <5>1
          <6> QED
            BY <1>1, <3>1, <5>1, <6>1, EntryOrder DEF NotBefore
        <5>2. CASE k \in Chosen \ {v}
          BY <2>3, <5>2 DEF NotBefore
        <5>3. CASE k = v
          BY <3>1, <5>3
        <5> QED
          BY <5>1, <5>2, <5>3
      <4> QED
        BY <2>0, <4>1 DEF NotBefore
    <3> QED
      BY <1>1, <2>0, <3>1, <3>2, <3>3, OverOrWithin
  <2> QED
    BY <2>1, <2>2, <2>3 DEF VictimsExact
<1> QED
  BY <1>1, TypeCorrect, PTL

-----------------------------------------------------------------------------
(* The workers' errors *)

(* Who has a victim in hand, or an error because of one. *)
InHand == {w \in Workers : worker[w] # Free}

(* Each victim is still to be handed out, in somebody's hand, reported, or *)
(* done with.                                                              *)
RoomInv ==
  /\ IsFiniteSet(evictor.left) /\ IsFiniteSet(InHand)
  /\ Cardinality(evictor.left) + Cardinality(InHand) + evictor.errs <= evictor.room

LEMMA RoomKept ==
  ASSUME RoomInv, UNCHANGED <<evictor, worker>>
  PROVE  RoomInv'
<1>1. InHand' = InHand
  BY DEF InHand
<1> QED
  BY <1>1 DEF RoomInv

LEMMA RoomSend ==
  ASSUME TypeOK, RoomInv, NEW w \in Workers, SendVictim(w)
  PROVE  RoomInv'
<1>1. PICK v \in evictor.left :
        /\ worker' = [worker EXCEPT ![w] = [pc |-> "busy", victim |-> v]]
        /\ evictor' = [evictor EXCEPT !.left = @ \ {v}]
  BY DEF SendVictim
<1>2. /\ evictor'.left = evictor.left \ {v} /\ evictor'.errs = evictor.errs
      /\ evictor'.room = evictor.room
  BY <1>1 DEF TypeOK, Evictors
<1>3. w \notin InHand /\ InHand' = InHand \cup {w}
  <2>1. worker[w] = Free /\ [pc |-> "busy", victim |-> v] # Free
    BY DEF SendVictim, Free
  <2> QED
    BY <1>1, <2>1 DEF InHand, TypeOK
<1>4. /\ IsFiniteSet(evictor'.left) /\ IsFiniteSet(InHand')
      /\ Cardinality(evictor'.left) + Cardinality(InHand')
           = Cardinality(evictor.left) + Cardinality(InHand)
  <2> DEFINE L == evictor.left
             H == InHand
  <2>1. v \in L /\ w \notin H /\ IsFiniteSet(L) /\ IsFiniteSet(H)
    BY <1>1, <1>3 DEF RoomInv
  <2>2. evictor'.left = L \ {v} /\ InHand' = H \cup {w}
    BY <1>2, <1>3
  <2> HIDE DEF L, H
  <2>3. /\ IsFiniteSet(L \ {v}) /\ IsFiniteSet(H \cup {w})
        /\ Cardinality(L \ {v}) + Cardinality(H \cup {w}) = Cardinality(L) + Cardinality(H)
    <3>1. /\ IsFiniteSet(L \ {v}) /\ Cardinality(L) \in Nat /\ Cardinality(L \ {v}) \in Nat
          /\ Cardinality(L) = Cardinality(L \ {v}) + 1
      BY <2>1, OneLess
    <3>2. IsFiniteSet(H \cup {w}) /\ Cardinality(H \cup {w}) = Cardinality(H) + 1
      BY <2>1, FS_AddElement
    <3>3. Cardinality(H) \in Nat
      BY <2>1, FS_CardinalityType
    <3> QED
      BY <3>1, <3>2, <3>3
  <2> QED
    BY <2>2, <2>3 DEF L, H
<1>5. Cardinality(evictor'.left) + Cardinality(InHand') + evictor'.errs <= evictor'.room
  BY <1>2, <1>4 DEF RoomInv
<1> QED
  BY <1>4, <1>5 DEF RoomInv

LEMMA RoomDone ==
  ASSUME TypeOK, RoomInv, NEW w \in Workers, EvictEntry(w) \/ ReportError(w)
  PROVE  RoomInv'
<1>1. w \in InHand /\ InHand' = InHand \ {w}
  BY DEF EvictEntry, ReportError, InHand, Free, TypeOK
<1>2. /\ evictor'.left = evictor.left /\ evictor'.room = evictor.room
      /\ evictor'.errs \in {evictor.errs, evictor.errs + 1}
  BY DEF EvictEntry, ReportError, TypeOK, Evictors
<1>3. /\ IsFiniteSet(InHand') /\ Cardinality(InHand') \in Nat
      /\ Cardinality(InHand) = Cardinality(InHand') + 1
  BY <1>1, OneLess DEF RoomInv
<1>4. Cardinality(evictor.left) \in Nat /\ evictor.errs \in Nat /\ evictor.room \in Nat
  BY FS_CardinalityType DEF RoomInv, TypeOK, Evictors
<1>5. Cardinality(evictor.left) + Cardinality(InHand') + evictor'.errs <= evictor.room
  BY <1>2, <1>3, <1>4 DEF RoomInv
<1> QED
  BY <1>2, <1>3, <1>5 DEF RoomInv

(* A scan makes room for as many errors as it has victims. *)
LEMMA RoomBegin ==
  ASSUME TypeOK, LifeInv, RoomInv, EvictBegin
  PROVE  RoomInv'
<1> DEFINE vs == {Entry(k) : k \in Chosen}
<1>1. IsFiniteSet(vs)
  <2>1. IsFiniteSet(Chosen)
    BY FS_Subset, KeysAssumption DEF Chosen, Present
  <2> DEFINE f == [k \in Chosen |-> Entry(k)]
  <2>2. f \in Surjection(Chosen, vs)
    BY DEF Surjection
  <2> HIDE DEF f
  <2> QED
    BY <2>1, <2>2, FS_Surjection
<1>2. /\ evictor'.left = vs /\ evictor'.errs = 0 /\ evictor'.room = Cardinality(vs)
      /\ evictor.pc = "wait" /\ UNCHANGED worker
  BY DEF EvictBegin, ErrRoom
<1>3. InHand' = {}
  BY <1>2 DEF InHand, LifeInv, RoundInv
<1> HIDE DEF vs
<1>4. Cardinality(vs) \in Nat /\ IsFiniteSet({}) /\ Cardinality({}) = 0
  BY <1>1, FS_CardinalityType, FS_EmptySet
<1> QED
  BY <1>1, <1>2, <1>3, <1>4 DEF RoomInv

(* Nothing is left, or the round is over. *)
LEMMA RoomEmptied ==
  ASSUME TypeOK, RoomInv, StopSending \/ RoundDone
  PROVE  RoomInv'
<1>0. IsFiniteSet({}) /\ Cardinality({}) = 0 /\ InHand' = InHand
  BY FS_EmptySet DEF InHand, StopSending, RoundDone
<1>1. /\ Cardinality(evictor.left) \in Nat /\ Cardinality(InHand) \in Nat
      /\ evictor.errs \in Nat /\ evictor.room \in Nat
  BY FS_CardinalityType DEF RoomInv, TypeOK, Evictors
<1>2. CASE StopSending
  <2>1. evictor'.left = {} /\ evictor'.errs = evictor.errs /\ evictor'.room = evictor.room
    BY <1>2 DEF StopSending, TypeOK, Evictors
  <2> QED
    BY <1>0, <1>1, <2>1 DEF RoomInv
<1>3. CASE RoundDone
  <2>1. evictor'.left = {} /\ evictor'.errs = 0 /\ evictor'.room = 0 /\ InHand = {}
    BY <1>3 DEF RoundDone, RoundOver, TypeOK, Evictors, InHand
  <2> QED
    BY <1>0, <2>1 DEF RoomInv
<1> QED
  BY <1>2, <1>3

LEMMA RoomStep ==
  ASSUME TypeOK, LifeInv, RoomInv, [Next]_vars
  PROVE  RoomInv'
<1>1. ASSUME NEW c \in Clients, ClientStep(c) PROVE RoomInv'
  BY <1>1, RoomKept DEF ClientStep, CheckOpen, Touch, Delete, GetRead, GetTouch, CallEnds,
       Set, Puts
<1>2. CASE EvictorExit \/ StartEvictor
  <2>1. /\ evictor'.left = evictor.left /\ evictor'.errs = evictor.errs
        /\ evictor'.room = evictor.room /\ InHand' = InHand
    BY <1>2 DEF EvictorExit, StartEvictor, TypeOK, Evictors, InHand
  <2> QED
    BY <2>1 DEF RoomInv
<1>3. ASSUME NEW w \in Workers, EvictFails(w) PROVE RoomInv'
  <2>1. InHand' = InHand /\ UNCHANGED evictor
    BY <1>3 DEF EvictFails, InHand, Free, TypeOK
  <2> QED
    BY <2>1 DEF RoomInv
<1>4. CASE CancelEvictor \/ CloseBegin \/ CloseReturn \/ UNCHANGED vars
  BY <1>4, RoomKept DEF CancelEvictor, CloseBegin, CloseReturn, vars
<1> QED
  BY <1>1, <1>2, <1>3, <1>4, RoomBegin, RoomSend, RoomDone, RoomEmptied
     DEF Next, EvictorStep, StoreStep

(* However many workers and victims there are, no worker blocks on errCh,  *)
(* which nobody reads before the workers are gone: the round comes to its  *)
(* end, and Close with it.                                                 *)
THEOREM WorkersNeverBlock == Spec => []ErrorsNeverBlock
<1>1. Init => RoomInv
  <2> SUFFICES ASSUME Init PROVE RoomInv
    OBVIOUS
  <2>1. evictor.left = {} /\ evictor.errs = 0 /\ evictor.room = 0 /\ InHand = {}
    BY DEF Init, InHand
  <2> QED
    BY <2>1, FS_EmptySet DEF RoomInv
<1>2. TypeOK /\ LifeInv /\ RoomInv /\ [Next]_vars => RoomInv'
  BY RoomStep
<1>3. ASSUME TypeOK, RoomInv PROVE ErrorsNeverBlock
  <2> SUFFICES ASSUME NEW w \in Workers, worker[w].pc = "failed"
               PROVE  evictor.errs < evictor.room
    BY DEF ErrorsNeverBlock
  <2>1. w \in InHand
    BY DEF InHand, Free
  <2>2. Cardinality(InHand) = Cardinality(InHand \ {w}) + 1
        /\ Cardinality(InHand \ {w}) \in Nat
    BY <1>3, <2>1, OneLess DEF RoomInv
  <2>3. Cardinality(evictor.left) \in Nat /\ evictor.errs \in Nat /\ evictor.room \in Nat
    BY <1>3, FS_CardinalityType DEF RoomInv, TypeOK, Evictors
  <2> QED
    BY <1>3, <2>2, <2>3 DEF RoomInv
<1> QED
  BY <1>1, <1>2, <1>3, TypeCorrect, LifeInvariant, PTL DEF Spec
=============================================================================
