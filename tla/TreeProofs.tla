----------------------------- MODULE TreeProofs -----------------------------
(***************************************************************************)
(* Proofs about Tree, for every graph of nodes and blobs, every number of  *)
(* refs and callers, and every bound: a manifest always has its body; the  *)
(* lease fences off all but one caller as long as nobody releases it, and  *)
(* then the refs of callers that keep to SweepGCFenced's rules stay        *)
(* complete; the versions of refs that are never deleted hide no write.    *)
(***************************************************************************)
EXTENDS Tree, TLAPS

-----------------------------------------------------------------------------
(* Types *)

(* The call records that the actions make are such records. *)
LEMMA CallAt ==
  ASSUME NEW r \in Calls,
         NEW p \in {"idle", "publish", "discard", "walk", "blobs", "sweep", "bodies"}
  PROVE  LET s == [r EXCEPT !.pc = p]
         IN  /\ s \in Calls /\ s.pc = p /\ s.hash = r.hash /\ s.object = r.object
             /\ s.front = r.front /\ s.reached = r.reached
BY DEF Calls

LEMMA CallObject ==
  ASSUME NEW r \in Calls, NEW o \in 0..MaxObject
  PROVE  LET s == [r EXCEPT !.object = o] IN s \in Calls /\ s.pc = r.pc /\ s.object = o
BY DEF Calls

LEMMA CallWalk ==
  ASSUME NEW r \in Calls, NEW f \in SUBSET Nodes, NEW q \in SUBSET Nodes
  PROVE  LET s == [r EXCEPT !.reached = q, !.front = f]
         IN  /\ s \in Calls /\ s.pc = r.pc /\ s.object = r.object
             /\ s.front = f /\ s.reached = q
BY DEF Calls

LEMMA CallRoots ==
  ASSUME NEW r \in Calls, NEW f \in SUBSET Nodes
  PROVE  LET s == [r EXCEPT !.pc = "walk", !.front = f]
         IN  /\ s \in Calls /\ s.pc = "walk" /\ s.object = r.object
             /\ s.front = f /\ s.reached = r.reached
BY DEF Calls

LEMMA IdleType == Idle \in Calls
BY CapsAssumption DEF Calls, Idle

LEMMA IdleUpload ==
  ASSUME NEW h \in Hashes, NEW o \in 0..MaxObject
  PROVE  LET s == [Idle EXCEPT !.pc = "publish", !.hash = h, !.object = o]
         IN  s \in Calls /\ s.pc = "publish" /\ s.hash = h /\ s.object = o
BY IdleType DEF Calls

LEMMA PlanTypes ==
  /\ NoPlan \in Plans
  /\ \A p \in Plans : /\ p.nodes \in SUBSET Nodes
                      /\ p.blobs \in SUBSET (Hashes \X Objects)
                      /\ \A S \in SUBSET Nodes : [p EXCEPT !.nodes = S] \in Plans
                      /\ \A B \in SUBSET (Hashes \X Objects) : [p EXCEPT !.blobs = B] \in Plans
BY DEF Plans, NoPlan

LEMMA FreshType == FreshSession \in Sessions
<1>1. (CHOOSE r \in Refs : TRUE) \in Refs
  BY RefsAssumption
<1>2. 0 \in 0..MaxToken /\ 0 \in 0..MaxVersion
  BY CapsAssumption
<1> QED
  BY <1>1, <1>2, PlanTypes DEF Sessions, FreshSession

Since == {"nothing", "written", "deleted"}

(* The sessions that the actions make are sessions. *)
LEMMA SessionRecords ==
  ASSUME NEW s \in Sessions
  PROVE  /\ \A t \in 0..MaxToken : [s EXCEPT !.token = t] \in Sessions
         /\ \A N \in SUBSET Nodes : [s EXCEPT !.putNodes = N] \in Sessions
         /\ \A B \in SUBSET Hashes : [s EXCEPT !.putBlobs = B] \in Sessions
         /\ \A p \in Plans : [s EXCEPT !.plan = p] \in Sessions
         /\ \A q \in Plans : [s EXCEPT !.left = q] \in Sessions
         /\ \A r \in Refs : \A v \in 0..MaxVersion :
              [s EXCEPT !.ref = r, !.seen = v, !.since = "nothing"] \in Sessions
         /\ \A h \in Since : \A p \in Plans :
              [s EXCEPT !.since = h, !.plan = p] \in Sessions
         /\ \A t \in 0..MaxToken : \A p \in Plans :
              [s EXCEPT !.token = t, !.putNodes = {}, !.putBlobs = {}, !.plan = p] \in Sessions
         /\ \A q \in Plans :
              [s EXCEPT !.left = q, !.putNodes = {}, !.putBlobs = {}] \in Sessions
BY DEF Sessions, Since

LEMMA SessionTypes ==
  ASSUME NEW s \in Sessions
  PROVE  /\ s.token \in 0..MaxToken /\ s.putNodes \in SUBSET Nodes
         /\ s.putBlobs \in SUBSET Hashes /\ s.plan \in Plans /\ s.left \in Plans
         /\ s.ref \in Refs /\ s.seen \in 0..MaxVersion /\ s.since \in Since
BY DEF Sessions, Since

LEMMA CallTypes ==
  ASSUME NEW r \in Calls
  PROVE  /\ r.hash \in Hashes \cup {NoHash} /\ r.object \in 0..MaxObject
         /\ r.front \in SUBSET Nodes /\ r.reached \in SUBSET Nodes
BY DEF Calls

(* The client in the middle of a publication has a hash and an object. *)
CallArgs ==
  \A c \in Clients : call[c].pc \in {"publish", "discard"} =>
    call[c].hash \in Hashes /\ call[c].object \in Objects /\ call[c].object <= uploads

TypeInv == TypeOK /\ CallArgs

LEMMA TypeInit == Init => TypeInv
<1> SUFFICES ASSUME Init PROVE TypeInv
  OBVIOUS
<1>1. 0 \in 0..MaxObject /\ 0 \in 0..MaxVersion /\ 0 \in 0..MaxToken
  BY CapsAssumption
<1>2. NoRef \in [node: Nodes \cup {NoNode}, version: 0..MaxVersion]
  BY <1>1 DEF NoRef
<1>3. TypeOK
  BY <1>1, <1>2, IdleType, FreshType DEF Init, TypeOK
<1>4. Idle.pc = "idle"
  BY DEF Idle
<1> QED
  BY <1>3, <1>4 DEF Init, TypeInv, CallArgs

(* Publications, nodes and what a fault does. *)
LEMMA TypePut ==
  ASSUME TypeInv, NEW c \in Clients, PutStep(c) \/ StoreFails(c) \/ Crash(c)
  PROVE  TypeInv'
<1> USE DEF kvVars
<1>0. /\ TypeOK /\ CallArgs /\ call[c] \in Calls /\ session[c] \in Sessions
      /\ call \in [Clients -> Calls] /\ session \in [Clients -> Sessions]
  BY DEF TypeInv, TypeOK
<1>c. Idle.pc = "idle" /\ Idle \in Calls
  BY IdleType DEF Idle
<1>1. CASE PutBlobUpload(c)
  <2>1. PICK h \in Hashes :
          /\ objects' = [objects EXCEPT ![uploads + 1] = h]
          /\ call' = [call EXCEPT ![c] =
                        [Idle EXCEPT !.pc = "publish", !.hash = h, !.object = uploads + 1]]
    BY <1>1 DEF PutBlobUpload, StagingKey
  <2>2. /\ uploads + 1 \in Objects /\ uploads + 1 \in 0..MaxObject /\ uploads' = uploads + 1
        /\ uploads \in Nat
    BY <1>0, <1>1, CapsAssumption DEF PutBlobUpload, TypeOK, Objects
  <2>3. LET r == [Idle EXCEPT !.pc = "publish", !.hash = h, !.object = uploads + 1]
        IN  r \in Calls /\ r.hash = h /\ r.object = uploads + 1
    <3>1. h \in Hashes /\ uploads + 1 \in 0..MaxObject
      BY <2>1, <2>2
    <3> QED
      BY <3>1, IdleUpload
  <2>4. TypeOK'
    BY <1>0, <1>1, <2>1, <2>2, <2>3 DEF PutBlobUpload, TypeOK
  <2>5. CallArgs'
    <3>1. ASSUME NEW d \in Clients \ {c}, call'[d].pc \in {"publish", "discard"}
          PROVE  call'[d].hash \in Hashes /\ call'[d].object \in Objects /\ call'[d].object <= uploads
      BY <1>0, <2>1, <3>1 DEF CallArgs
    <3>2. \A o \in Objects : o <= uploads => o <= uploads'
      BY <2>2, CapsAssumption DEF Objects
    <3>3. uploads + 1 <= uploads'
      BY <2>2
    <3>4. call'[c].hash = h /\ call'[c].object = uploads + 1
      BY <1>0, <2>1, <2>3
    <3> QED
      BY <2>2, <3>1, <3>2, <3>3, <3>4 DEF CallArgs
  <2> QED
    BY <2>4, <2>5 DEF TypeInv
<1>2. CASE PutBlobPublish(c)
  <2>1. call[c].hash \in Hashes /\ call[c].object \in Objects /\ call[c].object \in 0..MaxObject
    BY <1>0, <1>2, CapsAssumption, CallTypes DEF PutBlobPublish, CallArgs
  <2>2. PICK r : /\ r \in {Idle, [call[c] EXCEPT !.pc = "discard"]}
                 /\ call' = [call EXCEPT ![c] = r]
    BY <1>2 DEF PutBlobPublish
  <2>3. r \in Calls /\ (r.pc = "discard" => r.hash = call[c].hash /\ r.object = call[c].object)
        /\ r.pc # "publish"
    <3>1. CASE r = Idle
      BY <1>c, <3>1
    <3>2. CASE r = [call[c] EXCEPT !.pc = "discard"]
      BY <1>0, <3>2, CallAt
    <3> QED
      BY <2>2, <3>1, <3>2
  <2>4. session' \in [Clients -> Sessions]
    <3>1. Remembered(session[c].putBlobs \cup {call[c].hash}) \in SUBSET Hashes
      BY <1>0, <2>1, SessionTypes DEF Remembered
    <3> QED
      BY <1>0, <1>2, <3>1, SessionRecords DEF PutBlobPublish
  <2>5. manifests' \in [Hashes -> 0..MaxObject]
    BY <1>0, <1>2, <2>1 DEF PutBlobPublish, TypeOK
  <2>6. TypeOK'
    BY <1>0, <1>2, <2>2, <2>3, <2>4, <2>5 DEF PutBlobPublish, TypeOK
  <2>7. CallArgs'
    BY <1>0, <1>2, <2>1, <2>2, <2>3 DEF PutBlobPublish, CallArgs
  <2> QED
    BY <2>6, <2>7 DEF TypeInv
<1>3. CASE PutBlobFails(c)
  <2>1. LET r == [call[c] EXCEPT !.pc = "discard"]
        IN  /\ r \in Calls /\ r.hash = call[c].hash /\ r.object = call[c].object
            /\ call' = [call EXCEPT ![c] = r]
    BY <1>0, <1>3, CallAt DEF PutBlobFails
  <2>2. TypeOK'
    BY <1>0, <1>3, <2>1 DEF PutBlobFails, TypeOK
  <2> QED
    BY <1>0, <1>3, <2>1, <2>2 DEF PutBlobFails, CallArgs, TypeInv
<1>4. CASE PutBlobDiscard(c)
  BY <1>0, <1>c, <1>4 DEF PutBlobDiscard, TypeOK, CallArgs, TypeInv
<1>5. CASE PutNode(c)
  <2>1. PICK n \in Nodes : /\ nodes' = nodes \cup {n}
                           /\ session' = [session EXCEPT ![c].putNodes = Remembered(@ \cup {n})]
    BY <1>5 DEF PutNode
  <2>2. Remembered(session[c].putNodes \cup {n}) \in SUBSET Nodes
    BY <1>0, SessionTypes DEF Remembered
  <2>3. session' \in [Clients -> Sessions]
    BY <1>0, <2>1, <2>2, SessionRecords
  <2> QED
    BY <1>0, <1>5, <2>1, <2>3 DEF PutNode, TypeOK, CallArgs, TypeInv
<1>6. CASE StoreFails(c)
  <2>1. session' \in [Clients -> Sessions]
    BY <1>0, <1>6, PlanTypes, SessionRecords DEF StoreFails
  <2> QED
    BY <1>0, <1>c, <1>6, <2>1 DEF StoreFails, TypeOK, CallArgs, TypeInv
<1>7. CASE Crash(c)
  BY <1>0, <1>c, <1>7, FreshType DEF Crash, TypeOK, CallArgs, TypeInv
<1> QED
  BY <1>1, <1>2, <1>3, <1>4, <1>5, <1>6, <1>7 DEF PutStep

(* Refs and the lease: no call changes. *)
LEMMA TypeRef ==
  ASSUME TypeInv, NEW c \in Clients, RefStep(c)
  PROVE  TypeInv'
<1> USE DEF kvVars
<1>0. /\ TypeOK /\ session[c] \in Sessions /\ session \in [Clients -> Sessions]
      /\ UNCHANGED <<call, uploads>>
  BY DEF TypeInv, TypeOK, RefStep, GetRef, CompareAndSwapRef, CompareAndSwapRefFenced, SetRef,
         DeleteRef, DeleteRefFenced, RemoveRef, AcquireLease, ReleaseLease
<1>1. CallArgs'
  BY <1>0 DEF CallArgs, TypeInv
<1>2. ASSUME NEW r \in Refs, NEW how \in Since, RefWritten(c, r, how)
      PROVE  session' \in [Clients -> Sessions]
  <2>1. \A d \in Clients : \A h \in Since : \A p \in Plans :
          [session[d] EXCEPT !.since = h, !.plan = p] \in Sessions
    BY <1>0, SessionRecords
  <2>2. ASSUME NEW d \in Clients
        PROVE  /\ (IF session[d].ref = r /\ session[d].since # "deleted"
                   THEN how ELSE session[d].since) \in Since
               /\ (IF d = c THEN Forgotten(session[d].plan) ELSE session[d].plan) \in Plans
    BY <1>0, PlanTypes, SessionTypes DEF Forgotten
  <2> QED
    BY <1>2, <2>1, <2>2 DEF RefWritten
<1>3. CASE GetRef(c)
  <2>1. PICK r \in Refs :
          session' = [session EXCEPT ![c] =
                        [@ EXCEPT !.ref = r, !.seen = refs[r].version, !.since = "nothing"]]
    BY <1>3 DEF GetRef
  <2>2. refs[r].version \in 0..MaxVersion
    BY <1>0 DEF TypeOK
  <2>3. session' \in [Clients -> Sessions]
    BY <1>0, <2>1, <2>2, SessionRecords
  <2> QED
    BY <1>0, <1>1, <1>3, <2>3 DEF GetRef, TypeOK, TypeInv
<1>4. CASE SetRef(c)
  <2>1. session[c].ref \in Refs
    BY <1>0, SessionTypes
  <2>2. PICK n \in Nodes :
          refs' = [refs EXCEPT ![session[c].ref] =
                     [node |-> n, version |-> refs[session[c].ref].version + 1]]
    BY <1>4 DEF SetRef
  <2>3. refs[session[c].ref].version + 1 \in 0..MaxVersion
    <3>1. refs[session[c].ref].version \in 0..MaxVersion
      BY <1>0, <2>1 DEF TypeOK
    <3> QED
      BY <1>4, <3>1, CapsAssumption DEF SetRef
  <2>4. session' \in [Clients -> Sessions]
    BY <1>2, <1>4, <2>1 DEF SetRef, Since
  <2> QED
    BY <1>0, <1>1, <1>4, <2>2, <2>3, <2>4 DEF SetRef, TypeOK, TypeInv
<1>5. CASE RemoveRef(c)
  <2>1. session' \in [Clients -> Sessions]
    BY <1>0, <1>2, <1>5, SessionTypes DEF RemoveRef, Since
  <2>2. NoRef \in [node: Nodes \cup {NoNode}, version: 0..MaxVersion]
    BY CapsAssumption DEF NoRef
  <2> QED
    BY <1>0, <1>1, <1>5, <2>1, <2>2 DEF RemoveRef, TypeOK, TypeInv
<1>6. CASE AcquireLease(c)
  <2>1. lease + 1 \in 0..MaxToken
    BY <1>0, <1>6, CapsAssumption DEF AcquireLease, NextToken, TypeOK
  <2>2. Forgotten(session[c].plan) \in Plans
    BY <1>0, PlanTypes, SessionTypes DEF Forgotten
  <2>3. session' \in [Clients -> Sessions]
    BY <1>0, <1>6, <2>1, <2>2, SessionRecords DEF AcquireLease, NextToken
  <2> QED
    BY <1>0, <1>1, <1>6, <2>1, <2>3 DEF AcquireLease, NextToken, TypeOK, TypeInv
<1>7. CASE ReleaseLease(c)
  <2>1. 0 \in 0..MaxToken
    BY CapsAssumption
  <2>2. session' \in [Clients -> Sessions]
    BY <1>0, <1>7, <2>1, SessionRecords DEF ReleaseLease
  <2> QED
    BY <1>0, <1>1, <1>7, <2>1, <2>2 DEF ReleaseLease, TypeOK, TypeInv
<1> QED
  BY <1>3, <1>4, <1>5, <1>6, <1>7
     DEF RefStep, CompareAndSwapRef, CompareAndSwapRefFenced, DeleteRef, DeleteRefFenced

(* Plans, sweeps: the calls and sessions they make, action by action. *)
LEMMA TypeGC ==
  ASSUME TypeInv, NEW c \in Clients, GCStep(c)
  PROVE  TypeInv'
<1> USE DEF kvVars
<1>0. /\ TypeOK /\ CallArgs /\ call[c] \in Calls /\ session[c] \in Sessions
      /\ call \in [Clients -> Calls] /\ session \in [Clients -> Sessions]
      /\ session[c].plan \in Plans /\ session[c].left \in Plans
  BY SessionTypes DEF TypeInv, TypeOK
<1>1. UNCHANGED <<uploads, refs, lease>>
  BY DEF GCStep, PlanRoots, PlanWalk, PlanNodes, PlanBlobs, SweepGCFenced, SweepBody, SweepDone,
         SweepGC, SweepGCNode, SweepGCManifest, SweepGCBody, SweepGCDone
<1>2. ASSUME NEW r \in Calls, call' = [call EXCEPT ![c] = r], r.pc \notin {"publish", "discard"}
      PROVE  call' \in [Clients -> Calls] /\ CallArgs'
  BY <1>0, <1>1, <1>2 DEF CallArgs
<1>3. ASSUME NEW s \in Sessions, session' = [session EXCEPT ![c] = s]
      PROVE  session' \in [Clients -> Sessions]
  BY <1>0, <1>3
<1>4. \A hs : Unlisted(hs) \in [Hashes -> 0..MaxObject]
  BY <1>0, CapsAssumption DEF Unlisted, TypeOK
<1>5. ASSUME call' \in [Clients -> Calls], CallArgs', session' \in [Clients -> Sessions],
             objects' \in [Objects -> Hashes \cup {NoHash}],
             manifests' \in [Hashes -> 0..MaxObject], nodes' \subseteq Nodes
      PROVE  TypeInv'
  BY <1>0, <1>1, <1>5 DEF TypeOK, TypeInv
<1>6. CASE PlanRoots(c)
  <2>1. {refs[r].node : r \in Refs} \ {NoNode} \in SUBSET Nodes
    BY <1>0 DEF TypeOK
  <2>2. PICK f \in SUBSET Nodes :
          call' = [call EXCEPT ![c] = [Idle EXCEPT !.pc = "walk", !.front = f]]
    BY <1>6, <2>1 DEF PlanRoots
  <2>3. call' \in [Clients -> Calls] /\ CallArgs'
    BY <1>2, <2>2, CallRoots, IdleType
  <2>4. session' \in [Clients -> Sessions]
    BY <1>0, <1>6, PlanTypes, SessionRecords DEF PlanRoots
  <2> QED
    BY <1>0, <1>5, <1>6, <2>3, <2>4 DEF PlanRoots, TypeOK
<1>7. CASE PlanWalk(c)
  <2>1. PICK n \in call[c].front :
          call' = [call EXCEPT ![c] =
                     IF n \in nodes
                     THEN [call[c] EXCEPT !.reached = call[c].reached \cup {n},
                                          !.front = (call[c].front \cup ChildrenOf[n])
                                                      \ (call[c].reached \cup {n})]
                     ELSE Idle]
    BY <1>0, <1>7 DEF PlanWalk, Below
  <2>2. /\ n \in Nodes
        /\ call[c].reached \cup {n} \in SUBSET Nodes
        /\ (call[c].front \cup ChildrenOf[n]) \ (call[c].reached \cup {n}) \in SUBSET Nodes
    BY <1>0, <2>1, CallTypes, GraphAssumption
  <2>3. Idle.pc \notin {"publish", "discard"} /\ Idle \in Calls
    BY IdleType DEF Idle
  <2>4. PICK r \in Calls : call' = [call EXCEPT ![c] = r] /\ r.pc \notin {"publish", "discard"}
    <3>1. ASSUME NEW q \in SUBSET Nodes, NEW f \in SUBSET Nodes
          PROVE  LET r == [call[c] EXCEPT !.reached = q, !.front = f]
                 IN  r \in Calls /\ r.pc = call[c].pc
      BY <1>0 DEF Calls
    <3>2. call[c].pc = "walk"
      BY <1>7 DEF PlanWalk
    <3>3. CASE n \in nodes
      BY <2>1, <2>2, <3>1, <3>2, <3>3
    <3>4. CASE n \notin nodes
      BY <2>1, <2>3, <3>4
    <3> QED
      BY <3>3, <3>4
  <2>5. call' \in [Clients -> Calls] /\ CallArgs'
    BY <1>2, <2>4
  <2> QED
    BY <1>0, <1>5, <1>7, <2>5 DEF PlanWalk, TypeOK
<1>8. CASE PlanNodes(c)
  <2>1. call' \in [Clients -> Calls] /\ CallArgs'
    BY <1>0, <1>2, <1>8, CallAt DEF PlanNodes
  <2>2. nodes \ call[c].reached \in SUBSET Nodes
    BY <1>0 DEF TypeOK
  <2>3. [session[c].plan EXCEPT !.nodes = nodes \ call[c].reached] \in Plans
    BY <1>0, <2>2, PlanTypes
  <2>4. session' = [session EXCEPT ![c] =
                      [session[c] EXCEPT !.plan =
                         [session[c].plan EXCEPT !.nodes = nodes \ call[c].reached]]]
    BY <1>8 DEF PlanNodes
  <2>5. session' \in [Clients -> Sessions]
    BY <1>0, <1>3, <2>3, <2>4, SessionRecords
  <2> QED
    BY <1>0, <1>5, <1>8, <2>1, <2>5 DEF PlanNodes, TypeOK
<1>9. CASE PlanBlobs(c)
  <2>1. call' \in [Clients -> Calls] /\ CallArgs'
    BY <1>2, <1>9, IdleType DEF PlanBlobs, Idle
  <2>2. {<<h, manifests[h]>> : h \in {g \in Hashes \ ReachedBlobs(c) : manifests[g] # 0}}
          \in SUBSET (Hashes \X Objects)
    BY <1>0 DEF TypeOK, Objects
  <2>3. PICK B \in SUBSET (Hashes \X Objects) :
          session' = [session EXCEPT ![c] =
                        [session[c] EXCEPT !.plan = [session[c].plan EXCEPT !.blobs = B]]]
    BY <1>9, <2>2 DEF PlanBlobs
  <2>4. [session[c].plan EXCEPT !.blobs = B] \in Plans
    BY <1>0, <2>3, PlanTypes
  <2>5. session' \in [Clients -> Sessions]
    BY <1>0, <1>3, <2>3, <2>4, SessionRecords
  <2> QED
    BY <1>0, <1>5, <1>9, <2>1, <2>5 DEF PlanBlobs, TypeOK
<1>10. CASE SweepGCFenced(c)
  <2>1. call' \in [Clients -> Calls] /\ CallArgs'
    BY <1>0, <1>2, <1>10, CallAt DEF SweepGCFenced
  <2>2. [NoPlan EXCEPT !.blobs = session[c].plan.blobs] \in Plans
    BY <1>0, PlanTypes
  <2>3. session' \in [Clients -> Sessions]
    BY <1>0, <1>10, <2>2, SessionRecords DEF SweepGCFenced
  <2> QED
    BY <1>0, <1>4, <1>5, <1>10, <2>1, <2>3 DEF SweepGCFenced, TypeOK
<1>11. CASE SweepBody(c)
  <2>1. PICK b \in session[c].left.blobs :
          /\ objects' = [objects EXCEPT ![b[2]] = NoHash]
          /\ session' = [session EXCEPT ![c] = [session[c] EXCEPT !.left =
                           [session[c].left EXCEPT !.blobs = session[c].left.blobs \ {b}]]]
    BY <1>11 DEF SweepBody
  <2>2. session[c].left.blobs \ {b} \in SUBSET (Hashes \X Objects)
    BY <1>0, PlanTypes
  <2>3. [session[c].left EXCEPT !.blobs = session[c].left.blobs \ {b}] \in Plans
    BY <1>0, <2>2, PlanTypes
  <2>4. session' \in [Clients -> Sessions]
    BY <1>0, <1>3, <2>1, <2>3, SessionRecords
  <2>5. call' \in [Clients -> Calls] /\ CallArgs'
    BY <1>0, <1>1, <1>11 DEF SweepBody, CallArgs
  <2> QED
    BY <1>0, <1>5, <1>11, <2>1, <2>4, <2>5 DEF SweepBody, TypeOK
<1>12. CASE SweepDone(c) \/ SweepGCDone(c)
  <2>1. call' \in [Clients -> Calls] /\ CallArgs'
    BY <1>2, <1>12, IdleType DEF SweepDone, SweepGCDone, Idle
  <2> QED
    BY <1>0, <1>5, <1>12, <2>1 DEF SweepDone, SweepGCDone, TypeOK
<1>13. CASE SweepGC(c)
  <2>1. call' \in [Clients -> Calls] /\ CallArgs'
    BY <1>0, <1>2, <1>13, CallAt DEF SweepGC
  <2>2. session' \in [Clients -> Sessions]
    BY <1>0, <1>13, SessionRecords DEF SweepGC
  <2> QED
    BY <1>0, <1>5, <1>13, <2>1, <2>2 DEF SweepGC, TypeOK
<1>14. CASE SweepGCNode(c)
  <2>1. PICK n \in session[c].left.nodes :
          /\ nodes' = nodes \ {n}
          /\ session' = [session EXCEPT ![c] = [session[c] EXCEPT !.left =
                           [session[c].left EXCEPT !.nodes = session[c].left.nodes \ {n}]]]
    BY <1>14 DEF SweepGCNode
  <2>2. session[c].left.nodes \ {n} \in SUBSET Nodes
    BY <1>0, PlanTypes
  <2>3. [session[c].left EXCEPT !.nodes = session[c].left.nodes \ {n}] \in Plans
    BY <1>0, <2>2, PlanTypes
  <2>4. session' \in [Clients -> Sessions]
    BY <1>0, <1>3, <2>1, <2>3, SessionRecords
  <2>5. call' \in [Clients -> Calls] /\ CallArgs'
    BY <1>0, <1>1, <1>14 DEF SweepGCNode, CallArgs
  <2> QED
    BY <1>0, <1>5, <1>14, <2>1, <2>4, <2>5 DEF SweepGCNode, TypeOK
<1>15. CASE SweepGCManifest(c)
  <2>1. PICK b \in session[c].left.blobs :
          /\ manifests' = Unlisted({b[1]})
          /\ call' = [call EXCEPT ![c] = [call[c] EXCEPT !.object = b[2]]]
          /\ session' = [session EXCEPT ![c] = [session[c] EXCEPT !.left =
                           [session[c].left EXCEPT !.blobs = session[c].left.blobs \ {b}]]]
    BY <1>15 DEF SweepGCManifest
  <2>2. /\ session[c].left.blobs \ {b} \in SUBSET (Hashes \X Objects)
        /\ b[2] \in 0..MaxObject
    BY <1>0, <2>1, PlanTypes DEF Objects
  <2>3. [session[c].left EXCEPT !.blobs = session[c].left.blobs \ {b}] \in Plans
    BY <1>0, <2>2, PlanTypes
  <2>4. session' \in [Clients -> Sessions]
    BY <1>0, <1>3, <2>1, <2>3, SessionRecords
  <2>5. call' \in [Clients -> Calls] /\ CallArgs'
    BY <1>0, <1>2, <1>15, <2>1, <2>2, CallObject DEF SweepGCManifest
  <2> QED
    BY <1>0, <1>4, <1>5, <1>15, <2>1, <2>4, <2>5 DEF SweepGCManifest, TypeOK
<1>16. CASE SweepGCBody(c)
  <2>1. 0 \in 0..MaxObject
    BY CapsAssumption
  <2>2. call' \in [Clients -> Calls] /\ CallArgs'
    BY <1>0, <1>2, <1>16, <2>1, CallObject DEF SweepGCBody
  <2> QED
    BY <1>0, <1>5, <1>16, <2>2 DEF SweepGCBody, TypeOK
<1> QED
  BY <1>6, <1>7, <1>8, <1>9, <1>10, <1>11, <1>12, <1>13, <1>14, <1>15, <1>16 DEF GCStep

LEMMA TypeInvariance == Spec => []TypeInv
<1>1. TypeInv /\ [Next]_vars => TypeInv'
  <2>1. CASE UNCHANGED vars
    BY <2>1 DEF vars, TypeInv, TypeOK, CallArgs
  <2> QED
    BY <2>1, TypePut, TypeRef, TypeGC DEF Next
<1> QED
  BY <1>1, TypeInit, PTL DEF Spec

(* Every store, call and session keeps its type under every operation. *)
THEOREM TypeCorrect == Spec => []TypeOK
BY TypeInvariance, PTL DEF TypeInv

-----------------------------------------------------------------------------
(* What a step leaves alone *)

Step(c) == PutStep(c) \/ RefStep(c) \/ GCStep(c) \/ StoreFails(c) \/ Crash(c)

(* What the invariants know of a session, but for its puts. *)
Kept(d) ==
  /\ session'[d].token = session[d].token
  /\ session'[d].putNodes = session[d].putNodes /\ session'[d].putBlobs = session[d].putBlobs
  /\ session'[d].plan = session[d].plan /\ session'[d].left = session[d].left

(* The parts of a session that the invariants name. *)
Fields(z, token, putNodes, putBlobs, plan, left) ==
  /\ z.token = token /\ z.putNodes = putNodes /\ z.putBlobs = putBlobs
  /\ z.plan = plan /\ z.left = left

SameRef(s, z) == z.ref = s.ref /\ z.seen = s.seen /\ z.since = s.since

LEMMA TokenFields ==
  ASSUME NEW s \in Sessions, NEW v
  PROVE  LET z == [s EXCEPT !.token = v]
         IN  Fields(z, v, s.putNodes, s.putBlobs, s.plan, s.left) /\ SameRef(s, z)
BY DEF Sessions, Fields, SameRef

LEMMA PutNodesFields ==
  ASSUME NEW s \in Sessions, NEW v
  PROVE  LET z == [s EXCEPT !.putNodes = v]
         IN  Fields(z, s.token, v, s.putBlobs, s.plan, s.left) /\ SameRef(s, z)
BY DEF Sessions, Fields, SameRef

LEMMA PutBlobsFields ==
  ASSUME NEW s \in Sessions, NEW v
  PROVE  LET z == [s EXCEPT !.putBlobs = v]
         IN  Fields(z, s.token, s.putNodes, v, s.plan, s.left) /\ SameRef(s, z)
BY DEF Sessions, Fields, SameRef

LEMMA PlanFields ==
  ASSUME NEW s \in Sessions, NEW v
  PROVE  LET z == [s EXCEPT !.plan = v]
         IN  Fields(z, s.token, s.putNodes, s.putBlobs, v, s.left) /\ SameRef(s, z)
BY DEF Sessions, Fields, SameRef

LEMMA LeftFields ==
  ASSUME NEW s \in Sessions, NEW v
  PROVE  LET z == [s EXCEPT !.left = v]
         IN  Fields(z, s.token, s.putNodes, s.putBlobs, s.plan, v) /\ SameRef(s, z)
BY DEF Sessions, Fields, SameRef

LEMMA SweepFields ==
  ASSUME NEW s \in Sessions, NEW v
  PROVE  LET z == [s EXCEPT !.left = v, !.putNodes = {}, !.putBlobs = {}]
         IN  Fields(z, s.token, {}, {}, s.plan, v) /\ SameRef(s, z)
BY DEF Sessions, Fields, SameRef

(* The session of a client after its step. *)
Becomes(c, token, putNodes, putBlobs, plan, left) ==
  Fields(session'[c], token, putNodes, putBlobs, plan, left) /\ SameRef(session[c], session'[c])

LEMMA PutBlobPublishOwn ==
  ASSUME TypeOK, NEW c \in Clients, PutBlobPublish(c)
  PROVE  Becomes(c, session[c].token, session[c].putNodes,
                 Remembered(session[c].putBlobs \cup {call[c].hash}), session[c].plan,
                 session[c].left)
<1>1. session[c] \in Sessions
  BY DEF TypeOK
<1>2. session'[c] = [session[c] EXCEPT
                       !.putBlobs = Remembered(session[c].putBlobs \cup {call[c].hash})]
  BY DEF TypeOK, PutBlobPublish
<1> QED
  BY <1>1, <1>2, PutBlobsFields DEF Becomes

LEMMA StoreFailsOwn ==
  ASSUME TypeOK, NEW c \in Clients, StoreFails(c)
  PROVE  Becomes(c, session[c].token, session[c].putNodes, session[c].putBlobs,
                 session[c].plan, NoPlan)
<1>1. session[c] \in Sessions
  BY DEF TypeOK
<1>2. session'[c] = [session[c] EXCEPT !.left = NoPlan]
  BY DEF TypeOK, StoreFails
<1> QED
  BY <1>1, <1>2, LeftFields DEF Becomes

LEMMA AcquireLeaseOwn ==
  ASSUME TypeOK, NEW c \in Clients, AcquireLease(c)
  PROVE  Becomes(c, lease + 1, {}, {}, Forgotten(session[c].plan),
                 session[c].left)
<1>1. session[c] \in Sessions
  BY DEF TypeOK
<1>2. session'[c] = [session[c] EXCEPT !.token = lease + 1, !.putNodes = {}, !.putBlobs = {},
                                       !.plan = Forgotten(session[c].plan)]
  BY DEF TypeOK, AcquireLease, NextToken
<1> QED
  BY <1>1, <1>2 DEF Becomes, Fields, SameRef, Sessions

LEMMA ReleaseLeaseOwn ==
  ASSUME TypeOK, NEW c \in Clients, ReleaseLease(c)
  PROVE  Becomes(c, 0, session[c].putNodes, session[c].putBlobs, session[c].plan,
                 session[c].left)
<1>1. session[c] \in Sessions
  BY DEF TypeOK
<1>2. session'[c] = [session[c] EXCEPT !.token = 0]
  BY DEF TypeOK, ReleaseLease
<1> QED
  BY <1>1, <1>2, TokenFields DEF Becomes

LEMMA PlanRootsOwn ==
  ASSUME TypeOK, NEW c \in Clients, PlanRoots(c)
  PROVE  Becomes(c, session[c].token, session[c].putNodes, session[c].putBlobs, NoPlan,
                 session[c].left)
<1>1. session[c] \in Sessions
  BY DEF TypeOK
<1>2. session'[c] = [session[c] EXCEPT !.plan = NoPlan]
  BY DEF TypeOK, PlanRoots
<1> QED
  BY <1>1, <1>2, PlanFields DEF Becomes

LEMMA PlanNodesOwn ==
  ASSUME TypeOK, NEW c \in Clients, PlanNodes(c)
  PROVE  Becomes(c, session[c].token, session[c].putNodes, session[c].putBlobs,
     [session[c].plan EXCEPT !.nodes = nodes \ call[c].reached], session[c].left)
<1>1. session[c] \in Sessions
  BY DEF TypeOK
<1>2. session'[c] = [session[c] EXCEPT !.plan =
     [session[c].plan EXCEPT !.nodes = nodes \ call[c].reached]]
  BY DEF TypeOK, PlanNodes
<1> QED
  BY <1>1, <1>2, PlanFields DEF Becomes

LEMMA PlanBlobsOwn ==
  ASSUME TypeOK, NEW c \in Clients, PlanBlobs(c)
  PROVE  Becomes(c, session[c].token, session[c].putNodes, session[c].putBlobs,
     [session[c].plan EXCEPT !.blobs =
     {<<h, manifests[h]>> : h \in {g \in Hashes \ ReachedBlobs(c) : manifests[g] # 0}}],
                 session[c].left)
<1>1. session[c] \in Sessions
  BY DEF TypeOK
<1>2. session'[c] = [session[c] EXCEPT !.plan =
     [session[c].plan EXCEPT !.blobs =
     {<<h, manifests[h]>> : h \in {g \in Hashes \ ReachedBlobs(c) : manifests[g] # 0}}]]
  BY DEF TypeOK, PlanBlobs
<1> QED
  BY <1>1, <1>2, PlanFields DEF Becomes

LEMMA SweepGCFencedOwn ==
  ASSUME TypeOK, NEW c \in Clients, SweepGCFenced(c)
  PROVE  Becomes(c, session[c].token, {}, {}, session[c].plan,
                 [NoPlan EXCEPT !.blobs = session[c].plan.blobs])
<1>1. session[c] \in Sessions
  BY DEF TypeOK
<1>2. session'[c] = [session[c] EXCEPT !.left = [NoPlan EXCEPT !.blobs = session[c].plan.blobs],
     !.putNodes = {}, !.putBlobs = {}]
  BY DEF TypeOK, SweepGCFenced
<1> QED
  BY <1>1, <1>2, SweepFields DEF Becomes

LEMMA SweepGCOwn ==
  ASSUME TypeOK, NEW c \in Clients, SweepGC(c)
  PROVE  Becomes(c, session[c].token, session[c].putNodes, session[c].putBlobs,
                 session[c].plan, session[c].plan)
<1>1. session[c] \in Sessions
  BY DEF TypeOK
<1>2. session'[c] = [session[c] EXCEPT !.left = session[c].plan]
  BY DEF TypeOK, SweepGC
<1> QED
  BY <1>1, <1>2, LeftFields DEF Becomes

LEMMA PutNodeOwn ==
  ASSUME TypeOK, NEW c \in Clients, PutNode(c)
  PROVE  \E n \in Nodes :
           /\ nodes' = nodes \cup {n}
           /\ Becomes(c, session[c].token, Remembered(session[c].putNodes \cup {n}),
                      session[c].putBlobs, session[c].plan, session[c].left)
<1>1. session[c] \in Sessions
  BY DEF TypeOK
<1>2. PICK n \in Nodes :
        /\ nodes' = nodes \cup {n}
        /\ session'[c] = [session[c] EXCEPT !.putNodes = Remembered(session[c].putNodes \cup {n})]
  BY DEF TypeOK, PutNode
<1>3. Becomes(c, session[c].token, Remembered(session[c].putNodes \cup {n}), session[c].putBlobs,
              session[c].plan, session[c].left)
  BY <1>1, <1>2, PutNodesFields DEF Becomes
<1> QED
  BY <1>2, <1>3

(* A sweep goes on: what it has left to delete shrinks. *)
LEMMA SweepOwn ==
  ASSUME TypeOK, NEW c \in Clients, SweepBody(c) \/ SweepGCNode(c) \/ SweepGCManifest(c)
  PROVE  \E l \in Plans :
           /\ l.nodes \subseteq session[c].left.nodes /\ l.blobs \subseteq session[c].left.blobs
           /\ Becomes(c, session[c].token, session[c].putNodes, session[c].putBlobs,
                      session[c].plan, l)
<1>1. session[c] \in Sessions /\ session[c].left \in Plans
  BY SessionTypes DEF TypeOK
<1>2. PICK l \in Plans : /\ l.nodes \subseteq session[c].left.nodes
                         /\ l.blobs \subseteq session[c].left.blobs
                         /\ session'[c] = [session[c] EXCEPT !.left = l]
  <2>1. CASE SweepGCNode(c)
    <3>1. PICK n : session'[c] = [session[c] EXCEPT !.left =
                       [session[c].left EXCEPT !.nodes = session[c].left.nodes \ {n}]]
      BY <2>1 DEF TypeOK, SweepGCNode
    <3> QED
      BY <1>1, <3>1 DEF Plans
  <2>2. CASE SweepBody(c) \/ SweepGCManifest(c)
    <3>1. PICK b : session'[c] = [session[c] EXCEPT !.left =
                       [session[c].left EXCEPT !.blobs = session[c].left.blobs \ {b}]]
      BY <2>2 DEF TypeOK, SweepBody, SweepGCManifest
    <3> QED
      BY <1>1, <3>1 DEF Plans
  <2> QED
    BY <2>1, <2>2
<1>3. Becomes(c, session[c].token, session[c].putNodes, session[c].putBlobs,
              session[c].plan, l)
  BY <1>1, <1>2, LeftFields DEF Becomes
<1> QED
  BY <1>2, <1>3

(* A ref is written: a disciplined writer's plan goes, the rest stays. *)
LEMMA WrittenSessions ==
  ASSUME TypeOK, NEW c \in Clients, NEW r \in Refs, NEW how, RefWritten(c, r, how),
         NEW d \in Clients
  PROVE  /\ session'[d].token = session[d].token
         /\ session'[d].putNodes = session[d].putNodes
         /\ session'[d].putBlobs = session[d].putBlobs
         /\ session'[d].plan = (IF d = c THEN Forgotten(session[d].plan) ELSE session[d].plan)
         /\ session'[d].left = session[d].left
         /\ session'[d].ref = session[d].ref /\ session'[d].seen = session[d].seen
         /\ session'[d].since = (IF session[d].ref = r /\ session[d].since # "deleted"
                                 THEN how ELSE session[d].since)
<1>1. session[d] \in Sessions
  BY DEF TypeOK
<1>2. session'[d] = [session[d] EXCEPT
                       !.since = IF session[d].ref = r /\ session[d].since # "deleted"
                                 THEN how ELSE session[d].since,
                       !.plan = IF d = c THEN Forgotten(session[d].plan) ELSE session[d].plan]
  BY DEF RefWritten
<1> QED
  BY <1>1, <1>2 DEF Sessions

(* The step of a client leaves the calls and sessions of the others. *)
LEMMA OthersKept ==
  ASSUME TypeOK, NEW c \in Clients, Step(c), NEW d \in Clients \ {c}
  PROVE  call'[d] = call[d] /\ Kept(d)
<1>0. /\ call \in [Clients -> Calls] /\ session \in [Clients -> Sessions]
      /\ \A e \in Clients : session[e].ref \in Refs
  BY SessionTypes DEF TypeOK
<1>1. ASSUME call'[d] = call[d], session'[d] = session[d] PROVE call'[d] = call[d] /\ Kept(d)
  BY <1>1 DEF Kept
<1>2. CASE PutStep(c) \/ StoreFails(c) \/ Crash(c)
  BY <1>0, <1>1, <1>2 DEF PutStep, PutBlobUpload, PutBlobPublish, PutBlobFails, PutBlobDiscard,
     PutNode, StoreFails, Crash
<1>3. CASE GetRef(c) \/ AcquireLease(c) \/ ReleaseLease(c)
  BY <1>0, <1>1, <1>3 DEF GetRef, AcquireLease, ReleaseLease
<1>4. CASE SetRef(c) \/ RemoveRef(c)
  <2>1. UNCHANGED call /\ \E how \in Since : RefWritten(c, session[c].ref, how)
    BY <1>4 DEF SetRef, RemoveRef, Since
  <2> QED
    BY <1>0, <2>1, WrittenSessions DEF Kept
<1>5. CASE RefStep(c)
  BY <1>3, <1>4, <1>5 DEF RefStep, CompareAndSwapRef, CompareAndSwapRefFenced, DeleteRef,
     DeleteRefFenced
<1>6. CASE PlanRoots(c) \/ PlanWalk(c) \/ PlanNodes(c) \/ PlanBlobs(c)
  BY <1>0, <1>1, <1>6 DEF PlanRoots, PlanWalk, PlanNodes, PlanBlobs
<1>7. CASE SweepGCFenced(c) \/ SweepBody(c) \/ SweepDone(c)
  BY <1>0, <1>1, <1>7 DEF SweepGCFenced, SweepBody, SweepDone
<1>8. CASE SweepGC(c) \/ SweepGCNode(c) \/ SweepGCManifest(c) \/ SweepGCBody(c) \/ SweepGCDone(c)
  BY <1>0, <1>1, <1>8 DEF SweepGC, SweepGCNode, SweepGCManifest, SweepGCBody, SweepGCDone
<1> QED
  BY <1>2, <1>5, <1>6, <1>7, <1>8 DEF Step, GCStep

(* Most steps leave what GetRef saw, and every token, alone. *)
LEMMA OwnKept ==
  ASSUME TypeOK, NEW c \in Clients, Step(c), ~GetRef(c), ~SetRef(c), ~RemoveRef(c), ~Crash(c)
  PROVE  /\ SameRef(session[c], session'[c])
         /\ ~AcquireLease(c) /\ ~ReleaseLease(c) => session'[c].token = session[c].token
<1> USE DEF Becomes, Fields
<1>1. CASE UNCHANGED session
  BY <1>1 DEF SameRef
<1>2. CASE PutStep(c) \/ StoreFails(c)
  <2>1. PutStep(c) /\ ~PutBlobPublish(c) /\ ~PutNode(c) => UNCHANGED session
    BY DEF PutStep, PutBlobUpload, PutBlobFails, PutBlobDiscard
  <2> QED
    BY <1>1, <1>2, <2>1, PutBlobPublishOwn, PutNodeOwn, StoreFailsOwn
<1>3. CASE AcquireLease(c) \/ ReleaseLease(c)
  BY <1>3, AcquireLeaseOwn, ReleaseLeaseOwn
<1>4. CASE PlanRoots(c) \/ PlanWalk(c) \/ PlanNodes(c) \/ PlanBlobs(c)
  BY <1>1, <1>4, PlanRootsOwn, PlanNodesOwn, PlanBlobsOwn DEF PlanWalk
<1>5. CASE SweepGCFenced(c) \/ SweepBody(c) \/ SweepDone(c)
  BY <1>1, <1>5, SweepGCFencedOwn, SweepOwn DEF SweepDone
<1>6. CASE SweepGC(c) \/ SweepGCNode(c) \/ SweepGCManifest(c) \/ SweepGCBody(c) \/ SweepGCDone(c)
  BY <1>1, <1>6, SweepGCOwn, SweepOwn DEF SweepGCBody, SweepGCDone
<1> QED
  BY <1>2, <1>3, <1>4, <1>5, <1>6
     DEF Step, GCStep, RefStep, CompareAndSwapRef, CompareAndSwapRefFenced, DeleteRef,
         DeleteRefFenced

(* Tokens change with the lease, and are forgotten in a crash. *)
LEMMA TokensKept ==
  ASSUME TypeOK, NEW c \in Clients, Step(c), ~AcquireLease(c), ~ReleaseLease(c), ~Crash(c)
  PROVE  session'[c].token = session[c].token /\ UNCHANGED lease
<1>0. session \in [Clients -> Sessions] /\ session[c] \in Sessions /\ session[c].ref \in Refs
  BY SessionTypes DEF TypeOK
<1>1. UNCHANGED lease
  BY DEF Step, PutStep, RefStep, GCStep, PutBlobUpload, PutBlobPublish, PutBlobFails,
     PutBlobDiscard, PutNode, GetRef, CompareAndSwapRef, CompareAndSwapRefFenced, SetRef,
     DeleteRef, DeleteRefFenced, RemoveRef, PlanRoots, PlanWalk, PlanNodes, PlanBlobs,
     SweepGCFenced, SweepBody, SweepDone, SweepGC, SweepGCNode, SweepGCManifest, SweepGCBody,
     SweepGCDone, StoreFails, kvVars
<1>2. CASE GetRef(c)
  BY <1>0, <1>1, <1>2 DEF GetRef, Sessions
<1>3. CASE SetRef(c) \/ RemoveRef(c)
  <2>1. \E how \in Since : RefWritten(c, session[c].ref, how)
    BY <1>3 DEF SetRef, RemoveRef, Since
  <2> QED
    BY <1>0, <1>1, <2>1, WrittenSessions
<1> QED
  BY <1>1, <1>2, <1>3, OwnKept

-----------------------------------------------------------------------------
(* The lease *)

(* Tokens are unique, and none is newer than the lease. *)
FenceInv ==
  /\ \A c \in Clients : session[c].token <= lease
  /\ \A c, d \in Clients : c # d /\ session[c].token = session[d].token => session[c].token = 0

LEMMA FenceInvariance ==
  ASSUME Releases = FALSE
  PROVE  Spec => []FenceInv
<1>1. Init => FenceInv
  <2>1. FreshSession.token = 0
    BY DEF FreshSession
  <2> QED
    BY <2>1 DEF Init, FenceInv
<1>2. ASSUME TypeOK, FenceInv, NEW c \in Clients, Step(c) PROVE FenceInv'
  <2>0. /\ \A d \in Clients : session[d].token \in Nat
        /\ lease \in Nat
    BY <1>2, SessionTypes, CapsAssumption DEF TypeOK
  <2>1. \A d \in Clients \ {c} : session'[d].token = session[d].token
    BY <1>2, OthersKept DEF Kept
  <2>2. CASE AcquireLease(c)
    <3>1. lease' = lease + 1
      BY <2>2 DEF AcquireLease, NextToken
    <3>2. session'[c].token = lease'
      BY <1>2, <2>2 DEF AcquireLease, TypeOK, Sessions
    <3> QED
      BY <1>2, <2>0, <2>1, <3>1, <3>2 DEF FenceInv
  <2>3. CASE Crash(c)
    <3>1. UNCHANGED lease /\ session'[c].token = 0
      BY <1>2, <2>3 DEF Crash, FreshSession, TypeOK, kvVars
    <3> QED
      BY <1>2, <2>0, <2>1, <3>1 DEF FenceInv
  <2>4. CASE ~AcquireLease(c) /\ ~Crash(c)
    <3>1. ~ReleaseLease(c)
      BY DEF ReleaseLease
    <3> QED
      BY <1>2, <2>1, <2>4, <3>1, TokensKept DEF FenceInv
  <2> QED
    BY <2>2, <2>3, <2>4
<1>3. TypeOK /\ FenceInv /\ [Next]_vars => FenceInv'
  BY <1>2 DEF Next, Step, vars, FenceInv
<1> QED
  BY <1>1, <1>3, TypeCorrect, PTL DEF Spec

LEMMA OneHolder ==
  ASSUME FenceInv, NEW c \in Clients, NEW d \in Clients, HoldsFence(c), HoldsFence(d)
  PROVE  c = d
BY DEF FenceInv, HoldsFence

(* As long as nobody releases the lease (ReleaseLease makes the next       *)
(* AcquireLease start over with token 1), two callers never both pass      *)
(* checkFenceTx.                                                           *)
THEOREM FenceExcludes ==
  ASSUME Releases = FALSE
  PROVE  Spec => []OneFenceHolder
<1>1. FenceInv => OneFenceHolder
  BY OneHolder DEF OneFenceHolder
<1> QED
  BY <1>1, FenceInvariance, PTL

-----------------------------------------------------------------------------
(* Versions *)

(* Until its ref is deleted, what GetRef saw is not newer than the ref,    *)
(* and older once the ref was written.                                     *)
Seen(d) ==
  /\ session[d].since # "deleted" => session[d].seen <= refs[session[d].ref].version
  /\ session[d].since = "written" => session[d].seen < refs[session[d].ref].version

SeenInv == \A c \in Clients : Seen(c)

LEMMA SeenInit == Init => SeenInv
<1>1. FreshSession.seen = 0 /\ FreshSession.since = "nothing" /\ FreshSession.ref \in Refs
  BY FreshType DEF FreshSession, Sessions
<1>2. NoRef.version = 0
  BY DEF NoRef
<1> QED
  BY <1>1, <1>2 DEF Init, SeenInv, Seen

LEMMA SeenStep ==
  ASSUME TypeOK, SeenInv, NEW c \in Clients, Step(c)
  PROVE  SeenInv'
<1> USE DEF kvVars
<1>0. /\ session \in [Clients -> Sessions] /\ session[c] \in Sessions /\ session[c].ref \in Refs
      /\ \A d \in Clients : session[d].seen \in Nat /\ session[d].ref \in Refs
      /\ \A r \in Refs : refs[r].version \in Nat
  BY SessionTypes, CapsAssumption DEF TypeOK
<1>1. CASE GetRef(c)
  <2>1. PICK r \in Refs :
          session' = [session EXCEPT ![c] =
                        [@ EXCEPT !.ref = r, !.seen = refs[r].version, !.since = "nothing"]]
    BY <1>1 DEF GetRef
  <2>2. /\ session'[c].ref = r /\ session'[c].seen = refs[r].version
        /\ session'[c].since = "nothing"
    BY <1>0, <2>1 DEF Sessions
  <2>3. UNCHANGED refs /\ \A d \in Clients \ {c} : session'[d] = session[d]
    BY <1>0, <1>1, <2>1 DEF GetRef
  <2> QED
    BY <1>0, <2>1, <2>2, <2>3 DEF SeenInv, Seen
<1>2. CASE SetRef(c)
  <2>1. PICK n : refs' = [refs EXCEPT ![session[c].ref] =
                            [node |-> n, version |-> refs[session[c].ref].version + 1]]
    BY <1>2 DEF SetRef
  <2>2. \A r \in Refs : refs'[r].version = IF r = session[c].ref THEN refs[r].version + 1
                                                                 ELSE refs[r].version
    BY <1>0, <2>1 DEF TypeOK
  <2>3. RefWritten(c, session[c].ref, "written")
    BY <1>2 DEF SetRef
  <2>4. ASSUME NEW d \in Clients PROVE Seen(d)'
    <3>1. /\ session'[d].ref = session[d].ref /\ session'[d].seen = session[d].seen
          /\ session'[d].since =
               (IF session[d].ref = session[c].ref /\ session[d].since # "deleted"
                THEN "written" ELSE session[d].since)
      BY <1>0, <2>3, WrittenSessions
    <3>2. Seen(d)
      BY DEF SeenInv
    <3>3. CASE session[d].ref = session[c].ref
      BY <1>0, <2>2, <3>1, <3>2, <3>3 DEF Seen
    <3>4. CASE session[d].ref # session[c].ref
      BY <1>0, <2>2, <3>1, <3>2, <3>4 DEF Seen
    <3> QED
      BY <3>3, <3>4
  <2> QED
    BY <2>4 DEF SeenInv
<1>3. CASE RemoveRef(c)
  <2>1. \A r \in Refs \ {session[c].ref} : refs'[r] = refs[r]
    BY <1>0, <1>3 DEF RemoveRef, TypeOK
  <2>2. RefWritten(c, session[c].ref, "deleted")
    BY <1>3 DEF RemoveRef
  <2>3. ASSUME NEW d \in Clients PROVE Seen(d)'
    <3>1. /\ session'[d].ref = session[d].ref /\ session'[d].seen = session[d].seen
          /\ session'[d].since =
               (IF session[d].ref = session[c].ref /\ session[d].since # "deleted"
                THEN "deleted" ELSE session[d].since)
      BY <1>0, <2>2, WrittenSessions
    <3>2. CASE session[d].ref = session[c].ref
      <4>1. session'[d].since = "deleted"
        BY <3>1, <3>2
      <4> QED
        BY <4>1 DEF Seen
    <3>3. CASE session[d].ref # session[c].ref
      <4>1. session'[d].since = session[d].since /\ refs'[session[d].ref] = refs[session[d].ref]
        BY <1>0, <2>1, <3>1, <3>3
      <4> QED
        BY <3>1, <4>1 DEF SeenInv, Seen
    <3> QED
      BY <3>2, <3>3
  <2> QED
    BY <2>3 DEF SeenInv
<1>4. CASE Crash(c)
  <2>1. session'[c].seen = 0 /\ session'[c].since = "nothing" /\ session'[c].ref \in Refs
    BY <1>0, <1>4, FreshType DEF Crash, FreshSession, Sessions
  <2>2. UNCHANGED refs /\ \A d \in Clients \ {c} : session'[d] = session[d]
    BY <1>0, <1>4 DEF Crash
  <2> QED
    BY <1>0, <2>1, <2>2 DEF SeenInv, Seen
<1>5. CASE ~GetRef(c) /\ ~SetRef(c) /\ ~RemoveRef(c) /\ ~Crash(c)
  <2>1. UNCHANGED refs /\ \A d \in Clients \ {c} : session'[d] = session[d]
    BY <1>0, <1>5
       DEF Step, PutStep, RefStep, GCStep, PutBlobUpload, PutBlobPublish, PutBlobFails,
       PutBlobDiscard, PutNode, CompareAndSwapRef, CompareAndSwapRefFenced,
       DeleteRef, DeleteRefFenced, AcquireLease, ReleaseLease, PlanRoots, PlanWalk, PlanNodes,
       PlanBlobs, SweepGCFenced, SweepBody, SweepDone, SweepGC, SweepGCNode, SweepGCManifest,
       SweepGCBody, SweepGCDone, StoreFails
  <2>2. SameRef(session[c], session'[c])
    BY <1>5, OwnKept
  <2> QED
    BY <2>1, <2>2 DEF SeenInv, Seen, SameRef
<1> QED
  BY <1>1, <1>2, <1>3, <1>4, <1>5

(* CompareAndSwapRef and DeleteRef, fenced or not, never overwrite a write *)
(* of a ref that the caller's GetRef did not see, whatever the callers do, *)
(* as long as the ref is not deleted in between (its versions then start   *)
(* again from 1).                                                          *)
THEOREM VersionsHideNoWrite == Spec => RefWritesAreCurrent
<1>1. TypeOK /\ SeenInv /\ [Next]_vars => SeenInv'
  BY SeenStep DEF Next, Step, vars, SeenInv, Seen
<1>2. TypeOK /\ SeenInv /\ [Next]_vars =>
        [\A c \in Clients :
           (SetRef(c) \/ RemoveRef(c)) /\ refs[session[c].ref].version # 0
             => session[c].since # "written"]_vars
  <2>1. ASSUME TypeOK, SeenInv, NEW c \in Clients, SetRef(c) \/ RemoveRef(c)
        PROVE  session[c].since # "written"
    <3>1. refs[session[c].ref].version = session[c].seen
      BY <2>1 DEF SetRef, RemoveRef, RefExpected
    <3>2. session[c].seen \in Nat
      BY <2>1, SessionTypes, CapsAssumption DEF TypeOK
    <3> QED
      BY <2>1, <3>1, <3>2 DEF SeenInv, Seen
  <2> QED
    BY <2>1
<1> QED
  BY <1>1, <1>2, SeenInit, TypeCorrect, PTL DEF Spec, RefWritesAreCurrent

-----------------------------------------------------------------------------
(* Complete refs *)

Closed(Q) == \A m \in Q : ChildrenOf[m] \subseteq Q

Rooted(Q) == \A r \in Refs : refs[r].node \in Q \cup {NoNode}

(* A plan that spares a part of the graph which no ref leads out of. *)
SafePlan(p) ==
  \E Q \in SUBSET Nodes :
    /\ Closed(Q) /\ Rooted(Q) /\ p.nodes \cap Q = {}
    /\ \A b \in p.blobs : \A m \in Q : b[1] \notin BlobsOf[m]

(* What the holder of the fence may rely on: what it put is there, its     *)
(* walk missed nothing, its plan is safe.                                  *)
PutInv(c) ==
  session[c].putNodes \subseteq nodes /\ \A h \in session[c].putBlobs : manifests[h] # 0

WalkInv(c) ==
  call[c].pc = "walk" =>
    /\ session[c].plan = NoPlan
    /\ Rooted(call[c].front \cup call[c].reached)
    /\ \A m \in call[c].reached : ChildrenOf[m] \subseteq call[c].front \cup call[c].reached

BlobsInv(c) ==
  call[c].pc = "blobs" =>
    /\ Closed(call[c].reached) /\ Rooted(call[c].reached)
    /\ session[c].plan.nodes \cap call[c].reached = {}

HolderInv(c) == PutInv(c) /\ SafePlan(session[c].plan) /\ WalkInv(c) /\ BlobsInv(c)

TreeInv ==
  /\ \A c \in Clients : HoldsFence(c) => HolderInv(c)
  /\ \A c \in Clients : call[c].pc # "sweep"
  /\ RefsComplete

(* An empty plan is safe. *)
LEMMA EmptyPlanSafe == TypeOK => SafePlan(NoPlan)
<1> SUFFICES ASSUME TypeOK PROVE SafePlan(NoPlan)
  OBVIOUS
<1>1. Closed(Nodes) /\ Rooted(Nodes)
  BY GraphAssumption DEF TypeOK, Closed, Rooted
<1>2. NoPlan.nodes \cap Nodes = {} /\ NoPlan.blobs = {}
  BY DEF NoPlan
<1> QED
  BY <1>1, <1>2 DEF SafePlan

(* The stores grow, the refs and the lease stay. *)
Quiet ==
  /\ nodes \subseteq nodes' /\ \A h \in Hashes : manifests[h] # 0 => manifests'[h] # 0
  /\ UNCHANGED <<refs, lease>>

(* Refs stay complete while the stores grow. *)
LEMMA QuietRefs ==
  ASSUME TypeOK, RefsComplete, Quiet
  PROVE  RefsComplete'
<1> SUFFICES ASSUME NEW r \in Refs, refs[r].version # 0
             PROVE  \E S \in SUBSET nodes' :
                      Covers(refs[r].node, S, {h \in Hashes : manifests'[h] # 0})
  BY DEF Quiet, RefsComplete, Covers
<1>1. PICK S \in SUBSET nodes : Covers(refs[r].node, S, {h \in Hashes : manifests[h] # 0})
  BY DEF RefsComplete
<1>2. S \in SUBSET nodes' /\ Covers(refs[r].node, S, {h \in Hashes : manifests'[h] # 0})
  BY <1>1 DEF Quiet, Covers
<1> QED
  BY <1>2

(* A step that only adds to the stores and keeps a client's plan, its walk *)
(* and what it put, keeps what the client relies on.                       *)
LEMMA QuietHolder ==
  ASSUME TypeInv, Quiet, NEW d \in Clients, HoldsFence(d) => HolderInv(d),
         session'[d].token = session[d].token, session'[d].plan = session[d].plan,
         session'[d].putNodes \subseteq session[d].putNodes \cup nodes',
         \A h \in session'[d].putBlobs : h \in session[d].putBlobs \/ manifests'[h] # 0,
         call'[d] = call[d] \/ call'[d].pc \notin {"walk", "blobs"}
  PROVE  HoldsFence(d)' => HolderInv(d)'
<1> SUFFICES ASSUME HoldsFence(d)' PROVE HolderInv(d)'
  OBVIOUS
<1>1. HolderInv(d)
  BY DEF HoldsFence, Quiet
<1>2. PutInv(d)'
  <2>1. session[d].putBlobs \subseteq Hashes
    BY SessionTypes DEF TypeInv, TypeOK
  <2> QED
    BY <1>1, <2>1 DEF HolderInv, PutInv, Quiet
<1>3. SafePlan(session[d].plan)'
  BY <1>1 DEF HolderInv, SafePlan, Rooted, Quiet
<1>4. WalkInv(d)'
  BY <1>1 DEF HolderInv, WalkInv, Rooted, Quiet
<1>5. BlobsInv(d)'
  BY <1>1 DEF HolderInv, BlobsInv, Rooted, Quiet
<1> QED
  BY <1>2, <1>3, <1>4, <1>5 DEF HolderInv

(* The other clients, when a step only adds to the stores. *)
LEMMA QuietOthers ==
  ASSUME TypeInv, TreeInv, NEW c \in Clients, Step(c), Quiet, NEW d \in Clients \ {c}
  PROVE  HoldsFence(d)' => HolderInv(d)'
<1>1. call'[d] = call[d] /\ Kept(d)
  BY OthersKept DEF TypeInv
<1>2. /\ session'[d].token = session[d].token /\ session'[d].plan = session[d].plan
      /\ session'[d].putNodes \subseteq session[d].putNodes \cup nodes'
      /\ \A h \in session'[d].putBlobs : h \in session[d].putBlobs
  BY <1>1 DEF Kept
<1>3. HoldsFence(d) => HolderInv(d)
  BY DEF TreeInv
<1> QED
  BY <1>1, <1>2, <1>3, QuietHolder

(* Steps that leave the client's plan as it is, or are no part of a plan. *)
LEMMA TreePut ==
  ASSUME TypeInv, TreeInv, NEW c \in Clients,
         PutStep(c) \/ GetRef(c) \/ StoreFails(c) \/ SweepBody(c) \/ SweepDone(c)
  PROVE  TreeInv'
<1> USE DEF kvVars
<1>0. /\ TypeOK /\ CallArgs /\ call \in [Clients -> Calls] /\ session \in [Clients -> Sessions]
      /\ call[c] \in Calls /\ Step(c)
  BY DEF TypeInv, TypeOK, Step, RefStep, GCStep
<1>c. Idle.pc = "idle"
  BY DEF Idle
<1>1. Quiet
  <2>1. CASE PutBlobPublish(c)
    <3>1. call[c].hash \in Hashes /\ call[c].object # 0
      BY <1>0, <2>1, CapsAssumption DEF PutBlobPublish, CallArgs, Objects
    <3> QED
      BY <1>0, <2>1, <3>1 DEF PutBlobPublish, Quiet, TypeOK
  <2>2. CASE ~PutBlobPublish(c)
    BY <2>2 DEF Quiet, PutStep, PutBlobUpload, PutBlobFails, PutBlobDiscard, PutNode, GetRef,
       StoreFails, SweepBody, SweepDone
  <2> QED
    BY <2>1, <2>2
<1>2. /\ call'[c] = call[c] \/ call'[c].pc \notin {"walk", "blobs"}
      /\ call'[c].pc # "sweep"
  <2>0. call[c].pc # "sweep"
    BY DEF TreeInv
  <2>1. CASE PutNode(c) \/ GetRef(c) \/ SweepBody(c)
    BY <2>0, <2>1 DEF PutNode, GetRef, SweepBody
  <2>2. CASE PutBlobUpload(c)
    <3>1. PICK h \in Hashes : call' = [call EXCEPT ![c] =
             [Idle EXCEPT !.pc = "publish", !.hash = h, !.object = uploads + 1]]
      BY <2>2 DEF PutBlobUpload, StagingKey
    <3>2. call'[c].pc = "publish"
      BY <1>0, <3>1, IdleType DEF Calls
    <3> QED
      BY <3>2
  <2>3. CASE PutBlobPublish(c) \/ PutBlobFails(c) \/ PutBlobDiscard(c) \/ StoreFails(c)
             \/ SweepDone(c)
    <3>1. call'[c] = Idle \/ call'[c] = [call[c] EXCEPT !.pc = "discard"]
      BY <1>0, <2>3 DEF PutBlobPublish, PutBlobFails, PutBlobDiscard, StoreFails, SweepDone
    <3>2. [call[c] EXCEPT !.pc = "discard"].pc = "discard"
      BY <1>0, CallAt
    <3> QED
      BY <1>c, <3>1, <3>2
  <2> QED
    BY <2>1, <2>2, <2>3 DEF PutStep
<1>3. /\ session'[c].token = session[c].token /\ session'[c].plan = session[c].plan
      /\ session'[c].putNodes \subseteq session[c].putNodes \cup nodes'
      /\ \A h \in session'[c].putBlobs : h \in session[c].putBlobs \/ manifests'[h] # 0
  <2> USE DEF Becomes, Fields
  <2>1. CASE PutBlobPublish(c)
    <3>1. manifests'[call[c].hash] # 0
      BY <1>0, <2>1, CapsAssumption DEF PutBlobPublish, CallArgs, Objects, TypeOK
    <3> QED
      BY <1>0, <2>1, <3>1, PutBlobPublishOwn DEF Remembered
  <2>2. CASE PutNode(c)
    <3>1. PICK n \in Nodes :
            /\ nodes' = nodes \cup {n}
            /\ Becomes(c, session[c].token, Remembered(session[c].putNodes \cup {n}),
                       session[c].putBlobs, session[c].plan, session[c].left)
      BY <1>0, <2>2, PutNodeOwn
    <3> QED
      BY <3>1 DEF Remembered
  <2>3. CASE StoreFails(c)
    BY <1>0, <2>3, StoreFailsOwn
  <2>6. CASE SweepBody(c)
    <3>1. PICK l \in Plans : Becomes(c, session[c].token, session[c].putNodes,
                                     session[c].putBlobs, session[c].plan, l)
      BY <1>0, <2>6, SweepOwn
    <3> QED
      BY <3>1
  <2>4. CASE GetRef(c)
    <3>1. PICK r \in Refs :
            session'[c] = [session[c] EXCEPT !.ref = r, !.seen = refs[r].version,
                                             !.since = "nothing"]
      BY <1>0, <2>4 DEF GetRef
    <3>2. session[c] \in Sessions
      BY <1>0
    <3>3. Fields(session'[c], session[c].token, session[c].putNodes, session[c].putBlobs,
                 session[c].plan, session[c].left)
      BY <3>1, <3>2 DEF Sessions
    <3> QED
      BY <3>3
  <2>5. CASE PutBlobUpload(c) \/ PutBlobFails(c) \/ PutBlobDiscard(c) \/ SweepDone(c)
    BY <2>5 DEF PutBlobUpload, PutBlobFails, PutBlobDiscard, SweepDone
  <2> QED
    BY <2>1, <2>2, <2>3, <2>4, <2>5, <2>6 DEF PutStep
<1>4. HoldsFence(c)' => HolderInv(c)'
  <2>1. HoldsFence(c) => HolderInv(c)
    BY DEF TreeInv
  <2> QED
    BY <1>1, <1>2, <1>3, <2>1, QuietHolder
<1>5. \A d \in Clients \ {c} : HoldsFence(d)' => HolderInv(d)'
  BY <1>0, <1>1, QuietOthers
<1>6. \A d \in Clients : call'[d].pc # "sweep"
  BY <1>0, <1>2, OthersKept DEF TreeInv
<1>7. RefsComplete'
  BY <1>0, <1>1, QuietRefs DEF TreeInv
<1> QED
  BY <1>4, <1>5, <1>6, <1>7 DEF TreeInv

(* PlanGC. *)
LEMMA TreePlan ==
  ASSUME TypeInv, TreeInv, NEW c \in Clients,
         PlanRoots(c) \/ PlanWalk(c) \/ PlanNodes(c) \/ PlanBlobs(c)
  PROVE  TreeInv'
<1> USE DEF kvVars
<1>0. /\ TypeOK /\ call \in [Clients -> Calls] /\ session \in [Clients -> Sessions]
      /\ call[c] \in Calls /\ session[c] \in Sessions /\ session[c].plan \in Plans /\ Step(c)
  BY SessionTypes DEF TypeInv, TypeOK, Step, GCStep
<1>1. Quiet /\ UNCHANGED <<nodes, manifests, refs, lease>>
  BY DEF Quiet, PlanRoots, PlanWalk, PlanNodes, PlanBlobs
<1>2. /\ session'[c].token = session[c].token
      /\ session'[c].putNodes = session[c].putNodes /\ session'[c].putBlobs = session[c].putBlobs
  BY <1>0, PlanRootsOwn, PlanNodesOwn, PlanBlobsOwn DEF PlanWalk, Becomes, Fields
<1>3. ASSUME HoldsFence(c)'
      PROVE  HolderInv(c) /\ PutInv(c)'
  BY <1>1, <1>2, <1>3 DEF TreeInv, HoldsFence, HolderInv, PutInv
<1>4. \A Q : Rooted(Q)' <=> Rooted(Q)
  BY <1>1 DEF Rooted
<1>5. ASSUME SafePlan(session'[c].plan), HoldsFence(c)', WalkInv(c)', BlobsInv(c)',
             call'[c].pc # "sweep"
      PROVE  HolderInv(c)'
  <2>1. SafePlan(session[c].plan)'
    BY <1>4, <1>5 DEF SafePlan
  <2> QED
    BY <1>3, <1>5, <2>1 DEF HolderInv
<1>6. ASSUME HoldsFence(c)' => HolderInv(c)', call'[c].pc # "sweep" PROVE TreeInv'
  <2>1. \A d \in Clients \ {c} : HoldsFence(d)' => HolderInv(d)'
    BY <1>0, <1>1, QuietOthers
  <2>2. \A d \in Clients : call'[d].pc # "sweep"
    BY <1>0, <1>6, OthersKept DEF TreeInv
  <2>3. RefsComplete'
    BY <1>0, <1>1, QuietRefs DEF TreeInv
  <2> QED
    BY <1>6, <2>1, <2>2, <2>3 DEF TreeInv
<1>7. CASE PlanRoots(c)
  <2>1. {refs[r].node : r \in Refs} \ {NoNode} \in SUBSET Nodes
    BY <1>0 DEF TypeOK
  <2>2. PICK f \in SUBSET Nodes :
          /\ f = {refs[r].node : r \in Refs} \ {NoNode}
          /\ call' = [call EXCEPT ![c] = [Idle EXCEPT !.pc = "walk", !.front = f]]
    BY <1>7, <2>1 DEF PlanRoots
  <2>3. call'[c].pc = "walk" /\ call'[c].front = f /\ call'[c].reached = {}
    <3>1. call'[c] = [Idle EXCEPT !.pc = "walk", !.front = f] /\ f \in SUBSET Nodes
      BY <1>0, <2>2
    <3>2. Idle \in Calls /\ Idle.reached = {}
      BY IdleType DEF Idle
    <3> QED
      BY <3>1, <3>2 DEF Calls
  <2>4. session'[c].plan = NoPlan
    BY <1>0, <1>7, PlanRootsOwn DEF Becomes, Fields
  <2>5. Rooted(f \cup {})
    BY <2>2 DEF Rooted
  <2>6. WalkInv(c)'
    BY <1>4, <2>3, <2>4, <2>5 DEF WalkInv
  <2>7. BlobsInv(c)'
    BY <2>3 DEF BlobsInv
  <2> QED
    BY <1>0, <1>5, <1>6, <2>3, <2>4, <2>6, <2>7, EmptyPlanSafe
<1>8. CASE PlanWalk(c)
  <2>1. PICK n \in call[c].front :
          call'[c] = IF n \in nodes
                     THEN [call[c] EXCEPT !.reached = call[c].reached \cup {n},
                                          !.front = (call[c].front \cup ChildrenOf[n])
                                                      \ (call[c].reached \cup {n})]
                     ELSE Idle
    BY <1>0, <1>8 DEF PlanWalk, Below
  <2>2. call[c].pc = "walk" /\ UNCHANGED session
    BY <1>8 DEF PlanWalk
  <2>3. CASE n \notin nodes
    <3>1. call'[c].pc = "idle"
      BY <2>1, <2>3 DEF Idle
    <3> QED
      BY <1>3, <1>5, <1>6, <2>2, <3>1 DEF WalkInv, BlobsInv, HolderInv
  <2>4. CASE n \in nodes
    <3>1. call'[c] = [call[c] EXCEPT !.reached = call[c].reached \cup {n},
                                     !.front = (call[c].front \cup ChildrenOf[n])
                                                 \ (call[c].reached \cup {n})]
      BY <2>1, <2>4
    <3>2. /\ call'[c].pc = "walk" /\ call'[c].reached = call[c].reached \cup {n}
          /\ call'[c].front = (call[c].front \cup ChildrenOf[n]) \ (call[c].reached \cup {n})
      BY <1>0, <2>2, <3>1 DEF Calls
    <3>3. ASSUME HoldsFence(c)' PROVE WalkInv(c)'
      <4>1. /\ session[c].plan = NoPlan
            /\ Rooted(call[c].front \cup call[c].reached)
            /\ \A m \in call[c].reached :
                 ChildrenOf[m] \subseteq call[c].front \cup call[c].reached
        BY <1>3, <2>2, <3>3 DEF HolderInv, WalkInv
      <4>2. call[c].front \cup call[c].reached \subseteq call'[c].front \cup call'[c].reached
        BY <3>2
      <4>3. ChildrenOf[n] \subseteq call'[c].front \cup call'[c].reached
        BY <3>2
      <4>4. Rooted(call'[c].front \cup call'[c].reached)
        BY <4>1, <4>2 DEF Rooted
      <4>5. \A m \in call'[c].reached :
              ChildrenOf[m] \subseteq call'[c].front \cup call'[c].reached
        BY <3>2, <4>1, <4>2, <4>3
      <4> QED
        BY <1>4, <2>2, <4>1, <4>4, <4>5 DEF WalkInv
    <3> QED
      BY <1>3, <1>5, <1>6, <2>2, <3>2, <3>3 DEF BlobsInv, HolderInv
  <2> QED
    BY <2>3, <2>4
<1>9. CASE PlanNodes(c)
  <2>1. call[c].pc = "walk" /\ call[c].front = {}
    BY <1>9 DEF PlanNodes
  <2>2. call'[c].pc = "blobs" /\ call'[c].reached = call[c].reached
    BY <1>0, <1>9, CallAt DEF PlanNodes
  <2>3. /\ session'[c].plan.nodes = nodes \ call[c].reached
        /\ session'[c].plan.blobs = session[c].plan.blobs
    <3>1. session'[c].plan = [session[c].plan EXCEPT !.nodes = nodes \ call[c].reached]
      BY <1>0, <1>9, PlanNodesOwn DEF Becomes, Fields
    <3> QED
      BY <1>0, <3>1 DEF Plans
  <2>4. ASSUME HoldsFence(c)'
        PROVE  /\ Closed(call[c].reached) /\ Rooted(call[c].reached)
               /\ session'[c].plan.nodes \cap call[c].reached = {}
               /\ SafePlan(session'[c].plan)
    <3>1. /\ session[c].plan = NoPlan
          /\ Rooted(call[c].front \cup call[c].reached)
          /\ \A m \in call[c].reached :
               ChildrenOf[m] \subseteq call[c].front \cup call[c].reached
      BY <1>3, <2>1, <2>4 DEF HolderInv, WalkInv
    <3>2. Closed(call[c].reached) /\ Rooted(call[c].reached)
      BY <2>1, <3>1 DEF Closed, Rooted
    <3>3. session'[c].plan.nodes \cap call[c].reached = {} /\ session'[c].plan.blobs = {}
      BY <2>3, <3>1 DEF NoPlan
    <3>4. call[c].reached \in SUBSET Nodes
      BY <1>0, CallTypes
    <3> QED
      BY <3>2, <3>3, <3>4 DEF SafePlan
  <2>5. HoldsFence(c)' => BlobsInv(c)'
    BY <1>4, <2>2, <2>4 DEF BlobsInv
  <2>6. WalkInv(c)'
    BY <2>2 DEF WalkInv
  <2> QED
    BY <1>5, <1>6, <2>2, <2>4, <2>5, <2>6
<1>10. CASE PlanBlobs(c)
  <2>1. call[c].pc = "blobs"
    BY <1>10 DEF PlanBlobs
  <2>2. call'[c].pc = "idle"
    BY <1>0, <1>10 DEF PlanBlobs, Idle
  <2>3. /\ session'[c].plan.nodes = session[c].plan.nodes
        /\ session'[c].plan.blobs =
             {<<h, manifests[h]>> : h \in {g \in Hashes \ ReachedBlobs(c) : manifests[g] # 0}}
    <3>1. session'[c].plan =
            [session[c].plan EXCEPT !.blobs =
               {<<h, manifests[h]>> : h \in {g \in Hashes \ ReachedBlobs(c) : manifests[g] # 0}}]
      BY <1>0, <1>10, PlanBlobsOwn DEF Becomes, Fields
    <3> QED
      BY <1>0, <3>1 DEF Plans
  <2>4. ASSUME HoldsFence(c)' PROVE SafePlan(session'[c].plan)
    <3>1. /\ Closed(call[c].reached) /\ Rooted(call[c].reached)
          /\ session[c].plan.nodes \cap call[c].reached = {}
      BY <1>3, <2>1, <2>4 DEF HolderInv, BlobsInv
    <3>2. \A b \in session'[c].plan.blobs : b[1] \notin ReachedBlobs(c)
      BY <2>3
    <3>3. \A b \in session'[c].plan.blobs : \A m \in call[c].reached : b[1] \notin BlobsOf[m]
      BY <3>2 DEF ReachedBlobs
    <3>4. call[c].reached \in SUBSET Nodes
      BY <1>0, CallTypes
    <3> QED
      BY <2>3, <3>1, <3>3, <3>4 DEF SafePlan
  <2> QED
    BY <1>5, <1>6, <2>2, <2>4 DEF WalkInv, BlobsInv
<1> QED
  BY <1>7, <1>8, <1>9, <1>10

(* A step of the holder of the fence that is not quiet: nobody else holds  *)
(* it before or after.                                                     *)
LEMMA FencedOthers ==
  ASSUME TypeInv, FenceInv, NEW c \in Clients, Step(c), HoldsFence(c), UNCHANGED lease,
         NEW d \in Clients \ {c}
  PROVE  ~HoldsFence(d)'
<1>1. session'[d].token = session[d].token
  BY OthersKept DEF TypeInv, Kept
<1> QED
  BY <1>1, OneHolder DEF HoldsFence

(* CompareAndSwapRefFenced and DeleteRefFenced. *)
LEMMA TreeRef ==
  ASSUME TypeInv, FenceInv, TreeInv, Disciplined, NEW c \in Clients, Step(c),
         HoldsFence(c), call[c].pc = "idle", SetRef(c) \/ RemoveRef(c)
  PROVE  TreeInv'
<1>0. /\ TypeOK /\ session[c].ref \in Refs /\ UNCHANGED <<nodes, manifests, lease, call>>
      /\ \E how \in Since : RefWritten(c, session[c].ref, how)
  BY SessionTypes DEF TypeInv, TypeOK, SetRef, RemoveRef, Since
<1>1. /\ session'[c].putNodes = session[c].putNodes /\ session'[c].putBlobs = session[c].putBlobs
      /\ session'[c].plan = NoPlan
  BY <1>0, WrittenSessions DEF Forgotten
<1>2. TypeInv'
  BY TypePut, TypeRef, TypeGC DEF Step
<1>3. HolderInv(c)'
  <2>1. PutInv(c)'
    BY <1>0, <1>1 DEF TreeInv, HolderInv, PutInv
  <2>2. SafePlan(NoPlan)'
    <3>1. Closed(Nodes) /\ Rooted(Nodes)'
      BY <1>2, GraphAssumption DEF TypeInv, TypeOK, Closed, Rooted
    <3>2. NoPlan.nodes \cap Nodes = {} /\ NoPlan.blobs = {}
      BY DEF NoPlan
    <3> QED
      BY <3>1, <3>2 DEF SafePlan
  <2> QED
    BY <1>0, <1>1, <2>1, <2>2 DEF HolderInv, WalkInv, BlobsInv, SafePlan
<1>4. RefsComplete'
  <2>1. ASSUME NEW r \in Refs \ {session[c].ref} PROVE refs'[r] = refs[r]
    BY <1>0 DEF SetRef, RemoveRef, TypeOK
  <2>2. CASE SetRef(c)
    <3>1. PICK n \in Nodes : /\ Prepared(c, n)
                             /\ refs' = [refs EXCEPT ![session[c].ref] =
                                  [node |-> n, version |-> refs[session[c].ref].version + 1]]
      BY <2>2 DEF SetRef
    <3>2. PICK S \in SUBSET session[c].putNodes : Covers(n, S, session[c].putBlobs)
      BY <3>1 DEF Prepared
    <3>3. refs'[session[c].ref].node = n
      BY <1>0, <3>1 DEF TypeOK
    <3>4. /\ S \in SUBSET nodes
          /\ session[c].putBlobs \subseteq {h \in Hashes : manifests[h] # 0}
      BY <1>0, <3>2, SessionTypes DEF TreeInv, HolderInv, PutInv, TypeOK
    <3>5. Covers(n, S, {h \in Hashes : manifests[h] # 0})
      BY <3>2, <3>4 DEF Covers
    <3> QED
      BY <1>0, <2>1, <3>3, <3>4, <3>5 DEF TreeInv, RefsComplete
  <2>3. CASE RemoveRef(c)
    <3>1. refs'[session[c].ref].version = 0
      BY <1>0, <2>3 DEF RemoveRef, NoRef, TypeOK
    <3> QED
      BY <1>0, <2>1, <3>1 DEF TreeInv, RefsComplete
  <2> QED
    BY <2>2, <2>3
<1> QED
  BY <1>0, <1>3, <1>4, FencedOthers DEF TreeInv

(* The fenced sweep. *)
LEMMA TreeSweep ==
  ASSUME TypeInv, FenceInv, TreeInv, NEW c \in Clients, Step(c), SweepGCFenced(c)
  PROVE  TreeInv'
<1>0. /\ TypeOK /\ call[c] \in Calls /\ HoldsFence(c) /\ HolderInv(c)
      /\ UNCHANGED <<refs, lease>>
      /\ nodes' = nodes \ session[c].plan.nodes
      /\ manifests' = Unlisted({b[1] : b \in session[c].plan.blobs})
  BY DEF TypeInv, TypeOK, SweepGCFenced, TreeInv
<1>1. /\ session'[c].putNodes = {} /\ session'[c].putBlobs = {}
      /\ session'[c].plan = session[c].plan
  BY <1>0, SweepGCFencedOwn DEF Becomes, Fields
<1>2. call'[c].pc = "bodies"
  BY <1>0, CallAt DEF SweepGCFenced, TypeOK
<1>3. HolderInv(c)'
  BY <1>0, <1>1, <1>2 DEF HolderInv, PutInv, WalkInv, BlobsInv, SafePlan, Rooted
<1>4. RefsComplete'
  <2> SUFFICES ASSUME NEW r \in Refs, refs[r].version # 0
               PROVE  \E S \in SUBSET nodes' :
                        Covers(refs[r].node, S, {h \in Hashes : manifests'[h] # 0})
    BY <1>0 DEF RefsComplete, Covers
  <2>1. PICK S \in SUBSET nodes : Covers(refs[r].node, S, {h \in Hashes : manifests[h] # 0})
    BY DEF TreeInv, RefsComplete
  <2>2. PICK Q \in SUBSET Nodes :
          /\ Closed(Q) /\ Rooted(Q) /\ session[c].plan.nodes \cap Q = {}
          /\ \A b \in session[c].plan.blobs : \A m \in Q : b[1] \notin BlobsOf[m]
    BY <1>0 DEF HolderInv, SafePlan
  <2>3. S \cap Q \in SUBSET nodes'
    BY <1>0, <2>1, <2>2
  <2>4. refs[r].node \in S \cap Q
    <3>1. refs[r].node \in S /\ refs[r].node # NoNode
      BY <1>0, <2>1, NothingAssumption DEF Covers, TypeOK
    <3> QED
      BY <2>2, <3>1 DEF Rooted
  <2>5. ASSUME NEW m \in S \cap Q
        PROVE  ChildrenOf[m] \subseteq S \cap Q /\ BlobsOf[m] \subseteq {h \in Hashes : manifests'[h] # 0}
    <3>1. ChildrenOf[m] \subseteq S \cap Q
      BY <2>1, <2>2, <2>5 DEF Covers, Closed
    <3>2. ASSUME NEW h \in BlobsOf[m] PROVE h \in Hashes /\ manifests'[h] # 0
      <4>1. h \in Hashes /\ manifests[h] # 0
        BY <2>1, <2>5, <3>2 DEF Covers
      <4>2. h \notin {b[1] : b \in session[c].plan.blobs}
        BY <2>2, <2>5, <3>2
      <4> QED
        BY <1>0, <4>1, <4>2 DEF Unlisted
    <3> QED
      BY <3>1, <3>2
  <2> QED
    BY <2>3, <2>4, <2>5 DEF Covers
<1>5. \A d \in Clients : call'[d].pc # "sweep"
  BY <1>0, <1>2, OthersKept DEF TreeInv
<1> QED
  BY <1>0, <1>3, <1>4, <1>5, FencedOthers DEF TreeInv

(* A new token, and a crash: the client starts over. *)
LEMMA TreeFresh ==
  ASSUME TypeInv, FenceInv, TreeInv, Disciplined, NEW c \in Clients, Step(c),
         AcquireLease(c) \/ Crash(c)
  PROVE  TreeInv'
<1>0. /\ TypeOK /\ UNCHANGED <<nodes, manifests, refs>>
      /\ session \in [Clients -> Sessions] /\ call \in [Clients -> Calls]
  BY DEF TypeInv, TypeOK, AcquireLease, Crash, kvVars
<1>1. RefsComplete'
  BY <1>0 DEF TreeInv, RefsComplete
<1>2. CASE AcquireLease(c)
  <2>1. session'[c].putNodes = {} /\ session'[c].putBlobs = {} /\ session'[c].plan = NoPlan
    BY <1>0, <1>2, AcquireLeaseOwn DEF Becomes, Fields, Forgotten
  <2>2. call[c].pc = "idle" /\ UNCHANGED call /\ lease' = lease + 1
    BY <1>2 DEF AcquireLease, NextToken
  <2>3. SafePlan(NoPlan)'
    BY <1>0, EmptyPlanSafe DEF SafePlan, Rooted
  <2>4. HolderInv(c)'
    BY <2>1, <2>2, <2>3 DEF HolderInv, PutInv, WalkInv, BlobsInv, SafePlan
  <2>5. ASSUME NEW d \in Clients \ {c} PROVE ~HoldsFence(d)'
    <3>1. session'[d].token = session[d].token /\ session[d].token <= lease
      BY <1>0, OthersKept DEF Kept, FenceInv
    <3>2. lease \in Nat /\ session[d].token \in Nat
      BY <1>0, SessionTypes, CapsAssumption DEF TypeOK
    <3> QED
      BY <2>2, <3>1, <3>2 DEF HoldsFence
  <2> QED
    BY <1>1, <2>2, <2>4, <2>5 DEF TreeInv
<1>3. CASE Crash(c)
  <2>1. session'[c].token = 0 /\ call'[c].pc = "idle"
    BY <1>0, <1>3 DEF Crash, FreshSession, Idle
  <2>2. ~HoldsFence(c)'
    BY <2>1 DEF HoldsFence
  <2>3. Quiet
    BY <1>3 DEF Crash, Quiet, kvVars
  <2>4. \A d \in Clients \ {c} : HoldsFence(d)' => HolderInv(d)'
    BY <2>3, QuietOthers
  <2>5. \A d \in Clients : call'[d].pc # "sweep"
    BY <1>0, <2>1, OthersKept DEF TreeInv
  <2> QED
    BY <1>1, <2>2, <2>4, <2>5 DEF TreeInv
<1> QED
  BY <1>2, <1>3

(* Callers that do what SweepGCFenced's comment asks for - put the whole   *)
(* tree under the lease, publish and delete with its token, sweep plans    *)
(* made under it - never lose a node or a blob below a ref, however many   *)
(* they are, whatever the graph, and whichever of them crash.              *)
THEOREM RefsStayComplete ==
  ASSUME Disciplined = TRUE, Releases = FALSE
  PROVE  Spec => []RefsComplete
<1>1. Init => TreeInv
  <2>1. Idle.pc = "idle" /\ NoRef.version = 0 /\ FreshSession.token = 0
    BY DEF Idle, NoRef, FreshSession
  <2> QED
    BY <2>1 DEF Init, TreeInv, HoldsFence, RefsComplete
<1>2. ASSUME TypeInv, FenceInv, TreeInv, NEW c \in Clients, Step(c) PROVE TreeInv'
  <2>1. /\ ~CompareAndSwapRef(c) /\ ~DeleteRef(c) /\ ~SweepGC(c) /\ ~ReleaseLease(c)
        /\ ~SweepGCNode(c) /\ ~SweepGCManifest(c) /\ ~SweepGCBody(c) /\ ~SweepGCDone(c)
    BY <1>2 DEF CompareAndSwapRef, DeleteRef, SweepGC, ReleaseLease, SweepGCNode,
       SweepGCManifest, SweepGCBody, SweepGCDone, TreeInv
  <2>2. CASE CompareAndSwapRefFenced(c) \/ DeleteRefFenced(c)
    BY <1>2, <2>2, TreeRef DEF CompareAndSwapRefFenced, DeleteRefFenced
  <2> QED
    BY <1>2, <2>1, <2>2, TreePut, TreePlan, TreeSweep, TreeFresh DEF Step, RefStep, GCStep
<1>3. TreeInv /\ UNCHANGED vars => TreeInv'
  BY DEF vars, TreeInv, HoldsFence, HolderInv, PutInv, SafePlan, Rooted, WalkInv, BlobsInv,
     RefsComplete
<1>4. TypeInv /\ FenceInv /\ TreeInv /\ [Next]_vars => TreeInv'
  BY <1>2, <1>3 DEF Next, Step
<1>5. TreeInv => RefsComplete
  BY DEF TreeInv
<1> QED
  BY <1>1, <1>4, <1>5, TypeInvariance, FenceInvariance, PTL DEF Spec

-----------------------------------------------------------------------------
(* Bodies, for all callers *)

(* The bodies that a client knows of from a plan. *)
Items(c) == session[c].plan.blobs \cup session[c].left.blobs

(* Object keys are handed out in order. *)
KeysInv ==
  /\ \A h \in Hashes : manifests[h] <= uploads
  /\ \A c \in Clients : call[c].object <= uploads
  /\ \A c \in Clients : \A b \in Items(c) : b[2] <= uploads

(* The body that is about to be published is there, and known to nobody    *)
(* but its upload.                                                         *)
StagedInv ==
  \A c \in Clients : call[c].pc = "publish" =>
    /\ objects[call[c].object] = call[c].hash
    /\ \A h \in Hashes : manifests[h] # call[c].object
    /\ \A d \in Clients : \A b \in Items(d) : b[2] # call[c].object
    /\ \A d \in Clients \ {c} : call[d].object # call[c].object

(* A planned body belongs to no other hash than the planned one. *)
ItemsInv == \A c \in Clients : \A b \in Items(c) : \A h \in Hashes : manifests[h] = b[2] => h = b[1]

(* No manifest names a body that a client is about to delete. *)
DoomedInv ==
  \A c \in Clients :
    /\ call[c].pc # "publish" /\ call[c].object # 0 =>
         \A h \in Hashes : manifests[h] # call[c].object
    /\ call[c].pc = "bodies" =>
         \A b \in session[c].left.blobs : \A h \in Hashes : manifests[h] # b[2]

BodyInv == ManifestsHaveBodies /\ KeysInv /\ StagedInv /\ ItemsInv /\ DoomedInv

LEMMA BodyTypes ==
  ASSUME TypeInv, NEW c \in Clients
  PROVE  /\ \A b \in Items(c) : b = <<b[1], b[2]>> /\ b[1] \in Hashes /\ b[2] \in Objects
         /\ session[c].left.blobs \subseteq Items(c)
         /\ session[c].plan.blobs \subseteq Items(c)
         /\ call[c].object \in 0..MaxObject
<1>1. session[c] \in Sessions /\ call[c] \in Calls
  BY DEF TypeInv, TypeOK
<1>2. Items(c) \subseteq Hashes \X Objects
  BY <1>1, SessionTypes, PlanTypes DEF Items
<1>3. call[c].object \in 0..MaxObject
  BY <1>1, CallTypes
<1> QED
  BY <1>2, <1>3 DEF Items

(* What most steps do: manifests, plans and calls go, and with them only   *)
(* bodies that nobody needs.                                               *)
Harmless(k) ==
  /\ \A h \in Hashes : manifests[h] # k
  /\ \A d \in Clients : call[d].pc = "publish" => call[d].object # k

Shrinks ==
  /\ \A h \in Hashes : manifests'[h] = manifests[h] \/ manifests'[h] = 0
  /\ \A k \in Objects : objects'[k] = objects[k] \/ Harmless(k)
  /\ UNCHANGED uploads
  /\ \A d \in Clients : Items(d)' \subseteq Items(d)
  /\ \A d \in Clients :
       /\ call'[d].pc = "publish" => call'[d] = call[d]
       /\ \/ call'[d].object = call[d].object \/ call'[d].object = 0
          \/ \E b \in Items(d) : /\ call'[d].object = b[2] /\ call'[d].pc # "publish"
                                 /\ \A h \in Hashes : manifests'[h] # b[2]
       /\ call'[d].pc = "bodies" =>
            \A b \in session'[d].left.blobs : \A h \in Hashes : manifests'[h] # b[2]

LEMMA ShrinksKeeps ==
  ASSUME TypeInv, BodyInv, Shrinks
  PROVE  BodyInv'
<1>0. /\ manifests \in [Hashes -> 0..MaxObject] /\ uploads \in Nat
      /\ \A h \in Hashes : manifests[h] # 0 => manifests[h] \in Objects
      /\ \A d \in Clients : \A b \in Items(d) : b[2] \in Objects /\ b[2] # 0
  BY BodyTypes, CapsAssumption DEF TypeInv, TypeOK, Objects
<1>1. ManifestsHaveBodies'
  BY <1>0 DEF BodyInv, ManifestsHaveBodies, Shrinks, Harmless
<1>2. KeysInv'
  BY <1>0 DEF BodyInv, KeysInv, Shrinks
<1>3. StagedInv'
  <2> SUFFICES ASSUME NEW c \in Clients, call'[c].pc = "publish"
               PROVE  /\ objects'[call'[c].object] = call'[c].hash
                      /\ \A h \in Hashes : manifests'[h] # call'[c].object
                      /\ \A d \in Clients : \A b \in Items(d)' : b[2] # call'[c].object
                      /\ \A d \in Clients \ {c} : call'[d].object # call'[c].object
    BY DEF StagedInv
  <2>1. call'[c] = call[c] /\ call[c].object \in Objects /\ call[c].object # 0
    BY CapsAssumption DEF Shrinks, TypeInv, CallArgs, Objects
  <2>2. /\ objects[call[c].object] = call[c].hash
        /\ \A h \in Hashes : manifests[h] # call[c].object
        /\ \A d \in Clients : \A b \in Items(d) : b[2] # call[c].object
        /\ \A d \in Clients \ {c} : call[d].object # call[c].object
    BY <2>1 DEF BodyInv, StagedInv
  <2>3. objects'[call[c].object] = call[c].hash
    BY <2>1, <2>2 DEF Shrinks, Harmless
  <2>4. \A h \in Hashes : manifests'[h] # call[c].object
    BY <2>1, <2>2 DEF Shrinks
  <2>5. \A d \in Clients : \A b \in Items(d)' : b[2] # call[c].object
    BY <2>2 DEF Shrinks
  <2>6. \A d \in Clients \ {c} : call'[d].object # call[c].object
    BY <2>1, <2>2 DEF Shrinks
  <2> QED
    BY <2>1, <2>3, <2>4, <2>5, <2>6
<1>4. ItemsInv'
  BY <1>0 DEF BodyInv, ItemsInv, Shrinks
<1>5. DoomedInv'
  <2> SUFFICES ASSUME NEW c \in Clients, call'[c].pc # "publish", call'[c].object # 0,
                      NEW h \in Hashes
               PROVE  manifests'[h] # call'[c].object
    BY DEF DoomedInv, Shrinks
  <2>1. CASE call'[c].object = call[c].object
    <3>1. manifests[h] # call[c].object
      BY <2>1 DEF BodyInv, StagedInv, DoomedInv
    <3> QED
      BY <2>1, <3>1 DEF Shrinks
  <2>2. CASE call'[c].object # call[c].object
    BY <2>2 DEF Shrinks
  <2> QED
    BY <2>1, <2>2
<1> QED
  BY <1>1, <1>2, <1>3, <1>4, <1>5 DEF BodyInv

(* The part of Shrinks that is about the client itself is enough. *)
LEMMA ShrinksOwn ==
  ASSUME TypeInv, BodyInv, NEW c \in Clients, Step(c),
         \A h \in Hashes : manifests'[h] = manifests[h] \/ manifests'[h] = 0,
         \A k \in Objects : objects'[k] = objects[k] \/ Harmless(k),
         UNCHANGED uploads, Items(c)' \subseteq Items(c),
         call'[c].pc = "publish" => call'[c] = call[c],
         \/ call'[c].object = call[c].object \/ call'[c].object = 0
         \/ \E b \in Items(c) : /\ call'[c].object = b[2] /\ call'[c].pc # "publish"
                                /\ \A h \in Hashes : manifests'[h] # b[2],
         call'[c].pc = "bodies" =>
           \A b \in session'[c].left.blobs : \A h \in Hashes : manifests'[h] # b[2]
  PROVE  BodyInv'
<1>1. ASSUME NEW d \in Clients \ {c}
      PROVE  /\ call'[d] = call[d] /\ Items(d)' = Items(d)
             /\ call'[d].pc = "bodies" =>
                  \A b \in session'[d].left.blobs : \A h \in Hashes : manifests'[h] # b[2]
  <2>1. call'[d] = call[d] /\ Kept(d)
    BY OthersKept DEF TypeInv
  <2>2. \A b \in session[d].left.blobs : b[2] # 0
    BY BodyTypes, CapsAssumption DEF Objects
  <2> QED
    BY <2>1, <2>2 DEF Kept, Items, BodyInv, DoomedInv
<1>2. Shrinks
  BY <1>1 DEF Shrinks
<1> QED
  BY <1>2, ShrinksKeeps

(* A body that a call is about to delete, or that a sweep has left, is     *)
(* harmless to delete.                                                     *)
LEMMA DoomedHarmless ==
  ASSUME TypeInv, BodyInv, NEW c \in Clients
  PROVE  /\ call[c].pc # "publish" /\ call[c].object # 0 => Harmless(call[c].object)
         /\ call[c].pc = "bodies" => \A b \in session[c].left.blobs : Harmless(b[2])
<1>1. session[c].left.blobs \subseteq Items(c)
  BY BodyTypes
<1> QED
  BY <1>1 DEF BodyInv, StagedInv, DoomedInv, Harmless

LEMMA BodyUpload ==
  ASSUME TypeInv, BodyInv, NEW c \in Clients, PutBlobUpload(c)
  PROVE  BodyInv'
<1>0. /\ TypeOK /\ uploads \in Nat /\ uploads' = uploads + 1
      /\ UNCHANGED <<manifests, session>> /\ \A d \in Clients : Items(d)' = Items(d)
      /\ manifests \in [Hashes -> 0..MaxObject] /\ MaxObject \in Nat
      /\ uploads + 1 \in Objects /\ uploads + 1 \in 0..MaxObject
  BY CapsAssumption DEF TypeInv, TypeOK, PutBlobUpload, kvVars, Items, Objects
<1>1. PICK h \in Hashes :
        /\ objects' = [objects EXCEPT ![uploads + 1] = h]
        /\ call' = [call EXCEPT ![c] =
                      [Idle EXCEPT !.pc = "publish", !.hash = h, !.object = uploads + 1]]
  BY DEF PutBlobUpload, StagingKey
<1>2. call'[c].pc = "publish" /\ call'[c].hash = h /\ call'[c].object = uploads + 1
  <2>1. LET r == [Idle EXCEPT !.pc = "publish", !.hash = h, !.object = uploads + 1]
        IN  r.pc = "publish" /\ r.hash = h /\ r.object = uploads + 1
    <3>1. h \in Hashes
      BY <1>1
    <3>2. uploads + 1 \in 0..MaxObject
      BY <1>0
    <3> QED
      BY <3>1, <3>2, IdleUpload
  <2> QED
    BY <1>0, <1>1, <2>1 DEF TypeOK
<1>3. \A d \in Clients \ {c} : call'[d] = call[d]
  BY <1>0, <1>1 DEF TypeOK
<1>4. /\ \A k \in Objects : k # uploads + 1 => objects'[k] = objects[k]
      /\ objects'[uploads + 1] = h
  BY <1>0, <1>1 DEF TypeOK
<1>5. /\ \A g \in Hashes : manifests[g] # uploads + 1
      /\ \A d \in Clients : call[d].object # uploads + 1
      /\ \A d \in Clients : \A b \in Items(d) : b[2] # uploads + 1
  <2>1. /\ \A d \in Clients : call[d].object \in Nat
        /\ \A d \in Clients : \A b \in Items(d) : b[2] \in Nat
    BY <1>0, BodyTypes DEF Objects
  <2> QED
    BY <1>0, <2>1 DEF BodyInv, KeysInv
<1>6. ManifestsHaveBodies'
  BY <1>0, <1>4, <1>5 DEF BodyInv, ManifestsHaveBodies, Objects
<1>7. KeysInv'
  <2>1. \A d \in Clients : call[d].object \in Nat
    BY <1>0, BodyTypes
  <2>2. \A d \in Clients : \A b \in Items(d) : b[2] \in Nat
    BY <1>0, BodyTypes DEF Objects
  <2>3. /\ \A g \in Hashes : manifests[g] <= uploads
        /\ \A d \in Clients : call[d].object <= uploads
        /\ \A d \in Clients : \A b \in Items(d) : b[2] <= uploads
    BY DEF BodyInv, KeysInv
  <2>4. \A x \in Nat : x <= uploads => x <= uploads'
    BY <1>0
  <2>5. \A d \in Clients : call'[d].object <= uploads'
    BY <1>0, <1>2, <1>3, <2>1, <2>3, <2>4
  <2> QED
    BY <1>0, <2>2, <2>3, <2>4, <2>5 DEF KeysInv
<1>8. StagedInv'
  <2>1. ASSUME NEW d \in Clients \ {c}, call[d].pc = "publish"
        PROVE  call[d].object \in Objects /\ call[d].object # uploads + 1
    BY <1>5, <2>1 DEF TypeInv, CallArgs
  <2> QED
    BY <1>0, <1>2, <1>3, <1>4, <1>5, <2>1 DEF BodyInv, StagedInv
<1>9. ItemsInv'
  BY <1>0 DEF BodyInv, ItemsInv
<1>10. DoomedInv'
  BY <1>0, <1>2, <1>3 DEF BodyInv, DoomedInv
<1> QED
  BY <1>6, <1>7, <1>8, <1>9, <1>10 DEF BodyInv

LEMMA BodyPublish ==
  ASSUME TypeInv, BodyInv, NEW c \in Clients, PutBlobPublish(c)
  PROVE  BodyInv'
<1> DEFINE h == call[c].hash
           o == call[c].object
<1>0. /\ TypeOK /\ Step(c) /\ call[c].pc = "publish" /\ call[c] \in Calls
      /\ h \in Hashes /\ o \in Objects /\ o # 0 /\ o <= uploads
      /\ UNCHANGED <<objects, uploads>>
  BY CapsAssumption DEF TypeInv, TypeOK, CallArgs, PutBlobPublish, Step, PutStep, Objects
<1>1. Items(c)' = Items(c)
  BY <1>0, PutBlobPublishOwn DEF Becomes, Fields, Items
<1>c. Idle.pc = "idle" /\ Idle.object = 0
  BY DEF Idle
<1>2. CASE manifests[h] # 0
  <2>1. UNCHANGED manifests /\ call'[c] \in {Idle, [call[c] EXCEPT !.pc = "discard"]}
    BY <1>0, <1>2 DEF PutBlobPublish, TypeOK
  <2>2. call'[c].pc \in {"idle", "discard"} /\ call'[c].object \in {0, call[c].object}
    <3>1. [call[c] EXCEPT !.pc = "discard"].pc = "discard"
           /\ [call[c] EXCEPT !.pc = "discard"].object = call[c].object
      BY <1>0, CallAt
    <3> QED
      BY <1>c, <2>1, <3>1
  <2> QED
    BY <1>0, <1>1, <2>1, <2>2, ShrinksOwn
<1>3. CASE manifests[h] = 0
  <2>1. manifests' = [manifests EXCEPT ![h] = o] /\ call'[c] = Idle
    BY <1>0, <1>3 DEF PutBlobPublish, TypeOK
  <2>2. \A g \in Hashes : manifests'[g] = IF g = h THEN o ELSE manifests[g]
    BY <1>0, <2>1 DEF TypeOK
  <2>3. \A d \in Clients : Items(d)' = Items(d)
    BY <1>0, <1>1, OthersKept DEF Kept, Items
  <2>4. \A d \in Clients \ {c} : call'[d] = call[d] /\ session'[d].left = session[d].left
    BY <1>0, OthersKept DEF Kept
  <2>5. /\ objects[o] = h /\ \A g \in Hashes : manifests[g] # o
        /\ \A d \in Clients : \A b \in Items(d) : b[2] # o
        /\ \A d \in Clients \ {c} : call[d].object # o
    BY <1>0 DEF BodyInv, StagedInv
  <2>6. ManifestsHaveBodies'
    BY <1>0, <2>2, <2>5 DEF BodyInv, ManifestsHaveBodies
  <2>7. KeysInv'
    <3>1. 0 <= uploads
      BY <1>0, CapsAssumption DEF TypeOK
    <3> QED
      BY <1>0, <1>c, <2>1, <2>2, <2>3, <2>4, <3>1 DEF BodyInv, KeysInv
  <2>8. StagedInv'
    BY <1>0, <1>c, <2>1, <2>2, <2>3, <2>4, <2>5, CapsAssumption
       DEF BodyInv, StagedInv, TypeInv, CallArgs, Objects
  <2>9. ItemsInv'
    BY <2>2, <2>3, <2>5 DEF BodyInv, ItemsInv
  <2>10. DoomedInv'
    <3>1. \A d \in Clients : session[d].left.blobs \subseteq Items(d)
      BY BodyTypes
    <3> QED
      BY <1>c, <2>1, <2>2, <2>4, <2>5, <3>1 DEF BodyInv, DoomedInv
  <2> QED
    BY <2>6, <2>7, <2>8, <2>9, <2>10 DEF BodyInv
<1> QED
  BY <1>2, <1>3

LEMMA BodyPlan ==
  ASSUME TypeInv, BodyInv, NEW c \in Clients, PlanBlobs(c)
  PROVE  BodyInv'
<1>0. /\ TypeOK /\ Step(c) /\ call'[c] = Idle /\ session[c].plan \in Plans
      /\ UNCHANGED <<objects, uploads, manifests>>
  BY SessionTypes DEF TypeInv, TypeOK, PlanBlobs, Step, GCStep, kvVars
<1>1. \A d \in Clients \ {c} : /\ call'[d] = call[d] /\ Items(d)' = Items(d)
                               /\ session'[d].left = session[d].left
  BY <1>0, OthersKept DEF Kept, Items
<1>2. /\ session'[c].left = session[c].left
      /\ session'[c].plan =
           [session[c].plan EXCEPT !.blobs =
              {<<h, manifests[h]>> : h \in {g \in Hashes \ ReachedBlobs(c) : manifests[g] # 0}}]
  BY <1>0, PlanBlobsOwn DEF Becomes, Fields
<1>3. session'[c].plan.blobs =
        {<<h, manifests[h]>> : h \in {g \in Hashes \ ReachedBlobs(c) : manifests[g] # 0}}
  BY <1>0, <1>2 DEF Plans
<1>4. \A b \in Items(c)' : \/ b \in Items(c)
                           \/ b[1] \in Hashes /\ b[2] = manifests[b[1]] /\ manifests[b[1]] # 0
  BY <1>2, <1>3 DEF Items
<1>c. Idle.pc = "idle" /\ Idle.object = 0
  BY DEF Idle
<1>5. ManifestsHaveBodies'
  BY <1>0 DEF BodyInv, ManifestsHaveBodies
<1>6. KeysInv'
  <2>1. 0 <= uploads
    BY <1>0, CapsAssumption DEF TypeOK
  <2> QED
    BY <1>0, <1>1, <1>4, <1>c, <2>1 DEF BodyInv, KeysInv
<1>7. StagedInv'
  BY <1>0, <1>1, <1>4, <1>c, CapsAssumption DEF BodyInv, StagedInv, TypeInv, CallArgs, Objects
<1>8. ItemsInv'
  <2>1. \A g, h \in Hashes : manifests[g] = manifests[h] /\ manifests[h] # 0 => g = h
    BY DEF BodyInv, ManifestsHaveBodies
  <2> QED
    BY <1>0, <1>1, <1>4, <2>1 DEF BodyInv, ItemsInv
<1>9. DoomedInv'
  BY <1>0, <1>1, <1>c DEF BodyInv, DoomedInv
<1> QED
  BY <1>5, <1>6, <1>7, <1>8, <1>9 DEF BodyInv

(* The deletions of bodies. *)
LEMMA BodyDelete ==
  ASSUME TypeInv, BodyInv, NEW c \in Clients,
         PutBlobDiscard(c) \/ SweepBody(c) \/ SweepGCBody(c)
  PROVE  BodyInv'
<1>0. /\ TypeOK /\ Step(c) /\ call[c] \in Calls /\ UNCHANGED <<uploads, manifests>>
  BY DEF TypeInv, TypeOK, PutBlobDiscard, SweepBody, SweepGCBody, Step, PutStep, GCStep, kvVars
<1>c. Idle.pc = "idle" /\ Idle.object = 0
  BY DEF Idle
<1>1. CASE PutBlobDiscard(c)
  <2>1. call[c].pc = "discard" /\ call[c].object # 0
    BY <1>1, CapsAssumption DEF PutBlobDiscard, TypeInv, CallArgs, Objects
  <2>2. \A k \in Objects : objects'[k] = objects[k] \/ k = call[c].object
    BY <1>0, <1>1 DEF PutBlobDiscard, TypeOK
  <2>3. \A k \in Objects : objects'[k] = objects[k] \/ Harmless(k)
    BY <2>1, <2>2, DoomedHarmless
  <2>4. Items(c)' = Items(c) /\ call'[c] = Idle
    BY <1>0, <1>1 DEF PutBlobDiscard, Items, TypeOK
  <2> QED
    BY <1>0, <1>c, <2>3, <2>4, ShrinksOwn
<1>2. CASE SweepGCBody(c)
  <2>1. call[c].pc = "sweep" /\ call[c].object # 0 /\ UNCHANGED session
    BY <1>2 DEF SweepGCBody
  <2>2. \A k \in Objects : objects'[k] = objects[k] \/ k = call[c].object
    BY <1>0, <1>2 DEF SweepGCBody, TypeOK
  <2>3. \A k \in Objects : objects'[k] = objects[k] \/ Harmless(k)
    BY <2>1, <2>2, DoomedHarmless
  <2>4. call'[c].pc = "sweep" /\ call'[c].object = 0
    <3>1. call'[c] = [call[c] EXCEPT !.object = 0]
      BY <1>0, <1>2 DEF SweepGCBody, TypeOK
    <3> QED
      BY <1>0, <2>1, <3>1 DEF Calls
  <2>5. Items(c)' = Items(c)
    BY <2>1 DEF Items
  <2> QED
    BY <1>0, <2>3, <2>4, <2>5, ShrinksOwn
<1>3. CASE SweepBody(c)
  <2>1. call[c].pc = "bodies" /\ UNCHANGED call
    BY <1>3 DEF SweepBody
  <2>2. PICK b \in session[c].left.blobs : objects' = [objects EXCEPT ![b[2]] = NoHash]
    BY <1>3 DEF SweepBody
  <2>3. \A k \in Objects : objects'[k] = objects[k] \/ Harmless(k)
    BY <1>0, <2>1, <2>2, DoomedHarmless DEF TypeOK
  <2>4. /\ session'[c].plan = session[c].plan
        /\ session'[c].left.blobs \subseteq session[c].left.blobs
    BY <1>0, <1>3, SweepOwn DEF Becomes, Fields
  <2>5. Items(c)' \subseteq Items(c)
    BY <2>4 DEF Items
  <2>6. \A d \in session'[c].left.blobs : \A h \in Hashes : manifests'[h] # d[2]
    BY <1>0, <2>1, <2>4 DEF BodyInv, DoomedInv
  <2> QED
    BY <1>0, <2>1, <2>3, <2>5, <2>6, ShrinksOwn
<1> QED
  BY <1>1, <1>2, <1>3

(* The deletions of manifests: what is due then has no other manifest. *)
LEMMA BodySweep ==
  ASSUME TypeInv, BodyInv, NEW c \in Clients, SweepGCFenced(c) \/ SweepGCManifest(c)
  PROVE  BodyInv'
<1>0. /\ TypeOK /\ Step(c) /\ call[c] \in Calls /\ UNCHANGED <<uploads, objects>>
      /\ session[c].plan \in Plans
  BY SessionTypes DEF TypeInv, TypeOK, SweepGCFenced, SweepGCManifest, Step, GCStep
<1>1. ASSUME NEW hs, manifests' = Unlisted(hs)
      PROVE  /\ \A h \in Hashes : manifests'[h] = manifests[h] \/ manifests'[h] = 0
             /\ \A b \in Items(c) : b[1] \in hs => \A h \in Hashes : manifests'[h] # b[2]
  <2>1. \A b \in Items(c) : b[1] \in Hashes /\ b[2] # 0
    BY BodyTypes, CapsAssumption DEF Objects
  <2> QED
    BY <1>1, <2>1 DEF Unlisted, BodyInv, ItemsInv
<1>2. CASE SweepGCFenced(c)
  <2>1. manifests' = Unlisted({b[1] : b \in session[c].plan.blobs}) /\ call[c].pc = "idle"
    BY <1>2 DEF SweepGCFenced
  <2>2. /\ session'[c].plan = session[c].plan
        /\ session'[c].left = [NoPlan EXCEPT !.blobs = session[c].plan.blobs]
    BY <1>0, <1>2, SweepGCFencedOwn DEF Becomes, Fields
  <2>3. session'[c].left.blobs = session[c].plan.blobs
    BY <2>2, PlanTypes DEF Plans
  <2>4. Items(c)' \subseteq Items(c)
    BY <2>2, <2>3 DEF Items
  <2>5. call'[c].pc = "bodies" /\ call'[c].object = call[c].object
    <3>1. call'[c] = [call[c] EXCEPT !.pc = "bodies"]
      BY <1>0, <1>2 DEF SweepGCFenced, TypeOK
    <3> QED
      BY <1>0, <3>1, CallAt
  <2>6. \A b \in session'[c].left.blobs : \A h \in Hashes : manifests'[h] # b[2]
    BY <1>1, <2>1, <2>3 DEF Items
  <2> QED
    BY <1>0, <1>1, <2>1, <2>4, <2>5, <2>6, ShrinksOwn
<1>3. CASE SweepGCManifest(c)
  <2>1. PICK b \in session[c].left.blobs : /\ manifests' = Unlisted({b[1]})
                                           /\ call' = [call EXCEPT ![c].object = b[2]]
    BY <1>3 DEF SweepGCManifest
  <2>2. b \in Items(c) /\ b[2] \in 0..MaxObject
    BY <2>1, BodyTypes, CapsAssumption DEF Items, Objects
  <2>3. \A h \in Hashes : manifests'[h] # b[2]
    BY <1>1, <2>1, <2>2
  <2>4. call'[c].pc = "sweep" /\ call'[c].object = b[2]
    <3>1. call'[c] = [call[c] EXCEPT !.object = b[2]] /\ call[c].pc = "sweep"
      BY <1>0, <1>3, <2>1 DEF SweepGCManifest, TypeOK
    <3> QED
      BY <1>0, <2>2, <3>1, CallObject
  <2>5. /\ session'[c].plan = session[c].plan
        /\ session'[c].left.blobs \subseteq session[c].left.blobs
    BY <1>0, <1>3, SweepOwn DEF Becomes, Fields
  <2>6. Items(c)' \subseteq Items(c)
    BY <2>5 DEF Items
  <2>7. \A h \in Hashes : manifests'[h] = manifests[h] \/ manifests'[h] = 0
    BY <1>1, <2>1
  <2> QED
    BY <1>0, <2>2, <2>3, <2>4, <2>6, <2>7, ShrinksOwn
<1> QED
  BY <1>2, <1>3

(* Everything else. *)
LEMMA BodyRest ==
  ASSUME TypeInv, BodyInv, NEW c \in Clients, Step(c),
         ~PutBlobUpload(c), ~PutBlobPublish(c), ~PutBlobDiscard(c), ~PlanBlobs(c),
         ~SweepGCFenced(c), ~SweepBody(c), ~SweepGCManifest(c), ~SweepGCBody(c)
  PROVE  BodyInv'
<1> USE DEF kvVars, Becomes, Fields
<1>0. TypeOK /\ call[c] \in Calls /\ session[c] \in Sessions /\ session[c].ref \in Refs
      /\ session[c].plan \in Plans
  BY SessionTypes DEF TypeInv, TypeOK
<1>1. UNCHANGED <<objects, uploads, manifests>>
  BY DEF Step, PutStep, RefStep, GCStep, PutBlobFails, PutNode, GetRef, CompareAndSwapRef,
     CompareAndSwapRefFenced, SetRef, DeleteRef, DeleteRefFenced, RemoveRef, AcquireLease,
     ReleaseLease, PlanRoots, PlanWalk, PlanNodes, SweepDone, SweepGC, SweepGCNode, SweepGCDone,
     StoreFails, Crash
<1>c. Idle.pc = "idle" /\ Idle.object = 0 /\ NoPlan.blobs = {}
  BY DEF Idle, NoPlan
<1>2. /\ session'[c].plan.blobs \subseteq Items(c)
      /\ session'[c].left.blobs \subseteq Items(c)
      /\ call[c].pc = "bodies" /\ call'[c].pc = "bodies" => session'[c].left = session[c].left
  <2>1. CASE UNCHANGED session
    BY <2>1 DEF Items
  <2>2. CASE PutNode(c) \/ PlanRoots(c) \/ AcquireLease(c) \/ ReleaseLease(c)
    BY <1>0, <1>c, <2>2, PutNodeOwn, PlanRootsOwn, AcquireLeaseOwn, ReleaseLeaseOwn
       DEF Items, Forgotten
  <2>3. CASE GetRef(c)
    <3>1. PICK r \in Refs :
            session'[c] = [session[c] EXCEPT !.ref = r, !.seen = refs[r].version,
                                             !.since = "nothing"]
      BY <1>0, <2>3 DEF GetRef, TypeOK
    <3>2. session'[c].plan = session[c].plan /\ session'[c].left = session[c].left
      BY <1>0, <3>1 DEF Sessions
    <3> QED
      BY <3>2 DEF Items
  <2>4. CASE SetRef(c) \/ RemoveRef(c)
    <3>1. \E how \in Since : RefWritten(c, session[c].ref, how)
      BY <2>4 DEF SetRef, RemoveRef, Since
    <3>2. /\ session'[c].plan \in {NoPlan, session[c].plan}
          /\ session'[c].left = session[c].left
      BY <1>0, <3>1, WrittenSessions DEF Forgotten
    <3> QED
      BY <1>c, <3>2 DEF Items
  <2>5. CASE PlanNodes(c)
    <3>1. /\ session'[c].plan = [session[c].plan EXCEPT !.nodes = nodes \ call[c].reached]
          /\ session'[c].left = session[c].left
      BY <1>0, <2>5, PlanNodesOwn
    <3>2. session'[c].plan.blobs = session[c].plan.blobs
      BY <1>0, <3>1 DEF Plans
    <3> QED
      BY <3>1, <3>2 DEF Items
  <2>6. CASE SweepGC(c)
    <3>1. session'[c].plan = session[c].plan /\ session'[c].left = session[c].plan
      BY <1>0, <2>6, SweepGCOwn
    <3>2. call[c].pc = "idle"
      BY <2>6 DEF SweepGC
    <3> QED
      BY <3>1, <3>2 DEF Items
  <2>7. CASE SweepGCNode(c)
    <3>1. /\ session'[c].plan = session[c].plan
          /\ session'[c].left.blobs \subseteq session[c].left.blobs
      BY <1>0, <2>7, SweepOwn
    <3>2. call[c].pc = "sweep"
      BY <2>7 DEF SweepGCNode
    <3> QED
      BY <3>1, <3>2 DEF Items
  <2>8. CASE StoreFails(c)
    <3>1. session'[c].plan = session[c].plan /\ session'[c].left = NoPlan
      BY <1>0, <2>8, StoreFailsOwn
    <3>2. call'[c].pc = "idle"
      BY <1>0, <1>c, <2>8 DEF StoreFails, TypeOK
    <3> QED
      BY <1>c, <3>1, <3>2 DEF Items
  <2>9. CASE Crash(c)
    <3>1. session'[c].plan = NoPlan /\ session'[c].left = NoPlan /\ call'[c].pc = "idle"
      BY <1>0, <1>c, <2>9 DEF Crash, FreshSession, TypeOK
    <3> QED
      BY <1>c, <3>1 DEF Items
  <2>10. CASE PutBlobFails(c) \/ PlanWalk(c) \/ SweepDone(c) \/ SweepGCDone(c)
    BY <2>1, <2>10 DEF PutBlobFails, PlanWalk, SweepDone, SweepGCDone
  <2> QED
    BY <2>2, <2>3, <2>4, <2>5, <2>6, <2>7, <2>8, <2>9, <2>10
       DEF Step, PutStep, RefStep, GCStep, CompareAndSwapRef, CompareAndSwapRefFenced,
           DeleteRef, DeleteRefFenced
<1>3. /\ call'[c].pc = "publish" => call'[c] = call[c]
      /\ call'[c].object = call[c].object \/ call'[c].object = 0
      /\ call'[c].pc = "bodies" => call[c].pc = "bodies"
  <2>1. CASE UNCHANGED call
    BY <2>1
  <2>2. CASE call'[c] = Idle
    BY <1>c, <2>2
  <2>3. CASE PutBlobFails(c) \/ PlanNodes(c) \/ SweepGC(c)
    <3>1. PICK p \in {"discard", "blobs", "sweep"} : call'[c] = [call[c] EXCEPT !.pc = p]
      BY <1>0, <2>3 DEF PutBlobFails, PlanNodes, SweepGC, TypeOK
    <3>2. call'[c].pc = p /\ call'[c].object = call[c].object
      BY <1>0, <3>1, CallAt
    <3> QED
      BY <3>1, <3>2
  <2>4. CASE PlanRoots(c)
    <3>1. PICK f : call'[c] = [Idle EXCEPT !.pc = "walk", !.front = f]
      BY <1>0, <2>4 DEF PlanRoots, TypeOK
    <3>2. call'[c].pc = "walk" /\ call'[c].object = 0
      BY <3>1 DEF Idle
    <3> QED
      BY <3>2
  <2>5. CASE PlanWalk(c)
    <3>1. PICK n \in call[c].front :
            \/ call'[c] = Idle
            \/ call'[c] = [call[c] EXCEPT !.reached = call[c].reached \cup {n},
                                          !.front = (call[c].front \cup ChildrenOf[n])
                                                      \ (call[c].reached \cup {n})]
      BY <1>0, <2>5 DEF PlanWalk, Below, TypeOK
    <3>2. CASE call'[c] # Idle
      <4>1. call'[c].pc = call[c].pc /\ call'[c].object = call[c].object /\ call[c].pc = "walk"
        BY <1>0, <2>5, <3>1, <3>2 DEF Calls, PlanWalk
      <4> QED
        BY <4>1
    <3> QED
      BY <2>2, <3>2
  <2>6. CASE SweepDone(c) \/ SweepGCDone(c) \/ StoreFails(c) \/ Crash(c)
    BY <1>0, <2>2, <2>6 DEF SweepDone, SweepGCDone, StoreFails, Crash, TypeOK
  <2>7. CASE PutNode(c) \/ RefStep(c) \/ SweepGCNode(c)
    BY <2>1, <2>7 DEF PutNode, RefStep, GetRef, CompareAndSwapRef, CompareAndSwapRefFenced, SetRef,
       DeleteRef, DeleteRefFenced, RemoveRef, AcquireLease, ReleaseLease, SweepGCNode
  <2> QED
    BY <2>3, <2>4, <2>5, <2>6, <2>7 DEF Step, PutStep, GCStep
<1>4. Items(c)' \subseteq Items(c)
  BY <1>2 DEF Items
<1>5. call'[c].pc = "bodies" =>
        \A b \in session'[c].left.blobs : \A h \in Hashes : manifests'[h] # b[2]
  BY <1>1, <1>2, <1>3 DEF BodyInv, DoomedInv
<1> QED
  BY <1>1, <1>3, <1>4, <1>5, ShrinksOwn

(* Whatever its callers do and wherever they fail, a manifest never names  *)
(* a body that is missing or holds other content: bodies have keys of      *)
(* their own, and a sweep deletes a body only after its manifest.          *)
THEOREM BodiesStay == Spec => []ManifestsHaveBodies
<1>1. Init => BodyInv
  <2>1. /\ Idle.pc = "idle" /\ Idle.object = 0
        /\ FreshSession.plan.blobs = {} /\ FreshSession.left.blobs = {}
    BY DEF Idle, FreshSession, NoPlan
  <2> QED
    BY <2>1 DEF Init, BodyInv, ManifestsHaveBodies, KeysInv, StagedInv, ItemsInv, DoomedInv, Items
<1>2. ASSUME TypeInv, BodyInv, NEW c \in Clients, Step(c) PROVE BodyInv'
  BY <1>2, BodyUpload, BodyPublish, BodyPlan, BodyDelete, BodySweep, BodyRest
<1>3. BodyInv /\ UNCHANGED vars => BodyInv'
  BY DEF vars, BodyInv, ManifestsHaveBodies, KeysInv, StagedInv, ItemsInv, DoomedInv, Items
<1>4. TypeInv /\ BodyInv /\ [Next]_vars => BodyInv'
  BY <1>2, <1>3 DEF Next, Step
<1>5. BodyInv => ManifestsHaveBodies
  BY DEF BodyInv
<1> QED
  BY <1>1, <1>4, <1>5, TypeInvariance, PTL DEF Spec
=============================================================================
