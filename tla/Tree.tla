-------------------------------- MODULE Tree --------------------------------
(***************************************************************************)
(* The content-addressed tree of tree/tree.go: blob bodies in a BlobStore; *)
(* manifests, nodes, refs and one lease in a transactional KV.  Every      *)
(* t.transaction(...), every single KV call and every BlobStore call is a  *)
(* step; the calls of several clients interleave between them.  Content    *)
(* addressing makes the children and blobs of a node ID constants.         *)
(***************************************************************************)
EXTENDS Integers

CONSTANTS
  Nodes,        \* node IDs
  Hashes,       \* blob hashes
  ChildrenOf,   \* the children of each node
  BlobsOf,      \* the blobs of each node
  Refs,         \* ref names
  Clients,      \* callers of the tree
  NoNode,       \* the node of a ref that does not exist
  NoHash,       \* what the BlobStore holds under a key that is not there
  Disciplined,  \* callers publish and sweep the way SweepGCFenced asks for
  Releases,     \* callers call ReleaseLease
  Deletes,      \* callers call DeleteRef or DeleteRefFenced
  Faults,       \* stores return errors and clients crash
  MaxToken,     \* bound: AcquireLease hands out tokens up to this one
  MaxObject,    \* bound: so many bodies are uploaded
  MaxVersion    \* bound: no ref is moved past this version

ASSUME GraphAssumption ==
  ChildrenOf \in [Nodes -> SUBSET Nodes] /\ BlobsOf \in [Nodes -> SUBSET Hashes]
ASSUME RefsAssumption == Refs # {}
ASSUME NothingAssumption == NoNode \notin Nodes /\ NoHash \notin Hashes
ASSUME CallersAssumption == {Disciplined, Releases, Deletes, Faults} \subseteq BOOLEAN
ASSUME CapsAssumption ==
  MaxToken \in Nat \ {0} /\ MaxObject \in Nat \ {0} /\ MaxVersion \in Nat \ {0}

VARIABLES
  objects,    \* BlobStore: the content under each object key
  uploads,    \* how many staging keys randomHex has made
  manifests,  \* KV: the object key in the manifest of each hash, 0 if none
  nodes,      \* KV: the nodes that are stored
  refs,       \* KV: node and version of each ref; version 0 if it is not there
  lease,      \* KV: the token of the lease, 0 if it is not there
  call,       \* what each client is in the middle of
  session     \* what each client keeps between its calls

kvVars == <<manifests, nodes, refs, lease>>
vars == <<objects, uploads, manifests, nodes, refs, lease, call, session>>

Objects == 1..MaxObject

NoRef == [node |-> NoNode, version |-> 0]

(* pc: publish and discard (PutBlob), walk and blobs                        *)
(* (PlanGC), sweep (SweepGC), bodies (either sweep, its manifests gone).   *)
Calls == [pc: {"idle", "publish", "discard", "walk", "blobs", "sweep", "bodies"},
          hash: Hashes \cup {NoHash}, object: 0..MaxObject,
          front: SUBSET Nodes, reached: SUBSET Nodes]

Idle == [pc |-> "idle", hash |-> NoHash, object |-> 0, front |-> {}, reached |-> {}]

(* A GCPlan: unreachable nodes, and the object keys of unreachable blobs.  *)
Plans == [nodes: SUBSET Nodes, blobs: SUBSET (Hashes \X Objects)]
NoPlan == [nodes |-> {}, blobs |-> {}]

(* token: of the last AcquireLease, 0 once released.  putNodes, putBlobs:  *)
(* what it stored since then and since its last sweep.  ref, seen: its     *)
(* last GetRef.  since: a ghost, what happened to the ref since then.      *)
(* left: what this sweep still has to delete of the plan.                  *)
Sessions == [token: 0..MaxToken, putNodes: SUBSET Nodes, putBlobs: SUBSET Hashes,
             plan: Plans, left: Plans, ref: Refs, seen: 0..MaxVersion,
             since: {"nothing", "written", "deleted"}]

FreshSession == [token |-> 0, putNodes |-> {}, putBlobs |-> {}, plan |-> NoPlan,
                 left |-> NoPlan, ref |-> CHOOSE r \in Refs : TRUE, seen |-> 0,
                 since |-> "nothing"]

(* Disciplined callers remember what they have stored, and forget a plan.  *)
Remembered(puts) == IF Disciplined THEN puts ELSE {}
Forgotten(plan) == IF Disciplined THEN NoPlan ELSE plan

(* S is the node n with everything below it, and all its blobs are in B. *)
Covers(n, S, B) ==
  n \in S /\ \A m \in S : ChildrenOf[m] \subseteq S /\ BlobsOf[m] \subseteq B

-----------------------------------------------------------------------------
(* PutBlob *)

(* A body stored under its hash instead of under a key of its own. *)
StagingKeyByHash(h, n) == 1

(* blobPrefix + "staging/" + randomHex(16) *)
StagingKey(h, n) == n

PutBlobUpload(c) ==
  /\ call[c].pc = "idle"
  /\ uploads < MaxObject
  /\ \E h \in Hashes :
       LET key == StagingKey(h, uploads + 1) IN
         /\ objects' = [objects EXCEPT ![key] = h]
         /\ call' = [call EXCEPT ![c] =
                       [Idle EXCEPT !.pc = "publish", !.hash = h, !.object = key]]
  /\ uploads' = uploads + 1
  /\ UNCHANGED <<kvVars, session>>

(* The manifest's transaction: the first upload of a hash wins, a later    *)
(* one takes over its manifest and discards its own body.                  *)
PutBlobPublish(c) ==
  /\ call[c].pc = "publish"
  /\ \/ /\ manifests[call[c].hash] = 0
        /\ manifests' = [manifests EXCEPT ![call[c].hash] = call[c].object]
        /\ call' = [call EXCEPT ![c] = Idle]
     \/ /\ manifests[call[c].hash] # 0
        /\ call' = [call EXCEPT ![c] =
                      IF manifests[call[c].hash] # call[c].object
                      THEN [@ EXCEPT !.pc = "discard"] ELSE Idle]
        /\ UNCHANGED manifests
  /\ session' = [session EXCEPT ![c].putBlobs = Remembered(@ \cup {call[c].hash})]
  /\ UNCHANGED <<objects, uploads, nodes, refs, lease>>

(* A hash mismatch, a failed Stat or a failed transaction. *)
PutBlobFails(c) ==
  /\ Faults
  /\ call[c].pc = "publish"
  /\ call' = [call EXCEPT ![c].pc = "discard"]
  /\ UNCHANGED <<objects, uploads, kvVars, session>>

PutBlobDiscard(c) ==
  /\ call[c].pc = "discard"
  /\ \/ objects' = [objects EXCEPT ![call[c].object] = NoHash]
     \/ Faults /\ UNCHANGED objects
  /\ call' = [call EXCEPT ![c] = Idle]
  /\ UNCHANGED <<uploads, kvVars, session>>

-----------------------------------------------------------------------------
(* Nodes, refs and the lease *)

PutNode(c) ==
  /\ call[c].pc = "idle"
  /\ \E n \in Nodes :
       /\ nodes' = nodes \cup {n}
       /\ session' = [session EXCEPT ![c].putNodes = Remembered(@ \cup {n})]
  /\ UNCHANGED <<objects, uploads, manifests, refs, lease, call>>

GetRef(c) ==
  /\ call[c].pc = "idle"
  /\ \E r \in Refs :
       session' = [session EXCEPT ![c] =
                     [@ EXCEPT !.ref = r, !.seen = refs[r].version, !.since = "nothing"]]
  /\ UNCHANGED <<objects, uploads, kvVars, call>>

(* checkFenceTx *)
HoldsFence(c) == lease # 0 /\ session[c].token = lease

(* The ref r is written or deleted by c: what was seen of it is out of     *)
(* date, and a disciplined c forgets its plan.                             *)
RefWritten(c, r, how) ==
  session' = [d \in Clients |->
                [session[d] EXCEPT
                   !.since = IF session[d].ref = r /\ @ # "deleted" THEN how ELSE @,
                   !.plan = IF d = c THEN Forgotten(@) ELSE @]]

(* What callers do that let one lease order publications and sweeps: they  *)
(* have stored the whole tree since they acquired the lease.               *)
Prepared(c, n) ==
  Disciplined => \E S \in SUBSET session[c].putNodes : Covers(n, S, session[c].putBlobs)

(* A swap that does not look at the version. *)
RefExpectedAny(c) == TRUE

RefExpected(c) == refs[session[c].ref].version = session[c].seen

SetRef(c) ==
  \E n \in Nodes :
    /\ n \in nodes
    /\ RefExpected(c)
    /\ refs[session[c].ref].version < MaxVersion
    /\ Prepared(c, n)
    /\ refs' = [refs EXCEPT ![session[c].ref] =
                  [node |-> n, version |-> refs[session[c].ref].version + 1]]
    /\ RefWritten(c, session[c].ref, "written")
    /\ UNCHANGED <<objects, uploads, manifests, nodes, lease, call>>

CompareAndSwapRef(c) ==
  /\ ~Disciplined
  /\ call[c].pc = "idle"
  /\ SetRef(c)

CompareAndSwapRefFenced(c) ==
  /\ call[c].pc = "idle"
  /\ HoldsFence(c)
  /\ SetRef(c)

RemoveRef(c) ==
  /\ Deletes
  /\ refs[session[c].ref].version # 0
  /\ RefExpected(c)
  /\ refs' = [refs EXCEPT ![session[c].ref] = NoRef]
  /\ RefWritten(c, session[c].ref, "deleted")
  /\ UNCHANGED <<objects, uploads, manifests, nodes, lease, call>>

DeleteRef(c) ==
  /\ ~Disciplined
  /\ call[c].pc = "idle"
  /\ RemoveRef(c)

DeleteRefFenced(c) ==
  /\ call[c].pc = "idle"
  /\ HoldsFence(c)
  /\ RemoveRef(c)

(* An AcquireLease that renews the lease without a new token. *)
NextTokenRenewed(t) == IF t = 0 THEN 1 ELSE t

NextToken(t) == t + 1

(* A new token; what the client stored under its old one does not count    *)
(* for it, and a disciplined client forgets its plan.                      *)
AcquireLease(c) ==
  /\ call[c].pc = "idle"
  /\ NextToken(lease) <= MaxToken
  /\ lease' = NextToken(lease)
  /\ session' = [session EXCEPT ![c] =
                   [@ EXCEPT !.token = NextToken(lease), !.putNodes = {}, !.putBlobs = {},
                             !.plan = Forgotten(session[c].plan)]]
  /\ UNCHANGED <<objects, uploads, manifests, nodes, refs, call>>

ReleaseLease(c) ==
  /\ Releases
  /\ call[c].pc = "idle"
  /\ HoldsFence(c)
  /\ lease' = 0
  /\ session' = [session EXCEPT ![c].token = 0]
  /\ UNCHANGED <<objects, uploads, manifests, nodes, refs, call>>

-----------------------------------------------------------------------------
(* PlanGC: scan of the refs, walk, scan of the nodes, scan of the manifests *)

PlanRoots(c) ==
  /\ call[c].pc = "idle"
  /\ call' = [call EXCEPT ![c] =
                [Idle EXCEPT !.pc = "walk", !.front = {refs[r].node : r \in Refs} \ {NoNode}]]
  /\ session' = [session EXCEPT ![c].plan = NoPlan]
  /\ UNCHANGED <<objects, uploads, kvVars>>

(* A walk that does not descend into the children. *)
BelowForgotten(n) == {}

(* A walk that follows the blobs of a node instead of its children. *)
BelowBlobs(n) == BlobsOf[n]

Below(n) == ChildrenOf[n]

(* One call of walk; a node that is missing aborts PlanGC. *)
PlanWalk(c) ==
  /\ call[c].pc = "walk"
  /\ \E n \in call[c].front :
       call' = [call EXCEPT ![c] =
                  IF n \in nodes
                  THEN [@ EXCEPT !.reached = call[c].reached \cup {n},
                                 !.front = (call[c].front \cup Below(n))
                                             \ (call[c].reached \cup {n})]
                  ELSE Idle]
  /\ UNCHANGED <<objects, uploads, kvVars, session>>

PlanNodes(c) ==
  /\ call[c].pc = "walk"
  /\ call[c].front = {}
  /\ session' = [session EXCEPT ![c].plan.nodes = nodes \ call[c].reached]
  /\ call' = [call EXCEPT ![c].pc = "blobs"]
  /\ UNCHANGED <<objects, uploads, kvVars>>

ReachedBlobs(c) == UNION {BlobsOf[n] : n \in call[c].reached}

PlanBlobs(c) ==
  /\ call[c].pc = "blobs"
  /\ session' = [session EXCEPT ![c].plan.blobs =
                   {<<h, manifests[h]>> : h \in {g \in Hashes \ ReachedBlobs(c) : manifests[g] # 0}}]
  /\ call' = [call EXCEPT ![c] = Idle]
  /\ UNCHANGED <<objects, uploads, kvVars>>

-----------------------------------------------------------------------------
(* The sweeps *)

Planned(c) == session[c].plan # NoPlan

Unlisted(hs) == [h \in Hashes |-> IF h \in hs THEN 0 ELSE manifests[h]]

(* The fenced transaction, and after it the bodies one by one. *)
SweepGCFenced(c) ==
  /\ call[c].pc = "idle"
  /\ Planned(c)
  /\ HoldsFence(c)
  /\ nodes' = nodes \ session[c].plan.nodes
  /\ manifests' = Unlisted({b[1] : b \in session[c].plan.blobs})
  /\ session' = [session EXCEPT ![c] =
                   [@ EXCEPT !.left = [NoPlan EXCEPT !.blobs = session[c].plan.blobs],
                             !.putNodes = {}, !.putBlobs = {}]]
  /\ call' = [call EXCEPT ![c].pc = "bodies"]
  /\ UNCHANGED <<objects, uploads, refs, lease>>

SweepBody(c) ==
  /\ call[c].pc = "bodies"
  /\ \E b \in session[c].left.blobs :
       /\ objects' = [objects EXCEPT ![b[2]] = NoHash]
       /\ session' = [session EXCEPT ![c].left.blobs = @ \ {b}]
  /\ UNCHANGED <<uploads, kvVars, call>>

SweepDone(c) ==
  /\ call[c].pc = "bodies"
  /\ session[c].left.blobs = {}
  /\ call' = [call EXCEPT ![c] = Idle]
  /\ UNCHANGED <<objects, uploads, kvVars, session>>

(* SweepGC has no transaction: node by node, then for each blob its        *)
(* manifest and its body.                                                  *)
SweepGC(c) ==
  /\ ~Disciplined
  /\ call[c].pc = "idle"
  /\ Planned(c)
  /\ session' = [session EXCEPT ![c].left = session[c].plan]
  /\ call' = [call EXCEPT ![c].pc = "sweep"]
  /\ UNCHANGED <<objects, uploads, kvVars>>

SweepGCNode(c) ==
  /\ call[c].pc = "sweep"
  /\ \E n \in session[c].left.nodes :
       /\ nodes' = nodes \ {n}
       /\ session' = [session EXCEPT ![c].left.nodes = @ \ {n}]
  /\ UNCHANGED <<objects, uploads, manifests, refs, lease, call>>

(* The manifest of the next blob goes, its body is due (object). *)
SweepGCManifest(c) ==
  /\ call[c].pc = "sweep"
  /\ session[c].left.nodes = {}
  /\ call[c].object = 0
  /\ \E b \in session[c].left.blobs :
       /\ manifests' = Unlisted({b[1]})
       /\ call' = [call EXCEPT ![c].object = b[2]]
       /\ session' = [session EXCEPT ![c].left.blobs = @ \ {b}]
  /\ UNCHANGED <<objects, uploads, nodes, refs, lease>>

SweepGCBody(c) ==
  /\ call[c].pc = "sweep"
  /\ call[c].object # 0
  /\ objects' = [objects EXCEPT ![call[c].object] = NoHash]
  /\ call' = [call EXCEPT ![c].object = 0]
  /\ UNCHANGED <<uploads, kvVars, session>>

SweepGCDone(c) ==
  /\ call[c].pc = "sweep"
  /\ session[c].left = NoPlan
  /\ call[c].object = 0
  /\ call' = [call EXCEPT ![c] = Idle]
  /\ UNCHANGED <<objects, uploads, kvVars, session>>

-----------------------------------------------------------------------------
(* A store returns an error: the call ends, the caller may try again. *)
StoreFails(c) ==
  /\ Faults
  /\ call[c].pc \notin {"idle", "publish", "discard"}
  /\ call' = [call EXCEPT ![c] = Idle]
  /\ session' = [session EXCEPT ![c].left = NoPlan]
  /\ UNCHANGED <<objects, uploads, kvVars>>

Crash(c) ==
  /\ Faults
  /\ call' = [call EXCEPT ![c] = Idle]
  /\ session' = [session EXCEPT ![c] = FreshSession]
  /\ UNCHANGED <<objects, uploads, kvVars>>

Init ==
  /\ objects = [k \in Objects |-> NoHash]
  /\ uploads = 0
  /\ manifests = [h \in Hashes |-> 0]
  /\ nodes = {}
  /\ refs = [r \in Refs |-> NoRef]
  /\ lease = 0
  /\ call = [c \in Clients |-> Idle]
  /\ session = [c \in Clients |-> FreshSession]

PutStep(c) ==
  \/ PutBlobUpload(c) \/ PutBlobPublish(c) \/ PutBlobFails(c) \/ PutBlobDiscard(c)
  \/ PutNode(c)

RefStep(c) ==
  \/ GetRef(c) \/ CompareAndSwapRef(c) \/ CompareAndSwapRefFenced(c)
  \/ DeleteRef(c) \/ DeleteRefFenced(c) \/ AcquireLease(c) \/ ReleaseLease(c)

GCStep(c) ==
  \/ PlanRoots(c) \/ PlanWalk(c) \/ PlanNodes(c) \/ PlanBlobs(c)
  \/ SweepGCFenced(c) \/ SweepBody(c) \/ SweepDone(c)
  \/ SweepGC(c) \/ SweepGCNode(c) \/ SweepGCManifest(c) \/ SweepGCBody(c) \/ SweepGCDone(c)

Next == \E c \in Clients : PutStep(c) \/ RefStep(c) \/ GCStep(c) \/ StoreFails(c) \/ Crash(c)

Spec == Init /\ [][Next]_vars

-----------------------------------------------------------------------------
(* Properties *)

(* The values the stores, the calls and the sessions range over. *)
TypeOK ==
  /\ objects \in [Objects -> Hashes \cup {NoHash}]
  /\ uploads \in 0..MaxObject
  /\ manifests \in [Hashes -> 0..MaxObject]
  /\ nodes \subseteq Nodes
  /\ refs \in [Refs -> [node: Nodes \cup {NoNode}, version: 0..MaxVersion]]
  /\ lease \in 0..MaxToken
  /\ call \in [Clients -> Calls]
  /\ session \in [Clients -> Sessions]

(* A manifest never names a body that is missing or that holds other       *)
(* content, whatever uploads, plans and sweeps of any callers do: GetBlob  *)
(* finds what StatBlob promises.                                           *)
ManifestsHaveBodies ==
  \A h \in Hashes : manifests[h] # 0 => objects[manifests[h]] = h

(* Every ref leads to a complete tree: no node below it and no blob of     *)
(* them is swept, although puts are not fenced, a fenced-off caller keeps  *)
(* running, and a sweep deletes bodies after its transaction.              *)
RefsComplete ==
  \A r \in Refs : refs[r].version # 0 =>
    \E S \in SUBSET nodes : Covers(refs[r].node, S, {h \in Hashes : manifests[h] # 0})

(* The lease fences off every holder but the last one: two clients never   *)
(* both pass the fence.                                                    *)
OneFenceHolder == \A c, d \in Clients : HoldsFence(c) /\ HoldsFence(d) => c = d

(* A client overwrites or deletes a ref that exists only if nobody wrote   *)
(* it since the client's GetRef: a matching version hides no write (no     *)
(* lost update of a ref), unless the ref was deleted and made again in     *)
(* between, when its versions have started again from 1.                   *)
RefWritesAreCurrent ==
  [][\A c \in Clients :
       (SetRef(c) \/ RemoveRef(c)) /\ refs[session[c].ref].version # 0
         => session[c].since # "written"]_vars

(* CompareAndSwapRefFenced overwrites a ref only when the caller's version *)
(* or its token is current, as its comment says of both: a client never    *)
(* overwrites what it has not seen while another client holds the fence.   *)
StaleHoldersAreFenced ==
  [][\A c, d \in Clients :
       /\ CompareAndSwapRefFenced(c) /\ refs[session[c].ref].version # 0
       /\ session[c].since # "nothing"
       /\ HoldsFence(d)
       => c = d]_vars
=============================================================================
