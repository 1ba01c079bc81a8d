------------------------------ MODULE Storage ------------------------------
(***************************************************************************)
(* The Engine of storage/storage.go: a KV and a BlobStore that clients     *)
(* use, and Engine.Close, which closes both once while they are in use.    *)
(* The application may also close the KV itself.                           *)
(***************************************************************************)
EXTENDS KV, Blobs, Scans

VARIABLES
  once,    \* closeOnce: new, running or done
  closer   \* what each closer is in the middle of

engineVars == <<once, closer>>
vars == <<kvVars, blobVars, engineVars>>

(* A Close that returns at once if another one is under way. *)
OnceEntersUnwaited == IF once = "new" THEN "kv" ELSE "returned"

(* closeOnce.Do: the first caller closes, the others wait for it. *)
OnceEnters == IF once = "new" THEN "kv" ELSE "once"

EngineClose(x) ==
  /\ closer[x] = "idle"
  /\ closer' = [closer EXCEPT ![x] = OnceEnters]
  /\ IF once = "new" THEN once' = "running" /\ CloseCalled(x)
     ELSE UNCHANGED <<once, kvVars>>
  /\ UNCHANGED blobVars

EngineKVClosed(x) ==
  /\ closer[x] = "kv"
  /\ CloseLocked(x)
  /\ closer' = [closer EXCEPT ![x] = "blobs"]
  /\ UNCHANGED <<blobVars, once>>

EngineBlobsClosed(x) ==
  /\ closer[x] = "blobs"
  /\ BlobsClose
  /\ once' = "done"
  /\ closer' = [closer EXCEPT ![x] = "returned"]
  /\ UNCHANGED kvVars

EngineCloseWaited(x) ==
  /\ closer[x] = "once"
  /\ once = "done"
  /\ closer' = [closer EXCEPT ![x] = "returned"]
  /\ UNCHANGED <<kvVars, blobVars, once>>

(* The application calls Metadata.Close. *)
DirectClose(x) ==
  /\ closer[x] = "idle"
  /\ CloseCalled(x)
  /\ closer' = [closer EXCEPT ![x] = "direct"]
  /\ UNCHANGED <<blobVars, once>>

DirectClosed(x) ==
  /\ closer[x] = "direct"
  /\ CloseLocked(x)
  /\ closer' = [closer EXCEPT ![x] = "idle"]
  /\ UNCHANGED <<blobVars, once>>

Init ==
  /\ KVInit
  /\ BlobsInit
  /\ once = "new"
  /\ closer = [x \in Closers |-> "idle"]

CloseStep(x) ==
  \/ EngineClose(x) \/ EngineKVClosed(x) \/ EngineBlobsClosed(x) \/ EngineCloseWaited(x)
  \/ DirectClose(x) \/ DirectClosed(x)

Next ==
  \/ \E c \in Clients : KVStep(c) /\ UNCHANGED <<blobVars, engineVars>>
  \/ \E u \in Uploaders : BlobsStep(u) /\ UNCHANGED <<kvVars, engineVars>>
  \/ \E x \in Closers : CloseStep(x)

Spec == Init /\ [][Next]_vars

-----------------------------------------------------------------------------
(* Properties *)

(* The values of the stores, their users and the engine. *)
TypeOK ==
  /\ backend \in {"memory", "slatedb"} /\ service \in {"memory", "s3"}
  /\ data \in Serial!Contents
  /\ tx \in [Clients -> Transactions]
  /\ holders \subseteq Clients /\ closers \subseteq Closers
  /\ kv \in [closed: BOOLEAN, handle: {"open", "destroyed"}]
  /\ object \in Lengths \cup {NoObject}
  /\ put \in [Uploaders -> Puts]
  /\ blobsClosed \in BOOLEAN
  /\ once \in {"new", "running", "done"}
  /\ closer \in [Closers -> {"idle", "kv", "blobs", "once", "direct", "returned"}]

(* Both implementations keep the promise of storage.KV: a transaction      *)
(* whose callback and commit succeed takes effect as if it had run alone,  *)
(* its own writes visible to its reads and scans; one that fails changes   *)
(* nothing, or all if the commit's outcome is unknown.                     *)
Serializable == Serial!Spec

(* A transaction uses the SlateDB handle only before Close destroys it,    *)
(* and Close destroys it under nobody, however their locks interleave.     *)
HandleOutlivesUse ==
  \A c \in Clients : tx[c].pc # "idle" => c \in holders /\ kv.handle = "open"

(* Each transaction is committed or rolled back exactly once, counting the *)
(* deferred rollback, also if its callback fails or panics.                *)
TxnEndedOnce ==
  \A c \in Clients :
    tx[c].pc = "ended" => tx[c].ended + (IF tx[c].finished THEN 0 ELSE 1) = 1

(* When any Engine.Close returns, also one that came second, both stores   *)
(* are closed and no transaction is under way.                             *)
CloseReturnsClosed ==
  \A x \in Closers : closer[x] = "returned" =>
    /\ kv.closed /\ \A c \in Clients : tx[c].pc = "idle"
    /\ service = "memory" => blobsClosed

(* A Put stores a body only if it is complete and has the declared size,   *)
(* and refuses none that has it, however the reader cuts it into pieces.   *)
SizesExact ==
  \A u \in Uploaders :
    /\ put[u].pc = "store" => put[u].taken = put[u].body /\ put[u].size \in {Unknown, put[u].body}
    /\ put[u].pc = "mismatch" => put[u].size \notin {Unknown, put[u].body}

(* GetBlob of a range delivers exactly that range, cut at the end of the   *)
(* object, from either store; it fails for the others.                     *)
RangesExact ==
  object # NoObject =>
    \A start, end \in -1..(object + 1) :
      LET to == IF end = -1 \/ end > object THEN object ELSE end IN
        GetBlob(object, start, end) = IF start \in 0..to THEN <<start, to>> ELSE NoRange

ShortKeys == {NoKey} \cup {<<a>> : a \in 0..TopByte} \cup {<<a, b>> : a, b \in 0..TopByte}

(* s is what a scan of keys has to return: keys that it asks for, in       *)
(* order, and, up to its limit, all of them.                               *)
IsScan(s, keys, opts) ==
  LET Before(a, b) == IF opts.reverse THEN KeyLess(b, a) ELSE KeyLess(a, b)
      wanted == {k \in keys : /\ \A i \in DOMAIN opts.prefix :
                                     i \in DOMAIN k /\ k[i] = opts.prefix[i]
                              /\ opts.after # NoKey => Before(opts.after, k)}
      found  == {s[i] : i \in DOMAIN s}
  IN /\ \A i, j \in DOMAIN s : i < j => Before(s[i], s[j])
     /\ found \subseteq wanted
     /\ opts.limit > 0 => Len(s) <= opts.limit
     /\ wanted # found => /\ opts.limit > 0 /\ Len(s) = opts.limit
                          /\ \A k \in wanted \ found, f \in found : Before(f, k)

ScanOptions == [prefix: ShortKeys, after: ShortKeys, limit: 0..2, reverse: BOOLEAN]

MemoryScansExact ==
  \A keys \in SUBSET ShortKeys, opts \in ScanOptions : IsScan(scanEntries(keys, opts), keys, opts)

SlateDBScansExact ==
  \A keys \in SUBSET ShortKeys, opts \in ScanOptions : IsScan(scanWith(keys, opts), keys, opts)

(* A scan of an open store returns exactly the keys of its prefix and its  *)
(* continuation, in either direction and up to its limit, from either      *)
(* store, also for keys that contain 0xFF.                                 *)
ScansExact ==
  ~kv.closed => IF backend = "memory" THEN MemoryScansExact ELSE SlateDBScansExact
=============================================================================
