------------------------------- MODULE Blobs -------------------------------
(***************************************************************************)
(* The two implementations of storage.BlobStore, MemoryBlobStore           *)
(* (storage/memory.go) and S3BlobStore (storage/s3.go), for one key.  A    *)
(* Put reads a body of some length, piece by piece, and compares it with   *)
(* the declared size; only then is the object there.  Of a body only its   *)
(* length matters.  A failed call changes nothing.                         *)
(***************************************************************************)
EXTENDS Integers

CONSTANTS
  Uploaders,   \* goroutines that call the store
  Lengths      \* bound: lengths of bodies

ASSUME LengthsAssumption == Lengths \subseteq Nat

VARIABLES
  service,     \* "memory" or "s3"
  object,      \* the length of the object, NoObject if it is not there
  put,         \* the Put that each uploader is in
  blobsClosed  \* the closed flag of MemoryBlobStore

blobVars == <<service, object, put, blobsClosed>>

NoObject == -1
Unknown  == -1   \* the declared size if the caller has none

(* left: what the reader still has.  taken: what went on to the store.     *)
Puts == [pc: {"idle", "read", "store", "mismatch"}, body: Lengths \cup {0}, size: Lengths \cup {Unknown},
         left: Nat, taken: Nat]

NoPut == [pc |-> "idle", body |-> 0, size |-> Unknown, left |-> 0, taken |-> 0]

PutBegin(u) ==
  /\ put[u].pc = "idle"
  /\ \E n \in Lengths, size \in Lengths \cup {Unknown} :
       put' = [put EXCEPT ![u] = [NoPut EXCEPT !.pc = "read", !.body = n, !.size = size, !.left = n]]
  /\ UNCHANGED <<service, object, blobsClosed>>

-----------------------------------------------------------------------------
(* MemoryBlobStore.Put: io.Copy of a LimitReader, or io.ReadAll. *)

ReadLimit(size) == size + 1

PutReadAll(u) ==
  LET p == put[u]
      n == IF p.size = Unknown \/ p.body <= ReadLimit(p.size) THEN p.body ELSE ReadLimit(p.size)
  IN
  /\ service = "memory"
  /\ p.pc = "read"
  /\ put' = [put EXCEPT ![u] =
               [p EXCEPT !.pc = IF p.size \in {Unknown, n} THEN "store" ELSE "mismatch",
                         !.taken = n, !.left = @ - n]]
  /\ UNCHANGED <<service, object, blobsClosed>>

-----------------------------------------------------------------------------
(* S3BlobStore.Put: the uploader calls exactSizeReader.Read until EOF. *)

Remaining(p) == p.size - p.taken

(* A read of n bytes, with or without EOF, while bytes are due. *)
Piece(p, n, eof) ==
  [p EXCEPT !.taken = @ + n, !.left = @ - n,
            !.pc = IF eof /\ Remaining(p) - n > 0 THEN "mismatch" ELSE "read"]

PutReadPiece(u) ==
  /\ service = "s3"
  /\ put[u].pc = "read" /\ put[u].size # Unknown /\ Remaining(put[u]) > 0
  /\ \E n \in 0..put[u].left, eof \in BOOLEAN :
       /\ n <= Remaining(put[u])
       /\ eof => n = put[u].left
       /\ put' = [put EXCEPT ![u] = Piece(@, n, eof)]
  /\ UNCHANGED <<service, object, blobsClosed>>

(* The end without a probe for one byte more; and a probe that counts a    *)
(* byte even at the end.                                                   *)
ProbedUnread(p) == [p EXCEPT !.pc = "store"]
ProbedCounting(p) ==
  [p EXCEPT !.pc = IF p.left > 0 THEN "mismatch" ELSE "store", !.left = @ - 1]

Probed(p) ==
  IF p.left > 0 THEN [p EXCEPT !.pc = "mismatch", !.left = @ - 1]
  ELSE [p EXCEPT !.pc = "store"]

PutProbe(u) ==
  /\ service = "s3"
  /\ put[u].pc = "read" /\ put[u].size # Unknown /\ Remaining(put[u]) = 0
  /\ put' = [put EXCEPT ![u] = Probed(@)]
  /\ UNCHANGED <<service, object, blobsClosed>>

(* A body of unknown size goes to the uploader as it is. *)
PutReadRaw(u) ==
  /\ service = "s3"
  /\ put[u].pc = "read" /\ put[u].size = Unknown
  /\ put' = [put EXCEPT ![u].pc = "store", ![u].taken = put[u].left, ![u].left = 0]
  /\ UNCHANGED <<service, object, blobsClosed>>

-----------------------------------------------------------------------------
(* Both *)

(* The object is there, at once: under the lock, or when the upload is     *)
(* completed.  A MemoryBlobStore that was closed meanwhile refuses it.     *)
PutStore(u) ==
  /\ put[u].pc = "store"
  /\ object' = IF service = "memory" /\ blobsClosed THEN object ELSE put[u].taken
  /\ put' = [put EXCEPT ![u] = NoPut]
  /\ UNCHANGED <<service, blobsClosed>>

(* ErrSizeMismatch, an error of the reader or of S3, a context's end. *)
PutFails(u) ==
  /\ put[u].pc # "idle"
  /\ put' = [put EXCEPT ![u] = NoPut]
  /\ UNCHANGED <<service, object, blobsClosed>>

BlobDelete(u) ==
  /\ put[u].pc = "idle"
  /\ ~(service = "memory" /\ blobsClosed)
  /\ object' = NoObject
  /\ UNCHANGED <<service, put, blobsClosed>>

(* S3BlobStore.Close does nothing. *)
BlobsClose ==
  /\ blobsClosed' = (service = "memory")
  /\ UNCHANGED <<service, object, put>>

BlobsInit ==
  /\ service \in {"memory", "s3"}
  /\ object = NoObject
  /\ put = [u \in Uploaders |-> NoPut]
  /\ blobsClosed = FALSE

BlobsStep(u) ==
  \/ PutBegin(u) \/ PutReadAll(u) \/ PutReadPiece(u) \/ PutProbe(u) \/ PutReadRaw(u)
  \/ PutStore(u) \/ PutFails(u) \/ BlobDelete(u)

-----------------------------------------------------------------------------
(* Reads of a range, for an object of length z: <<from, to>> if the bytes  *)
(* in between are delivered, NoRange if the call or the reader fails.      *)

NoRange == <<0, -1>>

OpenRangeMemory(z, start, end) ==
  IF start < 0 \/ end < start \/ end > z THEN NoRange ELSE <<start, end>>

(* The Range header names the last byte where it should name the end. *)
LastByteAtEnd(end) == end

LastByte(end) == end - 1

(* S3 delivers what there is of bytes=start-last, and refuses a start past *)
(* the object.                                                             *)
OpenRangeS3(z, start, end) ==
  IF start < 0 \/ end < start THEN NoRange
  ELSE IF start = end THEN <<start, end>>
  ELSE IF start >= z THEN NoRange
  ELSE <<start, IF LastByte(end) >= z THEN z ELSE LastByte(end) + 1>>

OpenRange(z, start, end) ==
  IF service = "memory" THEN OpenRangeMemory(z, start, end) ELSE OpenRangeS3(z, start, end)

(* Tree.GetBlob for a manifest of size z: the range is cut, and            *)
(* verifyReader compares the length of what it gets.                       *)
GetBlob(z, start, end) ==
  LET to  == IF end < 0 \/ end > z THEN z ELSE end
      got == OpenRange(z, start, to)
  IN  IF start < 0 \/ start > to \/ got[2] - got[1] # to - start THEN NoRange ELSE got
=============================================================================
