------------------------------- MODULE Scans -------------------------------
(***************************************************************************)
(* Range scans: scanEntries (storage/memory.go) filters a map, scanWith    *)
(* (storage/slatedb.go) turns the options into a key range of SlateDB and  *)
(* filters what the iterator returns.  Keys are byte strings, a byte is    *)
(* one of 0..TopByte (0xFF).  Both return keys; values are not looked at.  *)
(***************************************************************************)
EXTENDS Integers, FiniteSets, Sequences, SequencesExt

CONSTANT TopByte

ASSUME TopByteAssumption == TopByte \in Nat

NoKey == <<>>   \* a Prefix or StartAfter that is not given

(* The order of Go's strings. *)
KeyLess(a, b) ==
  \/ IsStrictPrefix(a, b)
  \/ \E i \in 1..Len(a) :
       /\ i <= Len(b) /\ a[i] < b[i]
       /\ SubSeq(a, 1, i - 1) = SubSeq(b, 1, i - 1)

(* The sorted sequence of the keys: each at the place that the number of   *)
(* the keys below it gives it.                                             *)
Below(k, keys)   == {j \in keys : KeyLess(j, k)}
Ascending(keys)  == [n \in 1..Cardinality(keys) |->
                       CHOOSE k \in keys : Cardinality(Below(k, keys)) = n - 1]
Descending(keys) == Reverse(Ascending(keys))

Limited(s, limit) == IF limit > 0 /\ Len(s) > limit THEN SubSeq(s, 1, limit) ELSE s

(* The two tests that both scans make of a key. *)
Matches(k, opts) ==
  /\ opts.prefix # NoKey => IsPrefix(opts.prefix, k)
  /\ opts.after # NoKey =>
       IF opts.reverse THEN KeyLess(k, opts.after) ELSE KeyLess(opts.after, k)

scanEntries(keys, opts) ==
  LET found == {k \in keys : Matches(k, opts)} IN
    Limited(IF opts.reverse THEN Descending(found) ELSE Ascending(found), opts.limit)

(* A successor that adds one to the last byte, which wraps around. *)
SuccessorOfLastByte(p) == <<[p EXCEPT ![Len(p)] = (@ + 1) % (TopByte + 1)]>>

(* The least string above all with prefix p, as a sequence of one; none if *)
(* p is all 0xFF.                                                          *)
prefixSuccessor(p) ==
  LET low == {i \in 1..Len(p) : p[i] # TopByte} IN
    IF low = {} THEN <<>>
    ELSE LET i == CHOOSE i \in low : \A j \in low : j <= i IN
           <<SubSeq(p, 1, i - 1) \o <<p[i] + 1>>>>

(* A KeyRange: each bound is a sequence of at most one key. *)
keyRange(opts) ==
  LET byPrefix == IF opts.prefix = NoKey
                  THEN [start |-> <<>>, inclusive |-> FALSE, end |-> <<>>]
                  ELSE [start |-> <<opts.prefix>>, inclusive |-> TRUE,
                        end |-> prefixSuccessor(opts.prefix)] IN
    IF opts.after = NoKey THEN byPrefix
    ELSE IF opts.reverse THEN [byPrefix EXCEPT !.end = <<opts.after>>]
    ELSE [byPrefix EXCEPT !.start = <<opts.after>>, !.inclusive = FALSE]

(* SlateDB: the keys of a range.  A range that ends before it starts (a    *)
(* continuation outside the prefix) has none.                              *)
InRange(k, kr) ==
  /\ \A i \in 1..Len(kr.start) :
       KeyLess(kr.start[i], k) \/ (kr.inclusive /\ k = kr.start[i])
  /\ \A i \in 1..Len(kr.end) : KeyLess(k, kr.end[i])

(* The iterator walks the range in order; the keys that fail the tests are *)
(* skipped, those that pass count for the limit.                           *)
scanWith(keys, opts) ==
  LET found == {k \in keys : InRange(k, keyRange(opts)) /\ Matches(k, opts)} IN
    Limited(IF opts.reverse THEN Descending(found) ELSE Ascending(found), opts.limit)
=============================================================================
