----------------------------- MODULE ScanProofs -----------------------------
(***************************************************************************)
(* Both scans return exactly what their options ask for: of every finite   *)
(* set of byte strings, for every prefix, continuation, direction and      *)
(* limit.  The order of Go's strings is a strict total order, so that the  *)
(* number of the keys below a key is its place in the sorted sequence; and *)
(* the range that keyRange asks of SlateDB contains every key that the     *)
(* tests of scanWith let pass.                                             *)
(***************************************************************************)
EXTENDS Storage, Induction, FunctionTheorems

Bytes   == 0..TopByte
Strings == Seq(Bytes)

(* The first place at which b is above a: there a ends, or has the lower   *)
(* byte.                                                                   *)
DiffersAt(a, b, i) ==
  /\ i \in 1..Len(b) /\ i <= Len(a) + 1
  /\ \A j \in 1..(i - 1) : a[j] = b[j]
  /\ i <= Len(a) => a[i] < b[i]

LEMMA CommonPrefix ==
  ASSUME NEW a \in Strings, NEW b \in Strings, NEW n \in Nat, n <= Len(a), n <= Len(b)
  PROVE  SubSeq(a, 1, n) = SubSeq(b, 1, n) <=> \A j \in 1..n : a[j] = b[j]
<1>1. /\ Len(SubSeq(a, 1, n)) = n /\ Len(SubSeq(b, 1, n)) = n
      /\ SubSeq(a, 1, n) \in Strings /\ SubSeq(b, 1, n) \in Strings
      /\ \A j \in 1..n : SubSeq(a, 1, n)[j] = a[j] /\ SubSeq(b, 1, n)[j] = b[j]
  BY DEF Strings
<1>2. ASSUME \A j \in 1..n : a[j] = b[j] PROVE SubSeq(a, 1, n) = SubSeq(b, 1, n)
  BY <1>1, <1>2 DEF Strings
<1> QED
  BY <1>1, <1>2

LEMMA OrderByPlace ==
  ASSUME NEW a \in Strings, NEW b \in Strings
  PROVE  KeyLess(a, b) <=> \E i \in Nat : DiffersAt(a, b, i)
<1>1. ASSUME IsStrictPrefix(a, b) PROVE DiffersAt(a, b, Len(a) + 1)
  <2>1. Len(a) \in Nat /\ Len(b) \in Nat /\ Len(a) <= Len(b) /\ a # b
    BY <1>1 DEF IsStrictPrefix, IsPrefix, Strings
  <2>2. \A j \in 1..Len(a) : a[j] = b[j]
    BY <1>1, <2>1, CommonPrefix DEF IsStrictPrefix, IsPrefix
  <2>3. Len(a) # Len(b)
    BY <2>1, <2>2 DEF Strings
  <2> QED
    BY <2>1, <2>2, <2>3 DEF DiffersAt
<1>2. ASSUME NEW i \in 1..Len(a), i <= Len(b), a[i] < b[i],
             SubSeq(a, 1, i - 1) = SubSeq(b, 1, i - 1)
      PROVE  DiffersAt(a, b, i)
  <2>1. Len(a) \in Nat /\ Len(b) \in Nat /\ i - 1 \in Nat /\ i - 1 <= Len(a) /\ i - 1 <= Len(b)
    BY <1>2 DEF Strings
  <2>2. \A j \in 1..(i - 1) : a[j] = b[j]
    BY <1>2, <2>1, CommonPrefix
  <2> QED
    BY <1>2, <2>1, <2>2 DEF DiffersAt
<1>3. ASSUME NEW i \in Nat, DiffersAt(a, b, i) PROVE KeyLess(a, b)
  <2>1. /\ Len(a) \in Nat /\ Len(b) \in Nat /\ i - 1 \in Nat /\ i - 1 <= Len(a)
        /\ i - 1 <= Len(b) /\ i \in 1..Len(b) /\ i <= Len(a) + 1
    BY <1>3 DEF DiffersAt, Strings
  <2>2. SubSeq(a, 1, i - 1) = SubSeq(b, 1, i - 1)
    BY <1>3, <2>1, CommonPrefix DEF DiffersAt
  <2>3. CASE i <= Len(a)
    BY <1>3, <2>1, <2>2, <2>3 DEF DiffersAt, KeyLess
  <2>4. CASE i = Len(a) + 1
    <3>1. IsPrefix(a, b) /\ Len(a) # Len(b)
      BY <2>1, <2>2, <2>4 DEF IsPrefix
    <3> QED
      BY <3>1 DEF KeyLess, IsStrictPrefix
  <2> QED
    BY <2>1, <2>3, <2>4
<1>4. Len(a) + 1 \in Nat /\ \A i \in 1..Len(a) : i \in Nat
  BY DEF Strings
<1> QED
  BY <1>1, <1>2, <1>3, <1>4 DEF KeyLess

LEMMA OrderIsStrict ==
  ASSUME NEW a \in Strings
  PROVE  ~KeyLess(a, a)
<1>1. ASSUME NEW i \in Nat PROVE ~DiffersAt(a, a, i)
  <2>1. Len(a) \in Nat /\ \A j \in 1..Len(a) : a[j] \in Int
    BY TopByteAssumption DEF Strings, Bytes
  <2> QED
    BY <2>1 DEF DiffersAt
<1> QED
  BY <1>1, OrderByPlace

LEMMA OrderIsTransitive ==
  ASSUME NEW a \in Strings, NEW b \in Strings, NEW c \in Strings,
         KeyLess(a, b), KeyLess(b, c)
  PROVE  KeyLess(a, c)
<1>1. PICK i \in Nat : DiffersAt(a, b, i)
  BY OrderByPlace
<1>2. PICK j \in Nat : DiffersAt(b, c, j)
  BY OrderByPlace
<1>3. /\ Len(a) \in Nat /\ Len(b) \in Nat /\ Len(c) \in Nat
      /\ \A n \in 1..Len(a) : a[n] \in Int
      /\ \A n \in 1..Len(b) : b[n] \in Int
      /\ \A n \in 1..Len(c) : c[n] \in Int
  BY TopByteAssumption DEF Strings, Bytes
<1>4. CASE i <= j
  <2>1. \A n \in 1..(i - 1) : a[n] = c[n]
    BY <1>1, <1>2, <1>3, <1>4 DEF DiffersAt
  <2>2. i \in 1..Len(c) /\ i <= Len(a) + 1
    BY <1>1, <1>2, <1>3, <1>4 DEF DiffersAt
  <2>3. i <= Len(a) => a[i] < c[i]
    BY <1>1, <1>2, <1>3, <1>4 DEF DiffersAt
  <2>4. DiffersAt(a, c, i)
    BY <2>1, <2>2, <2>3 DEF DiffersAt
  <2> QED
    BY <2>4, OrderByPlace
<1>5. CASE j < i
  <2>1. \A n \in 1..(j - 1) : a[n] = c[n]
    BY <1>1, <1>2, <1>3, <1>5 DEF DiffersAt
  <2>2. j \in 1..Len(c) /\ j <= Len(a) /\ a[j] = b[j] /\ j <= Len(b)
    BY <1>1, <1>2, <1>3, <1>5 DEF DiffersAt
  <2>3. DiffersAt(a, c, j)
    BY <1>2, <2>1, <2>2, <1>3 DEF DiffersAt
  <2> QED
    BY <2>3, OrderByPlace
<1> QED
  BY <1>4, <1>5

LEMMA OrderIsTotal ==
  ASSUME NEW a \in Strings, NEW b \in Strings, a # b
  PROVE  KeyLess(a, b) \/ KeyLess(b, a)
<1> DEFINE D == {i \in Nat : /\ 1 <= i /\ i <= Len(a) + 1 /\ i <= Len(b) + 1
                             /\ (i <= Len(a) /\ i <= Len(b)) => a[i] # b[i]}
<1>1. /\ Len(a) \in Nat /\ Len(b) \in Nat
      /\ \A n \in 1..Len(a) : a[n] \in Int
      /\ \A n \in 1..Len(b) : b[n] \in Int
  BY TopByteAssumption DEF Strings, Bytes
<1>2. D # {}
  <2>1. Len(a) + 1 \in D \/ Len(b) + 1 \in D
    BY <1>1
  <2> QED
    BY <2>1
<1>3. PICK i \in D : \A j \in D : i <= j
  BY <1>2, LeastNumber
<1>4. \A j \in 1..(i - 1) : a[j] = b[j]
  BY <1>1, <1>3
<1>5. ~(i = Len(a) + 1 /\ i = Len(b) + 1)
  BY <1>1, <1>4 DEF Strings
<1>6. DiffersAt(a, b, i) \/ DiffersAt(b, a, i)
  BY <1>1, <1>3, <1>4, <1>5 DEF DiffersAt
<1> QED
  BY <1>6, OrderByPlace

(* The number of the keys below a key grows with the key. *)
LEMMA RankIsNumber ==
  ASSUME NEW keys \in SUBSET Strings, IsFiniteSet(keys), NEW k \in keys
  PROVE  /\ IsFiniteSet(Below(k, keys)) /\ Cardinality(Below(k, keys)) \in Nat
         /\ Cardinality(Below(k, keys)) \in 0..(Cardinality(keys) - 1)
<1>1. Below(k, keys) \in SUBSET keys /\ k \notin Below(k, keys)
  BY OrderIsStrict DEF Below
<1>2. IsFiniteSet(Below(k, keys)) /\ Cardinality(Below(k, keys)) <= Cardinality(keys)
  BY <1>1, FS_Subset
<1>3. Cardinality(keys) # Cardinality(Below(k, keys))
  BY <1>1, FS_Subset
<1>4. Cardinality(keys) \in Nat /\ Cardinality(Below(k, keys)) \in Nat
  BY <1>2, FS_CardinalityType
<1> QED
  BY <1>2, <1>3, <1>4

LEMMA RankIsMonotone ==
  ASSUME NEW keys \in SUBSET Strings, IsFiniteSet(keys),
         NEW j \in keys, NEW k \in keys, KeyLess(j, k)
  PROVE  Cardinality(Below(j, keys)) < Cardinality(Below(k, keys))
<1>1. Below(j, keys) \in SUBSET Below(k, keys)
  BY OrderIsTransitive DEF Below
<1>2. j \in Below(k, keys) /\ j \notin Below(j, keys)
  BY OrderIsStrict DEF Below
<1>3. IsFiniteSet(Below(k, keys)) /\ Cardinality(Below(k, keys)) \in Nat
  BY RankIsNumber
<1>4. Cardinality(Below(j, keys)) \in Nat
  BY RankIsNumber
<1>5. /\ Cardinality(Below(j, keys)) <= Cardinality(Below(k, keys))
      /\ Cardinality(Below(k, keys)) # Cardinality(Below(j, keys))
  BY <1>1, <1>2, <1>3, FS_Subset
<1> QED
  BY <1>3, <1>4, <1>5

LEMMA RankIsUnique ==
  ASSUME NEW keys \in SUBSET Strings, IsFiniteSet(keys), NEW j \in keys, NEW k \in keys,
         Cardinality(Below(j, keys)) = Cardinality(Below(k, keys))
  PROVE  j = k
<1>1. Cardinality(Below(j, keys)) \in Nat
  BY RankIsNumber
<1>2. ~KeyLess(j, k) /\ ~KeyLess(k, j)
  BY <1>1, RankIsMonotone
<1> QED
  BY <1>2, OrderIsTotal

(* Every place has its key: as many different ranks as there are keys.     *)
LEMMA RankIsOnto ==
  ASSUME NEW keys \in SUBSET Strings, IsFiniteSet(keys), NEW n \in 1..Cardinality(keys)
  PROVE  \E k \in keys : Cardinality(Below(k, keys)) = n - 1
<1> DEFINE f == [k \in keys |-> Cardinality(Below(k, keys))]
           T == {f[k] : k \in keys}
           N == 0..(Cardinality(keys) - 1)
<1>1. f \in [keys -> T] /\ (\A j, k \in keys : f[j] = f[k] => j = k) /\ \A t \in T : \E k \in keys : f[k] = t
  BY RankIsUnique
<1>2. ExistsBijection(keys, T)
  <2>1. f \in Bijection(keys, T)
    BY <1>1 DEF Bijection, Injection, Surjection, IsInjective
  <2> QED
    BY <2>1 DEF ExistsBijection
<1>3. T \in SUBSET N
  BY RankIsNumber
<1>4. Cardinality(keys) \in Nat
  BY FS_CardinalityType
<1>5. IsFiniteSet(N) /\ Cardinality(N) = Cardinality(keys)
  <2>1. Cardinality(keys) - 1 \in Int /\ 0 \in Int
    BY <1>4
  <2> HIDE DEF T, f
  <2>2. IsFiniteSet(N) /\ Cardinality(N) = IF 0 > Cardinality(keys) - 1 THEN 0 ELSE Cardinality(keys) - 1 - 0 + 1
    BY <2>1, FS_Interval
  <2> QED
    BY <1>4, <2>2
<1>6. Cardinality(T) = Cardinality(keys)
  <2> HIDE DEF T
  <2> QED
    BY <1>2, FS_Bijection
<1>7. T = N
  <2> HIDE DEF T, N
  <2> QED
    BY <1>3, <1>5, <1>6, FS_Subset
<1>8. n - 1 \in N
  BY <1>4
<1> QED
  BY <1>1, <1>7, <1>8

(* s lists exactly these keys, in this direction. *)
Sorts(s, keys, reverse) ==
  /\ s \in Seq(keys)
  /\ \A i, j \in 1..Len(s) : i < j => IF reverse THEN KeyLess(s[j], s[i]) ELSE KeyLess(s[i], s[j])
  /\ \A k \in keys : \E i \in 1..Len(s) : s[i] = k

LEMMA AscendingSorts ==
  ASSUME NEW keys \in SUBSET Strings, IsFiniteSet(keys)
  PROVE  Sorts(Ascending(keys), keys, FALSE)
<1> DEFINE s == Ascending(keys)
           n == Cardinality(keys)
<1>1. n \in Nat
  BY FS_CardinalityType
<1>2. ASSUME NEW i \in 1..n PROVE s[i] \in keys /\ Cardinality(Below(s[i], keys)) = i - 1
  <2>1. s[i] = CHOOSE k \in keys : Cardinality(Below(k, keys)) = i - 1
    BY DEF Ascending
  <2>2. \E k \in keys : Cardinality(Below(k, keys)) = i - 1
    BY RankIsOnto
  <2> QED
    BY <2>1, <2>2
<1>3. s \in Seq(keys) /\ Len(s) = n
  <2>1. s = [i \in 1..n |-> s[i]]
    BY DEF Ascending
  <2> HIDE DEF s, n
  <2> QED
    BY <1>1, <1>2, <2>1
<1>4. ASSUME NEW i \in 1..n, NEW j \in 1..n, i < j PROVE KeyLess(s[i], s[j])
  <2>1. s[i] \in keys /\ s[j] \in keys
    BY <1>2
  <2>2. Cardinality(Below(s[i], keys)) = i - 1 /\ Cardinality(Below(s[j], keys)) = j - 1
    BY <1>2
  <2> HIDE DEF s
  <2>3. s[i] # s[j]
    BY <1>1, <1>4, <2>2
  <2>4. ~KeyLess(s[j], s[i])
    BY <1>1, <1>4, <2>1, <2>2, RankIsMonotone
  <2> QED
    BY <2>1, <2>3, <2>4, OrderIsTotal
<1>5. ASSUME NEW k \in keys PROVE \E i \in 1..n : s[i] = k
  <2> DEFINE i == Cardinality(Below(k, keys)) + 1
  <2>1. i \in 1..n
    BY <1>1, RankIsNumber
  <2>2. s[i] \in keys /\ Cardinality(Below(s[i], keys)) = Cardinality(Below(k, keys))
    BY <1>2, <2>1, RankIsNumber
  <2> HIDE DEF s
  <2>3. s[i] = k
    BY <2>2, RankIsUnique
  <2> QED
    BY <2>1, <2>3
<1> HIDE DEF s, n
<1>6. \A i, j \in 1..Len(s) : i < j => KeyLess(s[i], s[j])
  BY <1>3, <1>4
<1>7. \A k \in keys : \E i \in 1..Len(s) : s[i] = k
  BY <1>3, <1>5
<1>8. Sorts(s, keys, FALSE)
  BY <1>3, <1>6, <1>7 DEF Sorts
<1> QED
  BY <1>8 DEF s

LEMMA DescendingSorts ==
  ASSUME NEW keys \in SUBSET Strings, IsFiniteSet(keys)
  PROVE  Sorts(Descending(keys), keys, TRUE)
<1> DEFINE s == Ascending(keys)
           r == Descending(keys)
<1>1. /\ s \in Seq(keys) /\ Len(s) \in Nat
      /\ \A i, j \in 1..Len(s) : i < j => KeyLess(s[i], s[j])
      /\ \A k \in keys : \E i \in 1..Len(s) : s[i] = k
  BY AscendingSorts DEF Sorts
<1>2. r = [i \in 1..Len(s) |-> s[(Len(s) - i) + 1]]
  BY DEF Descending, Reverse
<1> HIDE DEF r, s
<1>3. \A i \in 1..Len(s) : (Len(s) - i) + 1 \in 1..Len(s) /\ (Len(s) - ((Len(s) - i) + 1)) + 1 = i
  BY <1>1
<1>4. \A i \in 1..Len(s) : r[i] = s[(Len(s) - i) + 1] /\ r[i] \in keys
  BY <1>1, <1>2, <1>3
<1>5. r \in Seq(keys) /\ Len(r) = Len(s)
  BY <1>1, <1>2, <1>4
<1>6. ASSUME NEW i \in 1..Len(r), NEW j \in 1..Len(r), i < j PROVE KeyLess(r[j], r[i])
  <2>1. (Len(s) - j) + 1 < (Len(s) - i) + 1
    BY <1>1, <1>5, <1>6
  <2> QED
    BY <1>1, <1>3, <1>4, <1>5, <2>1
<1>7. ASSUME NEW k \in keys PROVE \E i \in 1..Len(r) : r[i] = k
  <2>1. PICK i \in 1..Len(s) : s[i] = k
    BY <1>1
  <2>2. (Len(s) - i) + 1 \in 1..Len(r) /\ r[(Len(s) - i) + 1] = k
    BY <1>3, <1>4, <1>5, <2>1
  <2> QED
    BY <2>2
<1>8. Sorts(r, keys, TRUE)
  BY <1>5, <1>6, <1>7 DEF Sorts
<1> QED
  BY <1>8 DEF r

Options == [prefix: Strings, after: Strings, limit: Int, reverse: BOOLEAN]

(* The options ask for a key, as IsScan states it. *)
Asked(k, opts) ==
  /\ \A i \in DOMAIN opts.prefix : i \in DOMAIN k /\ k[i] = opts.prefix[i]
  /\ opts.after # NoKey =>
       IF opts.reverse THEN KeyLess(k, opts.after) ELSE KeyLess(opts.after, k)

(* The tests of both scans let exactly these keys pass. *)
LEMMA TestsAreExact ==
  ASSUME NEW k \in Strings, NEW opts \in Options
  PROVE  Matches(k, opts) <=> Asked(k, opts)
<1> DEFINE p == opts.prefix
<1>1. p \in Strings
  BY DEF Options
<1> HIDE DEF p
<1>2. /\ DOMAIN p = 1..Len(p) /\ DOMAIN k = 1..Len(k) /\ Len(p) \in Nat /\ Len(k) \in Nat
      /\ (p = NoKey <=> Len(p) = 0)
  BY <1>1 DEF Strings, NoKey
<1>3. (\A i \in DOMAIN p : i \in DOMAIN k) => Len(p) <= Len(k)
  <2>1. CASE Len(p) = 0
    BY <1>2, <2>1
  <2>2. CASE Len(p) # 0
    <3>1. Len(p) \in DOMAIN p
      BY <1>2, <2>2
    <3> QED
      BY <1>2, <3>1
  <2> QED
    BY <2>1, <2>2
<1>4. Len(p) <= Len(k) =>
        (SubSeq(p, 1, Len(p)) = SubSeq(k, 1, Len(p)) <=> \A j \in 1..Len(p) : p[j] = k[j])
  BY <1>1, <1>2, CommonPrefix
<1>5. (p # NoKey => IsPrefix(p, k)) <=> \A i \in DOMAIN p : i \in DOMAIN k /\ k[i] = p[i]
  BY <1>2, <1>3, <1>4 DEF IsPrefix
<1> QED
  BY <1>5 DEF Matches, Asked, p

(* The limit keeps the first of a sorted sequence. *)
LEMMA LimitedIsScan ==
  ASSUME NEW keys \in SUBSET Strings, NEW opts \in Options, NEW s,
         Sorts(s, {k \in keys : Asked(k, opts)}, opts.reverse)
  PROVE  IsScan(Limited(s, opts.limit), keys, opts)
<1> DEFINE Before(a, b) == IF opts.reverse THEN KeyLess(b, a) ELSE KeyLess(a, b)
           wanted == {k \in keys : /\ \A i \in DOMAIN opts.prefix :
                                          i \in DOMAIN k /\ k[i] = opts.prefix[i]
                                   /\ opts.after # NoKey => Before(opts.after, k)}
           t == Limited(s, opts.limit)
           found == {t[i] : i \in DOMAIN t}
<1>1. {k \in keys : Asked(k, opts)} = wanted
  BY DEF Asked
<1>2. /\ s \in Seq(wanted) /\ Len(s) \in Nat
      /\ \A i, j \in 1..Len(s) : i < j => Before(s[i], s[j])
      /\ \A k \in wanted : \E i \in 1..Len(s) : s[i] = k
  <2>1. Sorts(s, wanted, opts.reverse)
    BY <1>1
  <2> HIDE DEF wanted
  <2> QED
    BY <2>1 DEF Sorts
<1>3. opts.limit \in Int
  BY DEF Options
<1> HIDE DEF wanted
<1>4. /\ Len(t) \in Nat /\ Len(t) <= Len(s) /\ DOMAIN t = 1..Len(t)
      /\ \A i \in 1..Len(t) : t[i] = s[i]
      /\ opts.limit > 0 => Len(t) <= opts.limit
      /\ Len(t) # Len(s) => opts.limit > 0 /\ Len(t) = opts.limit
  <2>1. CASE opts.limit > 0 /\ Len(s) > opts.limit
    <3>1. t = SubSeq(s, 1, opts.limit)
      BY <2>1 DEF Limited
    <3>2. Len(t) = opts.limit /\ DOMAIN t = 1..opts.limit /\ \A i \in 1..opts.limit : t[i] = s[i]
      BY <1>2, <1>3, <2>1, <3>1
    <3> QED
      BY <1>2, <1>3, <2>1, <3>2
  <2>2. CASE ~(opts.limit > 0 /\ Len(s) > opts.limit)
    <3>1. t = s
      BY <2>2 DEF Limited
    <3> QED
      BY <1>2, <1>3, <2>2, <3>1
  <2> QED
    BY <2>1, <2>2
<1> HIDE DEF t
<1>5. \A i \in DOMAIN t : i \in 1..Len(s) /\ t[i] = s[i] /\ t[i] \in wanted
  BY <1>2, <1>4
<1>6. found \subseteq wanted
  BY <1>5
<1>7. ASSUME NEW k \in wanted \ found
      PROVE  opts.limit > 0 /\ Len(t) = opts.limit /\ \A f \in found : Before(f, k)
  <2>1. PICK i \in 1..Len(s) : s[i] = k
    BY <1>2, <1>7
  <2>2. i > Len(t)
    <3>1. i \notin DOMAIN t
      BY <1>5, <1>7, <2>1
    <3> QED
      BY <1>2, <1>4, <3>1
  <2>3. opts.limit > 0 /\ Len(t) = opts.limit
    BY <1>2, <1>4, <2>2
  <2>4. ASSUME NEW f \in found PROVE Before(f, k)
    <3>1. PICK j \in DOMAIN t : f = t[j]
      OBVIOUS
    <3>2. j \in 1..Len(s) /\ f = s[j]
      BY <1>5, <3>1
    <3>3. j < i
      BY <1>2, <1>4, <2>2
    <3> QED
      BY <1>2, <2>1, <3>2, <3>3
  <2> QED
    BY <2>3, <2>4
<1>8. wanted # found => /\ opts.limit > 0 /\ Len(t) = opts.limit
                        /\ \A k \in wanted \ found, f \in found : Before(f, k)
  BY <1>6, <1>7
<1>9. \A i, j \in DOMAIN t : i < j => Before(t[i], t[j])
  BY <1>2, <1>5
<1> HIDE DEF found
<1>10. /\ \A i, j \in DOMAIN t : i < j => Before(t[i], t[j])
       /\ found \subseteq wanted
       /\ opts.limit > 0 => Len(t) <= opts.limit
       /\ wanted # found => /\ opts.limit > 0 /\ Len(t) = opts.limit
                            /\ \A k \in wanted \ found, f \in found : Before(f, k)
  BY <1>4, <1>6, <1>8, <1>9
<1> HIDE DEF Before
<1>11. IsScan(t, keys, opts)
  BY <1>10 DEF IsScan, wanted, found, Before
<1> QED
  BY <1>11 DEF t

(* Every string with a prefix is below the successor of that prefix. *)
LEMMA SuccessorIsAbove ==
  ASSUME NEW p \in Strings, NEW k \in Strings, IsPrefix(p, k),
         NEW i \in 1..Len(prefixSuccessor(p))
  PROVE  KeyLess(k, prefixSuccessor(p)[i])
<1> DEFINE low == {n \in 1..Len(p) : p[n] # TopByte}
           n == CHOOSE n \in low : \A j \in low : j <= n
           above == SubSeq(p, 1, n - 1) \o <<p[n] + 1>>
<1>1. Len(p) \in Nat /\ Len(k) \in Nat /\ Len(p) <= Len(k) /\ \A j \in 1..Len(p) : p[j] \in Bytes
  BY DEF Strings, IsPrefix
<1>2. \A j \in 1..Len(p) : p[j] = k[j]
  BY <1>1, CommonPrefix DEF IsPrefix
<1>3. low # {}
  BY DEF prefixSuccessor
<1>4. n \in low
  <2> DEFINE T == {Len(p) - j : j \in low}
  <2>1. T \subseteq Nat /\ T # {}
    BY <1>1, <1>3
  <2> HIDE DEF T
  <2>2. PICK x \in T : \A y \in T : x <= y
    BY <2>1, LeastNumber
  <2>3. PICK m \in low : x = Len(p) - m
    BY <2>2 DEF T
  <2>4. \A j \in low : j <= m
    <3>1. \A j \in low : x <= Len(p) - j
      BY <2>2 DEF T
    <3> QED
      BY <1>1, <2>3, <3>1
  <2> QED
    BY <2>3, <2>4
<1>5. prefixSuccessor(p) = <<above>>
  BY <1>3 DEF prefixSuccessor
<1>6. n \in 1..Len(p) /\ p[n] # TopByte
  BY <1>4
<1> HIDE DEF n, low, above
<1>7. i = 1 /\ prefixSuccessor(p)[i] = above
  BY <1>5
<1>8. p[n] + 1 \in Bytes /\ p[n] \in Nat
  BY <1>1, <1>6, TopByteAssumption DEF Bytes
<1>9. above \in Strings /\ Len(above) = n /\ above[n] = p[n] + 1 /\ \A j \in 1..(n - 1) : above[j] = p[j]
  BY <1>1, <1>6, <1>8 DEF Strings, above
<1>10. DiffersAt(k, above, n)
  BY <1>1, <1>2, <1>6, <1>8, <1>9 DEF DiffersAt
<1> QED
  BY <1>6, <1>7, <1>9, <1>10, OrderByPlace

(* The range that scanWith asks for contains every key that it wants. *)
LEMMA RangeIsWideEnough ==
  ASSUME NEW k \in Strings, NEW opts \in Options, Matches(k, opts)
  PROVE  InRange(k, keyRange(opts))
<1> DEFINE byPrefix == IF opts.prefix = NoKey
                       THEN [start |-> <<>>, inclusive |-> FALSE, end |-> <<>>]
                       ELSE [start |-> <<opts.prefix>>, inclusive |-> TRUE,
                             end |-> prefixSuccessor(opts.prefix)]
           kr == keyRange(opts)
<1>1. opts.prefix \in Strings /\ opts.after \in Strings
  BY DEF Options
<1>2. opts.prefix # NoKey => /\ IsPrefix(opts.prefix, k)
                             /\ KeyLess(opts.prefix, k) \/ k = opts.prefix
                             /\ \A i \in 1..Len(prefixSuccessor(opts.prefix)) :
                                  KeyLess(k, prefixSuccessor(opts.prefix)[i])
  BY <1>1, SuccessorIsAbove DEF Matches, KeyLess, IsStrictPrefix
<1>3. /\ \A i \in 1..Len(byPrefix.start) :
           KeyLess(byPrefix.start[i], k) \/ (byPrefix.inclusive /\ k = byPrefix.start[i])
      /\ \A i \in 1..Len(byPrefix.end) : KeyLess(k, byPrefix.end[i])
  <2>1. CASE opts.prefix = NoKey
    BY <2>1
  <2>2. CASE opts.prefix # NoKey
    BY <1>2, <2>2
  <2> QED
    BY <2>1, <2>2
<1>4. CASE opts.after = NoKey
  <2>1. kr = byPrefix
    BY <1>4 DEF keyRange
  <2> QED
    BY <1>3, <2>1 DEF InRange
<1>5. CASE opts.after # NoKey /\ opts.reverse
  <2>1. KeyLess(k, opts.after)
    BY <1>5 DEF Matches
  <2>2. kr = [byPrefix EXCEPT !.end = <<opts.after>>]
    BY <1>5 DEF keyRange
  <2>3. kr.start = byPrefix.start /\ kr.inclusive = byPrefix.inclusive /\ kr.end = <<opts.after>>
    BY <2>2
  <2> QED
    BY <1>3, <2>1, <2>3 DEF InRange
<1>6. CASE opts.after # NoKey /\ ~opts.reverse
  <2>1. KeyLess(opts.after, k)
    BY <1>6 DEF Matches
  <2>2. kr = [byPrefix EXCEPT !.start = <<opts.after>>, !.inclusive = FALSE]
    BY <1>6 DEF keyRange
  <2>3. kr.start = <<opts.after>> /\ kr.end = byPrefix.end
    BY <2>2
  <2> QED
    BY <1>3, <2>1, <2>3 DEF InRange
<1> QED
  BY <1>4, <1>5, <1>6

(* The set of short keys that the runs scan is finite. *)
LEMMA ShortKeysAreStrings ==
  IsFiniteSet(ShortKeys) /\ ShortKeys \in SUBSET Strings
<1> DEFINE One == {<<a>> : a \in Bytes}
           Two == {<<a, b>> : a, b \in Bytes}
<1>1. IsFiniteSet(Bytes)
  BY FS_Interval, TopByteAssumption DEF Bytes
<1>2. IsFiniteSet(One)
  <2> DEFINE f == [a \in Bytes |-> <<a>>]
  <2>1. f \in Surjection(Bytes, One)
    BY DEF Surjection
  <2> HIDE DEF f, One
  <2> QED
    BY <1>1, <2>1, FS_Surjection
<1>3. IsFiniteSet(Two)
  <2>1. Two = Bytes \X Bytes
    OBVIOUS
  <2> HIDE DEF Two
  <2> QED
    BY <1>1, <2>1, FS_Product
<1>4. IsFiniteSet({NoKey})
  BY FS_Singleton
<1>5. One \in SUBSET Strings /\ Two \in SUBSET Strings /\ NoKey \in Strings
  <2>1. \A a \in Bytes : <<a>> \in Strings
    BY DEF Strings
  <2>2. \A a, b \in Bytes : <<a, b>> \in Strings
    BY DEF Strings
  <2>3. NoKey \in Strings
    BY DEF Strings, NoKey
  <2> QED
    BY <2>1, <2>2, <2>3
<1>6. ShortKeys = {NoKey} \cup One \cup Two
  BY DEF ShortKeys, Bytes
<1> HIDE DEF One, Two
<1>7. IsFiniteSet({NoKey} \cup One)
  BY <1>2, <1>4, FS_Union
<1>8. IsFiniteSet(({NoKey} \cup One) \cup Two)
  BY <1>3, <1>7, FS_Union
<1> QED
  BY <1>5, <1>6, <1>8

(* scanEntries (storage/memory.go) returns what its options ask for. *)
THEOREM MemoryScanIsExact ==
  ASSUME NEW keys \in SUBSET Strings, IsFiniteSet(keys), NEW opts \in Options
  PROVE  IsScan(scanEntries(keys, opts), keys, opts)
<1> DEFINE found == {k \in keys : Matches(k, opts)}
           s == IF opts.reverse THEN Descending(found) ELSE Ascending(found)
<1>1. found = {k \in keys : Asked(k, opts)}
  BY TestsAreExact
<1>2. found \in SUBSET Strings /\ found \in SUBSET keys
  OBVIOUS
<1>3. scanEntries(keys, opts) = Limited(s, opts.limit)
  BY DEF scanEntries
<1> HIDE DEF found
<1>4. IsFiniteSet(found)
  BY <1>2, FS_Subset
<1>5. opts.reverse \in BOOLEAN
  BY DEF Options
<1>6. Sorts(s, found, opts.reverse)
  <2>1. CASE opts.reverse = TRUE
    <3>1. Sorts(s, found, TRUE)
      BY <1>2, <1>4, <2>1, DescendingSorts
    <3> QED
      BY <2>1, <3>1, Zenon
  <2>2. CASE opts.reverse = FALSE
    <3>1. Sorts(s, found, FALSE)
      BY <1>2, <1>4, <2>2, AscendingSorts
    <3> QED
      BY <2>2, <3>1, Zenon
  <2> QED
    BY <1>5, <2>1, <2>2
<1> HIDE DEF s
<1>7. IsScan(Limited(s, opts.limit), keys, opts)
  BY <1>1, <1>6, LimitedIsScan
<1> QED
  BY <1>3, <1>7

(* scanWith (storage/slatedb.go) returns the same: the range that it asks  *)
(* of SlateDB leaves out no key that its tests let pass.                   *)
THEOREM StoresScanAlike ==
  ASSUME NEW keys \in SUBSET Strings, NEW opts \in Options
  PROVE  scanWith(keys, opts) = scanEntries(keys, opts)
<1>1. {k \in keys : InRange(k, keyRange(opts)) /\ Matches(k, opts)} = {k \in keys : Matches(k, opts)}
  BY RangeIsWideEnough
<1> QED
  BY <1>1, Zenon DEF scanWith, scanEntries

THEOREM SlateDBScanIsExact ==
  ASSUME NEW keys \in SUBSET Strings, IsFiniteSet(keys), NEW opts \in Options
  PROVE  IsScan(scanWith(keys, opts), keys, opts)
BY MemoryScanIsExact, StoresScanAlike

(* Every scan of an open store is exact, whatever the bytes are. *)
THEOREM ScansAreExact == Spec => []ScansExact
<1>1. ASSUME NEW keys \in SUBSET ShortKeys, NEW opts \in ScanOptions
      PROVE  /\ IsScan(scanEntries(keys, opts), keys, opts)
             /\ IsScan(scanWith(keys, opts), keys, opts)
  <2>1. keys \in SUBSET Strings /\ IsFiniteSet(keys)
    BY ShortKeysAreStrings, FS_Subset
  <2>2. opts \in Options
    BY ShortKeysAreStrings DEF ScanOptions, Options
  <2> QED
    BY <2>1, <2>2, MemoryScanIsExact, SlateDBScanIsExact
<1>2. ScansExact
  BY <1>1 DEF ScansExact, MemoryScansExact, SlateDBScansExact
<1> QED
  BY <1>2, PTL
=============================================================================
