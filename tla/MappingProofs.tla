---------------------------- MODULE MappingProofs ----------------------------
(***************************************************************************)
(* Proofs about Mapping and LlmRunner, for any batches, any number of      *)
(* mappers, threads and models, and any number of faults.                  *)
(***************************************************************************)
EXTENDS Mapping, FiniteSetTheorems, FunctionTheorems, WellFoundedInduction, TLAPS

-----------------------------------------------------------------------------
(* Numbers and sequences.                                                  *)

(* A set of numbers has a least one.                                       *)
LEMMA Least ==
  ASSUME NEW S \in SUBSET Nat, S # {}
  PROVE  \E m \in S : \A n \in S : m <= n
<1> DEFINE R == OpToRel(<, Nat)
<1>1. IsWellFoundedOn(R, Nat)
  BY NatLessThanWellFounded, Zenon
<1>2. \A x, y \in Nat : x < y => <<x, y>> \in R
  BY Zenon DEF OpToRel
<1> HIDE DEF R
<1>3. PICK m \in S : \A y \in S : <<y, m>> \notin R
  BY <1>1, WFMin, Zenon
<1>4. \A y \in S : ~ (y < m)
  BY <1>2, <1>3
<1> QED BY <1>4

LEMMA UpTo ==
  ASSUME NEW n \in Nat
  PROVE  /\ IsFiniteSet(1 .. n) /\ Cardinality(1 .. n) = n
         /\ \A T \in SUBSET (1 .. n) : IsFiniteSet(T) /\ Cardinality(T) \in Nat
<1>1. IsFiniteSet(1 .. n) /\ Cardinality(1 .. n) = n
  BY FS_Interval
<1> QED BY <1>1, FS_Subset, FS_CardinalityType

LEMMA ListIsSeq ==
  ASSUME NEW n \in Nat, NEW S, NEW f \in [1 .. n -> S]
  PROVE  f \in Seq(S) /\ Len(f) = n /\ DOMAIN f = 1 .. n
OBVIOUS

LEMMA CountApart ==
  ASSUME NEW S, NEW T, IsFiniteSet(S), IsFiniteSet(T), S \cap T = {}
  PROVE  /\ IsFiniteSet(S \cup T) /\ Cardinality(S) \in Nat /\ Cardinality(T) \in Nat
         /\ Cardinality(S \cup T) = Cardinality(S) + Cardinality(T)
<1>1. Cardinality(S \cap T) = 0
  BY FS_EmptySet
<1>2. Cardinality(S) \in Nat /\ Cardinality(T) \in Nat
  BY FS_CardinalityType
<1>3. IsFiniteSet(S \cup T) /\
      Cardinality(S \cup T) = Cardinality(S) + Cardinality(T) - Cardinality(S \cap T)
  BY FS_Union
<1> QED BY <1>1, <1>2, <1>3

LEMMA CountLess ==
  ASSUME NEW S, NEW T, IsFiniteSet(S), T \subseteq S
  PROVE  /\ IsFiniteSet(S \ T) /\ IsFiniteSet(T) /\ Cardinality(S) \in Nat /\ Cardinality(T) \in Nat
         /\ Cardinality(S \ T) = Cardinality(S) - Cardinality(T)
<1>1. S \cap T = T
  OBVIOUS
<1> QED BY <1>1, FS_Difference, FS_Subset, FS_CardinalityType, ZenonT(40)

(* A sequence that repeats nothing is as long as its range is large.       *)
LEMMA RangeCounted ==
  ASSUME NEW S, NEW s \in Seq(S), IsInjective(s)
  PROVE  IsFiniteSet(Range(s)) /\ Cardinality(Range(s)) = Len(s)
<1>1. s \in Bijection(1 .. Len(s), Range(s))
  BY DEF IsInjective, Range, Bijection, Injection, Surjection, IsInjective
<1>2. IsFiniteSet(1 .. Len(s)) /\ Cardinality(1 .. Len(s)) = Len(s)
  <2>1. Len(s) \in Nat
    OBVIOUS
  <2> QED BY <2>1, UpTo
<1> QED BY <1>1, <1>2, FS_Bijection DEF ExistsBijection

(* A stretch of a sequence.                                                *)
LEMMA Stretch ==
  ASSUME NEW S, NEW s \in Seq(S), NEW a \in Nat, NEW b \in Nat, a <= b, b <= Len(s)
  PROVE  LET piece == SubSeq(s, a + 1, b)
         IN  /\ piece \in Seq(S) /\ Len(piece) = b - a
             /\ \A m \in 1 .. (b - a) : a + m \in 1 .. Len(s) /\ piece[m] = s[a + m]
<1>1. SubSeq(s, a + 1, b) = [m \in 1 .. (b - a) |-> s[a + m]]
  OBVIOUS
<1>2. \A m \in 1 .. (b - a) : a + m \in 1 .. Len(s)
  OBVIOUS
<1>3. \A m \in 1 .. (b - a) : s[a + m] \in S
  BY <1>2
<1> QED BY <1>1, <1>2, <1>3

(* The pieces that a sequence is cut into are not empty, have all that is  *)
(* in it and are apart.                                                    *)
LEMMA PieceOfPlace ==
  ASSUME NEW n \in Nat, NEW size \in Nat \ {0}, NEW k \in 1 .. n
  PROVE  \E i \in 1 .. (n + size - 1) \div size : (i - 1) * size < k /\ k <= i * size
<1> DEFINE q == (k - 1) \div size
<1>1. q \in Nat /\ q * size <= k - 1 /\ k - 1 < (q + 1) * size
  OBVIOUS
<1>2. (q + 1) * size = q * size + size
  BY <1>1
<1> HIDE DEF q
<1> DEFINE e == (n + size - 1) \div size
<1>3. e \in Nat /\ n + size - 1 < (e + 1) * size
  OBVIOUS
<1>4. q + 1 < e + 1
  <2>1. (q + 1) * size <= n + size - 1
    BY <1>1, <1>2
  <2>2. (q + 1) * size < (e + 1) * size
    <3>1. (q + 1) * size \in Nat /\ (e + 1) * size \in Nat
      BY <1>1, <1>3
    <3> QED BY <2>1, <1>3, <3>1
  <2> HIDE DEF e
  <2> QED BY <2>2, <1>1, <1>3
<1> HIDE DEF e
<1>5. q + 1 \in 1 .. e
  BY <1>1, <1>3, <1>4
<1>6. (q + 1) - 1 = q
  BY <1>1
<1>7. q * size < k /\ k <= (q + 1) * size
  BY <1>1, <1>2
<1> QED BY <1>5, <1>6, <1>7 DEF e

LEMMA OnePiece ==
  ASSUME NEW size \in Nat \ {0}, NEW k \in Nat, NEW i \in Nat, NEW j \in Nat,
         (i - 1) * size < k, k <= i * size, (j - 1) * size < k, k <= j * size
  PROVE  i = j
<1>1. (i - 1) * size < j * size /\ (j - 1) * size < i * size
  <2>1. (i - 1) * size \in Int /\ (j - 1) * size \in Int /\ i * size \in Int /\ j * size \in Int
    OBVIOUS
  <2> QED BY <2>1
<1>2. i - 1 < j /\ j - 1 < i
  BY <1>1
<1> QED BY <1>2

LEMMA PiecesWithin ==
  ASSUME NEW n \in Nat, NEW size \in Nat \ {0}, NEW i \in 1 .. (n + size - 1) \div size
  PROVE  (i - 1) * size < n
<1> DEFINE e == (n + size - 1) \div size
<1>1. e \in Nat /\ e * size <= n + size - 1
  OBVIOUS
<1> HIDE DEF e
<1>2. i * size <= e * size
  BY <1>1 DEF e
<1>3. (i - 1) * size = i * size - size
  OBVIOUS
<1>4. i * size \in Int /\ e * size \in Int /\ (i - 1) * size \in Int
  BY <1>1
<1> QED BY <1>1, <1>2, <1>3, <1>4

LEMMA ChunksPartition ==
  ASSUME NEW S, NEW items \in Seq(S), NEW size \in Nat \ {0}
  PROVE  LET pieces == Chunks(items, size)
         IN  /\ pieces \in Seq(Seq(S)) /\ Len(pieces) = (Len(items) + size - 1) \div size
             /\ \A i \in DOMAIN pieces : pieces[i] # <<>>
             /\ UNION {Range(pieces[i]) : i \in DOMAIN pieces} = Range(items)
             /\ IsInjective(items) =>
                  /\ \A i \in DOMAIN pieces : IsInjective(pieces[i])
                  /\ \A i, j \in DOMAIN pieces :
                       i # j => Range(pieces[i]) \cap Range(pieces[j]) = {}
<1> DEFINE pieces == Chunks(items, size)
           n == Len(items)
           e == (n + size - 1) \div size
           end(i) == IF i * size < n THEN i * size ELSE n
           start(i) == (i - 1) * size
<1>1. n \in Nat /\ e \in Nat
  OBVIOUS
<1>2. ASSUME NEW i \in 1 .. e
      PROVE  /\ start(i) \in Nat /\ end(i) \in Nat /\ start(i) < end(i) /\ end(i) <= n
             /\ end(i) <= i * size
  <2>1. start(i) < n
    BY <1>1, PiecesWithin
  <2>2. start(i) < i * size /\ start(i) \in Nat /\ i * size \in Nat
    <3>1. start(i) = i * size - size
      BY <1>1
    <3>2. i - 1 \in Nat
      BY <1>1
    <3>3. start(i) \in Nat /\ i * size \in Nat
      BY <3>2, <1>1
    <3> QED BY <3>1, <3>3
  <2> QED BY <2>1, <2>2, <1>1
<1>3. pieces = [i \in 1 .. e |-> SubSeq(items, start(i) + 1, end(i))]
  BY DEF Chunks
<1> HIDE DEF n, e, start, end, pieces
<1>4. ASSUME NEW i \in 1 .. e
      PROVE  /\ pieces[i] \in Seq(S) /\ Len(pieces[i]) = end(i) - start(i)
             /\ \A m \in 1 .. Len(pieces[i]) : pieces[i][m] = items[start(i) + m]
  <2>1. pieces[i] = SubSeq(items, start(i) + 1, end(i))
    BY <1>3
  <2>2. start(i) \in Nat /\ end(i) \in Nat /\ start(i) <= end(i) /\ end(i) <= Len(items)
    BY <1>1, <1>2 DEF n
  <2>3. /\ pieces[i] \in Seq(S) /\ Len(pieces[i]) = end(i) - start(i)
        /\ \A m \in 1 .. (end(i) - start(i)) : pieces[i][m] = items[start(i) + m]
    BY <2>1, <2>2, Stretch, SMTT(30)
  <2> QED BY <2>3
<1>5. pieces \in Seq(Seq(S)) /\ DOMAIN pieces = 1 .. e /\ Len(pieces) = e
  BY <1>1, <1>3, <1>4
<1>6. \A i \in 1 .. e : pieces[i] # <<>>
  BY <1>2, <1>4
<1>7. ASSUME NEW x \in Range(items) PROVE \E i \in 1 .. e : x \in Range(pieces[i])
  <2>1. PICK k \in 1 .. n : x = items[k]
    BY <1>1 DEF Range, n
  <2>2. PICK i \in 1 .. e : start(i) < k /\ k <= i * size
    BY <1>1, PieceOfPlace DEF start, e
  <2>3. k <= end(i)
    BY <2>2, <1>1 DEF end
  <2>4. k - start(i) \in 1 .. Len(pieces[i])
    BY <2>2, <2>3, <1>2, <1>4
  <2>5. pieces[i][k - start(i)] = items[k]
    BY <2>4, <1>4, <1>2
  <2> QED BY <2>1, <2>4, <2>5, <1>4 DEF Range
<1>8. ASSUME NEW i \in 1 .. e, NEW x \in Range(pieces[i])
      PROVE  \E k \in 1 .. n : x = items[k] /\ start(i) < k /\ k <= i * size
  <2>1. PICK m \in 1 .. Len(pieces[i]) : x = pieces[i][m]
    BY <1>4 DEF Range
  <2>2. start(i) + m \in 1 .. n /\ start(i) < start(i) + m /\ start(i) + m <= i * size
    BY <1>1, <1>2, <1>4
  <2> QED BY <2>1, <2>2, <1>4
<1>9. UNION {Range(pieces[i]) : i \in 1 .. e} = Range(items)
  <2>1. ASSUME NEW i \in 1 .. e, NEW x \in Range(pieces[i]) PROVE x \in Range(items)
    <3>1. PICK k \in 1 .. n : x = items[k]
      BY <1>8
    <3> QED BY <3>1 DEF Range, n
  <2> QED BY <2>1, <1>7
<1>10. ASSUME IsInjective(items), NEW i \in 1 .. e PROVE IsInjective(pieces[i])
  <2> SUFFICES ASSUME NEW l \in 1 .. Len(pieces[i]), NEW m \in 1 .. Len(pieces[i]),
                      pieces[i][l] = pieces[i][m]
               PROVE  l = m
    BY <1>4 DEF IsInjective
  <2>1. start(i) + l \in 1 .. n /\ start(i) + m \in 1 .. n
    <3>1. start(i) \in Nat /\ start(i) < end(i) /\ end(i) <= n /\ end(i) \in Nat
      BY <1>2
    <3>2. Len(pieces[i]) = end(i) - start(i)
      BY <1>4
    <3> QED BY <1>1, <3>1, <3>2, SMTT(30)
  <2>2. items[start(i) + l] = items[start(i) + m]
    BY <1>4
  <2>3. start(i) + l = start(i) + m
    BY <1>10, <2>1, <2>2 DEF IsInjective, n
  <2> QED BY <2>3, <1>2, <1>4
<1>11. ASSUME IsInjective(items), NEW i \in 1 .. e, NEW j \in 1 .. e, NEW x,
              x \in Range(pieces[i]), x \in Range(pieces[j])
       PROVE  i = j
  <2>1. PICK k \in 1 .. n : x = items[k] /\ start(i) < k /\ k <= i * size
    BY <1>8, <1>11
  <2>2. PICK l \in 1 .. n : x = items[l] /\ start(j) < l /\ l <= j * size
    BY <1>8, <1>11
  <2>3. k = l
    <3>1. k \in DOMAIN items /\ l \in DOMAIN items
      BY DEF n
    <3> QED BY <1>11, <2>1, <2>2, <3>1 DEF IsInjective
  <2> QED BY <1>1, <2>1, <2>2, <2>3, OnePiece DEF start
<1> QED BY <1>5, <1>6, <1>9, <1>10, <1>11 DEF n, e, pieces

(* A set of numbers up to n can be listed in order.                        *)
LEMMA Listed ==
  ASSUME NEW n \in Nat, NEW left \in SUBSET (1 .. n)
  PROVE  \E s \in [1 .. Cardinality(left) -> left] :
           \A i, j \in DOMAIN s : i < j => s[i] < s[j]
<1> DEFINE Sorted(T) == \E s \in [1 .. Cardinality(T) -> T] :
                          \A i, j \in 1 .. Cardinality(T) : i < j => s[i] < s[j]
           Bad == {m \in Nat : \E T \in SUBSET (1 .. m) : ~Sorted(T)}
<1>1. ASSUME Bad # {} PROVE FALSE
  <2>1. PICK m \in Bad : \A k \in Bad : m <= k
    BY <1>1, Least, Zenon
  <2>2. PICK T \in SUBSET (1 .. m) : ~Sorted(T)
    OBVIOUS
  <2>3. m # 0
    <3> SUFFICES ASSUME m = 0 PROVE Sorted(T)
      BY <2>2
    <3>1. T = {} /\ Cardinality(T) = 0
      <4>1. 1 .. m = {}
        OBVIOUS
      <4> QED BY <4>1, FS_EmptySet
    <3>2. [k \in {} |-> 0] \in [1 .. Cardinality(T) -> T]
      BY <3>1
    <3> QED BY <3>1, <3>2
  <2>4. \A U \in SUBSET (1 .. (m - 1)) : Sorted(U)
    <3> HIDE DEF Sorted
    <3>1. m - 1 \in Nat /\ ~ (m <= m - 1)
      BY <2>3
    <3>2. m - 1 \notin Bad
      BY <2>1, <3>1, Zenon
    <3> QED BY <3>1, <3>2
  <2>5. m \in T
    BY <2>2, <2>4
  <2> DEFINE U == T \ {m}
             c == Cardinality(T)
  <2>6. IsFiniteSet(T)
    BY UpTo
  <2>7. Cardinality(U) = c - 1 /\ c \in Nat /\ c # 0
    BY <2>5, <2>6, FS_RemoveElement, FS_CardinalityType, FS_EmptySet
  <2>8. PICK s \in [1 .. Cardinality(U) -> U] :
               \A i, j \in 1 .. Cardinality(U) : i < j => s[i] < s[j]
    <3>1. U \in SUBSET (1 .. (m - 1))
      BY <2>3
    <3> QED BY <2>4, <3>1
  <2> DEFINE r == [k \in 1 .. c |-> IF k = c THEN m ELSE s[k]]
  <2>9. \A k \in 1 .. c : k # c => k \in 1 .. (c - 1)
    BY <2>7
  <2>10. \A k \in 1 .. (c - 1) : s[k] \in T /\ s[k] < m /\ s[k] \in Nat
    <3>1. \A u \in U : u \in T /\ u < m /\ u \in Nat
      OBVIOUS
    <3>2. \A k \in 1 .. (c - 1) : s[k] \in U
      BY <2>7, <2>8
    <3> QED BY <3>1, <3>2
  <2>11. r \in [1 .. c -> T]
    BY <2>5, <2>9, <2>10
  <2>12. ASSUME NEW i \in 1 .. c, NEW j \in 1 .. c, i < j PROVE r[i] < r[j]
    <3>1. i # c /\ i \in 1 .. (c - 1)
      BY <2>7, <2>12
    <3>2. CASE j = c
      BY <3>1, <3>2, <2>10
    <3>3. CASE j # c
      <4>1. r[j] = s[j] /\ r[i] = s[i] /\ j \in 1 .. (c - 1)
        BY <3>1, <3>3, <2>9
      <4>2. s[i] < s[j]
        BY <2>7, <2>8, <2>12, <3>1, <4>1
      <4> QED BY <4>1, <4>2
    <3> QED BY <3>2, <3>3
  <2>13. Sorted(T)
    <3> HIDE DEF r
    <3> QED BY <2>11, <2>12
  <2> QED BY <2>2, <2>13
<1>2. Sorted(left)
  BY <1>1
<1>3. PICK s \in [1 .. Cardinality(left) -> left] :
             \A i, j \in 1 .. Cardinality(left) : i < j => s[i] < s[j]
  BY <1>2
<1>4. DOMAIN s = 1 .. Cardinality(left)
  OBVIOUS
<1> QED BY <1>3, <1>4

(* What is to be mapped are the batches without a valid artifact, once.    *)
LEMMA MissingBatches ==
  LET left == {b \in Batches : ~batchOutputIsValid(b)}
  IN  Missing \in Seq(Batches) /\ Range(Missing) = left /\ IsInjective(Missing)
<1> DEFINE left == {b \in Batches : ~batchOutputIsValid(b)}
           n == Len(FilesOf)
<1>1. n \in Nat /\ Batches = 1 .. n /\ left \in SUBSET (1 .. n)
  BY BatchesOfFiles DEF Batches
<1> HIDE DEF left, n
<1>2. IsFiniteSet(left) /\ Cardinality(left) \in Nat
  BY <1>1, UpTo
<1> DEFINE c == Cardinality(left)
<1>3. Missing \in [1 .. c -> left] /\ \A i, j \in DOMAIN Missing : i < j => Missing[i] < Missing[j]
  <2>1. \E s \in [1 .. c -> left] : \A i, j \in DOMAIN s : i < j => s[i] < s[j]
    BY <1>1, Listed
  <2> QED BY <2>1, Zenon DEF Missing, left
<1> HIDE DEF c
<1>4. Missing \in Seq(Batches) /\ DOMAIN Missing = 1 .. c
  <2>1. Missing \in [1 .. c -> Batches]
    BY <1>1, <1>3
  <2> QED BY <1>2, <2>1, ListIsSeq DEF c
<1>5. IsInjective(Missing)
  <2> SUFFICES ASSUME NEW i \in 1 .. c, NEW j \in 1 .. c, Missing[i] = Missing[j], i # j
               PROVE  FALSE
    BY <1>3 DEF IsInjective
  <2>1. Missing[i] \in Nat /\ Missing[j] \in Nat
    <3>1. Missing[i] \in left /\ Missing[j] \in left
      BY <1>3
    <3>2. \A b \in left : b \in Nat
      BY <1>1
    <3> HIDE DEF Missing
    <3> QED BY <3>1, <3>2, Zenon
  <2>2. i < j \/ j < i
    BY <1>2 DEF c
  <2> QED BY <1>3, <2>1, <2>2
<1>6. Range(Missing) = left
  <2>1. Missing \in Injection(1 .. c, left)
    BY <1>3, <1>5 DEF Injection, IsInjective
  <2>2. IsFiniteSet(1 .. c) /\ Cardinality(1 .. c) = c
    BY <1>2, FS_Interval DEF c
  <2>3. Missing \in Surjection(1 .. c, left)
    BY <1>2, <2>1, <2>2, FS_Injection DEF c
  <2> QED BY <1>3, <2>3 DEF Surjection, Range
<1> QED BY <1>4, <1>5, <1>6 DEF left

LEMMA Ceiling ==
  ASSUME NEW n \in Nat \ {0}, NEW slots \in Nat \ {0}
  PROVE  LET size == (n + slots - 1) \div slots
         IN  size \in Nat \ {0} /\ (n + size - 1) \div size <= slots
<1> DEFINE size == (n + slots - 1) \div slots
           e == (n + size - 1) \div size
<1>1. size \in Nat /\ n + slots - 1 < (size + 1) * slots
  OBVIOUS
<1> HIDE DEF size
<1>2. (size + 1) * slots = size * slots + slots /\ size * slots \in Nat
  BY <1>1
<1>3. n <= size * slots
  BY <1>1, <1>2
<1>4. size # 0
  BY <1>3
<1>5. e \in Nat /\ e * size <= n + size - 1
  BY <1>1, <1>4
<1> HIDE DEF e
<1>6. e * size < (slots + 1) * size
  <2>1. (slots + 1) * size = size * slots + size /\ e * size \in Nat
    BY <1>1, <1>5
  <2> QED BY <1>1, <1>2, <1>3, <1>5, <2>1
<1>7. e < slots + 1
  BY <1>1, <1>4, <1>5, <1>6
<1> QED BY <1>1, <1>4, <1>5, <1>7 DEF size, e

(* There is a worker for every segment, and each missing batch is in one.  *)
LEMMA SegmentsPartition ==
  ASSUME Missing # <<>>
  PROVE  /\ DOMAIN Segments \subseteq Slots
         /\ \A w \in DOMAIN Segments : Segments[w] \in Seq(Batches)
         /\ UNION {Range(Segments[w]) : w \in DOMAIN Segments}
              = {b \in Batches : ~batchOutputIsValid(b)}
         /\ \A v, w \in DOMAIN Segments :
              v # w => Range(Segments[v]) \cap Range(Segments[w]) = {}
<1> DEFINE n == Len(Missing)
           slots == IF n < Mappers THEN n ELSE Mappers
           size == (n + slots - 1) \div slots
<1>1. Missing \in Seq(Batches) /\ IsInjective(Missing)
      /\ Range(Missing) = {b \in Batches : ~batchOutputIsValid(b)}
  BY MissingBatches
<1>2. Segments = Chunks(Missing, size)
  BY DEF Segments
<1> HIDE DEF Missing, Segments
<1>3. n \in Nat \ {0}
  BY <1>1
<1> HIDE DEF n
<1>4. slots \in Nat \ {0} /\ slots <= Mappers
  BY <1>3, MappingBounds
<1> HIDE DEF slots
<1>5. size \in Nat \ {0} /\ (n + size - 1) \div size <= slots
  BY <1>3, <1>4, Ceiling
<1>6. (n + size - 1) \div size \in Nat
  BY <1>3, <1>5
<1> HIDE DEF size
<1>7. /\ Segments \in Seq(Seq(Batches)) /\ Len(Segments) = (n + size - 1) \div size
      /\ UNION {Range(Segments[w]) : w \in DOMAIN Segments} = Range(Missing)
      /\ \A v, w \in DOMAIN Segments :
           v # w => Range(Segments[v]) \cap Range(Segments[w]) = {}
  <2> DEFINE pieces == Chunks(Missing, size)
  <2>1. /\ pieces \in Seq(Seq(Batches)) /\ Len(pieces) = (n + size - 1) \div size
        /\ UNION {Range(pieces[i]) : i \in DOMAIN pieces} = Range(Missing)
        /\ \A i, j \in DOMAIN pieces : i # j => Range(pieces[i]) \cap Range(pieces[j]) = {}
    BY <1>1, <1>5, ChunksPartition, Zenon DEF n
  <2> QED BY <1>2, <2>1, Zenon
<1>8. DOMAIN Segments = 1 .. Len(Segments)
  BY <1>7
<1>9. DOMAIN Segments \subseteq Slots
  BY <1>4, <1>5, <1>6, <1>7, <1>8, MappingBounds DEF Slots
<1> QED BY <1>1, <1>7, <1>9

(* The files of tasks that have none in common are counted one by one.     *)
LEMMA SumCounts ==
  ASSUME NEW S, NEW tasks \in Seq(Seq(S)),
         \A i \in DOMAIN tasks : IsInjective(tasks[i]),
         \A i, j \in DOMAIN tasks : i # j => Range(tasks[i]) \cap Range(tasks[j]) = {}
  PROVE  LET all == UNION {Range(tasks[i]) : i \in DOMAIN tasks}
         IN  IsFiniteSet(all) /\ Cardinality(all) = SumLengths(tasks) /\ SumLengths(tasks) \in Nat
<1> DEFINE all == UNION {Range(tasks[i]) : i \in DOMAIN tasks}
           places == UNION {{i} \X DOMAIN tasks[i] : i \in DOMAIN tasks}
           f == [p \in places |-> tasks[p[1]][p[2]]]
<1>1. \A p \in places : p[1] \in DOMAIN tasks /\ p[2] \in DOMAIN tasks[p[1]] /\ p = <<p[1], p[2]>>
  OBVIOUS
<1>2. \A i \in DOMAIN tasks : \A k \in DOMAIN tasks[i] : <<i, k>> \in places
  OBVIOUS
<1> HIDE DEF places
<1>3. ASSUME NEW p \in places, NEW q \in places, f[p] = f[q] PROVE p = q
  <2>1. tasks[p[1]][p[2]] = tasks[q[1]][q[2]]
    BY <1>3
  <2>2. tasks[p[1]][p[2]] \in Range(tasks[p[1]]) /\ tasks[q[1]][q[2]] \in Range(tasks[q[1]])
    BY <1>1 DEF Range
  <2>3. p[1] = q[1]
    BY <1>1, <2>1, <2>2
  <2>4. p[2] = q[2]
    BY <1>1, <2>1, <2>3 DEF IsInjective
  <2> QED BY <1>1, <2>3, <2>4, Zenon
<1>4. f \in [places -> all]
  BY <1>1 DEF Range
<1>5. \A x \in all : \E p \in places : f[p] = x
  <2> SUFFICES ASSUME NEW x \in all PROVE \E p \in places : f[p] = x
    OBVIOUS
  <2>1. PICK i \in DOMAIN tasks : x \in Range(tasks[i])
    OBVIOUS
  <2>2. PICK k \in DOMAIN tasks[i] : x = tasks[i][k]
    BY <2>1 DEF Range
  <2>3. <<i, k>> \in places /\ f[<<i, k>>] = x
    BY <1>2, <2>2
  <2> QED BY <2>3
<1> HIDE DEF f, all
<1>6. f \in Bijection(places, all)
  BY <1>3, <1>4, <1>5 DEF Bijection, Injection, Surjection, IsInjective
<1>7. IsFiniteSet(places)
  <2>1. DOMAIN tasks = 1 .. Len(tasks) /\ Len(tasks) \in Nat
    OBVIOUS
  <2> DEFINE rows == {{i} \X DOMAIN tasks[i] : i \in DOMAIN tasks}
  <2>2. IsFiniteSet(rows)
    <3> DEFINE g == [i \in 1 .. Len(tasks) |-> {i} \X DOMAIN tasks[i]]
    <3>1. g \in Surjection(1 .. Len(tasks), rows)
      BY <2>1 DEF Surjection
    <3> QED BY <2>1, <3>1, UpTo, FS_Surjection
  <2>3. \A row \in rows : IsFiniteSet(row)
    <3> SUFFICES ASSUME NEW i \in DOMAIN tasks PROVE IsFiniteSet({i} \X DOMAIN tasks[i])
      OBVIOUS
    <3>1. IsFiniteSet(DOMAIN tasks[i])
      <4>1. DOMAIN tasks[i] = 1 .. Len(tasks[i]) /\ Len(tasks[i]) \in Nat
        OBVIOUS
      <4> QED BY <4>1, UpTo
    <3> QED BY <3>1, FS_Singleton, FS_Product
  <2> QED BY <2>2, <2>3, FS_UNION DEF places
<1>8. IsFiniteSet(all) /\ Cardinality(all) = Cardinality(places)
  BY <1>6, <1>7, FS_Bijection DEF ExistsBijection
<1> QED BY <1>7, <1>8, FS_CardinalityType DEF SumLengths, places, all

-----------------------------------------------------------------------------
(* The models of a call.                                                   *)

LEMMA IndexMoves ==
  ASSUME Models # <<>>, NEW m \in Candidates, NEW n \in 0 .. Len(Models) - 1
  PROVE  After(m, n) \in Candidates
<1>1. Len(Models) \in Nat \ {0} /\ Candidates = 1 .. Len(Models)
  BY ModelsAreListed DEF Candidates
<1>2. m + n - 1 \in Nat
  BY <1>1
<1>3. (m + n - 1) % Len(Models) \in 0 .. Len(Models) - 1
  BY <1>1, <1>2
<1> QED BY <1>1, <1>3 DEF After

(* Every candidate is looked at.                                           *)
LEMMA IndexReaches ==
  ASSUME Models # <<>>, NEW m \in Candidates, NEW k \in Candidates
  PROVE  \E n \in 0 .. Len(Models) - 1 : After(m, n) = k
<1>1. Len(Models) \in Nat \ {0} /\ Candidates = 1 .. Len(Models)
  BY ModelsAreListed DEF Candidates
<1>2. CASE k >= m
  <2> DEFINE n == k - m
  <2>1. n \in 0 .. Len(Models) - 1 /\ m + n - 1 = k - 1
    BY <1>1, <1>2
  <2>2. (k - 1) % Len(Models) = k - 1
    BY <1>1
  <2> HIDE DEF n
  <2>3. After(m, n) = k
    BY <1>1, <2>1, <2>2 DEF After
  <2> QED BY <2>1, <2>3
<1>3. CASE k < m
  <2> DEFINE n == k - m + Len(Models)
  <2>1. n \in 0 .. Len(Models) - 1 /\ m + n - 1 = (k - 1) + Len(Models)
    BY <1>1, <1>3
  <2>2. ((k - 1) + Len(Models)) % Len(Models) = k - 1
    BY <1>1
  <2> HIDE DEF n
  <2>3. After(m, n) = k
    BY <1>1, <2>1, <2>2 DEF After
  <2> QED BY <2>1, <2>3
<1> QED BY <1>1, <1>2, <1>3

LEMMA AvailableModel ==
  ASSUME Models # <<>>, NEW c, NEW m \in Candidates
  PROVE  /\ Available(c, m) \in {NoModel} \cup Candidates
         /\ Available(c, m) = NoModel => \A k \in Candidates : ~Cool(c, k)
<1> DEFINE free == {n \in 0 .. Len(Models) - 1 : Cool(c, After(m, n))}
<1>1. CASE free = {}
  <2>1. Available(c, m) = NoModel
    BY <1>1 DEF Available
  <2>2. \A k \in Candidates : ~Cool(c, k)
    BY <1>1, IndexReaches
  <2> QED BY <2>1, <2>2
<1>2. CASE free # {}
  <2> DEFINE n == CHOOSE n \in free : \A k \in free : n <= k
  <2>1. free \in SUBSET Nat
    OBVIOUS
  <2>2. n \in free
    <3> HIDE DEF free
    <3> QED BY <1>2, <2>1, Least
  <2>3. Available(c, m) = After(m, n)
    BY <1>2 DEF Available
  <2> HIDE DEF n
  <2>4. Available(c, m) \in Candidates
    BY <2>2, <2>3, IndexMoves
  <2>5. NoModel \notin Candidates
    BY ModelsAreListed DEF Candidates, NoModel
  <2> QED BY <2>4, <2>5
<1> QED BY <1>1, <1>2

LEMMA UntilIsPlace ==
  ASSUME NEW Names, NEW c \in CallType(Names), NEW m, ~Cool(c, m)
  PROVE  Until(c, m) \in DOMAIN c.cooling /\ Until(c, m) \in Nat
<1> DEFINE q == c.cooling
           n == Len(q)
           from == {k \in Nat : k < n /\ q[n - k] = m}
<1>1. q \in Seq(Candidates) /\ n \in Nat /\ DOMAIN q = 1 .. n
  BY DEF CallType
<1>2. PICK i \in 1 .. n : q[i] = m
  BY <1>1 DEF Cool
<1> HIDE DEF q, n
<1>3. n - i \in from
  BY <1>1, <1>2
<1>4. PICK k \in from : \A l \in from : k <= l
  BY <1>3, Least
<1> DEFINE j == n - k
<1>5. j \in 1 .. n /\ q[j] = m
  BY <1>1, <1>4
<1>6. ASSUME NEW l \in 1 .. n, l > j PROVE q[l] # m
  <2>1. n - l \in Nat /\ n - l < k /\ n - l < n /\ n - (n - l) = l
    BY <1>1, <1>6
  <2>2. n - l \notin from
    BY <1>4, <2>1
  <2> QED BY <2>1, <2>2
<1> HIDE DEF j
<1>7. \E p \in DOMAIN q : q[p] = m /\ \A l \in DOMAIN q : l > p => q[l] # m
  BY <1>1, <1>5, <1>6
<1>8. Until(c, m) \in DOMAIN q
  BY <1>7, Zenon DEF Until, q
<1> QED BY <1>1, <1>8 DEF q


(* What d has of c when nothing of the work of a call changes.             *)
SameCounts(c, d) ==
  /\ d.end = c.end /\ d.files = c.files /\ d.tasks = c.tasks /\ d.texts = c.texts
  /\ d.analyzed = c.analyzed /\ d.failed = c.failed /\ d.skipped = c.skipped

(* A call of which one thread, and perhaps the candidate, is another.      *)
Put(c, t, th, i) == [c EXCEPT !.thread[t] = th, !.index = i]

LEMMA OneThread ==
  ASSUME NEW Names, NEW c \in CallType(Names), NEW t \in Threads, NEW th \in ThreadType(Names),
         NEW i \in Nat \ {0}, Models # <<>> => i \in Candidates, ModelsKnown(c),
         th.at = "cooldown" => th.model \in Candidates
  PROVE  LET d == Put(c, t, th, i)
         IN  /\ d \in CallType(Names) /\ ModelsKnown(d) /\ SameCounts(c, d)
             /\ d.chain = c.chain /\ d.streak = c.streak /\ d.tripped = c.tripped
             /\ \A u \in Threads \ {t} : d.thread[u] = c.thread[u]
             /\ d.thread[t] = th
<1> DEFINE d == Put(c, t, th, i)
<1>1. /\ d.thread = [c.thread EXCEPT ![t] = th] /\ d.index = i
      /\ d.chain = c.chain /\ d.streak = c.streak /\ d.tripped = c.tripped /\ SameCounts(c, d)
  BY DEF CallType, SameCounts, Put
<1>2. d \in CallType(Names)
  BY DEF CallType, Put
<1>3. c.thread \in [Threads -> ThreadType(Names)]
  BY DEF CallType
<1> HIDE DEF d
<1>4. (\A u \in Threads \ {t} : d.thread[u] = c.thread[u]) /\ d.thread[t] = th
  BY <1>1, <1>3
<1>5. ModelsKnown(d)
  BY <1>1, <1>4 DEF ModelsKnown
<1> QED BY <1>1, <1>2, <1>4, <1>5 DEF d

LEMMA SelectedFits ==
  ASSUME NEW Names, NEW c \in CallType(Names), ModelsKnown(c), NEW t \in Threads
  PROVE  LET d == Selected(c, t)
         IN  /\ d \in CallType(Names) /\ ModelsKnown(d) /\ SameCounts(c, d)
             /\ d.chain = c.chain /\ d.streak = c.streak /\ d.tripped = c.tripped
             /\ \A u \in Threads \ {t} : d.thread[u] = c.thread[u]
             /\ d.thread[t].at \in {"call", "cooldown"} /\ d.thread[t].task = c.thread[t].task
             /\ d.thread[t].missing = c.thread[t].missing /\ d.thread[t].bad = c.thread[t].bad
<1> DEFINE free == Available(c, c.index)
           next == CHOOSE m \in Candidates : \A n \in Candidates : Until(c, m) <= Until(c, n)
<1> HIDE DEF free, next
<1>0. Candidates \subseteq Nat \ {0} /\ c.thread[t] \in ThreadType(Names)
  BY ModelsAreListed DEF Candidates, CallType
<1>1. CASE Models = <<>>
  <2>1. Selected(c, t) = [c EXCEPT !.thread[t].at = "call"]
    BY <1>1 DEF Selected
  <2> DEFINE th == [c.thread[t] EXCEPT !.at = "call"]
  <2>2. Selected(c, t) = Put(c, t, th, c.index)
    BY <2>1 DEF CallType, Put
  <2>3. /\ th \in ThreadType(Names) /\ th.at = "call" /\ th.task = c.thread[t].task
        /\ th.missing = c.thread[t].missing /\ th.bad = c.thread[t].bad
    BY <1>0 DEF ThreadType
  <2>4. c.index \in Nat \ {0}
    BY DEF CallType
  <2> HIDE DEF th
  <2>5. Models # <<>> => c.index \in Candidates
    BY <1>1
  <2>6. th.at = "cooldown" => th.model \in Candidates
    BY <2>3
  <2> QED BY <2>2, <2>3, <2>4, <2>5, <2>6, OneThread
<1>2. CASE Models # <<>> /\ free # NoModel
  <2>1. Selected(c, t) = [c EXCEPT !.thread[t] = [c.thread[t] EXCEPT !.at = "call", !.model = free],
                                   !.index = free]
    BY <1>2 DEF Selected, free
  <2>2. free \in Candidates
    BY <1>2, AvailableModel DEF free, ModelsKnown
  <2> DEFINE th == [c.thread[t] EXCEPT !.at = "call", !.model = free]
  <2>3. Selected(c, t) = Put(c, t, th, free)
    BY <2>1 DEF CallType, Put
  <2>4. /\ th \in ThreadType(Names) /\ th.at = "call" /\ th.task = c.thread[t].task
        /\ th.missing = c.thread[t].missing /\ th.bad = c.thread[t].bad
    BY <1>0, <2>2 DEF ThreadType
  <2>5. free \in Nat \ {0}
    BY <1>0, <2>2
  <2> HIDE DEF th
  <2>6. Models # <<>> => free \in Candidates
    BY <2>2
  <2>7. th.at = "cooldown" => th.model \in Candidates
    BY <2>4
  <2> QED BY <2>3, <2>4, <2>5, <2>6, <2>7, OneThread
<1>3. CASE Models # <<>> /\ free = NoModel
  <2>1. Selected(c, t) = [c EXCEPT !.thread[t] =
                             [c.thread[t] EXCEPT !.at = "cooldown", !.model = next,
                                                 !.ahead = Until(c, next)]]
    BY <1>3 DEF Selected, free, next
  <2>2. \A k \in Candidates : Until(c, k) \in Nat
    BY <1>3, AvailableModel, UntilIsPlace DEF free, ModelsKnown
  <2>3. next \in Candidates
    <3> DEFINE ends == {Until(c, k) : k \in Candidates}
    <3>1. ends \in SUBSET Nat /\ ends # {}
      BY <1>3, <2>2 DEF ModelsKnown
    <3>2. PICK e \in ends : \A n \in ends : e <= n
      BY <3>1, Least
    <3>3. PICK m \in Candidates : e = Until(c, m)
      BY <3>2
    <3>4. \A n \in Candidates : Until(c, m) <= Until(c, n)
      BY <3>2, <3>3
    <3> QED BY <3>4, Zenon DEF next
  <2>4. Until(c, next) \in Nat
    BY <2>2, <2>3
  <2> DEFINE th == [c.thread[t] EXCEPT !.at = "cooldown", !.model = next, !.ahead = Until(c, next)]
  <2>5. Selected(c, t) = Put(c, t, th, c.index)
    BY <2>1 DEF CallType, Put
  <2>6. /\ th \in ThreadType(Names) /\ th.at = "cooldown" /\ th.task = c.thread[t].task
        /\ th.missing = c.thread[t].missing /\ th.bad = c.thread[t].bad /\ th.model = next
    <3> DEFINE e == Until(c, next)
    <3> HIDE DEF e
    <3>1. e \in Nat
      BY <2>4 DEF e
    <3>2. th = [c.thread[t] EXCEPT !.at = "cooldown", !.model = next, !.ahead = e]
      BY DEF e
    <3> HIDE DEF th
    <3> QED BY <1>0, <2>3, <3>1, <3>2 DEF ThreadType
  <2> HIDE DEF th
  <2>7. c.index \in Nat \ {0}
    BY DEF CallType
  <2>8. Models # <<>> => c.index \in Candidates
    BY DEF ModelsKnown
  <2>9. th.at = "cooldown" => th.model \in Candidates
    BY <2>3, <2>6
  <2> QED BY <2>5, <2>6, <2>7, <2>8, <2>9, OneThread
<1> QED BY <1>1, <1>2, <1>3

LEMMA CooledFits ==
  ASSUME NEW Names, NEW c \in CallType(Names), ModelsKnown(c), NEW m \in {NoModel} \cup Candidates
  PROVE  LET d == Cooled(c, m)
         IN  /\ d \in CallType(Names) /\ ModelsKnown(d) /\ SameCounts(c, d)
             /\ d.chain = c.chain /\ d.streak = c.streak /\ d.tripped = c.tripped
             /\ d.thread = c.thread
<1>1. CASE m = NoModel
  BY <1>1 DEF Cooled, SameCounts
<1>2. CASE m # NoModel
  <2> DEFINE hot == [c EXCEPT !.cooling = Append(@, m)]
             next == After(c.index, 1)
             free == Available(hot, next)
             i == IF free # NoModel THEN free ELSE next
  <2>1. Cooled(c, m) = [c EXCEPT !.cooling = Append(c.cooling, m), !.index = i]
    BY <1>2 DEF Cooled, CallType
  <2>2. m \in Candidates /\ Models # <<>>
    BY <1>2, ModelsAreListed DEF Candidates
  <2>3. next \in Candidates
    <3>1. c.index \in Candidates
      BY <2>2 DEF ModelsKnown
    <3>2. CASE Len(Models) = 1
      <4>1. c.index = 1
        BY <3>1, <3>2, ModelsAreListed DEF Candidates
      <4>2. (1 + 1 - 1) % 1 = 0
        OBVIOUS
      <4> QED BY <3>2, <4>1, <4>2, ModelsAreListed DEF After, Candidates
    <3>3. CASE Len(Models) # 1
      <4>1. 1 \in 0 .. Len(Models) - 1
        <5> DEFINE n == Len(Models)
        <5>1. n \in Nat /\ n # 0
          BY <2>2, ModelsAreListed
        <5>2. n # 1
          BY <3>3
        <5> HIDE DEF n
        <5>3. 1 \in 0 .. n - 1
          BY <5>1, <5>2
        <5> QED BY <5>3 DEF n
      <4> QED BY <2>2, <3>1, <4>1, IndexMoves
    <3> QED BY <3>2, <3>3
  <2> HIDE DEF hot, next
  <2>4. free \in {NoModel} \cup Candidates
    BY <2>2, <2>3, AvailableModel
  <2>5. i \in Candidates
    BY <2>3, <2>4
  <2> HIDE DEF i
  <2>6. i \in Nat \ {0} /\ Append(c.cooling, m) \in Seq(Candidates)
    BY <2>2, <2>5, ModelsAreListed DEF Candidates, CallType
  <2> HIDE DEF Cooled
  <2> QED BY <2>1, <2>5, <2>6 DEF CallType, ThreadType, ModelsKnown, SameCounts
<1> QED BY <1>1, <1>2

-----------------------------------------------------------------------------
(* The accounts of a call.                                                 *)

(* They do not depend on where a thread is at its task.                    *)
SameWork(c, d, threads) ==
  \A t \in threads :
    /\ d.thread[t].task = c.thread[t].task /\ d.thread[t].missing = c.thread[t].missing
    /\ d.thread[t].bad = c.thread[t].bad
    /\ \/ d.thread[t].at = c.thread[t].at
       \/ {c.thread[t].at, d.thread[t].at} \subseteq {"throttle", "cooldown", "call"}

LEMMA SameAccounts ==
  ASSUME NEW c, NEW d, NEW threads,
         SameCounts(c, d), SameWork(c, d, threads), c.tripped => d.tripped
  PROVE  /\ Accounts(c, threads) => Accounts(d, threads)
         /\ \A t \in threads : Held(d, t) = Held(c, t) /\ (ThreadCounts(c, t) => ThreadCounts(d, t))
         /\ CallInv(c, threads) => CallInv(d, threads)
<1>1. Untaken(d) = Untaken(c)
  BY DEF Untaken, SameCounts
<1>2. ASSUME NEW t \in threads PROVE Held(d, t) = Held(c, t)
  BY DEF Held, SameCounts, SameWork
<1>3. Unsettled(d, threads) = Unsettled(c, threads)
  BY <1>1, <1>2 DEF Unsettled
<1>4. TasksApart(c, threads) => TasksApart(d, threads)
  BY <1>1 DEF TasksApart, SameCounts, SameWork
<1>5. Accounts(c, threads) => Accounts(d, threads)
  BY <1>1, <1>3, <1>4 DEF Accounts, SameCounts
<1>6. ASSUME NEW t \in threads, ThreadCounts(c, t) PROVE ThreadCounts(d, t)
  BY <1>2, <1>6 DEF ThreadCounts, SameWork
<1> QED BY <1>2, <1>5, <1>6 DEF CallInv

(* A thread that is done with its task leaves the files without a text to  *)
(* those that failed.                                                      *)
LEMMA Release ==
  ASSUME NEW Names, NEW c \in CallType(Names), NEW t \in Threads, Accounts(c, Threads),
         \A u \in Threads \ {t} : ThreadCounts(c, u)
  PROVE  /\ Cardinality(Held(c, t)) \in Nat
         /\ CallInv([c EXCEPT !.failed = @ + Cardinality(Held(c, t))], Threads \ {t})
<1> DEFINE others == Threads \ {t}
           n == Cardinality(Held(c, t))
           d == [c EXCEPT !.failed = @ + n]
<1>1. Unsettled(c, Threads) = Unsettled(c, others) \cup Held(c, t)
  BY DEF Unsettled
<1>2. Unsettled(c, others) \cap Held(c, t) = {}
  BY SMTT(30) DEF Unsettled, Held, Accounts, TasksApart
<1>3. IsFiniteSet(Unsettled(c, others)) /\ IsFiniteSet(Held(c, t))
  BY <1>1, FS_Subset DEF Accounts
<1>4. n \in Nat /\ Cardinality(Unsettled(c, others)) \in Nat
  BY <1>3, FS_CardinalityType
<1>5. Cardinality(Unsettled(c, Threads)) = Cardinality(Unsettled(c, others)) + n
  BY <1>1, <1>2, <1>3, CountApart
<1> HIDE DEF n
<1>6. /\ d.tasks = c.tasks /\ d.thread = c.thread /\ d.texts = c.texts /\ d.files = c.files
      /\ d.analyzed = c.analyzed /\ d.skipped = c.skipped /\ d.tripped = c.tripped
      /\ d.failed = c.failed + n
  BY DEF CallType
<1> HIDE DEF d
<1>7. Untaken(d) = Untaken(c) /\ (\A u : Held(d, u) = Held(c, u))
  BY <1>6 DEF Untaken, Held
<1>8. Unsettled(d, others) = Unsettled(c, others)
  BY <1>7 DEF Unsettled
<1>9. TasksApart(d, others)
  BY <1>6, <1>7 DEF TasksApart, Accounts
<1>10. Accounts(d, others)
  <2>1. Cardinality(c.texts) \in Nat /\ c.failed \in Nat /\ c.skipped \in Nat
    BY FS_CardinalityType DEF Accounts, CallType
  <2> QED BY <1>3, <1>4, <1>5, <1>6, <1>7, <1>8, <1>9, <2>1 DEF Accounts
<1>11. \A u \in others : ThreadCounts(d, u)
  BY <1>6, <1>7 DEF ThreadCounts
<1> QED BY <1>4, <1>10, <1>11 DEF CallInv, d, n

(* Texts for files of a task.                                              *)
LEMMA Tell ==
  ASSUME NEW Names, NEW c \in CallType(Names), NEW t \in Threads, CallInv(c, Threads),
         NEW files \in SUBSET Held(c, t), NEW n \in Nat, Repeats \/ n = Cardinality(files)
  PROVE  LET d == Texts(c, files, n)
         IN  /\ Accounts(d, Threads) /\ Held(d, t) = Held(c, t) \ files
             /\ \A u \in Threads \ {t} : ThreadCounts(d, u)
<1> DEFINE d == Texts(c, files, n)
<1>1. /\ d.tasks = c.tasks /\ d.thread = c.thread /\ d.files = c.files
      /\ d.failed = c.failed /\ d.skipped = c.skipped /\ d.tripped = c.tripped
      /\ d.texts = c.texts \cup files /\ d.analyzed = c.analyzed + n
  BY DEF Texts, CallType
<1> HIDE DEF d
<1>2. Untaken(d) = Untaken(c)
  BY <1>1 DEF Untaken
<1>3. \A u \in Threads \ {t} : Held(d, u) = Held(c, u)
  BY <1>1 DEF Held, CallInv, Accounts, TasksApart
<1>4. Held(d, t) = Held(c, t) \ files
  BY <1>1 DEF Held
<1>5. files \cap c.texts = {} /\ files \cap Untaken(c) = {}
      /\ \A u \in Threads \ {t} : files \cap Held(c, u) = {}
  BY DEF Held, CallInv, Accounts, TasksApart
<1>6. Unsettled(d, Threads) = Unsettled(c, Threads) \ files /\ files \subseteq Unsettled(c, Threads)
  <2>1. \A x : x \in Unsettled(c, Threads) <=> x \in Untaken(c) \/ \E u \in Threads : x \in Held(c, u)
    BY DEF Unsettled
  <2>2. \A x : x \in Unsettled(d, Threads) <=> x \in Untaken(d) \/ \E u \in Threads : x \in Held(d, u)
    BY DEF Unsettled
  <2> QED BY <1>2, <1>3, <1>4, <1>5, <2>1, <2>2
<1>7. IsFiniteSet(Unsettled(c, Threads)) /\ IsFiniteSet(c.texts) /\ IsFiniteSet(files)
  BY <1>6, FS_Subset DEF CallInv, Accounts
<1>8. /\ Cardinality(files) \in Nat /\ Cardinality(c.texts) \in Nat
      /\ Cardinality(Unsettled(c, Threads)) \in Nat
  BY <1>7, FS_CardinalityType
<1>9. IsFiniteSet(d.texts) /\ Cardinality(d.texts) = Cardinality(c.texts) + Cardinality(files)
  <2>1. c.texts \cap files = {}
    BY <1>5
  <2>2. /\ IsFiniteSet(c.texts \cup files)
        /\ Cardinality(c.texts \cup files) = Cardinality(c.texts) + Cardinality(files)
    BY <1>7, <2>1, CountApart
  <2> QED BY <1>1, <2>2
<1>10. /\ IsFiniteSet(Unsettled(d, Threads))
       /\ Cardinality(Unsettled(d, Threads)) = Cardinality(Unsettled(c, Threads)) - Cardinality(files)
  BY <1>6, <1>7, CountLess
<1>11. TasksApart(d, Threads)
  BY <1>1, <1>2 DEF TasksApart, CallInv, Accounts
<1>12. Accounts(d, Threads)
  <2>1. /\ Cardinality(c.texts) + c.failed + c.skipped + Cardinality(Unsettled(c, Threads)) = Len(c.files)
        /\ Repeats \/ c.analyzed = Cardinality(c.texts)
        /\ c.skipped > 0 => c.tripped
        /\ c.texts \cap Untaken(c) = {}
    BY DEF CallInv, Accounts
  <2>2. c.failed \in Nat /\ c.skipped \in Nat
    BY DEF CallType
  <2>3. Cardinality(d.texts) + d.failed + d.skipped + Cardinality(Unsettled(d, Threads)) = Len(d.files)
    BY <1>1, <1>8, <1>9, <1>10, <2>1, <2>2
  <2>4. d.texts \cap Untaken(d) = {}
    BY <1>1, <1>2, <1>5, <2>1
  <2>5. Repeats \/ d.analyzed = Cardinality(d.texts)
    BY <1>1, <1>9, <2>1
  <2> QED BY <1>1, <1>9, <1>10, <1>11, <2>1, <2>3, <2>4, <2>5 DEF Accounts
<1>13. \A u \in Threads \ {t} : ThreadCounts(d, u)
  BY <1>1, <1>3 DEF ThreadCounts, CallInv
<1> QED BY <1>4, <1>12, <1>13 DEF d

-----------------------------------------------------------------------------
(* A thread goes on.                                                       *)

LEMMA NothingLeft == SumLengths(<<>>) = 0
<1>1. UNION {{i} \X DOMAIN (<<>>)[i] : i \in DOMAIN <<>>} = {}
  OBVIOUS
<1> QED BY <1>1, FS_EmptySet DEF SumLengths

LEMMA OutFits == \A Names : Out \in ThreadType(Names)
BY DEF Out, ThreadType, NoModel

(* It ends, and leaves nothing for the others.                             *)
LEMMA EndOK ==
  ASSUME NEW Names, NEW c \in CallType(Names), NEW t \in Threads, c.end = "open",
         ModelsKnown(c), Queued(c), c.thread[t].at # "throttle",
         CallInv(c, Threads \ {t}), Strict(c), c.tripped \/ c.tasks = <<>>
  PROVE  Resume(c, t) \in CallType(Names) /\ CallOK(Resume(c, t))
<1> DEFINE d == Resume(c, t)
           n == SumLengths(c.tasks)
           over == \A u \in Threads \ {t} : c.thread[u] = Out
           others == Threads \ {t}
<1>1. d = [c EXCEPT !.thread[t] = Out, !.tasks = <<>>, !.skipped = c.skipped + n,
                    !.end = IF over THEN "done" ELSE c.end]
  BY DEF Resume, CallType
<1>2. /\ d.tasks = <<>> /\ d.skipped = c.skipped + n /\ d.end = IF over THEN "done" ELSE "open"
      /\ d.thread = [c.thread EXCEPT ![t] = Out] /\ d.chain = c.chain /\ d.index = c.index
      /\ d.files = c.files /\ d.texts = c.texts /\ d.analyzed = c.analyzed /\ d.failed = c.failed
      /\ d.tripped = c.tripped /\ d.streak = c.streak /\ d.cooling = c.cooling
  BY <1>1 DEF CallType
<1>3. c.thread \in [Threads -> ThreadType(Names)] /\ c.tasks \in Seq(Seq(Names))
      /\ c.skipped \in Nat /\ c.failed \in Nat /\ c.chain \in Seq(Threads)
  BY DEF CallType
<1>4. d.thread \in [Threads -> ThreadType(Names)] /\ d.thread[t] = Out
      /\ \A u \in others : d.thread[u] = c.thread[u]
  BY <1>2, <1>3, OutFits
<1>5. n \in Nat /\ IsFiniteSet(Untaken(c)) /\ Cardinality(Untaken(c)) = n
  <2>1. /\ \A i \in DOMAIN c.tasks : IsInjective(c.tasks[i])
        /\ \A i, j \in DOMAIN c.tasks : i # j => Range(c.tasks[i]) \cap Range(c.tasks[j]) = {}
    BY DEF CallInv, Accounts, TasksApart
  <2> QED BY <1>3, <2>1, SumCounts, ZenonT(40) DEF Untaken
<1>6. c.tasks = <<>> => n = 0
  BY NothingLeft
<1> HIDE DEF n, over
<1>7. d \in CallType(Names)
  <2> DEFINE k == c.skipped + n
             e == IF over THEN "done" ELSE c.end
  <2>1. k \in Nat
    BY <1>3, <1>5
  <2>2. e \in {"none", "open", "done", "thrown"}
    BY DEF CallType
  <2>3. <<>> \in Seq(Seq(Names))
    OBVIOUS
  <2>4. d = [c EXCEPT !.thread[t] = Out, !.tasks = <<>>, !.skipped = k, !.end = e]
    BY <1>1
  <2>5. Out \in ThreadType(Names)
    BY OutFits
  <2> HIDE DEF k, e, d
  <2> QED BY <2>1, <2>2, <2>3, <2>4, <2>5 DEF CallType
<1> HIDE DEF d
<1>8. ModelsKnown(d)
  BY <1>2, <1>4 DEF ModelsKnown, Out
<1>9. Queued(d)
  <2>1. \A i \in DOMAIN c.chain : c.chain[i] \in Threads /\ c.chain[i] # t
    BY <1>3 DEF Queued
  <2> QED BY <1>2, <1>4, <2>1 DEF Queued
<1>10. d.end = "done" => \A u \in Threads : d.thread[u].at = "out"
  BY <1>2, <1>4 DEF over, Out
<1>11. Untaken(d) = {} /\ Held(d, t) = {} /\ (\A u \in others : Held(d, u) = Held(c, u))
  BY <1>2, <1>4 DEF Untaken, Held, Out, Range
<1>12. Unsettled(d, Threads) = UNION {Held(c, u) : u \in others}
  <2>1. \A x : x \in Unsettled(d, Threads) <=> \E u \in Threads : x \in Held(d, u)
    BY <1>11 DEF Unsettled
  <2> QED BY <1>11, <2>1
<1>13. /\ IsFiniteSet(Unsettled(d, Threads)) /\ Cardinality(Unsettled(d, Threads)) \in Nat
       /\ Cardinality(Unsettled(c, others)) = n + Cardinality(Unsettled(d, Threads))
  <2>1. Unsettled(c, others) = Untaken(c) \cup Unsettled(d, Threads)
    BY <1>12 DEF Unsettled
  <2>2. Untaken(c) \cap Unsettled(d, Threads) = {}
    BY <1>12 DEF Held, CallInv, Accounts, TasksApart
  <2>3. IsFiniteSet(Unsettled(d, Threads))
    <3>1. IsFiniteSet(Unsettled(c, others))
      BY DEF CallInv, Accounts
    <3> QED BY <2>1, <3>1, FS_Subset
  <2> QED BY <1>5, <2>1, <2>2, <2>3, CountApart
<1>14. TasksApart(d, Threads)
  <2>1. d.thread[t].task = <<>> /\ IsInjective(<<>>) /\ Range(<<>>) = {} /\ DOMAIN d.tasks = {}
    BY <1>2, <1>4 DEF Out, IsInjective, Range
  <2>2. \A u \in others : IsInjective(c.thread[u].task)
    BY DEF CallInv, Accounts, TasksApart
  <2>3. \A u, v \in others : u # v => Range(c.thread[u].task) \cap Range(c.thread[v].task) = {}
    BY DEF CallInv, Accounts, TasksApart
  <2>4. \A u \in Threads : u = t \/ u \in others
    OBVIOUS
  <2> QED BY <1>4, <1>11, <2>1, <2>2, <2>3, <2>4 DEF TasksApart
<1>15. Accounts(d, Threads)
  <2>1. /\ Cardinality(c.texts) + c.failed + c.skipped + Cardinality(Unsettled(c, others)) = Len(c.files)
        /\ IsFiniteSet(c.texts) /\ Cardinality(c.texts) \in Nat
        /\ Repeats \/ c.analyzed = Cardinality(c.texts)
        /\ c.skipped > 0 => c.tripped
    BY FS_CardinalityType DEF CallInv, Accounts
  <2>2. Cardinality(d.texts) + d.failed + d.skipped + Cardinality(Unsettled(d, Threads)) = Len(d.files)
    BY <1>2, <1>3, <1>5, <1>13, <2>1
  <2>3. d.skipped > 0 => d.tripped
    BY <1>2, <1>3, <1>6, <2>1
  <2> QED BY <1>2, <1>11, <1>13, <1>14, <2>1, <2>2, <2>3 DEF Accounts
<1>16. \A u \in Threads : ThreadCounts(d, u)
  <2>1. ThreadCounts(d, t)
    BY <1>4 DEF ThreadCounts, Out
  <2>2. \A u \in others : ThreadCounts(d, u)
    BY <1>4, <1>11 DEF ThreadCounts, CallInv
  <2> QED BY <2>1, <2>2
<1>17. Strict(d)
  BY <1>2, <1>3, <1>6 DEF Strict
<1> QED BY <1>2, <1>7, <1>8, <1>9, <1>10, <1>15, <1>16, <1>17 DEF CallOK, CallInv, d

(* It takes the next task, which nobody else has.                          *)
LEMMA TakeOK ==
  ASSUME NEW Names, NEW c \in CallType(Names), NEW t \in Threads, c.end = "open",
         ModelsKnown(c), Queued(c), c.thread[t].at # "throttle",
         CallInv(c, Threads \ {t}), Strict(c), ~c.tripped, c.tasks # <<>>
  PROVE  Resume(c, t) \in CallType(Names) /\ CallOK(Resume(c, t))
<1> DEFINE d == Resume(c, t)
           task == Head(c.tasks)
           th == [Out EXCEPT !.at = "throttle", !.task = task]
           others == Threads \ {t}
<1>1. d = [c EXCEPT !.thread[t] = th, !.tasks = Tail(c.tasks), !.chain = Append(c.chain, t)]
  BY DEF Resume, CallType
<1>2. c.thread \in [Threads -> ThreadType(Names)] /\ c.tasks \in Seq(Seq(Names))
      /\ c.chain \in Seq(Threads)
  BY DEF CallType
<1>3. task \in Seq(Names) /\ Tail(c.tasks) \in Seq(Seq(Names)) /\ Append(c.chain, t) \in Seq(Threads)
  BY <1>2
<1>4. /\ th \in ThreadType(Names) /\ th.at = "throttle" /\ th.task = task
      /\ th.missing = <<>> /\ th.bad = 0
  <2> HIDE DEF task
  <2>1. Out \in ThreadType(Names) /\ Out.missing = <<>> /\ Out.bad = 0
    BY OutFits DEF Out
  <2> QED BY <1>3, <2>1 DEF ThreadType
<1> DEFINE rest == Tail(c.tasks)
<1>5. /\ c.tasks[1] = task /\ 1 \in DOMAIN c.tasks
      /\ \A i \in DOMAIN rest : i + 1 \in DOMAIN c.tasks /\ rest[i] = c.tasks[i + 1] /\ i + 1 # 1
      /\ \A i, j \in DOMAIN rest : i # j => i + 1 # j + 1
      /\ \A i \in DOMAIN c.tasks : i = 1 \/ (i - 1 \in DOMAIN rest /\ rest[i - 1] = c.tasks[i])
  <2> DEFINE tasks == c.tasks
             n == Len(tasks)
  <2>1. n \in Nat \ {0} /\ DOMAIN tasks = 1 .. n /\ task = tasks[1]
    BY <1>2
  <2>2. DOMAIN rest = 1 .. (n - 1) /\ \A i \in 1 .. (n - 1) : rest[i] = tasks[i + 1]
    BY <1>2
  <2> HIDE DEF n, rest, task
  <2>3. \A i \in 1 .. (n - 1) : i + 1 \in 1 .. n /\ i + 1 # 1
    BY <2>1
  <2>4. \A i \in 1 .. n : i = 1 \/ (i - 1 \in 1 .. (n - 1) /\ (i - 1) + 1 = i)
    BY <2>1
  <2>5. \A i, j \in 1 .. (n - 1) : i # j => i + 1 # j + 1
    BY <2>1
  <2>6. \A i \in 1 .. n : i = 1 \/ rest[i - 1] = tasks[i]
    BY <2>2, <2>4
  <2>7. 1 \in 1 .. n
    BY <2>1
  <2> QED BY <2>1, <2>2, <2>3, <2>4, <2>5, <2>6, <2>7
<1> HIDE DEF th, task, rest
<1>6. /\ d.tasks = rest /\ d.skipped = c.skipped /\ d.end = "open"
      /\ d.thread = [c.thread EXCEPT ![t] = th] /\ d.chain = Append(c.chain, t) /\ d.index = c.index
      /\ d.files = c.files /\ d.texts = c.texts /\ d.analyzed = c.analyzed /\ d.failed = c.failed
      /\ d.tripped = c.tripped /\ d.streak = c.streak /\ d.cooling = c.cooling
  BY <1>1 DEF CallType, rest
<1>7. d \in CallType(Names)
  <2> DEFINE q == Append(c.chain, t)
  <2>1. d = [c EXCEPT !.thread[t] = th, !.tasks = rest, !.chain = q]
    BY <1>1 DEF rest
  <2>2. rest \in Seq(Seq(Names)) /\ q \in Seq(Threads)
    BY <1>3 DEF rest
  <2> HIDE DEF d, q
  <2> QED BY <1>4, <2>1, <2>2 DEF CallType
<1> HIDE DEF d
<1>8. d.thread[t] = th /\ \A u \in others : d.thread[u] = c.thread[u]
  BY <1>2, <1>6
<1>9. ModelsKnown(d)
  BY <1>4, <1>6, <1>8 DEF ModelsKnown
<1>10. Queued(d)
  <2> DEFINE q == Append(c.chain, t)
             n == Len(c.chain)
  <2>1. /\ n \in Nat /\ DOMAIN c.chain = 1 .. n /\ DOMAIN q = 1 .. (n + 1) /\ q[n + 1] = t
        /\ \A i \in 1 .. n : q[i] = c.chain[i] /\ q[i] \in Threads
    BY <1>2
  <2> HIDE DEF q, n
  <2>2. \A i \in 1 .. n : q[i] # t /\ c.thread[q[i]].at = "throttle"
    BY <2>1 DEF Queued
  <2>3. \A i \in 1 .. (n + 1) : i = n + 1 \/ i \in 1 .. n
    BY <2>1
  <2>4. IsInjective(q)
    BY <2>1, <2>2, <2>3 DEF Queued, IsInjective
  <2>5. \A i \in 1 .. (n + 1) : d.thread[q[i]].at = "throttle"
    BY <1>4, <1>8, <2>1, <2>2, <2>3
  <2>6. d.chain = q
    BY <1>6 DEF q
  <2> QED BY <2>1, <2>4, <2>5, <2>6 DEF Queued
<1>11. /\ \A i \in DOMAIN c.tasks : IsInjective(c.tasks[i]) /\ c.tasks[i] # <<>>
       /\ \A i, j \in DOMAIN c.tasks : i # j => Range(c.tasks[i]) \cap Range(c.tasks[j]) = {}
       /\ \A u \in others : IsInjective(c.thread[u].task) /\ Range(c.thread[u].task) \cap Untaken(c) = {}
       /\ \A u, v \in others : u # v => Range(c.thread[u].task) \cap Range(c.thread[v].task) = {}
       /\ c.texts \cap Untaken(c) = {}
  BY DEF CallInv, Accounts, TasksApart
<1>12. Untaken(c) = Range(task) \cup Untaken(d) /\ Range(task) \cap Untaken(d) = {}
  <2>1. \A x : x \in Untaken(c) <=> \E i \in DOMAIN c.tasks : x \in Range(c.tasks[i])
    BY DEF Untaken
  <2>2. \A x : x \in Untaken(d) <=> \E i \in DOMAIN rest : x \in Range(rest[i])
    BY <1>6 DEF Untaken
  <2>3. \A x : x \in Untaken(c) <=> x \in Range(task) \/ x \in Untaken(d)
    <3>1. ASSUME NEW x \in Untaken(c) PROVE x \in Range(task) \/ x \in Untaken(d)
      <4>1. PICK i \in DOMAIN c.tasks : x \in Range(c.tasks[i])
        BY <2>1
      <4> QED BY <1>5, <2>2, <4>1
    <3>2. ASSUME NEW x \in Untaken(d) PROVE x \in Untaken(c) /\ x \notin Range(task)
      <4>1. PICK i \in DOMAIN rest : x \in Range(rest[i])
        BY <2>2
      <4>2. i + 1 \in DOMAIN c.tasks /\ rest[i] = c.tasks[i + 1] /\ i + 1 # 1
        BY <1>5
      <4>3. Range(c.tasks[i + 1]) \cap Range(c.tasks[1]) = {}
        BY <1>5, <1>11, <4>2
      <4> QED BY <1>5, <2>1, <4>1, <4>2, <4>3
    <3>3. Range(task) \subseteq Untaken(c)
      BY <1>5, <2>1
    <3> QED BY <3>1, <3>2, <3>3
  <2>4. ASSUME NEW x \in Untaken(d) PROVE x \notin Range(task)
    <3>1. PICK i \in DOMAIN rest : x \in Range(rest[i])
      BY <2>2
    <3>2. i + 1 \in DOMAIN c.tasks /\ rest[i] = c.tasks[i + 1] /\ i + 1 # 1
      BY <1>5
    <3>3. Range(c.tasks[i + 1]) \cap Range(c.tasks[1]) = {}
      BY <1>5, <1>11, <3>2
    <3> QED BY <1>5, <3>1, <3>2, <3>3
  <2> QED BY <2>3, <2>4
<1>13. Held(d, t) = Range(task) /\ \A u \in others : Held(d, u) = Held(c, u)
  BY <1>4, <1>6, <1>8, <1>11, <1>12 DEF Held
<1>14. Unsettled(d, Threads) = Unsettled(c, others)
  <2>1. \A x : x \in Unsettled(d, Threads) <=> x \in Untaken(d) \/ \E u \in Threads : x \in Held(d, u)
    BY DEF Unsettled
  <2>2. \A x : x \in Unsettled(c, others) <=> x \in Untaken(c) \/ \E u \in others : x \in Held(c, u)
    BY DEF Unsettled
  <2>3. \A u \in Threads : u = t \/ u \in others
    OBVIOUS
  <2> QED BY <1>12, <1>13, <2>1, <2>2, <2>3
<1>15. TasksApart(d, Threads)
  <2>1. \A i \in DOMAIN rest : IsInjective(rest[i]) /\ rest[i] # <<>>
    BY <1>5, <1>11
  <2>2. \A i, j \in DOMAIN rest : i # j => Range(rest[i]) \cap Range(rest[j]) = {}
    <3> SUFFICES ASSUME NEW i \in DOMAIN rest, NEW j \in DOMAIN rest, i # j
                 PROVE  Range(rest[i]) \cap Range(rest[j]) = {}
      OBVIOUS
    <3>1. i + 1 \in DOMAIN c.tasks /\ j + 1 \in DOMAIN c.tasks /\ i + 1 # j + 1
      BY <1>5
    <3> QED BY <1>5, <1>11, <3>1
  <2>3. IsInjective(task) /\ Range(task) \cap Untaken(d) = {}
    BY <1>5, <1>11, <1>12
  <2>4. \A u \in others : Range(c.thread[u].task) \cap Range(task) = {}
    BY <1>11, <1>12
  <2>5. \A u \in Threads : u = t \/ u \in others
    OBVIOUS
  <2>6. \A u \in Threads : IsInjective(d.thread[u].task) /\ Range(d.thread[u].task) \cap Untaken(d) = {}
    BY <1>4, <1>8, <1>11, <1>12, <2>3, <2>5
  <2>7. \A u, v \in Threads : u # v => Range(d.thread[u].task) \cap Range(d.thread[v].task) = {}
    BY <1>4, <1>8, <1>11, <2>4, <2>5, SMTT(30)
  <2> QED BY <1>6, <2>1, <2>2, <2>6, <2>7 DEF TasksApart
<1>16. Accounts(d, Threads)
  <2>1. d.texts \cap Untaken(d) = {}
    BY <1>6, <1>11, <1>12
  <2> QED BY <1>6, <1>14, <1>15, <2>1 DEF CallInv, Accounts
<1>17. \A u \in Threads : ThreadCounts(d, u)
  <2>1. ThreadCounts(d, t)
    <3>1. task # <<>>
      BY <1>5, <1>11
    <3> QED BY <1>4, <1>8, <1>13, <3>1 DEF ThreadCounts
  <2>2. \A u \in others : ThreadCounts(d, u)
    BY <1>8, <1>13 DEF ThreadCounts, CallInv
  <2> QED BY <2>1, <2>2
<1>18. Strict(d)
  BY <1>6 DEF Strict
<1> QED BY <1>6, <1>7, <1>9, <1>10, <1>16, <1>17, <1>18 DEF CallOK, CallInv, d

LEMMA ResumeOK ==
  ASSUME NEW Names, NEW c \in CallType(Names), NEW t \in Threads, c.end = "open",
         ModelsKnown(c), Queued(c), c.thread[t].at # "throttle",
         CallInv(c, Threads \ {t}), Strict(c)
  PROVE  Resume(c, t) \in CallType(Names) /\ CallOK(Resume(c, t))
<1>1. CASE c.tripped \/ c.tasks = <<>>
  BY <1>1, EndOK
<1>2. CASE ~c.tripped /\ c.tasks # <<>>
  BY <1>2, TakeOK
<1> QED BY <1>1, <1>2

-----------------------------------------------------------------------------
(* A task is over.                                                         *)

(* An open call whose thread t is not waiting for its turn                 *)
AtWork(c, t) ==
  c.end = "open" /\ ModelsKnown(c) /\ Queued(c) /\ Strict(c) /\ c.thread[t].at # "throttle"

LEMMA TrippedOK ==
  ASSUME NEW Names, NEW c \in CallType(Names), NEW t \in Threads, NEW threads, AtWork(c, t),
         CallInv(c, threads)
  PROVE  LET d == Tripped(c)
         IN  d \in CallType(Names) /\ AtWork(d, t) /\ CallInv(d, threads)
<1> DEFINE d == Tripped(c)
<1>1. d = [c EXCEPT !.tripped = c.tripped \/ c.streak >= Threshold]
  BY DEF Tripped, CallType
<1>2. (c.tripped \/ c.streak >= Threshold) \in BOOLEAN
  BY DEF CallType
<1> DEFINE b == c.tripped \/ c.streak >= Threshold
<1> HIDE DEF d, b
<1>3. /\ SameCounts(c, d) /\ d.thread = c.thread /\ d.chain = c.chain /\ d.index = c.index
      /\ d.streak = c.streak /\ d.tripped = b
  BY <1>1 DEF CallType, SameCounts, b
<1>4. d \in CallType(Names)
  BY <1>1, <1>2 DEF CallType, b
<1>5. CallInv(d, threads)
  <2>1. SameWork(c, d, threads)
    BY <1>3 DEF SameWork
  <2>2. c.tripped => d.tripped
    BY <1>3 DEF b
  <2> QED BY <1>3, <2>1, <2>2, SameAccounts
<1>6. Strict(d)
  <2>1. required => ~b
    BY LlmCountsArePositive DEF AtWork, Strict, b
  <2> QED BY <1>3, <2>1 DEF Strict, AtWork, SameCounts
<1> QED BY <1>3, <1>4, <1>5, <1>6 DEF AtWork, ModelsKnown, Queued, SameCounts, d

LEMMA ThrownOK ==
  ASSUME NEW Names, NEW c \in CallType(Names), ModelsKnown(c), Queued(c)
  PROVE  Thrown(c) \in CallType(Names) /\ CallOK(Thrown(c))
<1> DEFINE d == Thrown(c)
<1>1. d \in CallType(Names) /\ d.end = "thrown" /\ d.thread = c.thread /\ d.index = c.index
      /\ d.chain = c.chain
  BY DEF Thrown, CallType
<1> QED BY <1>1 DEF CallOK, ModelsKnown, Queued

LEMMA SucceededOK ==
  ASSUME NEW Names, NEW c \in CallType(Names), NEW t \in Threads, AtWork(c, t),
         CallInv(c, Threads \ {t})
  PROVE  Succeeded(c, t) \in CallType(Names) /\ CallOK(Succeeded(c, t))
<1> DEFINE e == [c EXCEPT !.streak = 0]
<1>1. /\ e \in CallType(Names) /\ SameCounts(c, e) /\ e.thread = c.thread /\ e.chain = c.chain
      /\ e.index = c.index /\ e.streak = 0 /\ e.tripped = c.tripped
  BY DEF CallType, SameCounts
<1>2. Succeeded(c, t) = Resume(Tripped(e), t)
  BY DEF Succeeded
<1> HIDE DEF e
<1>3. AtWork(e, t)
  BY <1>1 DEF AtWork, ModelsKnown, Queued, Strict, SameCounts
<1>4. CallInv(e, Threads \ {t})
  <2>1. SameWork(c, e, Threads \ {t}) /\ (c.tripped => e.tripped)
    BY <1>1 DEF SameWork
  <2> QED BY <1>1, <2>1, SameAccounts
<1>5. LET d == Tripped(e)
      IN  d \in CallType(Names) /\ AtWork(d, t) /\ CallInv(d, Threads \ {t})
  BY <1>1, <1>3, <1>4, TrippedOK
<1> QED BY <1>2, <1>5, ResumeOK DEF AtWork

LEMMA AnsweredOK ==
  ASSUME NEW Names, NEW c \in CallType(Names), NEW t \in Threads, AtWork(c, t),
         Accounts(c, Threads), \A u \in Threads \ {t} : ThreadCounts(c, u)
  PROVE  LET d == Answered(c, t, Cardinality(Held(c, t)))
         IN  d \in CallType(Names) /\ CallOK(d)
<1> DEFINE n == Cardinality(Held(c, t))
           e == [c EXCEPT !.failed = @ + n]
<1>1. n \in Nat /\ CallInv(e, Threads \ {t})
  BY Release
<1> HIDE DEF n
<1>2. CASE n > 0 /\ required
  BY <1>2, ThrownOK DEF Answered, AtWork, n
<1>3. CASE ~ (n > 0 /\ required)
  <2>1. Answered(c, t, n) = Succeeded(e, t)
    BY <1>3 DEF Answered
  <2>2. /\ e \in CallType(Names) /\ e.failed = c.failed + n /\ e.skipped = c.skipped
        /\ e.streak = c.streak /\ e.tripped = c.tripped /\ e.end = c.end /\ e.thread = c.thread
        /\ e.chain = c.chain /\ e.index = c.index /\ c.failed \in Nat
    <3> DEFINE k == c.failed + n
    <3>1. k \in Nat /\ c.failed \in Nat
      BY <1>1 DEF CallType
    <3>2. e = [c EXCEPT !.failed = k]
      BY DEF CallType
    <3> HIDE DEF k, e
    <3>3. e \in CallType(Names) /\ e.failed = k /\ e.skipped = c.skipped
      BY <3>1, <3>2 DEF CallType
    <3>4. /\ e.streak = c.streak /\ e.tripped = c.tripped /\ e.end = c.end /\ e.thread = c.thread
          /\ e.chain = c.chain /\ e.index = c.index
      BY <3>2 DEF CallType
    <3> QED BY <3>1, <3>3, <3>4 DEF k
  <2> HIDE DEF e
  <2>3. AtWork(e, t)
    BY <1>1, <1>3, <2>2 DEF AtWork, ModelsKnown, Queued, Strict
  <2> QED BY <1>1, <2>1, <2>2, <2>3, SucceededOK DEF n
<1> QED BY <1>2, <1>3

LEMMA FailedOK ==
  ASSUME NEW Names, NEW c \in CallType(Names), NEW t \in Threads, AtWork(c, t),
         CallInv(c, Threads), NEW retryable \in BOOLEAN
  PROVE  LET d == Failed(c, t, Cardinality(Held(c, t)), retryable)
         IN  d \in CallType(Names) /\ CallOK(d)
<1> DEFINE n == Cardinality(Held(c, t))
           e == [c EXCEPT !.failed = @ + n]
           counted == [c EXCEPT !.failed = @ + n, !.streak = IF retryable THEN @ + 1 ELSE 0]
           m == c.thread[t].model
           guarded == IF retryable THEN Cooled(counted, m) ELSE counted
           others == Threads \ {t}
<1>1. n \in Nat /\ CallInv(e, others)
  BY Release DEF CallInv
<1> HIDE DEF n
<1>2. CASE required
  BY <1>2, ThrownOK DEF Failed, AtWork, n
<1>3. CASE ~required
  <2>1. Failed(c, t, n, retryable) = Resume(Tripped(guarded), t)
    <3>1. counted.thread[t].model = m
      BY DEF CallType
    <3> QED BY <1>3, <3>1 DEF Failed
  <2>2. /\ counted \in CallType(Names) /\ SameCounts(e, counted) /\ counted.thread = c.thread
        /\ e.thread = c.thread /\ e.tripped = c.tripped /\ counted.tripped = c.tripped
        /\ counted.end = c.end /\ counted.chain = c.chain /\ counted.index = c.index
    <3> DEFINE k == c.failed + n
               s == IF retryable THEN c.streak + 1 ELSE 0
    <3>1. k \in Nat /\ s \in Nat
      BY <1>1 DEF CallType
    <3>2. counted = [c EXCEPT !.failed = k, !.streak = s] /\ e = [c EXCEPT !.failed = k]
      BY DEF CallType
    <3> HIDE DEF k, s, counted, e
    <3> QED BY <3>1, <3>2 DEF CallType, SameCounts
  <2>3. m \in {NoModel} \cup Candidates
    BY DEF CallType, ThreadType
  <2> HIDE DEF counted, e, m
  <2>4. ModelsKnown(counted) /\ Queued(counted)
    BY <2>2 DEF AtWork, ModelsKnown, Queued
  <2>5. CallInv(counted, others)
    <3>1. SameWork(e, counted, others) /\ (e.tripped => counted.tripped)
      BY <2>2 DEF SameWork
    <3> QED BY <1>1, <2>2, <3>1, SameAccounts
  <2>6. /\ guarded \in CallType(Names) /\ ModelsKnown(guarded) /\ SameCounts(counted, guarded)
        /\ guarded.chain = counted.chain /\ guarded.tripped = counted.tripped
        /\ guarded.thread = counted.thread
    <3>1. CASE retryable
      BY <2>2, <2>3, <2>4, <3>1, CooledFits
    <3>2. CASE ~retryable
      BY <2>2, <2>4, <3>2 DEF SameCounts
    <3> QED BY <3>1, <3>2
  <2> HIDE DEF guarded
  <2>7. CallInv(guarded, others)
    <3>1. SameWork(counted, guarded, others) /\ (counted.tripped => guarded.tripped)
      BY <2>6 DEF SameWork
    <3> QED BY <2>5, <2>6, <3>1, SameAccounts
  <2>8. AtWork(guarded, t)
    BY <1>3, <2>2, <2>4, <2>6 DEF AtWork, Queued, Strict, SameCounts
  <2>9. LET d == Tripped(guarded)
        IN  d \in CallType(Names) /\ AtWork(d, t) /\ CallInv(d, others)
    BY <2>6, <2>7, <2>8, TrippedOK
  <2> QED BY <2>1, <2>9, ResumeOK DEF AtWork, n
<1> QED BY <1>2, <1>3

-----------------------------------------------------------------------------
(* The steps of a thread.                                                  *)

LEMMA TurnOK ==
  ASSUME NEW Names, NEW c \in CallType(Names), NEW t \in Threads, CallOK(c), c.end = "open",
         c.chain # <<>>, Head(c.chain) = t
  PROVE  LET d == Selected([c EXCEPT !.chain = Tail(@)], t)
         IN  d \in CallType(Names) /\ CallOK(d)
<1> DEFINE q == c.chain
           e == [c EXCEPT !.chain = Tail(q)]
           d == Selected(e, t)
           n == Len(q)
<1>1. /\ q \in Seq(Threads) /\ n \in Nat \ {0} /\ DOMAIN q = 1 .. n /\ q[1] = t
      /\ Tail(q) \in Seq(Threads) /\ DOMAIN Tail(q) = 1 .. (n - 1)
      /\ \A i \in 1 .. (n - 1) : Tail(q)[i] = q[i + 1]
  BY DEF CallType
<1> DEFINE rest == Tail(q)
<1> HIDE DEF rest, n
<1>2. IsInjective(q) /\ \A i \in 1 .. n : c.thread[q[i]].at = "throttle"
  BY <1>1 DEF CallOK, Queued
<1> HIDE DEF q
<1>3. \A i \in 1 .. (n - 1) : i + 1 \in 1 .. n /\ i + 1 # 1
  BY <1>1
<1>4. \A i, j \in 1 .. (n - 1) : i + 1 = j + 1 => i = j
  BY <1>1
<1>5. IsInjective(rest)
  BY <1>1, <1>2, <1>3, <1>4 DEF IsInjective, rest
<1>6. 1 \in 1 .. n
  BY <1>1
<1>7. \A i \in 1 .. (n - 1) : rest[i] \in Threads \ {t} /\ c.thread[rest[i]].at = "throttle"
  BY <1>1, <1>2, <1>3, <1>6 DEF IsInjective, rest
<1>8. /\ e \in CallType(Names) /\ SameCounts(c, e) /\ e.thread = c.thread /\ e.chain = rest
      /\ e.index = c.index /\ e.streak = c.streak /\ e.tripped = c.tripped
  <2>1. e = [c EXCEPT !.chain = rest] /\ rest \in Seq(Threads)
    BY <1>1 DEF rest
  <2> HIDE DEF e
  <2> QED BY <2>1 DEF CallType, SameCounts
<1> HIDE DEF e
<1>9. ModelsKnown(e)
  BY <1>8 DEF CallOK, ModelsKnown
<1>10. /\ d \in CallType(Names) /\ ModelsKnown(d) /\ SameCounts(e, d)
       /\ d.chain = e.chain /\ d.streak = e.streak /\ d.tripped = e.tripped
       /\ \A u \in Threads \ {t} : d.thread[u] = e.thread[u]
       /\ d.thread[t].at \in {"call", "cooldown"} /\ d.thread[t].task = e.thread[t].task
       /\ d.thread[t].missing = e.thread[t].missing /\ d.thread[t].bad = e.thread[t].bad
  BY <1>8, <1>9, SelectedFits
<1> HIDE DEF d
<1>11. Queued(d)
  BY <1>1, <1>5, <1>7, <1>8, <1>10 DEF Queued, rest
<1>12. SameWork(c, d, Threads)
  <2>1. c.thread[t].at = "throttle"
    BY <1>1, <1>2, <1>6
  <2> QED BY <1>8, <1>10, <2>1 DEF SameWork
<1>13. SameCounts(c, d) /\ (c.tripped => d.tripped) /\ d.streak = c.streak
  BY <1>8, <1>10 DEF SameCounts
<1>14. CallInv(d, Threads)
  BY <1>12, <1>13, SameAccounts DEF CallOK
<1>15. d.end = "open" /\ Strict(d)
  BY <1>8, <1>10, <1>13 DEF CallOK, Strict, SameCounts
<1>16. d = Selected([c EXCEPT !.chain = Tail(@)], t)
  BY DEF d, e, q, CallType
<1> QED BY <1>10, <1>11, <1>14, <1>15, <1>16 DEF CallOK

LEMMA CooldownEndsOK ==
  ASSUME NEW Names, NEW c \in CallType(Names), CallOK(c), c.end = "open", c.cooling # <<>>,
         NEW d, d = [c EXCEPT !.cooling = Tail(@),
                              !.thread = [t \in Threads |->
                                 [c.thread[t] EXCEPT !.ahead = IF @ > 0 THEN @ - 1 ELSE 0]]]
  PROVE  d \in CallType(Names) /\ CallOK(d)
<1> DEFINE threads == [t \in Threads |->
                        [c.thread[t] EXCEPT !.ahead = IF @ > 0 THEN @ - 1 ELSE 0]]
<1>1. ASSUME NEW t \in Threads
      PROVE  /\ threads[t] \in ThreadType(Names) /\ threads[t].at = c.thread[t].at
             /\ threads[t].task = c.thread[t].task /\ threads[t].missing = c.thread[t].missing
             /\ threads[t].bad = c.thread[t].bad /\ threads[t].model = c.thread[t].model
  <2>1. c.thread[t] \in ThreadType(Names)
    BY DEF CallType
  <2> QED BY <2>1 DEF ThreadType
<1>2. threads \in [Threads -> ThreadType(Names)]
  <2> DEFINE th(t) == [c.thread[t] EXCEPT !.ahead = IF @ > 0 THEN @ - 1 ELSE 0]
  <2>1. \A t \in Threads : th(t) \in ThreadType(Names)
    BY <1>1
  <2> HIDE DEF th
  <2>2. [t \in Threads |-> th(t)] \in [Threads -> ThreadType(Names)]
    BY <2>1
  <2> QED BY <2>2 DEF th
<1> HIDE DEF threads
<1>3. d = [c EXCEPT !.cooling = Tail(c.cooling), !.thread = threads]
  BY DEF threads, CallType
<1>4. Tail(c.cooling) \in Seq(Candidates)
  BY DEF CallType
<1>5. /\ d \in CallType(Names) /\ SameCounts(c, d) /\ d.thread = threads /\ d.chain = c.chain
      /\ d.index = c.index /\ d.streak = c.streak /\ d.tripped = c.tripped
  BY <1>2, <1>3, <1>4 DEF CallType, SameCounts
<1>6. SameWork(c, d, Threads)
  BY <1>1, <1>5 DEF SameWork
<1>7. CallInv(d, Threads)
  BY <1>5, <1>6, SameAccounts DEF CallOK
<1>8. ModelsKnown(d)
  BY <1>1, <1>5 DEF CallOK, ModelsKnown
<1>9. Queued(d)
  <2>1. \A i \in DOMAIN c.chain : c.chain[i] \in Threads
    BY DEF CallType
  <2> QED BY <1>1, <1>5, <2>1 DEF CallOK, Queued
<1> QED BY <1>5, <1>7, <1>8, <1>9 DEF CallOK, Strict, SameCounts

LEMMA WakeOK ==
  ASSUME NEW Names, NEW c \in CallType(Names), NEW t \in Threads, CallOK(c), c.end = "open",
         c.thread[t].at = "cooldown"
  PROVE  LET d == [c EXCEPT !.thread[t].at = "call", !.index = c.thread[t].model]
         IN  d \in CallType(Names) /\ CallOK(d)
<1> DEFINE d == [c EXCEPT !.thread[t].at = "call", !.index = c.thread[t].model]
           th == [c.thread[t] EXCEPT !.at = "call"]
           m == c.thread[t].model
<1>1. m \in Candidates /\ m \in Nat \ {0}
  BY ModelsAreListed DEF CallOK, ModelsKnown, Candidates
<1>2. c.thread[t] \in ThreadType(Names)
  BY DEF CallType
<1>3. /\ th \in ThreadType(Names) /\ th.at = "call" /\ th.task = c.thread[t].task
      /\ th.missing = c.thread[t].missing /\ th.bad = c.thread[t].bad
  BY <1>2 DEF ThreadType
<1>4. d = Put(c, t, th, m)
  BY DEF Put, CallType
<1> HIDE DEF th, m
<1>5. ModelsKnown(c)
  BY DEF CallOK
<1>6. Models # <<>> => m \in Candidates
  BY <1>1
<1>7. th.at = "cooldown" => th.model \in Candidates
  BY <1>3
<1> DEFINE e == Put(c, t, th, m)
<1>8. /\ e \in CallType(Names) /\ ModelsKnown(e) /\ SameCounts(c, e)
      /\ e.chain = c.chain /\ e.streak = c.streak /\ e.tripped = c.tripped
      /\ \A u \in Threads \ {t} : e.thread[u] = c.thread[u]
      /\ e.thread[t] = th
  BY <1>1, <1>3, <1>5, <1>6, <1>7, OneThread
<1> HIDE DEF d, e
<1>9. d = e
  BY <1>4 DEF e
<1>10. SameWork(c, e, Threads)
  BY <1>3, <1>8 DEF SameWork
<1>11. CallInv(e, Threads)
  BY <1>8, <1>10, SameAccounts DEF CallOK
<1>12. Queued(e)
  <2>1. \A i \in DOMAIN c.chain : c.chain[i] \in Threads \ {t}
    BY DEF CallType, CallOK, Queued
  <2> QED BY <1>8, <2>1 DEF CallOK, Queued
<1>13. e \in CallType(Names) /\ CallOK(e)
  BY <1>8, <1>11, <1>12 DEF CallOK, Strict, SameCounts
<1> QED BY <1>9, <1>13 DEF d

LEMMA TextsFit ==
  ASSUME NEW Names, NEW c \in CallType(Names), NEW t \in Threads, AtWork(c, t),
         NEW files \in SUBSET Names, NEW n \in Nat
  PROVE  LET d == Texts(c, files, n)
         IN  /\ d \in CallType(Names) /\ AtWork(d, t) /\ d.thread = c.thread
<1> DEFINE d == Texts(c, files, n)
           all == c.texts \cup files
           k == c.analyzed + n
<1>1. d = [c EXCEPT !.texts = all, !.analyzed = k]
  BY DEF Texts, CallType
<1>2. all \in SUBSET Names /\ k \in Nat
  BY DEF CallType
<1> HIDE DEF d, all, k
<1>3. /\ d \in CallType(Names) /\ d.thread = c.thread /\ d.end = c.end /\ d.index = c.index
      /\ d.chain = c.chain /\ d.failed = c.failed /\ d.skipped = c.skipped
      /\ d.streak = c.streak /\ d.tripped = c.tripped
  BY <1>1, <1>2 DEF CallType
<1> QED BY <1>3 DEF AtWork, ModelsKnown, Queued, Strict, d

(* What thread t asks for when it calls: all the files of its task.        *)
LEMMA TaskAtCall ==
  ASSUME NEW Names, NEW c \in CallType(Names), NEW t \in Threads, CallOK(c), c.end = "open",
         c.thread[t].at = "call"
  PROVE  LET files == c.thread[t].task
         IN  /\ AtWork(c, t) /\ CallInv(c, Threads)
             /\ files \in Seq(Names) /\ files # <<>> /\ IsInjective(files)
             /\ Held(c, t) = Range(files) /\ Cardinality(Held(c, t)) = Len(files)
             /\ c.thread[t].missing = <<>> /\ c.thread[t].bad = 0
<1> DEFINE files == c.thread[t].task
<1>1. AtWork(c, t) /\ CallInv(c, Threads)
  BY DEF AtWork, CallOK
<1>2. files \in Seq(Names)
  BY DEF CallType, ThreadType
<1>3. IsInjective(files)
  BY <1>1 DEF CallInv, Accounts, TasksApart
<1>4. /\ files # <<>> /\ Held(c, t) = Range(files)
      /\ c.thread[t].missing = <<>> /\ c.thread[t].bad = 0
  BY <1>1 DEF CallInv, ThreadCounts
<1> HIDE DEF files
<1>5. Cardinality(Range(files)) = Len(files)
  BY <1>2, <1>3, RangeCounted
<1> QED BY <1>1, <1>2, <1>3, <1>4, <1>5 DEF files

(* It asks for the files that are missing, one by one.                     *)
LEMMA SingleOK ==
  ASSUME NEW Names, NEW c \in CallType(Names), NEW t \in Threads, AtWork(c, t),
         Accounts(c, Threads), \A u \in Threads \ {t} : ThreadCounts(c, u),
         NEW th \in ThreadType(Names), th.at = "single", th.task = c.thread[t].task,
         th.missing # <<>>, IsInjective(th.missing), Range(th.missing) \subseteq Held(c, t),
         Cardinality(Held(c, t)) = Len(th.missing) + th.bad
  PROVE  LET d == Put(c, t, th, c.index)
         IN  d \in CallType(Names) /\ CallOK(d)
<1>1. ModelsKnown(c) /\ c.index \in Nat \ {0}
  BY DEF AtWork, CallType
<1>2. Models # <<>> => c.index \in Candidates
  BY <1>1 DEF ModelsKnown
<1>3. th.at = "cooldown" => th.model \in Candidates
  OBVIOUS
<1> DEFINE e == Put(c, t, th, c.index)
<1>4. /\ e \in CallType(Names) /\ ModelsKnown(e) /\ SameCounts(c, e)
      /\ e.chain = c.chain /\ e.streak = c.streak /\ e.tripped = c.tripped
      /\ \A u \in Threads \ {t} : e.thread[u] = c.thread[u]
      /\ e.thread[t] = th
  BY <1>1, <1>2, <1>3, OneThread
<1> HIDE DEF e
<1>5. e.end = "open" /\ Strict(e)
  BY <1>4 DEF AtWork, Strict, SameCounts
<1>6. Queued(e)
  <2>1. \A i \in DOMAIN c.chain : c.chain[i] \in Threads
    BY DEF CallType
  <2>2. \A i \in DOMAIN c.chain : c.chain[i] \in Threads \ {t}
    BY <2>1 DEF AtWork, Queued
  <2> QED BY <1>4, <2>2 DEF AtWork, Queued
<1>7. /\ Untaken(e) = Untaken(c) /\ (\A u \in Threads : Held(e, u) = Held(c, u))
      /\ \A u \in Threads : e.thread[u].task = c.thread[u].task
  BY <1>4 DEF Untaken, Held, SameCounts
<1>8. Accounts(e, Threads)
  <2>1. Unsettled(e, Threads) = Unsettled(c, Threads)
    BY <1>7 DEF Unsettled
  <2>2. TasksApart(e, Threads)
    BY <1>4, <1>7 DEF Accounts, TasksApart, SameCounts
  <2> QED BY <1>4, <1>7, <2>1, <2>2 DEF Accounts, SameCounts
<1>9. ThreadCounts(e, t)
  BY <1>4, <1>7 DEF ThreadCounts
<1>10. \A u \in Threads \ {t} : ThreadCounts(e, u)
  BY <1>4, <1>7 DEF ThreadCounts
<1>11. CallOK(e)
  BY <1>4, <1>5, <1>6, <1>8, <1>9, <1>10 DEF CallOK, CallInv
<1> QED BY <1>4, <1>11 DEF e

LEMMA AnswerOK ==
  ASSUME NEW Names, NEW c \in CallType(Names), NEW t \in Threads, CallOK(c), c.end = "open",
         c.thread[t].at = "call",
         NEW n \in Nat, n <= Len(c.thread[t].task), NEW again \in Nat, Repeats \/ again = 0
  PROVE  LET files == c.thread[t].task
             missing == SubSeq(files, n + 1, Len(files))
             told == Texts(c, Range(SubSeq(files, 1, n)), n + again)
             d == IF missing = <<>> THEN Answered(told, t, 0)
                  ELSE [told EXCEPT !.thread[t].at = "single", !.thread[t].missing = missing]
         IN  d \in CallType(Names) /\ CallOK(d)
<1> DEFINE files == c.thread[t].task
           l == Len(files)
           first == SubSeq(files, 1, n)
           missing == SubSeq(files, n + 1, l)
           answered == Range(first)
           told == Texts(c, answered, n + again)
<1>1. /\ AtWork(c, t) /\ CallInv(c, Threads)
      /\ files \in Seq(Names) /\ files # <<>> /\ IsInjective(files)
      /\ Held(c, t) = Range(files) /\ Cardinality(Held(c, t)) = l
      /\ c.thread[t].missing = <<>> /\ c.thread[t].bad = 0
  BY TaskAtCall
<1> HIDE DEF files
<1>2. l \in Nat /\ n <= l /\ DOMAIN files = 1 .. l
  BY <1>1 DEF files
<1> HIDE DEF l
<1>3. /\ first \in Seq(Names) /\ Len(first) = n /\ DOMAIN first = 1 .. n
      /\ \A m \in 1 .. n : m \in 1 .. l /\ first[m] = files[m]
  BY <1>1, <1>2 DEF l
<1>4. /\ missing \in Seq(Names) /\ Len(missing) = l - n /\ DOMAIN missing = 1 .. (l - n)
      /\ \A m \in 1 .. (l - n) : n + m \in 1 .. l /\ missing[m] = files[n + m]
  <2>1. /\ missing \in Seq(Names) /\ Len(missing) = l - n
        /\ \A m \in 1 .. (l - n) : n + m \in 1 .. Len(files) /\ missing[m] = files[n + m]
    BY <1>1, <1>2, Stretch DEF l
  <2> QED BY <2>1 DEF l
<1> HIDE DEF first, missing
<1>5. IsInjective(first)
  BY <1>1, <1>2, <1>3 DEF IsInjective
<1>6. IsInjective(missing)
  <2> SUFFICES ASSUME NEW i \in 1 .. (l - n), NEW j \in 1 .. (l - n), missing[i] = missing[j]
               PROVE  i = j
    BY <1>4 DEF IsInjective
  <2>1. n + i \in 1 .. l /\ n + j \in 1 .. l /\ files[n + i] = files[n + j]
    BY <1>4
  <2>2. n + i = n + j
    BY <1>1, <1>2, <2>1 DEF IsInjective
  <2> QED BY <1>2, <2>2
<1>7. answered \in SUBSET Held(c, t) /\ answered \in SUBSET Names
  <2>1. \A x \in answered : \E m \in 1 .. n : x = first[m]
    BY <1>3 DEF Range
  <2>2. \A m \in 1 .. n : first[m] \in Range(files) /\ first[m] \in Names
    BY <1>1, <1>2, <1>3 DEF Range
  <2> QED BY <1>1, <2>1, <2>2
<1>8. IsFiniteSet(answered) /\ Cardinality(answered) = n
  BY <1>3, <1>5, RangeCounted
<1>9. Range(missing) = Range(files) \ answered
  <2>1. ASSUME NEW x \in Range(missing) PROVE x \in Range(files) /\ x \notin answered
    <3>1. PICK m \in 1 .. (l - n) : x = files[n + m] /\ n + m \in 1 .. l
      BY <1>4 DEF Range
    <3>2. ASSUME NEW k \in 1 .. n, x = first[k] PROVE FALSE
      <4>1. files[k] = files[n + m] /\ k \in 1 .. l
        BY <1>3, <3>1, <3>2
      <4>2. k = n + m
        BY <1>1, <1>2, <3>1, <4>1 DEF IsInjective
      <4> QED BY <1>2, <4>2
    <3>3. x \notin answered
      BY <1>3, <3>2 DEF Range
    <3> QED BY <1>2, <3>1, <3>3 DEF Range
  <2>2. ASSUME NEW x \in Range(files), x \notin answered PROVE x \in Range(missing)
    <3>1. PICK m \in 1 .. l : x = files[m]
      BY <1>2 DEF Range
    <3>2. ~ (m <= n)
      <4>1. ASSUME m <= n PROVE x \in answered
        <5>1. m \in 1 .. n /\ x = first[m]
          BY <1>2, <1>3, <3>1, <4>1
        <5> QED BY <1>3, <5>1 DEF Range
      <4> QED BY <2>2, <4>1
    <3>3. m - n \in 1 .. (l - n) /\ n + (m - n) = m
      BY <1>2, <3>2
    <3>4. missing[m - n] = x
      BY <1>4, <3>1, <3>3
    <3> QED BY <1>4, <3>3, <3>4 DEF Range
  <2> QED BY <2>1, <2>2
<1> HIDE DEF answered
<1> DEFINE k == n + again
<1>10. k \in Nat
  OBVIOUS
<1>17. Repeats \/ k = Cardinality(answered)
  BY <1>8
<1>11. told = Texts(c, answered, k)
  OBVIOUS
<1> HIDE DEF k
<1>18. LET e == Texts(c, answered, k)
       IN  /\ Accounts(e, Threads) /\ Held(e, t) = Held(c, t) \ answered
           /\ \A u \in Threads \ {t} : ThreadCounts(e, u)
  BY <1>1, <1>7, <1>10, <1>17, Tell
<1> HIDE DEF told
<1>12. /\ Accounts(told, Threads) /\ Held(told, t) = Held(c, t) \ answered
       /\ \A u \in Threads \ {t} : ThreadCounts(told, u)
  BY <1>11, <1>18
<1>13. told \in CallType(Names) /\ AtWork(told, t) /\ told.thread = c.thread
  BY <1>1, <1>7, <1>10, <1>11, TextsFit
<1>14. Held(told, t) = Range(missing) /\ Cardinality(Held(told, t)) = Len(missing)
  <2>1. Cardinality(Range(missing)) = Len(missing)
    BY <1>4, <1>6, RangeCounted
  <2> QED BY <1>1, <1>9, <1>12, <2>1
<1>15. CASE missing = <<>>
  <2>1. Cardinality(Held(told, t)) = 0
    BY <1>14, <1>15
  <2>2. Answered(told, t, 0) \in CallType(Names) /\ CallOK(Answered(told, t, 0))
    BY <1>12, <1>13, <2>1, AnsweredOK
  <2> QED BY <1>15, <2>2 DEF told, k, answered, first, missing, l, files
<1>16. CASE missing # <<>>
  <2> DEFINE d == [told EXCEPT !.thread[t].at = "single", !.thread[t].missing = missing]
             th == [c.thread[t] EXCEPT !.at = "single", !.missing = missing]
  <2>1. c.thread[t] \in ThreadType(Names)
    BY DEF CallType
  <2>2. /\ th \in ThreadType(Names) /\ th.at = "single" /\ th.task = told.thread[t].task
        /\ th.missing = missing /\ th.bad = 0
    BY <1>1, <1>4, <1>13, <2>1 DEF ThreadType
  <2>3. d = Put(told, t, th, told.index)
    BY <1>13 DEF Put, CallType
  <2> HIDE DEF th, d
  <2>4. /\ Range(th.missing) \subseteq Held(told, t) /\ IsInjective(th.missing) /\ th.missing # <<>>
        /\ Cardinality(Held(told, t)) = Len(th.missing) + th.bad
    BY <1>2, <1>4, <1>6, <1>14, <1>16, <2>2
  <2> DEFINE e == Put(told, t, th, told.index)
  <2>5. e \in CallType(Names) /\ CallOK(e)
    BY <1>12, <1>13, <2>2, <2>4, SingleOK
  <2> HIDE DEF e
  <2>6. d \in CallType(Names) /\ CallOK(d)
    BY <2>3, <2>5 DEF e
  <2> QED BY <1>16, <2>6 DEF d, told, k, answered, first, missing, l, files
<1> QED BY <1>15, <1>16

LEMMA FallbackOK ==
  ASSUME NEW Names, NEW c \in CallType(Names), NEW t \in Threads, CallOK(c), c.end = "open",
         c.thread[t].at = "single", NEW ok \in BOOLEAN
  PROVE  LET th == c.thread[t]
             told == IF ok THEN Texts(c, {Head(th.missing)}, 1) ELSE c
             bad == IF ok THEN th.bad ELSE th.bad + 1
             d == IF Tail(th.missing) = <<>> THEN Answered(told, t, bad)
                  ELSE [told EXCEPT !.thread[t].missing = Tail(@), !.thread[t].bad = bad]
         IN  d \in CallType(Names) /\ CallOK(d)
<1> DEFINE missing == c.thread[t].missing
           first == Head(missing)
           rest == Tail(missing)
           old == c.thread[t].bad
           bad == IF ok THEN old ELSE old + 1
           one == Texts(c, {first}, 1)
           told == IF ok THEN one ELSE c
<1>1. AtWork(c, t) /\ CallInv(c, Threads)
  BY DEF AtWork, CallOK
<1>2. /\ missing # <<>> /\ IsInjective(missing) /\ Range(missing) \subseteq Held(c, t)
      /\ Cardinality(Held(c, t)) = Len(missing) + old
  BY <1>1 DEF CallInv, ThreadCounts
<1>3. c.thread[t] \in ThreadType(Names) /\ missing \in Seq(Names) /\ old \in Nat /\ bad \in Nat
  BY DEF CallType, ThreadType
<1> HIDE DEF missing, old
<1>4. /\ first \in Range(missing) /\ rest \in Seq(Names) /\ Len(rest) \in Nat
      /\ Len(missing) = Len(rest) + 1 /\ DOMAIN missing = 1 .. Len(missing)
      /\ DOMAIN rest = 1 .. Len(rest) /\ first = missing[1]
      /\ \A i \in 1 .. Len(rest) : i + 1 \in 1 .. Len(missing) /\ i + 1 # 1 /\ rest[i] = missing[i + 1]
  BY <1>2, <1>3 DEF Range
<1> HIDE DEF first, rest
<1>5. IsInjective(rest) /\ Range(rest) \subseteq Range(missing) \ {first}
  <2>1. \A i, j \in 1 .. Len(rest) : i + 1 = j + 1 => i = j
    BY <1>4
  <2>2. 1 \in 1 .. Len(missing)
    BY <1>4
  <2>3. \A i, j \in 1 .. Len(missing) : missing[i] = missing[j] => i = j
    BY <1>2, <1>4 DEF IsInjective
  <2>4. IsInjective(rest)
    BY <1>4, <2>1, <2>3 DEF IsInjective
  <2>5. \A i \in 1 .. Len(rest) : rest[i] # first /\ rest[i] \in Range(missing)
    BY <1>4, <2>2, <2>3 DEF Range
  <2> QED BY <1>4, <2>4, <2>5 DEF Range
<1>6. Range(missing) \subseteq Names
  BY <1>3 DEF Range
<1>7. /\ told \in CallType(Names) /\ AtWork(told, t) /\ told.thread = c.thread
      /\ Accounts(told, Threads) /\ (\A u \in Threads \ {t} : ThreadCounts(told, u))
      /\ Range(rest) \subseteq Held(told, t)
      /\ Cardinality(Held(told, t)) = Len(rest) + bad
  <2>1. CASE ok
    <3>1. {first} \in SUBSET Held(c, t) /\ {first} \in SUBSET Names /\ first \in Held(c, t)
      BY <1>2, <1>4, <1>6
    <3>2. IsFiniteSet({first}) /\ Cardinality({first}) = 1
      BY FS_Singleton
    <3>3. LET e == Texts(c, {first}, 1)
          IN  /\ Accounts(e, Threads) /\ Held(e, t) = Held(c, t) \ {first}
              /\ \A u \in Threads \ {t} : ThreadCounts(e, u)
      <4>1. Repeats \/ 1 = Cardinality({first})
        BY <3>2
      <4>2. 1 \in Nat
        OBVIOUS
      <4> QED BY <1>1, <3>1, <4>1, <4>2, Tell
    <3>4. one \in CallType(Names) /\ AtWork(one, t) /\ one.thread = c.thread
      BY <1>1, <3>1, TextsFit
    <3>5. IsFiniteSet(Held(c, t))
      <4>1. Held(c, t) \subseteq Unsettled(c, Threads)
        BY DEF Unsettled
      <4> QED BY <1>1, <4>1, FS_Subset DEF CallInv, Accounts
    <3>6. Cardinality(Held(c, t) \ {first}) = Cardinality(Held(c, t)) - 1
      BY <3>1, <3>2, <3>5, CountLess
    <3>7. Cardinality(Held(c, t) \ {first}) = Len(rest) + bad
      BY <1>2, <1>3, <1>4, <2>1, <3>6
    <3> QED BY <1>2, <1>5, <2>1, <3>3, <3>4, <3>7
  <2>2. CASE ~ok
    <3>1. Len(missing) + old = Len(rest) + bad
      BY <1>3, <1>4, <2>2
    <3> QED BY <1>1, <1>2, <1>5, <2>2, <3>1 DEF CallInv
  <2> QED BY <2>1, <2>2
<1> HIDE DEF told, bad, one
<1>8. CASE rest = <<>>
  <2>1. Cardinality(Held(told, t)) = bad
    BY <1>3, <1>4, <1>7, <1>8
  <2>2. Answered(told, t, bad) \in CallType(Names) /\ CallOK(Answered(told, t, bad))
    BY <1>7, <2>1, AnsweredOK
  <2> QED BY <1>8, <2>2 DEF told, bad, one, old, first, rest, missing
<1>9. CASE rest # <<>>
  <2> DEFINE d == [told EXCEPT !.thread[t].missing = Tail(@), !.thread[t].bad = bad]
             th == [c.thread[t] EXCEPT !.missing = rest, !.bad = bad]
  <2>1. /\ th \in ThreadType(Names) /\ th.at = "single" /\ th.task = told.thread[t].task
        /\ th.missing = rest /\ th.bad = bad
    BY <1>3, <1>4, <1>7 DEF ThreadType
  <2>2. d = Put(told, t, th, told.index)
    BY <1>7 DEF Put, CallType, rest, missing
  <2> HIDE DEF th, d
  <2>3. /\ Range(th.missing) \subseteq Held(told, t) /\ IsInjective(th.missing) /\ th.missing # <<>>
        /\ Cardinality(Held(told, t)) = Len(th.missing) + th.bad
    BY <1>5, <1>7, <1>9, <2>1
  <2> DEFINE e == Put(told, t, th, told.index)
  <2>4. e \in CallType(Names) /\ CallOK(e)
    BY <1>7, <2>1, <2>3, SingleOK
  <2> HIDE DEF e
  <2>5. d \in CallType(Names) /\ CallOK(d)
    BY <2>2, <2>4 DEF e
  <2> QED BY <1>9, <2>5 DEF d, told, bad, one, old, first, rest, missing
<1> QED BY <1>8, <1>9

LEMMA CannotReadOK ==
  ASSUME NEW Names, NEW c \in CallType(Names), NEW t \in Threads, CallOK(c), c.end = "open",
         c.thread[t].at = "call"
  PROVE  LET d == IF Len(c.thread[t].task) > 1 THEN Thrown(c) ELSE Failed(c, t, 1, FALSE)
         IN  d \in CallType(Names) /\ CallOK(d)
<1> DEFINE files == c.thread[t].task
<1>1. /\ AtWork(c, t) /\ CallInv(c, Threads) /\ files \in Seq(Names) /\ files # <<>>
      /\ Cardinality(Held(c, t)) = Len(files)
  BY TaskAtCall
<1> HIDE DEF files
<1>2. CASE Len(files) > 1
  BY <1>1, <1>2, ThrownOK DEF AtWork, files
<1>3. CASE ~ (Len(files) > 1)
  <2>1. Cardinality(Held(c, t)) = 1
    BY <1>1, <1>3
  <2>2. Failed(c, t, 1, FALSE) \in CallType(Names) /\ CallOK(Failed(c, t, 1, FALSE))
    BY <1>1, <2>1, FailedOK
  <2> QED BY <1>3, <2>2 DEF files
<1> QED BY <1>2, <1>3

LEMMA AskFailsOK ==
  ASSUME NEW Names, NEW c \in CallType(Names), NEW t \in Threads, CallOK(c), c.end = "open",
         c.thread[t].at = "call", NEW retryable \in BOOLEAN
  PROVE  LET d == Failed(c, t, Len(c.thread[t].task), retryable)
         IN  d \in CallType(Names) /\ CallOK(d)
<1>1. AtWork(c, t) /\ CallInv(c, Threads) /\ Cardinality(Held(c, t)) = Len(c.thread[t].task)
  BY TaskAtCall
<1> QED BY <1>1, FailedOK

LEMMA RunnerOK ==
  ASSUME NEW Names, NEW w \in Workers, llm[w] \in CallType(Names), CallOK(llm[w]), Runner(w)
  PROVE  \E d \in CallType(Names) :
           CallOK(d) /\ llm' = [llm EXCEPT ![w] = d] /\ UNCHANGED <<required, unreadable>>
<1> DEFINE c == llm[w]
           Done(d) == d \in CallType(Names) /\ CallOK(d) /\ llm' = [llm EXCEPT ![w] = d]
                        /\ UNCHANGED <<required, unreadable>>
<1>1. ASSUME NEW t \in Threads, Turn(w, t) PROVE \E d : Done(d)
  BY <1>1, TurnOK DEF Turn, Step
<1>2. ASSUME NEW t \in Threads, Wake(w, t) PROVE \E d : Done(d)
  BY <1>2, WakeOK DEF Wake, Step
<1>3. ASSUME NEW t \in Threads, CannotRead(w, t) PROVE \E d : Done(d)
  BY <1>3, CannotReadOK DEF CannotRead, Step
<1>4. ASSUME NEW t \in Threads, AskFails(w, t) PROVE \E d : Done(d)
  <2>1. c.end = "open" /\ c.thread[t].at = "call"
    BY <1>4 DEF AskFails, Asks
  <2>2. PICK retryable \in BOOLEAN : Step(w, Failed(c, t, Len(c.thread[t].task), retryable))
    BY <1>4, Zenon DEF AskFails
  <2> DEFINE d == Failed(c, t, Len(c.thread[t].task), retryable)
  <2>3. d \in CallType(Names) /\ CallOK(d)
    BY <2>1, AskFailsOK
  <2> QED BY <2>2, <2>3, Zenon DEF Step
<1>5. ASSUME NEW t \in Threads, Answer(w, t) PROVE \E d : Done(d)
  <2> DEFINE files == c.thread[t].task
             After0(n) == SubSeq(files, n + 1, Len(files))
             Told(n, again) == Texts(c, Range(SubSeq(files, 1, n)), n + again)
             Next0(n, again) ==
               IF After0(n) = <<>> THEN Answered(Told(n, again), t, 0)
               ELSE [Told(n, again) EXCEPT !.thread[t].at = "single",
                                           !.thread[t].missing = After0(n)]
  <2>1. c.end = "open" /\ c.thread[t].at = "call"
    BY <1>5 DEF Answer, Asks
  <2>2. PICK n \in (IF Len(files) = 1 THEN 1 ELSE 0) .. Len(files) :
          \E again \in IF Repeats /\ Len(files) > 1 /\ n > 0 THEN {0, 1} ELSE {0} :
            Step(w, Next0(n, again))
    BY <1>5, Zenon DEF Answer
  <2>3. PICK again \in IF Repeats /\ Len(files) > 1 /\ n > 0 THEN {0, 1} ELSE {0} :
          Step(w, Next0(n, again))
    BY <2>2, Zenon
  <2>4. files \in Seq(Names)
    BY DEF CallType, ThreadType
  <2>5. n \in Nat /\ n <= Len(files) /\ again \in Nat /\ (Repeats \/ again = 0)
    BY <2>4
  <2>6. Next0(n, again) \in CallType(Names) /\ CallOK(Next0(n, again))
    <3> HIDE DEF c
    <3> QED BY <2>1, <2>5, AnswerOK DEF c
  <2> QED BY <2>3, <2>6, Zenon DEF Step
<1>6. ASSUME NEW t \in Threads, Fallback(w, t) PROVE \E d : Done(d)
  <2> DEFINE th == c.thread[t]
             Told(ok) == IF ok THEN Texts(c, {Head(th.missing)}, 1) ELSE c
             Bad(ok) == IF ok THEN th.bad ELSE th.bad + 1
             Next0(ok) ==
               IF Tail(th.missing) = <<>> THEN Answered(Told(ok), t, Bad(ok))
               ELSE [Told(ok) EXCEPT !.thread[t].missing = Tail(@), !.thread[t].bad = Bad(ok)]
  <2>1. c.end = "open" /\ c.thread[t].at = "single"
    BY <1>6, Zenon DEF Fallback
  <2>2. PICK ok \in BOOLEAN : Step(w, Next0(ok))
    BY <1>6, Zenon DEF Fallback
  <2>3. Next0(ok) \in CallType(Names) /\ CallOK(Next0(ok))
    BY <2>1, FallbackOK
  <2> QED BY <2>2, <2>3, Zenon DEF Step
<1>7. ASSUME CooldownEnds(w) PROVE \E d : Done(d)
  BY <1>7, CooldownEndsOK DEF CooldownEnds, Step
<1>8. \E d : Done(d)
  BY <1>1, <1>2, <1>3, <1>4, <1>5, <1>6, <1>7, Zenon DEF Runner
<1> QED BY <1>8

(* A worker that makes no call.                                            *)
LEMMA NoCallOK == CallOK(NoCall) /\ \A Names : NoCall \in CallType(Names)
<1>1. \A t \in Threads : NoCall.thread[t] = Out
  BY DEF NoCall
<1>2. /\ NoCall.end = "none" /\ NoCall.chain = <<>> /\ NoCall.index = 1
  BY DEF NoCall
<1>3. \A Names : NoCall \in CallType(Names)
  BY OutFits DEF NoCall, CallType
<1>4. Models # <<>> => 1 \in Candidates
  BY ModelsAreListed DEF Candidates
<1>5. ModelsKnown(NoCall) /\ Queued(NoCall)
  BY <1>1, <1>2, <1>4 DEF ModelsKnown, Queued, Out, IsInjective
<1> QED BY <1>2, <1>3, <1>5 DEF CallOK

(* A new call has all of its files before it.                              *)
LEMMA NewCallOK ==
  ASSUME NEW Names, NEW files \in Seq(Names), files # <<>>, IsInjective(files)
  PROVE  /\ NewCall(files) \in CallType(Names) /\ CallOK(NewCall(files))
         /\ NewCall(files).files = files
<1> DEFINE d == NewCall(files)
           tasks == Chunks(files, TaskSize)
           l == Len(tasks)
           n == IF Concurrency < l THEN Concurrency ELSE l
           rest == SubSeq(tasks, n + 1, l)
           th(t) == IF t <= n THEN [Out EXCEPT !.at = "throttle", !.task = tasks[t]] ELSE Out
           threads == [t \in Threads |-> th(t)]
           chain == [t \in 1 .. n |-> t]
<1>1. /\ tasks \in Seq(Seq(Names))
      /\ \A i \in DOMAIN tasks : tasks[i] # <<>> /\ IsInjective(tasks[i])
      /\ UNION {Range(tasks[i]) : i \in DOMAIN tasks} = Range(files)
      /\ \A i, j \in DOMAIN tasks : i # j => Range(tasks[i]) \cap Range(tasks[j]) = {}
  BY LlmCountsArePositive, ChunksPartition, SMTT(30)
<1>2. d = [NoCall EXCEPT !.end = "open", !.files = files, !.tasks = rest,
                         !.thread = threads, !.chain = chain]
  BY DEF NewCall
<1> HIDE DEF tasks
<1>3. l \in Nat /\ DOMAIN tasks = 1 .. l /\ n \in Nat /\ n <= l
      /\ \A i \in 1 .. n : i \in Threads /\ i \in 1 .. l
  BY <1>1, LlmCountsArePositive DEF Threads
<1> HIDE DEF n
<1>4. /\ rest \in Seq(Seq(Names)) /\ Len(rest) = l - n /\ DOMAIN rest = 1 .. (l - n)
      /\ \A m \in 1 .. (l - n) : n + m \in 1 .. l /\ rest[m] = tasks[n + m]
  <2>1. /\ rest \in Seq(Seq(Names)) /\ Len(rest) = l - n
        /\ \A m \in 1 .. (l - n) : n + m \in 1 .. Len(tasks) /\ rest[m] = tasks[n + m]
    <3> DEFINE S == Seq(Names)
    <3>1. tasks \in Seq(S)
      BY <1>1
    <3>2. n \in Nat /\ l \in Nat /\ n <= l /\ l <= Len(tasks)
      BY <1>3
    <3> HIDE DEF S, l
    <3>3. LET piece == SubSeq(tasks, n + 1, l)
          IN  /\ piece \in Seq(S) /\ Len(piece) = l - n
              /\ \A m \in 1 .. (l - n) : n + m \in 1 .. Len(tasks) /\ piece[m] = tasks[n + m]
      BY <3>1, <3>2, Stretch
    <3>4. rest = SubSeq(tasks, n + 1, l)
      OBVIOUS
    <3> HIDE DEF rest
    <3>5. /\ rest \in Seq(S) /\ Len(rest) = l - n
          /\ \A m \in 1 .. (l - n) : n + m \in 1 .. Len(tasks) /\ rest[m] = tasks[n + m]
      BY <3>3, <3>4
    <3> QED BY <3>5 DEF S
  <2>2. l = Len(tasks)
    OBVIOUS
  <2> HIDE DEF rest, l
  <2>3. DOMAIN rest = 1 .. Len(rest)
    BY <2>1
  <2> QED BY <2>1, <2>2, <2>3
<1> HIDE DEF l, rest
<1>5. ASSUME NEW t \in Threads
      PROVE  /\ th(t) \in ThreadType(Names) /\ th(t).missing = <<>> /\ th(t).bad = 0
             /\ t <= n => t \in 1 .. n /\ th(t).at = "throttle" /\ th(t).task = tasks[t]
             /\ ~ (t <= n) => th(t).at = "out" /\ th(t).task = <<>>
  <2>1. Out \in ThreadType(Names) /\ Out.missing = <<>> /\ Out.bad = 0 /\ Out.at = "out"
        /\ Out.task = <<>>
    BY OutFits DEF Out
  <2>2. t \in Nat \ {0}
    BY LlmCountsArePositive DEF Threads
  <2>3. CASE t <= n
    <3>1. t \in 1 .. n /\ tasks[t] \in Seq(Names)
      BY <1>1, <1>3, <2>2, <2>3
    <3> QED BY <2>1, <2>3, <3>1 DEF ThreadType
  <2>4. CASE ~ (t <= n)
    BY <2>1, <2>4
  <2> QED BY <2>3, <2>4
<1> HIDE DEF th
<1>6. threads \in [Threads -> ThreadType(Names)] /\ \A t \in Threads : threads[t] = th(t)
  BY <1>5
<1>7. chain \in Seq(Threads) /\ DOMAIN chain = 1 .. n /\ \A i \in 1 .. n : chain[i] = i
  BY <1>3
<1> HIDE DEF threads, chain
<1>8. /\ d \in CallType(Names) /\ d.end = "open" /\ d.files = files /\ d.tasks = rest
      /\ d.thread = threads /\ d.chain = chain /\ d.index = 1 /\ d.texts = {}
      /\ d.analyzed = 0 /\ d.failed = 0 /\ d.skipped = 0 /\ d.streak = 0 /\ d.tripped = FALSE
  <2>1. NoCall \in CallType(Names)
    BY NoCallOK
  <2>2. /\ NoCall.index = 1 /\ NoCall.texts = {} /\ NoCall.analyzed = 0 /\ NoCall.failed = 0
        /\ NoCall.skipped = 0 /\ NoCall.streak = 0 /\ NoCall.tripped = FALSE
    BY DEF NoCall
  <2> HIDE DEF d
  <2> QED BY <1>2, <1>4, <1>6, <1>7, <2>1, <2>2 DEF CallType
<1> HIDE DEF d
<1>9. ModelsKnown(d)
  <2>1. Models # <<>> => 1 \in Candidates
    BY ModelsAreListed DEF Candidates
  <2>2. \A t \in Threads : threads[t].at # "cooldown"
    BY <1>5, <1>6
  <2> QED BY <1>8, <2>1, <2>2 DEF ModelsKnown
<1>10. Queued(d)
  <2>1. IsInjective(chain)
    BY <1>7 DEF IsInjective
  <2>2. \A i \in 1 .. n : threads[i].at = "throttle"
    <3>1. \A i \in 1 .. n : i <= n
      BY <1>3
    <3> QED BY <1>3, <1>5, <1>6, <3>1
  <2> QED BY <1>7, <1>8, <2>1, <2>2 DEF Queued
<1>11. \A t \in Threads : Held(d, t) = Range(threads[t].task)
  BY <1>8 DEF Held
<1>12. ASSUME NEW i \in DOMAIN rest, NEW t \in Threads
       PROVE  Range(rest[i]) \cap Range(threads[t].task) = {}
  <2>1. CASE t <= n
    <3>1. t \in 1 .. l /\ n + i \in 1 .. l /\ t # n + i
      BY <1>3, <1>4, <1>5, <2>1
    <3>2. threads[t].task = tasks[t] /\ rest[i] = tasks[n + i]
      BY <1>4, <1>5, <1>6, <2>1
    <3>3. Range(tasks[n + i]) \cap Range(tasks[t]) = {}
      BY <1>1, <1>3, <3>1
    <3> QED BY <3>2, <3>3
  <2>2. CASE ~ (t <= n)
    BY <1>5, <1>6, <2>2 DEF Range
  <2> QED BY <2>1, <2>2
<1>13. TasksApart(d, Threads)
  <2>1. \A i \in DOMAIN rest : IsInjective(rest[i]) /\ rest[i] # <<>>
    BY <1>1, <1>3, <1>4
  <2>2. ASSUME NEW i \in DOMAIN rest, NEW j \in DOMAIN rest, i # j
        PROVE  Range(rest[i]) \cap Range(rest[j]) = {}
    <3>1. n + i # n + j /\ n + i \in 1 .. l /\ n + j \in 1 .. l
      BY <1>3, <1>4, <2>2
    <3> QED BY <1>1, <1>3, <1>4, <3>1
  <2>3. IsInjective(<<>>) /\ Range(<<>>) = {}
    BY DEF IsInjective, Range
  <2>4. \A t \in Threads : IsInjective(threads[t].task)
    BY <1>1, <1>3, <1>5, <1>6, <2>3
  <2>5. ASSUME NEW t \in Threads PROVE Range(threads[t].task) \cap Untaken(d) = {}
    BY <1>8, <1>12 DEF Untaken
  <2>6. ASSUME NEW t \in Threads, NEW u \in Threads, t # u
        PROVE  Range(threads[t].task) \cap Range(threads[u].task) = {}
    <3>1. CASE t <= n /\ u <= n
      BY <1>1, <1>3, <1>5, <1>6, <2>6, <3>1
    <3>2. CASE ~ (t <= n /\ u <= n)
      BY <1>5, <1>6, <2>3, <3>2
    <3> QED BY <3>1, <3>2
  <2> QED BY <1>8, <2>1, <2>2, <2>4, <2>5, <2>6 DEF TasksApart
<1>14. Unsettled(d, Threads) = Range(files)
  <2>1. ASSUME NEW x \in Range(files) PROVE x \in Unsettled(d, Threads)
    <3>1. PICK i \in 1 .. l : x \in Range(tasks[i])
      BY <1>1, <1>3
    <3>2. CASE i <= n
      <4>1. i \in Threads
        BY <1>3, <3>2
      <4>2. x \in Held(d, i)
        BY <1>5, <1>6, <1>11, <3>1, <3>2, <4>1
      <4> QED BY <4>1, <4>2 DEF Unsettled
    <3>3. CASE ~ (i <= n)
      <4>1. i - n \in 1 .. (l - n) /\ n + (i - n) = i
        BY <1>3, <3>3
      <4>2. x \in Range(rest[i - n])
        BY <1>4, <3>1, <4>1
      <4> QED BY <1>4, <1>8, <4>1, <4>2 DEF Unsettled, Untaken
    <3> QED BY <3>2, <3>3
  <2>2. ASSUME NEW x \in Untaken(d) PROVE x \in Range(files)
    <3>1. PICK i \in DOMAIN rest : x \in Range(rest[i])
      BY <1>8 DEF Untaken
    <3> QED BY <1>1, <1>3, <1>4, <3>1
  <2>3. ASSUME NEW t \in Threads, NEW x \in Held(d, t) PROVE x \in Range(files)
    <3>1. x \in Range(threads[t].task)
      BY <1>11, <2>3
    <3>2. t <= n
      BY <1>5, <1>6, <3>1 DEF Range
    <3> QED BY <1>1, <1>3, <1>5, <1>6, <3>1, <3>2
  <2> QED BY <2>1, <2>2, <2>3 DEF Unsettled
<1>15. Accounts(d, Threads)
  <2>1. IsFiniteSet(Range(files)) /\ Cardinality(Range(files)) = Len(files)
    BY RangeCounted
  <2>2. IsFiniteSet(d.texts) /\ Cardinality(d.texts) = 0
    BY <1>8, FS_EmptySet
  <2>3. Len(files) \in Nat
    OBVIOUS
  <2> QED BY <1>8, <1>13, <1>14, <2>1, <2>2, <2>3 DEF Accounts
<1>16. \A t \in Threads : ThreadCounts(d, t)
  <2>1. ASSUME NEW t \in Threads, t <= n PROVE ThreadCounts(d, t)
    BY <1>1, <1>3, <1>5, <1>6, <1>8, <1>11, <2>1 DEF ThreadCounts
  <2>2. ASSUME NEW t \in Threads, ~ (t <= n) PROVE ThreadCounts(d, t)
    BY <1>5, <1>6, <1>8, <1>11, <2>2 DEF ThreadCounts
  <2> QED BY <2>1, <2>2
<1>17. Strict(d)
  BY <1>8 DEF Strict
<1>18. CallOK(d)
  BY <1>8, <1>9, <1>10, <1>15, <1>16, <1>17 DEF CallOK, CallInv
<1> QED BY <1>8, <1>18 DEF d

-----------------------------------------------------------------------------
(* The calls of the workers, when one or some of them change.              *)

LEMMA CallsKept ==
  ASSUME required' = required, \A w \in Workers : CallOK(llm'[w])
  PROVE  CallsInv'
BY DEF CallsInv, CallOK, Strict

LEMMA OneCall ==
  ASSUME llm \in [Workers -> CallType(Files)], CallsInv, required' = required,
         NEW w \in Workers, NEW d \in CallType(Files), CallOK(d), llm' = [llm EXCEPT ![w] = d]
  PROVE  llm' \in [Workers -> CallType(Files)] /\ CallsInv'
<1>1. \A v \in Workers : llm'[v] = IF v = w THEN d ELSE llm[v]
  OBVIOUS
<1>2. \A v \in Workers : CallOK(llm'[v])
  BY <1>1 DEF CallsInv
<1> QED BY <1>2, CallsKept

LEMMA NoOther ==
  ASSUME llm \in [Workers -> CallType(Files)], CallsInv, UNCHANGED <<llm, required>>
  PROVE  llm' \in [Workers -> CallType(Files)] /\ CallsInv'
<1>1. \A v \in Workers : CallOK(llm'[v])
  BY DEF CallsInv
<1> QED BY <1>1, CallsKept

(* The calls of workers that are told to end are lost.                     *)
LEMMA CallsLost ==
  ASSUME llm \in [Workers -> CallType(Files)], CallsInv, required' = required, Signal
  PROVE  llm' \in [Workers -> CallType(Files)] /\ CallsInv'
<1>1. llm' = [w \in Workers |-> IF w \in Tracked THEN NoCall ELSE llm[w]]
  BY DEF Signal
<1>2. \A v \in Workers : CallOK(llm'[v]) /\ llm'[v] \in CallType(Files)
  BY <1>1, NoCallOK DEF CallsInv
<1> HIDE DEF Tracked
<1>3. llm' \in [Workers -> CallType(Files)]
  BY <1>1, NoCallOK
<1> QED BY <1>2, <1>3, CallsKept

-----------------------------------------------------------------------------
(* A worker acts.                                                          *)

(* What it leaves to the others, and to the build.                         *)
Alone(w) ==
  /\ \A v \in Workers \ {w} : worker'[v] = worker[v]
  /\ worker'[w].segment = worker[w].segment /\ worker'[w].signalled = worker[w].signalled
  /\ Range(worker'[w].todo) \subseteq Range(worker[w].todo)
  /\ Live(w)
  /\ parent' = parent /\ required' = required
  /\ \A b \in Batches : disk'[b] = disk[b] \/ b \in Range(worker[w].todo)

LEMMA BatchInHand ==
  ASSUME NEW w \in Workers, worker[w] \in WorkerType, worker[w].todo # <<>>
  PROVE  /\ Batch(w) \in Batches /\ Batch(w) \in Range(worker[w].todo)
         /\ FilesOf[Batch(w)] \in Seq(Files) /\ FilesOf[Batch(w)] # <<>>
         /\ IsInjective(FilesOf[Batch(w)])
         /\ Tail(worker[w].todo) \in Seq(Batches)
         /\ Range(Tail(worker[w].todo)) \subseteq Range(worker[w].todo)
<1> DEFINE todo == worker[w].todo
<1>1. todo \in Seq(Batches) /\ todo # <<>> /\ Batch(w) = todo[1]
  BY DEF WorkerType, Batch
<1> HIDE DEF todo
<1>2. /\ todo[1] \in Batches /\ todo[1] \in Range(todo) /\ Tail(todo) \in Seq(Batches)
      /\ Range(Tail(todo)) \subseteq Range(todo)
  BY <1>1 DEF Range
<1> QED BY <1>1, <1>2, BatchesOfFiles, SMTT(30) DEF todo, Batches

(* The worker is another, and the rest is as it was.                       *)
LEMMA WorkerMoves ==
  ASSUME TypeOK, NEW w \in Workers, NEW next \in WorkerType, Move(w, next)
  PROVE  /\ worker' \in [Workers -> WorkerType] /\ worker'[w] = next
         /\ \A v \in Workers \ {w} : worker'[v] = worker[v]
         /\ parent' = parent /\ required' = required /\ unreadable' = unreadable
BY DEF TypeOK, Move

LEMMA BeginAlone ==
  ASSUME TypeOK, CallsInv, InHand, NEW w \in Workers, Begin(w)
  PROVE  TypeOK' /\ CallsInv' /\ InHand' /\ Alone(w)
<1> DEFINE next == [worker[w] EXCEPT !.at = IF LlmAnalysis THEN "asking" ELSE "analysing"]
<1>1. /\ worker[w].at = "running" /\ worker[w].todo # <<>> /\ worker[w] \in WorkerType
      /\ disk' = disk /\ faults' = faults /\ Move(w, next)
  BY DEF Begin, TypeOK
<1>2. /\ next \in WorkerType /\ next.segment = worker[w].segment /\ next.todo = worker[w].todo
      /\ next.signalled = worker[w].signalled
  BY <1>1 DEF WorkerType
<1> HIDE DEF next
<1>3. /\ worker' \in [Workers -> WorkerType] /\ worker'[w] = next
      /\ \A v \in Workers \ {w} : worker'[v] = worker[v]
      /\ parent' = parent /\ required' = required /\ unreadable' = unreadable
  BY <1>1, <1>2, WorkerMoves
<1>4. llm' \in [Workers -> CallType(Files)] /\ CallsInv'
  <2>1. CASE LlmAnalysis
    <3> DEFINE d == NewCall(FilesOf[Batch(w)])
    <3>1. d \in CallType(Files) /\ CallOK(d)
      BY <1>1, BatchInHand, NewCallOK
    <3>2. llm' = [llm EXCEPT ![w] = d] /\ llm \in [Workers -> CallType(Files)]
      BY <2>1 DEF Begin, TypeOK
    <3> HIDE DEF d
    <3> QED BY <1>3, <3>1, <3>2, OneCall
  <2>2. CASE ~LlmAnalysis
    <3>1. llm' = llm /\ llm \in [Workers -> CallType(Files)]
      BY <2>2 DEF Begin, TypeOK
    <3> QED BY <1>3, <3>1, NoOther
  <2> QED BY <2>1, <2>2
<1>5. TypeOK'
  BY <1>1, <1>3, <1>4 DEF TypeOK
<1>6. InHand'
  BY <1>1, <1>2, <1>3 DEF InHand
<1>7. Alone(w)
  BY <1>1, <1>2, <1>3 DEF Alone, Live
<1> QED BY <1>4, <1>5, <1>6, <1>7

LEMMA AskAlone ==
  ASSUME TypeOK, CallsInv, InHand, NEW w \in Workers, Ask(w)
  PROVE  TypeOK' /\ CallsInv' /\ InHand' /\ Alone(w)
<1>1. /\ worker[w].at = "asking" /\ Runner(w) /\ disk' = disk /\ parent' = parent
      /\ worker' = worker /\ faults' = faults
  BY DEF Ask, own
<1>2. PICK d \in CallType(Files) :
        CallOK(d) /\ llm' = [llm EXCEPT ![w] = d] /\ UNCHANGED <<required, unreadable>>
  <2>1. llm[w] \in CallType(Files) /\ CallOK(llm[w])
    BY DEF TypeOK, CallsInv
  <2> QED BY <1>1, <2>1, RunnerOK
<1>3. llm' \in [Workers -> CallType(Files)] /\ CallsInv'
  BY <1>2, OneCall DEF TypeOK
<1> QED BY <1>1, <1>2, <1>3 DEF TypeOK, InHand, Alone, Live

(* The actions in which its call is over                                   *)
LEMMA CallEnds ==
  ASSUME TypeOK, CallsInv, NEW w \in Workers, llm' = [llm EXCEPT ![w] = NoCall],
         required' = required
  PROVE  llm' \in [Workers -> CallType(Files)] /\ CallsInv'
BY NoCallOK, OneCall DEF TypeOK

LEMMA AskedAlone ==
  ASSUME TypeOK, CallsInv, InHand, NEW w \in Workers, Asked(w)
  PROVE  TypeOK' /\ CallsInv' /\ InHand' /\ Alone(w)
<1> DEFINE n == Cardinality(llm[w].texts)
           kind == IF n = Len(llm[w].files) THEN "enriched" ELSE IF n > 0 THEN "partial" ELSE "hollow"
           next == [worker[w] EXCEPT !.at = "analysing", !.kind = kind]
<1>1. /\ worker[w].at = "asking" /\ worker[w] \in WorkerType
      /\ disk' = disk /\ faults' = faults /\ Move(w, next) /\ llm' = [llm EXCEPT ![w] = NoCall]
  BY DEF Asked, TypeOK
<1>2. kind \in Artifacts \ {"none", "torn"}
  BY DEF Artifacts, Marked
<1> HIDE DEF kind
<1>3. /\ next \in WorkerType /\ next.segment = worker[w].segment /\ next.todo = worker[w].todo
      /\ next.signalled = worker[w].signalled
  BY <1>1, <1>2 DEF WorkerType
<1> HIDE DEF next
<1>4. /\ worker' \in [Workers -> WorkerType] /\ worker'[w] = next
      /\ \A v \in Workers \ {w} : worker'[v] = worker[v]
      /\ parent' = parent /\ required' = required /\ unreadable' = unreadable
  BY <1>1, <1>3, WorkerMoves
<1>5. llm' \in [Workers -> CallType(Files)] /\ CallsInv'
  BY <1>1, <1>4, CallEnds
<1>6. TypeOK'
  BY <1>1, <1>4, <1>5 DEF TypeOK
<1>7. InHand'
  BY <1>1, <1>3, <1>4 DEF InHand
<1>8. Alone(w)
  BY <1>1, <1>3, <1>4 DEF Alone, Live
<1> QED BY <1>5, <1>6, <1>7, <1>8

(* The actions that end the process                                        *)
LEMMA GoneAlone ==
  ASSUME TypeOK, CallsInv, InHand, NEW w \in Workers, NEW code \in Codes, Live(w),
         Move(w, Gone(w, code)), llm' = [llm EXCEPT ![w] = NoCall] \/ llm' = llm,
         disk' = disk, faults' \in 0 .. MaxFaults
  PROVE  TypeOK' /\ CallsInv' /\ InHand' /\ Alone(w)
<1> DEFINE next == Gone(w, code)
<1>1. worker[w] \in WorkerType /\ llm \in [Workers -> CallType(Files)]
  BY DEF TypeOK
<1>2. /\ next \in WorkerType /\ next.segment = worker[w].segment /\ next.todo = <<>>
      /\ next.signalled = worker[w].signalled /\ next.at = "gone"
  <2>1. <<>> \in Seq(Batches) /\ "gone" \in {"none", "running", "asking", "analysing", "writing", "gone"}
    OBVIOUS
  <2>2. next = [worker[w] EXCEPT !.at = "gone", !.code = code, !.todo = <<>>]
    BY DEF Gone
  <2> HIDE DEF next
  <2> QED BY <1>1, <2>1, <2>2 DEF WorkerType
<1> HIDE DEF next
<1>3. /\ worker' \in [Workers -> WorkerType] /\ worker'[w] = next
      /\ \A v \in Workers \ {w} : worker'[v] = worker[v]
      /\ parent' = parent /\ required' = required /\ unreadable' = unreadable
  <2>1. Move(w, next)
    BY DEF next
  <2> QED BY <1>2, <2>1, WorkerMoves
<1>4. llm' \in [Workers -> CallType(Files)] /\ CallsInv'
  BY <1>1, <1>3, CallEnds, NoOther
<1>5. TypeOK'
  BY <1>3, <1>4 DEF TypeOK
<1>6. InHand'
  BY <1>2, <1>3 DEF InHand
<1>7. Range(<<>>) = {}
  BY DEF Range
<1>8. Alone(w)
  BY <1>2, <1>3, <1>7 DEF Alone
<1> QED BY <1>4, <1>5, <1>6, <1>8

LEMMA AnalyseAlone ==
  ASSUME TypeOK, CallsInv, InHand, NEW w \in Workers, Analyse(w)
  PROVE  TypeOK' /\ CallsInv' /\ InHand' /\ Alone(w)
<1> DEFINE skipped == [worker[w] EXCEPT !.at = "running", !.todo = Tail(@), !.kind = "plain"]
           going == [worker[w] EXCEPT !.at = "writing"]
<1>1. /\ worker[w].at = "analysing" /\ worker[w] \in WorkerType /\ worker[w].todo # <<>>
      /\ llm' = llm /\ faults' = faults /\ disk \in [Batches -> Artifacts]
      /\ llm \in [Workers -> CallType(Files)]
  BY DEF Analyse, TypeOK, InHand
<1>2. /\ Batch(w) \in Batches /\ Batch(w) \in Range(worker[w].todo)
      /\ Tail(worker[w].todo) \in Seq(Batches)
      /\ Range(Tail(worker[w].todo)) \subseteq Range(worker[w].todo)
  BY <1>1, BatchInHand
<1>3. PICK next \in WorkerType :
        /\ Move(w, next) /\ next.segment = worker[w].segment /\ next.signalled = worker[w].signalled
        /\ Range(next.todo) \subseteq Range(worker[w].todo)
        /\ next.at \in {"asking", "analysing", "writing"} => next.todo # <<>>
  <2>1. /\ skipped \in WorkerType /\ skipped.segment = worker[w].segment
        /\ skipped.signalled = worker[w].signalled /\ skipped.at = "running"
        /\ skipped.todo = Tail(worker[w].todo)
    BY <1>1, <1>2 DEF WorkerType, Artifacts, Marked
  <2>2. /\ going \in WorkerType /\ going.segment = worker[w].segment
        /\ going.signalled = worker[w].signalled /\ going.todo = worker[w].todo
    BY <1>1 DEF WorkerType
  <2>3. Move(w, skipped) \/ Move(w, going)
    BY Zenon DEF Analyse
  <2> HIDE DEF skipped, going
  <2> QED BY <1>1, <1>2, <2>1, <2>2, <2>3
<1>4. disk' = disk \/ disk' = [disk EXCEPT ![Batch(w)] = "torn"]
  BY DEF Analyse
<1>5. disk' \in [Batches -> Artifacts] /\ \A b \in Batches : disk'[b] = disk[b] \/ b = Batch(w)
  BY <1>1, <1>2, <1>4 DEF Artifacts
<1>6. /\ worker' \in [Workers -> WorkerType] /\ worker'[w] = next
      /\ \A v \in Workers \ {w} : worker'[v] = worker[v]
      /\ parent' = parent /\ required' = required /\ unreadable' = unreadable
  BY <1>3, WorkerMoves
<1>7. llm' \in [Workers -> CallType(Files)] /\ CallsInv'
  BY <1>1, <1>6, NoOther
<1>8. TypeOK'
  BY <1>1, <1>5, <1>6, <1>7 DEF TypeOK
<1>9. InHand'
  BY <1>3, <1>6 DEF InHand
<1>10. Alone(w)
  BY <1>1, <1>2, <1>3, <1>5, <1>6 DEF Alone, Live
<1> QED BY <1>7, <1>8, <1>9, <1>10

LEMMA WrittenAlone ==
  ASSUME TypeOK, CallsInv, InHand, NEW w \in Workers, Written(w)
  PROVE  TypeOK' /\ CallsInv' /\ InHand' /\ Alone(w)
<1> DEFINE next == [worker[w] EXCEPT !.at = "running", !.todo = Tail(@), !.kind = "plain"]
<1>1. /\ worker[w].at = "writing" /\ worker[w] \in WorkerType /\ worker[w].todo # <<>>
      /\ llm' = llm /\ faults' = faults /\ disk \in [Batches -> Artifacts]
      /\ llm \in [Workers -> CallType(Files)] /\ Move(w, next)
      /\ disk' = [disk EXCEPT ![Batch(w)] = worker[w].kind]
  BY DEF Written, TypeOK, InHand
<1>2. /\ Batch(w) \in Batches /\ Batch(w) \in Range(worker[w].todo)
      /\ Tail(worker[w].todo) \in Seq(Batches)
      /\ Range(Tail(worker[w].todo)) \subseteq Range(worker[w].todo)
  BY <1>1, BatchInHand
<1>3. /\ next \in WorkerType /\ next.segment = worker[w].segment
      /\ next.signalled = worker[w].signalled /\ next.at = "running"
      /\ next.todo = Tail(worker[w].todo)
  BY <1>1, <1>2 DEF WorkerType, Artifacts, Marked
<1> HIDE DEF next
<1>4. worker[w].kind \in Artifacts
  BY <1>1 DEF WorkerType
<1>5. disk' \in [Batches -> Artifacts] /\ \A b \in Batches : disk'[b] = disk[b] \/ b = Batch(w)
  BY <1>1, <1>2, <1>4
<1>6. /\ worker' \in [Workers -> WorkerType] /\ worker'[w] = next
      /\ \A v \in Workers \ {w} : worker'[v] = worker[v]
      /\ parent' = parent /\ required' = required /\ unreadable' = unreadable
  BY <1>1, <1>3, WorkerMoves
<1>7. llm' \in [Workers -> CallType(Files)] /\ CallsInv'
  BY <1>1, <1>6, NoOther
<1>8. TypeOK'
  BY <1>1, <1>5, <1>6, <1>7 DEF TypeOK
<1>9. InHand'
  BY <1>3, <1>6 DEF InHand
<1>10. Alone(w)
  BY <1>1, <1>2, <1>3, <1>5, <1>6 DEF Alone, Live
<1> QED BY <1>7, <1>8, <1>9, <1>10

LEMMA WorkAlone ==
  ASSUME TypeOK, CallsInv, InHand, NEW w \in Workers, Work(w) \/ Break(w)
  PROVE  TypeOK' /\ CallsInv' /\ InHand' /\ Alone(w)
<1> DEFINE Goal == TypeOK' /\ CallsInv' /\ InHand' /\ Alone(w)
<1>1. faults \in 0 .. MaxFaults /\ MaxFaults \in Nat
  BY MappingBounds DEF TypeOK
<1>2. "0" \in Codes /\ "1" \in Codes /\ "signal" \in Codes
  BY DEF Codes
<1>3. ASSUME AskThrew(w) PROVE Goal
  BY <1>1, <1>2, <1>3, GoneAlone DEF AskThrew, Live
<1>4. ASSUME Finish(w) PROVE Goal
  BY <1>1, <1>2, <1>4, GoneAlone DEF Finish, Live
<1>5. ASSUME Die(w) PROVE Goal
  BY <1>1, <1>2, <1>5, GoneAlone DEF Die
<1>6. ASSUME Break(w) PROVE Goal
  <2>1. faults' \in 0 .. MaxFaults
    BY <1>1, <1>6 DEF Break
  <2> QED BY <1>2, <1>6, <2>1, GoneAlone DEF Break
<1> HIDE DEF Goal
<1>7. ASSUME Begin(w) \/ Ask(w) \/ Asked(w) \/ Analyse(w) \/ Written(w) PROVE Goal
  BY <1>7, BeginAlone, AskAlone, AskedAlone, AnalyseAlone, WrittenAlone DEF Goal
<1>8. Goal
  BY <1>3, <1>4, <1>5, <1>6, <1>7, Zenon DEF Work
<1> QED BY <1>8 DEF Goal

-----------------------------------------------------------------------------
(* The build acts.                                                         *)

(* The workers are where they were, whatever they were told.               *)
SameWorkers ==
  \A w \in Workers :
    /\ worker'[w].at = worker[w].at /\ worker'[w].segment = worker[w].segment
    /\ worker'[w].todo = worker[w].todo /\ worker'[w].kind = worker[w].kind

LEMMA SignalTells ==
  ASSUME TypeOK, Signal
  PROVE  /\ worker' \in [Workers -> WorkerType] /\ SameWorkers
         /\ \A w \in Slots : Live(w)' => worker'[w].signalled
<1> DEFINE told(w) == IF w \in Tracked THEN [worker[w] EXCEPT !.signalled = TRUE] ELSE worker[w]
<1>1. worker' = [w \in Workers |-> told(w)]
  BY DEF Signal
<1>2. ASSUME NEW w \in Workers
      PROVE  /\ told(w) \in WorkerType /\ told(w).at = worker[w].at
             /\ told(w).segment = worker[w].segment /\ told(w).todo = worker[w].todo
             /\ told(w).kind = worker[w].kind
             /\ w \in Tracked => told(w).signalled
  BY DEF TypeOK, WorkerType
<1> HIDE DEF told
<1>3. worker' \in [Workers -> WorkerType] /\ SameWorkers
  BY <1>1, <1>2 DEF SameWorkers
<1>4. ASSUME NEW w \in Slots, Live(w)' PROVE worker'[w].signalled
  <2>1. w \in Workers
    BY WorkersAreSlots DEF Slots
  <2>2. worker[w].at = worker'[w].at
    BY <2>1, <1>3 DEF SameWorkers
  <2>3. w \in Tracked
    BY <1>4, <2>2 DEF Live, Tracked
  <2> QED BY <1>1, <1>2, <2>1, <2>3
<1> QED BY <1>3, <1>4

LEMMA ExitTells ==
  ASSUME TypeOK, CallsInv, InHand, NEW code \in Codes, Exit(code),
         UNCHANGED <<required, unreadable, disk, faults>>
  PROVE  TypeOK' /\ CallsInv' /\ InHand' /\ NoStrays' /\ parent'.at = "gone" /\ SameWorkers
<1>1. Signal /\ parent' = [parent EXCEPT !.at = "gone", !.code = code]
  BY DEF Exit, Ended
<1>2. parent' \in ParentType /\ parent'.at = "gone"
  BY <1>1 DEF TypeOK, ParentType
<1>3. /\ worker' \in [Workers -> WorkerType] /\ SameWorkers
      /\ \A w \in Slots : Live(w)' => worker'[w].signalled
  BY <1>1, SignalTells
<1>4. llm' \in [Workers -> CallType(Files)] /\ CallsInv'
  BY <1>1, CallsLost DEF TypeOK
<1>5. TypeOK'
  BY <1>2, <1>3, <1>4 DEF TypeOK
<1>6. InHand'
  BY <1>3 DEF InHand, SameWorkers
<1>7. NoStrays'
  BY <1>3 DEF NoStrays
<1> QED BY <1>2, <1>3, <1>4, <1>5, <1>6, <1>7

(* The workers that the build starts                                       *)
LEMMA ScheduleStarts ==
  ASSUME TypeOK, CallsInv, InHand, Schedule, Missing # <<>>
  PROVE  /\ TypeOK' /\ CallsInv' /\ InHand' /\ parent'.at = "mapping"
         /\ parent'.waits = DOMAIN Segments
         /\ \A w \in Workers :
              IF w \in DOMAIN Segments
              THEN /\ worker'[w].segment = Segments[w] /\ worker'[w].todo = Segments[w]
                   /\ worker'[w].at = "running"
              ELSE worker'[w] = worker[w]
<1> DEFINE new(w) == IF w \in DOMAIN Segments
                     THEN [NoWorker EXCEPT !.at = "running", !.segment = Segments[w],
                                           !.todo = Segments[w]]
                     ELSE worker[w]
<1>1. /\ DOMAIN Segments \subseteq Slots
      /\ \A w \in DOMAIN Segments : Segments[w] \in Seq(Batches)
  BY SegmentsPartition
<1>2. /\ parent' = [parent EXCEPT !.at = "mapping", !.waits = DOMAIN Segments]
      /\ worker' = [w \in Workers |-> new(w)]
      /\ UNCHANGED <<llm, required, unreadable, disk, faults>>
  BY DEF Schedule
<1>3. ASSUME NEW w \in Workers
      PROVE  /\ new(w) \in WorkerType
             /\ IF w \in DOMAIN Segments
                THEN new(w).segment = Segments[w] /\ new(w).todo = Segments[w] /\ new(w).at = "running"
                ELSE new(w) = worker[w]
  <2>1. CASE w \in DOMAIN Segments
    <3> DEFINE piece == Segments[w]
    <3>1. piece \in Seq(Batches)
      BY <1>1, <2>1
    <3>2. new(w) = [NoWorker EXCEPT !.at = "running", !.segment = piece, !.todo = piece]
      BY <2>1
    <3> HIDE DEF piece, new
    <3>3. new(w) \in WorkerType /\ new(w).segment = piece /\ new(w).todo = piece
          /\ new(w).at = "running"
      BY <3>1, <3>2 DEF NoWorker, WorkerType, Artifacts, Marked, Codes
    <3> QED BY <2>1, <3>3 DEF piece
  <2>2. CASE w \notin DOMAIN Segments
    BY <2>2 DEF TypeOK
  <2> QED BY <2>1, <2>2
<1> HIDE DEF new
<1>4. parent' \in ParentType /\ parent'.at = "mapping" /\ parent'.waits = DOMAIN Segments
  BY <1>1, <1>2 DEF TypeOK, ParentType
<1>5. llm' \in [Workers -> CallType(Files)] /\ CallsInv'
  BY <1>2, NoOther DEF TypeOK
<1>6. worker' \in [Workers -> WorkerType]
  BY <1>2, <1>3
<1>7. TypeOK'
  BY <1>2, <1>4, <1>5, <1>6 DEF TypeOK
<1>8. \A w \in Workers :
        IF w \in DOMAIN Segments
        THEN /\ worker'[w].segment = Segments[w] /\ worker'[w].todo = Segments[w]
             /\ worker'[w].at = "running"
        ELSE worker'[w] = worker[w]
  BY <1>2, <1>3
<1>9. InHand'
  BY <1>8 DEF InHand
<1> QED BY <1>4, <1>5, <1>7, <1>8, <1>9

(* Nothing is to be mapped.                                                *)
LEMMA ScheduleSkips ==
  ASSUME TypeOK, CallsInv, InHand, Schedule, Missing = <<>>
  PROVE  /\ TypeOK' /\ CallsInv' /\ InHand' /\ parent'.at = "merging"
         /\ parent'.waits = parent.waits /\ worker' = worker /\ disk' = disk
<1>1. /\ parent' = [parent EXCEPT !.at = "merging"]
      /\ UNCHANGED <<worker, llm, required, unreadable, disk, faults>>
  BY DEF Schedule
<1>2. parent' \in ParentType /\ parent'.at = "merging" /\ parent'.waits = parent.waits
  BY <1>1 DEF TypeOK, ParentType
<1>3. llm' \in [Workers -> CallType(Files)] /\ CallsInv'
  BY <1>1, NoOther DEF TypeOK
<1> QED BY <1>1, <1>2, <1>3 DEF TypeOK, InHand

LEMMA CollectSees ==
  ASSUME TypeOK, CallsInv, InHand, NEW w \in Slots, Collect(w), SegmentOk(w)
  PROVE  /\ TypeOK' /\ CallsInv' /\ InHand' /\ worker' = worker
         /\ parent.at = "mapping" /\ w \in parent.waits
         /\ parent'.waits = parent.waits \ {w}
         /\ parent'.at = IF parent.waits = {w} THEN "merging" ELSE "mapping"
<1> DEFINE at == IF parent.waits = {w} THEN "merging" ELSE "mapping"
           waits == parent.waits \ {w}
<1>1. /\ parent' = [parent EXCEPT !.waits = waits, !.at = at]
      /\ UNCHANGED <<llm, worker, required, unreadable, disk, faults>>
      /\ parent.at = "mapping" /\ w \in parent.waits
  BY DEF Collect, TypeOK, ParentType
<1>2. at \in {"merging", "mapping"} /\ waits \in SUBSET Slots
  BY DEF TypeOK, ParentType
<1> HIDE DEF at, waits
<1>3. parent' \in ParentType /\ parent'.waits = waits /\ parent'.at = at
  BY <1>1, <1>2 DEF TypeOK, ParentType
<1>4. llm' \in [Workers -> CallType(Files)] /\ CallsInv'
  BY <1>1, NoOther DEF TypeOK
<1>5. TypeOK' /\ InHand'
  BY <1>1, <1>3, <1>4 DEF TypeOK, InHand
<1> QED BY <1>1, <1>3, <1>4, <1>5 DEF at, waits

LEMMA InterruptTells ==
  ASSUME TypeOK, CallsInv, InHand, Interrupt
  PROVE  /\ TypeOK' /\ CallsInv' /\ InHand' /\ SameWorkers /\ disk' = disk
         /\ parent'.at = parent.at /\ parent'.waits = parent.waits /\ parent.at # "gone"
<1>1. /\ Signal /\ parent' = [parent EXCEPT !.reaping = TRUE] /\ parent.at # "gone"
      /\ UNCHANGED <<required, unreadable, disk, faults>>
  BY DEF Interrupt
<1>2. parent' \in ParentType /\ parent'.at = parent.at /\ parent'.waits = parent.waits
  BY <1>1 DEF TypeOK, ParentType
<1>3. /\ worker' \in [Workers -> WorkerType] /\ SameWorkers
      /\ \A w \in Slots : Live(w)' => worker'[w].signalled
  BY <1>1, SignalTells
<1>4. llm' \in [Workers -> CallType(Files)] /\ CallsInv'
  BY <1>1, CallsLost DEF TypeOK
<1>5. TypeOK'
  BY <1>1, <1>2, <1>3, <1>4 DEF TypeOK
<1>6. InHand'
  BY <1>3 DEF InHand, SameWorkers
<1> QED BY <1>1, <1>2, <1>3, <1>4, <1>5, <1>6

(* The other ends of the build                                             *)
Leaves ==
  \/ \E w \in Slots : Collect(w) /\ ~SegmentOk(w)
  \/ Escalate \/ Merge

LEMMA LeavesTells ==
  ASSUME TypeOK, CallsInv, InHand, Leaves
  PROVE  TypeOK' /\ CallsInv' /\ InHand' /\ NoStrays' /\ parent'.at = "gone" /\ SameWorkers
         /\ UNCHANGED <<required, disk>>
<1>1. PICK code \in Codes : Exit(code) /\ UNCHANGED <<required, unreadable, disk, faults>>
  BY DEF Leaves, Collect, Escalate, Merge, Codes
<1> QED BY <1>1, ExitTells

-----------------------------------------------------------------------------
(* The types, and the calls with them.                                     *)

LEMMA InitFits == Init => TypeOK /\ CallsInv /\ InHand /\ NoStrays
<1> SUFFICES ASSUME Init PROVE TypeOK /\ CallsInv /\ InHand /\ NoStrays
  OBVIOUS
<1>1. llm \in [Workers -> CallType(Files)] /\ CallsInv
  BY NoCallOK DEF Init, CallsInv
<1>2. required \in BOOLEAN /\ unreadable \subseteq Files /\ faults \in 0 .. MaxFaults
  <2>1. unreadable = {} \/ \E f \in MayVanish : unreadable = {f}
    BY DEF Init
  <2>2. unreadable \subseteq Files
    BY <2>1, MappingBounds
  <2>3. required \in BOOLEAN /\ faults = 0
    BY DEF Init
  <2> QED BY <2>2, <2>3, MappingBounds
<1>3. disk \in [Batches -> Artifacts]
  <2> DEFINE nothing == [b \in Batches |-> "none"]
  <2>1. nothing \in [Batches -> Artifacts]
    BY DEF Artifacts
  <2>2. disk = nothing \/ \E left \in MayBeLeft : disk = [nothing EXCEPT ![left[1]] = left[2]]
    BY DEF Init
  <2> HIDE DEF nothing
  <2>3. \A left \in MayBeLeft : left[2] \in Artifacts
    BY MappingBounds
  <2> QED BY <2>1, <2>2, <2>3
<1>4. parent \in ParentType /\ parent.at = "starting"
  BY DEF Init, ParentType, Codes
<1>5. [b \in Batches |-> b] \in Seq(Batches)
  <2>1. Batches = 1 .. Len(FilesOf) /\ Len(FilesOf) \in Nat
    BY BatchesOfFiles DEF Batches
  <2> DEFINE n == Len(FilesOf)
  <2> HIDE DEF n
  <2>2. [b \in 1 .. n |-> b] \in Seq(1 .. n)
    BY <2>1, ListIsSeq DEF n
  <2> QED BY <2>1, <2>2 DEF n
<1>6. \A w \in Workers : worker[w] \in WorkerType /\ worker[w].at \in {"none", "running"}
  <2> DEFINE all == [b \in Batches |-> b]
             orphan == [NoWorker EXCEPT !.at = "running", !.todo = all]
  <2>1. NoWorker \in WorkerType /\ NoWorker.at = "none"
    BY DEF NoWorker, WorkerType, Artifacts, Marked, Codes
  <2>2. all \in Seq(Batches)
    BY <1>5
  <2> HIDE DEF all
  <2>3. orphan \in WorkerType /\ orphan.at = "running"
    BY <2>1, <2>2 DEF WorkerType
  <2>4. worker = [w \in Workers |-> IF w = 0 /\ Orphan THEN orphan ELSE NoWorker]
    BY DEF Init, all
  <2> HIDE DEF orphan
  <2> QED BY <2>1, <2>3, <2>4
<1>7. worker \in [Workers -> WorkerType]
  BY <1>6 DEF Init
<1> QED BY <1>1, <1>2, <1>3, <1>4, <1>6, <1>7 DEF TypeOK, InHand, NoStrays

(* Every step is one of these.                                             *)
LEMMA StepsOfMapping ==
  ASSUME Next
  PROVE  \/ Schedule \/ Interrupt \/ Leaves
         \/ \E w \in Slots : Collect(w) /\ SegmentOk(w)
         \/ \E w \in Workers : Work(w) \/ Break(w)
         \/ UNCHANGED vars
BY Zenon DEF Next, Parent, Leaves, Over

LEMMA NextFits ==
  ASSUME TypeOK, CallsInv, InHand, [Next]_vars
  PROVE  TypeOK' /\ CallsInv' /\ InHand'
<1>1. ASSUME UNCHANGED vars PROVE TypeOK' /\ CallsInv' /\ InHand'
  <2>1. llm' = llm /\ required' = required
    BY <1>1 DEF vars
  <2>2. CallsInv'
    BY <2>1, NoOther DEF TypeOK
  <2> QED BY <1>1, <2>2 DEF vars, TypeOK, InHand
<1>2. ASSUME Next PROVE TypeOK' /\ CallsInv' /\ InHand'
  <2>1. ASSUME Schedule PROVE TypeOK' /\ CallsInv' /\ InHand'
    BY <2>1, ScheduleStarts, ScheduleSkips
  <2> QED BY <1>1, <1>2, <2>1, StepsOfMapping, InterruptTells, LeavesTells, CollectSees, WorkAlone
<1> QED BY <1>1, <1>2

(* The state of the mapper, of its workers and of their calls to the       *)
(* provider stays within its types, and each call keeps the accounts of    *)
(* its files.                                                              *)
THEOREM TypeCorrect == Spec => [](TypeOK /\ CallsInv /\ InHand)
<1> DEFINE Inv == TypeOK /\ CallsInv /\ InHand
<1>1. Init => Inv
  BY InitFits
<1>2. Inv /\ [Next]_vars => Inv'
  BY NextFits
<1> HIDE DEF Inv
<1>3. Spec => []Inv
  BY <1>1, <1>2, PTL DEF Spec
<1> QED BY <1>3 DEF Inv

(* A build that has ended has told all of its workers to end, however many *)
(* it started and whichever way it ended: process.exit runs onExit of the  *)
(* reaper, and a worker that is told stays told.                           *)
THEOREM NoStraysLeft == Spec => []NoStrays
<1> DEFINE Inv == TypeOK /\ CallsInv /\ InHand
<1>1. Inv /\ NoStrays /\ [Next]_vars => NoStrays'
  <2> SUFFICES ASSUME Inv, NoStrays, [Next]_vars PROVE NoStrays'
    OBVIOUS
  <2>1. CASE UNCHANGED vars
    BY <2>1 DEF vars, NoStrays, Live
  <2>2. ASSUME NEW w \in Workers, Work(w) \/ Break(w) PROVE NoStrays'
    <3>1. Alone(w)
      BY <2>2, WorkAlone
    <3>2. \A v \in Slots : v \in Workers
      BY WorkersAreSlots DEF Slots
    <3> QED BY <3>1, <3>2 DEF Alone, NoStrays, Live
  <2>3. ASSUME Schedule PROVE NoStrays'
    BY <2>3, ScheduleStarts, ScheduleSkips DEF NoStrays
  <2>4. ASSUME NEW w \in Slots, Collect(w), SegmentOk(w) PROVE NoStrays'
    <3>1. parent'.at # "gone"
      BY <2>4, CollectSees
    <3> QED BY <3>1 DEF NoStrays
  <2>5. ASSUME Interrupt PROVE NoStrays'
    BY <2>5, InterruptTells DEF NoStrays
  <2>6. ASSUME Leaves PROVE NoStrays'
    BY <2>6, LeavesTells
  <2> QED BY <2>1, <2>2, <2>3, <2>4, <2>5, <2>6, StepsOfMapping
<1>2. Init => NoStrays
  BY InitFits
<1>3. Spec => []Inv
  BY TypeCorrect
<1> HIDE DEF Inv
<1> QED BY <1>1, <1>2, <1>3, PTL DEF Spec

(* When a call returns, its threads have nothing left, and every file of   *)
(* it has its text or was counted as failed or skipped.                    *)
LEMMA DoneIsCounted ==
  ASSUME NEW Names, NEW c \in CallType(Names), CallOK(c), c.end = "done"
  PROVE  /\ Cardinality(c.texts) \in Nat
         /\ Cardinality(c.texts) + c.failed + c.skipped = Len(c.files)
<1>1. /\ CallInv(c, Threads) /\ c.tasks = <<>>
      /\ \A t \in Threads : c.thread[t].at = "out"
  BY DEF CallOK
<1>2. Untaken(c) = {}
  BY <1>1 DEF Untaken
<1>3. \A t \in Threads : Held(c, t) = {}
  <2>1. Range(<<>>) = {}
    BY DEF Range
  <2>2. \A t \in Threads : c.thread[t].task = <<>>
    BY <1>1 DEF CallInv, ThreadCounts
  <2> QED BY <2>1, <2>2 DEF Held
<1>4. Unsettled(c, Threads) = {}
  BY <1>2, <1>3 DEF Unsettled
<1>5. Cardinality(Unsettled(c, Threads)) = 0
  BY <1>4, FS_EmptySet
<1>6. Cardinality(c.texts) \in Nat
  BY <1>1, FS_CardinalityType DEF CallInv, Accounts
<1>7. c.failed \in Nat /\ c.skipped \in Nat
  BY DEF CallType
<1> QED BY <1>1, <1>5, <1>6, <1>7 DEF CallInv, Accounts

(* As long as no answer names a file twice, the report of a call adds up:  *)
(* analyzed, failed and skipped are the files of the batch, each counted   *)
(* once, for every number of files, threads and models, whatever fails,    *)
(* falls back, cools down or trips the breaker.                            *)
THEOREM CallsAreCounted ==
  ASSUME Repeats = FALSE
  PROVE  Spec => []CallsAddUp
<1> DEFINE Inv == TypeOK /\ CallsInv /\ InHand
<1>1. Inv => CallsAddUp
  <2> SUFFICES ASSUME Inv, NEW w \in Workers, llm[w].end = "done"
               PROVE  /\ Cardinality(llm[w].texts) = llm[w].analyzed
                      /\ llm[w].analyzed + llm[w].failed + llm[w].skipped = Len(llm[w].files)
                      /\ llm[w].skipped > 0 => llm[w].tripped
    BY DEF CallsAddUp
  <2> DEFINE c == llm[w]
  <2>1. c \in CallType(Files) /\ CallOK(c)
    BY DEF TypeOK, CallsInv
  <2> HIDE DEF c
  <2>2. c.end = "done"
    BY DEF c
  <2>3. c.analyzed = Cardinality(c.texts) /\ (c.skipped > 0 => c.tripped)
    BY <2>1, <2>2 DEF CallOK, CallInv, Accounts
  <2>4. Cardinality(c.texts) + c.failed + c.skipped = Len(c.files)
    BY <2>1, <2>2, DoneIsCounted
  <2> QED BY <2>3, <2>4 DEF c
<1>2. Spec => []Inv
  BY TypeCorrect
<1> HIDE DEF Inv
<1> QED BY <1>1, <1>2, PTL

-----------------------------------------------------------------------------
(* What is merged is whole.                                                *)

LEMMA InitWhole ==
  ASSUME Orphan = FALSE, Init
  PROVE  SegmentsApart /\ Covered /\ MadeWithTexts
<1>1. \A w \in Workers : worker[w] = NoWorker
  BY DEF Init
<1>2. 0 \in Workers /\ Slots \subseteq Workers
  BY WorkersAreSlots, MappingBounds DEF Slots
<1>3. parent.at = "starting" /\ parent.waits = {}
  BY DEF Init
<1>4. Range(<<>>) = {}
  BY DEF Range
<1>5. SegmentsApart
  BY <1>1, <1>2, <1>3, <1>4 DEF SegmentsApart, NoWorker, Live
<1>6. ASSUME NEW b \in Batches, disk[b] # "none" PROVE <<b, disk[b]>> \in MayBeLeft
  <2> DEFINE nothing == [c \in Batches |-> "none"]
  <2>1. disk = nothing \/ \E left \in MayBeLeft : disk = [nothing EXCEPT ![left[1]] = left[2]]
    BY DEF Init
  <2>2. PICK left \in MayBeLeft : disk = [nothing EXCEPT ![left[1]] = left[2]]
    BY <1>6, <2>1
  <2>3. left[1] \in Batches /\ left = <<left[1], left[2]>>
    BY MappingBounds
  <2>4. b = left[1] /\ disk[b] = left[2]
    BY <1>6, <2>2, <2>3
  <2> QED BY <2>3, <2>4
<1>7. MadeWithTexts
  BY <1>1, <1>6 DEF MadeWithTexts, NoWorker
<1> QED BY <1>3, <1>5, <1>7 DEF Covered

LEMMA AloneApart ==
  ASSUME TypeOK, SegmentsApart, Covered, NEW w \in Workers, Alone(w)
  PROVE  SegmentsApart' /\ Covered'
<1>1. 0 \in Workers /\ Slots \subseteq Workers /\ (w # 0 => w \in Slots)
  BY WorkersAreSlots, MappingBounds DEF Slots
<1>2. \A v \in Workers : worker'[v].segment = worker[v].segment /\ (Live(v)' => Live(v))
  BY DEF Alone, Live
<1>3. \A v \in Workers : Range(worker'[v].todo) \subseteq Range(worker'[v].segment)
  BY DEF Alone, SegmentsApart
<1>4. SegmentsApart'
  BY <1>1, <1>2, <1>3 DEF Alone, SegmentsApart
<1>5. Covered'
  <2> SUFFICES ASSUME parent.at \in {"mapping", "merging"}, NEW b \in Batches,
                      ~batchOutputIsValid(b)'
               PROVE  \E v \in parent.waits : b \in Range(worker[v].segment)
    <3>1. parent' = parent
      BY DEF Alone
    <3>2. parent.waits \subseteq Workers
      BY <1>1 DEF TypeOK, ParentType
    <3> QED BY <1>2, <3>1, <3>2 DEF Covered
  <2>1. CASE disk'[b] = disk[b]
    BY <2>1 DEF Covered, batchOutputIsValid
  <2>2. CASE disk'[b] # disk[b]
    <3>1. b \in Range(worker[w].segment) /\ Live(w)
      BY <2>2 DEF Alone, SegmentsApart
    <3>2. w \in parent.waits
      BY <1>1, <3>1 DEF SegmentsApart
    <3> QED BY <3>1, <3>2
  <2> QED BY <2>1, <2>2
<1> QED BY <1>4, <1>5

(* An artifact that is made is torn, or made of texts for all files.       *)
LEMMA WorkTexts ==
  ASSUME TypeOK, CallsInv, InHand, MadeWithTexts, NEW w \in Workers, Work(w) \/ Break(w)
  PROVE  MadeWithTexts'
<1> SUFFICES ASSUME LlmAnalysis, required'
             PROVE  /\ \A b \in Batches : disk'[b] \in {"none", "torn", "enriched"}
                                            \/ <<b, disk'[b]>> \in MayBeLeft
                    /\ \A v \in Workers : worker'[v].at \in {"analysing", "writing"} =>
                                            worker'[v].kind = "enriched"
  BY DEF MadeWithTexts
<1>1. Alone(w) /\ worker[w] \in WorkerType /\ worker \in [Workers -> WorkerType]
      /\ disk \in [Batches -> Artifacts]
  BY WorkAlone DEF TypeOK
<1>2. /\ required /\ (\A v \in Workers \ {w} : worker'[v] = worker[v])
      /\ \A b \in Batches : disk[b] \in {"none", "torn", "enriched"} \/ <<b, disk[b]>> \in MayBeLeft
      /\ \A v \in Workers : worker[v].at \in {"analysing", "writing"} => worker[v].kind = "enriched"
  BY <1>1 DEF Alone, MadeWithTexts
<1> DEFINE Next0 == /\ worker'[w].at \in {"analysing", "writing"} => worker'[w].kind = "enriched"
                    /\ \A b \in Batches : disk'[b] \in {disk[b], "torn", "enriched"}
<1>3. ASSUME Begin(w) PROVE Next0
  BY <1>1, <1>3 DEF Begin, Move, WorkerType
<1>4. ASSUME Ask(w) PROVE Next0
  BY <1>2, <1>4 DEF Ask, own
<1>5. ASSUME Asked(w) PROVE Next0
  <2> DEFINE c == llm[w]
             n == Cardinality(c.texts)
             kind == IF n = Len(c.files) THEN "enriched" ELSE IF n > 0 THEN "partial" ELSE "hollow"
  <2>1. /\ c.end = "done" /\ disk' = disk
        /\ worker' = [worker EXCEPT ![w] = [worker[w] EXCEPT !.at = "analysing", !.kind = kind]]
    BY <1>5, Zenon DEF Asked, Move
  <2>2. c \in CallType(Files) /\ CallOK(c)
    BY DEF TypeOK, CallsInv
  <2> HIDE DEF c
  <2>3. c.failed = 0 /\ c.skipped = 0
    BY <1>2, <2>1, <2>2 DEF CallOK, Strict
  <2>4. n = Len(c.files)
    BY <2>1, <2>2, <2>3, DoneIsCounted
  <2>5. kind = "enriched"
    BY <2>4
  <2> HIDE DEF kind
  <2>6. worker'[w].kind = "enriched"
    BY <1>1, <2>1, <2>5 DEF WorkerType
  <2> QED BY <2>1, <2>6
<1>6. ASSUME NEW code, Move(w, Gone(w, code)), disk' = disk PROVE Next0
  BY <1>1, <1>6 DEF Move, Gone, WorkerType
<1>7. ASSUME Analyse(w) PROVE Next0
  <2>1. worker[w].kind = "enriched" /\ worker[w].at = "analysing"
    BY <1>2, <1>7 DEF Analyse
  <2>2. disk' = disk \/ disk' = [disk EXCEPT ![Batch(w)] = "torn"]
    BY <1>7 DEF Analyse
  <2>3. \/ worker' = [worker EXCEPT ![w] = [worker[w] EXCEPT !.at = "running", !.todo = Tail(@), !.kind = "plain"]]
        \/ worker' = [worker EXCEPT ![w] = [worker[w] EXCEPT !.at = "writing"]]
    BY <1>7, Zenon DEF Analyse, Move
  <2>4. worker'[w].at \in {"analysing", "writing"} => worker'[w].kind = "enriched"
    BY <1>1, <2>1, <2>3, ZenonT(40) DEF WorkerType
  <2>5. \A b \in Batches : disk'[b] \in {disk[b], "torn", "enriched"}
    BY <1>1, <2>2
  <2> QED BY <2>4, <2>5
<1>8. ASSUME Written(w) PROVE Next0
  <2>1. /\ worker[w].kind = "enriched" /\ disk' = [disk EXCEPT ![Batch(w)] = worker[w].kind]
        /\ worker' = [worker EXCEPT ![w] = [worker[w] EXCEPT !.at = "running", !.todo = Tail(@), !.kind = "plain"]]
    BY <1>2, <1>8 DEF Written, Move
  <2>2. worker'[w].at = "running"
    BY <1>1, <2>1 DEF WorkerType
  <2>3. \A b \in Batches : disk'[b] \in {disk[b], "torn", "enriched"}
    BY <1>1, <2>1
  <2> QED BY <2>2, <2>3
<1> HIDE DEF Next0
<1>9. AskThrew(w) \/ Finish(w) \/ Break(w) \/ Die(w) => Next0
  BY <1>6 DEF AskThrew, Finish, Break, Die
<1>10. Next0
  BY <1>3, <1>4, <1>5, <1>7, <1>8, <1>9, Zenon DEF Work
<1>11. ASSUME NEW b \in Batches
       PROVE  disk'[b] \in {"none", "torn", "enriched"} \/ <<b, disk'[b]>> \in MayBeLeft
  <2>1. disk'[b] \in {disk[b], "torn", "enriched"}
    BY <1>10 DEF Next0
  <2> QED BY <1>2, <2>1
<1>12. ASSUME NEW v \in Workers, worker'[v].at \in {"analysing", "writing"}
       PROVE  worker'[v].kind = "enriched"
  BY <1>2, <1>10, <1>12 DEF Next0
<1> QED BY <1>11, <1>12

(* A step of the build leaves the artifacts and the workers' kinds alone.  *)
LEMMA SameTexts ==
  ASSUME MadeWithTexts, SameWorkers, UNCHANGED <<required, disk>>
  PROVE  MadeWithTexts'
BY DEF MadeWithTexts, SameWorkers

LEMMA ScheduleWhole ==
  ASSUME TypeOK, CallsInv, InHand, SegmentsApart, MadeWithTexts, Schedule
  PROVE  SegmentsApart' /\ Covered' /\ MadeWithTexts'
<1>1. /\ parent.at = "starting" /\ disk' = disk /\ required' = required
      /\ \A w \in Workers : worker[w].segment = <<>>
      /\ 0 \in Workers /\ Slots \subseteq Workers /\ 0 \notin Slots
      /\ \A w \in Workers : ~Live(w)
      /\ Range(<<>>) = {}
  <2>1. 0 \in Workers /\ Slots \subseteq Workers /\ 0 \notin Slots
        /\ \A w \in Workers : w = 0 \/ w \in Slots
    BY WorkersAreSlots, MappingBounds DEF Slots
  <2>2. parent.at = "starting" /\ disk' = disk /\ required' = required
    BY DEF Schedule
  <2>3. Range(<<>>) = {}
    BY DEF Range
  <2> QED BY <2>1, <2>2, <2>3 DEF SegmentsApart
<1>2. CASE Missing = <<>>
  <2>1. parent'.at = "merging" /\ worker' = worker
    BY <1>2, ScheduleSkips
  <2>2. parent'.waits = {}
    <3>1. parent'.waits = parent.waits
      BY <1>2, ScheduleSkips
    <3> QED BY <1>1, <3>1 DEF SegmentsApart
  <2>3. SegmentsApart'
    BY <1>1, <2>1, <2>2 DEF SegmentsApart, Live
  <2>4. \A b \in Batches : batchOutputIsValid(b)
    <3>1. Range(Missing) = {b \in Batches : ~batchOutputIsValid(b)}
      BY MissingBatches
    <3> HIDE DEF Missing
    <3>2. Range(Missing) = {}
      BY <1>1, <1>2
    <3> QED BY <3>1, <3>2
  <2>5. Covered'
    BY <1>1, <2>4 DEF Covered, batchOutputIsValid
  <2>6. MadeWithTexts'
    BY <1>1, <2>1, SameTexts DEF SameWorkers
  <2> QED BY <2>3, <2>5, <2>6
<1>3. CASE Missing # <<>>
  <2>1. /\ DOMAIN Segments \subseteq Slots
        /\ UNION {Range(Segments[w]) : w \in DOMAIN Segments} = {b \in Batches : ~batchOutputIsValid(b)}
        /\ \A v, w \in DOMAIN Segments : v # w => Range(Segments[v]) \cap Range(Segments[w]) = {}
    BY <1>3, SegmentsPartition
  <2>2. /\ parent'.at = "mapping" /\ parent'.waits = DOMAIN Segments
        /\ \A w \in Workers :
             IF w \in DOMAIN Segments
             THEN /\ worker'[w].segment = Segments[w] /\ worker'[w].todo = Segments[w]
                  /\ worker'[w].at = "running"
             ELSE worker'[w] = worker[w]
    BY <1>3, ScheduleStarts
  <2> DEFINE pieces == Segments
  <2> HIDE DEF pieces
  <2>3. \A v, w \in Workers :
          v # w => Range(worker'[v].segment) \cap Range(worker'[w].segment) = {}
    BY <1>1, <2>1, <2>2
  <2>4. \A w \in Workers : Range(worker'[w].todo) \subseteq Range(worker'[w].segment)
    BY <1>1, <2>2 DEF SegmentsApart
  <2>5. ~Live(0)' /\ \A w \in Slots : Live(w)' => w \in parent'.waits
    BY <1>1, <2>1, <2>2 DEF Live
  <2>6. SegmentsApart'
    BY <2>2, <2>3, <2>4, <2>5 DEF SegmentsApart
  <2>7. Covered'
    <3> SUFFICES ASSUME NEW b \in Batches, ~batchOutputIsValid(b)
                 PROVE  \E w \in parent'.waits : b \in Range(worker'[w].segment)
      BY <1>1 DEF Covered, batchOutputIsValid
    <3>1. PICK w \in DOMAIN Segments : b \in Range(Segments[w])
      BY <2>1
    <3> QED BY <1>1, <2>1, <2>2, <3>1
  <2>8. MadeWithTexts'
    <3>1. \A w \in Workers : worker'[w].at \in {"analysing", "writing"} =>
                               worker'[w] = worker[w]
      BY <2>2
    <3> QED BY <1>1, <3>1 DEF MadeWithTexts
  <2> QED BY <2>6, <2>7, <2>8
<1> QED BY <1>2, <1>3

LEMMA CollectWhole ==
  ASSUME TypeOK, CallsInv, InHand, SegmentsApart, Covered, MadeWithTexts,
         NEW w \in Slots, Collect(w), SegmentOk(w)
  PROVE  SegmentsApart' /\ Covered' /\ MadeWithTexts'
<1>1. /\ worker' = worker /\ parent.at = "mapping" /\ w \in parent.waits
      /\ parent'.waits = parent.waits \ {w}
      /\ parent'.at = IF parent.waits = {w} THEN "merging" ELSE "mapping"
  BY CollectSees
<1>2. ~Live(w) /\ disk' = disk /\ required' = required
  BY DEF Collect, Live
<1>3. SegmentsApart'
  BY <1>1, <1>2 DEF SegmentsApart, Live
<1>4. Covered'
  <2> SUFFICES ASSUME NEW b \in Batches, ~batchOutputIsValid(b)
               PROVE  \E v \in parent'.waits : b \in Range(worker[v].segment)
    BY <1>1, <1>2 DEF Covered, batchOutputIsValid
  <2>1. PICK v \in parent.waits : b \in Range(worker[v].segment)
    BY <1>1 DEF Covered
  <2>2. b \notin Range(worker[w].segment)
    BY DEF SegmentOk, Range
  <2> QED BY <1>1, <2>1, <2>2
<1>5. MadeWithTexts'
  BY <1>1, <1>2, SameTexts DEF SameWorkers
<1> QED BY <1>3, <1>4, <1>5

LEMMA InterruptWhole ==
  ASSUME TypeOK, CallsInv, InHand, SegmentsApart, Covered, MadeWithTexts, Interrupt
  PROVE  SegmentsApart' /\ Covered' /\ MadeWithTexts'
<1>1. /\ SameWorkers /\ disk' = disk /\ parent'.at = parent.at /\ parent'.waits = parent.waits
      /\ required' = required /\ 0 \in Workers /\ Slots \subseteq Workers
      /\ parent.waits \subseteq Workers
  BY InterruptTells, WorkersAreSlots, MappingBounds DEF Interrupt, Slots, TypeOK, ParentType
<1>2. SegmentsApart'
  BY <1>1 DEF SegmentsApart, SameWorkers, Live
<1>3. Covered'
  BY <1>1 DEF Covered, SameWorkers, batchOutputIsValid
<1> QED BY <1>1, <1>2, <1>3, SameTexts

LEMMA LeavesWhole ==
  ASSUME TypeOK, CallsInv, InHand, SegmentsApart, MadeWithTexts, Leaves
  PROVE  SegmentsApart' /\ Covered' /\ MadeWithTexts'
<1>1. SameWorkers /\ parent'.at = "gone" /\ UNCHANGED <<required, disk>>
      /\ 0 \in Workers /\ Slots \subseteq Workers
  BY LeavesTells, WorkersAreSlots, MappingBounds DEF Slots
<1>2. SegmentsApart'
  BY <1>1 DEF SegmentsApart, SameWorkers, Live
<1>3. Covered'
  BY <1>1 DEF Covered
<1> QED BY <1>1, <1>2, <1>3, SameTexts

LEMMA WholeKept ==
  ASSUME TypeOK, CallsInv, InHand, SegmentsApart, Covered, MadeWithTexts, [Next]_vars
  PROVE  SegmentsApart' /\ Covered' /\ MadeWithTexts'
<1>1. CASE UNCHANGED vars
  BY <1>1 DEF vars, SegmentsApart, Covered, MadeWithTexts, Live, batchOutputIsValid
<1>2. CASE Next
  <2>1. ASSUME NEW w \in Workers, Work(w) \/ Break(w)
        PROVE  SegmentsApart' /\ Covered' /\ MadeWithTexts'
    BY <2>1, WorkAlone, AloneApart, WorkTexts
  <2> QED BY <1>1, <1>2, <2>1, StepsOfMapping, ScheduleWhole, CollectWhole, InterruptWhole,
             LeavesWhole
<1> QED BY <1>1, <1>2

(* Unless a worker of an earlier build still runs, what the build merges   *)
(* is whole: when the last segment is found good every batch has a valid   *)
(* artifact, for every number of batches and mappers and however the       *)
(* workers fail or are told to end; and with --llm-required every file of  *)
(* an artifact that this build made has its text.                          *)
THEOREM MergeIsSound ==
  ASSUME Orphan = FALSE
  PROVE  Spec => []MergedIsWhole
<1> DEFINE Inv == TypeOK /\ CallsInv /\ InHand
           Whole == SegmentsApart /\ Covered /\ MadeWithTexts
<1>1. Init => Whole
  BY InitWhole
<1>2. Inv /\ Whole /\ [Next]_vars => Whole'
  BY WholeKept
<1>3. Spec => []Inv
  BY TypeCorrect
<1>4. Inv /\ Whole => MergedIsWhole
  <2> SUFFICES ASSUME Inv, Whole, parent.at = "merging", NEW b \in Batches
               PROVE  /\ disk[b] \in Marked \/ (disk[b] = "plain" /\ ~LlmAnalysis)
                      /\ LlmAnalysis /\ required /\ <<b, disk[b]>> \notin MayBeLeft =>
                           disk[b] = "enriched"
    BY DEF MergedIsWhole
  <2>1. batchOutputIsValid(b)
    BY DEF Covered, SegmentsApart
  <2>2. disk[b] \in Marked \/ (disk[b] = "plain" /\ ~LlmAnalysis)
    BY <2>1 DEF batchOutputIsValid
  <2>3. LlmAnalysis /\ required /\ <<b, disk[b]>> \notin MayBeLeft => disk[b] = "enriched"
    BY <2>2 DEF MadeWithTexts, Marked
  <2> QED BY <2>2, <2>3
<1> HIDE DEF Inv, Whole
<1> QED BY <1>1, <1>2, <1>3, <1>4, PTL DEF Spec
=============================================================================
