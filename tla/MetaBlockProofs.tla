---------------------------- MODULE MetaBlockProofs ----------------------------
(***************************************************************************)
(* What MetaBlock guarantees for every number of threads, whatever they    *)
(* ask for, and whatever the limits of segments, growth and failures.      *)
(***************************************************************************)
EXTENDS MetaBlock, FiniteSetTheorems, SequenceTheorems,
        WellFoundedInduction, TLAPS

(* Lengths                                                                 *)

LEMMA LeastNumber ==
  ASSUME NEW T, T \subseteq Nat, T # {}
  PROVE  /\ Min(T) \in T
         /\ \A n \in T : Min(T) <= n
<1>1. IsWellFoundedOn(OpToRel(<, Nat), Nat)
  BY NatLessThanWellFounded
<1>2. PICK m \in T : \A n \in T : ~ (<<n, m>> \in OpToRel(<, Nat))
  BY <1>1, WFMin, Zenon
<1>3. \A n \in T : m <= n
  <2> TAKE n \in T
  <2>1. ~ (<<n, m>> \in OpToRel(<, Nat))
    BY <1>2, Zenon
  <2>2. m \in Nat /\ n \in Nat
    OBVIOUS
  <2>3. n < m => <<n, m>> \in OpToRel(<, Nat)
    BY <2>2 DEF OpToRel
  <2>4. ~ (n < m)
    BY <2>1, <2>3, Zenon
  <2> QED
    BY <2>2, <2>4
<1>4. \E k \in T : \A n \in T : k <= n
  BY <1>3, Zenon
<1> QED
  BY <1>4 DEF Min

LEMMA PowerGrows ==
  ASSUME NEW j \in Nat, NEW k \in Nat, j <= k
  PROVE  /\ 2^j \in Nat \ {0}
         /\ 2^k \in Nat \ {0}
         /\ 2^j <= 2^k
<1> DEFINE J == 1..j
           K == 1..k
<1>1. /\ IsFiniteSet(J) /\ Cardinality(J) = j
      /\ IsFiniteSet(K) /\ Cardinality(K) = k
  BY FS_Interval
<1>2. /\ IsFiniteSet(SUBSET J) /\ Cardinality(SUBSET J) = 2^j
      /\ IsFiniteSet(SUBSET K) /\ Cardinality(SUBSET K) = 2^k
  BY <1>1, FS_SUBSET
<1>3. Cardinality(SUBSET J) \in Nat /\ Cardinality(SUBSET K) \in Nat
  BY <1>2, FS_CardinalityType
<1>4. {} \in SUBSET J /\ {} \in SUBSET K /\ SUBSET J \subseteq SUBSET K
  <2>1. J \subseteq K
    OBVIOUS
  <2> HIDE DEF J, K
  <2> QED
    BY <2>1
<1>5. Cardinality(SUBSET J) <= Cardinality(SUBSET K)
  BY <1>2, <1>4, FS_Subset
<1>6. Cardinality(SUBSET J) # 0 /\ Cardinality(SUBSET K) # 0
  BY <1>2, <1>4, FS_EmptySet
<1> QED
  BY <1>2, <1>3, <1>5, <1>6

SegmentLengths == {p \in Powers : MinSegment <= p /\ p <= MaxSegment}

LEMMA Limits ==
  /\ Powers \subseteq Nat \ {0}
  /\ MinSegment \in SegmentLengths /\ MaxSegment \in SegmentLengths
  /\ SegmentLengths \subseteq Nat \ {0}
<1>1. \A k \in 0..MaxLog : 2^k \in Nat \ {0}
  BY PowerGrows, SizesAssumption
<1>2. MinSegment <= MaxSegment /\ MinSegment \in Nat /\ MaxSegment \in Nat
  BY PowerGrows, SizesAssumption DEF MinSegment, MaxSegment
<1>3. MinSegment \in Powers /\ MaxSegment \in Powers
  BY SizesAssumption DEF Powers, MinSegment, MaxSegment
<1> QED
  BY <1>1, <1>2, <1>3 DEF Powers, SegmentLengths

LEMMA BitCeilIs ==
  ASSUME NEW n \in Nat, n <= MaxSegment
  PROVE  BitCeil(n) \in Powers /\ n <= BitCeil(n) /\ BitCeil(n) <= MaxSegment
<1> DEFINE T == {p \in Powers : p >= n}
<1>1. MaxSegment \in T /\ T \subseteq Nat
  BY Limits DEF SegmentLengths
<1>2. Min(T) \in T /\ Min(T) <= MaxSegment
  BY <1>1, LeastNumber
<1> QED
  BY <1>2, Limits DEF BitCeil

LEMMA Larger ==
  ASSUME NEW m \in Nat, NEW n \in Nat
  PROVE  /\ Max({m, n}) \in {m, n} /\ m <= Max({m, n}) /\ n <= Max({m, n})
         /\ Min({m, n}) \in {m, n}
<1>1. \E x \in {m, n} : \A y \in {m, n} : x >= y
  OBVIOUS
<1>2. \E x \in {m, n} : \A y \in {m, n} : x =< y
  OBVIOUS
<1> QED
  BY <1>1, <1>2 DEF Max, Min

\* A segment holds what it is obtained for, unless no segment can.
LEMMA SegmentLengthIs ==
  ASSUME NEW n \in Nat
  PROVE  /\ SegmentLength(n) \in SegmentLengths
         /\ n <= MaxSegment => n <= SegmentLength(n)
         /\ n > MaxSegment => SegmentLength(n) = MaxSegment
<1>1. CASE n > MaxSegment
  BY <1>1, Limits DEF SegmentLength, SegmentLengths
<1>2. CASE n <= MaxSegment
  <2>1. BitCeil(n) \in Powers /\ n <= BitCeil(n) /\ BitCeil(n) <= MaxSegment
    BY <1>2, BitCeilIs
  <2>2. MinSegment \in Nat /\ BitCeil(n) \in Nat /\ MaxSegment \in Nat
    BY <2>1, Limits DEF SegmentLengths
  <2>3. SegmentLength(n) = Max({MinSegment, BitCeil(n)})
    BY <1>2, <2>2 DEF SegmentLength
  <2>4. /\ Max({MinSegment, BitCeil(n)}) \in {MinSegment, BitCeil(n)}
        /\ MinSegment <= Max({MinSegment, BitCeil(n)})
        /\ BitCeil(n) <= Max({MinSegment, BitCeil(n)})
    BY <2>2, Larger
  <2> QED
    BY <1>2, <2>1, <2>2, <2>3, <2>4, Limits DEF SegmentLengths
<1> QED
  BY <1>1, <1>2, Limits DEF SegmentLengths

\* Rounding up to the alignment gives at least what was asked for.
LEMMA SafeTargetIs ==
  ASSUME NEW n \in Requests
  PROVE  n \in Nat \ {0} /\ SafeTarget(n) \in Nat \ {0} /\ n <= SafeTarget(n)
<1>1. n \in Nat \ {0} /\ Alignment \in Nat \ {0}
  BY SizesAssumption
<1> DEFINE x == n + Alignment - 1
           q == x \div Alignment
<1>2. x \in Nat
  BY <1>1
<1>3. q \in Nat /\ x = Alignment * q + (x % Alignment)
      /\ x % Alignment \in Nat /\ x % Alignment < Alignment
  BY <1>1, <1>2
<1>4. Alignment * q = q * Alignment /\ Alignment * q \in Nat
  BY <1>1, <1>3
<1> QED
  BY <1>1, <1>3, <1>4 DEF SafeTarget

LEMMA ExtendBytesIs ==
  ASSUME NEW m \in Nat, NEW size \in Nat
  PROVE  ExtendBytes(m, size) \in Nat /\ m <= ExtendBytes(m, size)
<1>1. Min({size, ExtensionUpperBound}) \in Nat
  BY Larger, SizesAssumption
<1> QED
  BY <1>1, Larger DEF ExtendBytes

-----------------------------------------------------------------------------
(* The index                                                               *)

Entry(S) == [key : Nat, at : S]

\* What an insertion and a removal do to the entries, wherever they are.
Adds(new, old, e) ==
  /\ \A i \in 1..Len(old) : \E j \in 1..Len(new) : new[j] = old[i]
  /\ \A j \in 1..Len(new) : new[j] = e \/ \E i \in 1..Len(old) : new[j] = old[i]
  /\ \E j \in 1..Len(new) : new[j] = e

Drops(new, old, k) ==
  /\ \A i \in 1..Len(old) : i # k => \E j \in 1..Len(new) : new[j] = old[i]
  /\ \A j \in 1..Len(new) : \E i \in 1..Len(old) : i # k /\ new[j] = old[i]

\* An entry goes in at place k, and those from there on move up by one.
Shifted(new, old, k, e) ==
  /\ new[k] = e
  /\ \A j \in 1..Len(old) : /\ j < k => new[j] = old[j]
                            /\ j >= k => new[j + 1] = old[j]

LEMMA Inserting ==
  ASSUME NEW S, NEW seq \in Seq(Entry(S)), NEW key \in Nat, NEW b \in S
  PROVE  /\ Insert(seq, key, b) \in Seq(Entry(S))
         /\ Len(Insert(seq, key, b)) = Len(seq) + 1
         /\ \E k \in 1..(Len(seq) + 1) :
              Shifted(Insert(seq, key, b), seq, k, [key |-> key, at |-> b])
<1> DEFINE J == {j \in DOMAIN seq : seq[j].key <= key}
           e == [key |-> key, at |-> b]
<1>1. J \subseteq 1..Len(seq) /\ Len(seq) \in Nat
  OBVIOUS
<1>2. IsFiniteSet(1..Len(seq)) /\ Cardinality(1..Len(seq)) = Len(seq)
  <2>1. PICK n \in Nat : n = Len(seq)
    BY <1>1
  <2>2. IsFiniteSet(1..n) /\ Cardinality(1..n) = n
    BY FS_Interval
  <2> QED
    BY <2>1, <2>2
<1>3. IsFiniteSet(J) /\ Cardinality(J) <= Len(seq)
  BY <1>1, <1>2, FS_Subset
<1>4. Cardinality(J) \in Nat
  BY <1>3, FS_CardinalityType
<1>5. PICK k \in 1..(Len(seq) + 1) : k = Cardinality(J) + 1
  <2> HIDE DEF J
  <2>1. Cardinality(J) + 1 \in 1..(Len(seq) + 1)
    BY <1>1, <1>3, <1>4
  <2> QED
    BY <2>1
<1>6. Insert(seq, key, b) = InsertAt(seq, k, e)
  BY <1>5 DEF Insert
<1>7. e \in Entry(S)
  BY DEF Entry
<1> HIDE DEF J, e
<1>8. Insert(seq, key, b) = SubSeq(seq, 1, k - 1) \o <<e>> \o SubSeq(seq, k, Len(seq))
  BY <1>6 DEF InsertAt
<1> DEFINE head == SubSeq(seq, 1, k - 1)
           tail == SubSeq(seq, k, Len(seq))
<1>9. /\ head \in Seq(Entry(S)) /\ Len(head) = k - 1
      /\ \A j \in 1..(k - 1) : head[j] = seq[j]
  BY <1>1
<1>10. /\ tail \in Seq(Entry(S)) /\ Len(tail) = Len(seq) - k + 1
       /\ \A j \in 1..(Len(seq) - k + 1) : tail[j] = seq[j + k - 1]
  BY <1>1
<1> HIDE DEF head, tail
<1>11. /\ head \o <<e>> \in Seq(Entry(S)) /\ Len(head \o <<e>>) = k
       /\ (head \o <<e>>)[k] = e
       /\ \A j \in 1..(k - 1) : (head \o <<e>>)[j] = seq[j]
  BY <1>7, <1>9
<1> DEFINE front == head \o <<e>>
<1> HIDE DEF front
<1>12. /\ front \in Seq(Entry(S)) /\ Len(front) = k /\ front[k] = e
       /\ \A j \in 1..(k - 1) : front[j] = seq[j]
  BY <1>11 DEF front
<1>13. /\ front \o tail \in Seq(Entry(S)) /\ Len(front \o tail) = Len(seq) + 1
       /\ \A j \in 1..k : (front \o tail)[j] = front[j]
       /\ \A j \in (k + 1)..(Len(seq) + 1) : (front \o tail)[j] = tail[j - k]
  <2>1. /\ front \o tail \in Seq(Entry(S)) /\ Len(front \o tail) = Len(front) + Len(tail)
        /\ \A j \in 1..Len(front) + Len(tail) :
             (front \o tail)[j] = IF j <= Len(front) THEN front[j] ELSE tail[j - Len(front)]
    BY <1>10, <1>12, ConcatProperties, Zenon
  <2> QED
    BY <2>1, <1>1, <1>10, <1>12
<1>14. Insert(seq, key, b) = front \o tail
  BY <1>8 DEF front, head, tail
<1>15. (front \o tail)[k] = e
  BY <1>12, <1>13
<1>16. ASSUME NEW j \in 1..Len(seq)
       PROVE  /\ j < k => (front \o tail)[j] = seq[j]
              /\ j >= k => (front \o tail)[j + 1] = seq[j]
  <2>1. CASE j < k
    BY <2>1, <1>12, <1>13
  <2>2. CASE j >= k
    <3>0. j + 1 \in (k + 1)..(Len(seq) + 1)
      BY <2>2, <1>1
    <3>1. (front \o tail)[j + 1] = tail[(j + 1) - k]
      BY <3>0, <1>13
    <3>2. tail[(j + 1) - k] = seq[((j + 1) - k) + k - 1]
      BY <2>2, <1>1, <1>10
    <3>3. ((j + 1) - k) + k - 1 = j
      OBVIOUS
    <3> QED
      BY <2>2, <3>1, <3>2, <3>3
  <2> QED
    BY <2>1, <2>2
<1>17. e = [key |-> key, at |-> b]
  BY DEF e
<1>18. Shifted(front \o tail, seq, k, e)
  BY <1>15, <1>16 DEF Shifted
<1> QED
  BY <1>13, <1>14, <1>17, <1>18

LEMMA InsertAdds ==
  ASSUME NEW S, NEW seq \in Seq(Entry(S)), NEW key \in Nat, NEW b \in S
  PROVE  /\ Insert(seq, key, b) \in Seq(Entry(S))
         /\ Adds(Insert(seq, key, b), seq, [key |-> key, at |-> b])
<1>0. /\ Insert(seq, key, b) \in Seq(Entry(S))
      /\ Len(Insert(seq, key, b)) = Len(seq) + 1
      /\ \E k \in 1..(Len(seq) + 1) :
           Shifted(Insert(seq, key, b), seq, k, [key |-> key, at |-> b])
  BY Inserting
<1> DEFINE s == Insert(seq, key, b)
           e == [key |-> key, at |-> b]
<1>1. s \in Seq(Entry(S)) /\ Len(s) = Len(seq) + 1
  BY <1>0, Zenon
<1>2. PICK k \in 1..(Len(seq) + 1) :
         /\ s[k] = e
         /\ \A j \in 1..Len(seq) : /\ j < k => s[j] = seq[j]
                                   /\ j >= k => s[j + 1] = seq[j]
  BY <1>0, Zenon DEF Shifted
<1> HIDE DEF s, e
<1>3. Len(seq) \in Nat
  OBVIOUS
<1>4. \A i \in 1..Len(seq) : \E j \in 1..Len(s) : s[j] = seq[i]
  <2> TAKE i \in 1..Len(seq)
  <2>1. CASE i < k
    BY <2>1, <1>1, <1>2, <1>3
  <2>2. CASE i >= k
    BY <2>2, <1>1, <1>2, <1>3
  <2> QED
    BY <2>1, <2>2
<1>5. \A j \in 1..Len(s) : s[j] = e \/ \E i \in 1..Len(seq) : s[j] = seq[i]
  <2> TAKE j \in 1..Len(s)
  <2>1. CASE j < k
    BY <2>1, <1>1, <1>2, <1>3
  <2>2. CASE j > k
    <3>1. j - 1 \in 1..Len(seq) /\ j - 1 >= k
      BY <2>2, <1>1, <1>3
    <3>2. s[(j - 1) + 1] = seq[j - 1] /\ (j - 1) + 1 = j
      BY <3>1, <1>2
    <3> QED
      BY <3>1, <3>2
  <2> QED
    BY <2>1, <2>2, <1>2
<1>6. \E j \in 1..Len(s) : s[j] = e
  BY <1>1, <1>2
<1>7. Adds(s, seq, e)
  BY <1>4, <1>5, <1>6 DEF Adds
<1> QED
  BY <1>1, <1>7 DEF s, e

LEMMA Removing ==
  ASSUME NEW S, NEW seq \in Seq(S), NEW k \in 1..Len(seq)
  PROVE  /\ RemoveAt(seq, k) \in Seq(S)
         /\ Len(RemoveAt(seq, k)) = Len(seq) - 1
         /\ \A j \in 1..(Len(seq) - 1) :
              RemoveAt(seq, k)[j] = IF j < k THEN seq[j] ELSE seq[j + 1]
<1> DEFINE head == SubSeq(seq, 1, k - 1)
           tail == SubSeq(seq, k + 1, Len(seq))
<1>1. Len(seq) \in Nat
  OBVIOUS
<1>2. /\ head \in Seq(S) /\ Len(head) = k - 1
      /\ \A j \in 1..(k - 1) : head[j] = seq[j]
  BY <1>1
<1>3. /\ tail \in Seq(S) /\ Len(tail) = Len(seq) - k
      /\ \A j \in 1..(Len(seq) - k) : tail[j] = seq[j + k]
  BY <1>1
<1> HIDE DEF head, tail
<1>4. /\ head \o tail \in Seq(S) /\ Len(head \o tail) = Len(seq) - 1
      /\ \A j \in 1..(k - 1) : (head \o tail)[j] = head[j]
      /\ \A j \in k..(Len(seq) - 1) : (head \o tail)[j] = tail[j - (k - 1)]
  <2>1. /\ head \o tail \in Seq(S) /\ Len(head \o tail) = Len(head) + Len(tail)
        /\ \A j \in 1..Len(head) + Len(tail) :
             (head \o tail)[j] = IF j <= Len(head) THEN head[j] ELSE tail[j - Len(head)]
    BY <1>2, <1>3, ConcatProperties, Zenon
  <2> QED
    BY <2>1, <1>1, <1>2, <1>3
<1>5. RemoveAt(seq, k) = head \o tail
  BY DEF RemoveAt, head, tail
<1>6. ASSUME NEW j \in 1..(Len(seq) - 1)
      PROVE  (head \o tail)[j] = IF j < k THEN seq[j] ELSE seq[j + 1]
  <2>1. CASE j < k
    BY <2>1, <1>2, <1>4
  <2>2. CASE j >= k
    <3>1. (head \o tail)[j] = tail[j - (k - 1)]
      BY <2>2, <1>1, <1>4
    <3>2. tail[j - (k - 1)] = seq[(j - (k - 1)) + k]
      BY <2>2, <1>1, <1>3
    <3>3. (j - (k - 1)) + k = j + 1 /\ ~(j < k)
      BY <2>2
    <3> QED
      BY <3>1, <3>2, <3>3
  <2>3. j < k \/ j >= k
    BY <1>1
  <2> QED
    BY <2>1, <2>2, <2>3, Zenon
<1> QED
  BY <1>4, <1>5, <1>6

LEMMA RemoveDrops ==
  ASSUME NEW S, NEW seq \in Seq(S), NEW k \in 1..Len(seq)
  PROVE  RemoveAt(seq, k) \in Seq(S) /\ Drops(RemoveAt(seq, k), seq, k)
<1> DEFINE s == RemoveAt(seq, k)
<1>0. Len(seq) \in Nat
  OBVIOUS
<1>1. /\ s \in Seq(S) /\ Len(s) = Len(seq) - 1
      /\ \A j \in 1..(Len(seq) - 1) : s[j] = IF j < k THEN seq[j] ELSE seq[j + 1]
  BY Removing, Zenon
<1> HIDE DEF s
<1>2. ASSUME NEW i \in 1..Len(seq), i # k PROVE \E j \in 1..Len(s) : s[j] = seq[i]
  <2>1. CASE i < k
    BY <2>1, <1>0, <1>1
  <2>2. CASE i > k
    <3>1. i - 1 \in 1..Len(s) /\ ~(i - 1 < k) /\ (i - 1) + 1 = i
      BY <2>2, <1>0, <1>1
    <3>2. s[i - 1] = seq[i]
      BY <3>1, <1>0, <1>1
    <3> QED
      BY <3>1, <3>2
  <2> QED
    BY <1>2, <2>1, <2>2, <1>0
<1>3. ASSUME NEW j \in 1..Len(s) PROVE \E i \in 1..Len(seq) : i # k /\ s[j] = seq[i]
  <2>1. CASE j < k
    BY <2>1, <1>0, <1>1
  <2>2. CASE j >= k
    BY <2>2, <1>0, <1>1
  <2> QED
    BY <2>1, <2>2, <1>0, <1>1
<1>4. Drops(s, seq, k)
  BY <1>2, <1>3 DEF Drops
<1> QED
  BY <1>0, <1>1, <1>4 DEF s

\* The entry that a search takes is the first that is long enough.
LEMMA LowerBoundIs ==
  ASSUME NEW m, Fitting(m) # {}, Len(index) \in Nat, DOMAIN index = 1..Len(index)
  PROVE  LowerBound(m) \in 1..Len(index) /\ LowerBound(m) \in Fitting(m)
<1>1. Fitting(m) \subseteq Nat /\ Fitting(m) \subseteq 1..Len(index)
  BY DEF Fitting
<1> QED
  BY <1>1, LeastNumber DEF LowerBound

-----------------------------------------------------------------------------
(* The list: blocks are pieces of their segments, no two overlap, each is    *)
(* followed by the one that begins where it ends, and what a block points    *)
(* back to points to it.                                                     *)

Inside ==
  /\ Len(segment) \in 1..MaxSegments
  /\ \A b \in DOMAIN block : Seg(b) <= Len(segment)
  /\ \A b \in Valid : block[b].len > 0 /\ End(b) <= segment[Seg(b)]
  /\ \A b \in Valid : block[b].header <=> Off(b) = 0

Apart == \A b, c \in Valid :
           b # c /\ Seg(b) = Seg(c) => End(b) <= Off(c) \/ End(c) <= Off(b)

Follows(n, b) ==
  /\ block[n].header => Seg(n) = Seg(b) + 1 /\ End(b) = segment[Seg(b)]
  /\ ~block[n].header => Seg(n) = Seg(b) /\ Off(n) = End(b)

Chained ==
  /\ First \in Valid /\ last \in Valid /\ block[last].nex = Null
  /\ Seg(last) = Len(segment) /\ End(last) = segment[Len(segment)]
  /\ \A b \in Valid : b # last => block[b].nex \in Valid /\ Follows(block[b].nex, b)

Returning ==
  /\ block[First].pre = Null
  /\ \A b \in Valid : block[b].pre # Null
       => block[b].pre \in Valid /\ block[block[b].pre].nex = b

Layout == Inside /\ Apart /\ Chained /\ Returning

LEMMA BlockFields ==
  ASSUME TypeOK, NEW b \in DOMAIN block
  PROVE  /\ b \in Objects /\ b # Null
         /\ Seg(b) \in 1..MaxSegments /\ Off(b) \in 0..MaxSegment
         /\ block[b] \in BlockType
         /\ block[b].header \in BOOLEAN /\ block[b].free \in BOOLEAN
         /\ block[b].valid \in BOOLEAN /\ block[b].len \in Nat
         /\ block[b].nex \in Objects \cup {Null} /\ block[b].pre \in Objects \cup {Null}
         /\ End(b) \in Nat /\ End(b) = Off(b) + block[b].len
<1>1. b \in Objects /\ block[b] \in BlockType
  BY DEF TypeOK
<1>2. Seg(b) \in 1..MaxSegments /\ Off(b) \in 0..MaxSegment /\ b # Null
  BY <1>1, SizesAssumption DEF Objects, Seg, Off, Null
<1>3. MaxSegment \in Nat
  BY Limits DEF SegmentLengths
<1> QED
  BY <1>1, <1>2, <1>3 DEF BlockType, End

LEMMA ValidIs == \A b \in Valid : b \in DOMAIN block /\ block[b].valid
BY DEF Valid

LEMMA SegmentFields ==
  ASSUME TypeOK, NEW i \in 1..Len(segment)
  PROVE  segment[i] \in Nat \ {0} /\ segment[i] <= MaxSegment /\ segment[i] \in SegmentLengths
BY Limits DEF TypeOK, SegmentLengths

\* A block is followed by none that begins before its end, and not by First.
LEMMA NextIs ==
  ASSUME TypeOK, Layout, NEW b \in Valid, block[b].nex # Null
  PROVE  /\ b # last /\ block[b].nex \in Valid /\ block[b].nex # b
         /\ block[b].nex # First /\ Follows(block[b].nex, b)
<1>1. b # last /\ block[b].nex \in Valid /\ Follows(block[b].nex, b) /\ First \in Valid
  BY DEF Layout, Chained
<1> DEFINE n == block[b].nex
<1>2. b \in DOMAIN block /\ n \in DOMAIN block
  BY <1>1, ValidIs
<1> HIDE DEF n
<1>3. /\ Seg(b) \in Nat \ {0} /\ Off(b) \in Nat /\ Off(n) \in Nat /\ End(b) = Off(b) + block[b].len
      /\ block[b].len \in Nat /\ block[n].header \in BOOLEAN /\ Seg(n) \in Nat
  BY <1>2, BlockFields
<1>4. block[b].len > 0
  BY DEF Layout, Inside
<1>5. n # b
  BY <1>1, <1>3, <1>4 DEF Follows, n
<1>6. n # First
  <2>1. Seg(First) = 1 /\ Off(First) = 0
    BY DEF First, Seg, Off
  <2>2. block[First].header <=> Off(First) = 0
    BY <1>1 DEF Layout, Inside
  <2> QED
    BY <1>1, <1>3, <1>4, <2>1, <2>2 DEF Follows, n
<1> QED
  BY <1>1, <1>5, <1>6 DEF n

LEMMA NextOnce ==
  ASSUME TypeOK, Layout, NEW b \in Valid, NEW c \in Valid,
         block[b].nex # Null, block[b].nex = block[c].nex
  PROVE  b = c
<1> DEFINE n == block[b].nex
<1>1. n \in Valid /\ Follows(n, b) /\ Follows(n, c)
  BY NextIs
<1> HIDE DEF n
<1>2. b \in DOMAIN block /\ c \in DOMAIN block /\ n \in DOMAIN block
  BY <1>1, ValidIs
<1>3. /\ Seg(b) \in Nat /\ Seg(c) \in Nat /\ Seg(n) \in Nat /\ Off(b) \in Nat /\ Off(c) \in Nat
      /\ block[b].len \in Nat /\ block[c].len \in Nat /\ block[n].header \in BOOLEAN
      /\ End(b) = Off(b) + block[b].len /\ End(c) = Off(c) + block[c].len
  BY <1>2, BlockFields
<1>4. Seg(b) = Seg(c) /\ End(b) = End(c)
  <2>1. CASE block[n].header
    <3>1. Seg(n) = Seg(b) + 1 /\ Seg(n) = Seg(c) + 1
      BY <2>1, <1>1 DEF Follows
    <3>2. End(b) = segment[Seg(b)] /\ End(c) = segment[Seg(c)]
      BY <2>1, <1>1 DEF Follows
    <3>3. Seg(b) = Seg(c)
      BY <3>1, <1>3
    <3> QED
      BY <3>2, <3>3
  <2>2. CASE ~block[n].header
    BY <2>2, <1>1 DEF Follows
  <2> QED
    BY <2>1, <2>2
<1>5. block[b].len > 0 /\ block[c].len > 0
  BY DEF Layout, Inside
<1>6. b # c => End(b) <= Off(c) \/ End(c) <= Off(b)
  BY <1>4 DEF Layout, Apart
<1> QED
  BY <1>3, <1>4, <1>5, <1>6

\* What a step leaves alone when it keeps the list.
Steady(b) ==
  /\ block'[b].valid = block[b].valid /\ block'[b].header = block[b].header
  /\ block'[b].len = block[b].len /\ block'[b].nex = block[b].nex
  /\ block'[b].pre \in {block[b].pre, Null}

LEMMA LayoutStays ==
  ASSUME TypeOK, Layout, segment' = segment, last' = last,
         Valid \subseteq DOMAIN block', DOMAIN block' \subseteq DOMAIN block,
         \A b \in DOMAIN block' : Steady(b)
  PROVE  Valid' = Valid /\ Layout'
<1>1. Valid' = Valid
  BY DEF Valid, Steady
<1>2. \A b \in Valid : Steady(b) /\ End(b)' = End(b)
  BY DEF Steady, End
<1>3. First \in Valid /\ last \in Valid
  BY DEF Layout, Chained
<1>4. Inside'
  BY <1>1, <1>2 DEF Layout, Inside, Steady
<1>5. Apart'
  BY <1>1, <1>2 DEF Layout, Apart
<1>6. Chained'
  <2>1. \A b \in Valid : b # last => block[b].nex \in Valid /\ Follows(block[b].nex, b)
    BY DEF Layout, Chained
  <2>2. \A b, n \in Valid : Follows(n, b) => Follows(n, b)'
    BY <1>2 DEF Steady, Follows
  <2>3. \A b \in Valid : block'[b].nex = block[b].nex
    BY <1>2 DEF Steady
  <2>4. \A b \in Valid : b # last => block'[b].nex \in Valid /\ Follows(block[b].nex, b)'
    BY <2>1, <2>2, <2>3
  <2> QED
    BY <2>3, <2>4, <1>1, <1>2, <1>3 DEF Layout, Chained
<1>7. Returning'
  <2>1. block'[First].pre = Null
    BY <1>2, <1>3 DEF Layout, Returning, Steady
  <2>2. ASSUME NEW b \in Valid, block'[b].pre # Null
        PROVE  block'[b].pre \in Valid /\ block'[block'[b].pre].nex = b
    <3>1. block'[b].pre = block[b].pre
      BY <2>2, <1>2 DEF Steady
    <3>2. block[b].pre \in Valid /\ block[block[b].pre].nex = b
      BY <2>2, <3>1 DEF Layout, Returning
    <3> QED
      BY <3>1, <3>2, <1>2 DEF Steady
  <2> QED
    BY <2>1, <2>2, <1>1 DEF Returning
<1> QED
  BY <1>1, <1>4, <1>5, <1>6, <1>7 DEF Layout

-----------------------------------------------------------------------------
(* The objects: those that exist are in the list or in the index, so there   *)
(* is a number for one more at any address that no block of the list has.    *)

Kept == \A b \in DOMAIN block : block[b].valid \/ \E k \in 1..Len(index) : index[k].at = b

LEMMA NewIs ==
  ASSUME TypeOK, Kept, NEW s \in 1..MaxSegments, NEW o \in 0..MaxSegment,
         \A b \in Valid : ~(Seg(b) = s /\ Off(b) = o)
  PROVE  /\ New(s, o) \in Objects /\ New(s, o) \notin DOMAIN block
         /\ Seg(New(s, o)) = s /\ Off(New(s, o)) = o
<1>1. PICK n \in Nat : n = Len(index)
  BY DEF TypeOK
<1> DEFINE Name(i) == <<s, o, i>>
           Names == {Name(i) : i \in 1..(n + 1)}
<1>2. \E b \in Names : b \notin DOMAIN block
  <2> SUFFICES ASSUME \A i \in 1..(n + 1) : Name(i) \in DOMAIN block PROVE FALSE
    OBVIOUS
  <2>1. ASSUME NEW i \in 1..(n + 1) PROVE \E k \in 1..n : index[k].at = Name(i)
    <3>1. Name(i) \in DOMAIN block /\ Seg(Name(i)) = s /\ Off(Name(i)) = o
      BY DEF Seg, Off
    <3>2. ~block[Name(i)].valid
      BY <3>1 DEF Valid
    <3> QED
      BY <3>1, <3>2, <1>1 DEF Kept
  <2> DEFINE f == [i \in 1..(n + 1) |-> CHOOSE k \in 1..n : index[k].at = Name(i)]
  <2>2. \A i \in 1..(n + 1) : f[i] \in 1..n /\ index[f[i]].at = Name(i)
    BY <2>1
  <2>3. f \in [1..(n + 1) -> 1..n]
    BY <2>2
  <2>4. /\ IsFiniteSet(1..n) /\ Cardinality(1..n) = n
        /\ IsFiniteSet(1..(n + 1)) /\ Cardinality(1..(n + 1)) = n + 1
    BY FS_Interval
  <2> HIDE DEF f
  <2>5. ASSUME NEW i \in 1..(n + 1), NEW j \in 1..(n + 1), f[i] = f[j] PROVE i = j
    <3>1. Name(i) = Name(j)
      BY <2>2, <2>5
    <3> QED
      BY <3>1
  <2>6. f \in Injection(1..(n + 1), 1..n)
    BY <2>3, <2>5 DEF Injection, IsInjective
  <2>7. n + 1 <= n
    BY <2>4, <2>6, FS_Injection
  <2> QED
    BY <2>7
<1>3. New(s, o) \in Names /\ New(s, o) \notin DOMAIN block
  BY <1>1, <1>2 DEF New
<1>4. PICK i \in 1..(n + 1) : New(s, o) = Name(i)
  BY <1>3
<1> QED
  BY <1>3, <1>4 DEF Objects, Seg, Off

-----------------------------------------------------------------------------
(* A block is split                                                          *)

Rest(b, w) == [block[b] EXCEPT !.header = FALSE, !.len = @ - w, !.pre = b]
Cut(b, w, new) ==
  Adding(new, Rest(b, w), [block EXCEPT ![b].len = w, ![b].free = FALSE, ![b].nex = new])
Splits(b, w, new) ==
  block' = IF Rest(b, w).nex = Null THEN Cut(b, w, new)
           ELSE [Cut(b, w, new) EXCEPT ![Rest(b, w).nex].pre = new]

\* What that does to each object.
SplitFields(b, w, new) ==
  /\ DOMAIN block' = DOMAIN block \cup {new}
  /\ \A x \in DOMAIN block' : block'[x] \in BlockType
  /\ ~block'[new].header /\ block'[new].free = block[b].free
  /\ block'[new].valid = block[b].valid /\ block'[new].len = block[b].len - w
  /\ block'[new].nex = block[b].nex /\ block'[new].pre = b
  /\ \A x \in DOMAIN block :
       /\ block'[x].header = block[x].header /\ block'[x].valid = block[x].valid
       /\ x # b => block'[x].free = block[x].free /\ block'[x].len = block[x].len
                   /\ block'[x].nex = block[x].nex
       /\ x = block[b].nex => block'[x].pre = new
       /\ x # block[b].nex => block'[x].pre = block[x].pre
  /\ ~block'[b].free /\ block'[b].len = w /\ block'[b].nex = new

LEMMA SplitIs ==
  ASSUME TypeOK, NEW b \in DOMAIN block, NEW w \in Nat, w < block[b].len,
         NEW new, new \in Objects, new \notin DOMAIN block, Splits(b, w, new),
         block[b].nex # Null => block[b].nex \in DOMAIN block /\ block[b].nex # b
  PROVE  SplitFields(b, w, new)
<1> DEFINE r == Rest(b, w)
           o == [block[b] EXCEPT !.len = w, !.free = FALSE, !.nex = new]
           A == [block EXCEPT ![b].len = w, ![b].free = FALSE, ![b].nex = new]
           C == Cut(b, w, new)
<1>1. block[b] \in BlockType /\ b \in Objects
  BY BlockFields
<1>2. /\ r \in BlockType /\ ~r.header /\ r.free = block[b].free /\ r.valid = block[b].valid
      /\ r.len = block[b].len - w /\ r.nex = block[b].nex /\ r.pre = b
  <2> DEFINE len == block[b].len - w
  <2>1. len \in Nat
    BY BlockFields
  <2>2. Rest(b, w) = [block[b] EXCEPT !.header = FALSE, !.len = len, !.pre = b]
    BY <1>1 DEF Rest, BlockType
  <2> HIDE DEF len
  <2>3. /\ r \in BlockType /\ ~r.header /\ r.free = block[b].free /\ r.valid = block[b].valid
        /\ r.len = len /\ r.nex = block[b].nex /\ r.pre = b
    BY <1>1, <2>1, <2>2 DEF BlockType
  <2> QED
    BY <2>3 DEF len
<1>3. /\ o \in BlockType /\ o.header = block[b].header /\ ~o.free /\ o.valid = block[b].valid
      /\ o.len = w /\ o.nex = new /\ o.pre = block[b].pre
  BY <1>1 DEF BlockType
<1>4. /\ DOMAIN A = DOMAIN block /\ A[b] = o
      /\ \A x \in DOMAIN block : x # b => A[x] = block[x]
  BY <1>1
<1>5. C = Adding(new, r, A)
  BY DEF Cut
<1> HIDE DEF r, o, A, C
<1>6. /\ DOMAIN C = DOMAIN block \cup {new} /\ C[new] = r /\ C[b] = o
      /\ \A x \in DOMAIN block : x # b => C[x] = block[x]
  BY <1>4, <1>5 DEF Adding
<1>7. \A x \in DOMAIN block : block[x] \in BlockType
  BY DEF TypeOK
<1>8. block' = IF r.nex = Null THEN C ELSE [C EXCEPT ![r.nex].pre = new]
  BY DEF Splits, r, C
<1>9. CASE block[b].nex = Null
  <2>1. block' = C
    BY <1>2, <1>8, <1>9
  <2>2. \A x \in DOMAIN block : x # block[b].nex
    BY <1>9, BlockFields
  <2> QED
    BY <2>1, <2>2, <1>2, <1>3, <1>6, <1>7 DEF SplitFields
<1>10. CASE block[b].nex # Null
  <2> DEFINE n == block[b].nex
             m == [C[n] EXCEPT !.pre = new]
  <2>1. n \in DOMAIN block /\ n # b /\ n # new
    BY <1>10
  <2> HIDE DEF n
  <2>2. C[n] = block[n] /\ C[n] \in BlockType
    BY <2>1, <1>6, <1>7
  <2>3. /\ m \in BlockType /\ m.header = block[n].header /\ m.free = block[n].free
        /\ m.valid = block[n].valid /\ m.len = block[n].len /\ m.nex = block[n].nex
        /\ m.pre = new
    BY <2>2 DEF BlockType
  <2>4. r.nex = n
    BY <1>2 DEF n
  <2>5. block' = [C EXCEPT ![n].pre = new]
    BY <1>8, <1>10, <2>4 DEF n
  <2>6. DOMAIN block' = DOMAIN C /\ block'[n] = m /\ \A x \in DOMAIN C : x # n => block'[x] = C[x]
    BY <2>1, <2>5, <1>6
  <2> HIDE DEF m
  <2>7. block'[new] = r /\ block'[b] = o
    BY <2>1, <2>6, <1>6
  <2>8. \A x \in DOMAIN block : x # b /\ x # n => block'[x] = block[x]
    BY <2>6, <1>6
  <2> QED
    BY <2>1, <2>3, <2>6, <2>7, <2>8, <1>2, <1>3, <1>6, <1>7 DEF n, SplitFields
<1> QED
  BY <1>9, <1>10

\* The two pieces tile the block, and take its place in the list.
LEMMA SplitLayout ==
  ASSUME TypeOK, Layout, NEW b \in Valid, NEW w \in Nat \ {0}, w < block[b].len,
         NEW new, new \in Objects, new \notin DOMAIN block, Splits(b, w, new),
         Seg(new) = Seg(b), Off(new) = Off(b) + w,
         segment' = segment, last' = IF b = last THEN new ELSE last
  PROVE  /\ Valid' = Valid \cup {new} /\ Layout'
         /\ last' \in DOMAIN block'
         /\ SplitFields(b, w, new)
<1>0. b \in DOMAIN block /\ block[b].valid
  BY ValidIs
<1>1. block[b].nex # Null => /\ block[b].nex \in DOMAIN block /\ block[b].nex # b
                             /\ b # last /\ block[b].nex # First
  BY NextIs, ValidIs
<1>2. SplitFields(b, w, new)
  BY <1>0, <1>1, SplitIs
<1>3. Valid' = Valid \cup {new}
  BY <1>0, <1>2 DEF Valid, SplitFields
<1>4. /\ \A x \in Valid : /\ Off(x) \in Nat /\ Seg(x) \in Nat /\ block[x].len \in Nat
                          /\ block[x].len > 0 /\ End(x) = Off(x) + block[x].len
                          /\ block[x].header \in BOOLEAN
      /\ Off(new) \in Nat /\ new # Null /\ b # Null
  <2>1. \A x \in Valid : block[x].len > 0
    BY DEF Layout, Inside
  <2>2. new # Null
    BY SizesAssumption DEF Objects, Null
  <2> QED
    BY <2>1, <2>2, <1>0, ValidIs, BlockFields
<1>5. /\ End(new)' = End(b) /\ End(b)' = Off(new)
      /\ \A x \in Valid : x # b => End(x)' = End(x)
  BY <1>0, <1>2, <1>4, ValidIs DEF End, SplitFields
<1>6. First \in Valid /\ last \in Valid /\ new \notin Valid
  BY ValidIs DEF Layout, Chained
<1>7. Inside'
  <2>1. /\ Len(segment) \in 1..MaxSegments /\ \A x \in DOMAIN block : Seg(x) <= Len(segment)
        /\ \A x \in Valid : End(x) <= segment[Seg(x)]
        /\ \A x \in Valid : block[x].header <=> Off(x) = 0
    BY DEF Layout, Inside
  <2>2. \A x \in DOMAIN block' : Seg(x) <= Len(segment)
    BY <2>1, <1>0, <1>2 DEF SplitFields
  <2>3. \A x \in Valid' : block'[x].len > 0
    BY <1>2, <1>3, <1>4, ValidIs DEF SplitFields
  <2>4. \A x \in Valid' : End(x)' <= segment[Seg(x)]
    <3>0. Seg(b) \in 1..Len(segment)
      BY <2>1, <1>0, BlockFields
    <3>1. segment[Seg(b)] \in Nat /\ Off(new) < End(b) /\ End(b) \in Nat
      BY <3>0, <1>0, <1>4, SegmentFields
    <3>2. End(b) <= segment[Seg(b)]
      BY <2>1
    <3>3. Off(new) <= segment[Seg(b)]
      BY <3>1, <3>2, <1>4
    <3>4. End(b)' <= segment[Seg(b)] /\ End(new)' <= segment[Seg(new)]
      BY <3>2, <3>3, <1>5
    <3> QED
      BY <3>4, <2>1, <1>3, <1>5
  <2>5. \A x \in Valid' : block'[x].header <=> Off(x) = 0
    <3>1. Off(new) # 0
      BY <1>4
    <3>2. ~block'[new].header /\ \A x \in Valid : block'[x].header = block[x].header
      BY <1>2, ValidIs DEF SplitFields
    <3> QED
      BY <3>1, <3>2, <2>1, <1>3
  <2> QED
    BY <2>1, <2>2, <2>3, <2>4, <2>5 DEF Inside
<1>8. Apart'
  <2>1. ASSUME NEW x \in Valid, x # b, Seg(x) = Seg(b)
        PROVE  \/ End(b) <= Off(x) /\ Off(new) <= Off(x)
               \/ End(x) <= Off(b) /\ End(x) <= Off(new)
    <3>1. End(b) <= Off(x) \/ End(x) <= Off(b)
      BY <2>1 DEF Layout, Apart
    <3> QED
      BY <3>1, <1>4
  <2>2. ASSUME NEW x \in Valid, x # b, Seg(x) = Seg(new)
        PROVE  End(x)' <= Off(new) \/ End(new)' <= Off(x)
    BY <2>1, <2>2, <1>5
  <2>3. ASSUME NEW x \in Valid, x # b, Seg(x) = Seg(b)
        PROVE  End(x)' <= Off(b) \/ End(b)' <= Off(x)
    BY <2>1, <2>3, <1>5
  <2>4. ASSUME NEW x \in Valid, NEW y \in Valid, x # b, y # b, x # y, Seg(x) = Seg(y)
        PROVE  End(x)' <= Off(y) \/ End(y)' <= Off(x)
    BY <2>4, <1>5 DEF Layout, Apart
  <2>5. End(b)' <= Off(new)
    BY <1>4, <1>5
  <2> QED
    BY <2>2, <2>3, <2>4, <2>5, <1>3 DEF Apart
<1>9. Chained'
  <2>1. \A x \in Valid : x # last => block[x].nex \in Valid /\ Follows(block[x].nex, x)
    BY DEF Layout, Chained
  <2>2. Follows(new, b)'
    BY <1>2, <1>5 DEF Follows, SplitFields
  <2>3. \A x \in Valid : block'[x].header = block[x].header
    BY <1>2, ValidIs DEF SplitFields
  <2>4. ASSUME NEW n \in Valid, Follows(n, b) PROVE Follows(n, new)'
    BY <2>4, <2>3, <1>5 DEF Follows
  <2>5. ASSUME NEW x \in Valid, x # b, NEW n \in Valid, Follows(n, x) PROVE Follows(n, x)'
    BY <2>5, <2>3, <1>5 DEF Follows
  <2>6. \A x \in Valid : x # b => block'[x].nex = block[x].nex
    BY <1>2, ValidIs DEF SplitFields
  <2>7. block'[b].nex = new /\ block'[new].nex = block[b].nex
    BY <1>2 DEF SplitFields
  <2>8. \A x \in Valid' : x # last' => block'[x].nex \in Valid' /\ Follows(block[x].nex, x)'
    <3> SUFFICES ASSUME NEW x \in Valid', x # last'
                 PROVE  block'[x].nex \in Valid' /\ Follows(block[x].nex, x)'
      OBVIOUS
    <3>1. CASE x = b
      BY <3>1, <2>2, <2>7, <1>3
    <3>2. CASE x = new
      <4>1. b # last
        BY <3>2
      <4>2. PICK n \in Valid : n = block[b].nex /\ Follows(n, b)
        BY <4>1, <2>1
      <4>3. Follows(n, new)' /\ block'[new].nex = n
        BY <4>2, <2>4, <2>7
      <4> QED
        BY <4>3, <3>2, <1>3
    <3>3. CASE x \in Valid /\ x # b
      <4>1. x # last
        BY <3>3
      <4>2. PICK n \in Valid : n = block[x].nex /\ Follows(n, x)
        BY <4>1, <3>3, <2>1
      <4>3. Follows(n, x)' /\ block'[x].nex = n
        BY <4>2, <3>3, <2>5, <2>6
      <4> QED
        BY <4>3, <1>3
    <3> QED
      BY <3>1, <3>2, <3>3, <1>3
  <2>9. /\ block[last].nex = Null /\ Seg(last) = Len(segment)
        /\ End(last) = segment[Len(segment)]
    BY DEF Layout, Chained
  <2>10. /\ last' \in Valid' /\ block'[last'].nex = Null
         /\ Seg(last') = Len(segment)
    <3>1. CASE b = last
      BY <3>1, <2>7, <2>9, <1>3, <1>5
    <3>2. CASE b # last
      BY <3>2, <2>6, <2>9, <1>3, <1>6
    <3> QED
      BY <3>1, <3>2
  <2>11. End(last)' = segment'[Len(segment')] /\ Seg(last)' = Len(segment')
    <3>1. CASE b = last
      BY <3>1, <2>9, <1>5, <1>2 DEF End, SplitFields
    <3>2. CASE b # last
      BY <3>2, <2>9, <1>5, <1>6 DEF End
    <3> QED
      BY <3>1, <3>2
  <2> QED
    BY <2>8, <2>10, <2>11, <1>3, <1>6 DEF Chained
<1>10. Returning'
  <2>1. block'[First].pre = Null
    <3>1. block[First].pre = Null /\ First \in DOMAIN block
      BY <1>6, ValidIs DEF Layout, Returning
    <3>2. First # block[b].nex
      BY <1>1, <3>1, BlockFields
    <3> QED
      BY <3>1, <3>2, <1>2 DEF SplitFields
  <2>2. ASSUME NEW x \in Valid', block'[x].pre # Null
        PROVE  block'[x].pre \in Valid' /\ block'[block'[x].pre].nex = x
    <3>1. CASE x = new
      BY <3>1, <1>2, <1>3 DEF SplitFields
    <3>2. CASE x \in Valid /\ x = block[b].nex
      BY <3>2, <1>2, <1>3, ValidIs DEF SplitFields
    <3>3. CASE x \in Valid /\ x # block[b].nex
      <4>1. block'[x].pre = block[x].pre
        BY <3>3, <1>2, ValidIs DEF SplitFields
      <4>2. block[x].pre \in Valid /\ block[block[x].pre].nex = x
        BY <3>3, <4>1, <2>2 DEF Layout, Returning
      <4>3. block[x].pre # b
        BY <4>2, <3>3
      <4> QED
        BY <4>1, <4>2, <4>3, <1>2, <1>3, ValidIs DEF SplitFields
    <3> QED
      BY <3>1, <3>2, <3>3, <1>3
  <2> QED
    BY <2>1, <2>2 DEF Returning
<1>11. last' \in DOMAIN block'
  BY <1>2, <1>6, ValidIs DEF SplitFields
<1> QED
  BY <1>2, <1>3, <1>7, <1>8, <1>9, <1>10, <1>11 DEF Layout, SplitFields

-----------------------------------------------------------------------------
(* A segment is linked at the end                                            *)

Links(new, bytes) ==
  /\ segment' = Append(segment, SegmentLength(bytes))
  /\ block' = Adding(new, Header(bytes, last), [block EXCEPT ![last].nex = new])
  /\ last' = new

LinkFields(new, bytes) ==
  /\ DOMAIN block' = DOMAIN block \cup {new}
  /\ \A x \in DOMAIN block' : block'[x] \in BlockType
  /\ block'[new].header /\ block'[new].free /\ block'[new].valid
  /\ block'[new].len = SegmentLength(bytes)
  /\ block'[new].nex = Null /\ block'[new].pre = last
  /\ \A x \in DOMAIN block :
       /\ block'[x].header = block[x].header /\ block'[x].valid = block[x].valid
       /\ block'[x].free = block[x].free /\ block'[x].len = block[x].len
       /\ block'[x].pre = block[x].pre
       /\ block'[x].nex = IF x = last THEN new ELSE block[x].nex

LEMMA LinkIs ==
  ASSUME TypeOK, NEW bytes \in Nat, NEW new \in Objects, new \notin DOMAIN block,
         Links(new, bytes)
  PROVE  LinkFields(new, bytes)
<1> DEFINE h == Header(bytes, last)
           o == [block[last] EXCEPT !.nex = new]
           A == [block EXCEPT ![last].nex = new]
<1>1. last \in DOMAIN block /\ last \in Objects /\ block[last] \in BlockType
  BY BlockFields DEF TypeOK
<1>2. SegmentLength(bytes) \in Nat
  BY SegmentLengthIs, Limits
<1>3. /\ h \in BlockType /\ h.header /\ h.free /\ h.valid
      /\ h.len = SegmentLength(bytes) /\ h.nex = Null /\ h.pre = last
  BY <1>1, <1>2 DEF Header, BlockType
<1>4. /\ o \in BlockType /\ o.header = block[last].header /\ o.free = block[last].free
      /\ o.valid = block[last].valid /\ o.len = block[last].len
      /\ o.nex = new /\ o.pre = block[last].pre
  BY <1>1 DEF BlockType
<1>5. /\ DOMAIN A = DOMAIN block /\ A[last] = o
      /\ \A x \in DOMAIN block : x # last => A[x] = block[x]
  BY <1>1
<1>6. block' = Adding(new, h, A)
  BY DEF Links
<1> HIDE DEF h, o, A
<1>7. /\ DOMAIN block' = DOMAIN block \cup {new} /\ block'[new] = h /\ block'[last] = o
      /\ \A x \in DOMAIN block : x # last => block'[x] = block[x]
  BY <1>1, <1>5, <1>6 DEF Adding
<1>8. \A x \in DOMAIN block : block[x] \in BlockType
  BY DEF TypeOK
<1> QED
  BY <1>1, <1>3, <1>4, <1>7, <1>8 DEF LinkFields

LEMMA LinkLayout ==
  ASSUME TypeOK, Layout, NEW bytes \in Nat, NEW new \in Objects, new \notin DOMAIN block,
         Links(new, bytes), Len(segment) + 1 <= MaxSegments,
         Seg(new) = Len(segment) + 1, Off(new) = 0
  PROVE  Valid' = Valid \cup {new} /\ Layout' /\ LinkFields(new, bytes)
<1>1. LinkFields(new, bytes)
  BY LinkIs
<1>2. Valid' = Valid \cup {new}
  BY <1>1 DEF LinkFields, Valid
<1>3. SegmentLength(bytes) \in Nat \ {0}
  BY SegmentLengthIs, Limits
<1>4. /\ Len(segment') = Len(segment) + 1 /\ Len(segment) \in Nat \ {0}
      /\ \A i \in 1..Len(segment) : segment'[i] = segment[i]
      /\ segment'[Len(segment) + 1] = SegmentLength(bytes)
  BY DEF Links, TypeOK, Layout, Inside
<1>5. First \in Valid /\ last \in Valid /\ new \notin Valid /\ last' = new /\ new # Null
  BY SizesAssumption, ValidIs DEF Layout, Chained, Links, Objects, Null
<1>6. \A x \in Valid : /\ x \in DOMAIN block /\ Seg(x) \in 1..Len(segment)
                       /\ End(x)' = End(x) /\ segment'[Seg(x)] = segment[Seg(x)]
  <2> TAKE x \in Valid
  <2>1. x \in DOMAIN block
    BY ValidIs
  <2>2. Seg(x) \in 1..Len(segment)
    BY <2>1, BlockFields DEF Layout, Inside
  <2> QED
    BY <2>1, <2>2, <1>1, <1>4 DEF LinkFields, End
<1>7. End(new)' = SegmentLength(bytes)
  BY <1>1, <1>3 DEF LinkFields, End
<1>8. Inside'
  <2>1. Len(segment') \in 1..MaxSegments
    BY <1>4, SizesAssumption
  <2>2. \A x \in DOMAIN block' : Seg(x) <= Len(segment')
    <3>1. \A x \in DOMAIN block : Seg(x) <= Len(segment) /\ Seg(x) \in Nat
      BY BlockFields DEF Layout, Inside
    <3> QED
      BY <3>1, <1>1, <1>4 DEF LinkFields
  <2>3. \A x \in Valid' : block'[x].len > 0 /\ End(x)' <= segment'[Seg(x)]
    <3>1. \A x \in Valid : block[x].len > 0 /\ End(x) <= segment[Seg(x)]
      BY DEF Layout, Inside
    <3>2. \A x \in Valid : block'[x].len > 0 /\ End(x)' <= segment'[Seg(x)]
      BY <3>1, <1>1, <1>6 DEF LinkFields
    <3>3. block'[new].len > 0 /\ End(new)' <= segment'[Seg(new)]
      BY <1>1, <1>3, <1>4, <1>7 DEF LinkFields
    <3> QED
      BY <3>2, <3>3, <1>2
  <2>4. \A x \in Valid' : block'[x].header <=> Off(x) = 0
    BY <1>1, <1>2, <1>6 DEF LinkFields, Layout, Inside
  <2> QED
    BY <2>1, <2>2, <2>3, <2>4 DEF Inside
<1>9. Apart'
  <2>1. \A x \in Valid : Seg(x) # Seg(new)
    BY <1>4, <1>6
  <2> QED
    BY <2>1, <1>2, <1>6 DEF Layout, Apart
<1>10. Chained'
  <2>1. /\ Seg(last) = Len(segment) /\ End(last) = segment[Len(segment)]
        /\ \A x \in Valid : x # last => block[x].nex \in Valid /\ Follows(block[x].nex, x)
    BY DEF Layout, Chained
  <2>0. PICK l \in Valid : l = last
    BY <1>5
  <2>2. Follows(new, l)'
    <3>1. Seg(new) = Seg(l) + 1 /\ End(l)' = segment'[Seg(l)]
      BY <2>0, <2>1, <1>6
    <3>2. block'[new].header
      BY <1>1 DEF LinkFields
    <3> QED
      BY <3>1, <3>2 DEF Follows
  <2>3. ASSUME NEW x \in Valid, NEW n \in Valid, Follows(n, x) PROVE Follows(n, x)'
    BY <2>3, <1>1, <1>6 DEF Follows, LinkFields
  <2>4. \A x \in Valid' : x # last' => block'[x].nex \in Valid' /\ Follows(block[x].nex, x)'
    <3> SUFFICES ASSUME NEW x \in Valid', x # last'
                 PROVE  block'[x].nex \in Valid' /\ Follows(block[x].nex, x)'
      OBVIOUS
    <3>1. x \in Valid
      BY <1>2, <1>5
    <3>2. CASE x = last
      <4>1. block'[x].nex = new
        BY <3>1, <3>2, <1>1, <1>6 DEF LinkFields
      <4> QED
        BY <4>1, <3>2, <2>0, <2>2, <1>2
    <3>3. CASE x # last
      <4>1. PICK n \in Valid : n = block[x].nex /\ Follows(n, x)
        BY <3>1, <3>3, <2>1
      <4>2. Follows(n, x)'
        BY <4>1, <3>1, <2>3
      <4>3. block'[x].nex = n
        BY <4>1, <3>1, <3>3, <1>1, <1>6 DEF LinkFields
      <4> QED
        BY <4>1, <4>2, <4>3, <1>2
    <3> QED
      BY <3>2, <3>3
  <2>5. Seg(last') = Len(segment') /\ block'[last'].nex = Null
    BY <1>1, <1>4, <1>5 DEF LinkFields
  <2>6. End(last)' = segment'[Len(segment')]
    BY <1>4, <1>5, <1>7 DEF End
  <2> QED
    BY <2>4, <2>5, <2>6, <1>2, <1>5 DEF Chained
<1>11. Returning'
  <2>1. block'[First].pre = Null
    BY <1>1, <1>5, <1>6 DEF LinkFields, Layout, Returning
  <2>2. ASSUME NEW x \in Valid', block'[x].pre # Null
        PROVE  block'[x].pre \in Valid' /\ block'[block'[x].pre].nex = x
    <3>1. CASE x = new
      BY <3>1, <1>1, <1>2, <1>5, <1>6 DEF LinkFields
    <3>2. CASE x \in Valid
      <4>1. block'[x].pre = block[x].pre
        BY <3>2, <1>1, <1>6 DEF LinkFields
      <4>2. block[x].pre \in Valid /\ block[block[x].pre].nex = x
        BY <3>2, <4>1, <2>2 DEF Layout, Returning
      <4>3. block[x].pre # last
        BY <4>2, <3>2, <1>6, BlockFields DEF Layout, Chained
      <4> QED
        BY <4>1, <4>2, <4>3, <1>1, <1>2, <1>6 DEF LinkFields
    <3> QED
      BY <3>1, <3>2, <1>2
  <2> QED
    BY <2>1, <2>2 DEF Returning
<1> QED
  BY <1>1, <1>2, <1>8, <1>9, <1>10, <1>11 DEF Layout

-----------------------------------------------------------------------------
(* A block takes in the next one                                             *)

Absorbed(c, n) == [block EXCEPT ![c].len = @ + block[n].len,
                                ![c].nex = block[n].nex, ![n].valid = FALSE]
Merges(c, n) ==
  /\ block' = Reachable(IF block[n].nex = Null THEN Absorbed(c, n)
                        ELSE [Absorbed(c, n) EXCEPT ![block[n].nex].pre = c], index)
  /\ last' = IF n = last THEN c ELSE last

MergeFields(c, n) ==
  /\ DOMAIN block' \subseteq DOMAIN block
  /\ \A x \in DOMAIN block :
       x \in DOMAIN block' <=> \/ block[x].valid /\ x # n
                               \/ \E k \in DOMAIN index : index[k].at = x
  /\ \A x \in DOMAIN block' :
       /\ block'[x] \in BlockType
       /\ block'[x].header = block[x].header /\ block'[x].free = block[x].free
       /\ x # n => block'[x].valid = block[x].valid
       /\ x # c => block'[x].len = block[x].len /\ block'[x].nex = block[x].nex
       /\ x = block[n].nex => block'[x].pre = c
       /\ x # block[n].nex => block'[x].pre = block[x].pre
  /\ n \in DOMAIN block' => ~block'[n].valid
  /\ c \in DOMAIN block' /\ block'[c].len = block[c].len + block[n].len
  /\ block'[c].nex = block[n].nex

LEMMA MergeIs ==
  ASSUME TypeOK, NEW c \in Valid, NEW n \in Valid, c # n, Merges(c, n),
         block[n].nex # Null => block[n].nex \in DOMAIN block /\ block[n].nex # n
  PROVE  MergeFields(c, n)
<1> DEFINE len == block[c].len + block[n].len
           oc == [block[c] EXCEPT !.len = len, !.nex = block[n].nex]
           on == [block[n] EXCEPT !.valid = FALSE]
           A == Absorbed(c, n)
           n2 == block[n].nex
           B == IF n2 = Null THEN A ELSE [A EXCEPT ![n2].pre = c]
<1>1. /\ c \in DOMAIN block /\ n \in DOMAIN block /\ block[c] \in BlockType /\ block[n] \in BlockType
      /\ c \in Objects /\ n2 \in Objects \cup {Null} /\ len \in Nat
      /\ block[c].valid /\ block[n].valid
  BY BlockFields, ValidIs
<1>2. A = [block EXCEPT ![c] = oc, ![n] = on]
  BY <1>1 DEF Absorbed, BlockType
<1> HIDE DEF len
<1>3. /\ oc \in BlockType /\ oc.header = block[c].header /\ oc.free = block[c].free
      /\ oc.valid = block[c].valid /\ oc.len = len /\ oc.nex = n2 /\ oc.pre = block[c].pre
  BY <1>1 DEF BlockType
<1>4. /\ on \in BlockType /\ on.header = block[n].header /\ on.free = block[n].free
      /\ ~on.valid /\ on.len = block[n].len /\ on.nex = n2 /\ on.pre = block[n].pre
  BY <1>1 DEF BlockType
<1> HIDE DEF oc, on, A
<1>5. /\ DOMAIN A = DOMAIN block /\ A[c] = oc /\ A[n] = on
      /\ \A x \in DOMAIN block : x # c /\ x # n => A[x] = block[x]
  BY <1>1, <1>2
<1>6. \A x \in DOMAIN A :
        /\ A[x] \in BlockType
        /\ A[x].header = block[x].header /\ A[x].free = block[x].free
        /\ x # n => A[x].valid = block[x].valid
        /\ x # c => A[x].len = block[x].len /\ A[x].nex = block[x].nex
        /\ A[x].pre = block[x].pre
  BY <1>1, <1>3, <1>4, <1>5 DEF TypeOK
<1>7. /\ DOMAIN B = DOMAIN block
      /\ \A x \in DOMAIN block :
           /\ B[x] \in BlockType
           /\ B[x].header = A[x].header /\ B[x].free = A[x].free /\ B[x].valid = A[x].valid
           /\ B[x].len = A[x].len /\ B[x].nex = A[x].nex
           /\ x = n2 => B[x].pre = c
           /\ x # n2 => B[x].pre = A[x].pre
  <2>1. CASE n2 = Null
    <3>1. \A x \in DOMAIN block : x # n2
      BY <2>1, BlockFields
    <3> QED
      BY <2>1, <3>1, <1>5, <1>6
  <2>2. CASE n2 # Null
    <3> DEFINE m == [A[n2] EXCEPT !.pre = c]
    <3>1. n2 \in DOMAIN A
      BY <2>2, <1>5
    <3>2. /\ m \in BlockType /\ m.header = A[n2].header /\ m.free = A[n2].free
          /\ m.valid = A[n2].valid /\ m.len = A[n2].len /\ m.nex = A[n2].nex /\ m.pre = c
      <4>1. A[n2] \in BlockType
        BY <3>1, <1>6
      <4> QED
        BY <4>1, <1>1 DEF BlockType
    <3>3. B = [A EXCEPT ![n2] = m]
      BY <2>2
    <3> HIDE DEF m, n2
    <3>4. DOMAIN B = DOMAIN A /\ B[n2] = m /\ \A x \in DOMAIN A : x # n2 => B[x] = A[x]
      BY <3>1, <3>3
    <3> QED
      BY <3>1, <3>2, <3>4, <1>5, <1>6
  <2> QED
    BY <2>1, <2>2
<1> DEFINE K == {x \in DOMAIN B : B[x].valid \/ \E k \in DOMAIN index : index[k].at = x}
<1>8. block' = Restrict(B, K)
  BY DEF Merges, Reachable, A
<1> HIDE DEF B, n2
<1>9. DOMAIN block' = K /\ \A x \in K : block'[x] = B[x]
  BY <1>8 DEF Restrict
<1>10. \A x \in DOMAIN block :
         x \in K <=> (block[x].valid /\ x # n) \/ \E k \in DOMAIN index : index[k].at = x
  BY <1>4, <1>5, <1>6, <1>7
<1>11. K \subseteq DOMAIN block /\ c \in K
  BY <1>1, <1>7, <1>10
<1> HIDE DEF K
<1>12. B[c].len = len /\ B[c].nex = n2 /\ ~B[n].valid
  BY <1>1, <1>3, <1>4, <1>5, <1>7
<1>13. \A x \in DOMAIN block' :
         /\ block'[x] \in BlockType
         /\ block'[x].header = block[x].header /\ block'[x].free = block[x].free
         /\ x # n => block'[x].valid = block[x].valid
         /\ x # c => block'[x].len = block[x].len /\ block'[x].nex = block[x].nex
         /\ x = block[n].nex => block'[x].pre = c
         /\ x # block[n].nex => block'[x].pre = block[x].pre
  BY <1>5, <1>6, <1>7, <1>9, <1>11 DEF n2
<1> QED
  BY <1>9, <1>10, <1>11, <1>12, <1>13 DEF MergeFields, len, n2

LEMMA MergeLayout ==
  ASSUME TypeOK, Layout, NEW c \in Valid, block[c].nex # Null, ~block[block[c].nex].header,
         NEW n, n = block[c].nex, Merges(c, n), segment' = segment
  PROVE  /\ n \in Valid /\ c # n /\ Seg(n) = Seg(c) /\ Off(n) = End(c)
         /\ Valid' = Valid \ {n} /\ Layout' /\ MergeFields(c, n)
<1>1. n \in Valid /\ n # c /\ n # First /\ c # last /\ Seg(n) = Seg(c) /\ Off(n) = End(c)
  BY NextIs DEF Follows
<1>2. block[n].nex # Null => /\ block[n].nex \in DOMAIN block /\ block[n].nex # n
                             /\ n # last /\ block[n].nex # First
  BY <1>1, NextIs, ValidIs
<1>3. MergeFields(c, n)
  BY <1>1, <1>2, MergeIs
<1>4. Valid' = Valid \ {n}
  BY <1>3 DEF MergeFields, Valid
<1>5. \A x \in Valid' : x \in DOMAIN block' /\ x \in Valid /\ x \in DOMAIN block /\ x # n
  BY <1>4, ValidIs DEF Valid
<1>6. c \in Valid' /\ First \in Valid' /\ First \in Valid /\ last \in Valid
  BY <1>1, <1>4 DEF Layout, Chained
<1>7. \A x \in Valid : /\ Off(x) \in Nat /\ Seg(x) \in Nat /\ block[x].len \in Nat
                       /\ block[x].len > 0 /\ End(x) = Off(x) + block[x].len
                       /\ block[x].header \in BOOLEAN /\ x # Null
  BY ValidIs, BlockFields DEF Layout, Inside
<1>8. /\ End(c)' = End(n)
      /\ \A x \in Valid' : x # c => End(x)' = End(x)
  <2>1. End(c)' = Off(c) + (block[c].len + block[n].len)
    BY <1>3 DEF MergeFields, End
  <2>2. \A x \in Valid' : x # c => End(x)' = End(x)
    BY <1>3, <1>5 DEF MergeFields, End
  <2> QED
    BY <2>1, <2>2, <1>1, <1>7
<1>9. Inside'
  <2>1. \A x \in DOMAIN block' : Seg(x) <= Len(segment)
    BY <1>3 DEF MergeFields, Layout, Inside
  <2>2. \A x \in Valid' : block'[x].len > 0
    <3>1. block'[c].len > 0
      BY <1>1, <1>3, <1>7 DEF MergeFields
    <3> QED
      BY <3>1, <1>3, <1>5, <1>7 DEF MergeFields
  <2>3. \A x \in Valid' : End(x)' <= segment[Seg(x)]
    BY <1>1, <1>5, <1>8 DEF Layout, Inside
  <2>4. \A x \in Valid' : block'[x].header <=> Off(x) = 0
    BY <1>3, <1>5 DEF MergeFields, Layout, Inside
  <2> QED
    BY <2>1, <2>2, <2>3, <2>4 DEF Layout, Inside
<1>10. Apart'
  <2>1. ASSUME NEW x \in Valid', x # c, Seg(x) = Seg(c)
        PROVE  End(n) <= Off(x) \/ End(x) <= Off(c)
    <3>1. x # n /\ x \in Valid
      BY <1>5
    <3>2. End(c) <= Off(x) \/ End(x) <= Off(c)
      BY <2>1, <3>1 DEF Layout, Apart
    <3>3. End(n) <= Off(x) \/ End(x) <= Off(n)
      BY <2>1, <3>1, <1>1 DEF Layout, Apart
    <3> QED
      BY <3>1, <3>2, <3>3, <1>1, <1>7
  <2>2. ASSUME NEW x \in Valid', x # c, Seg(x) = Seg(c)
        PROVE  End(c)' <= Off(x) \/ End(x)' <= Off(c)
    BY <2>1, <2>2, <1>8
  <2>3. ASSUME NEW x \in Valid', NEW y \in Valid', x # c, y # c, x # y, Seg(x) = Seg(y)
        PROVE  End(x)' <= Off(y) \/ End(y)' <= Off(x)
    BY <2>3, <1>5, <1>8 DEF Layout, Apart
  <2> QED
    BY <2>2, <2>3, <1>6 DEF Apart
<1>11. Chained'
  <2>1. \A x \in Valid : x # last => block[x].nex \in Valid /\ Follows(block[x].nex, x)
    BY DEF Layout, Chained
  <2>2. \A x \in Valid' : block'[x].header = block[x].header
    BY <1>3, <1>5 DEF MergeFields
  <2>3. ASSUME NEW m \in Valid', Follows(m, n) PROVE Follows(m, c)'
    BY <2>3, <2>2, <1>1, <1>8 DEF Follows
  <2>4. ASSUME NEW x \in Valid', x # c, NEW m \in Valid', Follows(m, x) PROVE Follows(m, x)'
    BY <2>4, <2>2, <1>8 DEF Follows
  <2>5. block'[c].nex = block[n].nex /\ \A x \in Valid' : x # c => block'[x].nex = block[x].nex
    BY <1>3, <1>5 DEF MergeFields
  <2>6. \A x \in Valid' : x # last' => block'[x].nex \in Valid' /\ Follows(block[x].nex, x)'
    <3> SUFFICES ASSUME NEW x \in Valid', x # last'
                 PROVE  block'[x].nex \in Valid' /\ Follows(block[x].nex, x)'
      OBVIOUS
    <3>1. CASE x = c
      <4>1. n # last
        BY <3>1 DEF Merges
      <4>2. PICK m \in Valid : m = block[n].nex /\ Follows(m, n)
        BY <4>1, <2>1, <1>1
      <4>3. m \in Valid'
        BY <4>2, <1>2, <1>4, <1>7
      <4>4. Follows(m, c)' /\ block'[c].nex = m
        BY <4>2, <4>3, <2>3, <2>5
      <4> QED
        BY <3>1, <4>3, <4>4
    <3>2. CASE x # c
      <4>1. x # last /\ x \in Valid /\ x # n
        BY <3>2, <1>5 DEF Merges
      <4>2. PICK m \in Valid : m = block[x].nex /\ Follows(m, x)
        BY <4>1, <2>1
      <4>3. m # n
        BY <4>1, <4>2, <3>2, <1>7, NextOnce
      <4>4. m \in Valid'
        BY <4>2, <4>3, <1>4
      <4>5. Follows(m, x)' /\ block'[x].nex = m
        BY <4>2, <4>4, <3>2, <2>4, <2>5
      <4> QED
        BY <4>4, <4>5
    <3> QED
      BY <3>1, <3>2
  <2>7. /\ block[last].nex = Null /\ Seg(last) = Len(segment)
        /\ End(last) = segment[Len(segment)]
    BY DEF Layout, Chained
  <2>8. last' \in Valid' /\ block'[last'].nex = Null /\ Seg(last') = Len(segment')
    BY <2>5, <2>7, <1>1, <1>4, <1>6 DEF Merges
  <2>9. End(last)' = segment'[Len(segment')]
    <3>1. CASE n = last
      <4>1. last' = c
        BY <3>1 DEF Merges
      <4>2. End(last)' = Off(c) + block'[c].len
        BY <4>1 DEF End
      <4>3. End(c)' = Off(c) + block'[c].len
        BY DEF End
      <4> QED
        BY <4>2, <4>3, <3>1, <2>7, <1>8
    <3>2. CASE n # last
      <4>1. PICK l \in Valid' : l = last /\ last' = l
        BY <3>2, <1>4, <1>6 DEF Merges
      <4>2. End(last)' = Off(l) + block'[l].len
        BY <4>1 DEF End
      <4>3. End(l)' = Off(l) + block'[l].len
        BY DEF End
      <4> QED
        BY <4>1, <4>2, <4>3, <2>7, <1>1, <1>8
    <3> QED
      BY <3>1, <3>2
  <2> QED
    BY <2>6, <2>8, <2>9, <1>6 DEF Chained
<1>12. Returning'
  <2>1. block'[First].pre = Null
    <3>1. block[First].pre = Null /\ First # block[n].nex
      BY <1>2, <1>6, <1>7 DEF Layout, Returning
    <3> QED
      BY <3>1, <1>3, <1>5, <1>6 DEF MergeFields
  <2>2. ASSUME NEW x \in Valid', block'[x].pre # Null
        PROVE  block'[x].pre \in Valid' /\ block'[block'[x].pre].nex = x
    <3>1. CASE x = block[n].nex
      BY <3>1, <1>3, <1>5, <1>6 DEF MergeFields
    <3>2. CASE x # block[n].nex
      <4>1. block'[x].pre = block[x].pre /\ x \in Valid /\ x # n
        BY <3>2, <1>3, <1>5 DEF MergeFields
      <4>2. PICK q \in Valid : q = block[x].pre /\ block[q].nex = x
        BY <4>1, <2>2 DEF Layout, Returning
      <4>3. q # n /\ q # c
        BY <4>1, <4>2, <3>2
      <4>4. q \in Valid'
        BY <4>2, <4>3, <1>4
      <4> QED
        BY <4>1, <4>2, <4>3, <4>4, <1>3, <1>5 DEF MergeFields
    <3> QED
      BY <3>1, <3>2
  <2> QED
    BY <2>1, <2>2 DEF Returning
<1> QED
  BY <1>1, <1>3, <1>4, <1>9, <1>10, <1>11, <1>12 DEF Layout

-----------------------------------------------------------------------------
(* The threads: one at a time holds list_lock, what it looks for is a        *)
(* request rounded up, and what it merges is free.                           *)

Labels == {"idle", "try", "extend", "assign", "back", "merge"}
Holds(t) == pc[t] \in {"try", "assign", "back", "merge"}
Compacts(t) == pc[t] \in {"back", "merge"}
Asked(t) == asked[t] \in Requests
Allocates(t) == pc[t] \in {"try", "extend", "assign"}

Control ==
  /\ \A t, u \in Threads : Holds(t) /\ Holds(u) => t = u
  /\ \A t \in Threads : Allocates(t) => Asked(t)
  /\ \A t \in Threads : ~Allocates(t) => asked[t] = 0
  /\ \A t \in Threads : Compacts(t) => curr[t] \in Valid /\ block[curr[t]].free
  /\ \A t \in Threads : ~Compacts(t) => curr[t] = Null

ThreadTypes == /\ pc \in [Threads -> Labels] /\ asked \in [Threads -> Requests \cup {0}]
               /\ curr \in [Threads -> DOMAIN block \cup {Null}]

\* The step is one of thread t and of nobody else.
Only(t) ==
  /\ pc' \in [Threads -> Labels] /\ DOMAIN asked' = Threads /\ DOMAIN curr' = Threads
  /\ asked' = [u \in Threads |-> asked'[u]] /\ curr' = [u \in Threads |-> curr'[u]]
  /\ \A u \in Threads : u # t => pc'[u] = pc[u] /\ asked'[u] = asked[u] /\ curr'[u] = curr[u]

LEMMA ControlStays ==
  ASSUME TypeOK, Control, NEW t \in Threads, Holds(t) \/ LockFree, Only(t),
         Allocates(t)' => Asked(t)', ~Allocates(t)' => asked'[t] = 0,
         Compacts(t)' => curr'[t] \in Valid' /\ block'[curr'[t]].free,
         ~Compacts(t)' => curr'[t] = Null
  PROVE  Control' /\ ThreadTypes'
<1>1. \A u \in Threads : u # t => ~Holds(u) /\ ~Compacts(u) /\ curr[u] = Null
  <2>1. \A u \in Threads : u # t => ~Holds(u)
    BY DEF Control, LockFree, Holds
  <2> QED
    BY <2>1 DEF Control, Holds, Compacts
<1>2. \A u \in Threads : u # t => ~Holds(u)' /\ ~Compacts(u)' /\ curr'[u] = Null
  BY <1>1 DEF Only, Holds, Compacts
<1>3. \A u \in Threads : (Allocates(u)' => Asked(u)') /\ (~Allocates(u)' => asked'[u] = 0)
  BY DEF Only, Control, Asked, Allocates
<1>4. Control'
  BY <1>2, <1>3 DEF Control
<1>5. \A u \in Threads : asked'[u] \in Requests \cup {0}
  BY <1>3 DEF Asked
<1>6. asked' \in [Threads -> Requests \cup {0}]
  BY <1>5 DEF Only
<1>7. \A u \in Threads : curr'[u] \in DOMAIN block' \cup {Null}
  BY <1>2 DEF Valid
<1>8. curr' \in [Threads -> DOMAIN block' \cup {Null}]
  BY <1>7 DEF Only
<1> QED
  BY <1>4, <1>6, <1>8 DEF ThreadTypes, Only

LEMMA GotoIs ==
  ASSUME TypeOK, NEW t \in Threads, NEW label \in Labels, Goto(t, label),
         asked' = asked, curr' = curr
  PROVE  Only(t) /\ pc'[t] = label /\ asked'[t] = asked[t] /\ curr'[t] = curr[t]
BY DEF TypeOK, Goto, Only, Labels

LEMMA ReturnIs ==
  ASSUME TypeOK, NEW t \in Threads, Return(t)
  PROVE  Only(t) /\ pc'[t] = "idle" /\ asked'[t] = 0 /\ curr'[t] = Null
BY DEF TypeOK, Return, Goto, Only, Labels

LEMMA ReturnKeeps ==
  ASSUME TypeOK, Control, NEW t \in Threads, Holds(t) \/ LockFree, Return(t)
  PROVE  Control' /\ ThreadTypes'
<1>1. Only(t) /\ pc'[t] = "idle" /\ asked'[t] = 0 /\ curr'[t] = Null
  BY ReturnIs
<1> QED
  BY <1>1, ControlStays DEF Compacts, Allocates

\* What the threads look for follows from what they asked for.
LEMMA WantIs ==
  ASSUME TypeOK, NEW t \in Threads
  PROVE  want[t] \in Nat /\ want[t] = SafeTarget(asked[t])
<1>1. want[t] = SafeTarget(asked[t]) /\ asked[t] \in Requests \cup {0}
  BY DEF want, TypeOK
<1>2. CASE asked[t] \in Requests
  BY <1>1, <1>2, SafeTargetIs
<1>3. CASE asked[t] = 0
  <2>1. Alignment \in Nat \ {0} /\ (0 + Alignment - 1) \div Alignment = 0
    BY SizesAssumption
  <2> QED
    BY <1>1, <1>3, <2>1 DEF SafeTarget
<1> QED
  BY <1>1, <1>2, <1>3

LEMMA WantStays == asked' = asked => want' = want
BY DEF want

-----------------------------------------------------------------------------
(* What the invariant says of the memory                                     *)

Stored ==
  /\ segment \in Seq(SegmentLengths)
  /\ DOMAIN block \subseteq Objects /\ \A b \in DOMAIN block : block[b] \in BlockType
  /\ last \in DOMAIN block
  /\ index \in Seq(Entry(DOMAIN block))
  /\ total \in Nat
  /\ live \subseteq DOMAIN block

Memory == Stored /\ Layout /\ Kept /\ HandlesAreBlocks
ShardInv == TypeOK /\ Layout /\ Kept /\ HandlesAreBlocks /\ Control

LEMMA MemoryIs == ShardInv => Memory
BY DEF ShardInv, Memory, Stored, TypeOK, Entry, SegmentLengths

LEMMA ShardIs ==
  ASSUME Memory', Control', ThreadTypes',
         lost' \subseteq DOMAIN block', failures' \in 0..MaxFailures
  PROVE  ShardInv'
BY DEF ShardInv, Memory, Stored, ThreadTypes, TypeOK, Entry, SegmentLengths, Labels

LEMMA Retyped ==
  ASSUME NEW S, NEW T, NEW seq \in Seq(S), \A i \in 1..Len(seq) : seq[i] \in T
  PROVE  seq \in Seq(T)
<1>1. PICK n \in Nat : n = Len(seq)
  OBVIOUS
<1>2. seq = [i \in 1..n |-> seq[i]]
  BY <1>1
<1>3. [i \in 1..n |-> seq[i]] \in Seq(T)
  BY <1>1
<1> QED
  BY <1>2, <1>3

\* The search: the entry looked at, and the others.
LEMMA SearchIs ==
  ASSUME TypeOK, NEW t \in Threads, Searching(t)
  PROVE  \E k \in 1..Len(index) :
           /\ k = LowerBound(want[t])
           /\ Found(t) = index[k].at /\ index[k].key >= want[t]
           /\ Found(t) \in DOMAIN block
           /\ OtherEntries(t) \in Seq(Entry(DOMAIN block))
           /\ Drops(OtherEntries(t), index, k)
<1>1. index \in Seq(Entry(DOMAIN block))
  BY DEF TypeOK, Entry
<1>2. Len(index) \in Nat /\ DOMAIN index = 1..Len(index)
  BY <1>1
<1>3. PICK k \in 1..Len(index) : k = LowerBound(want[t]) /\ k \in Fitting(want[t])
  BY <1>2, LowerBoundIs DEF Searching
<1>4. index[k] \in Entry(DOMAIN block)
  BY <1>1
<1>5. RemoveAt(index, k) \in Seq(Entry(DOMAIN block)) /\ Drops(RemoveAt(index, k), index, k)
  BY <1>1, RemoveDrops
<1> QED
  BY <1>3, <1>4, <1>5 DEF Found, OtherEntries, Fitting, Entry

\* The list is left alone, and an object that loses an entry is still in it.
LEMMA MemoryStays ==
  ASSUME TypeOK, Memory, segment' = segment, last' = last, total' = total,
         DOMAIN block' = DOMAIN block, \A b \in DOMAIN block : block'[b] \in BlockType /\ Steady(b),
         index' \in Seq(Entry(DOMAIN block)), HandlesAreBlocks',
         \A i \in 1..Len(index) :
           block[index[i].at].valid \/ \E j \in 1..Len(index') : index'[j].at = index[i].at
  PROVE  Memory' /\ Valid' = Valid
<1>1. Valid \subseteq DOMAIN block'
  BY ValidIs
<1>2. Valid' = Valid /\ Layout'
  BY <1>1, LayoutStays DEF Memory
<1>3. Kept'
  BY DEF Kept, Memory, Steady
<1>4. live' \subseteq DOMAIN block'
  BY <1>1, <1>2 DEF HandlesAreBlocks
<1> QED
  BY <1>2, <1>3, <1>4 DEF Memory, Stored

-----------------------------------------------------------------------------
(* One lemma for each action                                                 *)

LEMMA MemoryUnchanged ==
  ASSUME TypeOK, Memory, UNCHANGED <<segment, block, last, index, total, live>>
  PROVE  Memory' /\ Valid' = Valid
BY DEF Memory, Stored, Layout, Inside, Apart, Chained, Returning, Follows, End, Valid,
       Kept, HandlesAreBlocks

LEMMA AllocateKeeps ==
  ASSUME ShardInv, NEW t \in Threads, NEW n \in Requests, Allocate(t, n)
  PROVE  Memory' /\ Control' /\ ThreadTypes'
<1>1. Memory'
  BY MemoryIs, MemoryUnchanged DEF Allocate, ShardInv
<1>2. /\ TypeOK /\ Control /\ LockFree /\ Only(t)
      /\ pc'[t] = "try" /\ asked'[t] = n /\ curr'[t] = Null
  <2>1. TypeOK /\ Control /\ LockFree /\ curr[t] = Null
    BY DEF ShardInv, Allocate, Control, Compacts, At
  <2>2. Only(t) /\ pc'[t] = "try" /\ asked'[t] = n /\ curr' = curr
    BY <2>1 DEF Allocate, Goto, TypeOK, Only, Labels
  <2> QED
    BY <2>1, <2>2
<1> QED
  BY <1>1, <1>2, ControlStays DEF Compacts, Asked, Allocates

LEMMA TryFailsKeeps ==
  ASSUME ShardInv, NEW t \in Threads, TryFails(t)
  PROVE  Memory' /\ Control' /\ ThreadTypes'
<1>1. Memory'
  BY MemoryIs, MemoryUnchanged DEF TryFails, ShardInv
<1>2. TypeOK /\ Control /\ Holds(t) /\ curr[t] = Null /\ Asked(t)
  BY DEF ShardInv, TryFails, Control, Compacts, At, Holds, Allocates
<1>3. Only(t) /\ pc'[t] = "extend" /\ asked'[t] = asked[t] /\ curr'[t] = curr[t]
  BY <1>2, GotoIs DEF TryFails, Labels
<1>4. Asked(t)'
  BY <1>2, <1>3 DEF Asked
<1> QED
  BY <1>1, <1>2, <1>3, <1>4, ControlStays DEF Compacts, Allocates

LEMMA GivesUpKeeps ==
  ASSUME ShardInv, NEW t \in Threads, ExtendThrows(t) \/ AssignFails(t)
  PROVE  Memory' /\ Control' /\ ThreadTypes'
<1>1. Memory'
  BY MemoryIs, MemoryUnchanged DEF ExtendThrows, AssignFails, ShardInv
<1>2. TypeOK /\ Control /\ (Holds(t) \/ LockFree) /\ Return(t)
  BY DEF ShardInv, ExtendThrows, AssignFails, At, Holds
<1> QED
  BY <1>1, <1>2, ReturnKeeps

LEMMA BackKeeps ==
  ASSUME ShardInv, NEW t \in Threads, Back(t)
  PROVE  Memory' /\ Control' /\ ThreadTypes'
<1>1. Memory' /\ Valid' = Valid
  BY MemoryIs, MemoryUnchanged DEF Back, ShardInv
<1>2. /\ TypeOK /\ Layout /\ Control /\ Holds(t) /\ curr[t] \in Valid /\ block[curr[t]].free
      /\ asked[t] = 0
  BY DEF ShardInv, Back, Control, Compacts, At, Holds, Allocates
<1>3. CASE FollowsFree(curr[t]) /\ curr' = [curr EXCEPT ![t] = block[@].pre] /\ UNCHANGED pc
  <2>1. /\ Only(t) /\ pc'[t] = "back" /\ asked'[t] = 0
        /\ curr'[t] = block[curr[t]].pre
    BY <1>2, <1>3 DEF Back, At, TypeOK, Only, Labels
  <2>2. block[curr[t]].pre \in Valid /\ block[block[curr[t]].pre].free
    BY <1>2, <1>3 DEF FollowsFree, Layout, Returning
  <2>3. block' = block
    BY DEF Back
  <2> QED
    BY <1>1, <1>2, <2>1, <2>2, <2>3, ControlStays DEF Compacts, Allocates
<1>4. CASE Goto(t, "merge") /\ UNCHANGED curr
  <2>1. Only(t) /\ pc'[t] = "merge" /\ curr'[t] = curr[t] /\ asked'[t] = 0
    BY <1>2, <1>4, GotoIs DEF Back, Labels
  <2>2. block' = block
    BY DEF Back
  <2> QED
    BY <1>1, <1>2, <2>1, <2>2, ControlStays DEF Compacts, Allocates
<1> QED
  BY <1>3, <1>4 DEF Back

\* The thread goes on searching, with the lock.
LEMMA SearchGoesOn ==
  ASSUME ShardInv, NEW t \in Threads, Searching(t), UNCHANGED <<pc, asked, curr>>
  PROVE  Control' /\ ThreadTypes'
<1>1. TypeOK /\ Control /\ Holds(t) /\ curr[t] = Null /\ Asked(t) /\ ~Compacts(t)
  BY DEF ShardInv, Searching, Control, Compacts, Holds, Allocates
<1>2. Only(t) /\ asked'[t] = asked[t] /\ curr'[t] = curr[t] /\ pc'[t] = pc[t]
  BY <1>1 DEF TypeOK, Only, Labels
<1>3. Asked(t)' /\ ~Compacts(t)' /\ Allocates(t)'
  BY <1>1, <1>2 DEF Asked, Compacts, Searching, Allocates
<1> QED
  BY <1>1, <1>2, <1>3, ControlStays

LEMMA SkipEntryKeeps ==
  ASSUME ShardInv, NEW t \in Threads, SkipEntry(t)
  PROVE  Memory' /\ Control' /\ ThreadTypes' /\ Valid' = Valid
<1>1. TypeOK /\ Memory /\ Searching(t) /\ ~Usable(Found(t))
  BY MemoryIs DEF ShardInv, SkipEntry
<1>2. Control' /\ ThreadTypes'
  BY <1>1, SearchGoesOn DEF SkipEntry
<1>3. PICK k \in 1..Len(index) :
        /\ Found(t) = index[k].at /\ index' \in Seq(Entry(DOMAIN block)) /\ Drops(index', index, k)
  BY <1>1, SearchIs DEF SkipEntry
<1> DEFINE K == {b \in DOMAIN block : block[b].valid \/ \E j \in DOMAIN index' : index'[j].at = b}
<1>4. block' = Restrict(block, K)
  BY DEF SkipEntry, Reachable
<1>5. DOMAIN block' = K /\ \A b \in K : block'[b] = block[b]
  BY <1>4 DEF Restrict
<1>6. K \subseteq DOMAIN block /\ Valid \subseteq K /\ DOMAIN index' = 1..Len(index')
  BY <1>3 DEF Valid
<1>7. \A i \in 1..Len(index') : index'[i] \in Entry(K)
  <2> TAKE i \in 1..Len(index')
  <2>1. index'[i] \in Entry(DOMAIN block)
    BY <1>3
  <2>2. index'[i].at \in K
    BY <2>1, <1>6 DEF Entry
  <2> HIDE DEF K
  <2> QED
    BY <2>1, <2>2 DEF Entry
<1> HIDE DEF K
<1>8. index' \in Seq(Entry(K))
  BY <1>3, <1>7, Retyped
<1>9. \A b \in DOMAIN block' : Steady(b)
  BY <1>5, <1>6 DEF Steady
<1>10. Valid' = Valid /\ Layout'
  BY <1>1, <1>5, <1>6, <1>9, LayoutStays DEF SkipEntry, Memory
<1>11. Kept'
  BY <1>5, <1>6 DEF K, Kept
<1>12. HandlesAreBlocks'
  BY <1>1, <1>5, <1>6, <1>10 DEF SkipEntry, Memory, HandlesAreBlocks
<1>13. Stored'
  <2>1. live' \subseteq DOMAIN block'
    BY <1>5, <1>6, <1>10, <1>12 DEF HandlesAreBlocks
  <2>2. last' \in DOMAIN block'
    BY <1>1, <1>5, <1>6 DEF SkipEntry, Memory, Layout, Chained
  <2> QED
    BY <2>1, <2>2, <1>1, <1>5, <1>6, <1>8 DEF SkipEntry, Stored, Memory
<1> QED
  BY <1>2, <1>10, <1>11, <1>12, <1>13 DEF Memory

LEMMA AssignWholeKeeps ==
  ASSUME ShardInv, NEW t \in Threads, AssignWhole(t)
  PROVE  Memory' /\ Control' /\ ThreadTypes' /\ Valid' = Valid
<1>1. TypeOK /\ Memory /\ Control /\ Searching(t) /\ Usable(Found(t)) /\ Holds(t)
  BY MemoryIs DEF ShardInv, AssignWhole, Searching, Holds
<1>2. Control' /\ ThreadTypes'
  BY <1>1, ReturnKeeps DEF AssignWhole
<1>3. PICK k \in 1..Len(index) :
        /\ Found(t) = index[k].at /\ index' \in Seq(Entry(DOMAIN block)) /\ Drops(index', index, k)
  BY <1>1, SearchIs DEF AssignWhole
<1>4. PICK b \in DOMAIN block : b = Found(t)
  BY <1>1, SearchIs
<1>5. block' = [block EXCEPT ![b].free = FALSE] /\ live' = live \cup {b}
  BY <1>4 DEF AssignWhole
<1>6. /\ DOMAIN block' = DOMAIN block /\ ~block'[b].free
      /\ \A x \in DOMAIN block : block'[x] \in BlockType /\ Steady(x)
      /\ \A x \in DOMAIN block : x # b => block'[x].free = block[x].free
  <2>1. \A x \in DOMAIN block : block[x] \in BlockType
    BY <1>1, BlockFields
  <2> QED
    BY <1>5, <2>1 DEF Steady, BlockType
<1>7. block[b].valid /\ block[b].free
  BY <1>1, <1>4 DEF Usable
<1>8. HandlesAreBlocks'
  BY <1>1, <1>5, <1>6, <1>7 DEF Memory, HandlesAreBlocks, Valid, Steady
<1>9. \A i \in 1..Len(index) :
        block[index[i].at].valid \/ \E j \in 1..Len(index') : index'[j].at = index[i].at
  BY <1>3, <1>4, <1>7 DEF Drops
<1> QED
  BY <1>1, <1>2, <1>3, <1>6, <1>8, <1>9, MemoryStays DEF AssignWhole

\* In the block a search splits there is room for the rest.
LEMMA SplittingIs ==
  ASSUME ShardInv, NEW t \in Threads, Splitting(t)
  PROVE  \E b \in Valid :
           /\ b = Found(t) /\ block[b].free /\ want[t] \in Nat \ {0} /\ want[t] < block[b].len
           /\ Seg(b) \in 1..MaxSegments /\ Off(b) + want[t] \in 0..MaxSegment
           /\ \A x \in Valid : ~(Seg(x) = Seg(b) /\ Off(x) = Off(b) + want[t])
<1>1. /\ TypeOK /\ Layout /\ Control /\ Searching(t) /\ Usable(Found(t))
      /\ block[Found(t)].len > want[t]
  BY DEF ShardInv, Splitting
<1>2. PICK b \in DOMAIN block : b = Found(t)
  BY <1>1, SearchIs
<1>3. b \in Valid /\ block[b].free
  BY <1>1, <1>2 DEF Usable, Valid
<1>4. want[t] \in Nat \ {0}
  BY <1>1, WantIs, SafeTargetIs DEF Searching, Control, Asked, Allocates
<1>5. /\ Off(b) \in Nat /\ Seg(b) \in 1..MaxSegments /\ block[b].len \in Nat
      /\ End(b) = Off(b) + block[b].len
  BY <1>1, <1>2, BlockFields
<1>6. want[t] < block[b].len
  BY <1>1, <1>2, <1>4, <1>5
<1>7. Off(b) + want[t] \in 0..MaxSegment
  <2>1. Seg(b) \in 1..Len(segment) /\ End(b) <= segment[Seg(b)]
    BY <1>1, <1>3, <1>5 DEF Layout, Inside, Valid
  <2>2. segment[Seg(b)] \in Nat /\ segment[Seg(b)] <= MaxSegment /\ MaxSegment \in Nat
    BY <1>1, <2>1, SegmentFields, Limits DEF SegmentLengths
  <2> QED
    BY <2>1, <2>2, <1>4, <1>5, <1>6
<1>8. ASSUME NEW x \in Valid, Seg(x) = Seg(b), Off(x) = Off(b) + want[t] PROVE FALSE
  <2>1. /\ Off(x) \in Nat /\ block[x].len \in Nat /\ End(x) = Off(x) + block[x].len
        /\ block[x].len > 0
    BY <1>1, ValidIs, BlockFields DEF Layout, Inside
  <2>2. x # b
    BY <1>4, <1>5, <1>8
  <2>3. End(b) <= Off(x) \/ End(x) <= Off(b)
    BY <1>1, <1>3, <1>8, <2>2 DEF Layout, Apart
  <2> QED
    BY <2>1, <2>3, <1>4, <1>5, <1>6, <1>8
<1> QED
  BY <1>2, <1>3, <1>4, <1>5, <1>6, <1>7, <1>8

LEMMA EntriesGrow ==
  ASSUME NEW S, NEW T, S \subseteq T, NEW seq \in Seq(Entry(S))
  PROVE  seq \in Seq(Entry(T))
<1>1. Entry(S) \subseteq Entry(T)
  BY DEF Entry
<1> QED
  BY <1>1, SeqMonotonic

LEMMA AssignPartKeeps ==
  ASSUME ShardInv, NEW t \in Threads, AssignPart(t)
  PROVE  /\ Memory' /\ Control' /\ ThreadTypes'
         /\ \E new : /\ new \notin DOMAIN block /\ Found(t) \in Valid /\ block[Found(t)].free
                     /\ want[t] < block[Found(t)].len
                     /\ Valid' = Valid \cup {new} /\ SplitFields(Found(t), want[t], new)
                     /\ Seg(new) = Seg(Found(t)) /\ Off(new) = Off(Found(t)) + want[t]
                     /\ Adds(index', OtherEntries(t),
                             [key |-> block[Found(t)].len - want[t], at |-> new])
<1>1. /\ TypeOK /\ Layout /\ Kept /\ Control /\ Memory /\ Searching(t) /\ Splitting(t) /\ Holds(t)
      /\ Return(t)
  BY MemoryIs DEF ShardInv, AssignPart, Splitting, Searching, Holds
<1>2. Control' /\ ThreadTypes'
  BY <1>1, ReturnKeeps
<1>3. PICK b \in Valid :
        /\ b = Found(t) /\ block[b].free /\ want[t] \in Nat \ {0} /\ want[t] < block[b].len
        /\ Seg(b) \in 1..MaxSegments /\ Off(b) + want[t] \in 0..MaxSegment
        /\ \A x \in Valid : ~(Seg(x) = Seg(b) /\ Off(x) = Off(b) + want[t])
  BY <1>1, SplittingIs
<1>4. PICK w \in Nat \ {0} : w = want[t]
  BY <1>3
<1>5. PICK new \in Objects : /\ new = New(Seg(b), Off(b) + w) /\ new \notin DOMAIN block
                             /\ Seg(new) = Seg(b) /\ Off(new) = Off(b) + w
  BY <1>1, <1>3, <1>4, NewIs
<1>6. /\ Splits(b, w, new) /\ segment' = segment /\ last' = (IF b = last THEN new ELSE last)
      /\ index' = Insert(OtherEntries(t), Rest(b, w).len, new) /\ live' = live \cup {b}
      /\ total' = total
  BY <1>3, <1>4, <1>5 DEF AssignPart, Splits, Cut, Rest
<1>7. /\ Valid' = Valid \cup {new} /\ Layout' /\ last' \in DOMAIN block' /\ SplitFields(b, w, new)
  BY <1>1, <1>3, <1>4, <1>5, <1>6, SplitLayout
<1>8. DOMAIN block' = DOMAIN block \cup {new} /\ \A x \in DOMAIN block' : block'[x] \in BlockType
  BY <1>7 DEF SplitFields
<1>9. b \in DOMAIN block /\ block[b] \in BlockType /\ block[b].len \in Nat
  BY <1>1, ValidIs, BlockFields
<1>10. PICK rest \in Nat : rest = block[b].len - w /\ rest = Rest(b, w).len
  <2>1. Rest(b, w).len = block[b].len - w
    BY <1>9 DEF Rest, BlockType
  <2> QED
    BY <2>1, <1>3, <1>4, <1>9
<1>11. PICK k \in 1..Len(index) :
         /\ b = index[k].at /\ OtherEntries(t) \in Seq(Entry(DOMAIN block))
         /\ Drops(OtherEntries(t), index, k)
  BY <1>1, <1>3, SearchIs
<1>12. OtherEntries(t) \in Seq(Entry(DOMAIN block'))
  BY <1>8, <1>11, EntriesGrow
<1>13. /\ index' \in Seq(Entry(DOMAIN block'))
       /\ Adds(index', OtherEntries(t), [key |-> rest, at |-> new])
  BY <1>6, <1>8, <1>10, <1>12, InsertAdds
<1>14. Kept'
  <2>1. \A x \in DOMAIN block : block'[x].valid = block[x].valid
    BY <1>7 DEF SplitFields
  <2>2. new \in Valid' /\ b \in Valid'
    BY <1>7
  <2>3. ASSUME NEW x \in DOMAIN block, ~block[x].valid
        PROVE  \E j \in 1..Len(index') : index'[j].at = x
    <3>1. PICK i \in 1..Len(index) : index[i].at = x
      BY <2>3, <1>1 DEF Kept
    <3>2. i # k
      BY <3>1, <2>3, <1>11, ValidIs
    <3>3. PICK j \in 1..Len(OtherEntries(t)) : OtherEntries(t)[j] = index[i]
      BY <3>2, <1>11 DEF Drops
    <3> QED
      BY <3>1, <3>3, <1>13 DEF Adds
  <2> QED
    BY <2>1, <2>2, <2>3, <1>8 DEF Kept, Valid
<1>15. HandlesAreBlocks'
  <2>1. /\ \A x \in Valid : x # b => block'[x].free = block[x].free
        /\ ~block'[b].free /\ block'[new].free
    BY <1>3, <1>7, ValidIs DEF SplitFields
  <2>2. {x \in Valid : ~block[x].free} = live /\ new \notin live /\ new \notin Valid
    BY <1>1, <1>5, ValidIs DEF Memory, HandlesAreBlocks
  <2> QED
    BY <2>1, <2>2, <1>6, <1>7 DEF HandlesAreBlocks
<1>16. live' \subseteq DOMAIN block'
  BY <1>1, <1>6, <1>8, <1>9 DEF TypeOK
<1>17. Stored'
  BY <1>1, <1>6, <1>7, <1>8, <1>13, <1>16 DEF Stored, Memory
<1> QED
  BY <1>2, <1>3, <1>4, <1>5, <1>7, <1>10, <1>13, <1>14, <1>15, <1>17 DEF Memory

LEMMA ReindexKeeps ==
  ASSUME ShardInv, NEW t \in Threads, Reindex(t)
  PROVE  /\ Memory' /\ Control' /\ ThreadTypes'
         /\ Found(t) \in DOMAIN block
         /\ Adds(index', OtherEntries(t), [key |-> block[Found(t)].len, at |-> Found(t)])
<1>1. TypeOK /\ Memory /\ Searching(t)
  BY MemoryIs DEF ShardInv, Reindex
<1>2. Control' /\ ThreadTypes'
  BY <1>1, SearchGoesOn DEF Reindex
<1>3. PICK k \in 1..Len(index) :
        /\ Found(t) = index[k].at /\ Found(t) \in DOMAIN block
        /\ OtherEntries(t) \in Seq(Entry(DOMAIN block)) /\ Drops(OtherEntries(t), index, k)
  BY <1>1, SearchIs
<1>4. block[Found(t)].len \in Nat
  BY <1>1, <1>3, BlockFields
<1>5. /\ index' \in Seq(Entry(DOMAIN block))
      /\ Adds(index', OtherEntries(t), [key |-> block[Found(t)].len, at |-> Found(t)])
  BY <1>3, <1>4, InsertAdds DEF Reindex
<1>6. \A i \in 1..Len(index) : \E j \in 1..Len(index') : index'[j].at = index[i].at
  <2> TAKE i \in 1..Len(index)
  <2>1. CASE i = k
    BY <2>1, <1>3, <1>5 DEF Adds
  <2>2. CASE i # k
    <3>1. PICK j \in 1..Len(OtherEntries(t)) : OtherEntries(t)[j] = index[i]
      BY <2>2, <1>3 DEF Drops
    <3> QED
      BY <3>1, <1>5 DEF Adds
  <2> QED
    BY <2>1, <2>2
<1>7. block' = block /\ live' = live /\ \A x \in DOMAIN block : block[x] \in BlockType
  BY <1>1, BlockFields DEF Reindex
<1>8. HandlesAreBlocks' /\ \A x \in DOMAIN block : Steady(x)
  BY <1>1, <1>7 DEF Memory, HandlesAreBlocks, Valid, Steady
<1>9. Memory'
  BY <1>1, <1>5, <1>6, <1>7, <1>8, MemoryStays DEF Reindex
<1> QED
  BY <1>2, <1>3, <1>5, <1>9

LEMMA ReleaseKeeps ==
  ASSUME ShardInv, NEW t \in Threads, NEW b \in live, Release(t, b)
  PROVE  /\ Memory' /\ Control' /\ ThreadTypes' /\ Valid' = Valid
         /\ b \in Valid /\ ~block[b].free /\ block'[b].free /\ curr'[t] = b
         /\ \A x \in Valid : Steady(x) /\ (x # b => block'[x].free = block[x].free)
<1>1. /\ TypeOK /\ Memory /\ Control /\ LockFree /\ b \in Valid /\ ~block[b].free /\ b \in DOMAIN block
  BY MemoryIs, ValidIs DEF ShardInv, HandlesAreBlocks, Release
<1>2. /\ DOMAIN block' = DOMAIN block /\ block'[b].free
      /\ \A x \in DOMAIN block : block'[x] \in BlockType /\ Steady(x)
      /\ \A x \in DOMAIN block : x # b => block'[x].free = block[x].free
  <2>1. \A x \in DOMAIN block : block[x] \in BlockType
    BY <1>1, BlockFields
  <2> QED
    BY <2>1, <1>1 DEF Release, Steady, BlockType
<1>3. HandlesAreBlocks'
  BY <1>1, <1>2 DEF Release, Memory, HandlesAreBlocks, Valid, Steady
<1>4. index' = index /\ index \in Seq(Entry(DOMAIN block))
  BY <1>1 DEF Release, TypeOK, Entry
<1>5. Memory' /\ Valid' = Valid
  BY <1>1, <1>2, <1>3, <1>4, MemoryStays DEF Release
<1>6. /\ Only(t) /\ pc'[t] = "back" /\ asked'[t] = 0 /\ curr'[t] = b
  <2>1. asked[t] = 0
    BY <1>1 DEF Release, At, Control, Allocates
  <2> QED
    BY <1>1, <2>1 DEF Release, Goto, TypeOK, Only, Labels
<1>7. Control' /\ ThreadTypes'
  BY <1>1, <1>2, <1>5, <1>6, ControlStays DEF Compacts, Allocates
<1> QED
  BY <1>1, <1>2, <1>5, <1>6, <1>7, ValidIs

\* The next block of the one that is compacted.
LEMMA MergingIs ==
  ASSUME ShardInv, NEW t \in Threads, At(t, "merge"), Mergeable(block[curr[t]].nex)
  PROVE  \E c \in Valid : \E n \in Valid :
           /\ c = curr[t] /\ n = block[c].nex /\ block[c].free
           /\ n # Null /\ block[n].free /\ ~block[n].header
<1>1. TypeOK /\ Layout /\ curr[t] \in Valid /\ block[curr[t]].free
  BY DEF ShardInv, Control, Compacts, At
<1>2. block[curr[t]].nex # Null /\ block[curr[t]].nex \in Valid
  BY <1>1, NextIs DEF Mergeable
<1> QED
  BY <1>1, <1>2 DEF Mergeable

LEMMA MergeKeeps ==
  ASSUME ShardInv, NEW t \in Threads, Merge(t)
  PROVE  /\ Memory' /\ Control' /\ ThreadTypes'
         /\ \E c \in Valid : \E n \in Valid :
              /\ c = curr[t] /\ n = block[c].nex /\ block[c].free /\ c # n
              /\ n # Null /\ block[n].free /\ ~block[n].header
              /\ Seg(n) = Seg(c) /\ Off(n) = End(c)
              /\ Valid' = Valid \ {n} /\ MergeFields(c, n)
<1>1. TypeOK /\ Memory /\ Layout /\ Control /\ At(t, "merge") /\ Holds(t)
  BY MemoryIs DEF ShardInv, Merge, Holds, At
<1>2. PICK c \in Valid : \E n \in Valid :
        /\ c = curr[t] /\ n = block[c].nex /\ block[c].free
        /\ n # Null /\ block[n].free /\ ~block[n].header
  BY <1>1, MergingIs DEF Merge
<1>3. PICK n \in Valid : /\ c = curr[t] /\ n = block[c].nex /\ block[c].free
                         /\ n # Null /\ block[n].free /\ ~block[n].header
  BY <1>2
<1>4. Merges(c, n) /\ segment' = segment
  BY <1>3 DEF Merge, Merges, Absorbed
<1>5. /\ c # n /\ Seg(n) = Seg(c) /\ Off(n) = End(c)
      /\ Valid' = Valid \ {n} /\ Layout' /\ MergeFields(c, n)
  BY <1>1, <1>3, <1>4, MergeLayout
<1>6. /\ DOMAIN block' \subseteq DOMAIN block
      /\ \A x \in DOMAIN block' : block'[x] \in BlockType
      /\ \A x \in Valid' : x \in DOMAIN block' /\ block'[x].free = block[x].free
      /\ \A i \in DOMAIN index : index[i].at \in DOMAIN block'
  <2>1. \A i \in DOMAIN index : index[i].at \in DOMAIN block
    <3> TAKE i \in DOMAIN index
    <3>1. index \in Seq(Entry(DOMAIN block))
      BY <1>1 DEF Memory, Stored
    <3>2. index[i] \in Entry(DOMAIN block)
      BY <3>1
    <3> QED
      BY <3>2 DEF Entry
  <2> QED
    BY <2>1, <1>5, ValidIs DEF MergeFields, Valid
<1>7. index' = index /\ index \in Seq(Entry(DOMAIN block)) /\ live' = live /\ total' = total
  BY <1>1 DEF Merge, Memory, Stored
<1>8. index' \in Seq(Entry(DOMAIN block'))
  <2>1. \A i \in 1..Len(index) : index[i] \in Entry(DOMAIN block')
    <3> TAKE i \in 1..Len(index)
    <3>1. index[i] \in Entry(DOMAIN block) /\ i \in DOMAIN index
      BY <1>7
    <3> QED
      BY <3>1, <1>6 DEF Entry
  <2> QED
    BY <2>1, <1>7, Retyped
<1>9. Kept'
  BY <1>5, <1>7 DEF MergeFields, Kept
<1>10. HandlesAreBlocks'
  BY <1>1, <1>3, <1>5, <1>6, <1>7 DEF Memory, HandlesAreBlocks
<1>11. Stored'
  <2>1. last' \in DOMAIN block'
    BY <1>5, <1>6 DEF Layout, Chained
  <2>2. live' \subseteq DOMAIN block'
    BY <1>6, <1>10 DEF HandlesAreBlocks
  <2> QED
    BY <2>1, <2>2, <1>1, <1>4, <1>6, <1>7, <1>8 DEF Stored, Memory
<1>12. Control' /\ ThreadTypes'
  <2>1. Only(t) /\ pc'[t] = "merge" /\ curr'[t] = c /\ asked'[t] = 0
    <3>1. asked[t] = 0
      BY <1>1 DEF At, Control, Allocates
    <3> QED
      BY <1>1, <1>3, <3>1 DEF Merge, At, TypeOK, Only, Labels
  <2>2. c \in Valid' /\ block'[c].free
    BY <1>3, <1>5, <1>6
  <2> QED
    BY <2>1, <2>2, <1>1, ControlStays DEF Compacts, Allocates
<1> QED
  BY <1>3, <1>5, <1>9, <1>10, <1>11, <1>12 DEF Memory

LEMMA IndexMergedKeeps ==
  ASSUME ShardInv, NEW t \in Threads, IndexMerged(t)
  PROVE  /\ Memory' /\ Control' /\ ThreadTypes' /\ Valid' = Valid
         /\ Adds(index', index, [key |-> block[curr[t]].len, at |-> curr[t]])
<1>1. TypeOK /\ Memory /\ Control /\ Holds(t) /\ Return(t) /\ curr[t] \in DOMAIN block
  BY MemoryIs, ValidIs DEF ShardInv, IndexMerged, Holds, At, Control, Compacts
<1>2. Control' /\ ThreadTypes'
  BY <1>1, ReturnKeeps
<1>3. block[curr[t]].len \in Nat /\ index \in Seq(Entry(DOMAIN block))
  BY <1>1, BlockFields DEF Memory, Stored
<1>4. /\ index' \in Seq(Entry(DOMAIN block))
      /\ Adds(index', index, [key |-> block[curr[t]].len, at |-> curr[t]])
  BY <1>1, <1>3, InsertAdds DEF IndexMerged
<1>5. \A i \in 1..Len(index) : \E j \in 1..Len(index') : index'[j].at = index[i].at
  <2> TAKE i \in 1..Len(index)
  <2>1. PICK j \in 1..Len(index') : index'[j] = index[i]
    BY <1>4 DEF Adds
  <2> QED
    BY <2>1
<1>6. block' = block /\ live' = live /\ \A x \in DOMAIN block : block[x] \in BlockType
  BY <1>1, BlockFields DEF IndexMerged
<1>7. HandlesAreBlocks' /\ \A x \in DOMAIN block : Steady(x)
  BY <1>1, <1>6 DEF Memory, HandlesAreBlocks, Valid, Steady
<1>8. Memory' /\ Valid' = Valid
  BY <1>1, <1>4, <1>5, <1>6, <1>7, MemoryStays DEF IndexMerged
<1> QED
  BY <1>2, <1>4, <1>8

\* What internal_extend() appends, and what it is long enough for.
LEMMA LinkKeeps ==
  ASSUME ShardInv, NEW t \in Threads, Link(t)
  PROVE  \E new \in Objects : \E bytes \in Nat :
           /\ new \notin DOMAIN block /\ last' = new /\ want[t] \in Nat /\ want[t] <= bytes
           /\ Valid' = Valid \cup {new} /\ Layout' /\ LinkFields(new, bytes)
           /\ segment' \in Seq(SegmentLengths) /\ total' \in Nat /\ HandlesAreBlocks'
           /\ live' = live /\ live' \subseteq DOMAIN block'
<1>1. TypeOK /\ Memory /\ Layout /\ Kept
  BY MemoryIs DEF ShardInv
<1>2. PICK bytes \in Nat : bytes = ExtendBytes(want[t], total) /\ want[t] \in Nat /\ want[t] <= bytes
  BY <1>1, WantIs, ExtendBytesIs DEF TypeOK
<1>3. Len(segment) + 1 \in 1..MaxSegments /\ Len(segment) \in Nat
  BY <1>1 DEF Link, Layout, Inside
<1>4. \A x \in Valid : Seg(x) # Len(segment) + 1
  <2>1. \A x \in Valid : Seg(x) \in Nat /\ Seg(x) <= Len(segment)
    BY <1>1, ValidIs, BlockFields DEF Layout, Inside
  <2> QED
    BY <2>1, <1>3
<1>5. 0 \in 0..MaxSegment
  BY Limits DEF SegmentLengths
<1>6. PICK new \in Objects : /\ new = New(Len(segment) + 1, 0) /\ new \notin DOMAIN block
                             /\ Seg(new) = Len(segment) + 1 /\ Off(new) = 0
  BY <1>1, <1>3, <1>4, <1>5, NewIs
<1>7. Links(new, bytes) /\ total' = total + SegmentLength(bytes) /\ live' = live
  BY <1>2, <1>6 DEF Link, Links
<1>8. Valid' = Valid \cup {new} /\ Layout' /\ LinkFields(new, bytes)
  BY <1>1, <1>3, <1>6, <1>7, LinkLayout
<1>9. SegmentLength(bytes) \in SegmentLengths /\ SegmentLength(bytes) \in Nat
  BY SegmentLengthIs, Limits
<1>10. segment' \in Seq(SegmentLengths) /\ total' \in Nat /\ last' = new
  BY <1>1, <1>7, <1>9 DEF Links, Memory, Stored
<1>11. HandlesAreBlocks'
  <2>1. \A x \in Valid : block'[x].free = block[x].free
    BY <1>8, ValidIs DEF LinkFields
  <2>2. block'[new].free
    BY <1>8 DEF LinkFields
  <2> QED
    BY <2>1, <2>2, <1>1, <1>7, <1>8 DEF Memory, HandlesAreBlocks
<1>12. live' \subseteq DOMAIN block'
  BY <1>1, <1>7, <1>8 DEF LinkFields, Memory, Stored
<1> QED
  BY <1>2, <1>6, <1>7, <1>8, <1>10, <1>11, <1>12

LEMMA LinkKept ==
  ASSUME Kept, NEW new \in Objects, NEW bytes \in Nat, LinkFields(new, bytes),
         \A i \in 1..Len(index) : \E j \in 1..Len(index') : index'[j].at = index[i].at
  PROVE  Kept'
BY DEF Kept, LinkFields

LEMMA ExtendKeeps ==
  ASSUME ShardInv, NEW t \in Threads, Extend(t)
  PROVE  /\ Memory' /\ Control' /\ ThreadTypes' /\ LockFree /\ At(t, "extend")
         /\ \E new \in Objects : \E bytes \in Nat :
              /\ new \notin DOMAIN block
              /\ want[t] \in Nat /\ want'[t] = want[t] /\ want[t] <= bytes
              /\ Valid' = Valid \cup {new} /\ LinkFields(new, bytes)
              /\ Adds(index', index, [key |-> SegmentLength(bytes), at |-> new])
<1>1. TypeOK /\ Memory /\ Kept /\ Control /\ At(t, "extend") /\ LockFree /\ Link(t)
  BY MemoryIs DEF ShardInv, Extend, Link
<1>2. PICK new \in Objects : \E bytes \in Nat :
        /\ new \notin DOMAIN block /\ last' = new /\ want[t] \in Nat /\ want[t] <= bytes
        /\ Valid' = Valid \cup {new} /\ Layout' /\ LinkFields(new, bytes)
        /\ segment' \in Seq(SegmentLengths) /\ total' \in Nat /\ HandlesAreBlocks'
        /\ live' = live /\ live' \subseteq DOMAIN block'
  BY <1>1, LinkKeeps
<1>3. PICK bytes \in Nat :
        /\ new \notin DOMAIN block /\ last' = new /\ want[t] \in Nat /\ want[t] <= bytes
        /\ Valid' = Valid \cup {new} /\ Layout' /\ LinkFields(new, bytes)
        /\ segment' \in Seq(SegmentLengths) /\ total' \in Nat /\ HandlesAreBlocks'
        /\ live' = live /\ live' \subseteq DOMAIN block'
  BY <1>2
<1>4. /\ DOMAIN block' = DOMAIN block \cup {new} /\ block'[new].len = SegmentLength(bytes)
      /\ \A x \in DOMAIN block' : block'[x] \in BlockType
  BY <1>3 DEF LinkFields
<1>5. SegmentLength(bytes) \in Nat
  BY SegmentLengthIs, Limits
<1>6. index \in Seq(Entry(DOMAIN block'))
  BY <1>1, <1>4, EntriesGrow DEF Memory, Stored
<1>7. /\ index' \in Seq(Entry(DOMAIN block'))
      /\ Adds(index', index, [key |-> SegmentLength(bytes), at |-> new])
  BY <1>3, <1>4, <1>5, <1>6, InsertAdds DEF Extend
<1>8. \A i \in 1..Len(index) : \E j \in 1..Len(index') : index'[j].at = index[i].at
  <2> TAKE i \in 1..Len(index)
  <2>1. PICK j \in 1..Len(index') : index'[j] = index[i]
    BY <1>7 DEF Adds
  <2> QED
    BY <2>1
<1>9. Kept'
  BY <1>1, <1>3, <1>8, LinkKept
<1>10. Stored'
  BY <1>1, <1>3, <1>4, <1>7 DEF Stored, Memory
<1>11. Control' /\ ThreadTypes' /\ want'[t] = want[t]
  <2>1. Asked(t) /\ curr[t] = Null
    BY <1>1 DEF Control, At, Compacts, Allocates
  <2>2. Only(t) /\ pc'[t] = "assign" /\ asked'[t] = asked[t] /\ curr'[t] = curr[t]
    BY <1>1, GotoIs DEF Extend, Labels
  <2>3. Asked(t)'
    BY <2>1, <2>2 DEF Asked
  <2>4. want'[t] = want[t]
    BY WantStays DEF Extend
  <2> QED
    BY <2>1, <2>2, <2>3, <2>4, <1>1, ControlStays DEF Compacts, Allocates
<1> QED
  BY <1>1, <1>3, <1>7, <1>9, <1>10, <1>11 DEF Memory

\* An exception in the search: the entry is gone, and perhaps a link.
Loses(t) == SplitThrows(t) \/ SplitHalfDone(t) \/ ReindexThrows(t)

LEMMA LosesKeeps ==
  ASSUME ShardInv, NEW t \in Threads, Loses(t), live' = live
  PROVE  /\ Memory' /\ Valid' = Valid
         /\ \A x \in Valid : Steady(x) /\ block'[x].free = block[x].free
         /\ \E k \in 1..Len(index) :
              index[k].at = Found(t) /\ Found(t) \in Valid /\ Drops(index', index, k)
<1>1. TypeOK /\ Memory /\ Layout /\ Searching(t) /\ Usable(Found(t))
  BY MemoryIs DEF ShardInv, Loses, SplitThrows, SplitHalfDone, ReindexThrows, Splitting, TooShort
<1>2. PICK k \in 1..Len(index) :
        /\ Found(t) = index[k].at /\ Found(t) \in DOMAIN block
        /\ index' \in Seq(Entry(DOMAIN block)) /\ Drops(index', index, k)
  BY <1>1, SearchIs DEF Loses, SplitThrows, SplitHalfDone, ReindexThrows
<1>3. Found(t) \in Valid
  BY <1>1, <1>2 DEF Usable, Valid
<1>4. \A x \in DOMAIN block : block[x] \in BlockType
  BY <1>1, BlockFields
<1>5. /\ DOMAIN block' = DOMAIN block
      /\ \A x \in DOMAIN block :
           block'[x] \in BlockType /\ Steady(x) /\ block'[x].free = block[x].free
  <2>1. CASE block' = block
    BY <2>1, <1>4 DEF Steady
  <2>2. CASE \E n \in DOMAIN block : block' = [block EXCEPT ![n].pre = Null]
    BY <2>2, <1>4 DEF Steady, BlockType
  <2>3. CASE SplitHalfDone(t)
    <3>1. block[Found(t)].nex # Null => block[Found(t)].nex \in DOMAIN block
      BY <1>1, <1>3, NextIs, ValidIs
    <3> QED
      BY <2>1, <2>2, <2>3, <3>1 DEF SplitHalfDone
  <2> QED
    BY <2>1, <2>3 DEF Loses, SplitThrows, ReindexThrows
<1>6. HandlesAreBlocks'
  BY <1>1, <1>5 DEF Memory, HandlesAreBlocks, Valid, Steady
<1>7. \A i \in 1..Len(index) :
        block[index[i].at].valid \/ \E j \in 1..Len(index') : index'[j].at = index[i].at
  BY <1>2, <1>3, ValidIs DEF Drops
<1>8. segment' = segment /\ last' = last /\ total' = total
  BY DEF Loses, SplitThrows, SplitHalfDone, ReindexThrows
<1>9. Memory' /\ Valid' = Valid
  BY <1>1, <1>2, <1>5, <1>6, <1>7, <1>8, MemoryStays
<1> QED
  BY <1>2, <1>3, <1>5, <1>9, ValidIs

LEMMA ThrowKeeps ==
  ASSUME ShardInv, NEW t \in Threads, Throw(t)
  PROVE  Memory' /\ Control' /\ ThreadTypes'
<1>1. TypeOK /\ Memory /\ Kept /\ Control /\ Return(t) /\ (Loses(t) \/ ExtendHalfDone(t))
  BY MemoryIs DEF ShardInv, Throw, Loses
<1>2. Holds(t) \/ LockFree
  BY <1>1 DEF Loses, SplitThrows, SplitHalfDone, ReindexThrows, ExtendHalfDone, Link,
              Splitting, Searching, Holds
<1>3. Control' /\ ThreadTypes'
  BY <1>1, <1>2, ReturnKeeps
<1>4. CASE Loses(t)
  BY <1>3, <1>4, LosesKeeps DEF Throw
<1>5. CASE ExtendHalfDone(t)
  <2>1. Link(t) /\ index' = index
    BY <1>5 DEF ExtendHalfDone
  <2>2. PICK new \in Objects : \E bytes \in Nat :
          /\ new \notin DOMAIN block /\ last' = new /\ Layout' /\ LinkFields(new, bytes)
          /\ segment' \in Seq(SegmentLengths) /\ total' \in Nat /\ HandlesAreBlocks'
          /\ live' \subseteq DOMAIN block'
    BY <2>1, LinkKeeps
  <2>3. PICK bytes \in Nat : LinkFields(new, bytes)
    BY <2>2
  <2>4. /\ DOMAIN block' = DOMAIN block \cup {new}
        /\ \A x \in DOMAIN block' : block'[x] \in BlockType
    BY <2>3 DEF LinkFields
  <2>5. index' \in Seq(Entry(DOMAIN block'))
    BY <2>1, <2>4, <1>1, EntriesGrow DEF Memory, Stored
  <2>6. Kept'
    BY <2>1, <2>3, <1>1, LinkKept
  <2>7. Stored'
    BY <1>1, <2>2, <2>4, <2>5 DEF Stored, Memory
  <2> QED
    BY <1>3, <2>2, <2>6, <2>7 DEF Memory
<1> QED
  BY <1>1, <1>4, <1>5

LEMMA ShardInit == Init => ShardInv
<1> SUFFICES ASSUME Init PROVE ShardInv
  OBVIOUS
<1> DEFINE len == SegmentLength(InitSize)
<1>1. len \in SegmentLengths /\ len \in Nat \ {0} /\ InitSize \in Nat
  BY SegmentLengthIs, Limits, SizesAssumption
<1>2. /\ First \in Objects /\ First # Null /\ Seg(First) = 1 /\ Off(First) = 0
  BY SizesAssumption, Limits DEF First, Objects, Null, Seg, Off, SegmentLengths
<1>3. /\ segment = <<len>> /\ Len(segment) = 1 /\ segment[1] = len
      /\ segment \in Seq(SegmentLengths)
  BY <1>1 DEF Init
<1>4. /\ DOMAIN block = {First} /\ block[First].header /\ block[First].free
      /\ block[First].valid /\ block[First].len = len /\ block[First].nex = Null
      /\ block[First].pre = Null /\ block[First] \in BlockType /\ last = First
  BY <1>1 DEF Init, Header, BlockType
<1>5. index \in Seq(Entry({First}))
  <2>1. <<>> \in Seq(Entry({First}))
    OBVIOUS
  <2>2. First \in {First} /\ len \in Nat
    BY <1>1
  <2> QED
    BY <2>1, <2>2, InsertAdds DEF Init
<1> HIDE DEF len
<1>6. Valid = {First} /\ End(First) = len
  BY <1>1, <1>2, <1>4 DEF Valid, End
<1>7. Inside
  <2>1. 1 \in 1..MaxSegments
    BY SizesAssumption
  <2> QED
    BY <2>1, <1>1, <1>2, <1>3, <1>4, <1>6 DEF Inside
<1>8. Apart /\ Chained /\ Returning
  BY <1>2, <1>3, <1>4, <1>6 DEF Apart, Chained, Returning
<1>9. Kept /\ HandlesAreBlocks
  BY <1>4, <1>6 DEF Kept, HandlesAreBlocks, Init
<1>10. Control
  BY DEF Control, Holds, Compacts, Allocates, Init
<1>11. TypeOK
  <2>1. index \in Seq([key : Nat, at : DOMAIN block])
    BY <1>4, <1>5 DEF Entry
  <2>2. segment \in Seq({p \in Powers : MinSegment <= p /\ p <= MaxSegment})
    BY <1>3 DEF SegmentLengths
  <2>3. DOMAIN block \subseteq Objects /\ \A b \in DOMAIN block : block[b] \in BlockType
    BY <1>2, <1>4
  <2>4. total \in Nat /\ failures \in 0..MaxFailures /\ last \in DOMAIN block
    BY <1>1, <1>4, SizesAssumption DEF Init, len
  <2>5. /\ pc \in [Threads -> {"idle", "try", "extend", "assign", "back", "merge"}]
        /\ asked \in [Threads -> Requests \cup {0}] /\ curr \in [Threads -> DOMAIN block \cup {Null}]
        /\ live \subseteq DOMAIN block /\ lost \subseteq DOMAIN block
    BY DEF Init
  <2> QED
    BY <2>1, <2>2, <2>3, <2>4, <2>5 DEF TypeOK
<1> QED
  BY <1>7, <1>8, <1>9, <1>10, <1>11 DEF ShardInv, Layout

LEMMA ShardStep == ShardInv /\ [Next]_vars => ShardInv'
<1> SUFFICES ASSUME ShardInv, [Next]_vars PROVE ShardInv'
  OBVIOUS
<1>1. CASE UNCHANGED vars
  BY <1>1 DEF vars, ShardInv, TypeOK, Layout, Inside, Apart, Chained, Returning, Follows,
              End, Valid, Kept, HandlesAreBlocks, Control, Holds, Compacts, Asked, Allocates
<1>2. CASE Next
  <2>1. PICK t \in Threads :
          \/ /\ (\E n \in Requests : Allocate(t, n)) \/ (\E b \in live : Release(t, b)) \/ Step(t)
             /\ lost' = Missing(lost) /\ UNCHANGED failures
          \/ Throw(t)
    BY <1>2 DEF Next
  <2>2. Memory' /\ Control' /\ ThreadTypes'
    BY <2>1, AllocateKeeps, TryFailsKeeps, GivesUpKeeps, BackKeeps, SkipEntryKeeps,
       AssignWholeKeeps, AssignPartKeeps, ReindexKeeps, ReleaseKeeps, MergeKeeps,
       IndexMergedKeeps, ExtendKeeps, ThrowKeeps
    DEF Step
  <2>3. lost' \subseteq DOMAIN block' /\ failures' \in 0..MaxFailures
    <3>1. failures \in 0..MaxFailures /\ MaxFailures \in Nat
      BY SizesAssumption DEF ShardInv, TypeOK
    <3> QED
      BY <2>1, <3>1 DEF Missing, Throw
  <2> QED
    BY <2>2, <2>3, ShardIs
<1> QED
  BY <1>1, <1>2

LEMMA ShardInvariant == Spec => []ShardInv
BY ShardInit, ShardStep, PTL DEF Spec

\* The variables of a shard stay in their types: every object is at an address of
\* a segment, every entry of the index names an object that exists, segments have
\* the lengths a header allows.
THEOREM ShardTypes == Spec => []TypeOK
<1>1. ShardInv => TypeOK
  BY DEF ShardInv
<1> QED
  BY <1>1, ShardInvariant, PTL

\* Blocks in use are the handles given out: no split, merge or exception makes a
\* block in use free or merges it, and none is used that nobody holds.
THEOREM HandlesStay == Spec => []HandlesAreBlocks
<1>1. ShardInv => HandlesAreBlocks
  BY DEF ShardInv
<1> QED
  BY <1>1, ShardInvariant, PTL

-----------------------------------------------------------------------------
(* The refinement of AllocatedRegions                                        *)

InUse == {Region(b) : b \in live}

LEMMA RegionIs ==
  \A b : /\ Region(b).block = b /\ Region(b).seg = Seg(b) /\ Region(b).off = Off(b)
         /\ Region(b).len = block[b].len
BY DEF Region

LEMMA RegionAfter ==
  \A b : block'[b].len = block[b].len => Region(b)' = Region(b)
BY DEF Region

LEMMA RegionsStay ==
  ASSUME live' = live, \A b \in live : block'[b].len = block[b].len
  PROVE  InUse' = InUse
BY RegionAfter DEF InUse

\* Who hands out a free block, all of it or a part, allocates a region.
LEMMA Handed ==
  ASSUME ShardInv, Memory', NEW t \in Threads, Asked(t), Return(t),
         NEW b \in Valid, block[b].free, live' = live \cup {b}, block'[b].len = want[t],
         \A x \in live : block'[x].len = block[x].len
  PROVE  Promise!Allocate(t)
<1>1. want[t] = SafeTarget(asked[t]) /\ asked[t] \in Requests /\ asked[t] <= want[t]
  BY SafeTargetIs, WantIs DEF Asked, ShardInv
<1> DEFINE r == [block |-> b, seg |-> Seg(b), off |-> Off(b), len |-> want[t]]
<1>2. b \notin live /\ live \subseteq Valid /\ live' \subseteq Valid'
  BY DEF ShardInv, Memory, HandlesAreBlocks
<1>3. Region(b)' = r
  BY DEF Region
<1>4. InUse' = InUse \cup {r}
  <2>1. \A x \in live : Region(x)' = Region(x)
    BY RegionAfter
  <2> QED
    BY <2>1, <1>3 DEF InUse
<1>5. r \notin InUse
  <2> SUFFICES ASSUME NEW x \in live, r = Region(x) PROVE FALSE
    BY DEF InUse
  <2>1. r.block = b /\ Region(x).block = x
    BY RegionIs
  <2> QED
    BY <2>1, <1>2
<1>6. ASSUME NEW s \in InUse PROVE ~Promise!Overlap(r, s)
  <2>1. PICK x \in live : s = Region(x)
    BY DEF InUse
  <2>2. x # b /\ x \in Valid' /\ b \in Valid'
    BY <1>2
  <2>3. End(x)' = Off(x) + block[x].len /\ End(b)' = Off(b) + want[t]
    BY DEF End
  <2>4. Seg(x) = Seg(b) => End(b)' <= Off(x) \/ End(x)' <= Off(b)
    BY <2>2 DEF Memory, Layout, Apart
  <2>5. Off(x) \in Nat /\ Off(b) \in Nat /\ block[x].len \in Nat /\ want[t] \in Nat
    BY <1>1, <1>2, ValidIs, BlockFields, SafeTargetIs DEF ShardInv
  <2>6. s.seg = Seg(x) /\ s.off = Off(x) /\ s.len = block[x].len
    BY <2>1, RegionIs
  <2>7. r.seg = Seg(b) /\ r.off = Off(b) /\ r.len = want[t]
    OBVIOUS
  <2> HIDE DEF r
  <2> QED
    BY <2>3, <2>4, <2>5, <2>6, <2>7 DEF Promise!Overlap
<1>7. r.len >= asked[t]
  BY <1>1, SafeTargetIs, SizesAssumption
<1>8. r \in InUse' \ InUse
  BY <1>4, <1>5
<1>9. Promise!Answered(t)
  BY <1>1, SafeTargetIs, SizesAssumption DEF Promise!Answered, Return
<1> HIDE DEF r
<1> QED
  BY <1>4, <1>6, <1>7, <1>8, <1>9 DEF Promise!Allocate, InUse

\* Who returns with nothing is refused, if it asked, and else did nothing.
LEMMA TurnedDown ==
  ASSUME ShardInv, NEW t \in Threads, Return(t), InUse' = InUse
  PROVE  Promise!Next \/ asked' = asked
<1>1. CASE asked[t] = 0
  BY <1>1 DEF Return, ShardInv, TypeOK
<1>2. CASE asked[t] # 0
  BY <1>2 DEF Return, Promise!Next, Promise!Refuse, Promise!Answered, InUse
<1> QED
  BY <1>1, <1>2

PromiseStep == Promise!Next \/ (InUse' = InUse /\ asked' = asked)

LEMMA RegionsStep == ShardInv /\ ShardInv' /\ [Next]_vars => PromiseStep
<1> SUFFICES ASSUME ShardInv, ShardInv', [Next]_vars PROVE PromiseStep
  OBVIOUS
<1>0. Memory' /\ live \subseteq Valid /\ \A b \in live : b \in Valid /\ ~block[b].free
  <2>1. Memory'
    BY MemoryIs DEF ShardInv, Memory, Stored, TypeOK, Entry, SegmentLengths
  <2> QED
    BY <2>1 DEF ShardInv, HandlesAreBlocks
<1>1. ASSUME UNCHANGED <<block, live>> PROVE InUse' = InUse
  BY <1>1, RegionsStay
<1>2. ASSUME NEW t \in Threads, SkipEntry(t) PROVE InUse' = InUse
  <2>1. Valid' = Valid /\ live' = live /\ block' = Reachable(block, index')
    BY <1>2, SkipEntryKeeps DEF SkipEntry
  <2>2. \A x \in DOMAIN block' : block'[x] = block[x]
    BY <2>1 DEF Reachable, Restrict
  <2>3. \A x \in live : x \in DOMAIN block'
    BY <2>1, <1>0 DEF Valid
  <2> QED
    BY <2>1, <2>2, <2>3, RegionsStay
<1>3. ASSUME NEW t \in Threads, AssignWhole(t) PROVE Promise!Next
  <2>1. /\ TypeOK /\ Control /\ Searching(t) /\ Usable(Found(t))
        /\ block[Found(t)].len = want[t] /\ live' = live \cup {Found(t)}
    BY <1>3 DEF AssignWhole, ShardInv
  <2>2. PICK b \in DOMAIN block : b = Found(t)
    BY <2>1, SearchIs
  <2>3. block' = [block EXCEPT ![b].free = FALSE]
    BY <1>3, <2>2 DEF AssignWhole
  <2>4. \A x \in DOMAIN block : block'[x].len = block[x].len
    <3>1. \A x \in DOMAIN block : block[x] \in BlockType
      BY <2>1, BlockFields
    <3> QED
      BY <3>1, <2>3 DEF BlockType
  <2>5. Asked(t) /\ Return(t) /\ b \in Valid /\ block[b].free
    BY <1>3, <2>1, <2>2 DEF AssignWhole, Searching, Control, Usable, Valid, Allocates
  <2>6. \A x \in live : block'[x].len = block[x].len
    BY <2>4, <1>0, ValidIs
  <2>7. block'[b].len = want[t] /\ live' = live \cup {b}
    BY <2>1, <2>2, <2>4
  <2> QED
    BY <2>5, <2>6, <2>7, <1>0, Handed DEF Promise!Next
<1>4. ASSUME NEW t \in Threads, AssignPart(t) PROVE Promise!Next
  <2>1. PICK new : /\ new \notin DOMAIN block /\ Found(t) \in Valid /\ block[Found(t)].free
                   /\ want[t] < block[Found(t)].len
                   /\ SplitFields(Found(t), want[t], new)
    BY <1>4, AssignPartKeeps
  <2>2. PICK b \in Valid : b = Found(t)
    BY <2>1
  <2>3. Asked(t) /\ Return(t) /\ live' = live \cup {b}
    BY <1>4, <2>2 DEF ShardInv, AssignPart, Searching, Control, Allocates
  <2>4. block'[b].len = want[t]
    BY <2>1, <2>2 DEF SplitFields
  <2>5. \A x \in live : block'[x].len = block[x].len
    BY <2>1, <2>2, <1>0, ValidIs DEF SplitFields
  <2> QED
    BY <2>1, <2>2, <2>3, <2>4, <2>5, <1>0, Handed DEF Promise!Next
<1>5. ASSUME NEW t \in Threads, NEW b \in live, Release(t, b) PROVE Promise!Next
  <2>1. live' = live \ {b} /\ \A x \in Valid : block'[x].len = block[x].len
    BY <1>5, ReleaseKeeps DEF Release, Steady
  <2>2. \A x \in live : Region(x)' = Region(x)
    BY <2>1, <1>0, RegionAfter
  <2>3. \A x \in live : Region(x) = Region(b) => x = b
    BY RegionIs
  <2>4. InUse' = InUse \ {Region(b)} /\ Region(b) \in InUse
    BY <2>1, <2>2, <2>3 DEF InUse
  <2>5. asked' = asked
    BY <1>5 DEF Release
  <2> QED
    BY <2>4, <2>5 DEF Promise!Next, Promise!Release, InUse
<1>6. ASSUME NEW t \in Threads, Merge(t) PROVE InUse' = InUse
  <2>1. PICK c \in Valid : \E n \in Valid :
          block[c].free /\ block[n].free /\ Valid' = Valid \ {n} /\ MergeFields(c, n)
    BY <1>6, MergeKeeps
  <2>2. PICK n \in Valid :
          block[c].free /\ block[n].free /\ Valid' = Valid \ {n} /\ MergeFields(c, n)
    BY <2>1
  <2>3. \A x \in live : x # c /\ x \in DOMAIN block'
    BY <2>2, <1>0 DEF Valid
  <2>4. \A x \in live : block'[x].len = block[x].len
    BY <2>2, <2>3 DEF MergeFields
  <2>5. live' = live
    BY <1>6 DEF Merge
  <2> QED
    BY <2>4, <2>5, RegionsStay
<1>7. ASSUME NEW t \in Threads, Link(t) PROVE InUse' = InUse
  <2>1. PICK new \in Objects : \E bytes \in Nat : LinkFields(new, bytes)
    BY <1>7, LinkKeeps
  <2>2. \A x \in live : block'[x].len = block[x].len
    BY <2>1, <1>0, ValidIs DEF LinkFields
  <2> QED
    BY <2>2, <1>7, RegionsStay DEF Link
<1>8. ASSUME NEW t \in Threads, Throw(t) PROVE InUse' = InUse
  <2>1. CASE ExtendHalfDone(t)
    BY <2>1, <1>7 DEF ExtendHalfDone
  <2>2. CASE Loses(t)
    <3>1. \A x \in live : block'[x].len = block[x].len
      BY <1>8, <2>2, <1>0, LosesKeeps DEF Throw, Steady
    <3> QED
      BY <3>1, <1>8, RegionsStay DEF Throw
  <2> QED
    BY <1>8, <2>1, <2>2 DEF Throw, Loses
<1>9. ASSUME NEW t \in Threads, NEW n \in Requests, Allocate(t, n) PROVE Promise!Next
  <2>1. asked[t] = 0 /\ asked' = [asked EXCEPT ![t] = n]
    BY <1>9 DEF ShardInv, Control, Allocate, At, Allocates
  <2>2. InUse' = InUse
    BY <1>9, <1>1 DEF Allocate
  <2> QED
    BY <2>1, <2>2 DEF Promise!Next, Promise!Ask, InUse
<1>10. CASE UNCHANGED vars
  BY <1>1, <1>10 DEF vars, PromiseStep
<1>11. CASE Next
  <2>1. PICK t \in Threads :
          \/ (\E n \in Requests : Allocate(t, n)) \/ (\E b \in live : Release(t, b)) \/ Step(t)
          \/ Throw(t)
    BY <1>11 DEF Next
  <2>2. CASE TryFails(t) \/ Reindex(t) \/ Back(t)
    BY <2>2, <1>1 DEF TryFails, Reindex, Back, PromiseStep
  <2>3. CASE ExtendThrows(t) \/ AssignFails(t) \/ IndexMerged(t)
    <3>1. Return(t) /\ InUse' = InUse
      BY <2>3, <1>1 DEF ExtendThrows, AssignFails, IndexMerged
    <3> QED
      BY <3>1, TurnedDown DEF PromiseStep
  <2>4. CASE Extend(t)
    BY <2>4, <1>7 DEF Extend, PromiseStep
  <2>5. CASE Throw(t)
    BY <2>5, <1>8, TurnedDown DEF Throw, PromiseStep
  <2>6. CASE SkipEntry(t) \/ Merge(t)
    BY <2>6, <1>2, <1>6 DEF SkipEntry, Merge, PromiseStep
  <2> QED
    BY <2>1, <2>2, <2>3, <2>4, <2>5, <2>6, <1>3, <1>4, <1>5, <1>9 DEF Step, PromiseStep
<1> QED
  BY <1>10, <1>11

\* A shard keeps its promise for every number of threads and every request: what
\* it hands to a caller is as long as that caller asked for (allocate(), lines
\* 261-272), overlaps nothing in use, and stays where it is and as long as it is;
\* a call that is refused or throws leaves what is in use alone.
THEOREM ShardImplementsRegions == Spec => KeepsPromise
<1>1. Init => Promise!Init
  BY DEF Init, Promise!Init
<1>2. ShardInv /\ ShardInv' /\ [Next]_vars => [Promise!Next]_(Promise!vars)
  BY RegionsStep DEF PromiseStep, Promise!vars, InUse
<1> QED
  BY <1>1, <1>2, ShardInvariant, PTL DEF Spec, KeepsPromise, Promise!Spec

-----------------------------------------------------------------------------
(* The promises of a shard that rest on ShardInv: a search comes to an end, *)
(* what a failed search says is true, a refused request was too large,      *)
(* released memory is in one piece, and the list is the memory, byte for    *)
(* byte and both ways.                                                      *)


(* The search                                                              *)

Fit(seq, m) == {k \in 1..Len(seq) : seq[k].key >= m}

LEMMA FitIsFinite ==
  ASSUME NEW S, NEW seq \in Seq(S), NEW m
  PROVE  IsFiniteSet(Fit(seq, m)) /\ Cardinality(Fit(seq, m)) \in Nat
<1>1. PICK n \in Nat : n = Len(seq)
  OBVIOUS
<1>2. IsFiniteSet(1..n)
  BY FS_Interval
<1>3. Fit(seq, m) \subseteq 1..n
  BY <1>1 DEF Fit
<1> QED
  BY <1>2, <1>3, FS_Subset, FS_CardinalityType

\* Places that a function sends to different places are no more than these.
LEMMA FewerPlaces ==
  ASSUME NEW A, NEW B, IsFiniteSet(B), NEW f \in [A -> B],
         \A i, j \in A : f[i] = f[j] => i = j
  PROVE  Cardinality(A) <= Cardinality(B)
BY FS_Injection DEF Injection, IsInjective

LEMMA RemovingFits ==
  ASSUME NEW S, NEW seq \in Seq(Entry(S)), NEW m \in Nat, NEW k \in Fit(seq, m)
  PROVE  Cardinality(Fit(RemoveAt(seq, k), m)) < Cardinality(Fit(seq, m))
<1> DEFINE A == Fit(RemoveAt(seq, k), m)
           B == Fit(seq, m) \ {k}
           f == [j \in A |-> IF j < k THEN j ELSE j + 1]
<1>1. k \in 1..Len(seq) /\ Len(seq) \in Nat
  BY DEF Fit
<1>2. /\ Len(RemoveAt(seq, k)) = Len(seq) - 1
      /\ \A j \in 1..(Len(seq) - 1) :
           RemoveAt(seq, k)[j] = IF j < k THEN seq[j] ELSE seq[j + 1]
  BY <1>1, Removing, Zenon
<1>3. A \subseteq 1..(Len(seq) - 1)
  BY <1>2 DEF Fit
<1>4. ASSUME NEW j \in A PROVE (IF j < k THEN j ELSE j + 1) \in B
  <2>1. j \in 1..(Len(seq) - 1) /\ RemoveAt(seq, k)[j].key >= m
    BY <1>3, <1>4 DEF Fit
  <2>2. CASE j < k
    BY <2>1, <2>2, <1>1, <1>2 DEF Fit
  <2>3. CASE ~(j < k)
    <3>1. j + 1 \in 1..Len(seq) /\ j + 1 # k
      BY <2>1, <2>3, <1>1
    <3>2. RemoveAt(seq, k)[j] = seq[j + 1]
      BY <2>1, <2>3, <1>2
    <3> QED
      BY <2>1, <2>3, <3>1, <3>2 DEF Fit
  <2> QED
    BY <2>2, <2>3
<1>5. f \in [A -> B]
  BY <1>4
<1>6. ASSUME NEW i \in A, NEW j \in A, f[i] = f[j] PROVE i = j
  BY <1>1, <1>3, <1>6
<1>7. IsFiniteSet(Fit(seq, m)) /\ Cardinality(Fit(seq, m)) \in Nat
  BY FitIsFinite
<1>8. IsFiniteSet(B) /\ Cardinality(B) = Cardinality(Fit(seq, m)) - 1
  BY <1>7, FS_RemoveElement
<1> HIDE DEF A, B, f
<1>9. Cardinality(A) <= Cardinality(B)
  BY <1>5, <1>6, <1>8, FewerPlaces
<1>10. Cardinality(A) \in Nat
  <2>1. RemoveAt(seq, k) \in Seq(Entry(S))
    BY <1>1, Removing
  <2> QED
    BY <2>1, FitIsFinite DEF A
<1> QED
  BY <1>7, <1>8, <1>9, <1>10 DEF A

LEMMA InsertingShort ==
  ASSUME NEW S, NEW seq \in Seq(Entry(S)), NEW m \in Nat, NEW key \in Nat, NEW b \in S, key < m
  PROVE  Cardinality(Fit(Insert(seq, key, b), m)) <= Cardinality(Fit(seq, m))
<1>1. /\ Len(Insert(seq, key, b)) = Len(seq) + 1
      /\ \E k \in 1..(Len(seq) + 1) :
           Shifted(Insert(seq, key, b), seq, k, [key |-> key, at |-> b])
  BY Inserting
<1> DEFINE new == Insert(seq, key, b)
           e == [key |-> key, at |-> b]
<1>11. Len(new) = Len(seq) + 1
  BY <1>1
<1>2. PICK k \in 1..(Len(seq) + 1) : Shifted(new, seq, k, e)
  BY <1>1
<1> HIDE DEF new
<1>3. Len(seq) \in Nat /\ new[k].key = key
  BY <1>2 DEF Shifted
<1> HIDE DEF e
<1> DEFINE A == Fit(new, m)
           B == Fit(seq, m)
           f == [j \in A |-> IF j < k THEN j ELSE j - 1]
<1>4. A \subseteq 1..(Len(seq) + 1) /\ k \notin A
  BY <1>11, <1>3 DEF Fit
<1>5. ASSUME NEW j \in A PROVE (IF j < k THEN j ELSE j - 1) \in B
  <2>1. j \in 1..(Len(seq) + 1) /\ j # k /\ new[j].key >= m
    BY <1>4, <1>5 DEF Fit
  <2>2. CASE j < k
    <3>1. j \in 1..Len(seq)
      BY <2>1, <2>2, <1>3
    <3> QED
      BY <2>1, <2>2, <3>1, <1>2 DEF Shifted, Fit
  <2>3. CASE ~(j < k)
    <3>1. j - 1 \in 1..Len(seq) /\ j - 1 >= k /\ (j - 1) + 1 = j
      BY <2>1, <2>3, <1>3
    <3>2. new[(j - 1) + 1] = seq[j - 1]
      BY <3>1, <1>2 DEF Shifted
    <3> QED
      BY <2>1, <2>3, <3>1, <3>2 DEF Fit
  <2> QED
    BY <2>2, <2>3
<1>6. f \in [A -> B]
  BY <1>5
<1>7. ASSUME NEW i \in A, NEW j \in A, f[i] = f[j] PROVE i = j
  BY <1>3, <1>4, <1>7
<1>8. IsFiniteSet(B)
  BY FitIsFinite
<1> HIDE DEF A, B, f
<1>9. Cardinality(A) <= Cardinality(B)
  BY <1>6, <1>7, <1>8, FewerPlaces
<1> QED
  BY <1>9 DEF A, B, new

\* Who takes a step: the others stay where they are.
Acts(t) == \/ \E n \in Requests : Allocate(t, n)
           \/ \E b \in live : Release(t, b)
           \/ Step(t) \/ Throw(t)

LEMMA OthersWait ==
  ASSUME TypeOK, NEW t \in Threads, NEW u \in Threads, t # u, Acts(u)
  PROVE  pc'[t] = pc[t]
BY DEF TypeOK, Acts, Step, Allocate, Release, TryFails, Extend, ExtendThrows, AssignFails,
       SkipEntry, AssignWhole, AssignPart, Reindex, Back, Merge, IndexMerged, Throw, Return, Goto

LEMMA ActorHolds ==
  ASSUME NEW t \in Threads, Acts(t)
  PROVE  Holds(t) \/ LockFree
BY DEF Acts, Step, Allocate, Release, TryFails, Extend, ExtendThrows, AssignFails, Link,
       SkipEntry, AssignWhole, AssignPart, Reindex, Back, Merge, IndexMerged, Throw,
       SplitThrows, SplitHalfDone, ReindexThrows, ExtendHalfDone, Splitting, Searching, At, Holds

LEMMA SearcherActs ==
  ASSUME TypeOK, Control, NEW t \in Threads, NEW u \in Threads, Holds(t), Acts(u)
  PROVE  t = u
BY ActorHolds DEF Control, LockFree, Holds

LEMMA TurnShrinks ==
  ASSUME ShardInv, NEW t \in Threads, Acts(t), Searching(t), pc'[t] = pc[t]
  PROVE  Cardinality(Fitting(want[t])') < Cardinality(Fitting(want[t]))
<1>1. TypeOK /\ index \in Seq(Entry(DOMAIN block)) /\ want[t] \in Nat
  BY WantIs DEF ShardInv, TypeOK, Entry
<1>2. SkipEntry(t) \/ Reindex(t)
  BY <1>1 DEF Acts, Step, Allocate, Release, TryFails, Extend, ExtendThrows, AssignFails,
       AssignWhole, AssignPart, Back, Merge, IndexMerged, Throw, Return, Goto, Searching, At, TypeOK, Link
<1>3. want'[t] = want[t] /\ Memory'
  BY <1>2, SkipEntryKeeps, ReindexKeeps, WantStays DEF SkipEntry, Reindex
<1>4. DOMAIN index = 1..Len(index) /\ DOMAIN index' = 1..Len(index')
  BY <1>1, <1>3 DEF Memory, Stored
<1>5. Fitting(want[t]) = Fit(index, want[t]) /\ Fitting(want[t])' = Fit(index', want[t])
  BY <1>3, <1>4 DEF Fitting, Fit
<1>6. PICK k \in 1..Len(index) :
           /\ k = LowerBound(want[t]) /\ k \in Fitting(want[t])
  BY <1>1, <1>4, LowerBoundIs DEF Searching
<1>7. /\ Cardinality(Fit(OtherEntries(t), want[t])) < Cardinality(Fit(index, want[t]))
      /\ OtherEntries(t) \in Seq(Entry(DOMAIN block))
  BY <1>1, <1>5, <1>6, RemovingFits, Removing DEF OtherEntries
<1>8. CASE SkipEntry(t)
  BY <1>5, <1>7, <1>8 DEF SkipEntry
<1>9. CASE Reindex(t)
  <2>1. block[Found(t)].len < want[t] /\ Found(t) \in DOMAIN block /\ block[Found(t)].len \in Nat
    BY <1>1, <1>9, ReindexKeeps, BlockFields DEF Reindex, TooShort
  <2>2. Cardinality(Fit(index', want[t])) <= Cardinality(Fit(OtherEntries(t), want[t]))
    BY <2>1, <1>1, <1>7, <1>9, InsertingShort DEF Reindex
  <2>3. Cardinality(Fit(index', want[t])) \in Nat
    BY <1>3, FitIsFinite DEF Memory, Stored
  <2>4. /\ Cardinality(Fit(index, want[t])) \in Nat
        /\ Cardinality(Fit(OtherEntries(t), want[t])) \in Nat
    BY <1>1, <1>7, FitIsFinite
  <2> QED
    BY <2>2, <2>3, <2>4, <1>5, <1>7
<1> QED
  BY <1>2, <1>8, <1>9

LEMMA NextActs ==
  ASSUME Next
  PROVE  \E t \in Threads : Acts(t)
BY DEF Next, Acts

\* However stale the index is, a turn of the loop that does not end it (lines
\* 89-131 of MemoryAllocator.cpp) leaves fewer entries that promise enough.
THEOREM SearchEnds == Spec => SearchShrinks
<1> DEFINE Shrinks == \A t \in Threads : Searching(t) /\ pc'[t] = pc[t]
                        => Cardinality(Fitting(want[t])') < Cardinality(Fitting(want[t]))
<1>1. ShardInv /\ [Next]_vars => [Shrinks]_vars
  <2> SUFFICES ASSUME ShardInv, Next PROVE Shrinks
    OBVIOUS
  <2> SUFFICES ASSUME NEW t \in Threads, Searching(t), pc'[t] = pc[t]
               PROVE Cardinality(Fitting(want[t])') < Cardinality(Fitting(want[t]))
    OBVIOUS
  <2>1. PICK u \in Threads : Acts(u)
    BY NextActs
  <2>2. t = u
    BY <2>1, SearcherActs DEF ShardInv, Searching, Holds
  <2> QED
    BY <2>1, <2>2, TurnShrinks
<1> QED
  BY <1>1, ShardInvariant, PTL DEF Spec, SearchShrinks

-----------------------------------------------------------------------------
(* Free memory is found. Hidden blocks are free, and no entry long enough    *)
(* shows them; while a release compacts, the run of free blocks that begins  *)
(* at curr may end in one, and curr is another once something was merged.    *)

Free == {b \in Valid : block[b].free}
Shown(b) == \E k \in 1..Len(index) : index[k].at = b /\ index[k].key >= block[b].len
Hidden == {b \in Free \ lost : ~Shown(b)}

\* All blocks behind c up to r are free, and of the segment of c.
Spans(c, r) ==
  /\ r \in Valid /\ Seg(r) = Seg(c) /\ Off(c) <= Off(r)
  /\ \A b \in Valid : Seg(b) = Seg(c) /\ Off(c) < Off(b) /\ Off(b) <= Off(r)
                        => block[b].free /\ ~block[b].header

NoneHidden == (\A t \in Threads : ~Compacts(t)) => Hidden = {}
HiddenAtEnds ==
  \A t \in Threads :
    /\ At(t, "back") => \E r \in Valid : Spans(curr[t], r) /\ Hidden \subseteq {r}
    /\ At(t, "merge") => \E r \in Valid : Spans(curr[t], r) /\ Hidden \subseteq {r, curr[t]}
Roomy ==
  \A t \in Threads : At(t, "assign") /\ want[t] <= MaxSegment
    => \E b \in Free \ lost : block[b].len >= want[t]

Findable == NoneHidden /\ HiddenAtEnds /\ Roomy

\* Where no two blocks have a third one between them.
LEMMA NoneBetween ==
  ASSUME TypeOK, Layout, NEW p \in Valid, NEW c \in Valid, block[p].nex = c, ~block[c].header
  PROVE  /\ Seg(c) = Seg(p) /\ Off(p) < Off(c)
         /\ \A x \in Valid : Seg(x) = Seg(p) /\ Off(p) < Off(x) /\ Off(x) <= Off(c) => x = c
<1>1. p \in DOMAIN block /\ c \in DOMAIN block /\ c # Null
  BY ValidIs, BlockFields
<1>2. Seg(c) = Seg(p) /\ Off(c) = End(p)
  BY <1>1, NextIs DEF Follows
<1>3. /\ Off(p) \in Nat /\ Off(c) \in Nat /\ End(p) = Off(p) + block[p].len
      /\ block[p].len \in Nat /\ block[p].len > 0
      /\ block[c].len \in Nat /\ block[c].len > 0 /\ End(c) = Off(c) + block[c].len
  BY <1>1, BlockFields DEF Layout, Inside
<1>4. ASSUME NEW x \in Valid, Seg(x) = Seg(p), Off(p) < Off(x), Off(x) <= Off(c)
      PROVE  x = c
  <2>1. /\ Off(x) \in Nat /\ block[x].len \in Nat /\ block[x].len > 0
        /\ End(x) = Off(x) + block[x].len
    BY ValidIs, BlockFields DEF Layout, Inside
  <2>2. End(p) <= Off(x)
    <3>1. x # p /\ (End(p) <= Off(x) \/ End(x) <= Off(p))
      BY <1>3, <1>4, <2>1 DEF Layout, Apart
    <3> QED
      BY <3>1, <1>3, <1>4, <2>1
  <2>3. x # c => End(c) <= Off(x) \/ End(x) <= Off(c)
    BY <1>2, <1>4 DEF Layout, Apart
  <2> QED
    BY <1>2, <1>3, <1>4, <2>1, <2>2, <2>3
<1> QED
  BY <1>2, <1>3, <1>4

LEMMA SpansSelf ==
  ASSUME TypeOK, NEW c \in Valid
  PROVE  Spans(c, c)
<1>1. \A x \in Valid : Off(x) \in Nat
  BY ValidIs, BlockFields
<1> QED
  BY <1>1 DEF Spans

LEMMA SpansFromBefore ==
  ASSUME TypeOK, Layout, NEW p \in Valid, NEW c \in Valid, block[p].nex = c, ~block[c].header,
         block[c].free, NEW r, Spans(c, r)
  PROVE  Spans(p, r)
<1>1. /\ Seg(c) = Seg(p) /\ Off(p) < Off(c)
      /\ \A x \in Valid : Seg(x) = Seg(p) /\ Off(p) < Off(x) /\ Off(x) <= Off(c) => x = c
  BY NoneBetween
<1>2. \A x \in Valid : Off(x) \in Nat
  BY ValidIs, BlockFields
<1>3. r \in Valid /\ Seg(r) = Seg(c) /\ Off(c) <= Off(r)
  BY DEF Spans
<1>4. ASSUME NEW x \in Valid, Seg(x) = Seg(p), Off(p) < Off(x), Off(x) <= Off(r)
      PROVE  block[x].free /\ ~block[x].header
  <2>1. CASE Off(x) <= Off(c)
    BY <2>1, <1>1, <1>4
  <2>2. CASE Off(c) < Off(x)
    BY <2>2, <1>1, <1>4 DEF Spans
  <2> QED
    BY <2>1, <2>2, <1>2
<1> QED
  BY <1>1, <1>2, <1>3, <1>4 DEF Spans

LEMMA SpansNext ==
  ASSUME TypeOK, Layout, NEW p \in Valid, NEW c \in Valid, block[p].nex = c, ~block[c].header,
         block[c].free
  PROVE  Spans(p, c)
BY SpansSelf, SpansFromBefore

\* A run of more than one block has a second one, and it can be merged.
LEMMA SpanGoesOn ==
  ASSUME TypeOK, Layout, NEW c \in Valid, NEW r, Spans(c, r), r # c
  PROVE  Mergeable(block[c].nex)
<1>1. /\ r \in Valid /\ Seg(r) = Seg(c) /\ Off(c) <= Off(r)
      /\ c \in DOMAIN block /\ r \in DOMAIN block
  BY ValidIs DEF Spans
<1>2. /\ Off(c) \in Nat /\ Off(r) \in Nat /\ Seg(c) \in Nat
      /\ block[c].len \in Nat /\ block[c].len > 0 /\ End(c) = Off(c) + block[c].len
      /\ block[r].len \in Nat /\ block[r].len > 0 /\ End(r) = Off(r) + block[r].len
  BY <1>1, BlockFields DEF Layout, Inside
<1>3. End(c) <= Off(r)
  <2>1. End(c) <= Off(r) \/ End(r) <= Off(c)
    BY <1>1 DEF Layout, Apart
  <2> QED
    BY <2>1, <1>1, <1>2
<1>4. End(r) <= segment[Seg(c)] /\ segment[Seg(c)] \in Nat
  <2>1. Seg(c) \in 1..MaxSegments /\ Seg(c) <= Len(segment) /\ Len(segment) \in Nat
    BY <1>1, BlockFields DEF Layout, Inside
  <2>2. Seg(c) \in 1..Len(segment)
    BY <2>1
  <2> QED
    BY <1>1, <2>2, SegmentFields DEF Layout, Inside
<1>5. End(c) # segment[Seg(c)]
  BY <1>2, <1>3, <1>4
<1>6. c # last
  BY <1>5 DEF Layout, Chained
<1>7. PICK n \in Valid : n = block[c].nex /\ Follows(n, c)
  BY <1>6 DEF Layout, Chained
<1>8. n \in DOMAIN block /\ n # Null /\ block[n].header \in BOOLEAN /\ Off(n) \in Nat
  BY ValidIs, BlockFields
<1>9. ~block[n].header /\ Seg(n) = Seg(c) /\ Off(n) = End(c)
  BY <1>5, <1>7, <1>8 DEF Follows
<1>10. block[n].free
  BY <1>2, <1>3, <1>9 DEF Spans
<1> QED
  BY <1>7, <1>8, <1>9, <1>10 DEF Mergeable

LEMMA SpansStay ==
  ASSUME NEW c, NEW r, Spans(c, r), r \in Valid', Valid' \subseteq Valid,
         \A x \in Valid' : block'[x].free = block[x].free /\ block'[x].header = block[x].header
  PROVE  Spans(c, r)'
BY DEF Spans, Seg, Off

-----------------------------------------------------------------------------
(* What a step hides                                                         *)

StillShows(b) ==
  \A i \in 1..Len(index) : index[i].at = b => \E j \in 1..Len(index') : index'[j] = index[i]
Alike(b) == block'[b].free = block[b].free /\ block'[b].len = block[b].len

LEMMA HiddenStays ==
  ASSUME ShardInv, Memory', NEW bs, lost \subseteq bs, lost' = Missing(bs), NEW D,
         \A b \in Valid' : b \notin D => b \in Valid /\ Alike(b) /\ StillShows(b)
  PROVE  /\ Hidden' \subseteq Hidden \cup D
         /\ \A b \in Hidden' : b \notin bs /\ ~Shown(b)' /\ b \in Valid' /\ block'[b].free
<1>1. DOMAIN index' = 1..Len(index')
  BY DEF Memory, Stored
<1>2. ASSUME NEW b \in Hidden'
      PROVE  b \notin bs /\ ~Shown(b)' /\ b \in Valid' /\ block'[b].free
  <2>1. b \in Valid' /\ block'[b].free /\ ~Shown(b)' /\ b \notin lost'
    BY DEF Hidden, Free
  <2>2. b \in DOMAIN block' /\ block'[b].valid
    BY <2>1 DEF Valid
  <2>3. ~\E k \in DOMAIN index' : index'[k].at = b /\ index'[k].key >= block'[b].len
    BY <2>1, <1>1 DEF Shown
  <2> QED
    BY <2>1, <2>2, <2>3 DEF Missing
<1>3. ASSUME NEW b \in Hidden', b \notin D
      PROVE  b \in Hidden
  <2>1. b \in Valid /\ Alike(b) /\ StillShows(b) /\ b \notin lost /\ ~Shown(b)' /\ block[b].free
    BY <1>2, <1>3 DEF Alike
  <2>2. ~Shown(b)
    BY <2>1 DEF Shown, StillShows, Alike
  <2> QED
    BY <2>1, <2>2 DEF Hidden, Free
<1> QED
  BY <1>2, <1>3

LEMMA ShowsIfDropped ==
  ASSUME NEW k \in 1..Len(index), Drops(index', index, k), NEW b, b # index[k].at
  PROVE  StillShows(b)
BY DEF Drops, StillShows

LEMMA ShowsIfAdded ==
  ASSUME NEW k \in 1..Len(index), NEW others, Drops(others, index, k), NEW e,
         Adds(index', others, e), NEW b, b # index[k].at
  PROVE  StillShows(b)
BY DEF Drops, Adds, StillShows

\* The others do not hold the lock, before and after.
LEMMA OthersOut ==
  ASSUME ShardInv, NEW t \in Threads, Acts(t)
  PROVE  \A u \in Threads : u # t =>
           pc'[u] = pc[u] /\ ~Holds(u) /\ ~Compacts(u) /\ ~At(u, "assign")
<1>1. TypeOK /\ Control
  BY DEF ShardInv
<1>2. \A u \in Threads : u # t => ~Holds(u)
  BY <1>1, SearcherActs
<1> QED
  BY <1>1, <1>2, OthersWait DEF Holds, Compacts, At

\* A call that returns, or has not begun to compact, leaves nothing hidden.
LEMMA FoundAgain ==
  ASSUME ShardInv, NEW t \in Threads, Acts(t), pc'[t] \in {"idle", "try", "extend"}, Hidden' = {}
  PROVE  Findable'
<1>1. \A u \in Threads : ~Compacts(u)' /\ ~At(u, "assign")' /\ ~At(u, "back")' /\ ~At(u, "merge")'
  BY OthersOut DEF Compacts, At
<1> QED
  BY <1>1 DEF Findable, NoneHidden, HiddenAtEnds, Roomy

\* Nothing is hidden when a thread that does not compact takes a step.
LEMMA NothingHidden ==
  ASSUME ShardInv, Findable, NEW t \in Threads, Acts(t), ~Compacts(t)
  PROVE  Hidden = {}
BY OthersOut DEF Findable, NoneHidden

Normal == lost' = Missing(lost)

LEMMA SearchPlace ==
  ASSUME ShardInv, NEW t \in Threads, Searching(t)
  PROVE  /\ ~Compacts(t) /\ Found(t) \in DOMAIN block /\ want[t] \in Nat
         /\ \E k \in 1..Len(index) : /\ Found(t) = index[k].at /\ index[k].key >= want[t]
                                     /\ Drops(OtherEntries(t), index, k)
<1>1. TypeOK
  BY DEF ShardInv
<1> QED
  BY <1>1, SearchIs, WantIs DEF Searching, Compacts

LEMMA QuietFinds ==
  ASSUME ShardInv, Findable, Normal, NEW t \in Threads,
         \/ \E n \in Requests : Allocate(t, n)
         \/ TryFails(t) \/ ExtendThrows(t) \/ AssignFails(t)
  PROVE  Findable'
<1>1. TypeOK /\ Acts(t) /\ ~Compacts(t) /\ block' = block /\ index' = index
  BY DEF ShardInv, Acts, Step, Allocate, TryFails, ExtendThrows, AssignFails, At, Compacts
<1>2. Memory' /\ Valid' = Valid
  BY MemoryIs, MemoryUnchanged, <1>1 DEF Allocate, TryFails, ExtendThrows, AssignFails
<1>3. Hidden' \subseteq Hidden \cup {}
  BY <1>1, <1>2, HiddenStays DEF Normal, Alike, StillShows
<1>4. Hidden = {}
  BY <1>1, NothingHidden
<1>5. pc'[t] \in {"idle", "try", "extend"}
  BY <1>1 DEF TypeOK, Allocate, TryFails, ExtendThrows, AssignFails, Return, Goto
<1> QED
  BY <1>1, <1>3, <1>4, <1>5, FoundAgain

\* The search goes on: what there is to find is still there.
LEMMA SkipEntryIs ==
  ASSUME ShardInv, NEW t \in Threads, SkipEntry(t)
  PROVE  /\ Valid' = Valid /\ \A b \in Valid : block'[b] = block[b]
         /\ \E k \in 1..Len(index) : index[k].at = Found(t) /\ Drops(index', index, k)
<1>1. Valid' = Valid
  BY SkipEntryKeeps
<1>2. block' = Reachable(block, index')
  BY DEF SkipEntry
<1>3. \A b \in Valid : block'[b] = block[b]
  <2> SUFFICES ASSUME NEW b \in Valid PROVE block'[b] = block[b]
    OBVIOUS
  <2>1. b \in DOMAIN block'
    BY <1>1, ValidIs DEF Valid
  <2> QED
    BY <1>2, <2>1 DEF Reachable, Restrict
<1> QED
  BY <1>1, <1>3, SearchPlace DEF SkipEntry

LEMMA RoomStays ==
  ASSUME ShardInv, Roomy, NEW t \in Threads, Acts(t), Searching(t), Valid' = Valid,
         pc' = pc, want' = want, lost' \subseteq lost, \A b \in Valid : Alike(b)
  PROVE  Roomy'
BY DEF Roomy, Free, Alike, At

LEMMA SkipEntryFinds ==
  ASSUME ShardInv, Findable, Normal, NEW t \in Threads, SkipEntry(t)
  PROVE  Findable'
<1>1. Acts(t) /\ Searching(t) /\ ~Usable(Found(t)) /\ pc' = pc /\ want' = want
  BY WantStays DEF Acts, Step, SkipEntry
<1>2. Memory' /\ ~Compacts(t) /\ lost' \subseteq lost
  BY <1>1, SkipEntryKeeps, SearchPlace DEF Normal, Missing
<1>3. /\ Valid' = Valid /\ \A b \in Valid : block'[b] = block[b]
      /\ \E k \in 1..Len(index) : index[k].at = Found(t) /\ Drops(index', index, k)
  BY SkipEntryIs
<1>4. \A b \in Valid' : b \notin {Found(t)} => b \in Valid /\ Alike(b) /\ StillShows(b)
  BY <1>3, ShowsIfDropped DEF Alike
<1>5. /\ Hidden' \subseteq Hidden \cup {Found(t)}
      /\ \A b \in Hidden' : b \in Valid' /\ block'[b].free
  BY <1>2, <1>4, HiddenStays DEF Normal
<1>6. \A b \in Hidden' : Usable(b)
  BY <1>3, <1>5, ValidIs DEF Usable
<1>7. Hidden' = {}
  <2>1. Hidden = {}
    BY <1>1, <1>2, NothingHidden
  <2> QED
    BY <2>1, <1>1, <1>5, <1>6
<1>8. \A u \in Threads : ~At(u, "back")' /\ ~At(u, "merge")'
  BY <1>1, <1>2, OthersOut DEF Compacts, At
<1>9. Roomy'
  BY <1>1, <1>2, <1>3, RoomStays DEF Findable, Alike
<1> QED
  BY <1>7, <1>8, <1>9 DEF Findable, NoneHidden, HiddenAtEnds

LEMMA AssignWholeFinds ==
  ASSUME ShardInv, Findable, Normal, NEW t \in Threads, AssignWhole(t)
  PROVE  Findable'
<1>1. Acts(t) /\ Searching(t) /\ Usable(Found(t))
  BY DEF Acts, Step, AssignWhole
<1>2. TypeOK /\ Memory' /\ Valid' = Valid /\ ~Compacts(t)
  BY <1>1, AssignWholeKeeps, SearchPlace DEF ShardInv
<1>3. PICK b \in DOMAIN block : b = Found(t)
  BY <1>1, SearchPlace
<1>4. PICK k \in 1..Len(index) : index[k].at = b /\ Drops(index', index, k)
  BY <1>1, <1>3, SearchPlace DEF AssignWhole
<1>5. ~block'[b].free /\ \A x \in DOMAIN block : x # b => block'[x] = block[x]
  <2>1. block[b] \in BlockType /\ block' = [block EXCEPT ![b].free = FALSE]
    BY <1>2, <1>3, BlockFields DEF AssignWhole
  <2> QED
    BY <2>1 DEF BlockType
<1>6. \A x \in Valid' : x \notin {b} => x \in Valid /\ Alike(x) /\ StillShows(x)
  BY <1>2, <1>4, <1>5, ShowsIfDropped, ValidIs DEF Alike
<1>7. Hidden' \subseteq Hidden \cup {b} /\ \A x \in Hidden' : block'[x].free
  BY <1>2, <1>6, HiddenStays DEF Normal
<1>8. Hidden = {}
  BY <1>1, <1>2, NothingHidden
<1>9. pc'[t] = "idle"
  BY <1>2, ReturnIs DEF AssignWhole
<1> QED
  BY <1>1, <1>5, <1>7, <1>8, <1>9, FoundAgain

LEMMA AssignPartFinds ==
  ASSUME ShardInv, Findable, Normal, NEW t \in Threads, AssignPart(t)
  PROVE  Findable'
<1>1. Acts(t) /\ Searching(t)
  BY DEF Acts, Step, AssignPart
<1>2. TypeOK /\ Memory' /\ ~Compacts(t) /\ want[t] \in Nat
  BY <1>1, AssignPartKeeps, SearchPlace DEF ShardInv
<1>3. PICK w \in Nat : w = want[t]
  BY <1>2
<1>4. PICK b \in Valid : b = Found(t)
  BY AssignPartKeeps
<1>5. PICK new : /\ new \notin DOMAIN block /\ Valid' = Valid \cup {new}
                 /\ SplitFields(b, w, new)
                 /\ Adds(index', OtherEntries(t), [key |-> block[b].len - w, at |-> new])
  BY <1>3, <1>4, AssignPartKeeps
<1>6. PICK k \in 1..Len(index) : index[k].at = b /\ Drops(OtherEntries(t), index, k)
  BY <1>1, <1>4, SearchPlace
<1>7. /\ ~block'[b].free /\ block'[new].len = block[b].len - w
      /\ \A x \in Valid : x # b => Alike(x)
  BY <1>5, ValidIs DEF SplitFields, Alike
<1>8. \A x \in Valid' : x \notin {b, new} => x \in Valid /\ Alike(x) /\ StillShows(x)
  BY <1>5, <1>6, <1>7, ShowsIfAdded
<1>9. /\ Hidden' \subseteq Hidden \cup {b, new}
      /\ \A x \in Hidden' : ~Shown(x)' /\ block'[x].free
  BY <1>2, <1>8, HiddenStays DEF Normal
<1>10. Shown(new)'
  <2>1. PICK j \in 1..Len(index') : index'[j] = [key |-> block[b].len - w, at |-> new]
    BY <1>5 DEF Adds
  <2>2. index'[j].at = new /\ index'[j].key = block[b].len - w
    BY <2>1
  <2>3. block[b].len - w \in Int
    BY <1>2, <1>3, ValidIs, BlockFields
  <2> QED
    BY <2>2, <2>3, <1>7 DEF Shown
<1>11. Hidden = {}
  BY <1>1, <1>2, NothingHidden
<1>12. pc'[t] = "idle"
  BY <1>2, ReturnIs DEF AssignPart
<1> QED
  BY <1>1, <1>7, <1>9, <1>10, <1>11, <1>12, FoundAgain

LEMMA ReindexFinds ==
  ASSUME ShardInv, Findable, Normal, NEW t \in Threads, Reindex(t)
  PROVE  Findable'
<1>1. Acts(t) /\ Searching(t) /\ pc' = pc /\ want' = want /\ block' = block
  BY WantStays DEF Acts, Step, Reindex
<1>2. /\ TypeOK /\ Memory' /\ ~Compacts(t) /\ lost' \subseteq lost /\ Valid' = Valid
      /\ \A x \in Valid : Alike(x)
  BY <1>1, ReindexKeeps, SearchPlace DEF ShardInv, Normal, Missing, Valid, Alike
<1>3. PICK b \in DOMAIN block : b = Found(t)
  BY ReindexKeeps
<1>4. PICK k \in 1..Len(index) : index[k].at = b /\ Drops(OtherEntries(t), index, k)
  BY <1>1, <1>3, SearchPlace
<1>5. Adds(index', OtherEntries(t), [key |-> block[b].len, at |-> b])
  BY <1>3, ReindexKeeps
<1>6. \A x \in Valid' : x \notin {b} => x \in Valid /\ Alike(x) /\ StillShows(x)
  BY <1>2, <1>4, <1>5, ShowsIfAdded
<1>7. Hidden' \subseteq Hidden \cup {b} /\ \A x \in Hidden' : ~Shown(x)'
  BY <1>2, <1>6, HiddenStays DEF Normal
<1>8. Shown(b)'
  <2>1. PICK j \in 1..Len(index') : index'[j] = [key |-> block[b].len, at |-> b]
    BY <1>5 DEF Adds
  <2>2. index'[j].at = b /\ index'[j].key = block'[b].len /\ block[b].len \in Nat
    BY <2>1, <1>1, <1>2, BlockFields
  <2> QED
    BY <2>2, <1>1 DEF Shown
<1>9. Hidden = {}
  BY <1>1, <1>2, NothingHidden
<1>10. Hidden' = {}
  BY <1>7, <1>8, <1>9
<1>11. \A u \in Threads : ~At(u, "back")' /\ ~At(u, "merge")'
  BY <1>1, <1>2, OthersOut DEF Compacts, At
<1>12. Roomy'
  BY <1>1, <1>2, RoomStays DEF Findable
<1> QED
  BY <1>10, <1>11, <1>12 DEF Findable, NoneHidden, HiddenAtEnds

LEMMA ExtendFinds ==
  ASSUME ShardInv, Findable, Normal, NEW t \in Threads, Extend(t)
  PROVE  Findable'
<1>1. Acts(t) /\ LockFree /\ At(t, "extend") /\ TypeOK
  BY ExtendKeeps DEF Acts, Step, ShardInv
<1>2. Memory' /\ ~Compacts(t) /\ lost' \subseteq lost /\ lost \subseteq DOMAIN block
  BY <1>1, ExtendKeeps DEF Compacts, At, Normal, Missing, TypeOK
<1>3. PICK new \in Objects : \E bytes \in Nat :
        /\ new \notin DOMAIN block
        /\ want[t] \in Nat /\ want'[t] = want[t] /\ want[t] <= bytes
        /\ Valid' = Valid \cup {new} /\ LinkFields(new, bytes)
        /\ Adds(index', index, [key |-> SegmentLength(bytes), at |-> new])
  BY ExtendKeeps
<1>4. PICK bytes \in Nat :
        /\ new \notin DOMAIN block
        /\ want[t] \in Nat /\ want'[t] = want[t] /\ want[t] <= bytes
        /\ Valid' = Valid \cup {new} /\ LinkFields(new, bytes)
        /\ Adds(index', index, [key |-> SegmentLength(bytes), at |-> new])
  BY <1>3
<1>5. PICK len \in Nat : len = SegmentLength(bytes) /\ (want[t] <= MaxSegment => want[t] <= len)
  <2>1. SegmentLength(bytes) \in Nat
    BY SegmentLengthIs, Limits
  <2>2. want[t] <= MaxSegment => want[t] <= SegmentLength(bytes)
    BY <1>4, SegmentLengthIs, Limits DEF SegmentLengths
  <2> QED
    BY <2>1, <2>2
<1>6. /\ block'[new].free /\ block'[new].len = len
      /\ \A x \in Valid : Alike(x)
  BY <1>4, <1>5, ValidIs DEF LinkFields, Alike
<1>7. \A x \in Valid' : x \notin {new} => x \in Valid /\ Alike(x) /\ StillShows(x)
  BY <1>4, <1>6 DEF StillShows, Adds
<1>8. Hidden' \subseteq Hidden \cup {new} /\ \A x \in Hidden' : ~Shown(x)'
  BY <1>2, <1>7, HiddenStays DEF Normal
<1>9. Shown(new)'
  <2>1. PICK j \in 1..Len(index') : index'[j] = [key |-> len, at |-> new]
    BY <1>4, <1>5 DEF Adds
  <2>2. index'[j].at = new /\ index'[j].key = len
    BY <2>1
  <2> QED
    BY <2>2, <1>6 DEF Shown
<1>10. Hidden' = {}
  <2>1. Hidden = {}
    BY <1>1, <1>2, NothingHidden
  <2> QED
    BY <2>1, <1>8, <1>9
<1>11. pc'[t] = "assign"
  BY <1>1 DEF Extend, Goto, TypeOK
<1>12. \A u \in Threads : ~At(u, "back")' /\ ~At(u, "merge")' /\ (At(u, "assign")' => u = t)
  BY <1>1, <1>11, OthersOut DEF Compacts, At
<1>13. Roomy'
  <2>1. new \in Free' /\ new \notin lost'
    BY <1>2, <1>4, <1>6 DEF Free
  <2> QED
    BY <2>1, <1>4, <1>5, <1>6, <1>12 DEF Roomy
<1> QED
  BY <1>10, <1>12, <1>13 DEF Findable, NoneHidden, HiddenAtEnds

\* An exception hides no block but the one it is about.
LEMMA ThrowFinds ==
  ASSUME ShardInv, Findable, NEW t \in Threads, Throw(t)
  PROVE  Findable'
<1>1. Acts(t) /\ TypeOK /\ Memory' /\ live' = live
  BY ThrowKeeps DEF Acts, ShardInv, Throw
<1>2. \/ Loses(t) /\ lost' = Missing(lost \cup {Found(t)})
      \/ ExtendHalfDone(t) /\ lost' = Missing(lost \cup {last'})
  BY DEF Throw, Loses
<1>3. ~Compacts(t)
  BY <1>2 DEF Loses, SplitThrows, SplitHalfDone, ReindexThrows, ExtendHalfDone, Link,
              Splitting, Searching, Compacts, At
<1>4. Hidden = {}
  BY <1>1, <1>3, NothingHidden
<1>5. ASSUME Loses(t), lost' = Missing(lost \cup {Found(t)}) PROVE Hidden' = {}
  <2>1. PICK k \in 1..Len(index) :
          index[k].at = Found(t) /\ Found(t) \in Valid /\ Drops(index', index, k)
    BY <1>1, <1>5, LosesKeeps
  <2>2. Valid' = Valid /\ \A x \in Valid : Alike(x)
    BY <1>1, <1>5, LosesKeeps DEF Steady, Alike
  <2>3. PICK b \in Valid : b = Found(t)
    BY <2>1
  <2>4. \A x \in Valid' : x \notin {b} => x \in Valid /\ Alike(x) /\ StillShows(x)
    BY <2>1, <2>2, <2>3, ShowsIfDropped
  <2>5. Hidden' \subseteq Hidden \cup {b} /\ \A x \in Hidden' : x \notin lost \cup {b}
    BY <1>1, <1>5, <2>3, <2>4, HiddenStays
  <2> QED
    BY <1>4, <2>5
<1>6. ASSUME ExtendHalfDone(t), lost' = Missing(lost \cup {last'}) PROVE Hidden' = {}
  <2>1. Link(t) /\ index' = index
    BY <1>6 DEF ExtendHalfDone
  <2>2. PICK new \in Objects : \E bytes \in Nat :
           new \notin DOMAIN block /\ last' = new /\ Valid' = Valid \cup {new} /\ LinkFields(new, bytes)
    BY <2>1, LinkKeeps
  <2>3. \A x \in Valid' : x \notin {new} => x \in Valid /\ Alike(x) /\ StillShows(x)
    BY <2>1, <2>2, ValidIs DEF LinkFields, Alike, StillShows
  <2>4. Hidden' \subseteq Hidden \cup {new} /\ \A x \in Hidden' : x \notin lost \cup {new}
    BY <1>1, <1>6, <2>2, <2>3, HiddenStays
  <2> QED
    BY <1>4, <2>4
<1>7. pc'[t] = "idle"
  BY <1>1, ReturnIs DEF Throw
<1> QED
  BY <1>1, <1>2, <1>5, <1>6, <1>7, FoundAgain

\* A release: the run begins with the block released.
LEMMA ReleaseFinds ==
  ASSUME ShardInv, Findable, Normal, NEW t \in Threads, NEW b \in live, Release(t, b)
  PROVE  Findable'
<1>1. Acts(t) /\ TypeOK /\ LockFree /\ At(t, "idle") /\ Memory' /\ Valid' = Valid
  BY ReleaseKeeps DEF Acts, ShardInv, Release
<1>2. /\ b \in Valid /\ curr'[t] = b
      /\ \A x \in Valid : Steady(x) /\ (x # b => block'[x].free = block[x].free)
  BY ReleaseKeeps
<1>3. index' = index /\ pc'[t] = "back"
  BY <1>1 DEF Release, Goto, TypeOK
<1>4. \A x \in Valid' : x \notin {b} => x \in Valid /\ Alike(x) /\ StillShows(x)
  BY <1>1, <1>2, <1>3 DEF Alike, Steady, StillShows
<1>5. Hidden' \subseteq Hidden \cup {b}
  BY <1>1, <1>4, HiddenStays DEF Normal
<1>6. Hidden = {}
  BY <1>1, NothingHidden DEF Compacts, At
<1>7. Spans(b, b)'
  <2>1. \A x \in Valid' : Off(x) \in Nat
    BY <1>1, ValidIs, BlockFields
  <2> QED
    BY <2>1, <1>1, <1>2 DEF Spans, Off, Seg
<1>8. \A u \in Threads : u # t => ~Compacts(u)' /\ ~At(u, "assign")'
  BY <1>1, OthersOut DEF Compacts, At
<1>9. HiddenAtEnds'
  BY <1>1, <1>2, <1>3, <1>5, <1>6, <1>7, <1>8 DEF HiddenAtEnds, At, Compacts
<1>10. NoneHidden' /\ Roomy'
  BY <1>3, <1>8 DEF NoneHidden, Roomy, At, Compacts
<1> QED
  BY <1>9, <1>10 DEF Findable

\* A step back: the run grows by the block before it.
LEMMA BackIs ==
  ASSUME ShardInv, NEW t \in Threads, Back(t)
  PROVE  \E c \in Valid :
           /\ c = curr[t] /\ block[c].free /\ At(t, "back")
           /\ \/ \E p \in Valid :
                   /\ p = block[c].pre /\ block[p].nex = c /\ block[p].free /\ ~block[c].header
                   /\ curr'[t] = p /\ pc'[t] = "back"
              \/ ~FollowsFree(c) /\ curr'[t] = c /\ pc'[t] = "merge"
<1>1. /\ At(t, "back") /\ TypeOK /\ Layout
      /\ pc[t] = "back" /\ curr[t] \in Valid /\ block[curr[t]].free
  BY DEF Back, At, ShardInv, Control, Compacts
<1>2. PICK c \in Valid : c = curr[t]
  BY <1>1
<1>3. CASE FollowsFree(c) /\ curr' = [curr EXCEPT ![t] = block[@].pre] /\ UNCHANGED pc
  <2>1. block[c].pre # Null /\ block[block[c].pre].free /\ ~block[c].header
    BY <1>3 DEF FollowsFree
  <2>2. block[c].pre \in Valid /\ block[block[c].pre].nex = c
    BY <2>1, <1>1 DEF Layout, Returning
  <2>3. curr'[t] = block[c].pre /\ pc'[t] = "back"
    BY <1>1, <1>2, <1>3 DEF TypeOK
  <2> QED
    BY <1>1, <1>2, <2>1, <2>2, <2>3
<1>4. CASE ~FollowsFree(c) /\ Goto(t, "merge") /\ UNCHANGED curr
  BY <1>1, <1>2, <1>4 DEF TypeOK, Goto
<1> QED
  BY <1>2, <1>3, <1>4 DEF Back

LEMMA BackFinds ==
  ASSUME ShardInv, Findable, Normal, NEW t \in Threads, Back(t)
  PROVE  Findable'
<1>1. /\ Acts(t) /\ TypeOK /\ Layout /\ Memory' /\ index' = index /\ block' = block
  BY BackKeeps DEF Acts, Step, ShardInv, Back
<1>2. PICK c \in Valid :
           /\ c = curr[t] /\ block[c].free /\ At(t, "back")
           /\ \/ \E p \in Valid :
                   /\ p = block[c].pre /\ block[p].nex = c /\ block[p].free /\ ~block[c].header
                   /\ curr'[t] = p /\ pc'[t] = "back"
              \/ ~FollowsFree(c) /\ curr'[t] = c /\ pc'[t] = "merge"
  BY BackIs
<1>3. PICK r \in Valid : Spans(c, r) /\ Hidden \subseteq {r}
  BY <1>2 DEF Findable, HiddenAtEnds
<1>4. Valid' = Valid
  BY <1>1 DEF Valid
<1>5. Hidden' \subseteq Hidden \cup {}
  BY <1>1, <1>4, HiddenStays DEF Normal, Alike, StillShows
<1>6. \A x : Spans(x, r) => Spans(x, r)'
  BY <1>1, <1>4 DEF Spans, Seg, Off
<1>7. \A u \in Threads : u # t => ~Compacts(u)' /\ ~At(u, "assign")'
  BY <1>1, OthersOut DEF Compacts, At
<1>8. /\ pc'[t] \in {"back", "merge"}
      /\ Spans(curr[t], r)'
  <2>1. CASE \E p \in Valid :
               /\ p = block[c].pre /\ block[p].nex = c /\ block[p].free /\ ~block[c].header
               /\ curr'[t] = p /\ pc'[t] = "back"
    <3>1. PICK p \in Valid : /\ block[p].nex = c /\ ~block[c].header
                             /\ curr'[t] = p /\ pc'[t] = "back"
      BY <2>1
    <3>2. Spans(p, r)
      BY <3>1, <1>1, <1>2, <1>3, SpansFromBefore
    <3> QED
      BY <3>1, <3>2, <1>6
  <2>2. CASE ~FollowsFree(c) /\ curr'[t] = c /\ pc'[t] = "merge"
    BY <2>2, <1>3, <1>6
  <2> QED
    BY <2>1, <2>2, <1>2
<1>9. HiddenAtEnds'
  BY <1>3, <1>4, <1>5, <1>7, <1>8 DEF HiddenAtEnds, At, Compacts
<1>10. NoneHidden' /\ Roomy'
  BY <1>7, <1>8 DEF NoneHidden, Roomy, At, Compacts
<1> QED
  BY <1>9, <1>10 DEF Findable

LEMMA MergeFinds ==
  ASSUME ShardInv, Findable, Normal, NEW t \in Threads, Merge(t)
  PROVE  Findable'
<1>1. /\ Acts(t) /\ TypeOK /\ Memory' /\ index' = index /\ pc' = pc /\ curr' = curr
      /\ At(t, "merge")
  BY MergeKeeps DEF Acts, Step, ShardInv, Merge
<1>2. PICK c \in Valid : \E n \in Valid :
        /\ c = curr[t] /\ n = block[c].nex /\ c # n /\ n # Null
        /\ Valid' = Valid \ {n} /\ MergeFields(c, n)
  BY MergeKeeps
<1>3. PICK n \in Valid :
        /\ c = curr[t] /\ n = block[c].nex /\ c # n
        /\ Valid' = Valid \ {n} /\ MergeFields(c, n)
  BY <1>2
<1>4. PICK r \in Valid : Spans(c, r) /\ Hidden \subseteq {r, c}
  BY <1>1, <1>2 DEF Findable, HiddenAtEnds
<1>5. \A x \in Valid' : /\ block'[x].free = block[x].free /\ block'[x].header = block[x].header
                        /\ x # c => Alike(x)
  BY <1>3 DEF MergeFields, Alike, Valid
<1>6. \A x \in Valid' : x \notin {c} => x \in Valid /\ Alike(x) /\ StillShows(x)
  BY <1>1, <1>3, <1>5 DEF StillShows
<1>7. Hidden' \subseteq Hidden \cup {c} /\ \A x \in Hidden' : x \in Valid'
  BY <1>1, <1>6, HiddenStays DEF Normal
<1>8. PICK s \in Valid' : Spans(c, s) /\ (r \in Valid' => s = r)
  <2>1. c \in Valid'
    BY <1>3
  <2> QED
    BY <2>1, <1>1, <1>4, SpansSelf
<1>9. Spans(c, s)'
  BY <1>3, <1>5, <1>8, SpansStay
<1>10. Hidden' \subseteq {s, c}
  BY <1>4, <1>7, <1>8
<1>11. \A u \in Threads : u # t => ~Compacts(u)' /\ ~At(u, "assign")'
  BY <1>1, OthersOut DEF Compacts, At
<1>12. HiddenAtEnds'
  BY <1>1, <1>2, <1>8, <1>9, <1>10, <1>11 DEF HiddenAtEnds, At, Compacts
<1>13. NoneHidden' /\ Roomy'
  BY <1>1, <1>11 DEF NoneHidden, Roomy, At, Compacts
<1> QED
  BY <1>12, <1>13 DEF Findable

\* The run has one block when nothing more can be merged, and it is shown.
LEMMA IndexMergedFinds ==
  ASSUME ShardInv, Findable, Normal, NEW t \in Threads, IndexMerged(t)
  PROVE  Findable'
<1>1. /\ Acts(t) /\ TypeOK /\ Layout /\ Memory' /\ Valid' = Valid /\ block' = block
      /\ At(t, "merge") /\ ~Mergeable(block[curr[t]].nex)
      /\ Adds(index', index, [key |-> block[curr[t]].len, at |-> curr[t]])
  BY IndexMergedKeeps DEF Acts, Step, ShardInv, IndexMerged
<1>2. PICK c \in Valid : c = curr[t]
  BY <1>1 DEF ShardInv, Control, Compacts, At
<1>3. PICK r \in Valid : Spans(c, r) /\ Hidden \subseteq {r, c}
  BY <1>1, <1>2 DEF Findable, HiddenAtEnds
<1>4. r = c
  BY <1>1, <1>2, <1>3, SpanGoesOn
<1>5. \A x \in Valid' : x \notin {} => x \in Valid /\ Alike(x) /\ StillShows(x)
  BY <1>1 DEF Alike, StillShows, Adds
<1>6. Hidden' \subseteq Hidden \cup {} /\ \A x \in Hidden' : ~Shown(x)'
  BY <1>1, <1>5, HiddenStays DEF Normal
<1>7. Shown(c)'
  <2>1. PICK j \in 1..Len(index') : index'[j] = [key |-> block[c].len, at |-> c]
    BY <1>1, <1>2 DEF Adds
  <2>2. index'[j].at = c /\ index'[j].key = block'[c].len /\ block[c].len \in Nat
    BY <2>1, <1>1, <1>2, ValidIs, BlockFields
  <2> QED
    BY <2>2, <1>1 DEF Shown
<1>8. pc'[t] = "idle"
  BY <1>1, ReturnIs DEF IndexMerged
<1> QED
  BY <1>1, <1>3, <1>4, <1>6, <1>7, <1>8, FoundAgain

LEMMA FindableInit == Init => Findable
<1> SUFFICES ASSUME Init PROVE Findable
  OBVIOUS
<1>1. TypeOK
  BY ShardInit DEF ShardInv
<1>2. index \in Seq(Entry(DOMAIN block)) /\ index = Insert(<<>>, SegmentLength(InitSize), First)
  BY <1>1 DEF TypeOK, Entry, Init
<1>3. PICK len \in Nat : len = SegmentLength(InitSize)
  BY SegmentLengthIs, Limits, SizesAssumption
<1>4. DOMAIN block = {First} /\ block[First].len = len
  BY <1>3 DEF Init, Header
<1>5. Adds(index, <<>>, [key |-> len, at |-> First])
  <2>1. <<>> \in Seq(Entry({First})) /\ First \in {First}
    OBVIOUS
  <2> QED
    BY <2>1, <1>2, <1>3, InsertAdds
<1>6. PICK k \in 1..Len(index) : index[k] = [key |-> len, at |-> First]
  BY <1>5 DEF Adds
<1>7. Shown(First)
  <2>1. index[k].at = First /\ index[k].key = len
    BY <1>6
  <2> QED
    BY <2>1, <1>4 DEF Shown
<1>8. Hidden = {}
  BY <1>4, <1>7 DEF Hidden, Free, Valid
<1> QED
  BY <1>8 DEF Findable, NoneHidden, HiddenAtEnds, Roomy, Init, At

LEMMA FindableStep == ShardInv /\ Findable /\ [Next]_vars => Findable'
<1> SUFFICES ASSUME ShardInv, Findable, [Next]_vars PROVE Findable'
  OBVIOUS
<1>1. CASE UNCHANGED vars
  BY <1>1, WantStays DEF vars, Findable, NoneHidden, HiddenAtEnds, Roomy, Hidden, Shown, Free, Valid, Spans,
              Compacts, At
<1>2. CASE Next
  <2>1. PICK t \in Threads :
          \/ /\ (\E n \in Requests : Allocate(t, n)) \/ (\E b \in live : Release(t, b)) \/ Step(t)
             /\ lost' = Missing(lost)
          \/ Throw(t)
    BY <1>2 DEF Next
  <2> QED
    BY <2>1, QuietFinds, SkipEntryFinds, AssignWholeFinds, AssignPartFinds, ReindexFinds,
       ReleaseFinds, BackFinds, MergeFinds, IndexMergedFinds, ExtendFinds, ThrowFinds
    DEF Step, Normal
<1> QED
  BY <1>1, <1>2

LEMMA FindableAlways == Spec => [](ShardInv /\ Findable)
BY ShardInit, FindableInit, ShardStep, FindableStep, PTL DEF Spec

\* An index that is out of date hides no free block that is long enough: if
\* try_assign() returns nullptr there is none, other than the few that an
\* exception took out of the index (lines 89-131 of MemoryAllocator.cpp).
THEOREM FailureMeansNoFit == Spec => FailedTrySawNoFit
<1> DEFINE Saw == \A t \in Threads : At(t, "try") /\ pc'[t] = "extend"
                    => \A b \in Valid \ lost : block[b].free => block[b].len < want[t]
<1>1. ShardInv /\ Findable /\ [Next]_vars => [Saw]_vars
  <2> SUFFICES ASSUME ShardInv, Findable, Next, NEW t \in Threads, At(t, "try"), pc'[t] = "extend",
                      NEW b \in Valid \ lost, block[b].free
               PROVE  block[b].len < want[t]
    OBVIOUS
  <2>1. PICK u \in Threads : Acts(u)
    BY NextActs
  <2>2. TypeOK /\ t = u /\ ~Compacts(t)
    BY <2>1, SearcherActs DEF ShardInv, At, Holds, Compacts
  <2>3. Fitting(want[t]) = {}
    BY <2>1, <2>2 DEF Acts, Step, Allocate, Release, TryFails, Extend, ExtendThrows, AssignFails,
       SkipEntry, AssignWhole, AssignPart, Reindex, Back, Merge, IndexMerged, Throw, Return, Goto,
       Link, At, TypeOK
  <2>4. Shown(b)
    BY <2>1, <2>2, NothingHidden DEF Hidden, Free
  <2>5. PICK k \in 1..Len(index) : index[k].at = b /\ index[k].key >= block[b].len
    BY <2>4 DEF Shown
  <2>6. index \in Seq(Entry(DOMAIN block)) /\ want[t] \in Nat
    BY <2>2, WantIs DEF TypeOK, Entry
  <2>7. index[k].key \in Nat /\ k \in DOMAIN index /\ block[b].len \in Nat
    <3>1. index[k] \in Entry(DOMAIN block) /\ k \in DOMAIN index
      BY <2>6
    <3>2. block[b].len \in Nat
      BY <2>2, ValidIs, BlockFields
    <3> QED
      BY <3>1, <3>2 DEF Entry
  <2>8. ~(index[k].key >= want[t])
    BY <2>3, <2>7 DEF Fitting
  <2> QED
    BY <2>5, <2>6, <2>7, <2>8
<1> QED
  BY <1>1, FindableAlways, PTL DEF Spec, FailedTrySawNoFit

\* Once memory could be had, extend_and_assign() returns nullptr only to a
\* request that no segment can hold (lines 193-196, and 25-37 for the limit).
THEOREM OnlyTooLargeIsRefused == Spec => NullIsTooLarge
<1> DEFINE Refused ==
      \A t \in Threads :
        At(t, "assign") /\ pc'[t] = "idle" /\ live' = live /\ failures' = failures
          => want[t] > MaxSegment
<1>1. ShardInv /\ Findable /\ [Next]_vars => [Refused]_vars
  <2> SUFFICES ASSUME ShardInv, Findable, Next, NEW t \in Threads, At(t, "assign"), pc'[t] = "idle",
                      live' = live, failures' = failures
               PROVE  want[t] > MaxSegment
    OBVIOUS
  <2>1. PICK u \in Threads : Acts(u)
    BY NextActs
  <2>2. TypeOK /\ t = u /\ ~Compacts(t) /\ failures \in Nat
    BY <2>1, SearcherActs, SizesAssumption DEF ShardInv, At, Holds, Compacts, TypeOK
  <2>3. ~AssignWhole(t) /\ ~AssignPart(t)
    <3>1. ASSUME AssignWhole(t) \/ AssignPart(t) PROVE FALSE
      <4>1. Usable(Found(t)) /\ Found(t) \in DOMAIN block /\ live' = live \cup {Found(t)}
        BY <3>1, SearchPlace DEF AssignWhole, AssignPart
      <4>2. Found(t) \notin live
        BY <4>1 DEF ShardInv, HandlesAreBlocks, Usable
      <4> QED
        BY <4>1, <4>2
    <3> QED
      BY <3>1
  <2>4. ~Throw(t)
    BY <2>2 DEF Throw
  <2>5. AssignFails(t)
    BY <2>1, <2>2, <2>3, <2>4 DEF Acts, Step, Allocate, Release, TryFails, Extend, ExtendThrows,
       SkipEntry, Reindex, Back, Merge, IndexMerged, Goto, Link, At, TypeOK
  <2>6. SUFFICES ASSUME want[t] <= MaxSegment PROVE FALSE
    BY <2>2, WantIs, Limits DEF SegmentLengths
  <2>7. PICK b \in Free \ lost : block[b].len >= want[t]
    BY <2>6 DEF Findable, Roomy
  <2>8. Shown(b) /\ b \in Valid
    BY <2>1, <2>2, NothingHidden DEF Hidden, Free
  <2>9. PICK k \in 1..Len(index) : index[k].at = b /\ index[k].key >= block[b].len
    BY <2>8 DEF Shown
  <2>10. index \in Seq(Entry(DOMAIN block)) /\ want[t] \in Nat
    BY <2>2, WantIs DEF TypeOK, Entry
  <2>11. index[k].key \in Nat /\ k \in DOMAIN index /\ block[b].len \in Nat
    <3>1. index[k] \in Entry(DOMAIN block) /\ k \in DOMAIN index
      BY <2>10
    <3>2. block[b].len \in Nat
      BY <2>2, <2>8, ValidIs, BlockFields
    <3> QED
      BY <3>1, <3>2 DEF Entry
  <2>12. ~(index[k].key >= want[t])
    BY <2>5, <2>11 DEF Fitting, AssignFails
  <2> QED
    BY <2>7, <2>9, <2>10, <2>11, <2>12
<1> QED
  BY <1>1, FindableAlways, PTL DEF Spec, NullIsTooLarge

-----------------------------------------------------------------------------
(* The list in order. Only an exception in a split tears a block off the one *)
(* before it.                                                                *)

Torn == {b \in Valid \ {First} : block[b].pre = Null}
TornAreFew == /\ IsFiniteSet(Torn) /\ Cardinality(Torn) \in Nat
              /\ Cardinality(Torn) <= failures

LEMMA NoneTorn ==
  ASSUME ShardInv, TornAreFew, Torn' \subseteq Torn, failures' = failures
  PROVE  TornAreFew'
<1>1. IsFiniteSet(Torn') /\ Cardinality(Torn') <= Cardinality(Torn)
  BY FS_Subset DEF TornAreFew
<1>2. Cardinality(Torn') \in Nat
  BY <1>1, FS_CardinalityType
<1>3. Cardinality(Torn) \in Nat /\ Cardinality(Torn) <= failures
  BY DEF TornAreFew
<1>4. failures \in Nat
  BY SizesAssumption DEF ShardInv, TypeOK
<1> QED
  BY <1>1, <1>2, <1>3, <1>4 DEF TornAreFew

LEMMA OneTorn ==
  ASSUME ShardInv, TornAreFew, NEW x, Torn' \subseteq Torn \cup {x}, failures' = failures + 1
  PROVE  TornAreFew'
<1>1. /\ IsFiniteSet(Torn \cup {x})
      /\ Cardinality(Torn \cup {x}) = IF x \in Torn THEN Cardinality(Torn) ELSE Cardinality(Torn) + 1
  BY FS_AddElement DEF TornAreFew
<1>2. IsFiniteSet(Torn') /\ Cardinality(Torn') <= Cardinality(Torn \cup {x})
  BY <1>1, FS_Subset
<1>3. Cardinality(Torn') \in Nat
  BY <1>2, FS_CardinalityType
<1>4. Cardinality(Torn) \in Nat /\ Cardinality(Torn) <= failures /\ failures \in Nat
  BY SizesAssumption DEF TornAreFew, ShardInv, TypeOK
<1>5. Cardinality(Torn \cup {x}) <= Cardinality(Torn) + 1 /\ Cardinality(Torn \cup {x}) \in Nat
  BY <1>1, <1>4
<1> QED
  BY <1>2, <1>3, <1>4, <1>5 DEF TornAreFew

LEMMA TornInit == Init => TornAreFew
<1> SUFFICES ASSUME Init PROVE TornAreFew
  OBVIOUS
<1>1. Torn = {} /\ failures = 0
  BY DEF Init, Torn, Valid
<1> QED
  BY <1>1, FS_EmptySet DEF TornAreFew

\* The steps that leave the list as it is.
LEMMA ListStays ==
  ASSUME ShardInv, NEW t \in Threads,
         \/ \E n \in Requests : Allocate(t, n)
         \/ \E b \in live : Release(t, b)
         \/ TryFails(t) \/ ExtendThrows(t) \/ AssignFails(t) \/ SkipEntry(t) \/ AssignWhole(t)
         \/ Reindex(t) \/ Back(t) \/ IndexMerged(t)
  PROVE  Valid' = Valid /\ \A b \in Valid : /\ block'[b].pre = block[b].pre
                                            /\ block'[b].nex = block[b].nex
                                            /\ block'[b].len = block[b].len
<1>1. TypeOK /\ \A b \in DOMAIN block : block[b] \in BlockType
  BY BlockFields DEF ShardInv
<1>2. CASE block' = block
  BY <1>2 DEF Valid
<1>3. CASE \E b : b \in DOMAIN block /\ \E v : block' = [block EXCEPT ![b].free = v]
  BY <1>1, <1>3 DEF BlockType, Valid
<1>4. CASE SkipEntry(t)
  BY <1>4, SkipEntryIs
<1>5. CASE AssignWhole(t)
  BY <1>3, <1>5, SearchPlace DEF AssignWhole
<1>6. CASE \E b \in live : Release(t, b)
  BY <1>1, <1>3, <1>6 DEF Release, TypeOK
<1> QED
  BY <1>2, <1>4, <1>5, <1>6 DEF Allocate, TryFails, ExtendThrows, AssignFails, Reindex, Back, IndexMerged

LEMMA AssignPartTears ==
  ASSUME ShardInv, NEW t \in Threads, AssignPart(t)
  PROVE  Torn' \subseteq Torn
<1>1. PICK b \in Valid : b = Found(t)
  BY AssignPartKeeps
<1>2. PICK new : Valid' = Valid \cup {new} /\ SplitFields(b, want[t], new) /\ new \notin DOMAIN block
  BY <1>1, AssignPartKeeps
<1>3. b # Null /\ new # Null
  <2>1. b \in Objects /\ new \in Objects
    BY <1>1, <1>2, ValidIs, AssignPartKeeps DEF ShardInv, Memory, Stored, TypeOK, SplitFields
  <2> QED
    BY <2>1, SizesAssumption DEF Objects, Null
<1> QED
  BY <1>1, <1>2, <1>3, ValidIs DEF Torn, SplitFields

LEMMA MergeTears ==
  ASSUME ShardInv, NEW t \in Threads, Merge(t)
  PROVE  Torn' \subseteq Torn
<1>1. PICK c \in Valid : \E n \in Valid : Valid' = Valid \ {n} /\ MergeFields(c, n)
  BY MergeKeeps
<1>2. PICK n \in Valid : Valid' = Valid \ {n} /\ MergeFields(c, n)
  BY <1>1
<1>3. c # Null
  BY ValidIs, BlockFields DEF ShardInv
<1>4. \A x \in Valid' : x \in DOMAIN block'
  BY DEF Valid
<1> QED
  BY <1>2, <1>3, <1>4 DEF Torn, MergeFields

LEMMA LinkTears ==
  ASSUME ShardInv, NEW t \in Threads, Link(t)
  PROVE  Torn' \subseteq Torn
<1>1. PICK new \in Objects : \E bytes \in Nat :
         new \notin DOMAIN block /\ Valid' = Valid \cup {new} /\ LinkFields(new, bytes)
  BY LinkKeeps
<1>2. last # Null
  BY BlockFields DEF ShardInv, TypeOK
<1> QED
  BY <1>1, <1>2, ValidIs DEF Torn, LinkFields

LEMMA ThrowTears ==
  ASSUME ShardInv, NEW t \in Threads, Throw(t)
  PROVE  \E x : Torn' \subseteq Torn \cup {x}
<1>1. CASE ExtendHalfDone(t)
  BY <1>1, LinkTears DEF ExtendHalfDone
<1>2. CASE Loses(t)
  <2>1. Valid' = Valid /\ Layout /\ TypeOK /\ Found(t) \in Valid
    BY <1>2, LosesKeeps DEF Throw, ShardInv
  <2>2. CASE block' = block
    BY <2>1, <2>2 DEF Torn
  <2>3. CASE SplitHalfDone(t) /\ block' # block
    <3>1. PICK n : n = block[Found(t)].nex
      OBVIOUS
    <3>2. block' = [block EXCEPT ![n].pre = Null] /\ n # Null
      BY <2>3, <3>1 DEF SplitHalfDone
    <3>3. \A x \in DOMAIN block : x # n => block'[x] = block[x]
      BY <3>2
    <3>4. Torn' \subseteq Torn \cup {n}
      BY <2>1, <3>3, ValidIs DEF Torn
    <3> QED
      BY <3>4
  <2> QED
    BY <1>2, <2>2, <2>3 DEF Loses, SplitThrows, ReindexThrows
<1> QED
  BY <1>1, <1>2 DEF Throw, Loses

LEMMA TornStep == ShardInv /\ TornAreFew /\ [Next]_vars => TornAreFew'
<1> SUFFICES ASSUME ShardInv, TornAreFew, [Next]_vars PROVE TornAreFew'
  OBVIOUS
<1>1. CASE UNCHANGED vars
  BY <1>1 DEF vars, TornAreFew, Torn, Valid
<1>2. CASE Next
  <2>1. PICK t \in Threads :
          \/ /\ (\E n \in Requests : Allocate(t, n)) \/ (\E b \in live : Release(t, b)) \/ Step(t)
             /\ UNCHANGED failures
          \/ Throw(t)
    BY <1>2 DEF Next
  <2>2. CASE Throw(t)
    <3>1. failures' = failures + 1
      BY <2>2 DEF Throw
    <3> QED
      BY <2>2, <3>1, ThrowTears, OneTorn
  <2>3. ASSUME (\E n \in Requests : Allocate(t, n)) \/ (\E b \in live : Release(t, b)) \/ Step(t)
        PROVE  Torn' \subseteq Torn
    <3>1. CASE AssignPart(t)
      BY <3>1, AssignPartTears
    <3>2. CASE Merge(t)
      BY <3>2, MergeTears
    <3>3. CASE Extend(t)
      BY <3>3, LinkTears DEF Extend
    <3>4. CASE \/ \E n \in Requests : Allocate(t, n)
               \/ \E b \in live : Release(t, b)
               \/ TryFails(t) \/ ExtendThrows(t) \/ AssignFails(t) \/ SkipEntry(t) \/ AssignWhole(t)
               \/ Reindex(t) \/ Back(t) \/ IndexMerged(t)
      <4>1. Valid' = Valid /\ \A b \in Valid : block'[b].pre = block[b].pre
        BY <3>4, ListStays
      <4> QED
        BY <4>1 DEF Torn
    <3> QED
      BY <2>3, <3>1, <3>2, <3>3, <3>4 DEF Step
  <2> QED
    BY <2>1, <2>2, <2>3, NoneTorn
<1> QED
  BY <1>1, <1>2

LEMMA TornAlways == Spec => [](ShardInv /\ TornAreFew)
BY ShardInit, TornInit, ShardStep, TornStep, PTL DEF Spec

\* A block points back to the one before it, or it was torn off.
LEMMA PreIs ==
  ASSUME ShardInv, NEW b \in Valid, block[b].nex # Null
  PROVE  /\ block[b].nex \in Valid /\ block[b].nex # First
         /\ block[block[b].nex].pre \in {b, Null}
<1>1. TypeOK /\ Layout
  BY DEF ShardInv
<1>2. PICK n \in Valid : n = block[b].nex /\ n # First
  BY <1>1, NextIs
<1>3. block[n].pre # Null => block[n].pre \in Valid /\ block[block[n].pre].nex = n
  BY <1>1 DEF Layout, Returning
<1>4. block[n].pre # Null => block[n].pre = b
  BY <1>1, <1>2, <1>3, NextOnce
<1> QED
  BY <1>2, <1>4

-----------------------------------------------------------------------------
(* Free memory is in one piece. Without exceptions two free neighbours are   *)
(* apart only while a release that will join them is under way: it has yet   *)
(* to go back to the first of them, or they are in the run it merges.        *)

Ahead(t, b) == /\ Seg(b) = Seg(curr[t]) /\ Off(curr[t]) <= Off(b)
               /\ Spans(curr[t], block[b].nex)
Merging(t, b) == \/ At(t, "back") /\ block[b].nex = curr[t]
                 \/ Compacts(t) /\ Ahead(t, b)
Joinable(b) == b \in Free /\ Mergeable(block[b].nex)
Together ==
  failures = 0 => \A b \in Valid : Joinable(b) => \E t \in Threads : Merging(t, b)

\* If there were no exceptions, a block points back to the one before it.
LEMMA NotTorn ==
  ASSUME ShardInv, TornAreFew, failures = 0, NEW b \in Valid, block[b].nex # Null
  PROVE  block[block[b].nex].pre = b
<1>1. Torn = {}
  BY FS_EmptySet DEF TornAreFew
<1> QED
  BY <1>1, PreIs DEF Torn

\* Nothing can be joined when a thread that does not compact takes a step.
LEMMA NothingJoinable ==
  ASSUME ShardInv, Together, failures = 0, NEW t \in Threads, Acts(t), ~Compacts(t), NEW b \in Valid
  PROVE  ~Joinable(b)
<1>1. \A u \in Threads : ~Compacts(u)
  BY OthersOut
<1> QED
  BY <1>1 DEF Together, Merging, Compacts, At

\* Neither can it after a step that changes nothing but what it takes.
LEMMA JoinableStays ==
  ASSUME Valid' = Valid, NEW b \in Valid,
         \A x \in Valid : /\ block'[x].free => block[x].free
                          /\ block'[x].header = block[x].header /\ block'[x].nex = block[x].nex,
         block[b].nex # Null => block[b].nex \in Valid, Joinable(b)'
  PROVE  Joinable(b)
BY DEF Joinable, Free, Mergeable

LEMMA StillTogether ==
  ASSUME ShardInv, Together, failures' = failures, NEW t \in Threads, Acts(t), ~Compacts(t),
         Valid' = Valid,
         \A x \in Valid : /\ block'[x].free => block[x].free
                          /\ block'[x].header = block[x].header /\ block'[x].nex = block[x].nex
  PROVE  Together'
<1>1. \A b \in Valid : block[b].nex # Null => block[b].nex \in Valid
  BY PreIs
<1> QED
  BY <1>1, NothingJoinable, JoinableStays DEF Together

LEMMA OrdinaryTogether ==
  ASSUME ShardInv, Together, failures' = failures, NEW t \in Threads,
         \/ \E n \in Requests : Allocate(t, n)
         \/ TryFails(t) \/ ExtendThrows(t) \/ AssignFails(t) \/ SkipEntry(t) \/ AssignWhole(t)
         \/ Reindex(t)
  PROVE  Together'
<1>1. Acts(t) /\ TypeOK
  BY DEF Acts, Step, ShardInv
<1>2. ~Compacts(t)
  BY DEF Allocate, TryFails, ExtendThrows, AssignFails, SkipEntry, AssignWhole, Reindex,
         Searching, At, Compacts
<1>3. /\ Valid' = Valid
      /\ \A x \in Valid : /\ block'[x].free => block[x].free
                          /\ block'[x].header = block[x].header /\ block'[x].nex = block[x].nex
  <2>1. CASE block' = block
    BY <2>1 DEF Valid
  <2>2. CASE SkipEntry(t)
    BY <2>2, SkipEntryIs
  <2>3. CASE AssignWhole(t)
    <3>1. PICK b \in DOMAIN block : b = Found(t)
      BY <2>3, SearchPlace DEF AssignWhole
    <3>2. block' = [block EXCEPT ![b].free = FALSE] /\ \A x \in DOMAIN block : block[x] \in BlockType
      BY <1>1, <2>3, <3>1, BlockFields DEF AssignWhole
    <3> QED
      BY <3>2 DEF BlockType, Valid
  <2> QED
    BY <2>1, <2>2, <2>3 DEF Allocate, TryFails, ExtendThrows, AssignFails, Reindex
<1> QED
  BY <1>1, <1>2, <1>3, StillTogether

LEMMA AssignPartTogether ==
  ASSUME ShardInv, Together, failures' = failures, NEW t \in Threads, AssignPart(t)
  PROVE  Together'
<1>1. Acts(t) /\ TypeOK /\ Layout /\ ~Compacts(t)
  BY SearchPlace DEF Acts, Step, ShardInv, AssignPart
<1>2. PICK b \in Valid : b = Found(t) /\ block[b].free
  BY AssignPartKeeps
<1>3. PICK new : /\ Valid' = Valid \cup {new} /\ SplitFields(b, want[t], new)
                 /\ new \notin DOMAIN block
  BY <1>2, AssignPartKeeps
<1>4. SUFFICES ASSUME failures = 0, NEW x \in Valid', Joinable(x)' PROVE FALSE
  BY DEF Together
<1>5. \A y \in Valid : ~Joinable(y) /\ (block[y].nex # Null => block[y].nex \in Valid)
  BY <1>1, <1>4, NothingJoinable, PreIs
<1>6. \A y \in Valid : y # b => /\ block'[y].free = block[y].free /\ block'[y].nex = block[y].nex
                                /\ block'[y].header = block[y].header
  BY <1>3, ValidIs DEF SplitFields
<1>7. /\ ~block'[b].free /\ ~block'[new].header /\ block'[new].nex = block[b].nex
      /\ block'[b].header = block[b].header
  BY <1>2, <1>3, ValidIs DEF SplitFields
<1>8. x # b /\ block'[x].free /\ Mergeable(block[x].nex)'
  BY <1>4, <1>7 DEF Joinable, Free
<1>9. PICK y \in Valid : y = (IF x = new THEN b ELSE x)
  BY <1>2, <1>3
<1>10. block'[x].nex = block[y].nex /\ block[y].free
  BY <1>2, <1>3, <1>6, <1>7, <1>8, <1>9
<1>11. PICK n \in Valid : n = block[y].nex
  BY <1>5, <1>8, <1>10 DEF Mergeable
<1>12. n # Null /\ block'[n].free /\ ~block'[n].header
  BY <1>8, <1>10, <1>11 DEF Mergeable
<1>13. block[n].free /\ ~block[n].header
  BY <1>6, <1>7, <1>12
<1>14. Joinable(y)
  BY <1>10, <1>11, <1>12, <1>13 DEF Joinable, Free, Mergeable
<1> QED
  BY <1>5, <1>14

LEMMA ExtendTogether ==
  ASSUME ShardInv, Together, failures' = failures, NEW t \in Threads, Extend(t)
  PROVE  Together'
<1>1. Acts(t) /\ TypeOK /\ Layout /\ ~Compacts(t)
  BY DEF Acts, Step, ShardInv, Extend, Link, At, Compacts
<1>2. PICK new \in Objects : \E bytes \in Nat :
        new \notin DOMAIN block /\ Valid' = Valid \cup {new} /\ LinkFields(new, bytes)
  BY ExtendKeeps
<1>3. SUFFICES ASSUME failures = 0, NEW x \in Valid', Joinable(x)' PROVE FALSE
  BY DEF Together
<1>4. \A y \in Valid : ~Joinable(y) /\ (block[y].nex # Null => block[y].nex \in Valid)
  BY <1>1, <1>3, NothingJoinable, PreIs
<1>5. /\ block'[new].header /\ block'[new].nex = Null
      /\ \A y \in Valid : /\ block'[y].free = block[y].free /\ block'[y].header = block[y].header
                          /\ block'[y].nex = IF y = last THEN new ELSE block[y].nex
  BY <1>2, ValidIs DEF LinkFields
<1>6. block'[x].free /\ Mergeable(block[x].nex)'
  BY <1>3 DEF Joinable, Free
<1>7. x \in Valid /\ block'[x].nex = block[x].nex
  BY <1>2, <1>5, <1>6 DEF Mergeable
<1>8. Joinable(x)
  BY <1>4, <1>5, <1>6, <1>7 DEF Joinable, Free, Mergeable
<1> QED
  BY <1>4, <1>7, <1>8

LEMMA IndexMergedTogether ==
  ASSUME ShardInv, Together, failures' = failures, NEW t \in Threads, IndexMerged(t)
  PROVE  Together'
<1>1. /\ Acts(t) /\ TypeOK /\ Layout /\ Valid' = Valid /\ block' = block
      /\ At(t, "merge") /\ ~Mergeable(block[curr[t]].nex)
  BY IndexMergedKeeps DEF Acts, Step, ShardInv, IndexMerged
<1>2. PICK c \in Valid : c = curr[t]
  BY <1>1 DEF ShardInv, Control, Compacts, At
<1>3. SUFFICES ASSUME failures = 0, NEW b \in Valid, Joinable(b) PROVE FALSE
  BY <1>1 DEF Together, Joinable, Free, Mergeable
<1>4. PICK u \in Threads : Merging(u, b)
  BY <1>3 DEF Together
<1>5. u = t
  BY <1>1, <1>4, OthersOut DEF Merging, Compacts, At
<1>6. Seg(b) = Seg(c) /\ Off(c) <= Off(b) /\ Spans(c, block[b].nex)
  BY <1>1, <1>2, <1>4, <1>5 DEF Merging, Ahead, At
<1>7. block[b].nex = c
  BY <1>1, <1>2, <1>6, SpanGoesOn
<1>8. ~block[c].header /\ c # Null
  BY <1>3, <1>7 DEF Joinable, Mergeable
<1>9. Off(b) < Off(c)
  BY <1>1, <1>7, <1>8, NoneBetween
<1> QED
  BY <1>1, <1>6, <1>9, ValidIs, BlockFields

LEMMA ReleaseTogether ==
  ASSUME ShardInv, Together, failures' = failures, NEW t \in Threads, NEW b \in live, Release(t, b)
  PROVE  Together'
<1>1. /\ Acts(t) /\ TypeOK /\ Layout /\ ~Compacts(t) /\ Valid' = Valid /\ b \in Valid
      /\ curr'[t] = b /\ block'[b].free
      /\ \A x \in Valid : Steady(x) /\ (x # b => block'[x].free = block[x].free)
  BY ReleaseKeeps DEF Acts, ShardInv, Release, At, Compacts
<1>2. pc'[t] = "back"
  BY <1>1 DEF Release, Goto, TypeOK
<1>3. SUFFICES ASSUME failures = 0, NEW x \in Valid, Joinable(x)' PROVE Merging(t, x)'
  BY <1>1 DEF Together
<1>4. ~Joinable(x) /\ (block[x].nex # Null => block[x].nex \in Valid)
  BY <1>1, <1>3, NothingJoinable, PreIs
<1>5. PICK n \in Valid : n = block[x].nex /\ n # Null
  BY <1>1, <1>3, <1>4 DEF Joinable, Mergeable, Steady
<1>6. /\ block'[x].free /\ block'[x].nex = n /\ block'[n].free /\ ~block'[n].header
      /\ ~block[n].header
  BY <1>1, <1>3, <1>5 DEF Joinable, Free, Mergeable, Steady
<1>7. CASE n = b
  BY <1>1, <1>2, <1>6, <1>7 DEF Merging, At
<1>8. CASE x = b
  <2>1. /\ Seg(n) = Seg(b) /\ Off(b) < Off(n)
        /\ \A y \in Valid : Seg(y) = Seg(b) /\ Off(b) < Off(y) /\ Off(y) <= Off(n) => y = n
    BY <1>1, <1>5, <1>6, <1>8, NoneBetween
  <2>2. Off(b) \in Nat /\ Off(n) \in Nat
    BY <1>1, ValidIs, BlockFields
  <2>3. Spans(b, n)'
    BY <2>1, <2>2, <1>1, <1>6 DEF Spans, Seg, Off
  <2>4. Ahead(t, b)'
    BY <2>2, <2>3, <1>1, <1>6, <1>8 DEF Ahead, Seg, Off
  <2> QED
    BY <2>4, <1>2, <1>8 DEF Merging, Compacts
<1>9. CASE n # b /\ x # b
  <2>1. block[x].free /\ block[n].free
    BY <1>1, <1>6, <1>9
  <2> QED
    BY <2>1, <1>4, <1>5, <1>6 DEF Joinable, Free, Mergeable
<1> QED
  BY <1>7, <1>8, <1>9

LEMMA BackTogether ==
  ASSUME ShardInv, TornAreFew, Together, failures' = failures, NEW t \in Threads, Back(t)
  PROVE  Together'
<1>1. Acts(t) /\ TypeOK /\ Layout /\ block' = block /\ Valid' = Valid
  BY DEF Acts, Step, ShardInv, Back, Valid
<1>2. PICK c \in Valid :
           /\ c = curr[t] /\ block[c].free /\ At(t, "back")
           /\ \/ \E p \in Valid :
                   /\ p = block[c].pre /\ block[p].nex = c /\ block[p].free /\ ~block[c].header
                   /\ curr'[t] = p /\ pc'[t] = "back"
              \/ ~FollowsFree(c) /\ curr'[t] = c /\ pc'[t] = "merge"
  BY BackIs
<1>3. SUFFICES ASSUME failures = 0, NEW b \in Valid, Joinable(b) PROVE Merging(t, b)'
  BY <1>1 DEF Together, Joinable, Free, Mergeable
<1>4. PICK u \in Threads : Merging(u, b)
  BY <1>3 DEF Together
<1>5. u = t
  BY <1>1, <1>4, OthersOut DEF Merging, Compacts, At
<1>6. PICK n \in Valid : n = block[b].nex /\ n # Null /\ ~block[n].header /\ block[b].free
  BY <1>3, PreIs DEF Joinable, Mergeable, Free
<1>7. block'[b].nex = n
  BY <1>1, <1>6
<1>8. n = c \/ (Seg(b) = Seg(c) /\ Off(c) <= Off(b) /\ Spans(c, n))
  BY <1>2, <1>4, <1>5, <1>6 DEF Merging, Ahead
<1>9. CASE ~FollowsFree(c) /\ curr'[t] = c /\ pc'[t] = "merge"
  <2>1. block[n].pre = b /\ b # Null
    BY <1>1, <1>3, <1>6, NotTorn, ValidIs, BlockFields
  <2>2. n # c
    BY <2>1, <1>6, <1>9 DEF FollowsFree
  <2>3. Spans(c, n)'
    BY <2>2, <1>1, <1>8 DEF Spans, Seg, Off
  <2>4. Ahead(t, b)'
    BY <2>2, <2>3, <1>7, <1>8, <1>9 DEF Ahead, Seg, Off
  <2> QED
    BY <2>4, <1>9 DEF Merging, Compacts
<1>10. CASE \E p \in Valid :
               /\ p = block[c].pre /\ block[p].nex = c /\ block[p].free /\ ~block[c].header
               /\ curr'[t] = p /\ pc'[t] = "back"
  <2>1. PICK p \in Valid : block[p].nex = c /\ ~block[c].header /\ curr'[t] = p /\ pc'[t] = "back"
    BY <1>10
  <2>2. Seg(c) = Seg(p) /\ Off(p) < Off(c)
    BY <2>1, <1>1, NoneBetween
  <2>3. Off(p) \in Nat /\ Off(c) \in Nat /\ Off(b) \in Nat
    BY <1>1, ValidIs, BlockFields
  <2>4. Seg(b) = Seg(p) /\ Off(p) <= Off(b) /\ Spans(p, n)
    <3>1. CASE n = c
      <4>1. b = p
        BY <3>1, <2>1, <1>1, <1>6, NextOnce
      <4>2. Spans(p, c)
        BY <2>1, <1>1, <1>2, SpansNext
      <4> QED
        BY <3>1, <4>1, <4>2, <2>3
    <3>2. CASE Seg(b) = Seg(c) /\ Off(c) <= Off(b) /\ Spans(c, n)
      <4>1. Spans(p, n)
        BY <3>2, <2>1, <1>1, <1>2, SpansFromBefore
      <4> QED
        BY <3>2, <4>1, <2>2, <2>3
    <3> QED
      BY <3>1, <3>2, <1>8
  <2>5. Spans(p, n)'
    BY <2>4, <1>1 DEF Spans, Seg, Off
  <2>6. Ahead(t, b)'
    BY <2>1, <2>4, <2>5, <1>7 DEF Ahead, Seg, Off
  <2> QED
    BY <2>1, <2>6 DEF Merging, Compacts
<1> QED
  BY <1>2, <1>9, <1>10

LEMMA MergeTogether ==
  ASSUME ShardInv, Together, failures' = failures, NEW t \in Threads, Merge(t)
  PROVE  Together'
<1>1. /\ Acts(t) /\ TypeOK /\ Layout /\ pc' = pc /\ curr' = curr /\ At(t, "merge")
  BY DEF Acts, Step, ShardInv, Merge
<1>2. PICK c \in Valid : \E n \in Valid :
        /\ c = curr[t] /\ n = block[c].nex /\ c # n /\ n # Null /\ block[n].free
        /\ Valid' = Valid \ {n} /\ MergeFields(c, n)
  BY MergeKeeps
<1>3. PICK n \in Valid :
        /\ n = block[c].nex /\ c # n /\ n # Null /\ block[n].free
        /\ Valid' = Valid \ {n} /\ MergeFields(c, n)
  BY <1>2
<1>4. SUFFICES ASSUME failures = 0, NEW x \in Valid', Joinable(x)' PROVE Merging(t, x)'
  BY DEF Together
<1>5. \A z \in Valid' : /\ block'[z].free = block[z].free /\ block'[z].header = block[z].header
                        /\ z # c => block'[z].nex = block[z].nex
  BY <1>3 DEF MergeFields, Valid
<1>6. block'[c].nex = block[n].nex
  BY <1>3 DEF MergeFields
<1>7. PICK z \in Valid : z = IF x = c THEN n ELSE x
  BY <1>3
<1>8. block'[x].nex = block[z].nex /\ block[z].free
  <2>1. block'[x].free
    BY <1>4 DEF Joinable, Free
  <2> QED
    BY <2>1, <1>3, <1>4, <1>5, <1>6, <1>7
<1>9. PICK y \in Valid : y = block[z].nex /\ y # Null
  BY <1>4, <1>8, PreIs DEF Joinable, Mergeable
<1>10. y # n
  <2>1. z # c
    BY <1>3, <1>7
  <2>2. block[c].nex # block[z].nex
    BY <2>1, <1>1, <1>3, <1>9, NextOnce
  <2> QED
    BY <2>2, <1>3, <1>9
<1>11. block[y].free /\ ~block[y].header /\ block'[x].nex = y /\ y \in Valid'
  BY <1>3, <1>4, <1>5, <1>8, <1>9, <1>10 DEF Joinable, Mergeable
<1>12. Joinable(z)
  BY <1>8, <1>9, <1>11 DEF Joinable, Mergeable, Free
<1>13. PICK u \in Threads : Merging(u, z)
  BY <1>4, <1>12 DEF Together
<1>14. u = t
  BY <1>1, <1>13, OthersOut DEF Merging, Compacts, At
<1>15. Seg(z) = Seg(c) /\ Off(c) <= Off(z) /\ Spans(c, y)
  BY <1>1, <1>2, <1>9, <1>13, <1>14 DEF Merging, Ahead, At
<1>16. Spans(c, y)'
  BY <1>3, <1>5, <1>11, <1>15, SpansStay
<1>17. Seg(x) = Seg(c) /\ Off(c) <= Off(x)
  BY <1>1, <1>7, <1>15, ValidIs, BlockFields
<1>18. Ahead(t, x)'
  BY <1>1, <1>2, <1>11, <1>16, <1>17 DEF Ahead, Seg, Off
<1> QED
  BY <1>1, <1>18 DEF Merging, Compacts, At

LEMMA TogetherStep == ShardInv /\ TornAreFew /\ Together /\ [Next]_vars => Together'
<1> SUFFICES ASSUME ShardInv, TornAreFew, Together, [Next]_vars PROVE Together'
  OBVIOUS
<1>1. CASE UNCHANGED vars
  BY <1>1 DEF vars, Together, Joinable, Free, Valid, Mergeable, Merging, Ahead, Spans, At, Compacts
<1>2. CASE Next
  <2>1. PICK t \in Threads :
          \/ /\ (\E n \in Requests : Allocate(t, n)) \/ (\E b \in live : Release(t, b)) \/ Step(t)
             /\ UNCHANGED failures
          \/ Throw(t)
    BY <1>2 DEF Next
  <2>2. CASE Throw(t)
    BY <2>2, SizesAssumption DEF Throw, Together, ShardInv, TypeOK
  <2> QED
    BY <2>1, <2>2, OrdinaryTogether, AssignPartTogether, ExtendTogether, IndexMergedTogether,
       ReleaseTogether, BackTogether, MergeTogether
    DEF Step
<1> QED
  BY <1>1, <1>2

\* Between calls no free block has a free neighbour in its segment, in whatever
\* order blocks were released, as long as no exception tore one off the block
\* before it (lines 143-149).
THEOREM FreeMemoryIsWhole == Spec => []Coalesced
<1>1. Init => Together
  <2> SUFFICES ASSUME Init, NEW b \in Valid, Joinable(b) PROVE FALSE
    BY DEF Together
  <2>1. block[b].nex = Null
    BY DEF Init, Valid, Header
  <2> QED
    BY <2>1 DEF Joinable, Mergeable
<1>2. Together => Coalesced
  BY DEF Together, Coalesced, Joinable, Free, LockFree, Merging, Compacts, At
<1> QED
  BY <1>1, <1>2, ShardInit, TornInit, ShardStep, TornStep, TogetherStep, PTL DEF Spec

-----------------------------------------------------------------------------
(* Sums. What the folds of the library compute over a finite set is a        *)
(* function on its subsets; induction is over sets of subsets.               *)

Pick(s) == CHOOSE x \in s : TRUE
Sums(g, f, S) ==
  g = [s \in SUBSET S |-> IF s = {} THEN 0 ELSE f[Pick(s)] + g[s \ {Pick(s)}]]
TakesOut(g, f, S) == \A x \in S : g[S] = f[x] + g[S \ {x}]
SumOf(f, S) == (CHOOSE g : Sums(g, f, S))[S]

LEMMA PickIs == \A s : s # {} => Pick(s) \in s
BY DEF Pick

LEMMA AllSubsets ==
  ASSUME NEW S, IsFiniteSet(S), NEW P,
         \A s \in SUBSET S : (\A x \in s : s \ {x} \in P) => s \in P
  PROVE  \A s \in SUBSET S : s \in P
<1> DEFINE Sizes == {n \in Nat : \E s \in SUBSET S : s \notin P /\ Cardinality(s) = n}
<1>1. \A s \in SUBSET S : IsFiniteSet(s) /\ Cardinality(s) \in Nat
  BY FS_Subset, FS_CardinalityType
<1>2. SUFFICES ASSUME NEW s0 \in SUBSET S, s0 \notin P PROVE FALSE
  OBVIOUS
<1>3. Sizes \subseteq Nat /\ Sizes # {}
  BY <1>1, <1>2
<1>4. Min(Sizes) \in Sizes /\ \A n \in Sizes : Min(Sizes) <= n
  BY <1>3, LeastNumber
<1>5. PICK s \in SUBSET S : s \notin P /\ Cardinality(s) = Min(Sizes)
  BY <1>4
<1>6. PICK x \in s : s \ {x} \notin P
  BY <1>5
<1>7. PICK r \in SUBSET S : r = s \ {x} /\ r \notin P
  BY <1>6
<1>8. Cardinality(r) = Cardinality(s) - 1 /\ Cardinality(s) \in Nat /\ Cardinality(r) \in Nat
  BY <1>1, <1>7, FS_RemoveElement
<1>9. Cardinality(r) \in Sizes
  BY <1>7, <1>8
<1>10. Min(Sizes) <= Cardinality(r)
  BY <1>4, <1>9
<1> QED
  BY <1>5, <1>8, <1>10

LEMMA SumsExist ==
  ASSUME NEW S, IsFiniteSet(S), NEW f \in [S -> Int]
  PROVE  \E g \in [SUBSET S -> Int] : Sums(g, f, S)
<1> DEFINE Upto(n) == {s \in SUBSET S : Cardinality(s) <= n}
           Next1(g, s) == IF s = {} THEN 0 ELSE f[Pick(s)] + g[s \ {Pick(s)}]
           Ok(n) == \E g \in [Upto(n) -> Int] : \A s \in Upto(n) : g[s] = Next1(g, s)
           Bad == {n \in Nat : ~Ok(n)}
<1>1. \A s \in SUBSET S : IsFiniteSet(s) /\ Cardinality(s) \in Nat
  BY FS_Subset, FS_CardinalityType
<1>2. \A s \in SUBSET S : s # {} => /\ Pick(s) \in S /\ f[Pick(s)] \in Int
                                    /\ s \ {Pick(s)} \in SUBSET S
                                    /\ Cardinality(s \ {Pick(s)}) = Cardinality(s) - 1
  BY <1>1, PickIs, FS_RemoveElement
<1>3. Ok(0)
  <2> DEFINE g == [s \in Upto(0) |-> 0]
  <2>1. \A s \in Upto(0) : s = {}
    BY <1>1, FS_EmptySet
  <2>2. g \in [Upto(0) -> Int] /\ \A s \in Upto(0) : g[s] = Next1(g, s)
    BY <2>1
  <2> QED
    BY <2>2
<1>4. ASSUME NEW n \in Nat, Ok(n) PROVE Ok(n + 1)
  <2>1. PICK g \in [Upto(n) -> Int] : \A s \in Upto(n) : g[s] = Next1(g, s)
    BY <1>4
  <2> DEFINE h == [s \in Upto(n + 1) |-> IF s \in Upto(n) THEN g[s] ELSE Next1(g, s)]
  <2>2. \A s \in Upto(n + 1) : s # {} => s \ {Pick(s)} \in Upto(n)
    BY <1>1, <1>2
  <2>3. Upto(n) \subseteq Upto(n + 1)
    BY <1>1
  <2>4. \A s \in Upto(n + 1) : s = {} \/ (s \ {Pick(s)} \in Upto(n) /\ f[Pick(s)] \in Int)
    BY <1>2, <2>2
  <2> HIDE DEF Upto
  <2>5. \A s \in Upto(n + 1) : h[s] \in Int /\ h[s] = Next1(g, s)
    BY <2>1, <2>4
  <2>6. \A s \in Upto(n) : h[s] = g[s]
    BY <2>3
  <2>7. h \in [Upto(n + 1) -> Int]
    BY <2>5
  <2> HIDE DEF h
  <2>8. \A s \in Upto(n + 1) : Next1(h, s) = Next1(g, s)
    BY <2>4, <2>6
  <2> QED
    BY <2>5, <2>7, <2>8
<1>5. \A n \in Nat : Ok(n)
  <2> SUFFICES ASSUME Bad # {} PROVE FALSE
    OBVIOUS
  <2> HIDE DEF Ok
  <2>1. Bad \subseteq Nat
    OBVIOUS
  <2>2. Min(Bad) \in Bad /\ \A n \in Bad : Min(Bad) <= n
    BY <2>1, LeastNumber
  <2>3. PICK m \in Nat : m = Min(Bad) /\ ~Ok(m)
    BY <2>2
  <2>4. m # 0 /\ m - 1 \in Nat
    BY <1>3, <2>3
  <2>5. Ok(m - 1)
    BY <2>2, <2>3, <2>4
  <2>6. Ok((m - 1) + 1)
    BY <2>4, <2>5, <1>4
  <2> QED
    BY <2>3, <2>4, <2>6
<1>6. PICK c \in Nat : c = Cardinality(S)
  BY FS_CardinalityType
<1>7. Upto(c) = SUBSET S
  BY <1>6, FS_Subset
<1>8. PICK g \in [SUBSET S -> Int] : \A s \in SUBSET S : g[s] = Next1(g, s)
  BY <1>5, <1>7
<1> QED
  BY <1>8 DEF Sums

\* The sum over a subset is that of the function on it.
LEMMA SumsAgree ==
  ASSUME NEW S, IsFiniteSet(S), NEW T, S \subseteq T, NEW f, NEW g, NEW h, NEW k,
         Sums(g, f, S), Sums(k, h, T), \A x \in S : h[x] = f[x]
  PROVE  \A s \in SUBSET S : k[s] = g[s]
<1> DEFINE P == {s \in SUBSET S : k[s] = g[s]}
<1>1. ASSUME NEW s \in SUBSET S, \A x \in s : s \ {x} \in P PROVE s \in P
  <2>1. CASE s = {}
    BY <2>1 DEF Sums
  <2>2. CASE s # {}
    <3>1. Pick(s) \in s /\ Pick(s) \in S
      BY <2>2, PickIs
    <3>2. k[s \ {Pick(s)}] = g[s \ {Pick(s)}]
      BY <3>1, <1>1
    <3>3. g[s] = f[Pick(s)] + g[s \ {Pick(s)}] /\ k[s] = h[Pick(s)] + k[s \ {Pick(s)}]
      BY <2>2 DEF Sums
    <3> QED
      BY <3>1, <3>2, <3>3
  <2> QED
    BY <2>1, <2>2
<1> HIDE DEF P
<1>2. \A s \in SUBSET S : s \in P
  BY <1>1, AllSubsets
<1> QED
  BY <1>2 DEF P

\* Whichever element is taken out first.
LEMMA SumsAnyOrder ==
  ASSUME NEW S, IsFiniteSet(S), NEW f \in [S -> Int], NEW g \in [SUBSET S -> Int], Sums(g, f, S)
  PROVE  TakesOut(g, f, S)
<1> DEFINE P == {s \in SUBSET S : \A x \in s : g[s] = f[x] + g[s \ {x}]}
<1>1. ASSUME NEW s \in SUBSET S, \A x \in s : s \ {x} \in P PROVE s \in P
  <2>1. ASSUME NEW x \in s PROVE g[s] = f[x] + g[s \ {x}]
    <3>1. PICK p \in s : p = Pick(s)
      BY PickIs
    <3>2. g[s] = f[p] + g[s \ {p}]
      BY <3>1 DEF Sums
    <3>3. CASE x = p
      BY <3>2, <3>3
    <3>4. CASE x # p
      <4>1. x \in s \ {p} /\ p \in s \ {x} /\ (s \ {p}) \ {x} = (s \ {x}) \ {p}
        BY <3>4
      <4>2. g[s \ {p}] = f[x] + g[(s \ {p}) \ {x}]
        BY <4>1, <1>1
      <4>3. g[s \ {x}] = f[p] + g[(s \ {x}) \ {p}]
        BY <4>1, <1>1
      <4>4. PICK r \in Int : r = g[(s \ {x}) \ {p}]
        OBVIOUS
      <4>5. f[x] \in Int /\ f[p] \in Int
        OBVIOUS
      <4>6. g[s] = f[p] + (f[x] + r) /\ g[s \ {x}] = f[p] + r
        BY <3>2, <4>1, <4>2, <4>3, <4>4
      <4> QED
        BY <4>5, <4>6
    <3> QED
      BY <3>3, <3>4
  <2> QED
    BY <2>1
<1> HIDE DEF P
<1>2. S \in P
  BY <1>1, AllSubsets
<1> QED
  BY <1>2 DEF P, TakesOut

LEMMA SumOfIs ==
  ASSUME NEW S, IsFiniteSet(S), NEW f \in [S -> Int]
  PROVE  \E g \in [SUBSET S -> Int] : /\ Sums(g, f, S) /\ SumOf(f, S) = g[S]
                                     /\ TakesOut(g, f, S)
<1>1. PICK g \in [SUBSET S -> Int] : Sums(g, f, S)
  BY SumsExist
<1>2. PICK h : h = CHOOSE k : Sums(k, f, S)
  OBVIOUS
<1>3. Sums(h, f, S)
  BY <1>1, <1>2
<1>4. h[S] = g[S]
  BY <1>1, <1>3, SumsAgree
<1>5. TakesOut(g, f, S)
  BY <1>1, SumsAnyOrder
<1> QED
  BY <1>1, <1>2, <1>4, <1>5 DEF SumOf

LEMMA SumOfNothing ==
  ASSUME NEW f \in [{} -> Int]
  PROVE  SumOf(f, {}) = 0
<1>1. PICK g \in [SUBSET {} -> Int] : Sums(g, f, {}) /\ SumOf(f, {}) = g[{}]
  BY SumOfIs, FS_EmptySet
<1>2. g[{}] = 0
  BY <1>1 DEF Sums
<1> QED
  BY <1>1, <1>2

LEMMA SumOfAgrees ==
  ASSUME NEW S, IsFiniteSet(S), NEW f \in [S -> Int], NEW h \in [S -> Int],
         \A x \in S : h[x] = f[x]
  PROVE  SumOf(h, S) = SumOf(f, S)
<1>1. h = f
  OBVIOUS
<1> QED
  BY <1>1

LEMMA SumOfWithout ==
  ASSUME NEW S, IsFiniteSet(S), NEW f \in [S -> Int], NEW x \in S,
         NEW h \in [S \ {x} -> Int], \A y \in S \ {x} : h[y] = f[y]
  PROVE  /\ SumOf(f, S) = f[x] + SumOf(h, S \ {x})
         /\ SumOf(f, S) \in Int /\ SumOf(h, S \ {x}) \in Int /\ f[x] \in Int
<1>1. PICK g \in [SUBSET S -> Int] : /\ Sums(g, f, S) /\ SumOf(f, S) = g[S]
                                    /\ TakesOut(g, f, S)
  BY SumOfIs
<1>2. PICK T \in SUBSET S : T = S \ {x} /\ IsFiniteSet(T)
  BY FS_RemoveElement
<1>3. h \in [T -> Int]
  BY <1>2
<1>4. PICK k \in [SUBSET T -> Int] : Sums(k, h, T) /\ SumOf(h, T) = k[T]
  BY <1>2, <1>3, SumOfIs
<1>5. k[T] = g[T]
  <2>1. T \subseteq S /\ \A y \in T : f[y] = h[y]
    BY <1>2
  <2>2. \A s \in SUBSET T : g[s] = k[s]
    BY <2>1, <1>1, <1>2, <1>4, SumsAgree
  <2> QED
    BY <2>2
<1>6. g[S] = f[x] + g[T]
  BY <1>1, <1>2 DEF TakesOut
<1>7. g[T] \in Int /\ g[S] \in Int /\ f[x] \in Int
  BY <1>2
<1> QED
  BY <1>1, <1>2, <1>4, <1>5, <1>6, <1>7

\* The folds of Tiled are such sums.
Lens == [b \in Valid |-> block[b].len]

LEMMA FoldOfBlocks ==
  ASSUME IsFiniteSet(Valid), Lens \in [Valid -> Int]
  PROVE  FoldSet(LAMBDA b, sum : block[b].len + sum, 0, Valid) = SumOf(Lens, Valid)
<1> DEFINE H(g) == g = [s \in SUBSET Valid |-> IF s = {} THEN 0
                                                ELSE block[Pick(s)].len + g[s \ {Pick(s)}]]
           iter == CHOOSE g : H(g)
<1>1. \A g : Sums(g, Lens, Valid) <=> H(g)
  <2>1. \A s \in SUBSET Valid : s # {} => Lens[Pick(s)] = block[Pick(s)].len
    BY PickIs DEF Lens
  <2> QED
    BY <2>1 DEF Sums
<1>2. PICK g : Sums(g, Lens, Valid) /\ SumOf(Lens, Valid) = g[Valid]
  BY SumOfIs
<1>3. FoldSet(LAMBDA b, sum : block[b].len + sum, 0, Valid) = iter[Valid]
  BY DEF FoldSet, MapThenFoldSet, Pick
<1>4. H(iter)
  <2>1. H(g)
    BY <1>1, <1>2
  <2> HIDE DEF H
  <2> QED
    BY <2>1
<1> HIDE DEF H, iter
<1>5. Sums(iter, Lens, Valid)
  BY <1>1, <1>4
<1>6. \A s \in SUBSET Valid : iter[s] = g[s]
  BY <1>2, <1>5, SumsAgree
<1> QED
  BY <1>2, <1>3, <1>6

LEMMA FoldOfFunction ==
  ASSUME NEW f
  PROVE  FoldFunction(+, 0, f) = SumOf(f, DOMAIN f)
BY DEF FoldFunction, FoldFunctionOnSet, MapThenFoldSet, SumOf, Sums, Pick

-----------------------------------------------------------------------------
(* The bytes of the blocks are those of the segments.                        *)

Bytes == /\ IsFiniteSet(Valid) /\ total = SumOf(Lens, Valid)
         /\ total = SumOf(segment, DOMAIN segment)

LEMMA LensAre ==
  ASSUME Stored
  PROVE  Lens \in [Valid -> Int] /\ \A b \in Valid : Lens[b] = block[b].len
<1>1. \A b \in Valid : block[b].len \in Int
  BY DEF Stored, Valid, BlockType
<1> QED
  BY <1>1 DEF Lens

LEMMA BytesStay ==
  ASSUME Bytes, Memory', Valid' = Valid, total' = total, segment' = segment,
         ShardInv, \A b \in Valid : block'[b].len = block[b].len
  PROVE  Bytes'
<1>1. Lens \in [Valid -> Int] /\ \A b \in Valid : Lens[b] = block[b].len
  BY LensAre, MemoryIs DEF Memory
<1>2. Lens' \in [Valid' -> Int] /\ \A b \in Valid' : Lens'[b] = block'[b].len
  <2>1. \A b \in Valid' : block'[b].len \in Int
    BY DEF Memory, Stored, Valid, BlockType
  <2> QED
    BY <2>1, Zenon DEF Lens
<1>3. Lens' = Lens
  BY <1>1, <1>2
<1> QED
  BY <1>3 DEF Bytes

Exceeds(h, T, f, S, new) == /\ SumOf(h, T) = SumOf(f, S) + h[new]
                            /\ SumOf(f, S) \in Int /\ h[new] \in Int
Divides(h, f, S, b, new) == /\ f[b] = h[b] + h[new]
                            /\ \A x \in S \ {b} : h[x] = f[x]

LEMMA SumWithOneMore ==
  ASSUME NEW S, IsFiniteSet(S), NEW f \in [S -> Int], NEW T, NEW new, new \notin S,
         T = S \cup {new}, NEW h \in [T -> Int], \A x \in S : h[x] = f[x]
  PROVE  IsFiniteSet(T) /\ Exceeds(h, T, f, S, new)
<1>1. IsFiniteSet(T)
  BY FS_AddElement
<1>2. T \ {new} = S /\ new \in T
  OBVIOUS
<1>3. /\ SumOf(h, T) = h[new] + SumOf(f, S)
      /\ SumOf(h, T) \in Int /\ SumOf(f, S) \in Int /\ h[new] \in Int
  BY <1>1, <1>2, SumOfWithout
<1> QED
  BY <1>1, <1>3 DEF Exceeds

\* An element is divided, or two are put together.
LEMMA SumDivided ==
  ASSUME NEW S, IsFiniteSet(S), NEW f \in [S -> Int], NEW b \in S, NEW T, NEW new, new \notin S,
         T = S \cup {new}, NEW h \in [T -> Int], Divides(h, f, S, b, new)
  PROVE  IsFiniteSet(T) /\ SumOf(h, T) = SumOf(f, S)
<1>1. PICK m \in [S -> Int] : \A x \in S : m[x] = h[x]
  <2> DEFINE m == [x \in S |-> h[x]]
  <2> m \in [S -> Int] /\ \A x \in S : m[x] = h[x]
    OBVIOUS
  <2> QED
    OBVIOUS
<1>2. PICK r \in [S \ {b} -> Int] : \A x \in S \ {b} : r[x] = f[x]
  <2> DEFINE r == [x \in S \ {b} |-> f[x]]
  <2> r \in [S \ {b} -> Int] /\ \A x \in S \ {b} : r[x] = f[x]
    OBVIOUS
  <2> QED
    OBVIOUS
<1>3. IsFiniteSet(T) /\ Exceeds(h, T, m, S, new)
  BY <1>1, SumWithOneMore
<1>4. SumOf(f, S) = f[b] + SumOf(r, S \ {b}) /\ SumOf(r, S \ {b}) \in Int
  BY <1>2, SumOfWithout
<1>5. SumOf(m, S) = m[b] + SumOf(r, S \ {b})
  <2>1. \A x \in S \ {b} : r[x] = m[x]
    BY <1>1, <1>2 DEF Divides
  <2> QED
    BY <2>1, <1>1, <1>2, SumOfWithout
<1>6. m[b] = h[b] /\ h[b] \in Int
  BY <1>1
<1> QED
  BY <1>3, <1>4, <1>5, <1>6 DEF Exceeds, Divides

LEMMA LensAfter ==
  ASSUME Memory'
  PROVE  Lens' \in [Valid' -> Int] /\ \A b \in Valid' : Lens'[b] = block'[b].len
<1>1. \A b \in Valid' : block'[b].len \in Int
  BY DEF Memory, Stored, Valid, BlockType
<1> QED
  BY <1>1, Zenon DEF Lens

LEMMA SplitBytes ==
  ASSUME ShardInv, Bytes, Memory', NEW b \in Valid, NEW w \in Nat, NEW new,
         new \notin DOMAIN block, Valid' = Valid \cup {new}, SplitFields(b, w, new),
         total' = total, segment' = segment
  PROVE  Bytes'
<1>1. Lens \in [Valid -> Int] /\ \A x \in Valid : Lens[x] = block[x].len
  BY LensAre, MemoryIs DEF Memory
<1>2. PICK h : h = Lens' /\ h \in [Valid' -> Int] /\ \A x \in Valid' : h[x] = block'[x].len
  BY LensAfter
<1>3. /\ \A x \in Valid : x # b => block'[x].len = block[x].len
      /\ block'[b].len = w /\ block'[new].len = block[b].len - w
      /\ new \notin Valid /\ block[b].len \in Nat
  BY ValidIs, BlockFields DEF SplitFields, ShardInv
<1>4. PICK T : T = Valid'
  OBVIOUS
<1>5. Divides(h, Lens, Valid, b, new)
  BY <1>1, <1>2, <1>3 DEF Divides
<1>6. IsFiniteSet(T) /\ SumOf(h, T) = SumOf(Lens, Valid)
  <2>1. /\ IsFiniteSet(Valid) /\ Lens \in [Valid -> Int] /\ b \in Valid /\ new \notin Valid
        /\ T = Valid \cup {new} /\ h \in [T -> Int]
    BY <1>1, <1>2, <1>3, <1>4 DEF Bytes
  <2> QED
    BY <2>1, <1>5, SumDivided
<1> QED
  BY <1>2, <1>4, <1>6 DEF Bytes

LEMMA MergeBytes ==
  ASSUME ShardInv, Bytes, Memory', NEW c \in Valid, NEW n \in Valid, c # n,
         Valid' = Valid \ {n}, MergeFields(c, n), total' = total, segment' = segment
  PROVE  Bytes'
<1>1. Lens \in [Valid -> Int] /\ \A x \in Valid : Lens[x] = block[x].len
  BY LensAre, MemoryIs DEF Memory
<1>2. PICK f : f = Lens' /\ f \in [Valid' -> Int] /\ \A x \in Valid' : f[x] = block'[x].len
  BY LensAfter
<1>3. PICK S : S = Valid' /\ n \notin S /\ Valid = S \cup {n} /\ c \in S /\ IsFiniteSet(S)
  BY FS_RemoveElement DEF Bytes
<1>4. /\ \A x \in S : x # c => block'[x].len = block[x].len
      /\ block'[c].len = block[c].len + block[n].len
  BY <1>3 DEF MergeFields, Valid
<1>5. Divides(Lens, f, S, c, n)
  BY <1>1, <1>2, <1>3, <1>4 DEF Divides
<1>6. SumOf(Lens, Valid) = SumOf(f, S)
  <2>1. /\ IsFiniteSet(S) /\ f \in [S -> Int] /\ c \in S /\ n \notin S
        /\ Valid = S \cup {n} /\ Lens \in [Valid -> Int]
    BY <1>1, <1>2, <1>3
  <2> QED
    BY <2>1, <1>5, SumDivided
<1> QED
  BY <1>2, <1>3, <1>6 DEF Bytes

LEMMA LinkBytes ==
  ASSUME ShardInv, Bytes, NEW t \in Threads, Link(t), Memory'
  PROVE  Bytes'
<1>1. Lens \in [Valid -> Int] /\ \A x \in Valid : Lens[x] = block[x].len
  BY LensAre, MemoryIs DEF Memory
<1>2. PICK h : h = Lens' /\ h \in [Valid' -> Int] /\ \A x \in Valid' : h[x] = block'[x].len
  BY LensAfter
<1>3. PICK new \in Objects : \E bytes \in Nat :
         /\ new \notin DOMAIN block /\ last' = new
         /\ Valid' = Valid \cup {new} /\ LinkFields(new, bytes)
  BY LinkKeeps
<1>4. PICK len : /\ segment' = Append(segment, len) /\ total' = total + len
                 /\ len = SegmentLength(ExtendBytes(want[t], total))
  BY DEF Link
<1>5. len \in Int /\ total \in Int
  <2>1. want[t] \in Nat /\ total \in Nat
    BY WantIs DEF ShardInv, TypeOK
  <2>2. len \in SegmentLengths /\ SegmentLengths \subseteq Nat
    BY <2>1, <1>4, ExtendBytesIs, SegmentLengthIs, Limits
  <2> QED
    BY <2>1, <2>2
<1>6. segment \in Seq(Int)
  <2>1. segment \in Seq(SegmentLengths) /\ TypeOK
    BY MemoryIs DEF Memory, Stored, ShardInv
  <2>2. \A i \in 1..Len(segment) : segment[i] \in Int
    BY <2>1, SegmentFields
  <2> QED
    BY <2>1, <2>2, Retyped
<1>7. block'[new].len = len
  BY <1>3, <1>4 DEF Link, Header, Adding
<1>8. total' = SumOf(Lens, Valid)'
  <2>1. PICK T : T = Valid'
    OBVIOUS
  <2>2. \A x \in Valid : h[x] = Lens[x]
    BY <1>1, <1>2, <1>3, ValidIs DEF LinkFields
  <2>3. IsFiniteSet(T) /\ Exceeds(h, T, Lens, Valid, new)
    <3>1. /\ IsFiniteSet(Valid) /\ Lens \in [Valid -> Int] /\ new \notin Valid
          /\ T = Valid \cup {new} /\ h \in [T -> Int]
      BY <1>1, <1>2, <1>3, <2>1, ValidIs DEF Bytes
    <3> QED
      BY <3>1, <2>2, SumWithOneMore
  <2>4. h[new] = len
    BY <1>2, <1>3, <1>7
  <2>5. SumOf(h, T) = total'
    BY <2>3, <2>4, <1>4 DEF Exceeds, Bytes
  <2> QED
    BY <2>1, <2>5, <1>2
<1>9. total' = SumOf(segment, DOMAIN segment)'
  <2>1. PICK h1 : h1 = segment'
    OBVIOUS
  <2>2. PICK n \in Nat : n = Len(segment) /\ DOMAIN segment = 1..n /\ DOMAIN h1 = 1..(n + 1)
                         /\ h1 \in Seq(Int) /\ h1[n + 1] = len
                         /\ \A i \in 1..n : h1[i] = segment[i]
    BY <1>4, <1>5, <1>6, <2>1
  <2>3. PICK S : S = 1..n /\ IsFiniteSet(S)
    BY FS_Interval
  <2>4. PICK T : T = 1..(n + 1) /\ T = S \cup {n + 1} /\ n + 1 \notin S
    BY <2>3
  <2>5. segment \in [S -> Int] /\ h1 \in [T -> Int] /\ \A i \in S : h1[i] = segment[i]
    BY <1>6, <2>2, <2>3, <2>4
  <2>6. Exceeds(h1, T, segment, S, n + 1)
    BY <2>3, <2>4, <2>5, SumWithOneMore
  <2>7. SumOf(h1, DOMAIN h1) = total'
    BY <2>2, <2>3, <2>4, <2>6, <1>4 DEF Exceeds, Bytes
  <2> QED
    BY <2>1, <2>7
<1>10. IsFiniteSet(Valid)'
  BY <1>3, FS_AddElement DEF Bytes
<1> QED
  BY <1>8, <1>9, <1>10 DEF Bytes

LEMMA BytesInit == Init => Bytes
<1> SUFFICES ASSUME Init PROVE Bytes
  OBVIOUS
<1> DEFINE len == SegmentLength(InitSize)
<1>1. len \in Int
  <2>1. len \in SegmentLengths
    BY SegmentLengthIs, SizesAssumption
  <2>2. SegmentLengths \subseteq Nat
    BY Limits
  <2> HIDE DEF len
  <2> QED
    BY <2>1, <2>2
<1> HIDE DEF len
<1>2. block = [b \in {First} |-> Header(InitSize, Null)] /\ segment = <<len>> /\ total = len
  BY DEF Init, len
<1>3. Valid = {First} /\ Lens \in [Valid -> Int] /\ Lens[First] = len
  BY <1>1, <1>2 DEF Valid, Header, Lens, len
<1>4. \A x, h : h \in [{x} -> Int] /\ h[x] = len => SumOf(h, {x}) = len
  <2> SUFFICES ASSUME NEW x, NEW h \in [{x} -> Int], h[x] = len PROVE SumOf(h, {x}) = len
    OBVIOUS
  <2> DEFINE e == [y \in {} |-> 0]
  <2>1. e \in [{} -> Int]
    OBVIOUS
  <2> HIDE DEF e
  <2>2. IsFiniteSet({}) /\ {x} = {} \cup {x} /\ x \notin {}
    BY FS_EmptySet
  <2>3. Exceeds(h, {x}, e, {}, x)
    BY <2>1, <2>2, SumWithOneMore
  <2>4. SumOf(e, {}) = 0
    BY <2>1, SumOfNothing
  <2> QED
    BY <2>3, <2>4, <1>1 DEF Exceeds
<1>5. IsFiniteSet(Valid) /\ SumOf(Lens, Valid) = len
  BY <1>3, <1>4, FS_Singleton
<1>6. DOMAIN segment = {1} /\ segment \in [{1} -> Int] /\ segment[1] = len
  BY <1>1, <1>2
<1>7. SumOf(segment, DOMAIN segment) = len
  BY <1>4, <1>6
<1> QED
  BY <1>2, <1>5, <1>7 DEF Bytes

LEMMA BytesStep == ShardInv /\ ShardInv' /\ Bytes /\ [Next]_vars => Bytes'
<1> SUFFICES ASSUME ShardInv, ShardInv', Bytes, [Next]_vars PROVE Bytes'
  OBVIOUS
<1>1. Memory'
  BY MemoryIs, PTL
<1>2. CASE UNCHANGED vars
  BY <1>2 DEF vars, Bytes, Lens, Valid
<1>3. CASE Next
  <2>1. PICK t \in Threads :
          \/ (\E n \in Requests : Allocate(t, n)) \/ (\E b \in live : Release(t, b)) \/ Step(t)
          \/ Throw(t)
    BY <1>3 DEF Next
  <2>2. CASE Extend(t) \/ ExtendHalfDone(t)
    BY <1>1, <2>2, LinkBytes DEF Extend, ExtendHalfDone
  <2>3. CASE AssignPart(t)
    <3>1. PICK b \in Valid : b = Found(t)
      BY <2>3, AssignPartKeeps
    <3>2. PICK new : Valid' = Valid \cup {new} /\ SplitFields(b, want[t], new) /\ new \notin DOMAIN block
      BY <2>3, <3>1, AssignPartKeeps
    <3>3. want[t] \in Nat
      BY WantIs DEF ShardInv
    <3> QED
      BY <1>1, <2>3, <3>2, <3>3, SplitBytes DEF AssignPart
  <2>4. CASE Merge(t)
    <3>1. PICK c \in Valid : \E n \in Valid : c # n /\ Valid' = Valid \ {n} /\ MergeFields(c, n)
      BY <2>4, MergeKeeps
    <3> QED
      BY <1>1, <2>4, <3>1, MergeBytes DEF Merge
  <2>5. CASE Loses(t) /\ live' = live
    <3>1. Valid' = Valid /\ \A x \in Valid : block'[x].len = block[x].len
      BY <2>5, LosesKeeps DEF Steady
    <3>2. total' = total /\ segment' = segment
      BY <2>5 DEF Loses, SplitThrows, SplitHalfDone, ReindexThrows
    <3> QED
      BY <1>1, <3>1, <3>2, BytesStay
  <2>6. CASE \/ \E n \in Requests : Allocate(t, n)
             \/ \E b \in live : Release(t, b)
             \/ TryFails(t) \/ ExtendThrows(t) \/ AssignFails(t) \/ SkipEntry(t) \/ AssignWhole(t)
             \/ Reindex(t) \/ Back(t) \/ IndexMerged(t)
    <3>1. Valid' = Valid /\ \A b \in Valid : block'[b].len = block[b].len
      BY <2>6, ListStays
    <3>2. total' = total /\ segment' = segment
      BY <2>6 DEF Allocate, Release, TryFails, ExtendThrows, AssignFails, SkipEntry, AssignWhole,
                  Reindex, Back, IndexMerged
    <3> QED
      BY <1>1, <3>1, <3>2, BytesStay
  <2> QED
    BY <2>1, <2>2, <2>3, <2>4, <2>5, <2>6 DEF Step, Throw, Loses
<1> QED
  BY <1>2, <1>3

LEMMA ListIs == ShardInv /\ Bytes => ListIsMemory
<1> SUFFICES ASSUME ShardInv, Bytes PROVE ListIsMemory
  OBVIOUS
<1>1. Layout /\ TypeOK
  BY DEF ShardInv
<1>2. ASSUME NEW b \in Valid
      PROVE  LET n == block[b].nex IN
             IF n = Null THEN b = last /\ Seg(b) = Len(segment)
                              /\ End(b) = segment[Len(segment)]
             ELSE /\ n \in Valid
                  /\ IF block[n].header
                     THEN Seg(n) = Seg(b) + 1 /\ Off(n) = 0 /\ End(b) = segment[Seg(b)]
                     ELSE Seg(n) = Seg(b) /\ Off(n) = End(b)
  <2>1. CASE b = last
    BY <1>1, <2>1 DEF Layout, Chained
  <2>2. CASE b # last
    <3>1. block[b].nex \in Valid /\ Follows(block[b].nex, b)
      BY <1>1, <2>2 DEF Layout, Chained
    <3>2. block[b].nex # Null /\ (block[block[b].nex].header => Off(block[b].nex) = 0)
      BY <1>1, <3>1, ValidIs, BlockFields DEF Layout, Inside
    <3> QED
      BY <3>1, <3>2 DEF Follows
  <2> QED
    BY <2>1, <2>2
<1>3. total = FoldSet(LAMBDA b, sum : block[b].len + sum, 0, Valid)
  <2>1. Lens \in [Valid -> Int]
    BY LensAre, MemoryIs DEF Memory
  <2> QED
    BY <2>1, FoldOfBlocks DEF Bytes
<1>4. total = FoldFunction(+, 0, segment)
  BY FoldOfFunction DEF Bytes
<1> QED
  BY <1>2, <1>3, <1>4 DEF ListIsMemory

\* The list is the memory in both directions: each block begins where the one
\* before it ends, all bytes of the segments are those of the blocks, whatever
\* splitting, merging, extension or exception there was, and at most one block
\* per exception has lost the one before it (lines 110-125, 149-160, 175-178).
THEOREM ListTilesMemory == Spec => []Tiled
<1>1. ShardInv /\ TornAreFew /\ Bytes => Tiled
  <2> SUFFICES ASSUME ShardInv, TornAreFew, Bytes PROVE Tiled
    OBVIOUS
  <2>1. ListIsMemory
    BY ListIs
  <2>2. block[First].pre = Null
    BY DEF ShardInv, Layout, Returning
  <2>3. \A b \in Valid : LET n == block[b].nex IN n # Null => block[n].pre \in {b, Null}
    BY PreIs
  <2>4. Cardinality({b \in Valid \ {First} : block[b].pre = Null}) <= failures
    BY DEF TornAreFew, Torn
  <2> QED
    BY <2>1, <2>2, <2>3, <2>4 DEF Tiled, LinkedBack
<1> QED
  BY <1>1, ShardInvariant, TornAlways, BytesInit, BytesStep, PTL DEF Spec
=============================================================================
