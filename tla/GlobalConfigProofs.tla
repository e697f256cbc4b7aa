-------------------------- MODULE GlobalConfigProofs --------------------------
(***************************************************************************)
(* What GlobalConfig guarantees for every set of names, keys, values and   *)
(* files: an insertion is atomic, the parser comes back, and a file gives  *)
(* back the settings that were written to it.                              *)
(***************************************************************************)
EXTENDS GlobalConfig, FiniteSetTheorems, SequenceTheorems,
        WellFoundedInduction, TLAPS

-----------------------------------------------------------------------------
(* Induction over numbers, and functions that are defined by it.           *)

LEMMA LeastNumber ==
  ASSUME NEW T, T \subseteq Nat, T # {}
  PROVE  \E m \in T : \A n \in T : m <= n
<1>1. IsWellFoundedOn(OpToRel(<, Nat), Nat)
  BY NatLessThanWellFounded
<1>2. PICK m \in T : \A n \in T : ~ (<<n, m>> \in OpToRel(<, Nat))
  BY <1>1, WFMin, Zenon
<1>3. ASSUME NEW n \in T PROVE m <= n
  <2>1. ~ (<<n, m>> \in OpToRel(<, Nat))
    BY <1>2, Zenon
  <2>2. m \in Nat /\ n \in Nat
    OBVIOUS
  <2>3. n < m => <<n, m>> \in OpToRel(<, Nat)
    BY <2>2 DEF OpToRel
  <2>4. ~ (n < m)
    BY <2>1, <2>3, Zenon
  <2> QED
    BY <2>2, <2>4
<1> QED
  BY <1>3, Zenon

\* What holds at the start and is kept by every step holds up to the end.
LEMMA StepByStep ==
  ASSUME NEW n \in Nat, NEW P, 0 \in P, \A k \in 1..n : k - 1 \in P => k \in P
  PROVE  \A k \in 0..n : k \in P
<1> SUFFICES ASSUME NEW j \in 0..n, j \notin P PROVE FALSE
  OBVIOUS
<1>1. PICK T : T = {k \in 0..n : k \notin P}
  OBVIOUS
<1>a. T \subseteq Nat /\ T # {}
  BY <1>1
<1>2. PICK m \in T : \A k \in T : m <= k
  BY <1>a, LeastNumber
<1>3. m \in 1..n /\ m - 1 \in 0..n
  BY <1>1
<1>4. m - 1 \notin T
  BY <1>2, <1>3
<1> QED
  BY <1>1, <1>3, <1>4

LEMMA MaxIs ==
  ASSUME NEW s, NEW n \in Nat, s \subseteq 1..n, s # {}
  PROVE  Max(s) \in s /\ \A k \in s : k <= Max(s)
<1>1. PICK T : T = {n - k : k \in s}
  OBVIOUS
<1>a. \A k \in s : n - k \in Nat
  OBVIOUS
<1>2. T \subseteq Nat /\ T # {}
  BY <1>1, <1>a
<1>3. PICK m \in T : \A j \in T : m <= j
  BY <1>2, LeastNumber
<1>4. PICK x \in s : m = n - x
  BY <1>1
<1>5. \A k \in s : x >= k
  BY <1>1, <1>3, <1>4
<1>6. Max(s) \in s /\ \A k \in s : Max(s) >= k
  BY <1>4, <1>5 DEF Max
<1>7. \A k \in s : k \in Int
  OBVIOUS
<1> QED
  BY <1>6, <1>7

\* A fold takes the last position out of a set of positions. There is a function
\* on these sets that does what step says.
Folds(g, base, step, n) ==
  \A s \in SUBSET (1..n) :
    g[s] = IF s = {} THEN base ELSE step[<<Max(s), g[s \ {Max(s)}]>>]

LEMMA FoldExists ==
  ASSUME NEW n \in Nat, NEW State, NEW base \in State,
         NEW step \in [(1..n) \X State -> State]
  PROVE  \E g \in [SUBSET (1..n) -> State] : Folds(g, base, step, n)
<1> DEFINE Upto(k) == {s \in SUBSET (1..n) : s \subseteq 1..k}
           Eq(g, s) == IF s = {} THEN base ELSE step[<<Max(s), g[s \ {Max(s)}]>>]
           Ok(k) == \E g \in [Upto(k) -> State] : \A s \in Upto(k) : g[s] = Eq(g, s)
           P == {k \in 0..n : Ok(k)}
<1>1. \A s \in SUBSET (1..n) : s # {} => Max(s) \in s /\ Max(s) \in 1..n
  BY MaxIs
<1>2. Ok(0)
  <2>1. PICK g : g = [s \in Upto(0) |-> base]
    OBVIOUS
  <2>2. \A s \in Upto(0) : s = {}
    OBVIOUS
  <2>3. g \in [Upto(0) -> State] /\ \A s \in Upto(0) : g[s] = Eq(g, s)
    BY <2>1, <2>2
  <2> QED
    BY <2>3
<1>3. ASSUME NEW k \in 1..n, Ok(k - 1) PROVE Ok(k)
  <2>1. PICK g \in [Upto(k - 1) -> State] : \A s \in Upto(k - 1) : g[s] = Eq(g, s)
    BY <1>3
  <2>2. PICK h : h = [s \in Upto(k) |-> IF s \in Upto(k - 1) THEN g[s] ELSE Eq(g, s)]
    OBVIOUS
  <2>3. \A s \in Upto(k) : s # {} => s \ {Max(s)} \in Upto(k - 1)
    <3> SUFFICES ASSUME NEW s \in Upto(k), s # {}, NEW x \in s \ {Max(s)}
                 PROVE  x \in 1..k - 1
      OBVIOUS
    <3>1. Max(s) \in s /\ x <= Max(s) /\ Max(s) \in 1..k /\ x \in 1..k
      BY MaxIs
    <3> QED
      BY <3>1
  <2>4. Upto(k - 1) \subseteq Upto(k)
    OBVIOUS
  <2>5. \A s \in Upto(k) : s # {} => <<Max(s), g[s \ {Max(s)}]>> \in (1..n) \X State
    BY <1>1, <2>3
  <2> HIDE DEF Upto
  <2>6. \A s \in Upto(k) : h[s] \in State /\ h[s] = Eq(g, s)
    BY <2>1, <2>2, <2>5
  <2>7. \A s \in Upto(k - 1) : h[s] = g[s]
    BY <2>2, <2>4
  <2>8. h \in [Upto(k) -> State]
    BY <2>2, <2>6
  <2>9. \A s \in Upto(k) : Eq(h, s) = Eq(g, s)
    BY <2>3, <2>7
  <2> QED
    BY <2>6, <2>8, <2>9
<1>4. \A k \in 0..n : k \in P
  <2> HIDE DEF Ok
  <2>1. 0 \in P /\ \A k \in 1..n : k - 1 \in P => k \in P
    BY <1>2, <1>3
  <2> HIDE DEF P
  <2> QED
    BY <2>1, StepByStep
<1>5. n \in P
  <2>1. n \in 0..n
    OBVIOUS
  <2> HIDE DEF P
  <2> QED
    BY <1>4, <2>1
<1>a. Upto(n) = SUBSET (1..n)
  OBVIOUS
<1>6. PICK g \in [SUBSET (1..n) -> State] : \A s \in SUBSET (1..n) : g[s] = Eq(g, s)
  BY <1>5, <1>a
<1> QED
  BY <1>6 DEF Folds

LEMMA LastOf ==
  ASSUME NEW n \in Nat, NEW k \in 1..n
  PROVE  Max(1..k) = k /\ (1..k) \ {k} = 1..k - 1 /\ 1..k \in SUBSET (1..n) /\ 1..k # {}
<1>1. 1..k \in SUBSET (1..n) /\ 1..k # {} /\ k \in 1..k
  OBVIOUS
<1>2. 1..k \subseteq 1..n
  BY <1>1
<1>3. Max(1..k) \in 1..k /\ \A j \in 1..k : j <= Max(1..k)
  BY <1>1, <1>2, MaxIs, Zenon
<1>4. Max(1..k) = k
  BY <1>1, <1>3
<1> QED
  BY <1>1, <1>4

-----------------------------------------------------------------------------
(* Paths and trees.                                                        *)

LEMMA FrontIs ==
  ASSUME NEW N, NEW p \in Seq(N), p # <<>>
  PROVE  /\ Len(p) \in Nat \ {0} /\ Front(p) \in Seq(N) /\ Len(Front(p)) = Len(p) - 1
         /\ \A i \in 1..Len(p) - 1 : Front(p)[i] = p[i]
         /\ Front(p) # p
<1>1. Len(p) \in Nat /\ Len(p) # 0
  BY EmptySeq
<1>2. Front(p) \in Seq(N) /\ Len(Front(p)) = Len(p) - 1 /\ \A i \in 1..Len(p) - 1 : Front(p)[i] = p[i]
  <2>1. PICK m : m = Len(p) - 1
    OBVIOUS
  <2>2. m \in Nat /\ m <= Len(p) /\ \A i \in 1..m : i \in 1..Len(p)
    BY <1>1, <2>1
  <2>3. SubSeq(p, 1, m) \in Seq(N) /\ Len(SubSeq(p, 1, m)) = m /\ \A i \in 1..m : SubSeq(p, 1, m)[i] = p[i]
    BY <2>2, SubSeqProperties
  <2> QED
    BY <2>1, <2>3 DEF Front
<1> QED
  BY <1>1, <1>2

LEMMA FrontOfAppend ==
  ASSUME NEW N, NEW p \in Seq(N), NEW x \in N
  PROVE  Append(p, x) \in Seq(N) /\ Append(p, x) # <<>> /\ Front(Append(p, x)) = p
<1>1. PICK q : q = Append(p, x)
  OBVIOUS
<1>2. /\ q \in Seq(N) /\ Len(q) = Len(p) + 1 /\ Len(p) \in Nat
      /\ \A i \in 1..Len(p) : q[i] = p[i]
  BY <1>1, AppendProperties, LenProperties
<1>3. q # <<>>
  BY <1>2
<1>4. Front(q) \in Seq(N) /\ Len(Front(q)) = Len(p) /\ \A i \in 1..Len(p) : Front(q)[i] = p[i]
  BY <1>2, <1>3, FrontIs
<1>5. Front(q) = p
  BY <1>4, SeqEqual
<1> QED
  BY <1>1, <1>2, <1>3, <1>5

\* The first names of a key.
LEMMA PrefixIs ==
  ASSUME NEW N, NEW key \in Seq(N), NEW i \in 1..Len(key)
  PROVE  /\ SubSeq(key, 1, i) \in Seq(N) /\ SubSeq(key, 1, i) # <<>>
         /\ Front(SubSeq(key, 1, i)) = SubSeq(key, 1, i - 1)
         /\ Len(SubSeq(key, 1, i)) = i
<1>1. Len(key) \in Nat /\ i \in Nat /\ i <= Len(key) /\ i - 1 \in Nat /\ i - 1 <= Len(key)
  BY LenProperties
<1>2. PICK p : p = SubSeq(key, 1, i)
  OBVIOUS
<1>3. PICK q : q = SubSeq(key, 1, i - 1)
  OBVIOUS
<1>a. PICK j : j = i - 1
  OBVIOUS
<1>4. p \in Seq(N) /\ Len(p) = i /\ \A k \in 1..i : p[k] = key[k]
  BY <1>1, <1>2, SubSeqProperties
<1>5. q \in Seq(N) /\ Len(q) = j /\ \A k \in 1..j : q[k] = key[k]
  BY <1>1, <1>3, <1>a, SubSeqProperties
<1>6. p # <<>>
  BY <1>4
<1>7. Front(p) \in Seq(N) /\ Len(Front(p)) = j /\ \A k \in 1..j : Front(p)[k] = p[k]
  BY <1>4, <1>6, <1>a, FrontIs
<1>8. \A k \in 1..j : k \in 1..i
  BY <1>1, <1>a
<1>9. Front(p) = q
  BY <1>4, <1>5, <1>7, <1>8, SeqEqual
<1> QED
  BY <1>2, <1>3, <1>4, <1>6, <1>9

\* Every path but that of the root leads on from a domain.
Rooted(t) ==
  /\ t = [path \in DOMAIN t |-> t[path]]
  /\ IsDomain(t, <<>>)
  /\ \A path \in DOMAIN t \ {<<>>} : IsDomain(t, Parent(path))
  /\ \E N : DOMAIN t \subseteq Seq(N)

\* A child is added, or its value replaced.
LEMMA PutChild ==
  ASSUME NEW t, Rooted(t), NEW path, path # <<>>, \E N : path \in Seq(N),
         IsDomain(t, Parent(path)), ~IsDomain(t, path), NEW node
  PROVE  Rooted(Put(t, path, node))
<1>1. PICK N : DOMAIN t \subseteq Seq(N)
  BY DEF Rooted
<1>2. PICK M : path \in Seq(M)
  OBVIOUS
<1>3. PICK u : u = Put(t, path, node)
  OBVIOUS
<1>a. u = [p \in DOMAIN t \cup {path} |-> IF p = path THEN node ELSE t[p]]
  BY <1>3 DEF Put
<1>b. DOMAIN u = DOMAIN t \cup {path}
  BY <1>a
<1>c. u = [p \in DOMAIN u |-> u[p]]
  BY <1>a
<1>4. /\ DOMAIN u = DOMAIN t \cup {path} /\ u = [p \in DOMAIN u |-> u[p]]
      /\ u[path] = node /\ \A p \in DOMAIN t \ {path} : u[p] = t[p]
  BY <1>a, <1>b, <1>c
<1>5. \A p : IsDomain(t, p) => IsDomain(u, p)
  BY <1>4 DEF IsDomain
<1>6. IsDomain(u, <<>>)
  BY <1>5 DEF Rooted
<1>7. \A p \in DOMAIN u \ {<<>>} : IsDomain(u, Parent(p))
  BY <1>4, <1>5 DEF Rooted
<1>8. DOMAIN u \subseteq Seq(N \cup M)
  <2>1. Seq(N) \subseteq Seq(N \cup M) /\ Seq(M) \subseteq Seq(N \cup M)
    OBVIOUS
  <2> QED
    BY <1>1, <1>2, <1>4, <2>1
<1> QED
  BY <1>3, <1>4, <1>6, <1>7, <1>8 DEF Rooted

LEMMA EmptyTreeIsRooted == Rooted(EmptyTree)
<1>1. DOMAIN EmptyTree = {<<>>} /\ EmptyTree[<<>>] = Domain
  BY DEF EmptyTree
<1>2. {<<>>} \subseteq Seq({})
  OBVIOUS
<1>3. \E N : DOMAIN EmptyTree \subseteq Seq(N)
  BY <1>1, <1>2
<1>4. EmptyTree = [path \in DOMAIN EmptyTree |-> EmptyTree[path]]
  BY DEF EmptyTree
<1> QED
  BY <1>1, <1>3, <1>4 DEF Rooted, IsDomain

-----------------------------------------------------------------------------
(* An insertion goes down the path of the key.                             *)

LEMMA PrefixIsStrict ==
  ASSUME NEW N, NEW key \in Seq(N), NEW i \in 1..Len(key), i # Len(key)
  PROVE  IsStrictPrefix(SubSeq(key, 1, i), key)
<1>1. PICK p : p = SubSeq(key, 1, i)
  OBVIOUS
<1>2. p \in Seq(N) /\ Len(p) = i
  BY <1>1, PrefixIs
<1>3. Len(key) \in Nat /\ \A k \in 1..i : p[k] = key[k]
  BY <1>1, LenProperties
<1>4. PICK q : q = SubSeq(p, 1, i)
  OBVIOUS
<1>5. q \in Seq(N) /\ Len(q) = i /\ \A k \in 1..i : q[k] = p[k]
  BY <1>2, <1>4, SubSeqProperties
<1>6. q = p
  BY <1>2, <1>5, SeqEqual
<1>7. Len(p) <= Len(key) /\ SubSeq(p, 1, Len(p)) = SubSeq(key, 1, Len(p)) /\ p # key
  BY <1>1, <1>2, <1>3, <1>4, <1>6
<1> QED
  BY <1>1, <1>7 DEF IsStrictPrefix, IsPrefix

Names1(key) == {SubSeq(key, 1, i) : i \in 1..Len(key)}
Trees(P, V) == UNION {[S -> V] : S \in SUBSET P}

\* What an insertion may hold between two steps, whatever the steps.
Held(t, key, value) ==
  [tree : Trees(DOMAIN t \cup Names1(key), {t[p] : p \in DOMAIN t} \cup {Domain, value}),
   ok : BOOLEAN]

LEMMA PutInTrees ==
  ASSUME NEW P, NEW V, NEW t \in Trees(P, V), NEW path \in P, NEW node \in V
  PROVE  Put(t, path, node) \in Trees(P, V)
<1>1. PICK S \in SUBSET P : t \in [S -> V]
  BY DEF Trees
<1>2. Put(t, path, node) = [p \in S \cup {path} |-> IF p = path THEN node ELSE t[p]]
  BY <1>1 DEF Put
<1>3. Put(t, path, node) \in [S \cup {path} -> V]
  BY <1>1, <1>2
<1>4. S \cup {path} \in SUBSET P
  BY <1>1
<1> QED
  BY <1>3, <1>4 DEF Trees

LEMMA DescendIsHeld ==
  ASSUME NEW t, NEW key, NEW value, NEW s \in Held(t, key, value), NEW i \in 1..Len(key)
  PROVE  Descend(s, i, key, value) \in Held(t, key, value)
<1>1. PICK T : T = Trees(DOMAIN t \cup Names1(key), {t[p] : p \in DOMAIN t} \cup {Domain, value})
  OBVIOUS
<1>2. s \in [tree : T, ok : BOOLEAN] /\ Held(t, key, value) = [tree : T, ok : BOOLEAN]
  BY <1>1 DEF Held
<1>3. PICK path : path = SubSeq(key, 1, i)
  OBVIOUS
<1>4. path \in DOMAIN t \cup Names1(key)
  BY <1>3 DEF Names1
<1>5. Put(s.tree, path, Domain) \in T /\ Put(s.tree, path, value) \in T
  BY <1>1, <1>2, <1>4, PutInTrees
<1>6. \/ Descend(s, i, key, value) = s
      \/ Descend(s, i, key, value) = [s EXCEPT !.ok = FALSE]
      \/ Descend(s, i, key, value) = [s EXCEPT !.tree = Put(s.tree, path, Domain)]
      \/ Descend(s, i, key, value) = [s EXCEPT !.tree = Put(s.tree, path, value)]
  BY <1>2, <1>3 DEF Descend
<1> QED
  BY <1>2, <1>5, <1>6

Descends(h, t, key, value) ==
  /\ h[0] = [tree |-> t, ok |-> TRUE]
  /\ \A i \in 1..Len(key) : h[i] = Descend(h[i - 1], i, key, value)
  /\ Inserted(t, key, value) = h[Len(key)]

LEMMA InsertionRuns ==
  ASSUME NEW t, t = [p \in DOMAIN t |-> t[p]], NEW N, NEW key \in Seq(N), NEW value
  PROVE  \E h \in [0..Len(key) -> Held(t, key, value)] : Descends(h, t, key, value)
<1>1. PICK n, S : n = Len(key) /\ S = Held(t, key, value)
  OBVIOUS
<1>2. n \in Nat /\ DOMAIN key = 1..n
  BY <1>1, LenProperties
<1>3. PICK base : base = [tree |-> t, ok |-> TRUE]
  OBVIOUS
<1>4. base \in S
  <2>1. t \in [DOMAIN t -> {t[p] : p \in DOMAIN t} \cup {Domain, value}]
    OBVIOUS
  <2>2. DOMAIN t \in SUBSET (DOMAIN t \cup Names1(key))
    OBVIOUS
  <2>3. t \in Trees(DOMAIN t \cup Names1(key), {t[p] : p \in DOMAIN t} \cup {Domain, value})
    BY <2>1, <2>2 DEF Trees
  <2> QED
    BY <1>1, <1>3, <2>3 DEF Held
<1>5. PICK step : step = [p \in (1..n) \X S |-> Descend(p[2], p[1], key, value)]
  OBVIOUS
<1>6. ASSUME NEW k \in 1..n, NEW s \in S
      PROVE  step[<<k, s>>] = Descend(s, k, key, value) /\ Descend(s, k, key, value) \in S
  <2>1. <<k, s>> \in (1..n) \X S /\ <<k, s>>[1] = k /\ <<k, s>>[2] = s
    OBVIOUS
  <2>2. Descend(s, k, key, value) \in S
    BY <1>1, DescendIsHeld
  <2> QED
    BY <1>5, <2>1, <2>2
<1>7. step \in [(1..n) \X S -> S]
  <2> SUFFICES ASSUME NEW p \in (1..n) \X S PROVE Descend(p[2], p[1], key, value) \in S
    BY <1>5
  <2>1. p[1] \in 1..n /\ p[2] \in S
    OBVIOUS
  <2> QED
    BY <1>6, <2>1
<1>8. PICK g \in [SUBSET (1..n) -> S] : Folds(g, base, step, n)
  BY <1>2, <1>4, <1>7, FoldExists
<1>b. PICK ids : ids = [i \in DOMAIN key |-> i]
  OBVIOUS
<1>c. DOMAIN ids = 1..n /\ \A i \in 1..n : ids[i] = i
  BY <1>2, <1>b
<1> DEFINE Eq(f, s) == IF s = {} THEN base ELSE Descend(f[s \ {Max(s)}], ids[Max(s)], key, value)
           H(f) == f = [s \in SUBSET (1..n) |-> Eq(f, s)]
<1>9. H(g)
  <2>1. ASSUME NEW s \in SUBSET (1..n) PROVE g[s] = Eq(g, s)
    <3>1. CASE s = {}
      BY <1>8, <3>1 DEF Folds
    <3>2. CASE s # {}
      <4>1. s \subseteq 1..n
        OBVIOUS
      <4>2. Max(s) \in s
        BY <1>2, <3>2, <4>1, MaxIs
      <4>3. Max(s) \in 1..n /\ s \ {Max(s)} \in SUBSET (1..n)
        BY <4>1, <4>2
      <4>4. g[s] = step[<<Max(s), g[s \ {Max(s)}]>>]
        BY <1>8, <3>2 DEF Folds
      <4>5. g[s \ {Max(s)}] \in S
        BY <4>3
      <4> QED
        BY <1>6, <1>c, <3>2, <4>3, <4>4, <4>5
    <3> QED
      BY <3>1, <3>2
  <2>2. g = [s \in SUBSET (1..n) |-> g[s]]
    OBVIOUS
  <2> HIDE DEF Eq
  <2> QED
    BY <2>1, <2>2
<1>10. PICK it : it = CHOOSE f : H(f)
  OBVIOUS
<1>11. Inserted(t, key, value) = it[1..n]
  BY <1>3, <1>b, <1>c, <1>10 DEF Inserted, FoldLeft, MapThenFoldSet
<1>12. H(it)
  <2> HIDE DEF H
  <2> QED
    BY <1>9, <1>10
<1>13. PICK h : h = [k \in 0..n |-> it[1..k]]
  OBVIOUS
<1>14. h[0] = base
  <2>1. 1..0 = {} /\ {} \in SUBSET (1..n) /\ 0 \in 0..n
    BY <1>2
  <2> QED
    BY <1>12, <1>13, <2>1
<1>15. ASSUME NEW k \in 1..n PROVE h[k] = Descend(h[k - 1], k, key, value)
  <2>1. Max(1..k) = k /\ (1..k) \ {k} = 1..k - 1 /\ 1..k \in SUBSET (1..n) /\ 1..k # {}
    BY <1>2, LastOf
  <2>2. it[1..k] = Eq(it, 1..k)
    BY <1>12, <2>1
  <2>3. it[1..k] = Descend(it[1..k - 1], k, key, value)
    BY <1>c, <2>1, <2>2
  <2>4. k \in 0..n /\ k - 1 \in 0..n
    BY <1>2
  <2> QED
    BY <1>13, <2>3, <2>4
<1>16. PICK P : P = {k \in 0..n : h[k] \in S}
  OBVIOUS
<1>17. \A k \in 0..n : k \in P
  <2>1. 0 \in P
    BY <1>2, <1>4, <1>14, <1>16
  <2>2. ASSUME NEW k \in 1..n, k - 1 \in P PROVE k \in P
    <3>1. h[k - 1] \in S /\ k \in 0..n
      BY <1>16, <2>2
    <3>2. Descend(h[k - 1], k, key, value) \in S
      BY <1>6, <3>1
    <3> QED
      BY <1>15, <1>16, <3>1, <3>2
  <2> QED
    BY <1>2, <2>1, <2>2, StepByStep
<1>18. h \in [0..n -> S]
  BY <1>13, <1>16, <1>17
<1>19. Inserted(t, key, value) = h[n]
  BY <1>2, <1>11, <1>13
<1> QED
  BY <1>1, <1>3, <1>14, <1>15, <1>18, <1>19 DEF Descends

\* What an insertion may have done above the key.
Grown(t, u, key) ==
  /\ Rooted(u)
  /\ \A path \in DOMAIN t : path \in DOMAIN u /\ u[path] = t[path]
  /\ \A path \in DOMAIN u \ DOMAIN t : u[path] = Domain /\ IsStrictPrefix(path, key)

\* After i names: nothing, or the domain of the last one is new.
Halfway(s, t, key, i) ==
  /\ s.tree = t \/ (s.ok /\ Grown(t, s.tree, key) /\ SubSeq(key, 1, i) \in DOMAIN s.tree \ DOMAIN t)
  /\ s.ok \in BOOLEAN

\* What it has done in the end.
Set(t, u, key, value) ==
  /\ Rooted(u) /\ Get(u, key) = value /\ u[Parent(key)] = Domain
  /\ \A path \in DOMAIN u \ {key} :
       IF path \in DOMAIN t THEN u[path] = t[path]
       ELSE u[path] = Domain /\ IsStrictPrefix(path, key)

LEMMA DescendAbove ==
  ASSUME NEW t, t = NoRoot \/ Rooted(t), NEW N, NEW key \in Seq(N), NEW value,
         NEW i \in 1..Len(key), i # Len(key),
         NEW s, s \in Held(t, key, value), Halfway(s, t, key, i - 1)
  PROVE  Halfway(Descend(s, i, key, value), t, key, i)
<1>1. PICK path : path = SubSeq(key, 1, i)
  OBVIOUS
<1>2. PICK parent : parent = SubSeq(key, 1, i - 1)
  OBVIOUS
<1>3. path \in Seq(N) /\ path # <<>> /\ Parent(path) = parent
  BY <1>1, <1>2, PrefixIs DEF Parent
<1>4. s.ok \in BOOLEAN /\ s = [tree |-> s.tree, ok |-> s.ok]
  BY DEF Held
<1>5. \/ s.tree = t
      \/ s.ok /\ Grown(t, s.tree, key) /\ parent \in DOMAIN s.tree \ DOMAIN t
  BY <1>2 DEF Halfway
<1>6. path \in DOMAIN t => parent \in DOMAIN t
  <2>1. DOMAIN NoRoot = {}
    BY DEF NoRoot
  <2>2. ASSUME path \in DOMAIN t PROVE parent \in DOMAIN t
    <3>1. Rooted(t)
      BY <2>1, <2>2
    <3>2. path \in DOMAIN t \ {<<>>}
      BY <1>3, <2>2
    <3> QED
      BY <1>3, <3>1, <3>2 DEF Rooted, IsDomain
  <2> QED
    BY <2>2
<1>7. CASE ~s.ok
  <2>1. Descend(s, i, key, value) = s
    BY <1>7 DEF Descend
  <2> QED
    BY <1>4, <1>5, <1>7, <2>1 DEF Halfway
<1>8. CASE s.ok /\ ~IsDomain(s.tree, parent)
  <2>1. Descend(s, i, key, value) = [s EXCEPT !.ok = FALSE]
    BY <1>1, <1>3, <1>8 DEF Descend
  <2>2. s.tree = t
    BY <1>5, <1>8 DEF Grown, IsDomain
  <2> QED
    BY <1>4, <2>1, <2>2 DEF Halfway
<1>9. CASE s.ok /\ IsDomain(s.tree, parent) /\ path \in DOMAIN s.tree
  <2>1. i < Len(key)
    BY LenProperties
  <2>2. Descend(s, i, key, value) = s
    BY <1>1, <1>3, <1>9, <2>1 DEF Descend
  <2>3. s.tree = t \/ (s.ok /\ Grown(t, s.tree, key) /\ path \in DOMAIN s.tree \ DOMAIN t)
    BY <1>5, <1>6, <1>9
  <2> QED
    BY <1>1, <1>4, <2>2, <2>3 DEF Halfway
<1>10. CASE s.ok /\ IsDomain(s.tree, parent) /\ path \notin DOMAIN s.tree
  <2>1. i < Len(key)
    BY LenProperties
  <2>2. PICK u : u = Put(s.tree, path, Domain)
    OBVIOUS
  <2>3. Descend(s, i, key, value) = [s EXCEPT !.tree = u]
    BY <1>1, <1>3, <1>10, <2>1, <2>2 DEF Descend
  <2>4. u = [p \in DOMAIN s.tree \cup {path} |-> IF p = path THEN Domain ELSE s.tree[p]]
    BY <2>2 DEF Put
  <2>5. DOMAIN NoRoot = {}
    BY DEF NoRoot
  <2>6. Rooted(s.tree)
    BY <1>5, <1>10, <2>5 DEF Grown, IsDomain
  <2>7. Rooted(u)
    <3>1. ~IsDomain(s.tree, path) /\ \E M : path \in Seq(M)
      BY <1>3, <1>10 DEF IsDomain
    <3> QED
      BY <1>3, <1>10, <2>2, <2>6, <3>1, PutChild
  <2>8. \A p \in DOMAIN t : p \in DOMAIN s.tree /\ s.tree[p] = t[p]
    BY <1>5 DEF Grown
  <2>9. \A p \in DOMAIN t : p \in DOMAIN u /\ u[p] = t[p]
    BY <1>10, <2>4, <2>8
  <2>10. \A p \in DOMAIN s.tree \ DOMAIN t : s.tree[p] = Domain /\ IsStrictPrefix(p, key)
    BY <1>5 DEF Grown
  <2>11. IsStrictPrefix(path, key)
    BY <1>1, PrefixIsStrict
  <2>12. \A p \in DOMAIN u \ DOMAIN t : u[p] = Domain /\ IsStrictPrefix(p, key)
    BY <2>4, <2>10, <2>11
  <2>13. Grown(t, u, key) /\ path \in DOMAIN u \ DOMAIN t
    BY <1>10, <2>4, <2>7, <2>8, <2>9, <2>12 DEF Grown
  <2> QED
    BY <1>1, <1>4, <1>10, <2>3, <2>13 DEF Halfway
<1> QED
  BY <1>4, <1>7, <1>8, <1>9, <1>10

LEMMA DescendToKey ==
  ASSUME NEW t, t = NoRoot \/ Rooted(t), NEW N, NEW key \in Seq(N), key # <<>>,
         NEW value, value # Domain,
         NEW s, s \in Held(t, key, value), Halfway(s, t, key, Len(key) - 1)
  PROVE  LET u == Descend(s, Len(key), key, value).tree IN u = t \/ Set(t, u, key, value)
<1>0. Len(key) \in 1..Len(key) /\ Len(key) \in Nat
  BY FrontIs
<1>1. PICK i : i = Len(key)
  OBVIOUS
<1>2. PICK parent : parent = SubSeq(key, 1, i - 1)
  OBVIOUS
<1>3. SubSeq(key, 1, i) = key /\ Parent(key) = parent
  <2>1. PICK p : p = SubSeq(key, 1, i)
    OBVIOUS
  <2>2. p \in Seq(N) /\ Len(p) = i /\ \A k \in 1..i : p[k] = key[k]
    BY <1>0, <1>1, <2>1, SubSeqProperties
  <2>3. p = key
    BY <1>1, <2>2, SeqEqual
  <2> QED
    BY <1>1, <1>2, <2>1, <2>3 DEF Parent, Front
<1>a. SubSeq(key, 1, Len(key)) = key /\ ~(Len(key) < Len(key)) /\ Parent(key) = parent
  BY <1>0, <1>1, <1>3
<1>b. Descend(s, Len(key), key, value) =
        IF ~s.ok THEN s
        ELSE IF ~IsDomain(s.tree, parent) THEN [s EXCEPT !.ok = FALSE]
        ELSE IF IsDomain(s.tree, key) THEN [s EXCEPT !.ok = FALSE]
        ELSE [s EXCEPT !.tree = Put(s.tree, key, value)]
  BY <1>a, Zenon DEF Descend
<1>4. s.ok \in BOOLEAN /\ s = [tree |-> s.tree, ok |-> s.ok]
  BY DEF Held
<1>5. \/ s.tree = t
      \/ s.ok /\ Grown(t, s.tree, key) /\ parent \in DOMAIN s.tree \ DOMAIN t
  BY <1>1, <1>2 DEF Halfway
<1>6. CASE ~s.ok
  <2>1. Descend(s, Len(key), key, value) = s
    BY <1>6 DEF Descend
  <2> QED
    BY <1>5, <1>6, <2>1
<1>7. CASE s.ok /\ ~IsDomain(s.tree, parent)
  <2>1. Descend(s, Len(key), key, value) = [s EXCEPT !.ok = FALSE]
    BY <1>1, <1>3, <1>7 DEF Descend
  <2>2. s.tree = t
    BY <1>5, <1>7 DEF Grown, IsDomain
  <2> QED
    BY <1>4, <2>1, <2>2
<1>8. CASE s.ok /\ IsDomain(s.tree, parent) /\ IsDomain(s.tree, key)
  <2>1. Descend(s, Len(key), key, value) = [s EXCEPT !.ok = FALSE]
    BY <1>8, <1>b
  <2>2. ASSUME Grown(t, s.tree, key), parent \notin DOMAIN t PROVE FALSE
    <3>1. key \notin DOMAIN t
      <4>1. DOMAIN NoRoot = {}
        BY DEF NoRoot
      <4>2. ASSUME key \in DOMAIN t PROVE FALSE
        <5>1. Rooted(t) /\ key \in DOMAIN t \ {<<>>}
          BY <4>1, <4>2
        <5> QED
          BY <1>3, <2>2, <5>1 DEF Rooted, IsDomain
      <4> QED
        BY <4>2
    <3>2. IsStrictPrefix(key, key)
      BY <1>8, <2>2, <3>1 DEF Grown, IsDomain
    <3> QED
      BY <3>2 DEF IsStrictPrefix
  <2>3. s.tree = t
    BY <1>5, <2>2
  <2> QED
    BY <1>4, <2>1, <2>3
<1>9. CASE s.ok /\ IsDomain(s.tree, parent) /\ ~IsDomain(s.tree, key)
  <2>1. PICK u : u = Put(s.tree, key, value)
    OBVIOUS
  <2>2. Descend(s, Len(key), key, value) = [s EXCEPT !.tree = u]
    BY <1>9, <1>b, <2>1
  <2>3. u = [p \in DOMAIN s.tree \cup {key} |-> IF p = key THEN value ELSE s.tree[p]]
    BY <2>1 DEF Put
  <2>4. Rooted(s.tree)
    <3>1. DOMAIN NoRoot = {}
      BY DEF NoRoot
    <3> QED
      BY <1>5, <1>9, <3>1 DEF Grown, IsDomain
  <2>5. Rooted(u)
    <3>1. \E M : key \in Seq(M)
      OBVIOUS
    <3> QED
      BY <1>3, <1>9, <2>1, <2>4, <3>1, PutChild
  <2>6. Get(u, key) = value
    BY <2>3 DEF Get, IsDomain
  <2>7. u[Parent(key)] = Domain
    <3>1. parent # key
      BY <1>3, FrontIs DEF Parent
    <3> QED
      BY <1>3, <1>9, <2>3, <3>1 DEF IsDomain
  <2>8. \A path \in DOMAIN s.tree :
           IF path \in DOMAIN t THEN s.tree[path] = t[path]
           ELSE s.tree[path] = Domain /\ IsStrictPrefix(path, key)
    BY <1>5 DEF Grown
  <2>9. \A path \in DOMAIN u \ {key} :
           IF path \in DOMAIN t THEN u[path] = t[path]
           ELSE u[path] = Domain /\ IsStrictPrefix(path, key)
    BY <2>3, <2>8
  <2>10. Descend(s, Len(key), key, value).tree = u
    BY <1>4, <2>2
  <2> QED
    BY <2>5, <2>6, <2>7, <2>9, <2>10 DEF Set
<1> QED
  BY <1>4, <1>6, <1>7, <1>8, <1>9

LEMMA InsertedIs ==
  ASSUME NEW t, t = NoRoot \/ Rooted(t), NEW N, NEW key \in Seq(N), key # <<>>,
         NEW value, value # Domain
  PROVE  LET u == Inserted(t, key, value).tree IN u = t \/ Set(t, u, key, value)
<1>1. t = [p \in DOMAIN t |-> t[p]]
  BY DEF Rooted, NoRoot
<1>2. PICK n : n = Len(key)
  OBVIOUS
<1>3. n \in Nat \ {0}
  BY <1>2, FrontIs
<1>4. PICK h \in [0..n -> Held(t, key, value)] : Descends(h, t, key, value)
  BY <1>1, <1>2, InsertionRuns
<1>5. /\ h[0] = [tree |-> t, ok |-> TRUE]
      /\ \A i \in 1..n : h[i] = Descend(h[i - 1], i, key, value)
      /\ Inserted(t, key, value) = h[n]
  BY <1>2, <1>4 DEF Descends
<1>6. PICK P : P = {i \in 0..n - 1 : Halfway(h[i], t, key, i)}
  OBVIOUS
<1>7. \A i \in 0..n - 1 : i \in P
  <2>1. 0 \in P
    BY <1>3, <1>5, <1>6 DEF Halfway
  <2>2. ASSUME NEW i \in 1..n - 1, i - 1 \in P PROVE i \in P
    <3>1. i - 1 \in 0..n /\ i \in 0..n - 1 /\ i \in 1..n /\ i # n
      BY <1>3
    <3>2. PICK s : s = h[i - 1]
      OBVIOUS
    <3>3. s \in Held(t, key, value) /\ Halfway(s, t, key, i - 1)
      BY <1>4, <1>6, <2>2, <3>1, <3>2
    <3>4. Halfway(Descend(s, i, key, value), t, key, i)
      BY <1>2, <3>1, <3>3, DescendAbove
    <3> QED
      BY <1>5, <1>6, <3>1, <3>2, <3>4
  <2>3. n - 1 \in Nat
    BY <1>3
  <2> QED
    BY <2>1, <2>2, <2>3, StepByStep
<1>8. PICK s : s = h[n - 1]
  OBVIOUS
<1>9. s \in Held(t, key, value) /\ Halfway(s, t, key, n - 1)
  <2>1. n - 1 \in 0..n - 1 /\ n - 1 \in 0..n
    BY <1>3
  <2> QED
    BY <1>4, <1>6, <1>7, <1>8, <2>1
<1>10. PICK u : u = Descend(s, Len(key), key, value).tree
  OBVIOUS
<1>11. u = t \/ Set(t, u, key, value)
  BY <1>2, <1>9, <1>10, DescendToKey
<1>12. Inserted(t, key, value).tree = u
  <2>1. n \in 1..n
    BY <1>3
  <2> QED
    BY <1>2, <1>5, <1>8, <1>10, <2>1
<1> QED
  BY <1>11, <1>12

-----------------------------------------------------------------------------
(* The automaton: where a key has been read, and only there, a value may   *)
(* be next.                                                                *)

Stations == {"Ready", "ValueEnd", "Key", "KeyEnd", "Colon", "ValueString", "ValueOthers",
             "thrown"}
Keyed == {"KeyEnd", "Colon", "ValueString", "ValueOthers"}
TokensOf(C) == [type : {"bracket", "key", "value"}, text : Seq(C)]
InOrder(tokens) ==
  \A i \in 1..Len(tokens) :
    /\ tokens[i].type = "value" => i > 1 /\ tokens[i - 1].type = "key"
    /\ tokens[i].type = "key" /\ i > 1 => tokens[i - 1].type # "key"

\* What the automaton may have come to, reading characters of C.
Lexed(C) ==
  {s \in [at : Stations, matched : Seq(C), tokens : Seq(TokensOf(C))] :
     /\ InOrder(s.tokens)
     /\ s.at \in Keyed => s.tokens # <<>> /\ Last(s.tokens).type = "key"
     /\ s.at \notin Keyed \cup {"thrown"} /\ s.tokens # <<>> => Last(s.tokens).type # "key"}

EdgeFits(e) ==
  /\ e.from \in Stations \ {"thrown"} /\ e.to \in Stations \ {"thrown"} /\ e.wait \in BOOLEAN
  /\ e.action \in {"none", "clear", "start", "push", "finish", "bracket", "key", "value"}
  /\ e.action \in {"finish", "value"} => e.from \in Keyed
  /\ e.to \in Keyed =>
       \/ e.action = "key"
       \/ e.from \in Keyed /\ e.action \in {"none", "start", "push"}
  /\ e.action = "key" => e.from \notin Keyed /\ e.to \in Keyed
  /\ e.from \in Keyed => e.to \in Keyed \/ e.action \in {"finish", "value", "bracket"}
  /\ e.from = "Ready" /\ "{" \in e.on =>
       e.to = "Ready" /\ e.action = "bracket" /\ e.wait = FALSE

LEMMA EdgesFit == \A e \in Edges : EdgeFits(e)
<1> DEFINE Fits(e) == EdgeFits(IF e.action = "value" THEN [e EXCEPT !.wait = TRUE] ELSE e)
<1>1. ASSUME NEW from, NEW to, NEW on, NEW action,
             from \in Stations \ {"thrown"}, to \in Stations \ {"thrown"},
             action \in {"none", "clear", "start", "push", "finish", "bracket", "key", "value"},
             action \in {"finish", "value"} => from \in Keyed,
             to \in Keyed => action = "key" \/ (from \in Keyed /\ action \in {"none", "start", "push"}),
             action = "key" => from \notin Keyed /\ to \in Keyed,
             from \in Keyed => to \in Keyed \/ action \in {"finish", "value", "bracket"},
             from = "Ready" /\ "{" \in on => to = "Ready" /\ action = "bracket"
      PROVE  Fits(Edge(from, to, on, action))
  BY <1>1 DEF Edge, EdgeFits
<1>2. Fits(Edge("Ready", "Ready", {Space}, "none"))
  <2> HIDE DEF Fits
  <2> QED
    BY <1>1 DEF Stations, Keyed, Space, Quote
<1>3. Fits(Edge("Ready", "Ready", {"{"}, "bracket"))
  <2> HIDE DEF Fits
  <2> QED
    BY <1>1 DEF Stations, Keyed, Space, Quote
<1>4. Fits(Edge("Ready", "ValueEnd", {"}"}, "bracket"))
  <2> HIDE DEF Fits
  <2> QED
    BY <1>1 DEF Stations, Keyed, Space, Quote
<1>5. Fits(Edge("Ready", "Key", {Quote}, "clear"))
  <2> HIDE DEF Fits
  <2> QED
    BY <1>1 DEF Stations, Keyed, Space, Quote
<1>6. Fits(Edge("Key", "Key", Text \ {Quote}, "push"))
  <2> HIDE DEF Fits
  <2> QED
    BY <1>1 DEF Stations, Keyed, Space, Quote
<1>7. Fits(Edge("Key", "KeyEnd", {Quote}, "key"))
  <2> HIDE DEF Fits
  <2> QED
    BY <1>1 DEF Stations, Keyed, Space, Quote
<1>8. Fits(Edge("KeyEnd", "KeyEnd", {Space}, "none"))
  <2> HIDE DEF Fits
  <2> QED
    BY <1>1 DEF Stations, Keyed, Space, Quote
<1>9. Fits(Edge("KeyEnd", "Colon", {":"}, "none"))
  <2> HIDE DEF Fits
  <2> QED
    BY <1>1 DEF Stations, Keyed, Space, Quote
<1>10. Fits(Edge("Colon", "Colon", {Space}, "none"))
  <2> HIDE DEF Fits
  <2> QED
    BY <1>1 DEF Stations, Keyed, Space, Quote
<1>11. Fits(Edge("Colon", "ValueString", {Quote}, "start"))
  <2> HIDE DEF Fits
  <2> QED
    BY <1>1 DEF Stations, Keyed, Space, Quote
<1>12. Fits(Edge("Colon", "ValueOthers", ValueChars, "start"))
  <2> HIDE DEF Fits
  <2> QED
    BY <1>1 DEF Stations, Keyed, Space, Quote
<1>13. Fits(Edge("Colon", "Ready", {"{"}, "bracket"))
  <2> HIDE DEF Fits
  <2> QED
    BY <1>1 DEF Stations, Keyed, Space, Quote
<1>14. Fits(Edge("ValueString", "ValueString", Text \ {Quote}, "push"))
  <2> HIDE DEF Fits
  <2> QED
    BY <1>1 DEF Stations, Keyed, Space, Quote
<1>15. Fits(Edge("ValueString", "ValueEnd", {Quote}, "finish"))
  <2> HIDE DEF Fits
  <2> QED
    BY <1>1 DEF Stations, Keyed, Space, Quote
<1>16. Fits(Edge("ValueOthers", "ValueOthers", ValueChars, "push"))
  <2> HIDE DEF Fits
  <2> QED
    BY <1>1 DEF Stations, Keyed, Space, Quote
<1>17. Fits(Edge("ValueOthers", "ValueEnd", Text \ ValueChars, "value"))
  <2> HIDE DEF Fits
  <2> QED
    BY <1>1 DEF Stations, Keyed, Space, Quote
<1>18. Fits(Edge("ValueEnd", "ValueEnd", {Space}, "none"))
  <2> HIDE DEF Fits
  <2> QED
    BY <1>1 DEF Stations, Keyed, Space, Quote
<1>19. Fits(Edge("ValueEnd", "ValueEnd", {"}"}, "bracket"))
  <2> HIDE DEF Fits
  <2> QED
    BY <1>1 DEF Stations, Keyed, Space, Quote
<1>20. Fits(Edge("ValueEnd", "Ready", {","}, "none"))
  <2> HIDE DEF Fits
  <2> QED
    BY <1>1 DEF Stations, Keyed, Space, Quote
<1>21. \A e \in EdgesWithoutWait : Fits(e)
  <2> HIDE DEF Fits
  <2> QED
    BY <1>2, <1>3, <1>4, <1>5, <1>6, <1>7, <1>8, <1>9, <1>10, <1>11, 
       <1>12, <1>13, <1>14, <1>15, <1>16, <1>17, <1>18, <1>19, <1>20 DEF EdgesWithoutWait
<1> QED
  BY <1>21 DEF Edges

LEMMA OpeningEdge == \E e \in Edges : e.from = "Ready" /\ "{" \in e.on
<1>1. PICK e : e = Edge("Ready", "Ready", {"{"}, "bracket")
  OBVIOUS
<1>2. e \in EdgesWithoutWait
  BY <1>1 DEF EdgesWithoutWait
<1>3. e.from = "Ready" /\ "{" \in e.on /\ e.action = "bracket"
  BY <1>1 DEF Edge
<1>4. e \in Edges
  BY <1>2, <1>3 DEF Edges
<1> QED
  BY <1>3, <1>4

-----------------------------------------------------------------------------
(* A character keeps what the automaton may have come to.                  *)

LEMMA AppendToken ==
  ASSUME NEW C, NEW s \in Lexed(C), NEW token \in TokensOf(C),
         token.type = "value" => s.at \in Keyed,
         token.type = "key" => s.at \notin Keyed \cup {"thrown"}
  PROVE  LET ts == Append(s.tokens, token)
         IN  /\ ts \in Seq(TokensOf(C)) /\ InOrder(ts) /\ ts # <<>> /\ Last(ts) = token
             /\ s.tokens # <<>> => ts[1] = s.tokens[1]
<1>1. PICK ts : ts = Append(s.tokens, token)
  OBVIOUS
<1>2. PICK old : old = s.tokens
  OBVIOUS
<1>3. old \in Seq(TokensOf(C)) /\ InOrder(old)
  BY <1>2 DEF Lexed
<1>4. PICK n : n = Len(old)
  OBVIOUS
<1>5. n \in Nat /\ (old # <<>> => n > 0)
  BY <1>3, <1>4, EmptySeq, LenProperties
<1>6. /\ ts \in Seq(TokensOf(C)) /\ Len(ts) = n + 1
      /\ \A i \in 1..n : ts[i] = old[i]
      /\ ts[n + 1] = token
  BY <1>1, <1>2, <1>3, <1>4, AppendProperties
<1>7. Last(ts) = token
  BY <1>5, <1>6 DEF Last
<1>8. s.at \in Keyed => n > 0 /\ old[n].type = "key"
  BY <1>2, <1>4, <1>5 DEF Lexed, Last
<1>9. s.at \notin Keyed \cup {"thrown"} /\ n > 0 => old[n].type # "key"
  <2>1. n > 0 => old # <<>>
    BY <1>4, <1>5
  <2> QED
    BY <1>2, <1>4, <2>1 DEF Lexed, Last
<1>10. InOrder(ts)
  <2> SUFFICES ASSUME NEW i \in 1..n + 1
               PROVE  /\ ts[i].type = "value" => i > 1 /\ ts[i - 1].type = "key"
                      /\ ts[i].type = "key" /\ i > 1 => ts[i - 1].type # "key"
    BY <1>6 DEF InOrder
  <2>1. CASE i = n + 1
    <3>1. i > 1 => n \in 1..n /\ i - 1 = n
      BY <1>5, <2>1
    <3>2. ts[i] = token /\ (i > 1 => ts[i - 1] = old[n])
      BY <1>6, <2>1, <3>1
    <3>3. n > 0 => i > 1
      BY <1>5, <2>1
    <3>4. i > 1 => n > 0
      BY <1>5, <2>1
    <3> QED
      BY <1>8, <1>9, <3>2, <3>3, <3>4
  <2>2. CASE i # n + 1
    <3>1. i \in 1..n /\ (i > 1 => i - 1 \in 1..n)
      BY <1>5, <2>2
    <3>2. /\ old[i].type = "value" => i > 1 /\ old[i - 1].type = "key"
          /\ old[i].type = "key" /\ i > 1 => old[i - 1].type # "key"
      BY <1>3, <1>4, <3>1 DEF InOrder
    <3> QED
      BY <1>6, <3>1, <3>2
  <2> QED
    BY <2>1, <2>2
<1>11. ts # <<>> /\ (old # <<>> => ts[1] = old[1])
  BY <1>5, <1>6
<1> QED
  BY <1>1, <1>2, <1>6, <1>7, <1>10, <1>11

\* The tokens so far stay.
Keeps(s, u) == s.tokens # <<>> => u.tokens # <<>> /\ u.tokens[1] = s.tokens[1]

LEMMA ActIs ==
  ASSUME NEW C, NEW s \in Lexed(C), NEW c \in C, NEW e, EdgeFits(e), e.from = s.at
  PROVE  LET u == [Act(s, e.action, c) EXCEPT !.at = e.to] IN u \in Lexed(C) /\ Keeps(s, u)
<1>1. PICK u : u = [Act(s, e.action, c) EXCEPT !.at = e.to]
  OBVIOUS
<1>2. /\ s.matched \in Seq(C) /\ s.tokens \in Seq(TokensOf(C)) /\ InOrder(s.tokens)
      /\ s.at \in Keyed => s.tokens # <<>> /\ Last(s.tokens).type = "key"
      /\ s.at \notin Keyed \cup {"thrown"} /\ s.tokens # <<>> => Last(s.tokens).type # "key"
      /\ s = [at |-> s.at, matched |-> s.matched, tokens |-> s.tokens]
      /\ s.at # "thrown"
  BY DEF Lexed, EdgeFits
<1>3. e.to \in Stations \ {"thrown"}
  BY DEF EdgeFits
<1>4. CASE e.action \in {"none", "clear", "start", "push"}
  <2>1. PICK matched : matched = Act(s, e.action, c).matched
    OBVIOUS
  <2>2. Append(s.matched, c) \in Seq(C) /\ <<c>> \in Seq(C) /\ <<>> \in Seq(C)
    BY <1>2
  <2>3. /\ Act(s, e.action, c) = [at |-> s.at, matched |-> matched, tokens |-> s.tokens]
        /\ matched \in Seq(C)
    <3>1. CASE e.action = "none"
      BY <1>2, <2>1, <3>1 DEF Act
    <3>2. CASE e.action = "clear"
      BY <1>2, <2>1, <2>2, <3>2 DEF Act
    <3>3. CASE e.action = "start"
      BY <1>2, <2>1, <2>2, <3>3 DEF Act
    <3>4. CASE e.action = "push"
      BY <1>2, <2>1, <2>2, <3>4 DEF Act
    <3> QED
      BY <1>4, <3>1, <3>2, <3>3, <3>4
  <2>4. u = [at |-> e.to, matched |-> matched, tokens |-> s.tokens]
    BY <1>1, <2>3
  <2>5. (e.to \in Keyed => s.at \in Keyed) /\ (s.at \in Keyed => e.to \in Keyed)
    BY <1>4 DEF EdgeFits
  <2> QED
    BY <1>1, <1>2, <1>3, <2>3, <2>4, <2>5 DEF Lexed, Keeps
<1>5. CASE e.action \in {"finish", "bracket", "key", "value"}
  <2>1. PICK token, matched : token = Last(Act(s, e.action, c).tokens)
                              /\ matched = Act(s, e.action, c).matched
    OBVIOUS
  <2>2. Append(s.matched, c) \in Seq(C) /\ <<c>> \in Seq(C)
    BY <1>2
  <2>3. \E tok \in TokensOf(C), m \in Seq(C) :
           /\ Act(s, e.action, c) = [at |-> s.at, matched |-> m, tokens |-> Append(s.tokens, tok)]
           /\ tok.type = IF e.action = "finish" THEN "value" ELSE e.action
    <3>1. CASE e.action = "finish"
      <4>1. PICK tok : tok = Token("value", Append(s.matched, c))
        OBVIOUS
      <4>2. tok \in TokensOf(C) /\ tok.type = "value"
        BY <2>2, <4>1 DEF Token, TokensOf
      <4>3. Act(s, e.action, c) =
              [at |-> s.at, matched |-> Append(s.matched, c), tokens |-> Append(s.tokens, tok)]
        BY <1>2, <3>1, <4>1 DEF Act
      <4> QED
        BY <2>2, <3>1, <4>2, <4>3
    <3>2. CASE e.action = "bracket"
      <4>1. PICK tok : tok = Token("bracket", <<c>>)
        OBVIOUS
      <4>2. tok \in TokensOf(C) /\ tok.type = "bracket"
        BY <2>2, <4>1 DEF Token, TokensOf
      <4>3. Act(s, e.action, c) =
              [at |-> s.at, matched |-> s.matched, tokens |-> Append(s.tokens, tok)]
        BY <1>2, <3>2, <4>1 DEF Act
      <4> QED
        BY <1>2, <3>2, <4>2, <4>3
    <3>3. CASE e.action \in {"key", "value"}
      <4>1. PICK tok : tok = Token(e.action, s.matched)
        OBVIOUS
      <4>2. tok \in TokensOf(C) /\ tok.type = e.action
        BY <1>2, <3>3, <4>1 DEF Token, TokensOf
      <4>3. Act(s, e.action, c) =
              [at |-> s.at, matched |-> s.matched, tokens |-> Append(s.tokens, tok)]
        BY <1>2, <3>3, <4>1 DEF Act
      <4> QED
        BY <1>2, <3>3, <4>2, <4>3
    <3> QED
      BY <1>5, <3>1, <3>2, <3>3
  <2>4. PICK tok \in TokensOf(C), m \in Seq(C) :
           /\ Act(s, e.action, c) = [at |-> s.at, matched |-> m, tokens |-> Append(s.tokens, tok)]
           /\ tok.type = IF e.action = "finish" THEN "value" ELSE e.action
    BY <2>3
  <2>5. /\ tok.type = "value" => s.at \in Keyed
        /\ tok.type = "key" => s.at \notin Keyed \cup {"thrown"}
    BY <1>2, <1>5, <2>4 DEF EdgeFits
  <2>6. PICK ts : ts = Append(s.tokens, tok)
    OBVIOUS
  <2>a. LET us == Append(s.tokens, tok)
        IN  /\ us \in Seq(TokensOf(C)) /\ InOrder(us) /\ us # <<>> /\ Last(us) = tok
            /\ s.tokens # <<>> => us[1] = s.tokens[1]
    <3>1. tok \in TokensOf(C)
      BY <2>4
    <3> QED
      BY <2>5, <3>1, AppendToken
  <2>7. /\ ts \in Seq(TokensOf(C)) /\ InOrder(ts) /\ ts # <<>> /\ Last(ts) = tok
        /\ s.tokens # <<>> => ts[1] = s.tokens[1]
    BY <2>6, <2>a
  <2>b. PICK r : r = Act(s, e.action, c)
    OBVIOUS
  <2>c. r = [at |-> s.at, matched |-> m, tokens |-> ts]
    BY <2>4, <2>6, <2>b
  <2>d. u = [r EXCEPT !.at = e.to]
    BY <1>1, <2>b
  <2>8. u = [at |-> e.to, matched |-> m, tokens |-> ts]
    BY <2>c, <2>d
  <2>9. (e.to \in Keyed => tok.type = "key") /\ (tok.type = "key" => e.to \in Keyed)
    BY <1>5, <2>4 DEF EdgeFits
  <2> QED
    BY <1>1, <1>3, <2>7, <2>8, <2>9 DEF Lexed, Keeps
<1> QED
  BY <1>4, <1>5 DEF EdgeFits

LEMMA StepIs ==
  ASSUME NEW C, NEW s \in Lexed(C), NEW c \in C
  PROVE  Step(s, c)[1] \in Lexed(C) /\ Keeps(s, Step(s, c)[1]) /\ Step(s, c)[2] \in BOOLEAN
<1>1. PICK edges : edges = {e \in Edges : e.from = s.at /\ c \in e.on}
  OBVIOUS
<1>2. CASE edges = {}
  <2>1. PICK u : u = [s EXCEPT !.at = "thrown"]
    OBVIOUS
  <2>2. Step(s, c) = <<u, FALSE>>
    BY <1>1, <1>2, <2>1 DEF Step
  <2>3. u \in Lexed(C) /\ Keeps(s, u)
    BY <2>1 DEF Lexed, Keeps, Stations, Keyed
  <2> QED
    BY <2>2, <2>3
<1>3. CASE edges # {}
  <2>1. PICK e : e = CHOOSE x \in edges : TRUE
    OBVIOUS
  <2>2. e \in Edges /\ e.from = s.at
    BY <1>1, <1>3, <2>1
  <2>3. EdgeFits(e)
    BY <2>2, EdgesFit
  <2>4. PICK u : u = [Act(s, e.action, c) EXCEPT !.at = e.to]
    OBVIOUS
  <2>5. u \in Lexed(C) /\ Keeps(s, u)
    BY <2>2, <2>3, <2>4, ActIs
  <2>6. Step(s, c) = <<u, e.wait>>
    BY <1>1, <1>3, <2>1, <2>4 DEF Step
  <2>7. e.wait \in BOOLEAN
    BY <2>3 DEF EdgeFits
  <2> QED
    BY <2>5, <2>6, <2>7
<1> QED
  BY <1>2, <1>3

LEMMA AdvanceIs ==
  ASSUME NEW C, NEW s \in Lexed(C), NEW c \in C
  PROVE  Advance(s, c) \in Lexed(C) /\ Keeps(s, Advance(s, c))
<1>1. PICK first : first = Step(s, c)
  OBVIOUS
<1>2. first[1] \in Lexed(C) /\ Keeps(s, first[1])
  BY <1>1, StepIs
<1>3. PICK u : u = first[1]
  OBVIOUS
<1>4. PICK v : v = Step(u, c)[1]
  OBVIOUS
<1>5. v \in Lexed(C) /\ Keeps(u, v)
  BY <1>2, <1>3, <1>4, StepIs
<1>6. Advance(s, c) = v \/ Advance(s, c) = u
  BY <1>1, <1>3, <1>4 DEF Advance
<1> QED
  BY <1>2, <1>3, <1>5, <1>6 DEF Keeps

LEMMA StepTakes ==
  ASSUME NEW s, NEW c, \E e \in Edges : e.from = s.at /\ c \in e.on
  PROVE  \E e \in Edges : /\ e.from = s.at /\ c \in e.on
                          /\ Step(s, c) = <<[Act(s, e.action, c) EXCEPT !.at = e.to], e.wait>>
<1>1. PICK edges : edges = {e \in Edges : e.from = s.at /\ c \in e.on}
  OBVIOUS
<1>2. edges # {}
  BY <1>1
<1>3. PICK e : e = CHOOSE x \in edges : TRUE
  OBVIOUS
<1>4. PICK u : u = [Act(s, e.action, c) EXCEPT !.at = e.to]
  OBVIOUS
<1>5. Step(s, c) = <<u, e.wait>>
  BY <1>1, <1>2, <1>3, <1>4 DEF Step
<1>6. e \in Edges /\ e.from = s.at /\ c \in e.on
  BY <1>1, <1>2, <1>3
<1> QED
  BY <1>4, <1>5, <1>6

LEMMA BracketIs ==
  ASSUME NEW s, s.tokens = <<>>, s = [at |-> s.at, matched |-> s.matched, tokens |-> s.tokens],
         NEW c, NEW to
  PROVE  LET u == [Act(s, "bracket", c) EXCEPT !.at = to]
         IN  u.tokens # <<>> /\ u.tokens[1] = Token("bracket", <<c>>)
<1>1. PICK token : token = Token("bracket", <<c>>)
  OBVIOUS
<1>2. PICK ts : ts = Append(s.tokens, token)
  OBVIOUS
<1>3. ts # <<>> /\ ts[1] = token
  <2>1. s.tokens \in Seq({token}) /\ token \in {token}
    OBVIOUS
  <2>2. Len(s.tokens) = 0
    BY <2>1, EmptySeq
  <2>3. Len(ts) = 1 /\ ts[1] = token
    BY <1>2, <2>1, <2>2, AppendProperties
  <2>4. ts \in Seq({token})
    BY <1>2, <2>1, AppendProperties
  <2> QED
    <3>1. ts = <<>> => Len(ts) = 0
      BY <2>4, EmptySeq
    <3> QED
      BY <2>3, <3>1
<1>4. PICK r : r = Act(s, "bracket", c)
  OBVIOUS
<1>5. r = [at |-> s.at, matched |-> s.matched, tokens |-> ts]
  BY <1>1, <1>2, <1>4 DEF Act
<1> QED
  BY <1>1, <1>3, <1>4, <1>5

\* The first brace of a text is its first token.
LEMMA OpeningIs ==
  LET u == Advance(Start, "{")
  IN  u.tokens # <<>> /\ u.tokens[1] = Token("bracket", <<"{">>)
<1>0. PICK s : s = Start
  OBVIOUS
<1>a. PICK c : c = "{"
  OBVIOUS
<1>1. s.at = "Ready" /\ s.tokens = <<>> /\ s = [at |-> s.at, matched |-> s.matched, tokens |-> s.tokens]
  BY <1>0 DEF Start
<1>2. \E e \in Edges : e.from = s.at /\ c \in e.on
  BY <1>1, <1>a, OpeningEdge
<1>3. PICK e \in Edges : /\ e.from = s.at /\ c \in e.on
                         /\ Step(s, c) = <<[Act(s, e.action, c) EXCEPT !.at = e.to], e.wait>>
  BY <1>2, StepTakes
<1>4. EdgeFits(e)
  BY <1>3, EdgesFit
<1>5. e.action = "bracket" /\ e.wait = FALSE
  BY <1>1, <1>3, <1>4, <1>a DEF EdgeFits
<1>6. PICK u : u = [Act(s, e.action, c) EXCEPT !.at = e.to]
  OBVIOUS
<1>7. Step(s, c) = <<u, e.wait>>
  BY <1>3, <1>6
<1>8. Step(s, c)[1] = u /\ Step(s, c)[2] = FALSE
  BY <1>5, <1>7
<1>9. Advance(s, c) = u
  BY <1>8 DEF Advance
<1>10. u = [Act(s, "bracket", c) EXCEPT !.at = e.to]
  BY <1>5, <1>6
<1>11. u.tokens # <<>> /\ u.tokens[1] = Token("bracket", <<c>>)
  BY <1>1, <1>10, BracketIs
<1> QED
  BY <1>0, <1>a, <1>9, <1>11

Lex(start, text) == FoldLeft(Advance, start, text)

\* The automaton takes the characters one after the other.
LEMMA LexerRuns ==
  ASSUME NEW C, NEW start \in Lexed(C), NEW text \in Seq(C)
  PROVE  \E h \in [0..Len(text) -> Lexed(C)] :
           /\ h[0] = start
           /\ \A i \in 1..Len(text) : h[i] = Advance(h[i - 1], text[i])
           /\ Lex(start, text) = h[Len(text)]
<1>1. PICK n, S : n = Len(text) /\ S = Lexed(C)
  OBVIOUS
<1>2. n \in Nat /\ DOMAIN text = 1..n
  BY <1>1, LenProperties
<1>3. PICK base : base = start
  OBVIOUS
<1>4. base \in S
  BY <1>1, <1>3
<1>5. PICK step : step = [p \in (1..n) \X S |-> Advance(p[2], text[p[1]])]
  OBVIOUS
<1>6. ASSUME NEW k \in 1..n, NEW s \in S
      PROVE  step[<<k, s>>] = Advance(s, text[k]) /\ Advance(s, text[k]) \in S
  <2>1. <<k, s>> \in (1..n) \X S /\ <<k, s>>[1] = k /\ <<k, s>>[2] = s
    OBVIOUS
  <2>2. Advance(s, text[k]) \in S
    BY <1>1, <1>2, ElementOfSeq, AdvanceIs
  <2> QED
    BY <1>5, <2>1, <2>2
<1>7. step \in [(1..n) \X S -> S]
  <2> SUFFICES ASSUME NEW p \in (1..n) \X S PROVE Advance(p[2], text[p[1]]) \in S
    BY <1>5
  <2>1. p[1] \in 1..n /\ p[2] \in S
    OBVIOUS
  <2> QED
    BY <1>6, <2>1
<1>8. PICK g \in [SUBSET (1..n) -> S] : Folds(g, base, step, n)
  BY <1>2, <1>4, <1>7, FoldExists
<1> DEFINE Eq(f, s) == IF s = {} THEN base ELSE Advance(f[s \ {Max(s)}], text[Max(s)])
           H(f) == f = [s \in SUBSET (1..n) |-> Eq(f, s)]
<1>9. H(g)
  <2>1. ASSUME NEW s \in SUBSET (1..n) PROVE g[s] = Eq(g, s)
    <3>1. CASE s = {}
      BY <1>8, <3>1 DEF Folds
    <3>2. CASE s # {}
      <4>1. s \subseteq 1..n
        OBVIOUS
      <4>2. Max(s) \in s
        BY <1>2, <3>2, <4>1, MaxIs
      <4>3. Max(s) \in 1..n /\ s \ {Max(s)} \in SUBSET (1..n)
        BY <4>1, <4>2
      <4>4. g[s] = step[<<Max(s), g[s \ {Max(s)}]>>]
        BY <1>8, <3>2 DEF Folds
      <4>5. g[s \ {Max(s)}] \in S
        BY <4>3
      <4> QED
        BY <1>6, <3>2, <4>3, <4>4, <4>5
    <3> QED
      BY <3>1, <3>2
  <2>2. g = [s \in SUBSET (1..n) |-> g[s]]
    OBVIOUS
  <2> HIDE DEF Eq
  <2> QED
    BY <2>1, <2>2
<1>10. PICK it : it = CHOOSE f : H(f)
  OBVIOUS
<1>11. Lex(start, text) = it[1..n]
  BY <1>2, <1>3, <1>10 DEF Lex, FoldLeft, MapThenFoldSet
<1>12. H(it)
  <2> HIDE DEF H
  <2> QED
    BY <1>9, <1>10
<1>13. PICK h : h = [k \in 0..n |-> it[1..k]]
  OBVIOUS
<1>14. h[0] = base
  <2>1. 1..0 = {} /\ {} \in SUBSET (1..n) /\ 0 \in 0..n
    BY <1>2
  <2> QED
    BY <1>12, <1>13, <2>1
<1>15. ASSUME NEW k \in 1..n PROVE h[k] = Advance(h[k - 1], text[k])
  <2>1. Max(1..k) = k /\ (1..k) \ {k} = 1..k - 1 /\ 1..k \in SUBSET (1..n) /\ 1..k # {}
    BY <1>2, LastOf
  <2>2. it[1..k] = Eq(it, 1..k)
    BY <1>12, <2>1
  <2>3. it[1..k] = Advance(it[1..k - 1], text[k])
    BY <2>1, <2>2
  <2>4. k \in 0..n /\ k - 1 \in 0..n
    BY <1>2
  <2> QED
    BY <1>13, <2>3, <2>4
<1>16. PICK P : P = {k \in 0..n : h[k] \in S}
  OBVIOUS
<1>17. \A k \in 0..n : k \in P
  <2>1. 0 \in P
    BY <1>2, <1>4, <1>14, <1>16
  <2>2. ASSUME NEW k \in 1..n, k - 1 \in P PROVE k \in P
    <3>1. h[k - 1] \in S /\ k \in 0..n
      BY <1>16, <2>2
    <3>2. Advance(h[k - 1], text[k]) \in S
      BY <1>6, <3>1
    <3> QED
      BY <1>15, <1>16, <3>1, <3>2
  <2> QED
    BY <1>2, <2>1, <2>2, StepByStep
<1>18. h \in [0..n -> S]
  BY <1>13, <1>16, <1>17
<1>19. Lex(start, text) = h[n]
  BY <1>2, <1>11, <1>13
<1> QED
  BY <1>1, <1>3, <1>14, <1>15, <1>18, <1>19

LEMMA StartIs ==
  ASSUME NEW C
  PROVE  Start \in Lexed(C)
BY EmptySeq DEF Start, Lexed, Stations, Keyed, InOrder

\* The first token stays.
LEMMA FirstStays ==
  ASSUME NEW C, NEW text \in Seq(C), text # <<>>, NEW token,
         Advance(Start, Head(text)).tokens # <<>>,
         Advance(Start, Head(text)).tokens[1] = token
  PROVE  LET last == Lex(Start, text) IN last.tokens[1] = token
<1>1. PICK n : n = Len(text)
  OBVIOUS
<1>2. n \in Nat /\ n > 0 /\ Head(text) = text[1]
  BY <1>1, EmptySeq, LenProperties
<1>3. PICK h \in [0..n -> Lexed(C)] :
        /\ h[0] = Start
        /\ \A i \in 1..n : h[i] = Advance(h[i - 1], text[i])
        /\ Lex(Start, text) = h[n]
  <2>1. PICK start : start = Start
    OBVIOUS
  <2>2. start \in Lexed(C)
    BY <2>1, StartIs
  <2>3. \E h \in [0..n -> Lexed(C)] :
          /\ h[0] = start
          /\ \A i \in 1..n : h[i] = Advance(h[i - 1], text[i])
          /\ Lex(start, text) = h[n]
    BY <1>1, <2>2, LexerRuns
  <2> QED
    BY <2>1, <2>3
<1>4. h[1].tokens # <<>> /\ h[1].tokens[1] = token
  BY <1>2, <1>3
<1>5. PICK P : P = {k \in 0..n - 1 : h[k + 1].tokens # <<>> /\ h[k + 1].tokens[1] = token}
  OBVIOUS
<1>6. \A k \in 0..n - 1 : k \in P
  <2>1. 0 \in P
    <3>1. 0 \in 0..n - 1 /\ 0 + 1 = 1
      BY <1>2
    <3> QED
      BY <1>4, <1>5, <3>1
  <2>2. ASSUME NEW k \in 1..n - 1, k - 1 \in P PROVE k \in P
    <3>1. PICK s, c : s = h[k] /\ c = text[k + 1]
      OBVIOUS
    <3>2. k \in 0..n - 1 /\ k + 1 \in 1..n /\ k \in 0..n /\ (k - 1) + 1 = k /\ (k + 1) - 1 = k
      BY <1>2
    <3>3. s.tokens # <<>> /\ s.tokens[1] = token
      BY <1>5, <2>2, <3>1, <3>2
    <3>4. s \in Lexed(C) /\ c \in C
      BY <1>1, <1>3, <3>1, <3>2, ElementOfSeq
    <3>5. Keeps(s, Advance(s, c))
      BY <3>4, AdvanceIs
    <3>6. h[k + 1] = Advance(s, c)
      BY <1>3, <3>1, <3>2
    <3> QED
      BY <1>5, <3>2, <3>3, <3>5, <3>6 DEF Keeps
  <2>3. n - 1 \in Nat
    BY <1>2
  <2> QED
    BY <2>1, <2>2, <2>3, StepByStep
<1>7. n - 1 \in 0..n - 1 /\ (n - 1) + 1 = n
  BY <1>2
<1> QED
  BY <1>3, <1>5, <1>6, <1>7

LEMMA TokensAre ==
  ASSUME NEW C, NEW text \in Seq(C)
  PROVE  LET tokens == Tokens(text).tokens
         IN  /\ tokens \in Seq(TokensOf(C)) /\ InOrder(tokens)
             /\ text = <<>> => tokens = <<>>
<1>1. PICK n : n = Len(text)
  OBVIOUS
<1>2. n \in Nat
  BY <1>1, LenProperties
<1>3. PICK h \in [0..n -> Lexed(C)] :
        /\ h[0] = Start
        /\ \A i \in 1..n : h[i] = Advance(h[i - 1], text[i])
        /\ Lex(Start, text) = h[n]
  <2>1. PICK start : start = Start
    OBVIOUS
  <2>2. start \in Lexed(C)
    BY <2>1, StartIs
  <2>3. \E h \in [0..n -> Lexed(C)] :
          /\ h[0] = start
          /\ \A i \in 1..n : h[i] = Advance(h[i - 1], text[i])
          /\ Lex(start, text) = h[n]
    BY <1>1, <2>2, LexerRuns
  <2> QED
    BY <2>1, <2>3
<1>4. PICK last : last = h[n]
  OBVIOUS
<1>5. PICK tokens : tokens = Tokens(text).tokens
  OBVIOUS
<1>6. tokens = IF last.at = "ValueEnd" THEN last.tokens ELSE <<>>
  BY <1>3, <1>4, <1>5 DEF Tokens, Accepted, Lex
<1>7. last \in Lexed(C)
  BY <1>2, <1>3, <1>4
<1>8. tokens \in Seq(TokensOf(C)) /\ InOrder(tokens)
  <2>1. last.tokens \in Seq(TokensOf(C)) /\ InOrder(last.tokens)
    BY <1>7 DEF Lexed
  <2>2. InOrder(<<>>) /\ <<>> \in Seq(TokensOf(C))
    BY EmptySeq DEF InOrder
  <2> QED
    BY <1>6, <2>1, <2>2
<1>9. text = <<>> => tokens = <<>>
  <2> SUFFICES ASSUME text = <<>> PROVE tokens = <<>>
    OBVIOUS
  <2>1. n = 0
    BY <1>1, EmptySeq
  <2>2. last = Start
    BY <1>3, <1>4, <2>1
  <2> QED
    BY <1>6, <2>2 DEF Start
<1> QED
  BY <1>5, <1>8, <1>9

\* A text that begins with a brace begins with that token, if it is accepted.
LEMMA BracedTokens ==
  ASSUME NEW C, NEW text \in Seq(C), text # <<>>, Tokens(text).tokens # <<>>
  PROVE  Head(text) = "{" => Head(Tokens(text).tokens) = Token("bracket", <<"{">>)
<1>1. PICK brace, token : brace = "{" /\ token = Token("bracket", <<"{">>)
  BY Zenon
<1>2. PICK u : u = Advance(Start, brace)
  OBVIOUS
<1>3. u.tokens # <<>> /\ u.tokens[1] = token
  BY <1>1, <1>2, OpeningIs, Zenon
<1>4. PICK last, tokens : last = Lex(Start, text) /\ tokens = Tokens(text).tokens
  OBVIOUS
<1>5. Head(text) = brace => last.tokens[1] = token
  BY <1>2, <1>3, <1>4, FirstStays
<1>6. tokens = last.tokens
  BY <1>4 DEF Tokens, Lex
<1>7. Head(tokens) = tokens[1]
  <2>1. tokens \in Seq(TokensOf(C)) /\ tokens # <<>>
    BY <1>4, TokensAre
  <2> QED
    BY <2>1
<1>8. Head(text) = brace => Head(tokens) = token
  BY <1>5, <1>6, <1>7
<1> QED
  BY <1>1, <1>4, <1>8, Zenon

-----------------------------------------------------------------------------
(* The parser: its tree stays a tree, its stack holds domains of it.       *)

ValuesOf(C) == {Domain} \cup {Convert(word) : word \in Seq(C)}
TreesOf(C) == Trees(Seq(Seq(C)), ValuesOf(C))
Ends == {"going", "done", "thrown", "undefined", "endless"}

Parsing(C) ==
  {s \in [tree : TreesOf(C), stack : Seq(Seq(Seq(C))), brackets : Int,
          key : {<<>>} \cup {<<word>> : word \in Seq(C)}, end : Ends] :
     /\ Rooted(s.tree)
     /\ \A i \in 1..Len(s.stack) : s.stack[i] \in DOMAIN s.tree
     /\ s.key # <<>> => s.stack # <<>>}

\* The braces are counted as the stack grows and shrinks, and it is not empty.
Counted(s) ==
  /\ s.end # "undefined"
  /\ Going(s) => s.brackets = Len(s.stack) /\ s.brackets >= 1

\* What a token does to the rest of the state.
Takes(s, token, u) ==
  /\ ~Going(s) => u = s
  /\ Going(u) => Going(s) /\ (u.key # <<>> <=> token.type = "key" /\ s.key = <<>>)
  /\ Going(s) /\ u.end = "endless" => token.type = "value" /\ s.key = <<>>
  /\ Counted(s) => Counted(u)

LEMMA ChildIsAdded ==
  ASSUME NEW C, NEW t \in TreesOf(C), Rooted(t), NEW parent \in DOMAIN t, t[parent] = Domain,
         NEW name \in Seq(C), NEW node \in ValuesOf(C)
  PROVE  LET path == Append(parent, name)
             u == AddChild(t, path, node)
         IN  /\ u \in TreesOf(C) /\ Rooted(u)
             /\ path \in DOMAIN u /\ DOMAIN t \subseteq DOMAIN u
<1>1. PICK path : path = Append(parent, name)
  OBVIOUS
<1>2. PICK u : u = AddChild(t, path, node)
  OBVIOUS
<1>a. PICK P, V : P = Seq(Seq(C)) /\ V = ValuesOf(C)
  OBVIOUS
<1>b. t \in Trees(P, V) /\ TreesOf(C) = Trees(P, V) /\ node \in V
  BY <1>a DEF TreesOf
<1>c. PICK S \in SUBSET P : t \in [S -> V]
  BY <1>b DEF Trees
<1>d. parent \in Seq(Seq(C))
  BY <1>a, <1>c
<1>3. path \in Seq(Seq(C)) /\ path # <<>> /\ Parent(path) = parent
  BY <1>1, <1>d, FrontOfAppend DEF Parent
<1>4. CASE path \in DOMAIN t
  <2>1. u = t
    BY <1>2, <1>4 DEF AddChild
  <2> QED
    BY <1>1, <1>2, <1>4, <2>1
<1>5. CASE path \notin DOMAIN t
  <2>1. u = Put(t, path, node)
    BY <1>2, <1>5 DEF AddChild
  <2>2. u \in Trees(P, V)
    BY <1>a, <1>b, <1>3, <2>1, PutInTrees
  <2>3. IsDomain(t, Parent(path)) /\ ~IsDomain(t, path) /\ \E N : path \in Seq(N)
    BY <1>3, <1>5 DEF IsDomain
  <2>4. Rooted(u)
    BY <1>3, <2>1, <2>3, PutChild
  <2>5. DOMAIN u = DOMAIN t \cup {path}
    BY <2>1 DEF Put
  <2> QED
    BY <1>1, <1>2, <1>b, <2>2, <2>4, <2>5
<1> QED
  BY <1>4, <1>5

LEMMA MemberIs ==
  ASSUME NEW C, NEW s \in Parsing(C), NEW token \in TokensOf(C), Going(s), s.key # <<>>
  PROVE  Member(s, token) \in Parsing(C) /\ Takes(s, token, Member(s, token))
<1>1. PICK Q, top : Q = Seq(Seq(C)) /\ top = Top(s)
  OBVIOUS
<1>2. PICK stack, t : stack = s.stack /\ t = s.tree
  OBVIOUS
<1>3. stack \in Seq(Q) /\ stack # <<>> /\ t \in TreesOf(C) /\ Rooted(t)
  BY <1>1, <1>2 DEF Parsing
<1>4. /\ \A i \in 1..Len(stack) : stack[i] \in DOMAIN t
      /\ Len(stack) \in Nat \ {0} /\ top = stack[Len(stack)]
  BY <1>1, <1>2, <1>3, EmptySeq DEF Parsing, Top, Last
<1>5. top \in DOMAIN t
  BY <1>4
<1>6. PICK name \in Seq(C) : s.key = <<name>>
  BY DEF Parsing
<1>7. s.key[1] = name
  BY <1>6
<1>8. PICK path : path = Append(top, name)
  OBVIOUS
<1>9. token.type \in {"bracket", "key", "value"} /\ token.text \in Seq(C)
  BY DEF TokensOf
<1>10. /\ s = [tree |-> t, stack |-> stack, brackets |-> s.brackets, key |-> s.key, end |-> s.end]
       /\ s.brackets \in Int /\ s.end = "going"
  BY <1>2 DEF Parsing, Going
<1>11. Member(s, token) =
         IF t[top] # Domain THEN [s EXCEPT !.end = "thrown"]
         ELSE IF token.type = "bracket"
              THEN [[s EXCEPT !.key = <<>>] EXCEPT !.brackets = @ + 1, !.stack = Append(@, path),
                            !.tree = AddChild(@, path, Domain)]
         ELSE IF token.type = "value"
              THEN [[s EXCEPT !.key = <<>>] EXCEPT !.tree = AddChild(@, path, Convert(token.text))]
         ELSE [s EXCEPT !.key = <<>>]
  BY <1>1, <1>2, <1>7, <1>8, Zenon DEF Member
<1>12. CASE t[top] # Domain
  <2>1. PICK u : u = [tree |-> t, stack |-> stack, brackets |-> s.brackets, key |-> s.key,
                      end |-> "thrown"]
    OBVIOUS
  <2>2. Member(s, token) = u
    BY <1>10, <1>11, <1>12, <2>1
  <2>3. u \in Parsing(C)
    BY <1>2, <2>1 DEF Parsing, Ends
  <2>4. Takes(s, token, u)
    BY <2>1 DEF Takes, Going, Counted
  <2> QED
    BY <2>2, <2>3, <2>4
<1>13. CASE t[top] = Domain /\ token.type = "bracket"
  <2>1. PICK grown, pushed : grown = AddChild(t, path, Domain) /\ pushed = Append(stack, path)
    OBVIOUS
  <2>2. PICK u : u = [tree |-> grown, stack |-> pushed, brackets |-> s.brackets + 1, key |-> <<>>,
                      end |-> "going"]
    OBVIOUS
  <2>3. Member(s, token) = u
    <3>1. Member(s, token) =
            [[s EXCEPT !.key = <<>>] EXCEPT !.brackets = @ + 1, !.stack = Append(@, path),
                        !.tree = AddChild(@, path, Domain)]
      BY <1>11, <1>13
    <3>a. PICK after : after = [s EXCEPT !.key = <<>>]
      OBVIOUS
    <3>b. after = [tree |-> t, stack |-> stack, brackets |-> s.brackets, key |-> <<>>, end |-> "going"]
      BY <1>10, <3>a
    <3>c. Member(s, token) =
            [after EXCEPT !.brackets = @ + 1, !.stack = Append(@, path),
                          !.tree = AddChild(@, path, Domain)]
      BY <3>1, <3>a
    <3>2. Member(s, token) =
            [tree |-> AddChild(t, path, Domain), stack |-> Append(stack, path),
             brackets |-> s.brackets + 1, key |-> <<>>, end |-> s.end]
      BY <1>10, <3>b, <3>c
    <3> QED
      BY <1>10, <2>1, <2>2, <3>2
  <2>4. Domain \in ValuesOf(C)
    BY DEF ValuesOf
  <2>5. grown \in TreesOf(C) /\ Rooted(grown) /\ path \in DOMAIN grown /\ DOMAIN t \subseteq DOMAIN grown
    BY <1>3, <1>5, <1>8, <1>13, <2>1, <2>4, ChildIsAdded
  <2>6. path \in Q
    <3>1. DOMAIN grown \subseteq Q
      BY <1>1, <2>5 DEF TreesOf, Trees
    <3> QED
      BY <2>5, <3>1
  <2>7. pushed \in Seq(Q) /\ Len(pushed) = Len(stack) + 1 /\ pushed # <<>>
        /\ \A i \in 1..Len(pushed) : pushed[i] \in DOMAIN grown
    <3>1. /\ pushed \in Seq(Q) /\ Len(pushed) = Len(stack) + 1
          /\ \A i \in 1..Len(stack) : pushed[i] = stack[i]
          /\ pushed[Len(stack) + 1] = path
      BY <1>3, <2>1, <2>6, AppendProperties
    <3>2. \A i \in 1..Len(pushed) : i \in 1..Len(stack) \/ i = Len(stack) + 1
      BY <1>4, <3>1
    <3>3. \A i \in 1..Len(pushed) : pushed[i] \in DOMAIN grown
      BY <1>4, <2>5, <3>1, <3>2
    <3>4. pushed # <<>>
      BY <1>4, <3>1, EmptySeq
    <3> QED
      BY <3>1, <3>3, <3>4
  <2>8. u \in Parsing(C)
    BY <1>1, <1>10, <2>2, <2>5, <2>7 DEF Parsing, Ends
  <2>9. Takes(s, token, u)
    BY <1>2, <1>4, <1>10, <1>13, <2>2, <2>7 DEF Takes, Going, Counted
  <2> QED
    BY <2>3, <2>8, <2>9
<1>14. CASE t[top] = Domain /\ token.type # "bracket"
  <2>1. PICK grown : grown = IF token.type = "value" THEN AddChild(t, path, Convert(token.text)) ELSE t
    OBVIOUS
  <2>2. PICK u : u = [tree |-> grown, stack |-> stack, brackets |-> s.brackets, key |-> <<>>,
                      end |-> "going"]
    OBVIOUS
  <2>3. Member(s, token) = u
    <3>1. CASE token.type = "value"
      <4>1. Member(s, token) =
              [[s EXCEPT !.key = <<>>] EXCEPT !.tree = AddChild(@, path, Convert(token.text))]
        BY <1>11, <1>14, <3>1
      <4>a. PICK after : after = [s EXCEPT !.key = <<>>]
        OBVIOUS
      <4>b. after = [tree |-> t, stack |-> stack, brackets |-> s.brackets, key |-> <<>>,
                     end |-> "going"]
        BY <1>10, <4>a
      <4>c. Member(s, token) = [after EXCEPT !.tree = AddChild(@, path, Convert(token.text))]
        BY <4>1, <4>a
      <4>2. Member(s, token) =
              [tree |-> AddChild(t, path, Convert(token.text)), stack |-> stack,
               brackets |-> s.brackets, key |-> <<>>, end |-> s.end]
        BY <1>10, <4>b, <4>c
      <4> QED
        BY <1>10, <2>1, <2>2, <3>1, <4>2
    <3>2. CASE token.type # "value"
      <4>1. Member(s, token) = [s EXCEPT !.key = <<>>]
        BY <1>11, <1>14, <3>2
      <4> QED
        BY <1>10, <2>1, <2>2, <3>2, <4>1
    <3> QED
      BY <3>1, <3>2
  <2>4. Convert(token.text) \in ValuesOf(C)
    BY <1>9 DEF ValuesOf
  <2>5. grown \in TreesOf(C) /\ Rooted(grown) /\ DOMAIN t \subseteq DOMAIN grown
    <3>1. CASE token.type = "value"
      BY <1>3, <1>5, <1>8, <1>14, <2>1, <2>4, <3>1, ChildIsAdded
    <3>2. CASE token.type # "value"
      BY <1>3, <2>1, <3>2
    <3> QED
      BY <3>1, <3>2
  <2>6. \A i \in 1..Len(stack) : stack[i] \in DOMAIN grown
    BY <1>4, <2>5
  <2>7. u \in Parsing(C)
    BY <1>1, <1>3, <1>10, <2>2, <2>5, <2>6 DEF Parsing, Ends
  <2>8. Takes(s, token, u)
    BY <1>2, <1>10, <2>2 DEF Takes, Going, Counted
  <2> QED
    BY <2>3, <2>7, <2>8
<1> QED
  BY <1>9, <1>12, <1>13, <1>14

LEMMA BraceIs ==
  ASSUME NEW C, NEW s \in Parsing(C), NEW token \in TokensOf(C), token.type = "bracket",
         Going(s), s.key = <<>>, s.stack # <<>>
  PROVE  Brace(s, token) \in Parsing(C) /\ Takes(s, token, Brace(s, token))
<1>1. PICK Q, stack, t : Q = Seq(Seq(C)) /\ stack = s.stack /\ t = s.tree
  OBVIOUS
<1>2. /\ s = [tree |-> t, stack |-> stack, brackets |-> s.brackets, key |-> <<>>, end |-> "going"]
      /\ s.brackets \in Int /\ stack \in Seq(Q) /\ stack # <<>> /\ t \in TreesOf(C) /\ Rooted(t)
      /\ \A i \in 1..Len(stack) : stack[i] \in DOMAIN t
  BY <1>1 DEF Parsing, Going
<1>3. \/ Brace(s, token) = [s EXCEPT !.end = "thrown"]
      \/ Brace(s, token) = [s EXCEPT !.brackets = @ - 1, !.stack = Front(@),
                                     !.end = IF s.brackets = 1 THEN "done" ELSE "going"]
  BY Zenon DEF Brace
<1>4. CASE Brace(s, token) = [s EXCEPT !.end = "thrown"]
  <2>1. PICK u : u = [tree |-> t, stack |-> stack, brackets |-> s.brackets, key |-> <<>>,
                      end |-> "thrown"]
    OBVIOUS
  <2>2. Brace(s, token) = u
    BY <1>2, <1>4, <2>1
  <2>3. u \in Parsing(C)
    BY <1>1, <1>2, <2>1 DEF Parsing, Ends
  <2>4. Takes(s, token, u)
    BY <2>1 DEF Takes, Going, Counted
  <2> QED
    BY <2>2, <2>3, <2>4
<1>5. CASE Brace(s, token) = [s EXCEPT !.brackets = @ - 1, !.stack = Front(@),
                                       !.end = IF s.brackets = 1 THEN "done" ELSE "going"]
  <2>1. PICK popped : popped = Front(stack)
    OBVIOUS
  <2>2. PICK end : end = IF s.brackets = 1 THEN "done" ELSE "going"
    OBVIOUS
  <2>3. PICK u : u = [tree |-> t, stack |-> popped, brackets |-> s.brackets - 1, key |-> <<>>,
                      end |-> end]
    OBVIOUS
  <2>4. Brace(s, token) = u
    <3>1. PICK b : b = s.brackets
      OBVIOUS
    <3>2. s = [tree |-> t, stack |-> stack, brackets |-> b, key |-> <<>>, end |-> "going"]
      BY <1>2, <3>1
    <3>3. Brace(s, token) = [s EXCEPT !.brackets = @ - 1, !.stack = Front(@), !.end = end]
      BY <1>5, <2>2, Zenon
    <3>4. Brace(s, token) = [tree |-> t, stack |-> Front(stack), brackets |-> b - 1, key |-> <<>>,
                             end |-> end]
      BY <3>2, <3>3
    <3> QED
      BY <2>1, <2>3, <3>1, <3>4
  <2>5. /\ Len(stack) \in Nat \ {0} /\ popped \in Seq(Q) /\ Len(popped) = Len(stack) - 1
        /\ \A i \in 1..Len(stack) - 1 : popped[i] = stack[i]
    BY <1>2, <2>1, FrontIs
  <2>6. \A i \in 1..Len(popped) : popped[i] \in DOMAIN t
    BY <1>2, <2>5
  <2>7. u \in Parsing(C)
    BY <1>1, <1>2, <2>2, <2>3, <2>5, <2>6 DEF Parsing, Ends
  <2>8. Takes(s, token, u)
    <3>1. s.stack = stack /\ s.end = "going" /\ s.key = <<>>
      BY <1>1, <1>2
    <3>2. u.stack = popped /\ u.end = end /\ u.key = <<>> /\ u.brackets = s.brackets - 1
      BY <2>3
    <3>3. Counted(s) => Counted(u)
      BY <1>2, <2>2, <2>5, <3>1, <3>2 DEF Going, Counted
    <3>4. u.end # "endless"
      BY <2>2, <3>2
    <3> QED
      BY <3>1, <3>2, <3>3, <3>4 DEF Takes, Going
  <2> QED
    BY <2>4, <2>7, <2>8
<1> QED
  BY <1>3, <1>4, <1>5

LEMMA TakeIs ==
  ASSUME NEW C, NEW s \in Parsing(C), NEW token \in TokensOf(C)
  PROVE  Take(s, token) \in Parsing(C) /\ Takes(s, token, Take(s, token))
<1>1. token.type \in {"bracket", "key", "value"} /\ token.text \in Seq(C)
  BY DEF TokensOf
<1>2. CASE ~Going(s)
  <2>1. Take(s, token) = s
    BY <1>2, Zenon DEF Take
  <2> QED
    BY <1>2, <2>1 DEF Takes
<1>3. CASE Going(s) /\ s.key # <<>>
  <2>1. Take(s, token) = Member(s, token)
    BY <1>3, Zenon DEF Take
  <2> QED
    BY <1>3, <2>1, MemberIs
<1>4. CASE Going(s) /\ s.key = <<>> /\ s.stack = <<>>
  <2>1. Take(s, token) = [s EXCEPT !.end = "undefined"]
    BY <1>4, Zenon DEF Take
  <2>2. PICK u : u = [s EXCEPT !.end = "undefined"]
    OBVIOUS
  <2>3. u \in Parsing(C)
    BY <2>2 DEF Parsing, Ends
  <2>4. s.end = "going" /\ u.end = "undefined"
    BY <1>4, <2>2 DEF Parsing, Going
  <2>5. ~Counted(s)
    <3>1. Len(s.stack) = 0
      BY <1>4, EmptySeq
    <3> QED
      BY <1>4, <3>1 DEF Counted
  <2> QED
    BY <1>4, <2>1, <2>2, <2>3, <2>4, <2>5 DEF Takes, Going
<1>5. CASE Going(s) /\ s.key = <<>> /\ s.stack # <<>> /\ token.type = "bracket"
  <2>1. Take(s, token) = Brace(s, token)
    BY <1>5, Zenon DEF Take
  <2> QED
    BY <1>5, <2>1, BraceIs
<1>6. CASE Going(s) /\ s.key = <<>> /\ s.stack # <<>> /\ token.type # "bracket"
  <2>1. Take(s, token) = IF token.type = "key" THEN [s EXCEPT !.key = <<token.text>>]
                                               ELSE [s EXCEPT !.end = "endless"]
    <3>1. CASE token.type = "key"
      <4>1. token.type # "bracket" /\ token.type # "value"
        BY <3>1
      <4> QED
        BY <1>6, <3>1, <4>1, Zenon DEF Take
    <3>2. CASE token.type = "value"
      <4>1. token.type # "bracket" /\ token.type # "key"
        BY <3>2
      <4> QED
        BY <1>6, <3>2, <4>1, Zenon DEF Take
    <3> QED
      BY <1>1, <1>6, <3>1, <3>2
  <2>2. PICK u : u = Take(s, token)
    OBVIOUS
  <2>3. CASE token.type = "key"
    <3>1. u = [s EXCEPT !.key = <<token.text>>]
      BY <2>1, <2>2, <2>3
    <3>2. u \in Parsing(C)
      BY <1>1, <1>6, <3>1 DEF Parsing
    <3>3. u.key # <<>> /\ u.end = s.end /\ u.stack = s.stack /\ u.brackets = s.brackets
      BY <3>1 DEF Parsing
    <3>4. s.end = "going"
      BY <1>6 DEF Going
    <3> QED
      BY <1>6, <2>2, <2>3, <3>2, <3>3, <3>4 DEF Takes, Going, Counted
  <2>4. CASE token.type = "value"
    <3>1. u = [s EXCEPT !.end = "endless"]
      BY <2>1, <2>2, <2>4
    <3>2. u \in Parsing(C) /\ u.end = "endless"
      BY <1>1, <1>6, <3>1 DEF Parsing, Ends
    <3> QED
      BY <1>6, <2>2, <2>4, <3>2 DEF Takes, Going, Counted
  <2> QED
    BY <1>1, <1>6, <2>3, <2>4
<1> QED
  BY <1>2, <1>3, <1>4, <1>5, <1>6

Run(start, ts) == FoldLeft(Take, start, ts)

\* The parser takes the tokens one after the other.
LEMMA ParserRuns ==
  ASSUME NEW C, NEW start \in Parsing(C), NEW ts \in Seq(TokensOf(C))
  PROVE  \E h \in [0..Len(ts) -> Parsing(C)] :
           /\ h[0] = start
           /\ \A i \in 1..Len(ts) : h[i] = Take(h[i - 1], ts[i])
           /\ Run(start, ts) = h[Len(ts)]
<1>1. PICK n, S : n = Len(ts) /\ S = Parsing(C)
  OBVIOUS
<1>2. n \in Nat /\ DOMAIN ts = 1..n
  BY <1>1, LenProperties
<1>3. PICK base : base = start
  OBVIOUS
<1>4. base \in S
  BY <1>1, <1>3
<1>5. PICK step : step = [p \in (1..n) \X S |-> Take(p[2], ts[p[1]])]
  OBVIOUS
<1>6. ASSUME NEW k \in 1..n, NEW s \in S
      PROVE  step[<<k, s>>] = Take(s, ts[k]) /\ Take(s, ts[k]) \in S
  <2>1. <<k, s>> \in (1..n) \X S /\ <<k, s>>[1] = k /\ <<k, s>>[2] = s
    OBVIOUS
  <2>2. Take(s, ts[k]) \in S
    BY <1>1, <1>2, ElementOfSeq, TakeIs
  <2> QED
    BY <1>5, <2>1, <2>2
<1>7. step \in [(1..n) \X S -> S]
  <2> SUFFICES ASSUME NEW p \in (1..n) \X S PROVE Take(p[2], ts[p[1]]) \in S
    BY <1>5
  <2>1. p[1] \in 1..n /\ p[2] \in S
    OBVIOUS
  <2> QED
    BY <1>6, <2>1
<1>8. PICK g \in [SUBSET (1..n) -> S] : Folds(g, base, step, n)
  BY <1>2, <1>4, <1>7, FoldExists
<1> DEFINE Eq(f, s) == IF s = {} THEN base ELSE Take(f[s \ {Max(s)}], ts[Max(s)])
           H(f) == f = [s \in SUBSET (1..n) |-> Eq(f, s)]
<1>9. H(g)
  <2>1. ASSUME NEW s \in SUBSET (1..n) PROVE g[s] = Eq(g, s)
    <3>1. CASE s = {}
      BY <1>8, <3>1 DEF Folds
    <3>2. CASE s # {}
      <4>1. s \subseteq 1..n
        OBVIOUS
      <4>2. Max(s) \in s
        BY <1>2, <3>2, <4>1, MaxIs
      <4>3. Max(s) \in 1..n /\ s \ {Max(s)} \in SUBSET (1..n)
        BY <4>1, <4>2
      <4>4. g[s] = step[<<Max(s), g[s \ {Max(s)}]>>]
        BY <1>8, <3>2 DEF Folds
      <4>5. g[s \ {Max(s)}] \in S
        BY <4>3
      <4> QED
        BY <1>6, <3>2, <4>3, <4>4, <4>5
    <3> QED
      BY <3>1, <3>2
  <2>2. g = [s \in SUBSET (1..n) |-> g[s]]
    OBVIOUS
  <2> HIDE DEF Eq
  <2> QED
    BY <2>1, <2>2
<1>10. PICK it : it = CHOOSE f : H(f)
  OBVIOUS
<1>11. Run(start, ts) = it[1..n]
  BY <1>2, <1>3, <1>10 DEF Run, FoldLeft, MapThenFoldSet
<1>12. H(it)
  <2> HIDE DEF H
  <2> QED
    BY <1>9, <1>10
<1>13. PICK h : h = [k \in 0..n |-> it[1..k]]
  OBVIOUS
<1>14. h[0] = base
  <2>1. 1..0 = {} /\ {} \in SUBSET (1..n) /\ 0 \in 0..n
    BY <1>2
  <2> QED
    BY <1>12, <1>13, <2>1
<1>15. ASSUME NEW k \in 1..n PROVE h[k] = Take(h[k - 1], ts[k])
  <2>1. Max(1..k) = k /\ (1..k) \ {k} = 1..k - 1 /\ 1..k \in SUBSET (1..n) /\ 1..k # {}
    BY <1>2, LastOf
  <2>2. it[1..k] = Eq(it, 1..k)
    BY <1>12, <2>1
  <2>3. it[1..k] = Take(it[1..k - 1], ts[k])
    BY <2>1, <2>2
  <2>4. k \in 0..n /\ k - 1 \in 0..n
    BY <1>2
  <2> QED
    BY <1>13, <2>3, <2>4
<1>16. PICK P : P = {k \in 0..n : h[k] \in S}
  OBVIOUS
<1>17. \A k \in 0..n : k \in P
  <2>1. 0 \in P
    BY <1>2, <1>4, <1>14, <1>16
  <2>2. ASSUME NEW k \in 1..n, k - 1 \in P PROVE k \in P
    <3>1. h[k - 1] \in S /\ k \in 0..n
      BY <1>16, <2>2
    <3>2. Take(h[k - 1], ts[k]) \in S
      BY <1>6, <3>1
    <3> QED
      BY <1>15, <1>16, <3>1, <3>2
  <2> QED
    BY <1>2, <2>1, <2>2, StepByStep
<1>18. h \in [0..n -> S]
  BY <1>13, <1>16, <1>17
<1>19. Run(start, ts) = h[n]
  BY <1>2, <1>11, <1>13
<1> QED
  BY <1>1, <1>3, <1>14, <1>15, <1>18, <1>19

\* The first state of the parser.
Opened(brackets) ==
  [tree |-> EmptyTree, stack |-> <<<<>>>>, brackets |-> brackets, key |-> <<>>, end |-> "going"]

LEMMA OpenedIs ==
  ASSUME NEW C, NEW b \in {0, 1}
  PROVE  Opened(b) \in Parsing(C) /\ (b = 1 => Counted(Opened(b)))
<1>1. EmptyTree \in TreesOf(C)
  <2>1. {<<>>} \in SUBSET Seq(Seq(C))
    BY EmptySeq
  <2>2. Domain \in ValuesOf(C)
    BY DEF ValuesOf
  <2>3. EmptyTree \in [{<<>>} -> ValuesOf(C)]
    BY <2>2 DEF EmptyTree
  <2> QED
    BY <2>1, <2>3 DEF TreesOf, Trees
<1>2. PICK root, bottom : root = <<>> /\ bottom = <<root>>
  OBVIOUS
<1>3. root \in Seq(Seq(C)) /\ root \in DOMAIN EmptyTree
  BY <1>2, EmptySeq DEF EmptyTree
<1>4. bottom \in Seq(Seq(Seq(C))) /\ Len(bottom) = 1 /\ bottom[1] = root
  BY <1>2, <1>3
<1>5. Opened(b) = [tree |-> EmptyTree, stack |-> bottom, brackets |-> b, key |-> <<>>, end |-> "going"]
  BY <1>2 DEF Opened
<1>6. Rooted(EmptyTree)
  BY EmptyTreeIsRooted
<1>7. \A i \in 1..Len(bottom) : bottom[i] \in DOMAIN EmptyTree
  BY <1>3, <1>4
<1>8. Opened(b) \in Parsing(C)
  BY <1>1, <1>4, <1>5, <1>6, <1>7 DEF Parsing, Ends
<1>9. b = 1 => Counted(Opened(b))
  BY <1>4, <1>5 DEF Counted, Going
<1> QED
  BY <1>8, <1>9

\* A key waits for its value just when it was the last token.
LEMMA RunIs ==
  ASSUME NEW C, NEW ts \in Seq(TokensOf(C)), InOrder(ts), NEW b \in {0, 1}
  PROVE  LET built == Run(Opened(b), ts)
         IN  /\ Rooted(built.tree) /\ built.end # "endless"
             /\ b = 1 => built.end # "undefined"
<1>1. PICK n : n = Len(ts)
  OBVIOUS
<1>2. n \in Nat /\ \A i \in 1..n : ts[i] \in TokensOf(C)
  BY <1>1, LenProperties, ElementOfSeq
<1>3. PICK start : start = Opened(b)
  OBVIOUS
<1>4. start \in Parsing(C) /\ (b = 1 => Counted(start)) /\ start.key = <<>> /\ start.end = "going"
  <2>1. Opened(b).key = <<>> /\ Opened(b).end = "going"
    BY DEF Opened
  <2> QED
    BY <1>3, <2>1, OpenedIs
<1>5. PICK h \in [0..n -> Parsing(C)] :
        /\ h[0] = start
        /\ \A i \in 1..n : h[i] = Take(h[i - 1], ts[i])
        /\ Run(start, ts) = h[n]
  BY <1>1, <1>4, ParserRuns
<1> DEFINE Good(i) ==
             /\ h[i].end # "endless"
             /\ b = 1 => Counted(h[i])
             /\ Going(h[i]) => (h[i].key # <<>> <=> i > 0 /\ ts[i].type = "key")
<1>6. Good(0)
  BY <1>4, <1>5
<1>7. ASSUME NEW i \in 1..n, Good(i - 1) PROVE Good(i)
  <2>1. PICK s, u, token : s = h[i - 1] /\ u = h[i] /\ token = ts[i]
    OBVIOUS
  <2>2. i - 1 \in 0..n /\ i > 0
    BY <1>2
  <2>3. s \in Parsing(C) /\ token \in TokensOf(C) /\ u = Take(s, token)
    BY <1>2, <1>5, <2>1, <2>2
  <2>4. Takes(s, token, u)
    BY <2>3, TakeIs
  <2>5. /\ token.type = "value" => i > 1 /\ ts[i - 1].type = "key"
        /\ token.type = "key" /\ i > 1 => ts[i - 1].type # "key"
    BY <1>1, <2>1 DEF InOrder
  <2>6. /\ s.end # "endless" /\ (b = 1 => Counted(s))
        /\ Going(s) => (s.key # <<>> <=> i - 1 > 0 /\ ts[i - 1].type = "key")
    BY <1>7, <2>1
  <2>7. i > 1 <=> i - 1 > 0
    OBVIOUS
  <2>8. Going(s) /\ token.type = "value" => s.key # <<>>
    BY <2>5, <2>6, <2>7
  <2>9. Going(s) /\ token.type = "key" => s.key = <<>>
    BY <2>5, <2>6, <2>7
  <2>10. u.end # "endless"
    BY <2>4, <2>6, <2>8 DEF Takes
  <2>11. b = 1 => Counted(u)
    BY <2>4, <2>6 DEF Takes
  <2>12. Going(u) => (u.key # <<>> <=> token.type = "key")
    BY <2>4, <2>9 DEF Takes
  <2> QED
    BY <2>1, <2>2, <2>10, <2>11, <2>12
<1>8. PICK P : P = {i \in 0..n : Good(i)}
  OBVIOUS
<1>9. \A i \in 0..n : i \in P
  <2>1. 0 \in P /\ \A i \in 1..n : i - 1 \in P => i \in P
    <3> HIDE DEF Good
    <3> QED
      BY <1>2, <1>6, <1>7, <1>8
  <2> QED
    BY <1>2, <2>1, StepByStep
<1>10. Good(n)
  <2>1. n \in 0..n
    BY <1>2
  <2> HIDE DEF Good
  <2> QED
    BY <1>8, <1>9, <2>1
<1>11. Rooted(h[n].tree)
  <2>1. h[n] \in Parsing(C)
    BY <1>2, <1>5
  <2> QED
    BY <2>1 DEF Parsing
<1> QED
  BY <1>3, <1>5, <1>10, <1>11 DEF Counted

\* Without the first brace the tokens are still in order.
LEMMA TailInOrder ==
  ASSUME NEW C, NEW tokens \in Seq(TokensOf(C)), InOrder(tokens), tokens # <<>>,
         Head(tokens).type = "bracket"
  PROVE  Tail(tokens) \in Seq(TokensOf(C)) /\ InOrder(Tail(tokens))
<1>1. PICK n, ts : n = Len(tokens) /\ ts = Tail(tokens)
  OBVIOUS
<1>2. /\ n \in Nat \ {0} /\ ts \in Seq(TokensOf(C)) /\ Len(ts) = n - 1
      /\ \A i \in 1..n - 1 : ts[i] = tokens[i + 1]
      /\ tokens[1].type = "bracket"
  BY <1>1, EmptySeq, HeadTailProperties
<1>3. InOrder(ts)
  <2> SUFFICES ASSUME NEW i \in 1..n - 1
               PROVE  /\ ts[i].type = "value" => i > 1 /\ ts[i - 1].type = "key"
                      /\ ts[i].type = "key" /\ i > 1 => ts[i - 1].type # "key"
    BY <1>2 DEF InOrder
  <2>1. i + 1 \in 1..n /\ (i > 1 => i - 1 \in 1..n - 1 /\ (i - 1) + 1 = i) /\ (i + 1) - 1 = i
    BY <1>2
  <2>2. ts[i] = tokens[i + 1] /\ (i > 1 => ts[i - 1] = tokens[i])
    BY <1>2, <2>1
  <2>3. /\ tokens[i + 1].type = "value" => tokens[i].type = "key"
        /\ tokens[i + 1].type = "key" /\ i + 1 > 1 => tokens[i].type # "key"
    <3>1. /\ tokens[i + 1].type = "value" => i + 1 > 1 /\ tokens[(i + 1) - 1].type = "key"
          /\ tokens[i + 1].type = "key" /\ i + 1 > 1 => tokens[(i + 1) - 1].type # "key"
      BY <1>1, <2>1 DEF InOrder
    <3> QED
      BY <2>1, <3>1
  <2>4. i > 1 \/ i = 1
    OBVIOUS
  <2>5. i = 1 => tokens[i + 1].type # "value"
    BY <1>2, <2>3
  <2> QED
    BY <2>1, <2>2, <2>3, <2>4, <2>5
<1> QED
  BY <1>1, <1>2, <1>3

LEMMA BuiltIs ==
  ASSUME NEW C, NEW tokens \in Seq(TokensOf(C)), InOrder(tokens)
  PROVE  /\ Rooted(Built(tokens).tree) /\ Built(tokens).end # "endless"
         /\ tokens = <<>> \/ Head(tokens) = Token("bracket", <<"{">>) =>
              Built(tokens).end # "undefined"
<1>1. PICK brace : brace = Token("bracket", <<"{">>)
  OBVIOUS
<1>2. brace.type = "bracket"
  <2>1. \A text : Token("bracket", text).type = "bracket"
    BY DEF Token
  <2> QED
    BY <1>1, <2>1, Zenon
<1>3. Built(tokens) =
        Run(Opened(Opening(tokens)),
                 IF tokens # <<>> /\ Head(tokens) = brace THEN Tail(tokens) ELSE tokens)
  BY <1>1, Zenon DEF Built, Opened, Run
<1>4. Opening(tokens) = IF tokens # <<>> /\ Head(tokens) = brace THEN 1 ELSE 0
  BY <1>1, Zenon DEF Opening
<1>5. CASE tokens # <<>> /\ Head(tokens) = brace
  <2>1. PICK ts : ts = Tail(tokens)
    OBVIOUS
  <2>2. ts \in Seq(TokensOf(C)) /\ InOrder(ts)
    BY <1>2, <1>5, <2>1, TailInOrder
  <2>3. PICK built : built = Run(Opened(1), ts)
    OBVIOUS
  <2>4. Rooted(built.tree) /\ built.end # "endless" /\ built.end # "undefined"
    BY <2>2, <2>3, RunIs
  <2>5. Built(tokens) = built
    BY <1>3, <1>4, <1>5, <2>1, <2>3, Zenon
  <2> QED
    BY <2>4, <2>5, Zenon
<1>6. CASE tokens # <<>> /\ Head(tokens) # brace
  <2>1. PICK built : built = Run(Opened(0), tokens)
    OBVIOUS
  <2>2. Rooted(built.tree) /\ built.end # "endless"
    BY <2>1, RunIs
  <2>3. Built(tokens) = built
    BY <1>3, <1>4, <1>6, <2>1, Zenon
  <2> QED
    BY <1>1, <1>6, <2>2, <2>3, Zenon
<1>7. CASE tokens = <<>>
  <2>1. PICK built : built = Run(Opened(0), tokens)
    OBVIOUS
  <2>2. Rooted(built.tree) /\ built.end # "endless"
    BY <2>1, RunIs
  <2>3. Built(tokens) = built
    BY <1>3, <1>4, <1>7, <2>1, Zenon
  <2>4. built.end = "going"
    <3>1. Len(tokens) = 0
      BY <1>7, EmptySeq
    <3>2. Opened(0) \in Parsing(C)
      BY OpenedIs
    <3>3. PICK start : start = Opened(0)
      OBVIOUS
    <3>4. \E h \in [0..Len(tokens) -> Parsing(C)] :
            h[0] = start /\ Run(start, tokens) = h[Len(tokens)]
      BY <3>2, <3>3, ParserRuns
    <3>5. built = start
      BY <2>1, <3>1, <3>3, <3>4
    <3> QED
      BY <3>3, <3>5 DEF Opened
  <2> QED
    BY <2>2, <2>3, <2>4
<1> QED
  BY <1>5, <1>6, <1>7

-----------------------------------------------------------------------------
(* The inductive invariant.  The tree is the tree of the insertions and of *)
(* the parser; the file holds a text, so that reading it comes to an end.  *)

TreeIsRooted == tree = NoRoot \/ Rooted(tree)
FileIsText == file # Missing => \E C : file.text \in Seq(C)
GInv == TreeIsRooted /\ FileIsText /\ ParserReturns

\* What one reading of a text leaves.
Returns(text, end) == end # "endless" /\ (end = "undefined" => Head(text) # "{")

LEMMA ParsedIs ==
  ASSUME NEW C, NEW text \in Seq(C)
  PROVE  LET built == Built(Tokens(text).tokens)
         IN  Rooted(built.tree) /\ Returns(text, built.end)
<1>1. PICK tokens : tokens = Tokens(text).tokens
  OBVIOUS
<1>2. tokens \in Seq(TokensOf(C)) /\ InOrder(tokens) /\ (text = <<>> => tokens = <<>>)
  BY <1>1, TokensAre
<1>3. PICK brace, token : brace = "{" /\ token = Token("bracket", <<"{">>)
  BY Zenon
<1>4. text # <<>> /\ tokens # <<>> => (Head(text) = brace => Head(tokens) = token)
  BY <1>1, <1>3, BracedTokens, Zenon
<1>5. PICK built : built = Built(tokens)
  OBVIOUS
<1>6. /\ Rooted(built.tree) /\ built.end # "endless"
      /\ tokens = <<>> \/ Head(tokens) = Token("bracket", <<"{">>) => built.end # "undefined"
  BY <1>2, <1>5, BuiltIs, Zenon
<1>7. tokens = <<>> \/ Head(tokens) = token => built.end # "undefined"
  BY <1>3, <1>6, Zenon
<1>8. built.end = "undefined" => Head(text) # brace
  BY <1>2, <1>4, <1>7, Zenon
<1>9. Returns(text, built.end)
  BY <1>3, <1>6, <1>8, Zenon DEF Returns
<1> QED
  BY <1>1, <1>5, <1>6, <1>9, Zenon

LEMMA LoadIs ==
  ASSUME NEW C, NEW text \in Seq(C), Load(text)
  PROVE  (tree' = tree \/ Rooted(tree')) /\ Returns(text, status')
<1>1. PICK lexed : lexed = Tokens(text)
  OBVIOUS
<1>2. PICK built : built = Built(lexed.tokens)
  OBVIOUS
<1>3. Rooted(built.tree) /\ Returns(text, built.end)
  BY <1>1, <1>2, ParsedIs, Zenon
<1>4. /\ tree' = IF lexed.thrown THEN tree ELSE built.tree
      /\ status' = IF ~lexed.thrown /\ built.end \in {"undefined", "endless"}
                   THEN built.end ELSE "running"
  BY <1>1, <1>2, Zenon DEF Load
<1>5. tree' = tree \/ Rooted(tree')
  <2>1. PICK t : t = tree'
    OBVIOUS
  <2>2. t = tree \/ t = built.tree
    BY <1>4, <2>1
  <2>3. t = tree \/ Rooted(t)
    BY <1>3, <2>2
  <2> QED
    BY <2>1, <2>3
<1>6. status' = built.end \/ status' = "running"
  BY <1>4
<1>7. Returns(text, "running")
  <2>1. "running" # "endless" /\ "running" # "undefined"
    OBVIOUS
  <2> QED
    BY <2>1, Zenon DEF Returns
<1>8. Returns(text, status')
  BY <1>3, <1>6, <1>7, Zenon
<1> QED
  BY <1>5, <1>8

\* Whatever is written is a text, and so is every first part of it.
LEMMA PartIsText ==
  ASSUME NEW text, NEW n \in 0..Len(text)
  PROVE  \E C : SubSeq(text, 1, n) \in Seq(C)
<1>1. n \in Nat
  OBVIOUS
<1>2. SubSeq(text, 1, n) = [i \in 1..(1 + n - 1) |-> text[1 + i - 1]]
  BY <1>1
<1>3. PICK C : C = {text[i] : i \in 1..n}
  OBVIOUS
<1>4. [i \in 1..n |-> text[i]] \in Seq(C)
  BY <1>1, <1>3
<1>5. SubSeq(text, 1, n) = [i \in 1..n |-> text[i]]
  BY <1>1, <1>2
<1> QED
  BY <1>4, <1>5

-----------------------------------------------------------------------------
(* The steps.                                                              *)

LEMMA RunningReturns == status' = "running" => ParserReturns'
<1>1. "running" # "endless" /\ "running" # "undefined"
  OBVIOUS
<1> QED
  BY <1>1, Zenon DEF ParserReturns

LEMMA ReadReturns ==
  ASSUME NEW text, source'.text = text, Returns(text, status')
  PROVE  ParserReturns'
BY Zenon DEF ParserReturns, Returns

LEMMA InitIsGood == Init => GInv
<1> SUFFICES ASSUME Init PROVE GInv
  OBVIOUS
<1>1. tree = NoRoot /\ file = Missing /\ status = "new"
  BY DEF Init
<1>2. "new" # "endless" /\ "new" # "undefined"
  OBVIOUS
<1>3. ParserReturns
  BY <1>1, <1>2, Zenon DEF ParserReturns
<1> QED
  BY <1>1, <1>3 DEF GInv, TreeIsRooted, FileIsText

LEMMA ConstructKeeps ==
  ASSUME GInv, Construct \/ ConstructWithoutFile
  PROVE  GInv'
<1>1. status' = "running" /\ file' = file /\ (tree' = EmptyTree \/ tree' = tree)
  BY DEF Construct, ConstructWithoutFile
<1>2. TreeIsRooted'
  <2>1. PICK t : t = tree'
    OBVIOUS
  <2>2. t = NoRoot \/ Rooted(t)
    BY <1>1, <2>1, EmptyTreeIsRooted DEF GInv, TreeIsRooted
  <2> QED
    BY <2>1, <2>2 DEF TreeIsRooted
<1>3. FileIsText'
  BY <1>1 DEF GInv, FileIsText
<1> QED
  BY <1>1, <1>2, <1>3, RunningReturns DEF GInv

LEMMA LoadKeeps ==
  ASSUME GInv, NEW C, NEW text \in Seq(C), Load(text), source'.text = text, file' = file
  PROVE  GInv'
<1>1. (tree' = tree \/ Rooted(tree')) /\ Returns(text, status')
  BY LoadIs
<1>2. TreeIsRooted'
  <2>1. PICK t : t = tree'
    OBVIOUS
  <2>2. t = NoRoot \/ Rooted(t)
    BY <1>1, <2>1 DEF GInv, TreeIsRooted
  <2> QED
    BY <2>1, <2>2 DEF TreeIsRooted
<1>3. FileIsText'
  BY DEF GInv, FileIsText
<1>4. ParserReturns'
  BY <1>1, ReadReturns
<1> QED
  BY <1>2, <1>3, <1>4 DEF GInv

LEMMA ConstructFromKeeps ==
  ASSUME GInv, NEW text \in Texts, ConstructFrom(text)
  PROVE  GInv'
<1>1. text \in Seq(Chars)
  BY ConfigAssumption
<1>2. Load(text) /\ source'.text = text /\ file' = file
  BY DEF ConstructFrom
<1> QED
  BY <1>1, <1>2, LoadKeeps

LEMMA ReadKeeps ==
  ASSUME GInv, Read
  PROVE  GInv'
<1>1. file # Missing /\ Load(file.text) /\ source' = file /\ file' = file
  BY DEF Read
<1>2. PICK C : file.text \in Seq(C)
  BY <1>1 DEF GInv, FileIsText
<1>3. PICK text : text = file.text
  OBVIOUS
<1>4. text \in Seq(C) /\ Load(text) /\ source'.text = text
  BY <1>1, <1>2, <1>3
<1> QED
  BY <1>1, <1>4, LoadKeeps

LEMMA TextIsChars == Text \subseteq Chars
BY DEF Chars

LEMMA KeysAre ==
  ASSUME NEW key \in Keys
  PROVE  key \in Seq(Seq(Chars)) /\ key # <<>>
<1>1. key \in Seq(Seq(Text)) /\ key # <<>>
  BY ConfigAssumption
<1>2. Seq(Text) \subseteq Seq(Chars)
  BY TextIsChars
<1>3. PICK S, T : S = Seq(Text) /\ T = Seq(Chars)
  OBVIOUS
<1>4. S \subseteq T /\ key \in Seq(S)
  BY <1>1, <1>2, <1>3
<1>5. key \in Seq(T)
  BY <1>4
<1> QED
  BY <1>1, <1>3, <1>5

LEMMA InsertIs ==
  ASSUME GInv, NEW key \in Keys, NEW value \in Values, Insert(key, value)
  PROVE  tree' = tree \/ Set(tree, tree', key, value)
<1>1. key \in Seq(Seq(Chars)) /\ key # <<>> /\ value # Domain
  BY KeysAre, ConfigAssumption
<1>2. PICK u : u = Inserted(tree, key, value).tree
  OBVIOUS
<1>3. tree = NoRoot \/ Rooted(tree)
  BY DEF GInv, TreeIsRooted
<1>4. u = tree \/ Set(tree, u, key, value)
  BY <1>1, <1>2, <1>3, InsertedIs
<1>5. tree' = u
  BY <1>2 DEF Insert
<1> QED
  BY <1>4, <1>5

LEMMA InsertKeeps ==
  ASSUME GInv, NEW key \in Keys, NEW value \in Values, Insert(key, value)
  PROVE  GInv'
<1>1. tree' = tree \/ Set(tree, tree', key, value)
  BY InsertIs
<1>2. TreeIsRooted'
  <2>1. PICK t : t = tree'
    OBVIOUS
  <2>2. t = NoRoot \/ Rooted(t)
    BY <1>1, <2>1 DEF GInv, TreeIsRooted, Set
  <2> QED
    BY <2>1, <2>2 DEF TreeIsRooted
<1>3. FileIsText' /\ status' = "running"
  BY DEF GInv, FileIsText, Insert
<1> QED
  BY <1>2, <1>3, RunningReturns DEF GInv

LEMMA ExportKeeps ==
  ASSUME GInv, Export
  PROVE  GInv'
<1>1. status' = "running" /\ tree' = tree
  BY DEF Export
<1>a. PICK text : text = Written(tree)
  OBVIOUS
<1>2. PICK n \in 0..Len(text) :
        file' = [text |-> SubSeq(text, 1, n), of |-> tree, whole |-> n = Len(text)]
  BY <1>a DEF Export
<1>3. \E C : file'.text \in Seq(C)
  BY <1>2, PartIsText
<1>4. FileIsText'
  BY <1>3 DEF FileIsText
<1>5. TreeIsRooted'
  BY <1>1 DEF GInv, TreeIsRooted
<1> QED
  BY <1>1, <1>4, <1>5, RunningReturns DEF GInv

LEMMA CrashKeeps ==
  ASSUME GInv, ExportCrashes
  PROVE  GInv'
<1>1. status' = "crashed" /\ tree' = tree /\ file' = file
  BY DEF ExportCrashes
<1>2. TreeIsRooted' /\ FileIsText'
  BY <1>1 DEF GInv, TreeIsRooted, FileIsText
<1>3. "crashed" # "endless" /\ "crashed" # "undefined"
  OBVIOUS
<1>4. ParserReturns'
  BY <1>1, <1>3, Zenon DEF ParserReturns
<1> QED
  BY <1>2, <1>4 DEF GInv

LEMMA StutterKeeps == GInv /\ UNCHANGED vars => GInv'
<1> SUFFICES ASSUME GInv, UNCHANGED vars PROVE GInv'
  OBVIOUS
<1>1. tree' = tree /\ file' = file /\ source' = source /\ status' = status
  BY DEF vars
<1>2. TreeIsRooted' /\ FileIsText'
  BY <1>1 DEF GInv, TreeIsRooted, FileIsText
<1>3. ParserReturns'
  BY <1>1, Zenon DEF GInv, ParserReturns
<1> QED
  BY <1>2, <1>3 DEF GInv

LEMMA EveryStepKeeps == GInv /\ [Next]_vars => GInv'
<1> SUFFICES ASSUME GInv, [Next]_vars PROVE GInv'
  OBVIOUS
<1>1. CASE Construct \/ ConstructWithoutFile
  BY <1>1, ConstructKeeps
<1>2. CASE \E text \in Texts : ConstructFrom(text)
  BY <1>2, ConstructFromKeeps
<1>3. CASE \E key \in Keys, value \in Values : Insert(key, value)
  BY <1>3, InsertKeeps
<1>4. CASE Export
  BY <1>4, ExportKeeps
<1>5. CASE Read
  BY <1>5, ReadKeeps
<1>6. CASE UNCHANGED vars
  BY <1>6, StutterKeeps
<1>7. CASE ExportCrashes
  BY <1>7, CrashKeeps
<1> QED
  BY <1>1, <1>2, <1>3, <1>4, <1>5, <1>6, <1>7 DEF Next

\* What InsertIsAtomic says of one step.
AtomicStep ==
  status = "running" /\ tree' # tree /\ source' = Missing =>
    \E key \in Keys :
      /\ Get(tree', key) \in Values /\ tree'[Parent(key)] = Domain
      /\ \A path \in DOMAIN tree' \ {key} :
           IF path \in DOMAIN tree THEN tree'[path] = tree[path]
           ELSE tree'[path] = Domain /\ IsStrictPrefix(path, key)

LEMMA EveryStepIsAtomic == GInv /\ [Next]_vars => AtomicStep \/ UNCHANGED vars \/ Read
<1> SUFFICES ASSUME GInv, [Next]_vars, status = "running", tree' # tree, ~Read
             PROVE  AtomicStep
  BY DEF vars, AtomicStep
<1>1. "running" # "new"
  OBVIOUS
<1>2. /\ ~Construct /\ ~ConstructWithoutFile /\ ~(\E text \in Texts : ConstructFrom(text))
      /\ ~Export /\ ~ExportCrashes
  BY <1>1 DEF Construct, ConstructWithoutFile, ConstructFrom, Export, ExportCrashes
<1>3. PICK key \in Keys, value \in Values : Insert(key, value)
  BY <1>2 DEF Next, vars
<1>4. Set(tree, tree', key, value)
  BY <1>3, InsertIs
<1> QED
  BY <1>4 DEF Set, AtomicStep

-----------------------------------------------------------------------------
(* Sequences. *)

\* A sequence is its first elements, and the next.
LEMMA OneMore ==
  ASSUME NEW C, NEW w \in Seq(C), NEW i \in 1..Len(w)
  PROVE  SubSeq(w, 1, i) = Append(SubSeq(w, 1, i - 1), w[i])
<1>1. Len(w) \in Nat /\ i \in Nat /\ i <= Len(w) /\ i - 1 \in Nat /\ i - 1 <= Len(w) /\ i \in Int
  BY LenProperties
<1>2. PICK p, q, j : p = SubSeq(w, 1, i) /\ q = SubSeq(w, 1, i - 1) /\ j = i - 1
  OBVIOUS
<1>3. p \in Seq(C) /\ Len(p) = i /\ \A k \in 1..i : p[k] = w[k]
  BY <1>1, <1>2, SubSeqProperties
<1>4. q \in Seq(C) /\ Len(q) = j /\ \A k \in 1..j : q[k] = w[k]
  BY <1>1, <1>2, SubSeqProperties
<1>5. w[i] \in C
  BY <1>1, ElementOfSeq
<1>6. PICK r : r = Append(q, w[i])
  OBVIOUS
<1>7. r \in Seq(C) /\ Len(r) = i /\ r[i] = w[i] /\ \A k \in 1..j : r[k] = w[k]
  BY <1>1, <1>2, <1>4, <1>5, <1>6, AppendProperties
<1>8. \A k \in 1..i : k = i \/ k \in 1..j
  BY <1>1, <1>2
<1>9. p = r
  BY <1>3, <1>7, <1>8, SeqEqual
<1> QED
  BY <1>2, <1>6, <1>9

LEMMA NoneAndAll ==
  ASSUME NEW C, NEW w \in Seq(C)
  PROVE  SubSeq(w, 1, 0) = <<>> /\ SubSeq(w, 1, Len(w)) = w
<1>1. PICK n : n = Len(w)
  OBVIOUS
<1>2. n \in Nat
  BY <1>1, LenProperties
<1>3. PICK p : p = SubSeq(w, 1, n)
  OBVIOUS
<1>4. p \in Seq(C) /\ Len(p) = n /\ \A k \in 1..n : p[k] = w[k]
  BY <1>1, <1>2, <1>3, SubSeqProperties
<1>5. p = w
  BY <1>1, <1>4, SeqEqual
<1>6. SubSeq(w, 1, 0) \in Seq(C) /\ Len(SubSeq(w, 1, 0)) = 0
  BY <1>1, <1>2, SubSeqProperties
<1>7. SubSeq(w, 1, 0) = <<>>
  BY <1>6, EmptySeq
<1> QED
  BY <1>1, <1>3, <1>5, <1>7

LEMMA ConcatIs ==
  ASSUME NEW C, NEW v \in Seq(C), NEW w \in Seq(C)
  PROVE  /\ v \o w \in Seq(C) /\ Len(v \o w) = Len(v) + Len(w)
         /\ \A i \in 1..Len(v) : (v \o w)[i] = v[i]
         /\ \A i \in 1..Len(w) : (v \o w)[Len(v) + i] = w[i]
         /\ Len(v) \in Nat /\ Len(w) \in Nat
<1>1. Len(v) \in Nat /\ Len(w) \in Nat
  BY LenProperties
<1>2. v \o w \in Seq(C) /\ Len(v \o w) = Len(v) + Len(w)
  OBVIOUS
<1>3. \A i \in 1..Len(v) + Len(w) :
        (v \o w)[i] = IF i <= Len(v) THEN v[i] ELSE w[i - Len(v)]
  OBVIOUS
<1>4. ASSUME NEW i \in 1..Len(v) PROVE (v \o w)[i] = v[i]
  <2>1. i \in 1..Len(v) + Len(w) /\ i <= Len(v)
    BY <1>1
  <2> QED
    BY <1>3, <2>1
<1>5. ASSUME NEW i \in 1..Len(w) PROVE (v \o w)[Len(v) + i] = w[i]
  <2>1. Len(v) + i \in 1..Len(v) + Len(w) /\ ~(Len(v) + i <= Len(v)) /\ (Len(v) + i) - Len(v) = i
    BY <1>1
  <2> QED
    BY <1>3, <2>1
<1> QED
  BY <1>1, <1>2, <1>4, <1>5

LEMMA ConcatAppend ==
  ASSUME NEW C, NEW v \in Seq(C), NEW w \in Seq(C), NEW x \in C
  PROVE  v \o Append(w, x) = Append(v \o w, x)
<1>1. PICK p, q : p = v \o Append(w, x) /\ q = Append(v \o w, x)
  OBVIOUS
<1>2. Append(w, x) \in Seq(C) /\ Len(Append(w, x)) = Len(w) + 1 /\ v \o w \in Seq(C)
  OBVIOUS
<1>3. /\ p \in Seq(C) /\ q \in Seq(C) /\ Len(p) = Len(q)
      /\ \A i \in 1..Len(p) : p[i] = q[i]
  BY <1>1, <1>2
<1>4. p = q
  BY <1>3, SeqEqual
<1> QED
  BY <1>1, <1>4

LEMMA ConcatConcat ==
  ASSUME NEW C, NEW u \in Seq(C), NEW v \in Seq(C), NEW w \in Seq(C)
  PROVE  (u \o v) \o w = u \o (v \o w)
<1>1. PICK p, q : p = (u \o v) \o w /\ q = u \o (v \o w)
  OBVIOUS
<1>2. u \o v \in Seq(C) /\ v \o w \in Seq(C)
  OBVIOUS
<1>3. /\ p \in Seq(C) /\ q \in Seq(C) /\ Len(p) = Len(q)
      /\ \A i \in 1..Len(p) : p[i] = q[i]
  BY <1>1, <1>2
<1>4. p = q
  BY <1>3, SeqEqual
<1> QED
  BY <1>1, <1>4

LEMMA ConcatEmpty ==
  ASSUME NEW C, NEW w \in Seq(C)
  PROVE  w \o <<>> = w /\ <<>> \o w = w
<1>1. PICK p, q : p = w \o <<>> /\ q = <<>> \o w
  OBVIOUS
<1>2. /\ p \in Seq(C) /\ q \in Seq(C) /\ Len(p) = Len(w) /\ Len(q) = Len(w)
      /\ \A i \in 1..Len(w) : p[i] = w[i] /\ q[i] = w[i]
  BY <1>1
<1>3. p = w /\ q = w
  BY <1>2, SeqEqual
<1> QED
  BY <1>1, <1>3

-----------------------------------------------------------------------------
(* The automaton reads a text as it reads its parts.                       *)

\* The states on the way.
LexesBy(C, h, s, text, u) ==
  /\ h \in [0..Len(text) -> Lexed(C)]
  /\ h[0] = s /\ h[Len(text)] = u
  /\ \A i \in 1..Len(text) : h[i] = Advance(h[i - 1], text[i])

LEMMA LexStates ==
  ASSUME NEW C, NEW s \in Lexed(C), NEW w \in Seq(C)
  PROVE  \E h : LexesBy(C, h, s, w, Lex(s, w))
<1>1. PICK h \in [0..Len(w) -> Lexed(C)] :
        h[0] = s /\ (\A i \in 1..Len(w) : h[i] = Advance(h[i - 1], w[i])) /\ Lex(s, w) = h[Len(w)]
  BY LexerRuns
<1>2. LexesBy(C, h, s, w, Lex(s, w))
  BY <1>1 DEF LexesBy
<1> QED
  BY <1>2

LEMMA LexIs ==
  ASSUME NEW C, NEW s \in Lexed(C), NEW w \in Seq(C)
  PROVE  Lex(s, w) \in Lexed(C)
<1>1. PICK h : LexesBy(C, h, s, w, Lex(s, w))
  BY LexStates, Zenon
<1>2. Len(w) \in 0..Len(w)
  BY LenProperties
<1> QED
  BY <1>1, <1>2 DEF LexesBy

LEMMA LexConcat ==
  ASSUME NEW C, NEW s \in Lexed(C), NEW v \in Seq(C), NEW w \in Seq(C)
  PROVE  Lex(s, v \o w) = Lex(Lex(s, v), w)
<1>1. PICK m, n, x, u : m = Len(v) /\ n = Len(w) /\ x = v \o w /\ u = Lex(s, v)
  OBVIOUS
<1>2. /\ x \in Seq(C) /\ Len(x) = m + n /\ m \in Nat /\ n \in Nat
      /\ \A i \in 1..m : x[i] = v[i]
      /\ \A i \in 1..n : x[m + i] = w[i]
  BY <1>1, ConcatIs
<1>a. PICK g : LexesBy(C, g, s, v, u)
  BY <1>1, LexStates, Zenon
<1>3. /\ g \in [0..m -> Lexed(C)]
      /\ g[0] = s /\ (\A i \in 1..m : g[i] = Advance(g[i - 1], v[i])) /\ u = g[m]
  BY <1>1, <1>a DEF LexesBy
<1>4. u \in Lexed(C)
  BY <1>2, <1>3
<1>b. PICK h : LexesBy(C, h, u, w, Lex(u, w))
  BY <1>4, LexStates, Zenon
<1>5. /\ h \in [0..n -> Lexed(C)]
      /\ h[0] = u /\ (\A i \in 1..n : h[i] = Advance(h[i - 1], w[i])) /\ Lex(u, w) = h[n]
  BY <1>1, <1>b DEF LexesBy
<1>c. PICK k : LexesBy(C, k, s, x, Lex(s, x))
  BY <1>2, LexStates, Zenon
<1>6. /\ k \in [0..m + n -> Lexed(C)]
      /\ k[0] = s /\ (\A i \in 1..m + n : k[i] = Advance(k[i - 1], x[i])) /\ Lex(s, x) = k[m + n]
  BY <1>2, <1>c DEF LexesBy
<1>7. PICK P : P = {i \in 0..m : k[i] = g[i]}
  OBVIOUS
<1>8. \A i \in 0..m : i \in P
  <2>1. 0 \in P
    BY <1>2, <1>3, <1>6, <1>7
  <2>2. ASSUME NEW i \in 1..m, i - 1 \in P PROVE i \in P
    <3>1. i \in 0..m /\ i \in 1..m + n
      BY <1>2
    <3> QED
      BY <1>2, <1>3, <1>6, <1>7, <2>2, <3>1
  <2> QED
    BY <1>2, <2>1, <2>2, StepByStep
<1>9. PICK Q : Q = {i \in 0..n : k[m + i] = h[i]}
  OBVIOUS
<1>10. \A i \in 0..n : i \in Q
  <2>1. 0 \in Q
    <3>1. m \in 0..m /\ m + 0 = m /\ 0 \in 0..n
      BY <1>2
    <3> QED
      BY <1>3, <1>5, <1>7, <1>8, <1>9, <3>1
  <2>2. ASSUME NEW i \in 1..n, i - 1 \in Q PROVE i \in Q
    <3>1. i \in 0..n /\ m + i \in 1..m + n /\ (m + i) - 1 = m + (i - 1)
      BY <1>2
    <3>2. k[m + (i - 1)] = h[i - 1]
      BY <1>9, <2>2
    <3>3. k[m + i] = Advance(k[(m + i) - 1], x[m + i])
      BY <1>6, <3>1
    <3> QED
      BY <1>2, <1>5, <1>9, <3>1, <3>2, <3>3
  <2> QED
    BY <1>2, <2>1, <2>2, StepByStep
<1>11. k[m + n] = h[n]
  <2>1. n \in 0..n
    BY <1>2
  <2> QED
    BY <1>9, <1>10, <2>1
<1> QED
  BY <1>1, <1>5, <1>6, <1>11

LEMMA LexOne ==
  ASSUME NEW C, NEW s \in Lexed(C), NEW c \in C
  PROVE  Lex(s, <<c>>) = Advance(s, c)
<1>1. PICK w : w = <<c>>
  OBVIOUS
<1>2. w \in Seq(C) /\ Len(w) = 1 /\ w[1] = c
  BY <1>1
<1>3. PICK h : LexesBy(C, h, s, w, Lex(s, w))
  BY <1>2, LexStates, Zenon
<1>4. /\ h \in [0..1 -> Lexed(C)]
      /\ h[0] = s /\ (\A i \in 1..1 : h[i] = Advance(h[i - 1], w[i])) /\ Lex(s, w) = h[1]
  BY <1>2, <1>3 DEF LexesBy
<1>5. h[1] = Advance(h[0], w[1])
  BY <1>4
<1> QED
  BY <1>1, <1>2, <1>4, <1>5

LEMMA LexNone ==
  ASSUME NEW C, NEW s \in Lexed(C)
  PROVE  Lex(s, <<>>) = s
<1>1. PICK w : w = <<>>
  OBVIOUS
<1>2. w \in Seq(C) /\ Len(w) = 0
  BY <1>1, EmptySeq
<1>3. PICK h : LexesBy(C, h, s, w, Lex(s, w))
  BY <1>2, LexStates, Zenon
<1> QED
  BY <1>1, <1>2, <1>3 DEF LexesBy

\* A function that is defined step by step.
Runs(h, base, step, n) ==
  h[0] = base /\ \A k \in 1..n : h[k] = step[<<k, h[k - 1]>>]

LEMMA RunExists ==
  ASSUME NEW n \in Nat, NEW State, NEW base \in State,
         NEW step \in [(1..n) \X State -> State]
  PROVE  \E h \in [0..n -> State] : Runs(h, base, step, n)
<1>1. PICK g \in [SUBSET (1..n) -> State] : Folds(g, base, step, n)
  BY FoldExists
<1>2. PICK h : h = [k \in 0..n |-> g[1..k]]
  OBVIOUS
<1>3. \A k \in 0..n : 1..k \in SUBSET (1..n)
  OBVIOUS
<1>4. h \in [0..n -> State]
  BY <1>2, <1>3
<1>5. h[0] = base
  <2>1. 1..0 = {} /\ 0 \in 0..n /\ {} \in SUBSET (1..n)
    OBVIOUS
  <2>2. g[{}] = base
    BY <1>1, <2>1 DEF Folds
  <2> QED
    BY <1>2, <2>1, <2>2
<1>6. ASSUME NEW k \in 1..n PROVE h[k] = step[<<k, h[k - 1]>>]
  <2>1. Max(1..k) = k /\ (1..k) \ {k} = 1..k - 1 /\ 1..k \in SUBSET (1..n) /\ 1..k # {}
    BY LastOf
  <2>2. g[1..k] = step[<<k, g[1..k - 1]>>]
    BY <1>1, <2>1 DEF Folds
  <2>3. k \in 0..n /\ k - 1 \in 0..n
    OBVIOUS
  <2> QED
    BY <1>2, <2>2, <2>3
<1> QED
  BY <1>4, <1>5, <1>6 DEF Runs

\* Flattened, the first k sequences are followed by the next.
Flattens(h, pieces, n) ==
  /\ h[0] = <<>> /\ \A k \in 1..n : h[k] = h[k - 1] \o pieces[k]
  /\ FlattenSeq(pieces) = h[n]

LEMMA FlattenRuns ==
  ASSUME NEW n \in Nat \ {0}, NEW T, NEW pieces \in Seq(Seq(T)), Len(pieces) = n
  PROVE  \E h \in [0..n -> Seq(T)] : Flattens(h, pieces, n)
<1> DEFINE Eq(f, i) == IF i = 1 THEN pieces[i] ELSE f[i - 1] \o pieces[i]
           H(f) == f = [i \in 1..Len(pieces) |-> Eq(f, i)]
<1>1. \A k \in 1..n : pieces[k] \in Seq(T)
  OBVIOUS
<1>2. PICK step : step = [p \in (1..n) \X Seq(T) |-> p[2] \o pieces[p[1]]]
  OBVIOUS
<1>3. ASSUME NEW k \in 1..n, NEW s \in Seq(T)
      PROVE  step[<<k, s>>] = s \o pieces[k] /\ s \o pieces[k] \in Seq(T)
  <2>1. <<k, s>> \in (1..n) \X Seq(T) /\ <<k, s>>[1] = k /\ <<k, s>>[2] = s
    OBVIOUS
  <2>2. s \o pieces[k] \in Seq(T)
    BY <1>1, ConcatProperties
  <2> QED
    BY <1>2, <2>1, <2>2
<1>4. step \in [(1..n) \X Seq(T) -> Seq(T)]
  <2> SUFFICES ASSUME NEW p \in (1..n) \X Seq(T) PROVE p[2] \o pieces[p[1]] \in Seq(T)
    BY <1>2
  <2>1. p[1] \in 1..n /\ p[2] \in Seq(T)
    OBVIOUS
  <2> QED
    BY <1>1, <2>1, ConcatProperties
<1>5. <<>> \in Seq(T) /\ n \in Nat
  BY EmptySeq
<1>6. PICK h \in [0..n -> Seq(T)] : Runs(h, <<>>, step, n)
  BY <1>4, <1>5, RunExists
<1>7. h[0] = <<>> /\ \A k \in 1..n : h[k] = h[k - 1] \o pieces[k]
  <2>1. h[0] = <<>> /\ \A k \in 1..n : h[k] = step[<<k, h[k - 1]>>]
    BY <1>6 DEF Runs
  <2>2. \A k \in 1..n : h[k - 1] \in Seq(T)
    OBVIOUS
  <2> QED
    BY <1>3, <2>1, <2>2
<1>8. PICK f : f = [i \in 1..n |-> h[i]]
  OBVIOUS
<1>9. H(f)
  <2>1. ASSUME NEW i \in 1..n PROVE h[i] = Eq(f, i)
    <3>1. CASE i = 1
      <4>a. h[i] = h[i - 1] \o pieces[i]
        BY <1>7
      <4>b. i - 1 = 0
        BY <3>1
      <4>1. h[i] = <<>> \o pieces[i]
        BY <1>7, <4>a, <4>b
      <4>2. <<>> \o pieces[i] = pieces[i]
        BY <1>1, ConcatEmptySeq
      <4> QED
        BY <3>1, <4>1, <4>2
    <3>2. CASE i # 1
      <4>1. i - 1 \in 1..n
        BY <3>2
      <4> QED
        BY <1>7, <1>8, <3>2, <4>1
    <3> QED
      BY <3>1, <3>2
  <2>2. f = [i \in 1..n |-> Eq(f, i)]
    BY <1>8, <2>1
  <2> QED
    BY <2>2
<1>10. PICK g : g = CHOOSE it : H(it)
  OBVIOUS
<1>11. FlattenSeq(pieces) = g[n]
  <2>1. Len(pieces) # 0
    OBVIOUS
  <2> QED
    BY <1>10, <2>1 DEF FlattenSeq
<1>12. H(g)
  <2> HIDE DEF H
  <2> QED
    BY <1>9, <1>10
<1>13. \A i \in 1..n : g[i] = Eq(g, i)
  BY <1>12
<1>14. PICK P : P = {k \in 0..n : k # 0 => g[k] = h[k]}
  OBVIOUS
<1>15. ASSUME NEW k \in 1..n, k - 1 \in P PROVE k \in P
  <2>1. CASE k = 1
    <3>1. g[k] = pieces[k]
      BY <1>13, <2>1
    <3>a. h[k] = h[k - 1] \o pieces[k]
      BY <1>7
    <3>b. k - 1 = 0
      BY <2>1
    <3>2. h[k] = <<>> \o pieces[k]
      BY <1>7, <3>a, <3>b
    <3>3. <<>> \o pieces[k] = pieces[k]
      BY <1>1, ConcatEmptySeq
    <3> QED
      BY <1>14, <3>1, <3>2, <3>3
  <2>2. CASE k # 1
    <3>1. g[k - 1] = h[k - 1]
      BY <1>14, <1>15, <2>2
    <3>2. g[k] = g[k - 1] \o pieces[k]
      BY <1>13, <2>2
    <3>3. h[k] = h[k - 1] \o pieces[k]
      BY <1>7
    <3>4. g[k] = h[k]
      BY <3>1, <3>2, <3>3, Zenon
    <3> QED
      BY <1>14, <3>4
  <2> QED
    BY <2>1, <2>2
<1>16. \A k \in 0..n : k \in P
  <2>1. 0 \in P
    BY <1>14
  <2> QED
    BY <1>5, <1>15, <2>1, StepByStep
<1>17. g[n] = h[n]
  BY <1>14, <1>16
<1> QED
  BY <1>7, <1>11, <1>17 DEF Flattens


LEMMA FlattenNone == FlattenSeq(<<>>) = <<>>
<1>1. Len(<<>>) = 0
  OBVIOUS
<1> QED
  BY <1>1 DEF FlattenSeq

\* The text is cut into single characters where nothing is escaped.
LEMMA FlattenSingles ==
  ASSUME NEW C, NEW w \in Seq(C), NEW pieces, pieces = [i \in DOMAIN w |-> <<w[i]>>]
  PROVE  FlattenSeq(pieces) = w
<1>1. PICK n : n = Len(w)
  OBVIOUS
<1>2. n \in Nat /\ DOMAIN w = 1..n
  BY <1>1, LenProperties
<1>3. \A i \in 1..n : w[i] \in C /\ <<w[i]>> \in Seq(C)
  BY <1>1, ElementOfSeq
<1>4. pieces = [i \in 1..n |-> <<w[i]>>]
  BY <1>2
<1>5. pieces \in Seq(Seq(C)) /\ Len(pieces) = n
  BY <1>2, <1>3, <1>4
<1>6. CASE n = 0
  <2>1. w = <<>> /\ pieces = <<>>
    BY <1>1, <1>5, <1>6, EmptySeq
  <2> QED
    BY <2>1, FlattenNone
<1>7. CASE n # 0
  <2>1. PICK h \in [0..n -> Seq(C)] : Flattens(h, pieces, n)
    BY <1>2, <1>5, <1>7, FlattenRuns
  <2>2. PICK P : P = {k \in 0..n : h[k] = SubSeq(w, 1, k)}
    OBVIOUS
  <2>3. 0 \in P
    BY <1>2, <2>1, <2>2, NoneAndAll DEF Flattens
  <2>4. ASSUME NEW k \in 1..n, k - 1 \in P PROVE k \in P
    <3>1. PICK q : q = SubSeq(w, 1, k - 1)
      OBVIOUS
    <3>2. h[k - 1] = q /\ q \in Seq(C)
      BY <2>2, <2>4, <3>1
    <3>3. h[k] = q \o <<w[k]>>
      BY <1>4, <2>1, <3>2 DEF Flattens
    <3>4. w[k] \in C
      BY <1>3
    <3>5. q \o <<w[k]>> = Append(q, w[k])
      <4>1. PICK x : x = w[k]
        OBVIOUS
      <4>2. q \o <<x>> = Append(q, x)
        BY <3>2, <3>4, <4>1
      <4> QED
        BY <4>1, <4>2
    <3>6. SubSeq(w, 1, k) = Append(q, w[k])
      BY <1>1, <3>1, OneMore
    <3>7. k \in 0..n
      OBVIOUS
    <3>8. h[k] = SubSeq(w, 1, k)
      BY <3>3, <3>5, <3>6, Zenon
    <3> QED
      BY <2>2, <3>7, <3>8
  <2>5. \A k \in 0..n : k \in P
    BY <1>2, <2>3, <2>4, StepByStep
  <2>6. h[n] = w
    BY <1>1, <1>2, <2>2, <2>5, NoneAndAll
  <2> QED
    BY <2>1, <2>6 DEF Flattens
<1> QED
  BY <1>6, <1>7

-----------------------------------------------------------------------------
(* What the automaton makes of the writer's pieces.                        *)

Opener == "{"
Closer == "}"

LEMMA CharsAre ==
  /\ Quote \in Chars /\ Space \in Chars /\ Backslash \in Chars
  /\ Opener \in Chars /\ Closer \in Chars /\ ":" \in Chars /\ "," \in Chars
  /\ ValueChars \subseteq Chars
  /\ Space \notin ValueChars /\ "," \notin ValueChars /\ Quote \notin ValueChars
BY CharsAssumption DEF Chars, Text, Punctuation, Opener, Closer

LEMMA EdgesAre ==
  /\ Edge("Ready", "Ready", {Space}, "none") \in EdgesWithoutWait
  /\ Edge("Ready", "Ready", {Opener}, "bracket") \in EdgesWithoutWait
  /\ Edge("Ready", "ValueEnd", {Closer}, "bracket") \in EdgesWithoutWait
  /\ Edge("Ready", "Key", {Quote}, "clear") \in EdgesWithoutWait
  /\ Edge("Key", "Key", Text \ {Quote}, "push") \in EdgesWithoutWait
  /\ Edge("Key", "KeyEnd", {Quote}, "key") \in EdgesWithoutWait
  /\ Edge("KeyEnd", "Colon", {":"}, "none") \in EdgesWithoutWait
  /\ Edge("Colon", "Colon", {Space}, "none") \in EdgesWithoutWait
  /\ Edge("Colon", "ValueString", {Quote}, "start") \in EdgesWithoutWait
  /\ Edge("Colon", "ValueOthers", ValueChars, "start") \in EdgesWithoutWait
  /\ Edge("Colon", "Ready", {Opener}, "bracket") \in EdgesWithoutWait
  /\ Edge("ValueString", "ValueString", Text \ {Quote}, "push") \in EdgesWithoutWait
  /\ Edge("ValueString", "ValueEnd", {Quote}, "finish") \in EdgesWithoutWait
  /\ Edge("ValueOthers", "ValueOthers", ValueChars, "push") \in EdgesWithoutWait
  /\ Edge("ValueOthers", "ValueEnd", Text \ ValueChars, "value") \in EdgesWithoutWait
  /\ Edge("ValueEnd", "ValueEnd", {Space}, "none") \in EdgesWithoutWait
  /\ Edge("ValueEnd", "ValueEnd", {Closer}, "bracket") \in EdgesWithoutWait
  /\ Edge("ValueEnd", "Ready", {","}, "none") \in EdgesWithoutWait
BY Zenon DEF EdgesWithoutWait, Opener, Closer

LEMMA EdgeIs ==
  ASSUME NEW from, NEW to, NEW on, NEW action, Edge(from, to, on, action) \in EdgesWithoutWait
  PROVE  \E e \in Edges : /\ e.from = from /\ e.to = to /\ e.on = on /\ e.action = action
                          /\ (e.wait <=> action = "value")
<1>1. PICK e : e = Edge(from, to, on, action)
  OBVIOUS
<1>2. e = [from |-> from, to |-> to, on |-> on, action |-> action, wait |-> FALSE]
  BY <1>1 DEF Edge
<1>3. PICK f : f = IF action = "value" THEN [e EXCEPT !.wait = TRUE] ELSE e
  OBVIOUS
<1>4. f = IF e.action = "value" THEN [e EXCEPT !.wait = TRUE] ELSE e
  BY <1>2, <1>3
<1>5. f \in Edges
  BY <1>1, <1>4 DEF Edges
<1>6. /\ f.from = from /\ f.to = to /\ f.on = on /\ f.action = action
      /\ (f.wait <=> action = "value")
  BY <1>2, <1>3
<1> QED
  BY <1>5, <1>6

\* There is one edge at most for a character.
LEMMA StepAlong ==
  ASSUME NEW from, NEW to, NEW on, NEW action, Edge(from, to, on, action) \in EdgesWithoutWait,
         NEW s, s.at = from, NEW c \in on
  PROVE  /\ Step(s, c)[1] = [Act(s, action, c) EXCEPT !.at = to]
         /\ Step(s, c)[2] <=> action = "value"
<1>1. PICK e \in Edges : /\ e.from = from /\ e.to = to /\ e.on = on /\ e.action = action
                         /\ (e.wait <=> action = "value")
  BY EdgeIs
<1>2. PICK f \in Edges : /\ f.from = s.at /\ c \in f.on
                         /\ Step(s, c) = <<[Act(s, f.action, c) EXCEPT !.at = f.to], f.wait>>
  BY <1>1, StepTakes
<1>3. e = f
  BY <1>1, <1>2, NoOverload DEF Overloaded
<1>4. PICK u : u = [Act(s, action, c) EXCEPT !.at = to]
  OBVIOUS
<1>5. Step(s, c) = <<u, e.wait>>
  BY <1>1, <1>2, <1>3, <1>4
<1> QED
  BY <1>1, <1>4, <1>5

LEMMA AdvanceAlong ==
  ASSUME NEW from, NEW to, NEW on, NEW action, Edge(from, to, on, action) \in EdgesWithoutWait,
         action # "value", NEW s, s.at = from, NEW c \in on
  PROVE  Advance(s, c) = [Act(s, action, c) EXCEPT !.at = to]
BY StepAlong DEF Advance

\* A text that leads from one place to another and adds these tokens.
Lexes(from, text, to, ts) ==
  /\ text \in Seq(Chars) /\ ts \in Seq(TokensOf(Chars))
  /\ \A s \in Lexed(Chars) :
       s.at = from => Lex(s, text).at = to /\ Lex(s, text).tokens = s.tokens \o ts

LEMMA LexesThen ==
  ASSUME NEW x, NEW y, NEW z, NEW v, NEW w, NEW ts, NEW us, Lexes(x, v, y, ts), Lexes(y, w, z, us)
  PROVE  Lexes(x, v \o w, z, ts \o us)
<1>1. PICK C, T : C = Chars /\ T = TokensOf(Chars)
  OBVIOUS
<1>2. /\ v \in Seq(C) /\ w \in Seq(C) /\ ts \in Seq(T) /\ us \in Seq(T)
      /\ v \o w \in Seq(C) /\ ts \o us \in Seq(T)
  BY <1>1 DEF Lexes
<1>3. ASSUME NEW s \in Lexed(Chars), s.at = x
      PROVE  Lex(s, v \o w).at = z /\ Lex(s, v \o w).tokens = s.tokens \o (ts \o us)
  <2>1. PICK u : u = Lex(s, v)
    OBVIOUS
  <2>2. u \in Lexed(Chars)
    BY <1>1, <1>2, <2>1, LexIs
  <2>3. u.at = y /\ u.tokens = s.tokens \o ts
    BY <1>3, <2>1 DEF Lexes
  <2>4. Lex(u, w).at = z /\ Lex(u, w).tokens = u.tokens \o us
    BY <2>2, <2>3 DEF Lexes
  <2>5. Lex(s, v \o w) = Lex(u, w)
    BY <1>1, <1>2, <2>1, LexConcat
  <2>6. s.tokens \in Seq(T)
    BY <1>1 DEF Lexed
  <2>7. (s.tokens \o ts) \o us = s.tokens \o (ts \o us)
    <3>1. PICK old : old = s.tokens
      OBVIOUS
    <3>3. old \in Seq(T) /\ ts \in Seq(T) /\ us \in Seq(T)
      BY <1>2, <2>6, <3>1
    <3>2. (old \o ts) \o us = old \o (ts \o us)
      BY ONLY <3>3, ConcatConcat
    <3> QED
      BY <3>1, <3>2
  <2> QED
    BY <2>3, <2>4, <2>5, <2>7
<1> QED
  BY <1>1, <1>2, <1>3 DEF Lexes

LEMMA LexesSilently ==
  ASSUME NEW from, NEW to, NEW on, NEW c \in on, c \in Chars,
         Edge(from, to, on, "none") \in EdgesWithoutWait
  PROVE  Lexes(from, <<c>>, to, <<>>)
<1>1. ASSUME NEW s \in Lexed(Chars), s.at = from
      PROVE  Lex(s, <<c>>).at = to /\ Lex(s, <<c>>).tokens = s.tokens \o <<>>
  <2>1. Lex(s, <<c>>) = Advance(s, c)
    BY LexOne
  <2>2. Advance(s, c) = [Act(s, "none", c) EXCEPT !.at = to]
    BY <1>1, AdvanceAlong
  <2>3. s = [at |-> s.at, matched |-> s.matched, tokens |-> s.tokens] /\ s.tokens \in Seq(TokensOf(Chars))
    BY DEF Lexed
  <2>4. Act(s, "none", c) = s
    BY DEF Act
  <2>5. s.tokens \o <<>> = s.tokens
    BY <2>3, ConcatEmpty
  <2> QED
    BY <2>1, <2>2, <2>3, <2>4, <2>5
<1>2. <<c>> \in Seq(Chars) /\ <<>> \in Seq(TokensOf(Chars))
  OBVIOUS
<1> QED
  BY <1>1, <1>2 DEF Lexes

LEMMA LexesBracket ==
  ASSUME NEW from, NEW to, NEW on, NEW c \in on, c \in Chars,
         Edge(from, to, on, "bracket") \in EdgesWithoutWait
  PROVE  Lexes(from, <<c>>, to, <<Token("bracket", <<c>>)>>)
<1>0. PICK token : token = Token("bracket", <<c>>)
  OBVIOUS
<1>a. token \in TokensOf(Chars)
  BY <1>0 DEF Token, TokensOf
<1>1. ASSUME NEW s \in Lexed(Chars), s.at = from
      PROVE  Lex(s, <<c>>).at = to /\ Lex(s, <<c>>).tokens = s.tokens \o <<token>>
  <2>1. Lex(s, <<c>>) = Advance(s, c)
    BY LexOne
  <2>2. Advance(s, c) = [Act(s, "bracket", c) EXCEPT !.at = to]
    BY <1>1, AdvanceAlong
  <2>3. s = [at |-> s.at, matched |-> s.matched, tokens |-> s.tokens] /\ s.tokens \in Seq(TokensOf(Chars))
    BY DEF Lexed
  <2>4. Act(s, "bracket", c) = [at |-> s.at, matched |-> s.matched, tokens |-> Append(s.tokens, token)]
    BY <1>0, <2>3 DEF Act
  <2>5. s.tokens \o <<token>> = Append(s.tokens, token)
    BY <1>a, <2>3
  <2>6. PICK r, all : r = Act(s, "bracket", c) /\ all = Append(s.tokens, token)
    OBVIOUS
  <2>8. Lex(s, <<c>>) = [r EXCEPT !.at = to]
    BY <2>1, <2>2, <2>6
  <2>9. r = [at |-> s.at, matched |-> s.matched, tokens |-> all]
    BY <2>4, <2>6
  <2>7. Lex(s, <<c>>) = [at |-> to, matched |-> s.matched, tokens |-> all]
    BY <2>8, <2>9
  <2>10. Lex(s, <<c>>).at = to /\ Lex(s, <<c>>).tokens = all
    BY <2>7
  <2>11. all = s.tokens \o <<token>>
    BY <2>5, <2>6
  <2> QED
    BY ONLY <2>10, <2>11
<1>2. <<c>> \in Seq(Chars) /\ <<token>> \in Seq(TokensOf(Chars))
  BY <1>a
<1> QED
  BY <1>0, <1>1, <1>2 DEF Lexes

\* The characters of a word are collected.
LEMMA WordIsPushed ==
  ASSUME NEW s \in Lexed(Chars), NEW on, Edge(s.at, s.at, on, "push") \in EdgesWithoutWait,
         NEW w \in Seq(on), on \subseteq Chars
  PROVE  Lex(s, w) = [at |-> s.at, matched |-> s.matched \o w, tokens |-> s.tokens]
<1>1. PICK n, C : n = Len(w) /\ C = Chars
  OBVIOUS
<1>2. n \in Nat /\ w \in Seq(Chars) /\ \A i \in 1..n : w[i] \in on
  BY <1>1, LenProperties, ElementOfSeq
<1>3. PICK h : LexesBy(Chars, h, s, w, Lex(s, w))
  BY <1>2, LexStates
<1>4. /\ h \in [0..n -> Lexed(Chars)] /\ h[0] = s /\ h[n] = Lex(s, w)
      /\ \A i \in 1..n : h[i] = Advance(h[i - 1], w[i])
  BY <1>1, <1>3 DEF LexesBy
<1>5. s = [at |-> s.at, matched |-> s.matched, tokens |-> s.tokens] /\ s.matched \in Seq(Chars)
  BY DEF Lexed
<1> DEFINE Then(i) == [at |-> s.at, matched |-> s.matched \o SubSeq(w, 1, i), tokens |-> s.tokens]
<1>6. PICK P : P = {i \in 0..n : h[i] = Then(i)}
  OBVIOUS
<1>7. 0 \in P
  <2>1. SubSeq(w, 1, 0) = <<>> /\ s.matched \o <<>> = s.matched
    BY <1>2, <1>5, NoneAndAll, ConcatEmpty
  <2> QED
    BY <1>2, <1>4, <1>5, <1>6, <2>1
<1>8. ASSUME NEW i \in 1..n, i - 1 \in P PROVE i \in P
  <2>1. PICK q, u, x : q = SubSeq(w, 1, i - 1) /\ u = h[i - 1] /\ x = w[i]
    OBVIOUS
  <2>2. u = [at |-> s.at, matched |-> s.matched \o q, tokens |-> s.tokens]
    BY <1>6, <1>8, <2>1
  <2>3. u.at = s.at /\ x \in on
    BY <1>2, <2>1, <2>2
  <2>4. Advance(u, x) = [Act(u, "push", x) EXCEPT !.at = s.at]
    BY <2>3, AdvanceAlong
  <2>5. Act(u, "push", x) = [at |-> s.at, matched |-> Append(s.matched \o q, x), tokens |-> s.tokens]
    BY <2>2 DEF Act
  <2>6. q \in Seq(Chars) /\ SubSeq(w, 1, i) = Append(q, x)
    <3>1. i - 1 \in Nat /\ i - 1 <= n
      BY <1>2
    <3>2. q \in Seq(Chars)
      BY <1>1, <1>2, <2>1, <3>1, SubSeqProperties
    <3> QED
      BY <1>1, <1>2, <2>1, <3>2, OneMore
  <2>7. s.matched \o Append(q, x) = Append(s.matched \o q, x)
    BY <1>5, <2>3, <2>6, ConcatAppend
  <2>8. h[i] = Advance(u, x)
    BY <1>4, <2>1
  <2>a. PICK r, m : r = Act(u, "push", x) /\ m = Append(s.matched \o q, x)
    OBVIOUS
  <2>d. h[i] = [r EXCEPT !.at = s.at]
    BY <2>4, <2>8, <2>a
  <2>e. r = [at |-> s.at, matched |-> m, tokens |-> s.tokens]
    BY <2>5, <2>a
  <2>b. h[i] = [at |-> s.at, matched |-> m, tokens |-> s.tokens]
    BY <2>d, <2>e
  <2>c. s.matched \o SubSeq(w, 1, i) = m
    BY <2>6, <2>7, <2>a
  <2>9. h[i] = Then(i)
    BY <2>b, <2>c
  <2> QED
    BY <1>6, <2>9
<1>9. n \in P
  <2> HIDE DEF Then
  <2>1. \A i \in 0..n : i \in P
    BY <1>2, <1>7, <1>8, StepByStep
  <2>2. n \in 0..n
    BY <1>2
  <2> QED
    BY <2>1, <2>2
<1>10. SubSeq(w, 1, n) = w
  BY <1>1, <1>2, NoneAndAll
<1> QED
  BY <1>4, <1>6, <1>9, <1>10

\* What std::quoted leaves as it is and the automaton takes.
PlainText(w) == w \in Seq(Chars) /\ PlainWord(w)

LEMMA UnquotedText == Text \ {Quote} \subseteq Chars /\ Text \ ValueChars \subseteq Chars
BY TextIsChars

LEMMA PlainIs ==
  ASSUME NEW w, PlainText(w)
  PROVE  /\ w \in Seq(Chars) /\ w \in Seq(Text \ {Quote})
         /\ Quoted(w) = (<<Quote>> \o w) \o <<Quote>> /\ Quoted(w) \in Seq(Chars)
<1>1. PICK n : n = Len(w)
  OBVIOUS
<1>2. w \in Seq(Chars) /\ n \in Nat /\ DOMAIN w = 1..n
  BY <1>1, LenProperties DEF PlainText
<1>3. \A i \in 1..n : w[i] \in Text /\ w[i] \notin {Quote, Backslash}
  <2> SUFFICES ASSUME NEW i \in 1..n PROVE w[i] \in Text /\ w[i] \notin {Quote, Backslash}
    OBVIOUS
  <2>1. w[i] \in Range(w)
    BY <1>2 DEF Range
  <2> QED
    BY <2>1 DEF PlainText, PlainWord
<1>4. w \in Seq(Text \ {Quote})
  <2>1. w = [i \in 1..n |-> w[i]]
    BY <1>2
  <2>2. [i \in 1..n |-> w[i]] \in Seq(Text \ {Quote})
    BY <1>2, <1>3
  <2> QED
    BY <2>1, <2>2
<1>5. [i \in DOMAIN w |-> IF w[i] \in {Quote, Backslash} THEN <<Backslash, w[i]>> ELSE <<w[i]>>]
        = [i \in DOMAIN w |-> <<w[i]>>]
  BY <1>2, <1>3
<1>6. PICK pieces : pieces = [i \in DOMAIN w |-> <<w[i]>>]
  OBVIOUS
<1>7. FlattenSeq(pieces) = w
  BY <1>2, <1>6, FlattenSingles
<1>8. Quoted(w) = (<<Quote>> \o w) \o <<Quote>>
  BY <1>5, <1>6, <1>7 DEF Quoted
<1>9. Quoted(w) \in Seq(Chars)
  <2>1. PICK q : q = Quote
    OBVIOUS
  <2>a. q \in Chars
    BY <2>1, CharsAre, Zenon
  <2>2. q \in Chars /\ <<q>> \in Seq(Chars)
    BY <2>a
  <2>3. <<q>> \o w \in Seq(Chars)
    BY <1>2, <2>2, ConcatProperties
  <2>4. (<<q>> \o w) \o <<q>> \in Seq(Chars)
    BY <2>2, <2>3, ConcatProperties
  <2> QED
    BY <1>8, <2>1, <2>4
<1> QED
  BY <1>2, <1>4, <1>8, <1>9

LEMMA LexThree ==
  ASSUME NEW s \in Lexed(Chars), NEW a \in Chars, NEW w \in Seq(Chars), NEW b \in Chars
  PROVE  Lex(s, (<<a>> \o w) \o <<b>>) = Advance(Lex(Advance(s, a), w), b)
<1>1. <<a>> \in Seq(Chars) /\ <<b>> \in Seq(Chars) /\ <<a>> \o w \in Seq(Chars)
  OBVIOUS
<1>2. PICK u, v, x : u = Lex(s, <<a>>) /\ v = Lex(u, w) /\ x = <<a>> \o w
  OBVIOUS
<1>3. u \in Lexed(Chars)
  BY <1>1, <1>2, LexIs
<1>4. v \in Lexed(Chars)
  BY <1>2, <1>3, LexIs
<1>5. u = Advance(s, a)
  BY <1>2, LexOne
<1>6. Lex(v, <<b>>) = Advance(v, b)
  BY <1>4, LexOne
<1>7. Lex(s, x) = v
  <2>1. PICK p : p = <<a>>
    OBVIOUS
  <2>2. p \in Seq(Chars) /\ u = Lex(s, p) /\ x = p \o w
    BY <1>1, <1>2, <2>1
  <2>3. Lex(s, p \o w) = Lex(Lex(s, p), w)
    BY <2>2, LexConcat
  <2> QED
    BY <1>2, <2>2, <2>3
<1>8. Lex(s, x \o <<b>>) = Lex(v, <<b>>)
  <2>1. PICK p : p = <<b>>
    OBVIOUS
  <2>2. p \in Seq(Chars) /\ x \in Seq(Chars)
    BY <1>1, <1>2, <2>1
  <2>3. Lex(s, x \o p) = Lex(Lex(s, x), p)
    BY <2>2, LexConcat
  <2> QED
    BY <1>7, <2>1, <2>3
<1> QED
  BY <1>2, <1>5, <1>6, <1>8

\* A state by its fields, and what an edge makes of it.
At(at, m, ts) == [at |-> at, matched |-> m, tokens |-> ts]

LEMMA AtIs ==
  /\ \A at, m, ts : At(at, m, ts).at = at /\ At(at, m, ts).tokens = ts
  /\ \A s \in Lexed(Chars) : /\ s = At(s.at, s.matched, s.tokens)
                            /\ s.matched \in Seq(Chars) /\ s.tokens \in Seq(TokensOf(Chars))
BY DEF At, Lexed

LEMMA AlongClear ==
  ASSUME NEW from, NEW to, NEW on, Edge(from, to, on, "clear") \in EdgesWithoutWait,
         NEW c \in on, NEW m, NEW ts
  PROVE  Advance(At(from, m, ts), c) = At(to, <<>>, ts)
<1>1. PICK s, r : s = At(from, m, ts) /\ r = Act(s, "clear", c)
  OBVIOUS
<1>2. s.at = from
  BY <1>1 DEF At
<1>3. Advance(s, c) = [r EXCEPT !.at = to]
  BY <1>1, <1>2, AdvanceAlong
<1>4. r = At(from, <<>>, ts)
  BY <1>1 DEF Act, At
<1> QED
  BY <1>1, <1>3, <1>4 DEF At

LEMMA AlongStart ==
  ASSUME NEW from, NEW to, NEW on, Edge(from, to, on, "start") \in EdgesWithoutWait,
         NEW c \in on, NEW m, NEW ts
  PROVE  Advance(At(from, m, ts), c) = At(to, <<c>>, ts)
<1>1. PICK s, r : s = At(from, m, ts) /\ r = Act(s, "start", c)
  OBVIOUS
<1>2. s.at = from
  BY <1>1 DEF At
<1>3. Advance(s, c) = [r EXCEPT !.at = to]
  BY <1>1, <1>2, AdvanceAlong
<1>4. r = At(from, <<c>>, ts)
  BY <1>1 DEF Act, At
<1> QED
  BY <1>1, <1>3, <1>4 DEF At

LEMMA AlongKey ==
  ASSUME NEW from, NEW to, NEW on, Edge(from, to, on, "key") \in EdgesWithoutWait,
         NEW c \in on, NEW m, NEW ts
  PROVE  Advance(At(from, m, ts), c) = At(to, m, Append(ts, Token("key", m)))
<1>1. PICK s, r : s = At(from, m, ts) /\ r = Act(s, "key", c)
  OBVIOUS
<1>2. s.at = from
  BY <1>1 DEF At
<1>3. Advance(s, c) = [r EXCEPT !.at = to]
  BY <1>1, <1>2, AdvanceAlong
<1>4. PICK all : all = Append(ts, Token("key", m))
  OBVIOUS
<1>5. r = At(from, m, all)
  BY <1>1, <1>4 DEF Act, At
<1>6. Advance(s, c) = At(to, m, all)
  BY <1>3, <1>5 DEF At
<1> QED
  BY <1>1, <1>4, <1>6

LEMMA AlongFinish ==
  ASSUME NEW from, NEW to, NEW on, Edge(from, to, on, "finish") \in EdgesWithoutWait,
         NEW c \in on, NEW m, NEW ts
  PROVE  Advance(At(from, m, ts), c) = At(to, Append(m, c), Append(ts, Token("value", Append(m, c))))
<1>1. PICK s, r : s = At(from, m, ts) /\ r = Act(s, "finish", c)
  OBVIOUS
<1>2. s.at = from
  BY <1>1 DEF At
<1>3. Advance(s, c) = [r EXCEPT !.at = to]
  BY <1>1, <1>2, AdvanceAlong
<1>a. PICK w : w = Append(m, c)
  OBVIOUS
<1>4. PICK all : all = Append(ts, Token("value", w))
  OBVIOUS
<1>5. r = At(from, w, all)
  BY <1>1, <1>4, <1>a DEF Act, At
<1>6. Advance(s, c) = At(to, w, all)
  BY <1>3, <1>5 DEF At
<1> QED
  BY <1>1, <1>4, <1>6, <1>a

\* A value ends at a character that is seen again.
LEMMA AlongValue ==
  ASSUME NEW from, NEW on, Edge(from, "ValueEnd", on, "value") \in EdgesWithoutWait,
         NEW to, NEW next, Edge("ValueEnd", to, next, "none") \in EdgesWithoutWait,
         NEW c \in on, c \in next, NEW m, NEW ts
  PROVE  Advance(At(from, m, ts), c) = At(to, m, Append(ts, Token("value", m)))
<1>1. PICK s, r : s = At(from, m, ts) /\ r = Act(s, "value", c)
  OBVIOUS
<1>2. s.at = from
  BY <1>1 DEF At
<1>3. Step(s, c)[1] = [r EXCEPT !.at = "ValueEnd"] /\ Step(s, c)[2]
  BY <1>1, <1>2, StepAlong
<1>4. PICK all : all = Append(ts, Token("value", m))
  OBVIOUS
<1>5. r = At(from, m, all)
  BY <1>1, <1>4 DEF Act, At
<1>6. PICK x : x = Step(s, c)[1]
  OBVIOUS
<1>7. x = At("ValueEnd", m, all)
  BY <1>3, <1>5, <1>6 DEF At
<1>8. x.at = "ValueEnd"
  BY <1>7 DEF At
<1>9. Step(x, c)[1] = [Act(x, "none", c) EXCEPT !.at = to]
  BY <1>8, StepAlong
<1>10. Act(x, "none", c) = x
  BY DEF Act
<1>11. Step(x, c)[1] = At(to, m, all)
  BY <1>7, <1>9, <1>10 DEF At
<1>12. Advance(s, c) = Step(x, c)[1]
  BY <1>3, <1>6 DEF Advance
<1> QED
  BY <1>1, <1>4, <1>11, <1>12

LEMMA AlongWord ==
  ASSUME NEW at, NEW on, Edge(at, at, on, "push") \in EdgesWithoutWait,
         NEW w \in Seq(on), on \subseteq Chars, NEW m, NEW ts, At(at, m, ts) \in Lexed(Chars)
  PROVE  Lex(At(at, m, ts), w) = At(at, m \o w, ts)
<1>1. PICK s : s = At(at, m, ts)
  OBVIOUS
<1>2. s.at = at /\ s.matched = m /\ s.tokens = ts
  BY <1>1 DEF At
<1>3. Lex(s, w) = [at |-> s.at, matched |-> s.matched \o w, tokens |-> s.tokens]
  <2>1. Edge(s.at, s.at, on, "push") \in EdgesWithoutWait
    BY <1>2
  <2> QED
    BY <1>1, <2>1, WordIsPushed
<1> QED
  BY <1>1, <1>2, <1>3 DEF At

\* The tokens of a text that adds one.
LEMMA LexesAt ==
  ASSUME NEW text \in Seq(Chars), NEW from, NEW to, NEW token \in TokensOf(Chars), NEW f,
         \A m \in Seq(Chars), ts \in Seq(TokensOf(Chars)) :
           At(from, m, ts) \in Lexed(Chars) =>
             Lex(At(from, m, ts), text) = At(to, f, Append(ts, token))
  PROVE  Lexes(from, text, to, <<token>>)
<1>1. ASSUME NEW s \in Lexed(Chars), s.at = from
      PROVE  Lex(s, text).at = to /\ Lex(s, text).tokens = s.tokens \o <<token>>
  <2>1. PICK m, ts : m = s.matched /\ ts = s.tokens
    OBVIOUS
  <2>2. m \in Seq(Chars) /\ ts \in Seq(TokensOf(Chars)) /\ s = At(from, m, ts)
    BY <1>1, <2>1, AtIs
  <2>3. Lex(s, text) = At(to, f, Append(ts, token))
    BY <2>2
  <2>4. Append(ts, token) = ts \o <<token>>
    BY <2>2
  <2>5. At(to, f, Append(ts, token)).at = to /\ At(to, f, Append(ts, token)).tokens = Append(ts, token)
    BY AtIs, Zenon
  <2>6. Lex(s, text).at = to /\ Lex(s, text).tokens = Append(ts, token)
    BY <2>3, <2>5, Zenon
  <2> QED
    BY <2>1, <2>4, <2>6
<1>2. <<token>> \in Seq(TokensOf(Chars))
  OBVIOUS
<1> QED
  BY <1>1, <1>2 DEF Lexes

\* A key in quotes becomes its token.
LEMMA LexesKey ==
  ASSUME NEW w, PlainText(w)
  PROVE  Lexes("Ready", Quoted(w), "KeyEnd", <<Token("key", w)>>)
<1>1. /\ w \in Seq(Chars) /\ w \in Seq(Text \ {Quote})
      /\ Quoted(w) = (<<Quote>> \o w) \o <<Quote>> /\ Quoted(w) \in Seq(Chars)
  BY PlainIs
<1>2. PICK token, q, all : token = Token("key", w) /\ q = Quote /\ all = Quoted(w)
  OBVIOUS
<1>3. token \in TokensOf(Chars) /\ q \in Chars /\ all = (<<q>> \o w) \o <<q>> /\ all \in Seq(Chars)
  BY <1>1, <1>2, CharsAre DEF Token, TokensOf
<1>b. PICK one, rest : one = {q} /\ rest = Text \ {q}
  OBVIOUS
<1>4. /\ Edge("Ready", "Key", one, "clear") \in EdgesWithoutWait
      /\ Edge("Key", "Key", rest, "push") \in EdgesWithoutWait
      /\ Edge("Key", "KeyEnd", one, "key") \in EdgesWithoutWait
      /\ q \in one /\ w \in Seq(rest) /\ rest \subseteq Chars
  BY <1>1, <1>2, <1>b, EdgesAre, UnquotedText
<1>5. ASSUME NEW m \in Seq(Chars), NEW ts \in Seq(TokensOf(Chars)), At("Ready", m, ts) \in Lexed(Chars)
      PROVE  Lex(At("Ready", m, ts), all) = At("KeyEnd", w, Append(ts, token))
  <2>1. PICK s : s = At("Ready", m, ts)
    OBVIOUS
  <2>2. Advance(s, q) = At("Key", <<>>, ts)
    BY <1>4, <2>1, AlongClear
  <2>3. At("Key", <<>>, ts) \in Lexed(Chars)
    BY <1>3, <1>5, <2>1, <2>2, AdvanceIs
  <2>4. Lex(At("Key", <<>>, ts), w) = At("Key", <<>> \o w, ts)
    <3>1. PICK none : none = <<>>
      OBVIOUS
    <3>2. At("Key", none, ts) \in Lexed(Chars)
      BY <2>3, <3>1
    <3>3. Lex(At("Key", none, ts), w) = At("Key", none \o w, ts)
      BY <1>4, <3>2, AlongWord
    <3> QED
      BY <3>1, <3>3
  <2>5. <<>> \o w = w
    BY <1>1, ConcatEmpty
  <2>6. Advance(At("Key", w, ts), q) = At("KeyEnd", w, Append(ts, token))
    BY <1>2, <1>4, AlongKey
  <2>7. s \in Lexed(Chars)
    BY <1>5, <2>1
  <2>8. Lex(s, all) = Advance(Lex(Advance(s, q), w), q)
    BY <1>1, <1>3, <2>7, LexThree
  <2> QED
    BY <2>1, <2>2, <2>4, <2>5, <2>6, <2>8
<1>6. Lexes("Ready", all, "KeyEnd", <<token>>)
  BY <1>3, <1>5, LexesAt
<1> QED
  BY <1>2, <1>6

\* So does a string.
LEMMA LexesString ==
  ASSUME NEW w, PlainText(w)
  PROVE  Lexes("Colon", Quoted(w), "ValueEnd", <<Token("value", Quoted(w))>>)
<1>1. /\ w \in Seq(Chars) /\ w \in Seq(Text \ {Quote})
      /\ Quoted(w) = (<<Quote>> \o w) \o <<Quote>> /\ Quoted(w) \in Seq(Chars)
  BY PlainIs
<1>2. PICK token, q, all : token = Token("value", Quoted(w)) /\ q = Quote /\ all = Quoted(w)
  OBVIOUS
<1>3. token \in TokensOf(Chars) /\ q \in Chars /\ all = (<<q>> \o w) \o <<q>> /\ all \in Seq(Chars)
  BY <1>1, <1>2, CharsAre DEF Token, TokensOf
<1>b. PICK one, rest : one = {q} /\ rest = Text \ {q}
  OBVIOUS
<1>4. /\ Edge("Colon", "ValueString", one, "start") \in EdgesWithoutWait
      /\ Edge("ValueString", "ValueString", rest, "push") \in EdgesWithoutWait
      /\ Edge("ValueString", "ValueEnd", one, "finish") \in EdgesWithoutWait
      /\ q \in one /\ w \in Seq(rest) /\ rest \subseteq Chars
  BY <1>1, <1>2, <1>b, EdgesAre, UnquotedText
<1>a. Append(<<q>> \o w, q) = all
  <2>1. PICK p : p = <<q>> \o w
    OBVIOUS
  <2>2. p \in Seq(Chars)
    BY <1>1, <1>3, <2>1
  <2>3. p \o <<q>> = Append(p, q)
    BY <1>3, <2>2
  <2> QED
    BY <1>3, <2>1, <2>3
<1>5. ASSUME NEW m \in Seq(Chars), NEW ts \in Seq(TokensOf(Chars)), At("Colon", m, ts) \in Lexed(Chars)
      PROVE  Lex(At("Colon", m, ts), all) = At("ValueEnd", all, Append(ts, token))
  <2>1. PICK s : s = At("Colon", m, ts)
    OBVIOUS
  <2>2. Advance(s, q) = At("ValueString", <<q>>, ts)
    BY <1>4, <2>1, AlongStart
  <2>3. At("ValueString", <<q>>, ts) \in Lexed(Chars)
    BY <1>3, <1>5, <2>1, <2>2, AdvanceIs
  <2>4. Lex(At("ValueString", <<q>>, ts), w) = At("ValueString", <<q>> \o w, ts)
    BY <1>4, <2>3, AlongWord
  <2>5. PICK p : p = <<q>> \o w
    OBVIOUS
  <2>6. Advance(At("ValueString", p, ts), q) = At("ValueEnd", all, Append(ts, token))
    <3>1. Append(p, q) = all /\ Token("value", Append(p, q)) = token
      BY <1>2, <1>a, <2>5
    <3>2. Advance(At("ValueString", p, ts), q)
            = At("ValueEnd", Append(p, q), Append(ts, Token("value", Append(p, q))))
      BY <1>4, AlongFinish
    <3> QED
      BY <3>1, <3>2
  <2>7. s \in Lexed(Chars)
    BY <1>5, <2>1
  <2>8. Lex(s, all) = Advance(Lex(Advance(s, q), w), q)
    BY <1>1, <1>3, <2>7, LexThree
  <2> QED
    BY <2>1, <2>2, <2>4, <2>5, <2>6, <2>8
<1>6. Lexes("Colon", all, "ValueEnd", <<token>>)
  BY <1>3, <1>5, LexesAt
<1> QED
  BY <1>2, <1>6

\* A word becomes its token at the character after it, which is seen again.
LEMMA LexesWord ==
  ASSUME NEW w \in Seq(ValueChars), w # <<>>, NEW c \in Text \ ValueChars, NEW to, NEW on, c \in on,
         Edge("ValueEnd", to, on, "none") \in EdgesWithoutWait
  PROVE  Lexes("Colon", w \o <<c>>, to, <<Token("value", w)>>)
<1>1. PICK a, rest : a = Head(w) /\ rest = Tail(w)
  OBVIOUS
<1>2. a \in ValueChars /\ rest \in Seq(ValueChars) /\ w = <<a>> \o rest
  <2>1. a \in ValueChars /\ rest \in Seq(ValueChars)
    BY <1>1
  <2>2. PICK p : p = <<a>> \o rest
    OBVIOUS
  <2>3. p \in Seq(ValueChars) /\ Len(p) = Len(w) /\ \A i \in 1..Len(w) : p[i] = w[i]
    BY <1>1, <2>1, <2>2
  <2>4. p = w
    BY <2>3, SeqEqual
  <2> QED
    BY <2>1, <2>2, <2>4
<1>3. ValueChars \subseteq Chars /\ w \in Seq(Chars) /\ rest \in Seq(Chars) /\ a \in Chars
  <2>1. ValueChars \subseteq Chars
    BY CharsAre
  <2>2. Seq(ValueChars) \subseteq Seq(Chars)
    BY <2>1
  <2> QED
    BY <1>2, <2>1, <2>2
<1>4. PICK token, all, others : token = Token("value", w) /\ all = w \o <<c>> /\ others = Text \ ValueChars
  OBVIOUS
<1>5. token \in TokensOf(Chars) /\ all \in Seq(Chars) /\ c \in Chars /\ c \in others
  <2>1. c \in Chars /\ c \in others
    BY <1>4, UnquotedText
  <2> QED
    BY <1>3, <1>4, <2>1 DEF Token, TokensOf
<1>6. /\ Edge("Colon", "ValueOthers", ValueChars, "start") \in EdgesWithoutWait
      /\ Edge("ValueOthers", "ValueOthers", ValueChars, "push") \in EdgesWithoutWait
      /\ Edge("ValueOthers", "ValueEnd", others, "value") \in EdgesWithoutWait
  BY <1>4, EdgesAre
<1>7. ASSUME NEW m \in Seq(Chars), NEW ts \in Seq(TokensOf(Chars)), At("Colon", m, ts) \in Lexed(Chars)
      PROVE  Lex(At("Colon", m, ts), all) = At(to, w, Append(ts, token))
  <2>1. PICK s : s = At("Colon", m, ts)
    OBVIOUS
  <2>2. Advance(s, a) = At("ValueOthers", <<a>>, ts)
    BY <1>2, <1>6, <2>1, AlongStart
  <2>3. At("ValueOthers", <<a>>, ts) \in Lexed(Chars)
    BY <1>3, <1>7, <2>1, <2>2, AdvanceIs
  <2>4. Lex(At("ValueOthers", <<a>>, ts), rest) = At("ValueOthers", <<a>> \o rest, ts)
    BY <1>2, <1>3, <1>6, <2>3, AlongWord
  <2>5. Advance(At("ValueOthers", w, ts), c) = At(to, w, Append(ts, token))
    <3>1. /\ Edge("ValueOthers", "ValueEnd", others, "value") \in EdgesWithoutWait
          /\ Edge("ValueEnd", to, on, "none") \in EdgesWithoutWait
          /\ c \in others /\ c \in on
      BY <1>5, <1>6
    <3>2. Advance(At("ValueOthers", w, ts), c) = At(to, w, Append(ts, Token("value", w)))
      BY <3>1, AlongValue
    <3> QED
      BY <1>4, <3>2
  <2>7. s \in Lexed(Chars)
    BY <1>7, <2>1
  <2>8. Lex(s, (<<a>> \o rest) \o <<c>>) = Advance(Lex(Advance(s, a), rest), c)
    BY <1>3, <1>5, <2>7, LexThree
  <2>9. (<<a>> \o rest) \o <<c>> = all
    BY <1>2, <1>4
  <2> QED
    BY <1>2, <2>1, <2>2, <2>4, <2>5, <2>8, <2>9
<1>8. Lexes("Colon", all, to, <<token>>)
  BY <1>5, <1>7, LexesAt
<1> QED
  BY <1>4, <1>8

KeyToken(w) == Token("key", w)
ValueToken(w) == Token("value", w)
OpenToken == Token("bracket", <<Opener>>)
CloseToken == Token("bracket", <<Closer>>)

LEMMA LexesNothingMore ==
  ASSUME NEW x, NEW y, NEW z, NEW v, NEW w, NEW ts, Lexes(x, v, y, ts), Lexes(y, w, z, <<>>)
  PROVE  Lexes(x, v \o w, z, ts)
<1>1. PICK none : none = <<>>
  OBVIOUS
<1>2. Lexes(x, v \o w, z, ts \o none)
  BY <1>1, LexesThen
<1>3. ts \o none = ts
  <2>1. ts \in Seq(TokensOf(Chars))
    BY DEF Lexes
  <2> QED
    BY <1>1, <2>1, ConcatEmpty
<1> QED
  BY <1>2, <1>3

\* Two characters one after the other.
LEMMA TwoChars ==
  ASSUME NEW a, NEW b
  PROVE  <<a>> \o <<b>> = <<a, b>>
<1>1. PICK C : C = {a, b}
  OBVIOUS
<1>2. PICK p, q : p = <<a>> \o <<b>> /\ q = <<a, b>>
  OBVIOUS
<1>3. <<a>> \in Seq(C) /\ <<b>> \in Seq(C) /\ q \in Seq(C) /\ Len(q) = 2 /\ q[1] = a /\ q[2] = b
  BY <1>1, <1>2
<1>4. p \in Seq(C) /\ Len(p) = 2 /\ p[1] = a /\ p[2] = b
  BY <1>2, <1>3
<1>5. \A i \in 1..2 : p[i] = q[i]
  <2>1. \A i \in 1..2 : i = 1 \/ i = 2
    OBVIOUS
  <2> QED
    BY <1>3, <1>4, <2>1
<1>6. p = q
  BY <1>3, <1>4, <1>5, SeqEqual
<1> QED
  BY <1>2, <1>6

\* What the writer puts between its pieces.
LEMMA LexesBetween ==
  /\ Lexes("KeyEnd", <<":", Space>>, "Colon", <<>>)
  /\ Lexes("ValueEnd", <<",", Space>>, "Ready", <<>>)
  /\ Lexes("ValueEnd", <<Space>>, "ValueEnd", <<>>)
  /\ Lexes("Colon", <<Opener, Space>>, "Ready", <<OpenToken>>)
  /\ Lexes("Ready", <<Opener, Space>>, "Ready", <<OpenToken>>)
  /\ Lexes("Ready", <<Closer>>, "ValueEnd", <<CloseToken>>)
  /\ Lexes("ValueEnd", <<Closer>>, "ValueEnd", <<CloseToken>>)
<1>1. PICK space, colon, comma, open, close :
        space = Space /\ colon = ":" /\ comma = "," /\ open = Opener /\ close = Closer
  OBVIOUS
<1>2. space \in Chars /\ colon \in Chars /\ comma \in Chars /\ open \in Chars /\ close \in Chars
  BY <1>1, CharsAre, Zenon
<1>3. PICK spaces, colons, commas, opens, closes :
        spaces = {space} /\ colons = {colon} /\ commas = {comma} /\ opens = {open} /\ closes = {close}
  OBVIOUS
<1>4. space \in spaces /\ colon \in colons /\ comma \in commas /\ open \in opens /\ close \in closes
  BY <1>3
<1>5. /\ Edge("Ready", "Ready", spaces, "none") \in EdgesWithoutWait
      /\ Edge("KeyEnd", "Colon", colons, "none") \in EdgesWithoutWait
      /\ Edge("Colon", "Colon", spaces, "none") \in EdgesWithoutWait
      /\ Edge("ValueEnd", "ValueEnd", spaces, "none") \in EdgesWithoutWait
      /\ Edge("ValueEnd", "Ready", commas, "none") \in EdgesWithoutWait
      /\ Edge("Colon", "Ready", opens, "bracket") \in EdgesWithoutWait
      /\ Edge("Ready", "Ready", opens, "bracket") \in EdgesWithoutWait
      /\ Edge("Ready", "ValueEnd", closes, "bracket") \in EdgesWithoutWait
      /\ Edge("ValueEnd", "ValueEnd", closes, "bracket") \in EdgesWithoutWait
  BY <1>1, <1>3, EdgesAre
<1>6. Lexes("Ready", <<space>>, "Ready", <<>>)
  BY <1>2, <1>4, <1>5, LexesSilently
<1>7. Lexes("KeyEnd", <<colon>>, "Colon", <<>>)
  BY <1>2, <1>4, <1>5, LexesSilently
<1>8. Lexes("Colon", <<space>>, "Colon", <<>>)
  BY <1>2, <1>4, <1>5, LexesSilently
<1>9. Lexes("ValueEnd", <<space>>, "ValueEnd", <<>>)
  BY <1>2, <1>4, <1>5, LexesSilently
<1>10. Lexes("ValueEnd", <<comma>>, "Ready", <<>>)
  BY <1>2, <1>4, <1>5, LexesSilently
<1>11. Lexes("Colon", <<open>>, "Ready", <<Token("bracket", <<open>>)>>)
  BY <1>2, <1>4, <1>5, LexesBracket
<1>12. Lexes("Ready", <<open>>, "Ready", <<Token("bracket", <<open>>)>>)
  BY <1>2, <1>4, <1>5, LexesBracket
<1>13. Lexes("Ready", <<close>>, "ValueEnd", <<Token("bracket", <<close>>)>>)
  BY <1>2, <1>4, <1>5, LexesBracket
<1>14. Lexes("ValueEnd", <<close>>, "ValueEnd", <<Token("bracket", <<close>>)>>)
  BY <1>2, <1>4, <1>5, LexesBracket
<1>15. <<colon>> \o <<space>> = <<colon, space>> /\ <<comma>> \o <<space>> = <<comma, space>>
       /\ <<open>> \o <<space>> = <<open, space>>
  BY TwoChars
<1>16. Lexes("KeyEnd", <<colon, space>>, "Colon", <<>>)
  BY <1>7, <1>8, <1>15, LexesNothingMore
<1>17. Lexes("ValueEnd", <<comma, space>>, "Ready", <<>>)
  BY <1>6, <1>10, <1>15, LexesNothingMore
<1>18. Lexes("Colon", <<open, space>>, "Ready", <<Token("bracket", <<open>>)>>)
  BY <1>6, <1>11, <1>15, LexesNothingMore
<1>19. Lexes("Ready", <<open, space>>, "Ready", <<Token("bracket", <<open>>)>>)
  BY <1>6, <1>12, <1>15, LexesNothingMore
<1>20. Token("bracket", <<open>>) = OpenToken /\ Token("bracket", <<close>>) = CloseToken
  BY <1>1, Zenon DEF OpenToken, CloseToken
<1> QED
  BY <1>1, <1>9, <1>13, <1>14, <1>16, <1>17, <1>18, <1>19, <1>20, Zenon

LEMMA TokensTyped ==
  /\ OpenToken \in TokensOf(Chars) /\ CloseToken \in TokensOf(Chars)
  /\ \A w \in Seq(Chars) : KeyToken(w) \in TokensOf(Chars) /\ ValueToken(w) \in TokensOf(Chars)
<1>1. PICK open, close : open = Opener /\ close = Closer
  OBVIOUS
<1>2. open \in Chars /\ close \in Chars
  BY <1>1, CharsAre, Zenon
<1>3. <<open>> \in Seq(Chars) /\ <<close>> \in Seq(Chars)
  BY <1>2
<1>4. Token("bracket", <<open>>) \in TokensOf(Chars) /\ Token("bracket", <<close>>) \in TokensOf(Chars)
  BY <1>3 DEF Token, TokensOf
<1>5. \A w \in Seq(Chars) : KeyToken(w) \in TokensOf(Chars) /\ ValueToken(w) \in TokensOf(Chars)
  BY DEF Token, TokensOf, KeyToken, ValueToken
<1> QED
  BY <1>1, <1>4, <1>5, Zenon DEF OpenToken, CloseToken

Comma == <<",", Space>>
Colon == <<":", Space>>
Opening2 == <<Opener, Space>>
Blank == <<Space>>

\* An entry may be followed by a comma, or by the end of its domain.
LexesEntry(text, ts) ==
  /\ text \in Seq(Chars) /\ ts \in Seq(TokensOf(Chars))
  /\ Lexes("Ready", text \o Comma, "Ready", ts)
  /\ Lexes("Ready", text \o Blank, "ValueEnd", ts)

LEMMA LexesKeyColon ==
  ASSUME NEW w, PlainText(w)
  PROVE  Lexes("Ready", Quoted(w) \o Colon, "Colon", <<KeyToken(w)>>)
<1>1. Lexes("Ready", Quoted(w), "KeyEnd", <<KeyToken(w)>>)
  BY LexesKey DEF KeyToken
<1>2. Lexes("KeyEnd", Colon, "Colon", <<>>)
  BY LexesBetween DEF Colon
<1> QED
  BY <1>1, <1>2, LexesNothingMore

\* A value that is written as a string, or as a word.
PlainValue(v) ==
  /\ Proper(v) /\ PlainText(v.text) /\ v.kind # "empty"

\* A number or a truth value is written as one word.
LEMMA WordsAreText == Words \subseteq Seq(Chars)
<1>1. PICK V, C : V = ValueChars /\ C = Chars
  OBVIOUS
<1>2. V \subseteq C
  BY <1>1, CharsAre
<1>3. Seq(V) \subseteq Seq(C)
  BY <1>2
<1> QED
  BY <1>1, <1>3 DEF Words

LEMMA NumberIsWord ==
  ASSUME NEW v, Proper(v), v.kind \in {"integer", "real", "bool"}
  PROVE  ValueText(v) \in Words
<1>1. v.text \in Words
  BY DEF Proper
<1>2. Printed(v.text) \in Words
  BY <1>1, ConfigAssumption DEF Printed
<1> QED
  BY <1>1, <1>2 DEF ValueText

LEMMA ValueTextIsWord ==
  ASSUME NEW v, PlainValue(v), v.kind # "string"
  PROVE  ValueText(v) \in Seq(ValueChars) /\ ValueText(v) # <<>> /\ ValueText(v) \in Seq(Chars)
<1>1. Proper(v) /\ v.kind \in {"integer", "real", "bool"}
  BY DEF PlainValue, Proper
<1>2. ValueText(v) \in Words
  BY <1>1, NumberIsWord
<1> QED
  BY <1>2, WordsAreText DEF Words

LEMMA LexesValue ==
  ASSUME NEW v, PlainValue(v)
  PROVE  LET word == ValueText(v)
         IN  /\ word \in Seq(Chars)
             /\ Lexes("Colon", word \o Comma, "Ready", <<ValueToken(word)>>)
             /\ Lexes("Colon", word \o Blank, "ValueEnd", <<ValueToken(word)>>)
<1>1. PICK word, token : word = ValueText(v) /\ token = ValueToken(word)
  OBVIOUS
<1>2. Lexes("ValueEnd", Comma, "Ready", <<>>) /\ Lexes("ValueEnd", Blank, "ValueEnd", <<>>)
  BY LexesBetween DEF Comma, Blank
<1>3. CASE v.kind = "string"
  <2>1. word = Quoted(v.text)
    BY <1>1, <1>3 DEF ValueText
  <2>2. PlainText(v.text)
    BY DEF PlainValue
  <2>3. PICK w : w = v.text
    OBVIOUS
  <2>4. Lexes("Colon", Quoted(w), "ValueEnd", <<Token("value", Quoted(w))>>)
    BY <2>2, <2>3, LexesString
  <2>5. Lexes("Colon", word, "ValueEnd", <<token>>)
    BY <1>1, <2>1, <2>3, <2>4 DEF ValueToken
  <2>6. Lexes("Colon", word \o Comma, "Ready", <<token>>) /\ Lexes("Colon", word \o Blank, "ValueEnd", <<token>>)
    BY <1>2, <2>5, LexesNothingMore
  <2> QED
    BY <1>1, <2>5, <2>6 DEF Lexes
<1>4. CASE v.kind # "string"
  <2>1. word \in Seq(ValueChars) /\ word # <<>> /\ word \in Seq(Chars)
    BY <1>1, <1>4, ValueTextIsWord
  <2>2. PICK comma, space, commas, spaces, others :
          /\ comma = "," /\ space = Space /\ commas = {comma} /\ spaces = {space}
          /\ others = Text \ ValueChars
    OBVIOUS
  <2>3. /\ comma \in others /\ space \in others /\ comma \in commas /\ space \in spaces
        /\ comma \in Chars /\ space \in Chars
    <3>1. comma \in Text /\ comma \notin ValueChars /\ space \in Text /\ space \notin ValueChars
      BY <2>2, CharsAre, Zenon DEF Text, Punctuation
    <3> QED
      BY <2>2, <3>1, TextIsChars
  <2>4. /\ Edge("ValueEnd", "Ready", commas, "none") \in EdgesWithoutWait
        /\ Edge("ValueEnd", "ValueEnd", spaces, "none") \in EdgesWithoutWait
    BY <2>2, EdgesAre
  <2>5. Lexes("Colon", word \o <<comma>>, "Ready", <<token>>)
    BY <1>1, <2>1, <2>2, <2>3, <2>4, LexesWord DEF ValueToken
  <2>6. Lexes("Colon", word \o <<space>>, "ValueEnd", <<token>>)
    BY <1>1, <2>1, <2>2, <2>3, <2>4, LexesWord DEF ValueToken
  <2>7. Lexes("Ready", <<space>>, "Ready", <<>>)
    <3>1. Edge("Ready", "Ready", spaces, "none") \in EdgesWithoutWait
      BY <2>2, EdgesAre
    <3>2. space \in Chars
      BY <2>2, <2>3
    <3> QED
      BY <2>3, <3>1, <3>2, LexesSilently
  <2>8. Lexes("Colon", (word \o <<comma>>) \o <<space>>, "Ready", <<token>>)
    BY <2>5, <2>7, LexesNothingMore
  <2>9. (word \o <<comma>>) \o <<space>> = word \o <<comma, space>>
    <3>1. <<comma>> \in Seq(Chars) /\ <<space>> \in Seq(Chars)
      <4>1. comma \in Chars /\ space \in Chars
        BY <2>2, <2>3
      <4> QED
        BY <4>1
    <3>4. PICK p, q, C : p = <<comma>> /\ q = <<space>> /\ C = Chars
      OBVIOUS
    <3>5. word \in Seq(C) /\ p \in Seq(C) /\ q \in Seq(C)
      BY <2>1, <3>1, <3>4
    <3>6. (word \o p) \o q = word \o (p \o q)
      BY ONLY <3>5, ConcatConcat
    <3>2. (word \o <<comma>>) \o <<space>> = word \o (<<comma>> \o <<space>>)
      BY <3>4, <3>6
    <3>3. <<comma>> \o <<space>> = <<comma, space>>
      BY TwoChars
    <3> QED
      BY <3>2, <3>3
  <2>10. <<comma, space>> = Comma /\ <<space>> = Blank
    BY <2>2 DEF Comma, Blank
  <2> QED
    BY <1>1, <2>1, <2>6, <2>8, <2>9, <2>10
<1> QED
  BY <1>3, <1>4

\* A setting on its line.
LEMMA LexesSetting ==
  ASSUME NEW w, PlainText(w), NEW v, PlainValue(v)
  PROVE  LexesEntry((Quoted(w) \o Colon) \o ValueText(v), <<KeyToken(w)>> \o <<ValueToken(ValueText(v))>>)
<1>1. PICK k, word, ts, us, C :
        /\ k = Quoted(w) \o Colon /\ word = ValueText(v) /\ ts = <<KeyToken(w)>>
        /\ us = <<ValueToken(word)>> /\ C = Chars
  OBVIOUS
<1>2. Lexes("Ready", k, "Colon", ts)
  BY <1>1, LexesKeyColon
<1>3. /\ word \in Seq(Chars)
      /\ Lexes("Colon", word \o Comma, "Ready", us)
      /\ Lexes("Colon", word \o Blank, "ValueEnd", us)
  BY <1>1, LexesValue
<1>4. Lexes("Ready", k \o (word \o Comma), "Ready", ts \o us)
  BY <1>2, <1>3, LexesThen
<1>5. Lexes("Ready", k \o (word \o Blank), "ValueEnd", ts \o us)
  BY <1>2, <1>3, LexesThen
<1>6. k \in Seq(C) /\ word \in Seq(C) /\ Comma \in Seq(C) /\ Blank \in Seq(C)
  <2>1. Lexes("ValueEnd", Comma, "Ready", <<>>) /\ Lexes("ValueEnd", Blank, "ValueEnd", <<>>)
    BY LexesBetween DEF Comma, Blank
  <2> QED
    BY <1>1, <1>2, <1>3, <2>1 DEF Lexes
<1>7. (k \o word) \o Comma = k \o (word \o Comma) /\ (k \o word) \o Blank = k \o (word \o Blank)
  <2>1. PICK p, q : p = Comma /\ q = Blank
    OBVIOUS
  <2>2. k \in Seq(C) /\ word \in Seq(C) /\ p \in Seq(C) /\ q \in Seq(C)
    BY <1>6, <2>1
  <2>3. (k \o word) \o p = k \o (word \o p)
    BY ONLY <2>2, ConcatConcat
  <2>4. (k \o word) \o q = k \o (word \o q)
    BY ONLY <2>2, ConcatConcat
  <2> QED
    BY <2>1, <2>3, <2>4
<1>8. k \o word \in Seq(Chars) /\ ts \o us \in Seq(TokensOf(Chars))
  BY <1>1, <1>4, <1>6, ConcatProperties DEF Lexes
<1>9. LexesEntry(k \o word, ts \o us)
  BY <1>4, <1>5, <1>7, <1>8 DEF LexesEntry
<1> QED
  BY <1>1, <1>9

\* A domain, from its entries.
LEMMA LexesDomain ==
  ASSUME NEW head, NEW hs, Lexes("Ready", head, "Ready", hs),
         NEW at \in {"Ready", "ValueEnd"}, NEW body, NEW ts, Lexes("Ready", body, at, ts)
  PROVE  Lexes("Ready", (head \o body) \o <<Closer>>, "ValueEnd", (hs \o ts) \o <<CloseToken>>)
<1>1. Lexes(at, <<Closer>>, "ValueEnd", <<CloseToken>>)
  BY LexesBetween
<1>2. Lexes("Ready", head \o body, at, hs \o ts)
  BY LexesThen
<1>3. PICK x, us, c, cs : x = head \o body /\ us = hs \o ts /\ c = <<Closer>> /\ cs = <<CloseToken>>
  OBVIOUS
<1>4. Lexes("Ready", x \o c, "ValueEnd", us \o cs)
  BY <1>1, <1>2, <1>3, LexesThen
<1> QED
  BY <1>3, <1>4

LEMMA LexesHead ==
  ASSUME NEW w, PlainText(w)
  PROVE  Lexes("Ready", (Quoted(w) \o Colon) \o Opening2, "Ready", <<KeyToken(w)>> \o <<OpenToken>>)
<1>1. PICK k, ts, us : k = Quoted(w) \o Colon /\ ts = <<KeyToken(w)>> /\ us = <<OpenToken>>
  OBVIOUS
<1>2. Lexes("Ready", k, "Colon", ts)
  BY <1>1, LexesKeyColon
<1>3. Lexes("Colon", Opening2, "Ready", us)
  BY <1>1, LexesBetween DEF Opening2
<1>4. Lexes("Ready", k \o Opening2, "Ready", ts \o us)
  BY <1>2, <1>3, LexesThen
<1> QED
  BY <1>1, <1>4

LEMMA LexesDomainEntry ==
  ASSUME NEW text, NEW ts, Lexes("Ready", text, "ValueEnd", ts)
  PROVE  LexesEntry(text, ts)
<1>1. Lexes("ValueEnd", Comma, "Ready", <<>>) /\ Lexes("ValueEnd", Blank, "ValueEnd", <<>>)
  BY LexesBetween DEF Comma, Blank
<1>2. Lexes("Ready", text \o Comma, "Ready", ts) /\ Lexes("Ready", text \o Blank, "ValueEnd", ts)
  BY <1>1, LexesNothingMore
<1> QED
  BY <1>2 DEF LexesEntry, Lexes

-----------------------------------------------------------------------------
(* The parser takes the tokens as it takes their parts.                    *)

RunsBy(C, h, s, ts, u) ==
  /\ h \in [0..Len(ts) -> Parsing(C)]
  /\ h[0] = s /\ h[Len(ts)] = u
  /\ \A i \in 1..Len(ts) : h[i] = Take(h[i - 1], ts[i])

LEMMA RunStates ==
  ASSUME NEW C, NEW s \in Parsing(C), NEW ts \in Seq(TokensOf(C))
  PROVE  \E h : RunsBy(C, h, s, ts, Run(s, ts))
<1>1. PICK h \in [0..Len(ts) -> Parsing(C)] :
        h[0] = s /\ (\A i \in 1..Len(ts) : h[i] = Take(h[i - 1], ts[i])) /\ Run(s, ts) = h[Len(ts)]
  BY ParserRuns
<1>2. RunsBy(C, h, s, ts, Run(s, ts))
  BY <1>1 DEF RunsBy
<1> QED
  BY <1>2

LEMMA RunParses ==
  ASSUME NEW C, NEW s \in Parsing(C), NEW ts \in Seq(TokensOf(C))
  PROVE  Run(s, ts) \in Parsing(C)
<1>1. PICK h : RunsBy(C, h, s, ts, Run(s, ts))
  BY RunStates, Zenon
<1>2. Len(ts) \in 0..Len(ts)
  BY LenProperties
<1> QED
  BY <1>1, <1>2 DEF RunsBy

LEMMA RunConcat ==
  ASSUME NEW C, NEW s \in Parsing(C), NEW v \in Seq(TokensOf(C)), NEW w \in Seq(TokensOf(C))
  PROVE  Run(s, v \o w) = Run(Run(s, v), w)
<1>1. PICK m, n, x, u, T : m = Len(v) /\ n = Len(w) /\ x = v \o w /\ u = Run(s, v) /\ T = TokensOf(C)
  OBVIOUS
<1>2. /\ x \in Seq(T) /\ Len(x) = m + n /\ m \in Nat /\ n \in Nat
      /\ \A i \in 1..m : x[i] = v[i]
      /\ \A i \in 1..n : x[m + i] = w[i]
  BY <1>1, ConcatIs
<1>a. PICK g : RunsBy(C, g, s, v, u)
  BY <1>1, RunStates, Zenon
<1>3. /\ g \in [0..m -> Parsing(C)]
      /\ g[0] = s /\ (\A i \in 1..m : g[i] = Take(g[i - 1], v[i])) /\ u = g[m]
  BY <1>1, <1>a DEF RunsBy
<1>4. u \in Parsing(C)
  BY <1>2, <1>3
<1>b. PICK h : RunsBy(C, h, u, w, Run(u, w))
  BY <1>4, RunStates, Zenon
<1>5. /\ h \in [0..n -> Parsing(C)]
      /\ h[0] = u /\ (\A i \in 1..n : h[i] = Take(h[i - 1], w[i])) /\ Run(u, w) = h[n]
  BY <1>1, <1>b DEF RunsBy
<1>c. PICK k : RunsBy(C, k, s, x, Run(s, x))
  BY <1>1, <1>2, RunStates, Zenon
<1>6. /\ k \in [0..m + n -> Parsing(C)]
      /\ k[0] = s /\ (\A i \in 1..m + n : k[i] = Take(k[i - 1], x[i])) /\ Run(s, x) = k[m + n]
  BY <1>2, <1>c DEF RunsBy
<1>7. PICK P : P = {i \in 0..m : k[i] = g[i]}
  OBVIOUS
<1>8. \A i \in 0..m : i \in P
  <2>1. 0 \in P
    BY <1>2, <1>3, <1>6, <1>7
  <2>2. ASSUME NEW i \in 1..m, i - 1 \in P PROVE i \in P
    <3>1. i \in 0..m /\ i \in 1..m + n
      BY <1>2
    <3> QED
      BY <1>2, <1>3, <1>6, <1>7, <2>2, <3>1
  <2> QED
    BY <1>2, <2>1, <2>2, StepByStep
<1>9. PICK Q : Q = {i \in 0..n : k[m + i] = h[i]}
  OBVIOUS
<1>10. \A i \in 0..n : i \in Q
  <2>1. 0 \in Q
    <3>1. m \in 0..m /\ m + 0 = m /\ 0 \in 0..n
      BY <1>2
    <3> QED
      BY <1>3, <1>5, <1>7, <1>8, <1>9, <3>1
  <2>2. ASSUME NEW i \in 1..n, i - 1 \in Q PROVE i \in Q
    <3>1. i \in 0..n /\ m + i \in 1..m + n /\ (m + i) - 1 = m + (i - 1)
      BY <1>2
    <3>2. k[m + (i - 1)] = h[i - 1]
      BY <1>9, <2>2
    <3>3. k[m + i] = Take(k[(m + i) - 1], x[m + i])
      BY <1>6, <3>1
    <3> QED
      BY <1>2, <1>5, <1>9, <3>1, <3>2, <3>3
  <2> QED
    BY <1>2, <2>1, <2>2, StepByStep
<1>11. k[m + n] = h[n]
  <2>1. n \in 0..n
    BY <1>2
  <2> QED
    BY <1>9, <1>10, <2>1
<1> QED
  BY <1>1, <1>5, <1>6, <1>11

LEMMA RunOne ==
  ASSUME NEW C, NEW s \in Parsing(C), NEW token \in TokensOf(C)
  PROVE  Run(s, <<token>>) = Take(s, token)
<1>1. PICK w : w = <<token>>
  OBVIOUS
<1>2. w \in Seq(TokensOf(C)) /\ Len(w) = 1 /\ w[1] = token
  BY <1>1
<1>3. PICK h : RunsBy(C, h, s, w, Run(s, w))
  BY <1>2, RunStates, Zenon
<1>4. /\ h \in [0..1 -> Parsing(C)]
      /\ h[0] = s /\ (\A i \in 1..1 : h[i] = Take(h[i - 1], w[i])) /\ Run(s, w) = h[1]
  BY <1>2, <1>3 DEF RunsBy
<1>5. h[1] = Take(h[0], w[1])
  BY <1>4
<1> QED
  BY <1>1, <1>2, <1>4, <1>5

LEMMA RunNone ==
  ASSUME NEW C, NEW s \in Parsing(C)
  PROVE  Run(s, <<>>) = s
<1>1. PICK w : w = <<>>
  OBVIOUS
<1>2. w \in Seq(TokensOf(C)) /\ Len(w) = 0
  BY <1>1, EmptySeq
<1>3. PICK h : RunsBy(C, h, s, w, Run(s, w))
  BY <1>2, RunStates, Zenon
<1> QED
  BY <1>1, <1>2, <1>3 DEF RunsBy

-----------------------------------------------------------------------------
(* What the parser makes of the writer's tokens.                           *)

\* A state by its fields.
In(t, stack, brackets, key) ==
  [tree |-> t, stack |-> stack, brackets |-> brackets, key |-> key, end |-> "going"]

LEMMA InIs ==
  ASSUME NEW t, NEW stack, NEW b, NEW key
  PROVE  LET s == In(t, stack, b, key)
         IN  /\ s.tree = t /\ s.stack = stack /\ s.brackets = b /\ s.key = key /\ s.end = "going"
             /\ Going(s) /\ Top(s) = Last(stack)
BY DEF In, Going, Top

LEMMA BracesAre ==
  /\ \A w : /\ KeyToken(w).type = "key" /\ KeyToken(w).text = w
            /\ ValueToken(w).type = "value" /\ ValueToken(w).text = w
  /\ OpenToken.type = "bracket" /\ CloseToken.type = "bracket"
  /\ OpenToken.text = <<Opener>> /\ CloseToken.text = <<Closer>>
BY DEF KeyToken, ValueToken, OpenToken, CloseToken, Token

LEMMA BracesDiffer == Opener # Closer
BY Zenon DEF Opener, Closer

LEMMA TakesKey ==
  ASSUME NEW t, NEW stack, stack # <<>>, NEW b, NEW w
  PROVE  Take(In(t, stack, b, <<>>), KeyToken(w)) = In(t, stack, b, <<w>>)
<1>1. PICK s, token : s = In(t, stack, b, <<>>) /\ token = KeyToken(w)
  OBVIOUS
<1>2. Going(s) /\ s.key = <<>> /\ s.stack # <<>>
  BY <1>1, InIs
<1>3. token.type = "key" /\ token.type # "bracket" /\ token.type # "value" /\ token.text = w
  BY <1>1, BracesAre
<1>4. Take(s, token) = [s EXCEPT !.key = <<token.text>>]
  BY <1>2, <1>3, Zenon DEF Take
<1> QED
  BY <1>1, <1>3, <1>4 DEF In

LEMMA TakesValue ==
  ASSUME NEW t, NEW stack, t[Last(stack)] = Domain, NEW b, NEW w, NEW x
  PROVE  Take(In(t, stack, b, <<w>>), ValueToken(x))
           = In(AddChild(t, Append(Last(stack), w), Convert(x)), stack, b, <<>>)
<1>1. PICK s, token : s = In(t, stack, b, <<w>>) /\ token = ValueToken(x)
  OBVIOUS
<1>2. Going(s) /\ s.key # <<>> /\ s.key[1] = w /\ s.tree = t /\ Top(s) = Last(stack)
  BY <1>1, InIs
<1>3. token.type = "value" /\ token.type # "bracket" /\ token.text = x
  BY <1>1, BracesAre
<1>4. Take(s, token) = Member(s, token)
  BY <1>2, Zenon DEF Take
<1>5. PICK path, u : path = Append(Last(stack), w) /\ u = AddChild(t, path, Convert(x))
  OBVIOUS
<1>6. Member(s, token) = [[s EXCEPT !.key = <<>>] EXCEPT !.tree = u]
  <2>1. s.tree[Top(s)] = Domain
    BY <1>2
  <2>2. PICK after : after = [s EXCEPT !.key = <<>>]
    OBVIOUS
  <2>3. after.tree = t
    BY <1>1, <2>2 DEF In
  <2>4. Member(s, token) = [after EXCEPT !.tree = AddChild(@, Append(Top(s), s.key[1]), Convert(token.text))]
    BY <1>3, <2>1, <2>2, Zenon DEF Member
  <2>5. Append(Top(s), s.key[1]) = path
    BY <1>2, <1>5
  <2> QED
    BY <1>3, <1>5, <2>2, <2>3, <2>4, <2>5
<1>7. [[s EXCEPT !.key = <<>>] EXCEPT !.tree = u] = In(u, stack, b, <<>>)
  <2>1. PICK after : after = [s EXCEPT !.key = <<>>]
    OBVIOUS
  <2>2. after = In(t, stack, b, <<>>)
    BY <1>1, <2>1 DEF In
  <2>3. [after EXCEPT !.tree = u] = In(u, stack, b, <<>>)
    BY <2>2 DEF In
  <2> QED
    BY <2>1, <2>3
<1> QED
  BY <1>1, <1>4, <1>5, <1>6, <1>7

LEMMA TakesOpen ==
  ASSUME NEW t, NEW stack, t[Last(stack)] = Domain, NEW b, NEW w
  PROVE  LET path == Append(Last(stack), w)
         IN  Take(In(t, stack, b, <<w>>), OpenToken)
               = In(AddChild(t, path, Domain), Append(stack, path), b + 1, <<>>)
<1>1. PICK s, token : s = In(t, stack, b, <<w>>) /\ token = OpenToken
  OBVIOUS
<1>2. Going(s) /\ s.key # <<>> /\ s.key[1] = w /\ s.tree = t /\ Top(s) = Last(stack)
  BY <1>1, InIs
<1>3. token.type = "bracket"
  BY <1>1, BracesAre
<1>4. Take(s, token) = Member(s, token)
  BY <1>2, Zenon DEF Take
<1>5. PICK path, u, next : path = Append(Last(stack), w) /\ u = AddChild(t, path, Domain)
                           /\ next = Append(stack, path)
  OBVIOUS
<1>6. PICK after : after = [s EXCEPT !.key = <<>>]
  OBVIOUS
<1>7. after = In(t, stack, b, <<>>)
  BY <1>1, <1>6 DEF In
<1>8. Member(s, token) = [after EXCEPT !.brackets = @ + 1,
                            !.stack = Append(@, Append(Top(s), s.key[1])),
                            !.tree = AddChild(@, Append(Top(s), s.key[1]), Domain)]
  <2>1. s.tree[Top(s)] = Domain
    BY <1>2
  <2> QED
    BY <1>3, <1>6, <2>1, Zenon DEF Member
<1>9. Append(Top(s), s.key[1]) = path
  BY <1>2, <1>5
<1>10. Member(s, token) = [after EXCEPT !.brackets = @ + 1, !.stack = Append(@, path),
                                        !.tree = AddChild(@, path, Domain)]
  BY <1>8, <1>9
<1>11. Member(s, token) = In(u, next, b + 1, <<>>)
  BY <1>5, <1>7, <1>10 DEF In
<1> QED
  BY <1>1, <1>4, <1>5, <1>11

LEMMA TakesClose ==
  ASSUME NEW t, NEW stack, stack # <<>>, NEW b
  PROVE  LET u == Take(In(t, stack, b, <<>>), CloseToken)
         IN  /\ b # 1 => u = In(t, Front(stack), b - 1, <<>>)
             /\ b = 1 => u.tree = t /\ u.end = "done"
<1>1. PICK s, token : s = In(t, stack, b, <<>>) /\ token = CloseToken
  OBVIOUS
<1>2. Going(s) /\ s.key = <<>> /\ s.stack # <<>> /\ s.brackets = b
  BY <1>1, InIs
<1>3. token.type = "bracket" /\ token.type # "key" /\ token.type # "value"
  BY <1>1, BracesAre
<1>4. Take(s, token) = Brace(s, token)
  BY <1>2, <1>3, Zenon DEF Take
<1>5. token.text # <<"{">>
  <2>1. PICK open, close : open = Opener /\ close = Closer
    OBVIOUS
  <2>2. open # close /\ token.text = <<close>>
    BY <1>1, <2>1, BracesAre, BracesDiffer
  <2>3. <<open>> # <<close>>
    BY <2>2
  <2> QED
    BY <2>1, <2>2, <2>3, Zenon DEF Opener
<1>6. PICK rest : rest = Front(stack)
  OBVIOUS
<1>7. Brace(s, token) = [s EXCEPT !.brackets = @ - 1, !.stack = Front(@),
                                  !.end = IF s.brackets = 1 THEN "done" ELSE "going"]
  BY <1>5, Zenon DEF Brace
<1>8. Brace(s, token) = [tree |-> t, stack |-> rest, brackets |-> b - 1, key |-> <<>>,
                         end |-> IF b = 1 THEN "done" ELSE "going"]
  BY <1>1, <1>6, <1>7 DEF In
<1> QED
  BY <1>1, <1>4, <1>6, <1>8 DEF In

-----------------------------------------------------------------------------
(* The tokens of a part of a tree add this part.                           *)

\* A tree with a part of another.
Join(t, S, r) == [q \in DOMAIN t \cup S |-> IF q \in S THEN r[q] ELSE t[q]]

\* Whenever the parser is at this domain and none of the part is there yet, it
\* adds the part, and is where it was.
Adds(r, top, S, ts) ==
  /\ ts \in Seq(TokensOf(Chars))
  /\ \A t, stack, b :
       /\ In(t, stack, b, <<>>) \in Parsing(Chars) /\ stack # <<>> /\ Last(stack) = top
       /\ t[top] = Domain /\ b >= 1 /\ S \cap DOMAIN t = {}
       => Run(In(t, stack, b, <<>>), ts) = In(Join(t, S, r), stack, b, <<>>)

LEMMA ParsingIs ==
  ASSUME NEW t, NEW stack, NEW b, NEW key, In(t, stack, b, key) \in Parsing(Chars)
  PROVE  /\ Rooted(t) /\ stack \in Seq(Seq(Seq(Chars))) /\ b \in Int
         /\ t \in TreesOf(Chars) /\ DOMAIN t \subseteq Seq(Seq(Chars))
         /\ t = [q \in DOMAIN t |-> t[q]]
         /\ stack # <<>> => Last(stack) \in DOMAIN t
<1>1. PICK s, C : s = In(t, stack, b, key) /\ C = Chars
  OBVIOUS
<1>2. s.tree = t /\ s.stack = stack /\ s.brackets = b
  BY <1>1, InIs
<1>3. s \in Parsing(C)
  BY <1>1
<1>4. /\ Rooted(t) /\ stack \in Seq(Seq(Seq(C))) /\ b \in Int /\ t \in TreesOf(C)
      /\ \A i \in 1..Len(stack) : stack[i] \in DOMAIN t
  BY <1>2, <1>3 DEF Parsing
<1>5. stack # <<>> => Last(stack) \in DOMAIN t
  <2>1. stack # <<>> => Len(stack) \in 1..Len(stack)
    BY <1>4, EmptySeq
  <2> QED
    BY <1>4, <2>1 DEF Last
<1>6. DOMAIN t \subseteq Seq(Seq(C))
  <2>1. PICK P, V : P = Seq(Seq(C)) /\ V = ValuesOf(C)
    OBVIOUS
  <2>2. t \in Trees(P, V)
    BY <1>4, <2>1 DEF TreesOf
  <2>3. PICK S \in SUBSET P : t \in [S -> V]
    BY <2>2 DEF Trees
  <2> QED
    BY <2>1, <2>3
<1>7. t = [q \in DOMAIN t |-> t[q]]
  BY <1>4 DEF Rooted
<1> QED
  BY <1>1, <1>4, <1>5, <1>6, <1>7

LEMMA JoinTwice ==
  ASSUME NEW t, NEW S, NEW R, NEW r
  PROVE  Join(Join(t, S, r), R, r) = Join(t, S \cup R, r)
<1>1. PICK u : u = Join(t, S, r)
  OBVIOUS
<1>2. DOMAIN u = DOMAIN t \cup S /\ (\A q \in S : u[q] = r[q]) /\ (\A q \in DOMAIN t \ S : u[q] = t[q])
  BY <1>1 DEF Join
<1>3. Join(u, R, r) = [q \in DOMAIN u \cup R |-> IF q \in R THEN r[q] ELSE u[q]]
  BY DEF Join
<1>4. Join(t, S \cup R, r) = [q \in DOMAIN t \cup (S \cup R) |-> IF q \in S \cup R THEN r[q] ELSE t[q]]
  BY DEF Join
<1>5. DOMAIN u \cup R = DOMAIN t \cup (S \cup R)
  BY <1>2
<1>6. \A q \in DOMAIN u \cup R :
        (IF q \in R THEN r[q] ELSE u[q]) = (IF q \in S \cup R THEN r[q] ELSE t[q])
  BY <1>2
<1>7. Join(u, R, r) = Join(t, S \cup R, r)
  BY <1>3, <1>4, <1>5, <1>6
<1> QED
  BY <1>1, <1>7

LEMMA AddsNothing ==
  ASSUME NEW r, NEW top
  PROVE  Adds(r, top, {}, <<>>)
<1>1. <<>> \in Seq(TokensOf(Chars))
  OBVIOUS
<1>2. ASSUME NEW t, NEW stack, NEW b, In(t, stack, b, <<>>) \in Parsing(Chars)
      PROVE  Run(In(t, stack, b, <<>>), <<>>) = In(Join(t, {}, r), stack, b, <<>>)
  <2>1. t = [q \in DOMAIN t |-> t[q]]
    BY <1>2, ParsingIs
  <2>2. Join(t, {}, r) = [q \in DOMAIN t |-> t[q]]
    BY DEF Join
  <2>3. Join(t, {}, r) = t
    BY <2>1, <2>2
  <2> QED
    BY <1>2, <2>3, RunNone
<1> QED
  BY <1>1, <1>2 DEF Adds

LEMMA AddsThen ==
  ASSUME NEW r, NEW top, NEW S, NEW R, S \cap R = {}, NEW ts, NEW us,
         Adds(r, top, S, ts), Adds(r, top, R, us)
  PROVE  Adds(r, top, S \cup R, ts \o us)
<1>1. ts \in Seq(TokensOf(Chars)) /\ us \in Seq(TokensOf(Chars)) /\ ts \o us \in Seq(TokensOf(Chars))
  BY ConcatProperties DEF Adds
<1>2. ASSUME NEW t, NEW stack, NEW b,
             In(t, stack, b, <<>>) \in Parsing(Chars), stack # <<>>, Last(stack) = top,
             t[top] = Domain, b >= 1, (S \cup R) \cap DOMAIN t = {}
      PROVE  Run(In(t, stack, b, <<>>), ts \o us) = In(Join(t, S \cup R, r), stack, b, <<>>)
  <2>1. PICK s, u, v : s = In(t, stack, b, <<>>) /\ u = Join(t, S, r) /\ v = In(u, stack, b, <<>>)
    OBVIOUS
  <2>2. Run(s, ts) = v
    <3>1. S \cap DOMAIN t = {}
      BY <1>2
    <3> QED
      BY <1>2, <2>1, <3>1 DEF Adds
  <2>3. v \in Parsing(Chars)
    BY <1>1, <1>2, <2>1, <2>2, RunParses
  <2>4. Last(stack) \in DOMAIN t
    BY <1>2, ParsingIs
  <2>5. u[top] = Domain /\ R \cap DOMAIN u = {}
    <3>1. DOMAIN u = DOMAIN t \cup S /\ (\A q \in DOMAIN t \ S : u[q] = t[q])
      BY <2>1 DEF Join
    <3>2. top \in DOMAIN t \ S
      BY <1>2, <2>4
    <3> QED
      BY <1>2, <3>1, <3>2
  <2>6. Run(v, us) = In(Join(u, R, r), stack, b, <<>>)
    BY <1>2, <2>1, <2>3, <2>5 DEF Adds
  <2>7. Join(u, R, r) = Join(t, S \cup R, r)
    BY <2>1, JoinTwice
  <2>8. Run(s, ts \o us) = Run(v, us)
    BY <1>1, <1>2, <2>1, <2>2, RunConcat
  <2> QED
    BY <2>1, <2>6, <2>7, <2>8
<1> QED
  BY <1>1, <1>2 DEF Adds

\* Two tokens, and then more.
LEMMA RunTwo ==
  ASSUME NEW s \in Parsing(Chars), NEW a \in TokensOf(Chars), NEW b \in TokensOf(Chars)
  PROVE  Run(s, <<a>> \o <<b>>) = Take(Take(s, a), b)
<1>1. PICK p, q, u : p = <<a>> /\ q = <<b>> /\ u = Take(s, a)
  OBVIOUS
<1>2. p \in Seq(TokensOf(Chars)) /\ q \in Seq(TokensOf(Chars))
  BY <1>1
<1>3. u \in Parsing(Chars)
  BY <1>1, TakeIs
<1>4. Run(s, p) = u /\ Run(u, q) = Take(u, b)
  BY <1>1, <1>3, RunOne
<1>5. Run(s, p \o q) = Run(Run(s, p), q)
  BY <1>2, RunConcat
<1> QED
  BY <1>1, <1>4, <1>5

LEMMA PathIs ==
  ASSUME NEW path, path \in Seq(Seq(Chars)), path # <<>>
  PROVE  /\ Last(path) \in Seq(Chars) /\ Parent(path) \in Seq(Seq(Chars))
         /\ Append(Parent(path), Last(path)) = path /\ Len(Parent(path)) = Len(path) - 1
<1>1. PICK N, top, w : N = Seq(Chars) /\ top = Parent(path) /\ w = Last(path)
  OBVIOUS
<1>2. Len(path) \in Nat \ {0} /\ top \in Seq(N) /\ Len(top) = Len(path) - 1
      /\ \A i \in 1..Len(path) - 1 : top[i] = path[i]
  BY <1>1, FrontIs DEF Parent
<1>3. w = path[Len(path)] /\ w \in N
  BY <1>1, <1>2, ElementOfSeq DEF Last
<1>4. PICK q : q = Append(top, w)
  OBVIOUS
<1>5. q \in Seq(N) /\ Len(q) = Len(path) /\ \A i \in 1..Len(path) : q[i] = path[i]
  <2>1. /\ q \in Seq(N) /\ Len(q) = Len(top) + 1
        /\ q[Len(top) + 1] = w /\ \A i \in 1..Len(top) : q[i] = top[i]
    BY <1>2, <1>3, <1>4, AppendProperties
  <2>2. Len(q) = Len(path) /\ q[Len(path)] = path[Len(path)]
    BY <1>2, <1>3, <2>1
  <2>3. \A i \in 1..Len(path) - 1 : q[i] = path[i]
    BY <1>2, <2>1
  <2>4. \A i \in 1..Len(path) : i \in 1..Len(path) - 1 \/ i = Len(path)
    BY <1>2
  <2> QED
    BY <2>1, <2>2, <2>3, <2>4
<1>6. q = path
  BY <1>1, <1>5, SeqEqual
<1> QED
  BY <1>1, <1>2, <1>3, <1>4, <1>6

LEMMA AddsSetting ==
  ASSUME NEW r, NEW path, path \in Seq(Seq(Chars)), path # <<>>, NEW word \in Seq(Chars),
         r[path] = Convert(word)
  PROVE  Adds(r, Parent(path), {path}, <<KeyToken(Last(path))>> \o <<ValueToken(word)>>)
<1>1. PICK top, w, a, b : top = Parent(path) /\ w = Last(path) /\ a = KeyToken(w) /\ b = ValueToken(word)
  OBVIOUS
<1>2. w \in Seq(Chars) /\ Append(top, w) = path
  BY <1>1, PathIs
<1>3. a \in TokensOf(Chars) /\ b \in TokensOf(Chars)
  BY <1>1, <1>2, TokensTyped
<1>4. <<a>> \o <<b>> \in Seq(TokensOf(Chars))
  BY <1>3
<1>5. ASSUME NEW t, NEW stack, NEW n,
             In(t, stack, n, <<>>) \in Parsing(Chars), stack # <<>>, Last(stack) = top,
             t[top] = Domain, {path} \cap DOMAIN t = {}
      PROVE  Run(In(t, stack, n, <<>>), <<a>> \o <<b>>) = In(Join(t, {path}, r), stack, n, <<>>)
  <2>1. PICK s, u : s = In(t, stack, n, <<>>) /\ u = In(t, stack, n, <<w>>)
    OBVIOUS
  <2>2. Take(s, a) = u
    BY <1>1, <1>5, <2>1, TakesKey
  <2>3. Take(u, b) = In(AddChild(t, Append(Last(stack), w), Convert(word)), stack, n, <<>>)
    BY <1>1, <1>5, <2>1, TakesValue
  <2>4. AddChild(t, path, Convert(word)) = Join(t, {path}, r)
    <3>1. AddChild(t, path, Convert(word)) = Put(t, path, r[path])
      BY <1>5 DEF AddChild
    <3>2. Put(t, path, r[path]) = [q \in DOMAIN t \cup {path} |-> IF q = path THEN r[path] ELSE t[q]]
      BY DEF Put
    <3>3. Join(t, {path}, r) = [q \in DOMAIN t \cup {path} |-> IF q \in {path} THEN r[q] ELSE t[q]]
      BY DEF Join
    <3>4. Put(t, path, r[path]) = Join(t, {path}, r)
      BY <3>2, <3>3
    <3> QED
      BY <3>1, <3>4
  <2>5. Run(s, <<a>> \o <<b>>) = Take(Take(s, a), b)
    BY <1>3, <1>5, <2>1, RunTwo
  <2> QED
    BY <1>2, <1>5, <2>1, <2>2, <2>3, <2>4, <2>5
<1>6. Adds(r, top, {path}, <<a>> \o <<b>>)
  BY <1>4, <1>5 DEF Adds
<1> QED
  BY <1>1, <1>6

LEMMA FrontOfStack ==
  ASSUME NEW N, NEW stack \in Seq(N), NEW x \in N
  PROVE  /\ Append(stack, x) \in Seq(N) /\ Append(stack, x) # <<>>
         /\ Last(Append(stack, x)) = x /\ Front(Append(stack, x)) = stack
<1>1. PICK q : q = Append(stack, x)
  OBVIOUS
<1>2. q \in Seq(N) /\ q # <<>> /\ Front(q) = stack
  BY <1>1, FrontOfAppend
<1>3. Len(q) = Len(stack) + 1 /\ q[Len(stack) + 1] = x
  BY <1>1, AppendProperties
<1>4. Last(q) = x
  BY <1>3 DEF Last
<1> QED
  BY <1>1, <1>2, <1>4

LEMMA AddsDomain ==
  ASSUME NEW r, NEW path, path \in Seq(Seq(Chars)), path # <<>>, r[path] = Domain,
         NEW S, path \notin S, NEW ts, Adds(r, path, S, ts)
  PROVE  Adds(r, Parent(path), {path} \cup S,
              ((<<KeyToken(Last(path))>> \o <<OpenToken>>) \o ts) \o <<CloseToken>>)
<1>1. PICK top, w, a, b, c, T :
        /\ top = Parent(path) /\ w = Last(path) /\ a = KeyToken(w) /\ b = OpenToken /\ c = CloseToken
        /\ T = TokensOf(Chars)
  OBVIOUS
<1>2. w \in Seq(Chars) /\ Append(top, w) = path
  BY <1>1, PathIs
<1>3. a \in T /\ b \in T /\ c \in T /\ ts \in Seq(T)
  BY <1>1, <1>2, TokensTyped DEF Adds
<1>4. PICK head, all, close : head = <<a>> \o <<b>> /\ all = head \o ts /\ close = <<c>>
  OBVIOUS
<1>5. head \in Seq(T) /\ close \in Seq(T)
  BY <1>3, <1>4
<1>6. all \in Seq(T)
  BY <1>3, <1>4, <1>5, ConcatProperties
<1>7. all \o close \in Seq(T)
  BY <1>5, <1>6, ConcatProperties
<1>8. ASSUME NEW t, NEW stack, NEW n,
             In(t, stack, n, <<>>) \in Parsing(Chars), stack # <<>>, Last(stack) = top,
             t[top] = Domain, n >= 1, ({path} \cup S) \cap DOMAIN t = {}
      PROVE  Run(In(t, stack, n, <<>>), all \o close) = In(Join(t, {path} \cup S, r), stack, n, <<>>)
  <2>1. PICK s, u : s = In(t, stack, n, <<>>) /\ u = In(t, stack, n, <<w>>)
    OBVIOUS
  <2>2. Take(s, a) = u
    BY <1>1, <1>8, <2>1, TakesKey
  <2>3. PICK grown, next : grown = AddChild(t, path, Domain) /\ next = Append(stack, path)
    OBVIOUS
  <2>4. PICK v : v = In(grown, next, n + 1, <<>>)
    OBVIOUS
  <2>5. Take(u, b) = v
    <3>1. t[Last(stack)] = Domain
      BY <1>8
    <3>2. Append(Last(stack), w) = path
      BY <1>2, <1>8
    <3>3. LET p == Append(Last(stack), w)
          IN  Take(In(t, stack, n, <<w>>), OpenToken)
                = In(AddChild(t, p, Domain), Append(stack, p), n + 1, <<>>)
      BY <3>1, TakesOpen
    <3> QED
      BY <1>1, <2>1, <2>3, <2>4, <3>2, <3>3
  <2>7. s \in Parsing(Chars)
    BY <1>8, <2>1
  <2>6. Run(s, head) = v
    <3>1. a \in TokensOf(Chars) /\ b \in TokensOf(Chars)
      BY <1>1, <1>3
    <3>2. Run(s, <<a>> \o <<b>>) = Take(Take(s, a), b)
      BY <2>7, <3>1, RunTwo
    <3> QED
      BY <1>4, <2>2, <2>5, <3>2
  <2>8. v \in Parsing(Chars)
    BY <1>1, <1>5, <2>6, <2>7, RunParses
  <2>9. grown = Join(t, {path}, r)
    <3>1. grown = Put(t, path, Domain)
      BY <1>8, <2>3 DEF AddChild
    <3>2. Put(t, path, Domain) = [q \in DOMAIN t \cup {path} |-> IF q = path THEN Domain ELSE t[q]]
      BY DEF Put
    <3>3. Join(t, {path}, r) = [q \in DOMAIN t \cup {path} |-> IF q \in {path} THEN r[q] ELSE t[q]]
      BY DEF Join
    <3> QED
      BY <3>1, <3>2, <3>3
  <2>10. DOMAIN grown = DOMAIN t \cup {path} /\ grown[path] = Domain
    BY <2>9 DEF Join
  <2>11. next # <<>> /\ Last(next) = path /\ Front(next) = stack /\ n \in Int
    <3>1. PICK N : N = Seq(Seq(Chars))
      OBVIOUS
    <3>2. stack \in Seq(N) /\ path \in N /\ n \in Int
      BY <1>8, <3>1, ParsingIs
    <3> QED
      BY <2>3, <3>2, FrontOfStack
  <2>12. PICK full : full = Join(grown, S, r)
    OBVIOUS
  <2>13. Run(v, ts) = In(full, next, n + 1, <<>>)
    <3>1. n + 1 >= 1 /\ S \cap DOMAIN grown = {}
      BY <1>8, <2>10, <2>11
    <3> QED
      BY <2>4, <2>8, <2>10, <2>11, <2>12, <3>1 DEF Adds
  <2>14. full = Join(t, {path} \cup S, r)
    BY <2>9, <2>12, JoinTwice
  <2>15. PICK x : x = In(full, next, n + 1, <<>>)
    OBVIOUS
  <2>16. x \in Parsing(Chars)
    BY <1>1, <1>3, <2>8, <2>13, <2>15, RunParses
  <2>17. Take(x, c) = In(full, stack, n, <<>>)
    <3>1. PICK m : m = n + 1
      OBVIOUS
    <3>2. m # 1 /\ m - 1 = n
      BY <1>8, <2>11, <3>1
    <3>3. LET y == Take(In(full, next, m, <<>>), CloseToken)
          IN  m # 1 => y = In(full, Front(next), m - 1, <<>>)
      BY <2>11, TakesClose
    <3> QED
      BY <1>1, <2>11, <2>15, <3>1, <3>2, <3>3
  <2>18. Run(s, all) = x
    <3>1. Run(s, head \o ts) = Run(Run(s, head), ts)
      BY <1>1, <1>3, <1>5, <2>7, RunConcat
    <3> QED
      BY <1>4, <2>6, <2>13, <2>15, <3>1
  <2>19. Run(x, close) = Take(x, c)
    BY <1>1, <1>3, <1>4, <2>16, RunOne
  <2>20. Run(s, all \o close) = Run(Run(s, all), close)
    BY <1>1, <1>5, <1>6, <2>7, RunConcat
  <2> QED
    BY <2>1, <2>14, <2>17, <2>18, <2>19, <2>20
<1>9. Adds(r, top, {path} \cup S, all \o close)
  BY <1>1, <1>7, <1>8 DEF Adds
<1> QED
  BY <1>1, <1>4, <1>9

\* The whole tree, between its braces.
LEMMA BuildsAll ==
  ASSUME NEW r, r = [q \in DOMAIN r |-> r[q]], <<>> \in DOMAIN r, r[<<>>] = Domain,
         NEW ts, Adds(r, <<>>, DOMAIN r \ {<<>>}, ts)
  PROVE  LET built == Built((<<OpenToken>> \o ts) \o <<CloseToken>>)
         IN  built.tree = r /\ built.end = "done"
<1>1. PICK T, open, close, all : T = TokensOf(Chars) /\ open = OpenToken /\ close = CloseToken
                                 /\ all = (<<open>> \o ts) \o <<close>>
  OBVIOUS
<1>2. open \in T /\ close \in T /\ ts \in Seq(T)
  BY <1>1, TokensTyped DEF Adds
<1>3. PICK rest : rest = ts \o <<close>>
  OBVIOUS
<1>4. /\ all \in Seq(T) /\ all # <<>> /\ Head(all) = open /\ Tail(all) = rest /\ rest \in Seq(T)
  <2>1. <<open>> \in Seq(T) /\ <<close>> \in Seq(T)
    BY <1>2
  <2>2. all = <<open>> \o rest
    <3>1. PICK p, q : p = <<open>> /\ q = <<close>>
      OBVIOUS
    <3>2. p \in Seq(T) /\ q \in Seq(T) /\ ts \in Seq(T)
      BY <1>2, <2>1, <3>1
    <3>3. (p \o ts) \o q = p \o (ts \o q)
      BY ONLY <3>2, ConcatConcat
    <3> QED
      BY <1>1, <1>3, <3>1, <3>3
  <2>3. rest \in Seq(T)
    BY <1>2, <1>3, <2>1, ConcatProperties
  <2>4. all \in Seq(T) /\ Len(all) = Len(rest) + 1 /\ all[1] = open
        /\ \A i \in 1..Len(rest) : all[i + 1] = rest[i]
    BY <1>2, <2>2, <2>3
  <2>5. all # <<>>
    BY <2>3, <2>4
  <2>6. PICK tail : tail = Tail(all)
    OBVIOUS
  <2>7. tail \in Seq(T) /\ Len(tail) = Len(rest) /\ (\A i \in 1..Len(rest) : tail[i] = rest[i])
        /\ Head(all) = open
    BY <2>3, <2>4, <2>5, <2>6
  <2>8. tail = rest
    BY <2>3, <2>7, SeqEqual
  <2> QED
    BY <2>3, <2>4, <2>5, <2>6, <2>7, <2>8
<1>5. open = Token("bracket", <<"{">>)
  BY <1>1, Zenon DEF OpenToken, Opener
<1>6. PICK s, stack, root : s = Opened(1) /\ stack = <<<<>>>> /\ root = <<>>
  OBVIOUS
<1>7. Built(all) = Run(s, rest)
  <2>1. Opening(all) = 1
    BY <1>4, <1>5, Zenon DEF Opening
  <2>2. Built(all) = Run(Opened(Opening(all)),
                         IF all # <<>> /\ Head(all) = Token("bracket", <<"{">>) THEN Tail(all) ELSE all)
    BY Zenon DEF Built, Opened, Run
  <2> QED
    BY <1>4, <1>5, <1>6, <2>1, <2>2, Zenon
<1>8. s = In(EmptyTree, stack, 1, <<>>) /\ s \in Parsing(Chars)
  <2>1. s \in Parsing(Chars)
    BY <1>6, OpenedIs
  <2> QED
    BY <1>6, <2>1 DEF Opened, In
<1>9. stack # <<>> /\ Last(stack) = root /\ DOMAIN EmptyTree = {root} /\ EmptyTree[root] = Domain
  BY <1>6 DEF EmptyTree, Last
<1>10. PICK S : S = DOMAIN r \ {root}
  OBVIOUS
<1>11. Run(s, ts) = In(Join(EmptyTree, S, r), stack, 1, <<>>)
  <2>1. Adds(r, root, S, ts)
    BY <1>6, <1>10
  <2>2. S \cap DOMAIN EmptyTree = {}
    BY <1>9, <1>10
  <2>3. In(EmptyTree, stack, 1, <<>>) \in Parsing(Chars)
    BY <1>8
  <2> QED
    BY <1>8, <1>9, <2>1, <2>2, <2>3 DEF Adds
<1>12. Join(EmptyTree, S, r) = r
  <2>1. Join(EmptyTree, S, r) = [q \in DOMAIN EmptyTree \cup S |-> IF q \in S THEN r[q] ELSE EmptyTree[q]]
    BY DEF Join
  <2>2. DOMAIN EmptyTree \cup S = DOMAIN r
    BY <1>6, <1>9, <1>10
  <2>3. \A q \in DOMAIN r : (IF q \in S THEN r[q] ELSE EmptyTree[q]) = r[q]
    BY <1>6, <1>9, <1>10
  <2> QED
    BY <2>1, <2>2, <2>3
<1>13. PICK x : x = In(r, stack, 1, <<>>)
  OBVIOUS
<1>14. Run(s, ts) = x
  BY <1>11, <1>12, <1>13
<1>15. x \in Parsing(Chars)
  BY <1>1, <1>2, <1>8, <1>14, RunParses
<1>16. Run(s, rest) = Take(x, close)
  <2>1. PICK q : q = <<close>>
    OBVIOUS
  <2>2. q \in Seq(T)
    BY <1>2, <2>1
  <2>3. Run(s, ts \o q) = Run(Run(s, ts), q)
    BY <1>1, <1>2, <1>8, <2>2, RunConcat
  <2>4. Run(x, q) = Take(x, close)
    BY <1>1, <1>2, <1>15, <2>1, RunOne
  <2> QED
    BY <1>3, <1>14, <2>1, <2>3, <2>4
<1>17. Take(x, close).tree = r /\ Take(x, close).end = "done"
  <2>1. PICK n : n = 1
    OBVIOUS
  <2>2. LET u == Take(In(r, stack, n, <<>>), CloseToken) IN n = 1 => u.tree = r /\ u.end = "done"
    BY <1>9, TakesClose
  <2> QED
    BY <1>1, <1>13, <2>1, <2>2
<1> QED
  BY <1>1, <1>7, <1>16, <1>17

-----------------------------------------------------------------------------
(* A tree that can be written: finite, its names and values are text.      *)

Writable(t) ==
  /\ Rooted(t) /\ IsFiniteSet(DOMAIN t) /\ DOMAIN t \subseteq Seq(Seq(Chars))
  /\ \A path \in DOMAIN t : t[path] # Domain => Proper(t[path])
  /\ \E depth \in Nat : \A path \in DOMAIN t : Len(path) <= depth

LEMMA WritableIs ==
  ASSUME NEW t, Writable(t), NEW path \in DOMAIN t
  PROVE  /\ path \in Seq(Seq(Chars)) /\ Len(path) \in Nat /\ <<>> \in DOMAIN t /\ t[<<>>] = Domain
         /\ path # <<>> => Parent(path) \in DOMAIN t /\ t[Parent(path)] = Domain
BY LenProperties DEF Writable, Rooted, IsDomain

\* The sequence that is made of a finite set has its elements, each once.
LEMMA SetToSeqIs ==
  ASSUME NEW S, IsFiniteSet(S)
  PROVE  LET s == SetToSeq(S)
         IN  /\ s \in Seq(S) /\ \A i, j \in 1..Len(s) : s[i] = s[j] => i = j
             /\ \A x \in S : \E i \in 1..Len(s) : s[i] = x
<1>1. PICK n, D : n = Cardinality(S) /\ D = 1..n
  OBVIOUS
<1>2. n \in Nat /\ ExistsBijection(D, S)
  BY <1>1, FS_CardinalityType
<1>3. PICK f : f \in [D -> S] /\ IsInjective(f)
  BY <1>2 DEF ExistsBijection, Bijection, Injection
<1>4. PICK s : s = SetToSeq(S)
  OBVIOUS
<1>5. s = CHOOSE g \in [D -> S] : IsInjective(g)
  BY <1>1, <1>4 DEF SetToSeq
<1>6. s \in [D -> S] /\ IsInjective(s)
  BY <1>3, <1>5
<1>7. s \in Surjection(D, S)
  <2>1. s \in Injection(D, S)
    BY <1>6 DEF Injection
  <2>2. IsFiniteSet(D) /\ Cardinality(D) = n
    BY <1>1, <1>2, FS_Interval
  <2> QED
    BY <1>1, <2>1, <2>2, FS_Injection
<1>8. s \in Seq(S) /\ Len(s) = n
  BY <1>1, <1>2, <1>6
<1>9. \A x \in S : \E i \in D : s[i] = x
  BY <1>7 DEF Surjection
<1> QED
  BY <1>1, <1>4, <1>6, <1>8, <1>9 DEF IsInjective

\* The names of the children lead to them.
LEMMA NamesAre ==
  ASSUME NEW t, Writable(t), NEW path
  PROVE  LET names == Names(t, path)
         IN  /\ names \in Seq(Seq(Chars))
             /\ \A i, j \in 1..Len(names) : names[i] = names[j] => i = j
             /\ \A i \in 1..Len(names) :
                  LET child == Append(path, names[i])
                  IN  /\ child \in DOMAIN t /\ child # <<>>
                      /\ Parent(child) = path /\ Last(child) = names[i]
             /\ \A q \in DOMAIN t : q # <<>> /\ Parent(q) = path =>
                  \E i \in 1..Len(names) : Append(path, names[i]) = q
<1>1. PICK Q, f, L : /\ Q = {q \in DOMAIN t \ {<<>>} : Parent(q) = path}
                     /\ f = [q \in Q |-> Last(q)] /\ L = {Last(q) : q \in Q}
  OBVIOUS
<1>2. IsFiniteSet(L)
  <2>1. IsFiniteSet(Q)
    BY <1>1, FS_Subset DEF Writable
  <2>2. f \in Surjection(Q, L)
    BY <1>1 DEF Surjection
  <2> QED
    BY <2>1, <2>2, FS_Surjection
<1>3. PICK names : names = Names(t, path)
  OBVIOUS
<1>4. names = SetToSeq(L)
  BY <1>1, <1>3 DEF Names
<1>5. /\ names \in Seq(L) /\ \A i, j \in 1..Len(names) : names[i] = names[j] => i = j
      /\ \A x \in L : \E i \in 1..Len(names) : names[i] = x
  BY <1>2, <1>4, SetToSeqIs
<1>6. \A q \in Q : /\ q \in DOMAIN t /\ q # <<>> /\ Parent(q) = path /\ Last(q) \in Seq(Chars)
                   /\ Append(path, Last(q)) = q
  BY <1>1, PathIs DEF Writable
<1>7. L \subseteq Seq(Chars)
  BY <1>1, <1>6
<1>8. names \in Seq(Seq(Chars))
  BY <1>5, <1>7
<1>9. ASSUME NEW i \in 1..Len(names)
      PROVE  LET child == Append(path, names[i])
             IN  /\ child \in DOMAIN t /\ child # <<>>
                 /\ Parent(child) = path /\ Last(child) = names[i]
  <2>1. names[i] \in L
    BY <1>5, ElementOfSeq
  <2>2. PICK q \in Q : names[i] = Last(q)
    BY <1>1, <2>1
  <2> QED
    BY <1>6, <2>2
<1>10. ASSUME NEW q \in DOMAIN t, q # <<>>, Parent(q) = path
       PROVE  \E i \in 1..Len(names) : Append(path, names[i]) = q
  <2>1. q \in Q /\ Last(q) \in L
    BY <1>1, <1>10
  <2>2. PICK i \in 1..Len(names) : names[i] = Last(q)
    BY <1>5, <2>1
  <2> QED
    BY <1>6, <2>1, <2>2
<1> QED
  BY <1>3, <1>5, <1>8, <1>9, <1>10

LEMMA FlattenTyped ==
  ASSUME NEW T, NEW pieces \in Seq(Seq(T))
  PROVE  FlattenSeq(pieces) \in Seq(T)
<1>1. Len(pieces) \in Nat /\ (Len(pieces) = 0 => pieces = <<>>)
  BY EmptySeq, LenProperties
<1>2. CASE Len(pieces) = 0
  <2>1. <<>> \in Seq(T)
    OBVIOUS
  <2> QED
    BY <1>1, <1>2, <2>1, FlattenNone
<1>3. CASE Len(pieces) # 0
  <2>1. PICK n : n = Len(pieces)
    OBVIOUS
  <2>2. PICK h \in [0..n -> Seq(T)] : Flattens(h, pieces, n)
    BY <1>1, <1>3, <2>1, FlattenRuns
  <2>3. n \in 0..n
    BY <1>1, <2>1
  <2> QED
    BY <2>2, <2>3 DEF Flattens
<1> QED
  BY <1>2, <1>3

LEMMA QuotedIsText ==
  ASSUME NEW w \in Seq(Chars)
  PROVE  Quoted(w) \in Seq(Chars)
<1>1. PICK pieces : pieces = [i \in DOMAIN w |->
                       IF w[i] \in {Quote, Backslash} THEN <<Backslash, w[i]>> ELSE <<w[i]>>]
  OBVIOUS
<1>2. \A i \in DOMAIN w : w[i] \in Chars
  OBVIOUS
<1>3. DOMAIN w = 1..Len(w) /\ Len(w) \in Nat
  BY LenProperties
<1>4. ASSUME NEW i \in DOMAIN w PROVE pieces[i] \in Seq(Chars)
  <2>1. Backslash \in Chars /\ w[i] \in Chars
    BY <1>2, CharsAre
  <2>2. <<Backslash, w[i]>> \in Seq(Chars) /\ <<w[i]>> \in Seq(Chars)
    BY <2>1
  <2> QED
    BY <1>1, <2>2
<1>5. pieces \in Seq(Seq(Chars))
  BY <1>1, <1>3, <1>4
<1>6. PICK inner, quote : inner = FlattenSeq(pieces) /\ quote = <<Quote>>
  OBVIOUS
<1>7. inner \in Seq(Chars) /\ quote \in Seq(Chars)
  <2>1. inner \in Seq(Chars)
    BY <1>5, <1>6, FlattenTyped
  <2>2. PICK c : c = Quote
    OBVIOUS
  <2>3. c \in Chars
    BY <2>2, CharsAre
  <2>4. <<c>> \in Seq(Chars)
    BY <2>3
  <2> QED
    BY <1>6, <2>1, <2>2, <2>4
<1>8. Quoted(w) = (quote \o inner) \o quote
  BY <1>1, <1>6 DEF Quoted
<1> QED
  BY <1>7, <1>8, ConcatProperties

-----------------------------------------------------------------------------
(* The writer: the text of a path from the texts of its children.          *)

KeyText(path) == IF path = <<>> \/ Last(path) = <<>> THEN <<>> ELSE Quoted(Last(path)) \o Colon
ChildText(t, f, path, i) ==
  f[Append(path, Names(t, path)[i])] \o (IF i < Len(Names(t, path)) THEN Comma ELSE Blank)
ChildTexts(t, f, path) == [i \in DOMAIN Names(t, path) |-> ChildText(t, f, path, i)]
Entry(t, f, path) ==
  IF IsDomain(t, path)
  THEN ((KeyText(path) \o Opening2) \o FlattenSeq(ChildTexts(t, f, path))) \o <<Closer>>
  ELSE (Quoted(Last(path)) \o Colon) \o ValueText(t[path])
Writes(t, f) == f = [path \in DOMAIN t |-> Entry(t, f, path)]

LEMMA PunctuationIsText ==
  /\ Comma \in Seq(Chars) /\ Colon \in Seq(Chars) /\ Blank \in Seq(Chars) /\ Opening2 \in Seq(Chars)
  /\ <<Closer>> \in Seq(Chars) /\ <<>> \in Seq(Chars)
<1>1. PICK comma, colon, space, open, close :
        comma = "," /\ colon = ":" /\ space = Space /\ open = Opener /\ close = Closer
  OBVIOUS
<1>2. comma \in Chars /\ colon \in Chars /\ space \in Chars /\ open \in Chars /\ close \in Chars
  BY <1>1, CharsAre, Zenon
<1>3. /\ <<comma, space>> \in Seq(Chars) /\ <<colon, space>> \in Seq(Chars) /\ <<space>> \in Seq(Chars)
      /\ <<open, space>> \in Seq(Chars) /\ <<close>> \in Seq(Chars) /\ <<>> \in Seq(Chars)
  BY <1>2
<1> QED
  BY <1>1, <1>3, Zenon DEF Comma, Colon, Blank, Opening2

LEMMA EntryIsText ==
  ASSUME NEW t, Writable(t), NEW f \in [DOMAIN t -> Seq(Chars)], NEW path \in DOMAIN t
  PROVE  Entry(t, f, path) \in Seq(Chars)
<1>1. path \in Seq(Seq(Chars)) /\ t[<<>>] = Domain
  BY WritableIs
<1>2. path # <<>> => Last(path) \in Seq(Chars)
  BY <1>1, PathIs
<1>3. path # <<>> => Quoted(Last(path)) \o Colon \in Seq(Chars)
  BY <1>2, QuotedIsText, PunctuationIsText, ConcatProperties
<1>4. CASE IsDomain(t, path)
  <2>1. PICK names : names = Names(t, path)
    OBVIOUS
  <2>2. /\ names \in Seq(Seq(Chars)) /\ DOMAIN names = 1..Len(names) /\ Len(names) \in Nat
        /\ \A i \in 1..Len(names) : Append(path, names[i]) \in DOMAIN t
    BY <2>1, NamesAre, LenProperties
  <2>3. PICK pieces : pieces = ChildTexts(t, f, path)
    OBVIOUS
  <2>4. ASSUME NEW i \in 1..Len(names) PROVE ChildText(t, f, path, i) \in Seq(Chars)
    <3>1. f[Append(path, names[i])] \in Seq(Chars)
      BY <2>2
    <3> QED
      BY <2>1, <3>1, PunctuationIsText, ConcatProperties DEF ChildText
  <2>5. pieces = [i \in 1..Len(names) |-> ChildText(t, f, path, i)]
    BY <2>1, <2>2, <2>3 DEF ChildTexts
  <2>6. pieces \in Seq(Seq(Chars))
    BY <2>2, <2>4, <2>5
  <2>7. PICK body, key : body = FlattenSeq(pieces) /\ key = KeyText(path)
    OBVIOUS
  <2>8. body \in Seq(Chars) /\ key \in Seq(Chars)
    BY <1>3, <2>6, <2>7, FlattenTyped, PunctuationIsText DEF KeyText
  <2>9. key \o Opening2 \in Seq(Chars)
    BY <2>8, PunctuationIsText, ConcatProperties
  <2>10. (key \o Opening2) \o body \in Seq(Chars)
    BY <2>8, <2>9, ConcatProperties
  <2>11. ((key \o Opening2) \o body) \o <<Closer>> \in Seq(Chars)
    BY <2>10, PunctuationIsText, ConcatProperties
  <2> QED
    BY <1>4, <2>3, <2>7, <2>11 DEF Entry
<1>5. CASE ~IsDomain(t, path)
  <2>1. path # <<>> /\ t[path] # Domain
    BY <1>1, <1>5 DEF IsDomain
  <2>2. Proper(t[path])
    BY <2>1 DEF Writable
  <2>3. PICK value : value = ValueText(t[path])
    OBVIOUS
  <2>4. value \in Seq(Chars)
    <3>1. PICK v : v = t[path]
      OBVIOUS
    <3>2. Proper(v) /\ value = ValueText(v)
      BY <2>2, <2>3, <3>1
    <3>3. CASE v.kind = "string"
      BY <3>2, <3>3, QuotedIsText DEF ValueText, Proper
    <3>4. CASE v.kind = "empty"
      <4>1. v.text = <<>> /\ v.kind # "string" /\ v.kind # "real"
        BY <3>2, <3>4 DEF Proper, Empty
      <4>2. value = <<>>
        BY <3>2, <4>1 DEF ValueText
      <4> QED
        BY <4>2
    <3>5. CASE v.kind \in {"integer", "real", "bool"}
      BY <3>2, <3>5, NumberIsWord, WordsAreText
    <3> QED
      BY <3>2, <3>3, <3>4, <3>5 DEF Proper
  <2> QED
    BY <1>3, <1>5, <2>1, <2>3, <2>4, ConcatProperties DEF Entry
<1> QED
  BY <1>4, <1>5

\* It depends on the texts of the children alone.
LEMMA EntryFromChildren ==
  ASSUME NEW t, Writable(t), NEW path \in DOMAIN t, NEW f, NEW g,
         \A q \in DOMAIN t : q # <<>> /\ Parent(q) = path => f[q] = g[q]
  PROVE  Entry(t, f, path) = Entry(t, g, path)
<1>1. PICK names : names = Names(t, path)
  OBVIOUS
<1>2. /\ DOMAIN names = 1..Len(names)
      /\ \A i \in 1..Len(names) : LET q == Append(path, names[i])
                                  IN  q \in DOMAIN t /\ q # <<>> /\ Parent(q) = path
  BY <1>1, NamesAre, LenProperties
<1>3. ASSUME NEW i \in DOMAIN names PROVE ChildText(t, f, path, i) = ChildText(t, g, path, i)
  <2>1. f[Append(path, names[i])] = g[Append(path, names[i])]
    BY <1>2
  <2> QED
    BY <1>1, <2>1 DEF ChildText
<1>4. ChildTexts(t, f, path) = ChildTexts(t, g, path)
  BY <1>1, <1>3 DEF ChildTexts
<1> QED
  BY <1>4 DEF Entry

LEMMA ChildIsDeeper ==
  ASSUME NEW t, Writable(t), NEW q \in DOMAIN t, q # <<>>
  PROVE  Len(q) = Len(Parent(q)) + 1 /\ Len(Parent(q)) \in Nat /\ Len(q) \in Nat
<1>1. q \in Seq(Seq(Chars))
  BY WritableIs
<1>2. Len(Parent(q)) = Len(q) - 1 /\ Parent(q) \in Seq(Seq(Chars)) /\ Len(q) \in Nat
  BY <1>1, PathIs, LenProperties
<1> QED
  BY <1>2, LenProperties

\* The texts exist: from the deepest paths upwards.
LEMMA TextsExist ==
  ASSUME NEW t, Writable(t)
  PROVE  \E f \in [DOMAIN t -> Seq(Chars)] : Writes(t, f)
<1>1. PICK depth \in Nat : \A path \in DOMAIN t : Len(path) <= depth
  BY DEF Writable
<1>2. PICK n, F : n = depth + 1 /\ F = [DOMAIN t -> Seq(Chars)]
  OBVIOUS
<1> DEFINE Up(f, k) == \A path \in DOMAIN t : Len(path) >= n - k => f[path] = Entry(t, f, path)
           P == {k \in 0..n : \E f \in F : Up(f, k)}
<1>3. 0 \in P
  <2>1. PICK f : f = [path \in DOMAIN t |-> <<>>]
    OBVIOUS
  <2>2. f \in F
    BY <1>2, <2>1, PunctuationIsText
  <2>3. Up(f, 0)
    BY <1>1, <1>2, WritableIs
  <2> QED
    BY <1>2, <2>2, <2>3
<1>4. ASSUME NEW k \in 1..n, k - 1 \in P PROVE k \in P
  <2>1. PICK f \in F : Up(f, k - 1)
    BY <1>4
  <2>2. PICK m : m = n - k
    OBVIOUS
  <2>3. m \in Nat /\ n - (k - 1) = m + 1
    BY <1>2, <2>2
  <2>4. PICK g : g = [path \in DOMAIN t |-> IF Len(path) = m THEN Entry(t, f, path) ELSE f[path]]
    OBVIOUS
  <2>5. \A path \in DOMAIN t : Entry(t, f, path) \in Seq(Chars)
    BY <1>2, EntryIsText
  <2>6. g \in F
    BY <1>2, <2>4, <2>5
  <2>7. ASSUME NEW path \in DOMAIN t, Len(path) >= m PROVE g[path] = Entry(t, g, path)
    <3>1. ASSUME NEW q \in DOMAIN t, q # <<>>, Parent(q) = path PROVE f[q] = g[q]
      <4>1. Len(q) > m
        BY <2>3, <2>7, <3>1, ChildIsDeeper
      <4> QED
        BY <2>3, <2>4, <4>1
    <3>2. Entry(t, f, path) = Entry(t, g, path)
      BY <3>1, EntryFromChildren
    <3>3. Len(path) \in Nat
      BY WritableIs
    <3>4. f[path] = Entry(t, f, path) \/ Len(path) = m
      BY <2>1, <2>3, <2>7, <3>3
    <3> QED
      BY <2>4, <3>2, <3>4
  <2>8. Up(g, k)
    BY <2>2, <2>7
  <2> QED
    BY <2>6, <2>8
<1>5. n \in P
  <2> HIDE DEF P
  <2>1. \A k \in 0..n : k \in P
    BY <1>2, <1>3, <1>4, StepByStep
  <2> QED
    BY <1>2, <2>1
<1>6. PICK f \in F : Up(f, n)
  BY <1>5
<1>7. \A path \in DOMAIN t : f[path] = Entry(t, f, path)
  BY <1>2, <1>6, WritableIs
<1>8. f = [path \in DOMAIN t |-> f[path]]
  BY <1>2
<1>9. f = [path \in DOMAIN t |-> Entry(t, f, path)]
  BY <1>7, <1>8
<1> QED
  BY <1>2, <1>9 DEF Writes

\* And there is one text for a path.
LEMMA TextsAreUnique ==
  ASSUME NEW t, Writable(t), NEW f, Writes(t, f), NEW g, Writes(t, g)
  PROVE  f = g
<1>1. PICK depth \in Nat : \A path \in DOMAIN t : Len(path) <= depth
  BY DEF Writable
<1>2. PICK n : n = depth + 1
  OBVIOUS
<1> DEFINE P == {k \in 0..n : \A path \in DOMAIN t : Len(path) >= n - k => f[path] = g[path]}
<1>3. 0 \in P
  BY <1>1, <1>2, WritableIs
<1>4. ASSUME NEW k \in 1..n, k - 1 \in P PROVE k \in P
  <2>1. ASSUME NEW path \in DOMAIN t, Len(path) >= n - k PROVE f[path] = g[path]
    <3>1. ASSUME NEW q \in DOMAIN t, q # <<>>, Parent(q) = path PROVE f[q] = g[q]
      <4>1. Len(q) >= n - (k - 1)
        BY <1>2, <2>1, <3>1, ChildIsDeeper
      <4> QED
        BY <1>4, <4>1
    <3>2. Entry(t, f, path) = Entry(t, g, path)
      BY <3>1, EntryFromChildren
    <3>3. f[path] = Entry(t, f, path) /\ g[path] = Entry(t, g, path)
      BY Zenon DEF Writes
    <3> QED
      BY <3>2, <3>3
  <2> QED
    BY <2>1
<1>5. n \in P
  <2> HIDE DEF P
  <2>1. \A k \in 0..n : k \in P
    BY <1>2, <1>3, <1>4, StepByStep
  <2> QED
    BY <1>2, <2>1
<1>6. \A path \in DOMAIN t : f[path] = g[path]
  BY <1>2, <1>5, WritableIs
<1>7. f = [path \in DOMAIN t |-> f[path]] /\ g = [path \in DOMAIN t |-> g[path]]
  <2>1. f = [path \in DOMAIN t |-> Entry(t, f, path)]
    BY DEF Writes
  <2>2. g = [path \in DOMAIN t |-> Entry(t, g, path)]
    BY DEF Writes
  <2> QED
    BY <2>1, <2>2
<1> QED
  BY <1>6, <1>7

\* What is written of a tree is the text of its root.
LEMMA WrittenIs ==
  ASSUME NEW t, Writable(t)
  PROVE  \E f \in [DOMAIN t -> Seq(Chars)] : Writes(t, f) /\ Written(t) = f[<<>>]
<1>1. PICK f \in [DOMAIN t -> Seq(Chars)] : Writes(t, f)
  BY TextsExist
<1>2. PICK g : g = CHOOSE h : Writes(t, h)
  OBVIOUS
<1>3. Writes(t, g)
  BY <1>1, <1>2
<1>4. g = f
  BY <1>1, <1>3, TextsAreUnique
<1>5. t # NoRoot
  <2>1. <<>> \in DOMAIN t
    BY DEF Writable, Rooted, IsDomain
  <2>2. DOMAIN NoRoot = {}
    BY DEF NoRoot
  <2> QED
    BY <2>1, <2>2
<1>6. Written(t) = g[<<>>]
  BY <1>2, <1>5, Zenon DEF Written, Writes, Entry, KeyText, ChildTexts, ChildText, Comma, Colon, Blank, Opening2, Opener, Closer
<1> QED
  BY <1>1, <1>4, <1>6

-----------------------------------------------------------------------------
(* The part of a tree below a path.                                        *)

Sub(t, path) == {q \in DOMAIN t : Len(path) <= Len(q) /\ SubSeq(q, 1, Len(path)) = path}

\* The first names of a path of the tree lead to a domain.
LEMMA PrefixesAreDomains ==
  ASSUME NEW t, Writable(t), NEW q \in DOMAIN t, NEW i \in 0..Len(q), i # Len(q)
  PROVE  SubSeq(q, 1, i) \in DOMAIN t /\ t[SubSeq(q, 1, i)] = Domain
<1>1. q \in Seq(Seq(Chars)) /\ Len(q) \in Nat
  BY WritableIs
<1>2. PICK n, N : n = Len(q) /\ N = Seq(Chars)
  OBVIOUS
<1> DEFINE P == {k \in 0..n : SubSeq(q, 1, n - k) \in DOMAIN t
                              /\ (k # 0 => t[SubSeq(q, 1, n - k)] = Domain)}
<1>3. 0 \in P
  <2>1. SubSeq(q, 1, n) = q
    BY <1>1, <1>2, NoneAndAll
  <2>2. n - 0 = n /\ 0 \in 0..n
    BY <1>1, <1>2
  <2> QED
    BY <2>1, <2>2
<1>4. ASSUME NEW k \in 1..n, k - 1 \in P PROVE k \in P
  <2>1. PICK m : m = n - (k - 1)
    OBVIOUS
  <2>2. m \in 1..Len(q) /\ m - 1 = n - k
    BY <1>1, <1>2, <2>1
  <2>3. PICK p : p = SubSeq(q, 1, m)
    OBVIOUS
  <2>4. p # <<>> /\ Front(p) = SubSeq(q, 1, m - 1)
    BY <1>1, <1>2, <2>2, <2>3, PrefixIs
  <2>5. p \in DOMAIN t
    BY <1>4, <2>1, <2>3
  <2>6. Parent(p) \in DOMAIN t /\ t[Parent(p)] = Domain
    BY <2>4, <2>5, WritableIs
  <2> QED
    BY <2>2, <2>4, <2>6 DEF Parent
<1>5. \A k \in 0..n : k \in P
  <2> HIDE DEF P
  <2> QED
    BY <1>1, <1>2, <1>3, <1>4, StepByStep
<1>6. n - i \in 0..n /\ n - i # 0 /\ n - (n - i) = i
  BY <1>1, <1>2
<1> QED
  BY <1>5, <1>6

LEMMA SubIs ==
  ASSUME NEW t, Writable(t), NEW path \in DOMAIN t
  PROVE  /\ path \in Sub(t, path)
         /\ t[path] # Domain => Sub(t, path) = {path}
         /\ \A q \in Sub(t, path) : q # path =>
              \E c \in DOMAIN t : c # <<>> /\ Parent(c) = path /\ q \in Sub(t, c)
<1>1. path \in Seq(Seq(Chars)) /\ Len(path) \in Nat
  BY WritableIs
<1>2. path \in Sub(t, path)
  BY <1>1, NoneAndAll DEF Sub
<1>3. PICK m : m = Len(path)
  OBVIOUS
<1>4. ASSUME NEW q \in Sub(t, path), q # path
      PROVE  q \in DOMAIN t /\ q \in Seq(Seq(Chars)) /\ Len(q) \in Nat /\ m < Len(q)
             /\ SubSeq(q, 1, m) = path
  <2>1. q \in DOMAIN t /\ m <= Len(q) /\ SubSeq(q, 1, m) = path
    BY <1>3 DEF Sub
  <2>2. q \in Seq(Seq(Chars)) /\ Len(q) \in Nat
    BY <2>1, WritableIs
  <2>3. m # Len(q)
    BY <1>4, <2>1, <2>2, NoneAndAll
  <2> QED
    BY <1>1, <1>3, <2>1, <2>2, <2>3
<1>5. ASSUME NEW q \in Sub(t, path), q # path PROVE t[path] = Domain
  <2>1. m \in 0..Len(q) /\ m # Len(q) /\ q \in DOMAIN t /\ SubSeq(q, 1, m) = path
    BY <1>1, <1>3, <1>4, <1>5
  <2> QED
    BY <2>1, PrefixesAreDomains
<1>6. ASSUME NEW q \in Sub(t, path), q # path
      PROVE  \E c \in DOMAIN t : c # <<>> /\ Parent(c) = path /\ q \in Sub(t, c)
  <2>1. PICK j : j = m + 1
    OBVIOUS
  <2>2. /\ j \in 1..Len(q) /\ j - 1 = m /\ q \in DOMAIN t /\ q \in Seq(Seq(Chars))
        /\ Len(q) \in Nat /\ SubSeq(q, 1, m) = path
    BY <1>1, <1>3, <1>4, <1>6, <2>1
  <2>3. PICK c : c = SubSeq(q, 1, j)
    OBVIOUS
  <2>4. c # <<>> /\ Front(c) = SubSeq(q, 1, j - 1) /\ Len(c) = j
    BY <2>2, <2>3, PrefixIs
  <2>5. Parent(c) = path
    BY <2>2, <2>4 DEF Parent
  <2>6. c \in DOMAIN t
    <3>1. CASE j = Len(q)
      BY <2>2, <2>3, <3>1, NoneAndAll
    <3>2. CASE j # Len(q)
      <4>1. j \in 0..Len(q)
        BY <2>2
      <4> QED
        BY <2>2, <2>3, <3>2, <4>1, PrefixesAreDomains
    <3> QED
      BY <3>1, <3>2
  <2>7. q \in Sub(t, c)
    BY <2>2, <2>3, <2>4 DEF Sub
  <2> QED
    BY <2>4, <2>5, <2>6, <2>7
<1>7. t[path] # Domain => Sub(t, path) = {path}
  BY <1>2, <1>5
<1> QED
  BY <1>2, <1>6, <1>7

\* What is below a child is below the path, and not below another child.
LEMMA SubOfChild ==
  ASSUME NEW t, Writable(t), NEW c \in DOMAIN t, c # <<>>
  PROVE  /\ Sub(t, c) \subseteq Sub(t, Parent(c)) \ {Parent(c)}
         /\ \A d \in DOMAIN t : d # <<>> /\ Parent(d) = Parent(c) /\ d # c =>
              Sub(t, c) \cap Sub(t, d) = {}
<1>1. PICK path : path = Parent(c)
  OBVIOUS
<1>2. Len(c) = Len(path) + 1 /\ Len(path) \in Nat
  BY <1>1, ChildIsDeeper
<1>3. ASSUME NEW q \in Sub(t, c) PROVE q \in Sub(t, path) /\ q # path
  <2>1. q \in DOMAIN t /\ Len(c) <= Len(q) /\ SubSeq(q, 1, Len(c)) = c
    BY DEF Sub
  <2>2. q \in Seq(Seq(Chars)) /\ Len(q) \in Nat
    BY <2>1, WritableIs
  <2>3. PICK j : j = Len(c)
    OBVIOUS
  <2>4. j \in 1..Len(q) /\ j - 1 = Len(path)
    BY <1>2, <2>1, <2>2, <2>3
  <2>5. Front(SubSeq(q, 1, j)) = SubSeq(q, 1, j - 1)
    BY <2>2, <2>4, PrefixIs
  <2>6. SubSeq(q, 1, Len(path)) = path
    BY <1>1, <2>1, <2>3, <2>4, <2>5 DEF Parent
  <2>7. Len(path) < Len(q)
    BY <1>2, <2>1, <2>2
  <2> QED
    BY <1>2, <2>1, <2>2, <2>6, <2>7 DEF Sub
<1>4. ASSUME NEW d \in DOMAIN t, d # <<>>, Parent(d) = path, d # c PROVE Sub(t, c) \cap Sub(t, d) = {}
  <2>1. Len(d) = Len(c)
    BY <1>2, <1>4, ChildIsDeeper
  <2> QED
    BY <1>4, <2>1 DEF Sub
<1> QED
  BY <1>1, <1>3, <1>4

LEMMA SubOfRoot ==
  ASSUME NEW t, Writable(t)
  PROVE  Sub(t, <<>>) = DOMAIN t
<1>1. ASSUME NEW q \in DOMAIN t PROVE q \in Sub(t, <<>>)
  <2>1. q \in Seq(Seq(Chars)) /\ Len(q) \in Nat
    BY WritableIs
  <2>2. SubSeq(q, 1, 0) = <<>>
    BY <2>1, NoneAndAll
  <2>3. PICK none : none = <<>>
    OBVIOUS
  <2>4. Len(none) = 0
    BY <2>3
  <2>5. q \in Sub(t, none)
    BY <2>1, <2>2, <2>3, <2>4 DEF Sub
  <2> QED
    BY <2>3, <2>5
<1> QED
  BY <1>1 DEF Sub

-----------------------------------------------------------------------------
(* What is written is read back.                                           *)

\* Every value as convert finds it in its text.
ReadBack(t) ==
  [path \in DOMAIN t |-> IF t[path] = Domain THEN Domain ELSE Convert(ValueText(t[path]))]

\* A tree that is written so that it can be read.
Clean(t) == Plain(t) /\ ~HasEmpty(t)

\* The text of a path is cut into tokens that add the part below it.
ReadsBack(t, f, path) ==
  \E ts : LexesEntry(f[path], ts) /\ Adds(ReadBack(t), Parent(path), Sub(t, path), ts)

LEMMA PlainTree ==
  ASSUME NEW t, Writable(t), Clean(t), NEW path \in DOMAIN t, path # <<>>
  PROVE  /\ PlainText(Last(path)) /\ Last(path) # <<>>
         /\ t[path] # Domain => PlainValue(t[path])
<1>1. path \in Seq(Seq(Chars))
  BY WritableIs
<1>2. Last(path) \in Seq(Chars)
  BY <1>1, PathIs
<1>3. Last(path) # <<>> /\ PlainWord(Last(path))
      /\ (t[path] # Domain => PlainWord(t[path].text))
  BY DEF Clean, Plain
<1>4. t[path] # Domain => Proper(t[path])
  BY DEF Writable
<1>5. t[path] # Domain => t[path].text \in Seq(Chars)
  BY <1>4 DEF Proper
<1>6. t[path] # Domain => t[path].kind # "empty"
  BY <1>4 DEF Clean, HasEmpty, Proper
<1> QED
  BY <1>2, <1>3, <1>4, <1>5, <1>6 DEF PlainText, PlainValue

LEMMA ReadBackAt ==
  ASSUME NEW t, NEW path \in DOMAIN t
  PROVE  /\ DOMAIN ReadBack(t) = DOMAIN t /\ ReadBack(t) = [q \in DOMAIN ReadBack(t) |-> ReadBack(t)[q]]
         /\ ReadBack(t)[path] = IF t[path] # Domain THEN Convert(ValueText(t[path])) ELSE Domain
BY DEF ReadBack

LEMMA SettingIsReadBack ==
  ASSUME NEW t, Writable(t), Clean(t), NEW f, Writes(t, f),
         NEW path \in DOMAIN t, path # <<>>, t[path] # Domain
  PROVE  ReadsBack(t, f, path)
<1>1. PICK w, v, word : w = Last(path) /\ v = t[path] /\ word = ValueText(v)
  OBVIOUS
<1>2. PlainText(w) /\ PlainValue(v)
  BY <1>1, PlainTree
<1>3. f[path] = (Quoted(w) \o Colon) \o word
  <2>1. f[path] = Entry(t, f, path)
    BY Zenon DEF Writes
  <2>2. ~IsDomain(t, path)
    BY DEF IsDomain
  <2> QED
    BY <1>1, <2>1, <2>2 DEF Entry
<1>4. PICK ts : ts = <<KeyToken(w)>> \o <<ValueToken(word)>>
  OBVIOUS
<1>5. LexesEntry(f[path], ts)
  BY <1>1, <1>2, <1>3, <1>4, LexesSetting
<1>6. Adds(ReadBack(t), Parent(path), {path}, ts)
  <2>1. path \in Seq(Seq(Chars))
    BY WritableIs
  <2>2. word \in Seq(Chars)
    BY <1>1, <1>2, LexesValue
  <2>3. ReadBack(t)[path] = Convert(word)
    BY <1>1, ReadBackAt
  <2> QED
    BY <1>1, <1>4, <2>1, <2>2, <2>3, AddsSetting
<1>7. Sub(t, path) = {path}
  BY SubIs
<1> QED
  BY <1>5, <1>6, <1>7 DEF ReadsBack

\* So are the children of a domain, one after the other.
LEMMA BodyIsReadBack ==
  ASSUME NEW t, Writable(t), NEW f, NEW path \in DOMAIN t,
         \A c \in DOMAIN t : c # <<>> /\ Parent(c) = path => ReadsBack(t, f, c)
  PROVE  \E ts : \E at \in {"Ready", "ValueEnd"} :
           /\ Lexes("Ready", FlattenSeq(ChildTexts(t, f, path)), at, ts)
           /\ Adds(ReadBack(t), path, Sub(t, path) \ {path}, ts)
<1>1. PICK names, n, r : names = Names(t, path) /\ n = Len(names) /\ r = ReadBack(t)
  OBVIOUS
<1>2. PICK child : child = [i \in 1..n |-> Append(path, names[i])]
  OBVIOUS
<1>3. /\ n \in Nat /\ DOMAIN names = 1..n
      /\ \A i \in 1..n : child[i] \in DOMAIN t /\ child[i] # <<>> /\ Parent(child[i]) = path
      /\ \A i, j \in 1..n : child[i] = child[j] => i = j
      /\ \A q \in DOMAIN t : q # <<>> /\ Parent(q) = path => \E i \in 1..n : child[i] = q
  <2>1. n \in Nat /\ DOMAIN names = 1..n
    BY <1>1, NamesAre, LenProperties
  <2>2. ASSUME NEW i \in 1..n
        PROVE  child[i] \in DOMAIN t /\ child[i] # <<>> /\ Parent(child[i]) = path
               /\ Last(child[i]) = names[i]
    <3>1. child[i] = Append(path, names[i])
      BY <1>2
    <3> QED
      BY <1>1, <3>1, NamesAre
  <2>3. ASSUME NEW i \in 1..n, NEW j \in 1..n, child[i] = child[j] PROVE i = j
    <3>1. names[i] = names[j]
      BY <2>2, <2>3
    <3> QED
      BY <1>1, <3>1, NamesAre
  <2>4. ASSUME NEW q \in DOMAIN t, q # <<>>, Parent(q) = path PROVE \E i \in 1..n : child[i] = q
    BY <1>1, <1>2, <2>4, NamesAre
  <2> QED
    BY <2>1, <2>2, <2>3, <2>4
<1>4. PICK parts : parts = [k \in 0..n |-> UNION {Sub(t, child[i]) : i \in 1..k}]
  OBVIOUS
<1>5. parts[0] = {}
  BY <1>3, <1>4
<1>6. parts[n] = Sub(t, path) \ {path}
  <2>1. parts[n] = UNION {Sub(t, child[i]) : i \in 1..n}
    BY <1>3, <1>4
  <2>2. ASSUME NEW i \in 1..n PROVE Sub(t, child[i]) \subseteq Sub(t, path) \ {path}
    BY <1>3, SubOfChild
  <2>3. ASSUME NEW q \in Sub(t, path) \ {path} PROVE \E i \in 1..n : q \in Sub(t, child[i])
    <3>1. PICK c \in DOMAIN t : c # <<>> /\ Parent(c) = path /\ q \in Sub(t, c)
      BY SubIs
    <3> QED
      BY <1>3, <3>1
  <2> QED
    BY <2>1, <2>2, <2>3
<1>7. ASSUME NEW k \in 1..n
      PROVE  parts[k] = parts[k - 1] \cup Sub(t, child[k]) /\ parts[k - 1] \cap Sub(t, child[k]) = {}
  <2>1. parts[k] = UNION {Sub(t, child[i]) : i \in 1..k}
        /\ parts[k - 1] = UNION {Sub(t, child[i]) : i \in 1..k - 1}
    BY <1>3, <1>4
  <2>2. 1..k = 1..(k - 1) \cup {k}
    BY <1>3
  <2>3. ASSUME NEW i \in 1..k - 1 PROVE Sub(t, child[i]) \cap Sub(t, child[k]) = {}
    <3>1. i \in 1..n /\ i # k
      BY <1>3
    <3>2. child[i] # child[k]
      BY <1>3, <3>1
    <3> QED
      BY <1>3, <3>1, <3>2, SubOfChild
  <2> QED
    BY <2>1, <2>2, <2>3
<1>8. ASSUME NEW k \in 1..n
      PROVE  \E us : /\ Lexes("Ready", ChildText(t, f, path, k), IF k < n THEN "Ready" ELSE "ValueEnd", us)
                     /\ Adds(r, path, Sub(t, child[k]), us)
  <2>1. PICK us : LexesEntry(f[child[k]], us) /\ Adds(r, path, Sub(t, child[k]), us)
    BY <1>1, <1>3 DEF ReadsBack
  <2>2. ChildText(t, f, path, k) = f[child[k]] \o (IF k < n THEN Comma ELSE Blank)
    BY <1>1, <1>2 DEF ChildText
  <2> QED
    BY <2>1, <2>2 DEF LexesEntry
<1>9. PICK pieces : pieces = ChildTexts(t, f, path)
  OBVIOUS
<1>10. pieces = [k \in 1..n |-> ChildText(t, f, path, k)]
  BY <1>1, <1>3, <1>9 DEF ChildTexts
<1>11. Lexes("Ready", <<>>, "Ready", <<>>)
  <2>1. PICK none : none = <<>>
    OBVIOUS
  <2>2. none \in Seq(Chars) /\ none \in Seq(TokensOf(Chars))
    BY <2>1
  <2>3. ASSUME NEW s \in Lexed(Chars) PROVE Lex(s, none) = s /\ s.tokens \o none = s.tokens
    <3>1. s.tokens \in Seq(TokensOf(Chars))
      BY AtIs
    <3> QED
      BY <2>1, <3>1, LexNone, ConcatEmpty
  <2>4. Lexes("Ready", none, "Ready", none)
    BY <2>2, <2>3 DEF Lexes
  <2> QED
    BY <2>1, <2>4
<1>12. CASE n = 0
  <2>1. pieces = <<>>
    BY <1>10, <1>12
  <2>2. FlattenSeq(pieces) = <<>>
    BY <2>1, FlattenNone
  <2>3. Adds(r, path, parts[n], <<>>)
    BY <1>5, <1>12, AddsNothing
  <2> QED
    BY <1>1, <1>6, <1>9, <1>11, <2>2, <2>3
<1>13. CASE n # 0
  <2>1. pieces \in Seq(Seq(Chars)) /\ Len(pieces) = n
    <3>1. \A k \in 1..n : ChildText(t, f, path, k) \in Seq(Chars)
      BY <1>8 DEF Lexes
    <3> QED
      BY <1>3, <1>10, <3>1
  <2>2. n \in Nat \ {0}
    BY <1>3, <1>13
  <2>3. PICK h \in [0..n -> Seq(Chars)] : Flattens(h, pieces, n)
    BY <2>1, <2>2, FlattenRuns
  <2> DEFINE P == {k \in 0..n : \E ts : /\ Lexes("Ready", h[k], IF k < n THEN "Ready" ELSE "ValueEnd", ts)
                                        /\ Adds(r, path, parts[k], ts)}
  <2>4. 0 \in P
    <3>1. h[0] = <<>> /\ 0 \in 0..n /\ 0 < n
      BY <2>2, <2>3 DEF Flattens
    <3>2. Adds(r, path, parts[0], <<>>)
      BY <1>5, AddsNothing
    <3> QED
      BY <1>11, <3>1, <3>2
  <2>5. ASSUME NEW k \in 1..n, k - 1 \in P PROVE k \in P
    <3>1. k - 1 < n /\ k \in 0..n
      BY <2>2
    <3>2. PICK ts : Lexes("Ready", h[k - 1], "Ready", ts) /\ Adds(r, path, parts[k - 1], ts)
      BY <2>5, <3>1
    <3>3. PICK us : /\ Lexes("Ready", ChildText(t, f, path, k), IF k < n THEN "Ready" ELSE "ValueEnd", us)
                    /\ Adds(r, path, Sub(t, child[k]), us)
      BY <1>8
    <3>4. h[k] = h[k - 1] \o ChildText(t, f, path, k)
      BY <1>10, <2>3 DEF Flattens
    <3>5. PICK at : at = IF k < n THEN "Ready" ELSE "ValueEnd"
      OBVIOUS
    <3>6. Lexes("Ready", h[k], at, ts \o us)
      BY <3>2, <3>3, <3>4, <3>5, LexesThen
    <3>7. Adds(r, path, parts[k], ts \o us)
      BY <1>7, <3>2, <3>3, AddsThen
    <3> QED
      BY <3>1, <3>5, <3>6, <3>7
  <2>6. n \in P
    <3> HIDE DEF P
    <3>1. \A k \in 0..n : k \in P
      BY <2>2, <2>4, <2>5, StepByStep
    <3> QED
      BY <2>2, <3>1
  <2>7. PICK ts : Lexes("Ready", h[n], "ValueEnd", ts) /\ Adds(r, path, parts[n], ts)
    BY <2>2, <2>6
  <2>8. FlattenSeq(pieces) = h[n]
    BY <2>3 DEF Flattens
  <2> QED
    BY <1>1, <1>6, <1>9, <2>7, <2>8
<1> QED
  BY <1>12, <1>13

LEMMA DomainIsReadBack ==
  ASSUME NEW t, Writable(t), Clean(t), NEW f, Writes(t, f),
         NEW path \in DOMAIN t, path # <<>>, t[path] = Domain,
         \A c \in DOMAIN t : c # <<>> /\ Parent(c) = path => ReadsBack(t, f, c)
  PROVE  ReadsBack(t, f, path)
<1>1. PICK body, w, S : body = FlattenSeq(ChildTexts(t, f, path)) /\ w = Last(path)
                        /\ S = Sub(t, path) \ {path}
  OBVIOUS
<1>2. PICK ts : \E at \in {"Ready", "ValueEnd"} :
        Lexes("Ready", body, at, ts) /\ Adds(ReadBack(t), path, S, ts)
  BY <1>1, BodyIsReadBack
<1>3. PICK at \in {"Ready", "ValueEnd"} : Lexes("Ready", body, at, ts) /\ Adds(ReadBack(t), path, S, ts)
  BY <1>2
<1>4. PICK head, hs : head = (Quoted(w) \o Colon) \o Opening2 /\ hs = <<KeyToken(w)>> \o <<OpenToken>>
  OBVIOUS
<1>5. Lexes("Ready", head, "Ready", hs)
  BY <1>1, <1>4, PlainTree, LexesHead
<1>6. PICK all : all = (hs \o ts) \o <<CloseToken>>
  OBVIOUS
<1>7. Lexes("Ready", (head \o body) \o <<Closer>>, "ValueEnd", all)
  BY <1>3, <1>5, <1>6, LexesDomain
<1>8. f[path] = (head \o body) \o <<Closer>>
  <2>1. f[path] = Entry(t, f, path)
    BY Zenon DEF Writes
  <2>2. IsDomain(t, path)
    BY DEF IsDomain
  <2>3. KeyText(path) = Quoted(w) \o Colon
    BY <1>1, PlainTree DEF KeyText
  <2> QED
    BY <1>1, <1>4, <2>1, <2>2, <2>3 DEF Entry
<1>9. LexesEntry(f[path], all)
  BY <1>7, <1>8, LexesDomainEntry
<1>10. path \in Seq(Seq(Chars)) /\ ReadBack(t)[path] = Domain /\ path \notin S
  BY <1>1, WritableIs, ReadBackAt
<1>11. Adds(ReadBack(t), Parent(path), {path} \cup S, all)
  BY <1>1, <1>3, <1>4, <1>6, <1>10, AddsDomain
<1>12. {path} \cup S = Sub(t, path)
  BY <1>1, SubIs
<1> QED
  BY <1>9, <1>11, <1>12 DEF ReadsBack

\* From the deepest paths upwards.
LEMMA PathsAreReadBack ==
  ASSUME NEW t, Writable(t), Clean(t), NEW f, Writes(t, f), NEW path \in DOMAIN t, path # <<>>
  PROVE  ReadsBack(t, f, path)
<1>1. PICK depth \in Nat : \A q \in DOMAIN t : Len(q) <= depth
  BY DEF Writable
<1>2. PICK n : n = depth + 1
  OBVIOUS
<1> DEFINE P == {k \in 0..n : \A q \in DOMAIN t : q # <<>> /\ Len(q) >= n - k => ReadsBack(t, f, q)}
<1>3. 0 \in P
  BY <1>1, <1>2, WritableIs
<1>4. ASSUME NEW k \in 1..n, k - 1 \in P PROVE k \in P
  <2>1. ASSUME NEW q \in DOMAIN t, q # <<>>, Len(q) >= n - k PROVE ReadsBack(t, f, q)
    <3>1. ASSUME NEW c \in DOMAIN t, c # <<>>, Parent(c) = q PROVE ReadsBack(t, f, c)
      <4>1. Len(c) >= n - (k - 1)
        BY <1>2, <2>1, <3>1, ChildIsDeeper
      <4> QED
        BY <1>4, <3>1, <4>1
    <3>2. CASE t[q] = Domain
      BY <2>1, <3>1, <3>2, DomainIsReadBack
    <3>3. CASE t[q] # Domain
      BY <2>1, <3>3, SettingIsReadBack
    <3> QED
      BY <3>2, <3>3
  <2> QED
    BY <2>1
<1>5. n \in P
  <2> HIDE DEF P
  <2>1. \A k \in 0..n : k \in P
    BY <1>2, <1>3, <1>4, StepByStep
  <2> QED
    BY <1>2, <2>1
<1> QED
  BY <1>2, <1>5, WritableIs

\* The tokens of the whole text, and the tree that is built from them.
RoundTrip(t, ts) ==
  /\ ts \in Seq(TokensOf(Chars)) /\ ts # <<>> /\ ts[1] = OpenToken
  /\ Written(t) \in Seq(Chars)
  /\ Lex(Start, Written(t)).at = "ValueEnd" /\ Lex(Start, Written(t)).tokens = ts
  /\ Built(ts).tree = ReadBack(t) /\ Built(ts).end = "done"

LEMMA TreeIsReadBack ==
  ASSUME NEW t, Writable(t), Clean(t)
  PROVE  \E ts : RoundTrip(t, ts)
<1>1. PICK f \in [DOMAIN t -> Seq(Chars)] : Writes(t, f) /\ Written(t) = f[<<>>]
  BY WrittenIs
<1>2. PICK root, r : root = <<>> /\ r = ReadBack(t)
  OBVIOUS
<1>3. root \in DOMAIN t /\ t[root] = Domain
  BY <1>2 DEF Writable, Rooted, IsDomain
<1>4. PICK body, S : body = FlattenSeq(ChildTexts(t, f, root)) /\ S = Sub(t, root) \ {root}
  OBVIOUS
<1>5. \A c \in DOMAIN t : c # <<>> /\ Parent(c) = root => ReadsBack(t, f, c)
  BY <1>1, PathsAreReadBack
<1>6. PICK ts : \E at \in {"Ready", "ValueEnd"} :
        Lexes("Ready", body, at, ts) /\ Adds(r, root, S, ts)
  BY <1>2, <1>3, <1>4, <1>5, BodyIsReadBack
<1>7. PICK at \in {"Ready", "ValueEnd"} : Lexes("Ready", body, at, ts) /\ Adds(r, root, S, ts)
  BY <1>6
<1>8. PICK open, close : open = OpenToken /\ close = CloseToken
  OBVIOUS
<1>9. PICK all : all = (<<open>> \o ts) \o <<close>>
  OBVIOUS
<1>10. Lexes("Ready", (Opening2 \o body) \o <<Closer>>, "ValueEnd", all)
  <2>1. Lexes("Ready", Opening2, "Ready", <<open>>)
    BY <1>8, LexesBetween DEF Opening2
  <2> QED
    BY <1>7, <1>8, <1>9, <2>1, LexesDomain
<1>11. f[root] = (Opening2 \o body) \o <<Closer>>
  <2>1. f[root] = Entry(t, f, root)
    BY <1>1, <1>3, Zenon DEF Writes
  <2>2. IsDomain(t, root)
    BY <1>3 DEF IsDomain
  <2>3. KeyText(root) = root
    BY <1>2 DEF KeyText
  <2>4. root \o Opening2 = Opening2
    BY <1>2, PunctuationIsText, ConcatEmpty
  <2> QED
    BY <1>4, <2>1, <2>2, <2>3, <2>4 DEF Entry
<1>12. Start \in Lexed(Chars) /\ Start.at = "Ready" /\ Start.tokens = <<>>
  BY StartIs DEF Start
<1>13. PICK text : text = Written(t)
  OBVIOUS
<1>14. text \in Seq(Chars) /\ Lexes("Ready", text, "ValueEnd", all)
  BY <1>1, <1>2, <1>10, <1>11, <1>13 DEF Lexes
<1>15. all \in Seq(TokensOf(Chars)) /\ Lex(Start, text).at = "ValueEnd" /\ Lex(Start, text).tokens = all
  <2>1. all \in Seq(TokensOf(Chars)) /\ Lex(Start, text).at = "ValueEnd"
        /\ Lex(Start, text).tokens = <<>> \o all
    BY <1>12, <1>14 DEF Lexes
  <2> QED
    BY <2>1, ConcatEmpty
<1>16. all # <<>> /\ all[1] = open
  <2>1. PICK T : T = TokensOf(Chars)
    OBVIOUS
  <2>2. open \in T /\ close \in T /\ ts \in Seq(T)
    BY <1>7, <1>8, <2>1, TokensTyped DEF Adds
  <2>3. PICK head : head = <<open>> \o ts
    OBVIOUS
  <2>4. head \in Seq(T) /\ Len(head) = 1 + Len(ts) /\ head[1] = open
    BY <2>2, <2>3
  <2>5. all = head \o <<close>>
    BY <1>9, <2>3
  <2> QED
    BY <2>2, <2>4, <2>5
<1>17. Built(all).tree = r /\ Built(all).end = "done"
  <2>1. DOMAIN r = DOMAIN t /\ r = [q \in DOMAIN r |-> r[q]] /\ r[root] = Domain
    BY <1>2, <1>3, ReadBackAt
  <2>2. S = DOMAIN r \ {root}
    BY <1>2, <1>4, <2>1, SubOfRoot
  <2>3. Adds(r, <<>>, DOMAIN r \ {<<>>}, ts)
    BY <1>2, <1>7, <2>2
  <2> QED
    BY <1>2, <1>3, <1>8, <1>9, <2>1, <2>3, BuildsAll
<1> QED
  BY <1>2, <1>8, <1>13, <1>14, <1>15, <1>16, <1>17 DEF RoundTrip

-----------------------------------------------------------------------------
(* The automaton adds tokens, and what it takes for a value is one.        *)

\* The token of a value: in quotes, or a word.
ValueWord(word) ==
  word \in Seq(Chars) /\ word # <<>> /\ (word[1] = Quote \/ word \in Seq(ValueChars))
GoodToken(token) == token.type = "value" => ValueWord(token.text)
Good(tokens) == tokens \in Seq(TokensOf(Chars)) /\ \A i \in 1..Len(tokens) : GoodToken(tokens[i])
Neat(s) ==
  /\ Good(s.tokens)
  /\ s.at = "ValueString" => s.matched # <<>> /\ s.matched[1] = Quote
  /\ s.at = "ValueOthers" => s.matched # <<>> /\ s.matched \in Seq(ValueChars)

LEMMA GoodMore ==
  ASSUME NEW ts, Good(ts), NEW us, Good(us)
  PROVE  Good(ts \o us)
<1>1. PICK all, n, m : all = ts \o us /\ n = Len(ts) /\ m = Len(us)
  OBVIOUS
<1>2. /\ all \in Seq(TokensOf(Chars)) /\ Len(all) = n + m /\ n \in Nat /\ m \in Nat
      /\ \A i \in 1..n : all[i] = ts[i]
      /\ \A i \in 1..m : all[n + i] = us[i]
  BY <1>1, ConcatIs DEF Good
<1>3. ASSUME NEW i \in 1..n + m PROVE GoodToken(all[i])
  <2>1. CASE i <= n
    BY <1>1, <1>2, <2>1 DEF Good
  <2>2. CASE i > n
    <3>1. i - n \in 1..m /\ n + (i - n) = i
      BY <1>2, <2>2
    <3> QED
      BY <1>1, <1>2, <3>1 DEF Good
  <2> QED
    BY <1>2, <2>1, <2>2
<1> QED
  BY <1>1, <1>2, <1>3 DEF Good

\* What an edge makes of a state.
Makes(s, action, c, m, us) ==
  /\ m \in Seq(Chars) /\ us \in Seq(TokensOf(Chars))
  /\ action = "start" => m = <<c>>
  /\ action = "push" => m = Append(s.matched, c)
  /\ \/ us = <<>>
     \/ \E token \in TokensOf(Chars) :
          /\ us = <<token>>
          /\ token.type = "value" => \/ action = "finish" /\ token.text = Append(s.matched, c)
                                     \/ action = "value" /\ token.text = s.matched

LEMMA ActMakes ==
  ASSUME NEW s \in Lexed(Chars), NEW c \in Chars, NEW action, NEW to,
         action \in {"none", "clear", "start", "push", "finish", "bracket", "key", "value"}
  PROVE  \E m, us : /\ Makes(s, action, c, m, us)
                    /\ [Act(s, action, c) EXCEPT !.at = to] = At(to, m, s.tokens \o us)
<1>1. PICK at, w, ts : at = s.at /\ w = s.matched /\ ts = s.tokens
  OBVIOUS
<1>2. s = [at |-> at, matched |-> w, tokens |-> ts] /\ w \in Seq(Chars) /\ ts \in Seq(TokensOf(Chars))
  BY <1>1 DEF Lexed
<1>3. PICK one, more, none : one = <<c>> /\ more = Append(w, c) /\ none = <<>>
  OBVIOUS
<1>4. one \in Seq(Chars) /\ more \in Seq(Chars) /\ none \in Seq(Chars) /\ none \in Seq(TokensOf(Chars))
  BY <1>2, <1>3
<1>5. ts \o none = ts
  BY <1>2, <1>3, ConcatEmpty
<1>6. CASE action \in {"none", "clear", "start", "push"}
  <2>1. PICK m : m = CASE action = "none" -> w [] action = "clear" -> none
                       [] action = "start" -> one [] action = "push" -> more
    OBVIOUS
  <2>2. m \in Seq(Chars)
    BY <1>2, <1>4, <1>6, <2>1
  <2>3. Act(s, action, c) = [at |-> at, matched |-> m, tokens |-> ts]
    <3>1. CASE action = "none"
      BY <1>2, <2>1, <3>1 DEF Act
    <3>2. CASE action = "clear"
      BY <1>2, <1>3, <2>1, <3>2 DEF Act
    <3>3. CASE action = "start"
      BY <1>2, <1>3, <2>1, <3>3 DEF Act
    <3>4. CASE action = "push"
      BY <1>2, <1>3, <2>1, <3>4 DEF Act
    <3> QED
      BY <1>6, <3>1, <3>2, <3>3, <3>4
  <2>4. [Act(s, action, c) EXCEPT !.at = to] = At(to, m, ts)
    BY <2>3 DEF At
  <2>5. Makes(s, action, c, m, none)
    <3>1. action = "start" => m = <<c>>
      BY <1>3, <2>1
    <3>2. action = "push" => m = Append(s.matched, c)
      BY <1>1, <1>3, <2>1
    <3> QED
      BY <1>3, <1>4, <2>2, <3>1, <3>2 DEF Makes
  <2> QED
    BY <1>1, <1>5, <2>4, <2>5
<1>7. CASE action \in {"finish", "bracket", "key", "value"}
  <2>1. PICK type, text, m :
          /\ type = IF action = "finish" THEN "value" ELSE action
          /\ text = CASE action = "finish" -> more [] action = "bracket" -> one
                      [] action \in {"key", "value"} -> w
          /\ m = IF action = "finish" THEN more ELSE w
    OBVIOUS
  <2>2. type \in {"bracket", "key", "value"} /\ text \in Seq(Chars) /\ m \in Seq(Chars)
    BY <1>2, <1>4, <1>7, <2>1
  <2>3. PICK token : token = Token(type, text)
    OBVIOUS
  <2>4. token \in TokensOf(Chars) /\ token.type = type /\ token.text = text
    BY <2>2, <2>3 DEF Token, TokensOf
  <2>5. Act(s, action, c) = [at |-> at, matched |-> m, tokens |-> Append(ts, token)]
    <3>1. CASE action = "finish"
      BY <1>2, <1>3, <2>1, <2>3, <3>1 DEF Act
    <3>2. CASE action = "bracket"
      BY <1>2, <1>3, <2>1, <2>3, <3>2 DEF Act
    <3>3. CASE action \in {"key", "value"}
      BY <1>2, <1>3, <2>1, <2>3, <3>3 DEF Act
    <3> QED
      BY <1>7, <3>1, <3>2, <3>3
  <2>6. PICK us : us = <<token>>
    OBVIOUS
  <2>7. us \in Seq(TokensOf(Chars)) /\ Append(ts, token) = ts \o us
    BY <1>2, <2>4, <2>6
  <2>8. [Act(s, action, c) EXCEPT !.at = to] = At(to, m, ts \o us)
    <3>1. PICK grown : grown = Append(ts, token)
      OBVIOUS
    <3>2. PICK u : u = Act(s, action, c)
      OBVIOUS
    <3>3. u = [at |-> at, matched |-> m, tokens |-> grown]
      BY <2>5, <3>1, <3>2
    <3>4. [u EXCEPT !.at = to] = At(to, m, grown)
      BY <3>3 DEF At
    <3> QED
      BY <2>7, <3>1, <3>2, <3>4
  <2>9. Makes(s, action, c, m, us)
    <3>1. action # "start" /\ action # "push"
      BY <1>7
    <3>2. token.type = "value" => \/ action = "finish" /\ token.text = Append(s.matched, c)
                                  \/ action = "value" /\ token.text = s.matched
      BY <1>1, <1>3, <1>7, <2>1, <2>4
    <3> QED
      BY <2>2, <2>4, <2>6, <2>7, <3>1, <3>2 DEF Makes
  <2> QED
    BY <1>1, <2>8, <2>9
<1> QED
  BY <1>6, <1>7

\* Where a value is collected.
EdgeNeat(e) ==
  /\ e.to = "ValueString" => \/ e.action = "start" /\ e.on \subseteq {Quote}
                             \/ e.action = "push" /\ e.from = "ValueString"
  /\ e.to = "ValueOthers" => \/ e.action = "start" /\ e.on \subseteq ValueChars
                             \/ e.action = "push" /\ e.from = "ValueOthers" /\ e.on \subseteq ValueChars
  /\ e.action = "finish" => e.from = "ValueString"
  /\ e.action = "value" => e.from = "ValueOthers"

LEMMA EdgesNeat == \A e \in Edges : EdgeNeat(e)
<1> DEFINE Fine(e) == EdgeNeat(IF e.action = "value" THEN [e EXCEPT !.wait = TRUE] ELSE e)
<1>1. ASSUME NEW from, NEW to, NEW on, NEW action,
             to \notin {"ValueString", "ValueOthers"}, action \notin {"finish", "value"}
      PROVE  Fine(Edge(from, to, on, action))
  BY <1>1 DEF Edge, EdgeNeat
<1>2. Fine(Edge("Colon", "ValueString", {Quote}, "start"))
  BY DEF Edge, EdgeNeat
<1>3. Fine(Edge("Colon", "ValueOthers", ValueChars, "start"))
  BY DEF Edge, EdgeNeat
<1>4. Fine(Edge("ValueString", "ValueString", Text \ {Quote}, "push"))
  BY DEF Edge, EdgeNeat
<1>5. Fine(Edge("ValueString", "ValueEnd", {Quote}, "finish"))
  BY DEF Edge, EdgeNeat
<1>6. Fine(Edge("ValueOthers", "ValueOthers", ValueChars, "push"))
  BY DEF Edge, EdgeNeat
<1>7. Fine(Edge("ValueOthers", "ValueEnd", Text \ ValueChars, "value"))
  BY DEF Edge, EdgeNeat
<1>8. \A e \in EdgesWithoutWait : Fine(e)
  <2> HIDE DEF Fine
  <2>1. "Ready" \notin {"ValueString", "ValueOthers"} /\ "ValueEnd" \notin {"ValueString", "ValueOthers"}
        /\ "Key" \notin {"ValueString", "ValueOthers"} /\ "KeyEnd" \notin {"ValueString", "ValueOthers"}
        /\ "Colon" \notin {"ValueString", "ValueOthers"}
    OBVIOUS
  <2>2. "none" \notin {"finish", "value"} /\ "bracket" \notin {"finish", "value"}
        /\ "clear" \notin {"finish", "value"} /\ "push" \notin {"finish", "value"}
        /\ "key" \notin {"finish", "value"}
    OBVIOUS
  <2>3. \A on : /\ Fine(Edge("Ready", "Ready", on, "none")) /\ Fine(Edge("Ready", "Ready", on, "bracket"))
                /\ Fine(Edge("Ready", "ValueEnd", on, "bracket")) /\ Fine(Edge("Ready", "Key", on, "clear"))
                /\ Fine(Edge("Key", "Key", on, "push")) /\ Fine(Edge("Key", "KeyEnd", on, "key"))
                /\ Fine(Edge("KeyEnd", "KeyEnd", on, "none")) /\ Fine(Edge("KeyEnd", "Colon", on, "none"))
                /\ Fine(Edge("Colon", "Colon", on, "none")) /\ Fine(Edge("Colon", "Ready", on, "bracket"))
                /\ Fine(Edge("ValueEnd", "ValueEnd", on, "none"))
                /\ Fine(Edge("ValueEnd", "ValueEnd", on, "bracket"))
                /\ Fine(Edge("ValueEnd", "Ready", on, "none"))
    BY <1>1, <2>1, <2>2
  <2> QED
    BY <1>2, <1>3, <1>4, <1>5, <1>6, <1>7, <2>3, Zenon DEF EdgesWithoutWait
<1> QED
  BY <1>8 DEF Edges

\* One character adds tokens, good ones if the word so far is good.
Adding(s, u) ==
  /\ \E us \in Seq(TokensOf(Chars)) : u.tokens = s.tokens \o us
  /\ s.at = "thrown" => u.at = "thrown"
  /\ Neat(s) => Neat(u)

LEMMA AddingMore ==
  ASSUME NEW s \in Lexed(Chars), NEW u, Adding(s, u), NEW v, Adding(u, v)
  PROVE  Adding(s, v)
<1>1. PICK us \in Seq(TokensOf(Chars)) : u.tokens = s.tokens \o us
  BY DEF Adding
<1>2. PICK vs \in Seq(TokensOf(Chars)) : v.tokens = u.tokens \o vs
  BY DEF Adding
<1>3. s.tokens \in Seq(TokensOf(Chars))
  BY AtIs
<1>4. v.tokens = s.tokens \o (us \o vs)
  <2>1. PICK ts, T : ts = s.tokens /\ T = TokensOf(Chars)
    OBVIOUS
  <2>2. ts \in Seq(T) /\ us \in Seq(T) /\ vs \in Seq(T)
    BY <1>3, <2>1
  <2>3. (ts \o us) \o vs = ts \o (us \o vs)
    BY ONLY <2>2, ConcatConcat
  <2> QED
    BY <1>1, <1>2, <2>1, <2>3
<1>5. us \o vs \in Seq(TokensOf(Chars))
  BY ConcatProperties
<1> QED
  BY <1>4, <1>5 DEF Adding

LEMMA StepAdds ==
  ASSUME NEW s \in Lexed(Chars), NEW c \in Chars
  PROVE  Adding(s, Step(s, c)[1])
<1>1. PICK edges, u : edges = {e \in Edges : e.from = s.at /\ c \in e.on} /\ u = Step(s, c)[1]
  OBVIOUS
<1>2. s.matched \in Seq(Chars) /\ s.tokens \in Seq(TokensOf(Chars)) /\ s = At(s.at, s.matched, s.tokens)
  BY AtIs
<1>3. CASE edges = {}
  <2>1. u = [s EXCEPT !.at = "thrown"]
    BY <1>1, <1>3 DEF Step
  <2>2. u.at = "thrown" /\ u.tokens = s.tokens
    BY <1>2, <2>1 DEF At
  <2>3. <<>> \in Seq(TokensOf(Chars)) /\ s.tokens \o <<>> = s.tokens
    BY <1>2, ConcatEmpty
  <2>4. Neat(s) => Neat(u)
    BY <2>2 DEF Neat
  <2>5. \E us \in Seq(TokensOf(Chars)) : u.tokens = s.tokens \o us
    BY <2>2, <2>3
  <2> QED
    BY <1>1, <2>2, <2>4, <2>5 DEF Adding
<1>4. CASE edges # {}
  <2>1. PICK e : e = CHOOSE x \in edges : TRUE
    OBVIOUS
  <2>2. e \in Edges /\ e.from = s.at /\ c \in e.on
    BY <1>1, <1>4, <2>1
  <2>3. u = [Act(s, e.action, c) EXCEPT !.at = e.to]
    BY <1>1, <1>4, <2>1 DEF Step
  <2>4. EdgeFits(e) /\ EdgeNeat(e)
    BY <2>2, EdgesFit, EdgesNeat
  <2>5. e.action \in {"none", "clear", "start", "push", "finish", "bracket", "key", "value"}
        /\ s.at # "thrown"
    BY <2>2, <2>4 DEF EdgeFits
  <2>6. PICK m, us : Makes(s, e.action, c, m, us) /\ u = At(e.to, m, s.tokens \o us)
    BY <2>3, <2>5, ActMakes
  <2>7. u.at = e.to /\ u.matched = m /\ u.tokens = s.tokens \o us
    BY <2>6 DEF At
  <2>8. us \in Seq(TokensOf(Chars)) /\ m \in Seq(Chars)
    BY <2>6 DEF Makes
  <2>9. ASSUME Neat(s) PROVE Neat(u)
    <3>1. PICK w, more : w = s.matched /\ more = Append(w, c)
      OBVIOUS
    <3>2. s.at = "ValueString" => ValueWord(w) /\ more \in Seq(Chars) /\ more # <<>> /\ more[1] = Quote
      <4>1. CASE s.at = "ValueString"
        <5>1. w \in Seq(Chars) /\ w # <<>> /\ w[1] = Quote
          BY <1>2, <2>9, <3>1, <4>1 DEF Neat
        <5>2. more \in Seq(Chars) /\ more # <<>> /\ more[1] = Quote
          BY <3>1, <5>1
        <5> QED
          BY <5>1, <5>2 DEF ValueWord
      <4> QED
        BY <4>1
    <3>3. s.at = "ValueOthers" => ValueWord(w) /\ (c \in ValueChars => more # <<>> /\ more \in Seq(ValueChars))
      <4>1. CASE s.at = "ValueOthers"
        <5>1. w \in Seq(Chars) /\ w # <<>> /\ w \in Seq(ValueChars)
          BY <1>2, <2>9, <3>1, <4>1 DEF Neat
        <5>2. c \in ValueChars => more # <<>> /\ more \in Seq(ValueChars)
          BY <3>1, <5>1
        <5> QED
          BY <5>1, <5>2 DEF ValueWord
      <4> QED
        BY <4>1
    <3>4. Good(us)
      <4>1. CASE us = <<>>
        BY <2>8, <4>1 DEF Good
      <4>2. CASE us # <<>>
        <5>1. PICK token \in TokensOf(Chars) :
                /\ us = <<token>>
                /\ token.type = "value" => \/ e.action = "finish" /\ token.text = Append(s.matched, c)
                                           \/ e.action = "value" /\ token.text = s.matched
          BY <2>6, <4>2 DEF Makes
        <5>2. token.type = "value" => ValueWord(token.text)
          <6>1. ASSUME e.action = "finish" PROVE ValueWord(more)
            BY <2>2, <2>4, <3>2, <6>1 DEF EdgeNeat, ValueWord
          <6>2. ASSUME e.action = "value" PROVE ValueWord(w)
            BY <2>2, <2>4, <3>3, <6>2 DEF EdgeNeat
          <6> QED
            BY <3>1, <5>1, <6>1, <6>2
        <5>3. Len(us) = 1 /\ us[1] = token
          BY <5>1
        <5> QED
          BY <2>8, <5>2, <5>3 DEF Good, GoodToken
      <4> QED
        BY <4>1, <4>2
    <3>5. Good(u.tokens)
      BY <2>7, <2>9, <3>4, GoodMore DEF Neat
    <3>6. u.at = "ValueString" => u.matched # <<>> /\ u.matched[1] = Quote
      <4>1. CASE e.to = "ValueString" /\ e.action = "start" /\ e.on \subseteq {Quote}
        <5>1. m = <<c>> /\ c = Quote
          BY <2>2, <2>6, <4>1 DEF Makes
        <5> QED
          BY <2>7, <5>1
      <4>2. CASE e.to = "ValueString" /\ e.action = "push" /\ e.from = "ValueString"
        <5>1. m = more
          BY <2>6, <3>1, <4>2 DEF Makes
        <5> QED
          BY <2>2, <2>7, <3>2, <4>2, <5>1
      <4> QED
        BY <2>4, <2>7, <4>1, <4>2 DEF EdgeNeat
    <3>7. u.at = "ValueOthers" => u.matched # <<>> /\ u.matched \in Seq(ValueChars)
      <4>1. CASE e.to = "ValueOthers" /\ e.action = "start" /\ e.on \subseteq ValueChars
        <5>1. m = <<c>> /\ c \in ValueChars
          BY <2>2, <2>6, <4>1 DEF Makes
        <5> QED
          BY <2>7, <5>1
      <4>2. CASE e.to = "ValueOthers" /\ e.action = "push" /\ e.from = "ValueOthers" /\ e.on \subseteq ValueChars
        <5>1. m = more /\ c \in ValueChars
          BY <2>2, <2>6, <3>1, <4>2 DEF Makes
        <5> QED
          BY <2>2, <2>7, <3>3, <4>2, <5>1
      <4> QED
        BY <2>4, <2>7, <4>1, <4>2 DEF EdgeNeat
    <3> QED
      BY <3>5, <3>6, <3>7 DEF Neat
  <2>10. \E vs \in Seq(TokensOf(Chars)) : u.tokens = s.tokens \o vs
    BY <2>7, <2>8
  <2> QED
    BY <1>1, <2>5, <2>9, <2>10 DEF Adding
<1> QED
  BY <1>3, <1>4

LEMMA AdvanceAdds ==
  ASSUME NEW s \in Lexed(Chars), NEW c \in Chars
  PROVE  Adding(s, Advance(s, c))
<1>1. PICK first, u, v : first = Step(s, c) /\ u = first[1] /\ v = Step(u, c)[1]
  OBVIOUS
<1>2. u \in Lexed(Chars) /\ Adding(s, u)
  BY <1>1, StepIs, StepAdds
<1>3. Adding(u, v)
  BY <1>1, <1>2, StepAdds
<1>4. Adding(s, v)
  BY <1>2, <1>3, AddingMore
<1>5. Advance(s, c) = v \/ Advance(s, c) = u
  BY <1>1 DEF Advance
<1> QED
  BY <1>2, <1>4, <1>5

LEMMA LexAdds ==
  ASSUME NEW s \in Lexed(Chars), NEW text \in Seq(Chars)
  PROVE  Adding(s, Lex(s, text))
<1>1. PICK n, u : n = Len(text) /\ u = Lex(s, text)
  OBVIOUS
<1>2. n \in Nat /\ \A i \in 1..n : text[i] \in Chars
  BY <1>1, LenProperties, ElementOfSeq
<1>3. \E h : LexesBy(Chars, h, s, text, u)
  BY <1>1, LexStates
<1>4. PICK h : LexesBy(Chars, h, s, text, u)
  BY <1>3, Zenon
<1>5. /\ h \in [0..n -> Lexed(Chars)] /\ h[0] = s /\ h[n] = u
      /\ \A i \in 1..n : h[i] = Advance(h[i - 1], text[i])
  BY <1>1, <1>4 DEF LexesBy
<1>6. PICK P : P = {k \in 0..n : Adding(s, h[k])}
  OBVIOUS
<1>7. Adding(s, s)
  <2>1. <<>> \in Seq(TokensOf(Chars)) /\ s.tokens \o <<>> = s.tokens
    BY AtIs, ConcatEmpty
  <2> QED
    BY <2>1 DEF Adding
<1>8. 0 \in P
  BY <1>2, <1>5, <1>6, <1>7
<1>9. ASSUME NEW k \in 1..n, k - 1 \in P PROVE k \in P
  <2>1. k - 1 \in 0..n /\ k \in 0..n
    BY <1>2
  <2>2. PICK x, y : x = h[k - 1] /\ y = h[k]
    OBVIOUS
  <2>3. x \in Lexed(Chars) /\ y = Advance(x, text[k]) /\ text[k] \in Chars
    BY <1>2, <1>5, <2>1, <2>2
  <2>4. Adding(x, y)
    BY <2>3, AdvanceAdds
  <2>5. Adding(s, x)
    BY <1>6, <1>9, <2>2
  <2>6. Adding(s, y)
    BY <2>4, <2>5, AddingMore
  <2> QED
    BY <1>6, <2>1, <2>2, <2>6
<1>10. \A k \in 0..n : k \in P
  BY <1>2, <1>8, <1>9, StepByStep
<1>11. n \in P
  BY <1>2, <1>10
<1> QED
  BY <1>1, <1>5, <1>6, <1>11

\* The tokens of a text: those of its first part come first.
LEMMA TokensAreGood ==
  ASSUME NEW text \in Seq(Chars)
  PROVE  Good(Tokens(text).tokens)
<1>1. PICK s, u : s = Start /\ u = Lex(s, text)
  OBVIOUS
<1>2. s \in Lexed(Chars) /\ Adding(s, u)
  BY <1>1, StartIs, LexAdds
<1>3. Good(<<>>)
  BY DEF Good
<1>4. Neat(s)
  BY <1>1, <1>3 DEF Neat, Start
<1>5. Good(u.tokens)
  BY <1>2, <1>4 DEF Adding, Neat
<1>6. Tokens(text).tokens = IF Accepted(u) THEN u.tokens ELSE <<>>
  BY <1>1 DEF Tokens, Lex
<1> QED
  BY <1>3, <1>5, <1>6

-----------------------------------------------------------------------------
(* The parser adds paths, each of them once.                               *)

\* One token adds a path at most: a domain, or the value of the token.
Grows(t, u, token) ==
  u = t \/ \E path \in Seq(Seq(Chars)) \ DOMAIN t : \E node :
             /\ u = Put(t, path, node)
             /\ node = Domain \/ (token.type = "value" /\ node = Convert(token.text))

\* What there is stays.
Within(t, u) == DOMAIN t \subseteq DOMAIN u /\ \A path \in DOMAIN t : u[path] = t[path]

LEMMA TakeGrows ==
  ASSUME NEW s \in Parsing(Chars), NEW token \in TokensOf(Chars)
  PROVE  Grows(s.tree, Take(s, token).tree, token)
<1>1. PICK t, u : t = s.tree /\ u = Take(s, token)
  OBVIOUS
<1>2. token.type \in {"bracket", "key", "value"}
  BY DEF TokensOf
<1>3. \A end : [s EXCEPT !.end = end].tree = t
  BY <1>1 DEF Parsing
<1>4. CASE ~Going(s)
  <2>1. u = s
    BY <1>1, <1>4, Zenon DEF Take
  <2> QED
    BY <1>1, <2>1 DEF Grows
<1>5. CASE Going(s) /\ s.key # <<>>
  <2>1. u = Member(s, token)
    BY <1>1, <1>5, Zenon DEF Take
  <2>2. PICK stack, top, name, path :
          stack = s.stack /\ top = Top(s) /\ name = s.key[1] /\ path = Append(top, name)
    OBVIOUS
  <2>3. top \in Seq(Seq(Chars)) /\ name \in Seq(Chars)
    <3>1. stack \in Seq(Seq(Seq(Chars))) /\ stack # <<>>
      BY <1>5, <2>2 DEF Parsing
    <3>2. Len(stack) \in 1..Len(stack)
      BY <3>1, EmptySeq
    <3>3. top \in Seq(Seq(Chars))
      <4>1. PICK Q : Q = Seq(Seq(Chars))
        OBVIOUS
      <4>2. stack \in Seq(Q)
        BY <3>1, <4>1
      <4>3. stack[Len(stack)] \in Q
        BY <3>2, <4>2, ElementOfSeq
      <4> QED
        BY <2>2, <4>1, <4>3 DEF Top, Last
    <3>4. PICK word \in Seq(Chars) : s.key = <<word>>
      BY <1>5 DEF Parsing
    <3>5. name = word
      BY <2>2, <3>4
    <3> QED
      BY <3>3, <3>5
  <2>4. path \in Seq(Seq(Chars))
    BY <2>2, <2>3, AppendProperties
  <2>5. PICK after : after = [s EXCEPT !.key = <<>>]
    OBVIOUS
  <2>6. after.tree = t /\ after = [tree |-> t, stack |-> stack, brackets |-> after.brackets,
                                   key |-> <<>>, end |-> after.end]
    BY <1>1, <2>2, <2>5 DEF Parsing
  <2>7. u = IF t[top] # Domain THEN [s EXCEPT !.end = "thrown"]
            ELSE IF token.type = "bracket"
                 THEN [after EXCEPT !.brackets = @ + 1, !.stack = Append(@, path),
                                    !.tree = AddChild(@, path, Domain)]
            ELSE IF token.type = "value"
                 THEN [after EXCEPT !.tree = AddChild(@, path, Convert(token.text))]
            ELSE after
    BY <1>1, <2>1, <2>2, <2>5, Zenon DEF Member
  <2>8. u.tree = t \/ u.tree = AddChild(t, path, Domain)
        \/ (token.type = "value" /\ u.tree = AddChild(t, path, Convert(token.text)))
    <3>1. CASE t[top] # Domain
      BY <1>3, <2>7, <3>1
    <3>2. CASE t[top] = Domain /\ token.type = "bracket"
      <4>1. u = [after EXCEPT !.brackets = @ + 1, !.stack = Append(@, path),
                              !.tree = AddChild(@, path, Domain)]
        BY <2>7, <3>2
      <4>2. u.tree = AddChild(t, path, Domain)
        BY <2>6, <4>1
      <4> QED
        BY <4>2
    <3>3. CASE t[top] = Domain /\ token.type = "value"
      <4>1. u = [after EXCEPT !.tree = AddChild(@, path, Convert(token.text))]
        BY <2>7, <3>3
      <4>2. u.tree = AddChild(t, path, Convert(token.text))
        BY <2>6, <4>1
      <4> QED
        BY <3>3, <4>2
    <3>4. CASE t[top] = Domain /\ token.type # "bracket" /\ token.type # "value"
      BY <2>6, <2>7, <3>4
    <3> QED
      BY <3>1, <3>2, <3>3, <3>4
  <2>9. \A node : AddChild(t, path, node) = t \/ (path \notin DOMAIN t /\ AddChild(t, path, node) = Put(t, path, node))
    BY DEF AddChild
  <2> QED
    BY <1>1, <2>4, <2>8, <2>9 DEF Grows
<1>6. CASE Going(s) /\ s.key = <<>> /\ s.stack = <<>>
  <2>1. u = [s EXCEPT !.end = "undefined"]
    BY <1>1, <1>6, Zenon DEF Take
  <2> QED
    BY <1>1, <1>3, <2>1 DEF Grows
<1>7. CASE Going(s) /\ s.key = <<>> /\ s.stack # <<>>
  <2>1. u.tree = t
    <3>1. CASE token.type = "bracket"
      <4>1. u = Brace(s, token)
        BY <1>1, <1>7, <3>1, Zenon DEF Take
      <4>2. PICK end : end = IF s.brackets = 1 THEN "done" ELSE "going"
        OBVIOUS
      <4>3. u = [s EXCEPT !.end = "thrown"]
            \/ u = [s EXCEPT !.brackets = @ - 1, !.stack = Front(@), !.end = end]
        BY <4>1, <4>2, Zenon DEF Brace
      <4>4. [s EXCEPT !.brackets = @ - 1, !.stack = Front(@), !.end = end].tree = t
        BY <1>1 DEF Parsing
      <4> QED
        BY <1>3, <4>3, <4>4
    <3>2. CASE token.type = "key"
      <4>1. token.type # "bracket" /\ token.type # "value"
        BY <3>2
      <4>2. u = [s EXCEPT !.key = <<token.text>>]
        BY <1>1, <1>7, <3>2, <4>1, Zenon DEF Take
      <4> QED
        BY <1>1, <4>2 DEF Parsing
    <3>3. CASE token.type = "value"
      <4>1. token.type # "bracket" /\ token.type # "key"
        BY <3>3
      <4>2. u = [s EXCEPT !.end = "endless"]
        BY <1>1, <1>7, <3>3, <4>1, Zenon DEF Take
      <4> QED
        BY <1>3, <4>2
    <3> QED
      BY <1>2, <3>1, <3>2, <3>3
  <2> QED
    BY <1>1, <2>1 DEF Grows
<1> QED
  BY <1>4, <1>5, <1>6, <1>7

LEMMA GrowsWithin ==
  ASSUME NEW t, NEW u, NEW token, Grows(t, u, token)
  PROVE  Within(t, u)
BY DEF Grows, Within, Put

\* A path more is still a tree that can be written, where it is rooted.
LEMMA PutIsWritable ==
  ASSUME NEW t, Writable(t), NEW path, path \in Seq(Seq(Chars)), NEW node,
         node # Domain => Proper(node), Rooted(Put(t, path, node))
  PROVE  Writable(Put(t, path, node))
<1>1. PICK u : u = Put(t, path, node)
  OBVIOUS
<1>2. DOMAIN u = DOMAIN t \cup {path} /\ u[path] = node /\ \A q \in DOMAIN t \ {path} : u[q] = t[q]
  BY <1>1 DEF Put
<1>3. IsFiniteSet(DOMAIN u)
  <2>1. IsFiniteSet(DOMAIN t)
    BY DEF Writable
  <2> QED
    BY <1>2, <2>1, FS_AddElement
<1>4. DOMAIN u \subseteq Seq(Seq(Chars))
  BY <1>2 DEF Writable
<1>5. \A q \in DOMAIN u : u[q] # Domain => Proper(u[q])
  BY <1>2 DEF Writable
<1>6. \E depth \in Nat : \A q \in DOMAIN u : Len(q) <= depth
  <2>1. PICK depth \in Nat : \A q \in DOMAIN t : Len(q) <= depth
    BY DEF Writable
  <2>2. Len(path) \in Nat /\ \A q \in DOMAIN t : Len(q) \in Nat
    BY LenProperties, WritableIs
  <2>3. depth + Len(path) \in Nat /\ \A q \in DOMAIN u : Len(q) <= depth + Len(path)
    BY <1>2, <2>1, <2>2
  <2> QED
    BY <2>3
<1> QED
  BY <1>1, <1>3, <1>4, <1>5, <1>6 DEF Writable

\* convert takes the quotes away,
LEMMA ConvertQuoted ==
  ASSUME NEW C, NEW word \in Seq(C), word # <<>>, word[1] = Quote
  PROVE  Convert(word) = [kind |-> "string", text |-> SubSeq(word, 2, Len(word) - 1)]
<1>1. Head(word) = Quote /\ 1 \in DOMAIN word
  BY HeadTailProperties, EmptySeq
<1>2. Quote # "1" /\ Quote # "true"
  BY DEF Quote
<1>3. ~(\A i \in DOMAIN word : word[i] = "1")
  BY <1>1, <1>2
<1>4. word # <<"true">>
  BY <1>1, <1>2
<1>5. word \notin Reals
  <2>1. Quote \notin ValueChars
    BY CharsAre
  <2>2. word \notin Words
    BY <2>1, ElementOfSeq, LenProperties DEF Words
  <2> QED
    BY <2>2, ConfigAssumption
<1> QED
  BY <1>1, <1>3, <1>4, <1>5, Zenon DEF Convert

\* and leaves another word as it is.
LEMMA ConvertIsProper ==
  ASSUME NEW word, ValueWord(word)
  PROVE  Proper(Convert(word))
<1>1. word \in Seq(Chars) /\ word # <<>> /\ Head(word) = word[1]
  BY HeadTailProperties DEF ValueWord
<1>2. CASE Head(word) = Quote
  <2>1. PICK inner : inner = SubSeq(word, 2, Len(word) - 1)
    OBVIOUS
  <2>2. inner \in Seq(Chars)
    <3>1. Len(word) \in Nat
      BY <1>1, LenProperties
    <3>2. \A i \in 2..Len(word) - 1 : word[i] \in Chars
      BY <1>1, <3>1, ElementOfSeq
    <3>3. PICK m : m = Len(word) - 1
      OBVIOUS
    <3>4. SubSeq(word, 2, m) \in Seq(Chars)
      BY <3>1, <3>2, <3>3, SubSeqProperties
    <3> QED
      BY <2>1, <3>3, <3>4
  <2>3. Convert(word) = [kind |-> "string", text |-> inner]
    BY <1>1, <1>2, <2>1, ConvertQuoted
  <2>4. Proper([kind |-> "string", text |-> inner])
    BY <2>2 DEF Proper
  <2> QED
    BY <2>3, <2>4
<1>3. CASE Head(word) # Quote
  <2>1. PICK kind \in {"string", "integer", "real", "bool"} :
          Convert(word) = [kind |-> kind, text |-> word]
    <3>1. PICK ones, real, true :
            /\ ones = \A i \in DOMAIN word : word[i] = "1"
            /\ real = (word \in Reals) /\ true = (word = <<"true">>)
      OBVIOUS
    <3> QED
      BY <1>3 DEF Convert
  <2>2. word \in Words
    BY <1>1, <1>3 DEF ValueWord, Words
  <2>3. Convert(word).kind = kind /\ Convert(word).text = word
    BY <2>1
  <2> QED
    BY <1>1, <2>1, <2>2, <2>3 DEF Proper
<1> QED
  BY <1>2, <1>3

LEMMA GrowsWritable ==
  ASSUME NEW t, Writable(t), NEW token, GoodToken(token), NEW u, Grows(t, u, token), Rooted(u)
  PROVE  Writable(u)
<1>1. CASE u = t
  BY <1>1
<1>2. CASE u # t
  <2>1. PICK path \in Seq(Seq(Chars)) \ DOMAIN t :
          \E node : /\ u = Put(t, path, node)
                    /\ node = Domain \/ (token.type = "value" /\ node = Convert(token.text))
    BY <1>2 DEF Grows
  <2>2. PICK node : /\ u = Put(t, path, node)
                    /\ node = Domain \/ (token.type = "value" /\ node = Convert(token.text))
    BY <2>1
  <2>3. node # Domain => Proper(node)
    BY <2>2, ConvertIsProper DEF GoodToken
  <2> QED
    BY <2>2, <2>3, PutIsWritable
<1> QED
  BY <1>1, <1>2

LEMMA RunGrows ==
  ASSUME NEW s \in Parsing(Chars), NEW ts \in Seq(TokensOf(Chars))
  PROVE  /\ Within(s.tree, Run(s, ts).tree)
         /\ Writable(s.tree) /\ Good(ts) => Writable(Run(s, ts).tree)
<1>1. PICK n, u : n = Len(ts) /\ u = Run(s, ts)
  OBVIOUS
<1>2. n \in Nat /\ \A i \in 1..n : ts[i] \in TokensOf(Chars)
  BY <1>1, LenProperties, ElementOfSeq
<1>3. \E h : RunsBy(Chars, h, s, ts, u)
  BY <1>1, RunStates
<1>4. PICK h : RunsBy(Chars, h, s, ts, u)
  BY <1>3, Zenon
<1>5. /\ h \in [0..n -> Parsing(Chars)] /\ h[0] = s /\ h[n] = u
      /\ \A i \in 1..n : h[i] = Take(h[i - 1], ts[i])
  BY <1>1, <1>4 DEF RunsBy
<1>6. PICK P : P = {k \in 0..n : /\ Within(s.tree, h[k].tree)
                                 /\ Writable(s.tree) /\ Good(ts) => Writable(h[k].tree)}
  OBVIOUS
<1>7. 0 \in P
  BY <1>2, <1>5, <1>6 DEF Within
<1>8. ASSUME NEW k \in 1..n, k - 1 \in P PROVE k \in P
  <2>1. k - 1 \in 0..n /\ k \in 0..n
    BY <1>2
  <2>2. PICK x, y, token : x = h[k - 1] /\ y = h[k] /\ token = ts[k]
    OBVIOUS
  <2>3. x \in Parsing(Chars) /\ y \in Parsing(Chars) /\ y = Take(x, token) /\ token \in TokensOf(Chars)
    BY <1>2, <1>5, <2>1, <2>2
  <2>4. Grows(x.tree, y.tree, token)
    BY <2>3, TakeGrows
  <2>5. Within(x.tree, y.tree)
    BY <2>4, GrowsWithin
  <2>6. Within(s.tree, y.tree)
    BY <1>6, <1>8, <2>2, <2>5 DEF Within
  <2>7. Rooted(y.tree)
    BY <2>3 DEF Parsing
  <2>8. Writable(s.tree) /\ Good(ts) => Writable(y.tree)
    <3>1. ASSUME Writable(s.tree), Good(ts) PROVE Writable(y.tree)
      <4>1. Writable(x.tree)
        BY <1>6, <1>8, <2>2, <3>1
      <4>2. GoodToken(token)
        BY <1>1, <2>2, <3>1 DEF Good
      <4> QED
        BY <2>4, <2>7, <4>1, <4>2, GrowsWritable
    <3> QED
      BY <3>1
  <2> QED
    BY <1>6, <2>1, <2>2, <2>6, <2>8
<1>9. \A k \in 0..n : k \in P
  BY <1>2, <1>7, <1>8, StepByStep
<1>10. n \in P
  BY <1>2, <1>9
<1> QED
  BY <1>1, <1>5, <1>6, <1>10

LEMMA EmptyTreeIsWritable == Writable(EmptyTree)
<1>1. PICK root : root = <<>>
  OBVIOUS
<1>2. DOMAIN EmptyTree = {root} /\ EmptyTree[root] = Domain
  BY <1>1 DEF EmptyTree
<1>3. IsFiniteSet({root})
  BY FS_Singleton
<1>4. root \in Seq(Seq(Chars)) /\ Len(root) = 0
  BY <1>1
<1>5. \E depth \in Nat : \A path \in DOMAIN EmptyTree : Len(path) <= depth
  BY <1>2, <1>4
<1> QED
  BY <1>2, <1>3, <1>4, <1>5, EmptyTreeIsRooted DEF Writable

\* What the parser starts from, and what it is given.
LEMMA BuiltRuns ==
  ASSUME NEW tokens \in Seq(TokensOf(Chars))
  PROVE  /\ tokens # <<>> /\ Head(tokens) = OpenToken => Built(tokens) = Run(Opened(1), Tail(tokens))
         /\ tokens = <<>> \/ Head(tokens) # OpenToken => Built(tokens) = Run(Opened(0), tokens)
<1>1. PICK brace : brace = Token("bracket", <<"{">>)
  OBVIOUS
<1>2. brace = OpenToken
  BY <1>1, Zenon DEF OpenToken, Opener
<1>3. Built(tokens) =
        Run(Opened(Opening(tokens)),
                 IF tokens # <<>> /\ Head(tokens) = brace THEN Tail(tokens) ELSE tokens)
  BY <1>1, Zenon DEF Built, Opened, Run
<1>4. Opening(tokens) = IF tokens # <<>> /\ Head(tokens) = brace THEN 1 ELSE 0
  BY <1>1, Zenon DEF Opening
<1>5. CASE tokens # <<>> /\ Head(tokens) = brace
  <2>1. Opening(tokens) = 1
    BY <1>4, <1>5
  <2>2. Built(tokens) = Run(Opened(1), Tail(tokens))
    BY <1>3, <1>5, <2>1, Zenon
  <2> QED
    BY <1>2, <1>5, <2>2, Zenon
<1>6. CASE tokens = <<>> \/ Head(tokens) # brace
  <2>1. Opening(tokens) = 0
    BY <1>4, <1>6
  <2>2. Built(tokens) = Run(Opened(0), tokens)
    BY <1>3, <1>6, <2>1, Zenon
  <2> QED
    BY <1>2, <1>6, <2>2, Zenon
<1> QED
  BY <1>5, <1>6

LEMMA BuiltIsWritable ==
  ASSUME NEW tokens, Good(tokens)
  PROVE  Writable(Built(tokens).tree)
<1>1. tokens \in Seq(TokensOf(Chars))
  BY DEF Good
<1>2. \A b : Opened(b).tree = EmptyTree
  BY DEF Opened
<1>3. CASE tokens # <<>> /\ Head(tokens) = OpenToken
  <2>1. PICK s, ts : s = Opened(1) /\ ts = Tail(tokens)
    OBVIOUS
  <2>2. /\ ts \in Seq(TokensOf(Chars)) /\ Len(ts) = Len(tokens) - 1 /\ Len(tokens) \in Nat
        /\ \A i \in 1..Len(tokens) - 1 : ts[i] = tokens[i + 1]
    BY <1>1, <1>3, <2>1, HeadTailProperties, LenProperties
  <2>3. ASSUME NEW i \in 1..Len(ts) PROVE GoodToken(ts[i])
    <3>1. i + 1 \in 1..Len(tokens) /\ i \in 1..Len(tokens) - 1
      BY <2>2
    <3>2. GoodToken(tokens[i + 1])
      BY <3>1 DEF Good
    <3> QED
      BY <2>2, <3>1, <3>2
  <2>4. Good(ts)
    BY <2>2, <2>3 DEF Good
  <2>5. s \in Parsing(Chars) /\ Writable(s.tree)
    BY <1>2, <2>1, OpenedIs, EmptyTreeIsWritable
  <2>6. Writable(Run(s, ts).tree)
    BY <2>2, <2>4, <2>5, RunGrows
  <2> QED
    BY <1>1, <1>3, <2>1, <2>6, BuiltRuns
<1>4. CASE tokens = <<>> \/ Head(tokens) # OpenToken
  <2>1. PICK s : s = Opened(0)
    OBVIOUS
  <2>2. s \in Parsing(Chars) /\ Writable(s.tree)
    BY <1>2, <2>1, OpenedIs, EmptyTreeIsWritable
  <2>3. Writable(Run(s, tokens).tree)
    BY <1>1, <2>2, RunGrows
  <2> QED
    BY <1>1, <1>4, <2>1, <2>3, BuiltRuns
<1> QED
  BY <1>3, <1>4

-----------------------------------------------------------------------------
(* A file that was cut short.                                              *)

LEMMA SettingsWithin ==
  ASSUME NEW t, NEW u, Within(t, u)
  PROVE  Settings(t) \subseteq Settings(u)
BY DEF Settings, Within

LEMMA NothingIsBuilt ==
  /\ Built(<<>>).tree = EmptyTree /\ Built(<<>>).end = "going"
  /\ Settings(EmptyTree) = {}
<1>1. PICK none, s : none = <<>> /\ s = Opened(0)
  OBVIOUS
<1>2. none \in Seq(TokensOf(Chars)) /\ s \in Parsing(Chars)
  BY <1>1, OpenedIs
<1>3. Built(none) = Run(s, none)
  BY <1>1, <1>2, BuiltRuns
<1>4. Run(s, none) = s
  BY <1>1, <1>2, RunNone
<1>5. s.tree = EmptyTree /\ s.end = "going"
  BY <1>1 DEF Opened
<1>6. Settings(EmptyTree) = {}
  BY DEF Settings, EmptyTree
<1> QED
  BY <1>1, <1>3, <1>4, <1>5, <1>6

\* What is built of the first tokens of a tree is part of it.
LEMMA FirstTokens ==
  ASSUME NEW us \in Seq(TokensOf(Chars)), NEW vs \in Seq(TokensOf(Chars)), us # <<>>, us[1] = OpenToken
  PROVE  Within(Built(us).tree, Built(us \o vs).tree)
<1>1. PICK T, all, ts, s : T = TokensOf(Chars) /\ all = us \o vs /\ ts = Tail(us) /\ s = Opened(1)
  OBVIOUS
<1>2. us \in Seq(T) /\ vs \in Seq(T)
  BY <1>1
<1>3. /\ all \in Seq(T) /\ ts \in Seq(T) /\ all # <<>>
      /\ Head(us) = OpenToken /\ Head(all) = OpenToken /\ Tail(all) = ts \o vs
  <2>1. /\ Len(us) \in Nat \ {0} /\ Len(vs) \in Nat /\ all \in Seq(T) /\ Len(all) = Len(us) + Len(vs)
        /\ \A i \in 1..Len(us) : all[i] = us[i]
        /\ \A i \in 1..Len(vs) : all[Len(us) + i] = vs[i]
    BY <1>1, <1>2, ConcatIs, EmptySeq
  <2>2. all # <<>> /\ all[1] = OpenToken
    <3>1. 1 \in 1..Len(us)
      BY <2>1
    <3>2. all[1] = us[1]
      BY <2>1, <3>1
    <3>3. Len(all) # 0
      BY <2>1
    <3> QED
      BY <2>1, <3>2, <3>3, EmptySeq
  <2>3. /\ ts \in Seq(T) /\ Len(ts) = Len(us) - 1 /\ Head(us) = us[1]
        /\ \A i \in 1..Len(us) - 1 : ts[i] = us[i + 1]
    BY <1>1, <1>2, HeadTailProperties
  <2>4. PICK tail, more : tail = Tail(all) /\ more = ts \o vs
    OBVIOUS
  <2>5. /\ tail \in Seq(T) /\ Len(tail) = Len(all) - 1 /\ Head(all) = all[1]
        /\ \A i \in 1..Len(all) - 1 : tail[i] = all[i + 1]
    BY <2>1, <2>2, <2>4, HeadTailProperties
  <2>6. /\ more \in Seq(T) /\ Len(more) = Len(ts) + Len(vs)
        /\ \A i \in 1..Len(ts) : more[i] = ts[i]
        /\ \A i \in 1..Len(vs) : more[Len(ts) + i] = vs[i]
    <3>1. ts \in Seq(T) /\ vs \in Seq(T) /\ more = ts \o vs
      BY <1>2, <2>3, <2>4
    <3>2. /\ ts \o vs \in Seq(T) /\ Len(ts \o vs) = Len(ts) + Len(vs)
          /\ \A i \in 1..Len(ts) : (ts \o vs)[i] = ts[i]
          /\ \A i \in 1..Len(vs) : (ts \o vs)[Len(ts) + i] = vs[i]
      BY ONLY <3>1, ConcatIs
    <3> QED
      BY ONLY <3>1, <3>2
  <2>7. ASSUME NEW i \in 1..Len(all) - 1 PROVE tail[i] = more[i]
    <3>1. CASE i <= Len(ts)
      <4>1. i \in 1..Len(ts) /\ i + 1 \in 1..Len(us) /\ i \in 1..Len(us) - 1
        BY <2>1, <2>3, <3>1
      <4> QED
        BY <2>1, <2>3, <2>5, <2>6, <4>1
    <3>2. CASE i > Len(ts)
      <4>1. PICK j : j = i - Len(ts)
        OBVIOUS
      <4>2. j \in 1..Len(vs) /\ Len(ts) + j = i /\ Len(us) + j = i + 1
        BY <2>1, <2>3, <3>2, <4>1
      <4> QED
        BY <2>1, <2>5, <2>6, <4>2
    <3> QED
      BY <2>1, <2>3, <3>1, <3>2
  <2>8. Len(tail) = Len(more) /\ Len(tail) = Len(all) - 1
    BY <2>1, <2>3, <2>5, <2>6
  <2>9. tail = more
    BY <2>5, <2>6, <2>7, <2>8, SeqEqual
  <2> QED
    BY <2>1, <2>2, <2>3, <2>4, <2>5, <2>9
<1>4. Built(us) = Run(s, ts) /\ Built(all) = Run(s, ts \o vs)
  BY <1>1, <1>2, <1>3, BuiltRuns
<1>5. s \in Parsing(Chars)
  BY <1>1, OpenedIs
<1>6. PICK u : u = Run(s, ts)
  OBVIOUS
<1>7. u \in Parsing(Chars)
  BY <1>1, <1>3, <1>5, <1>6, RunParses
<1>8. Run(s, ts \o vs) = Run(u, vs)
  <2>1. ts \in Seq(TokensOf(Chars)) /\ vs \in Seq(TokensOf(Chars))
    BY <1>1, <1>3
  <2>2. Run(s, ts \o vs) = Run(Run(s, ts), vs)
    BY ONLY <2>1, <1>5, RunConcat
  <2> QED
    BY ONLY <1>6, <2>2
<1>9. Within(u.tree, Run(u, vs).tree)
  BY <1>7, RunGrows
<1> QED
  BY <1>1, <1>4, <1>6, <1>8, <1>9

LEMMA TwoParts ==
  ASSUME NEW C, NEW w \in Seq(C), NEW n \in 0..Len(w)
  PROVE  /\ SubSeq(w, 1, n) \in Seq(C) /\ SubSeq(w, n + 1, Len(w)) \in Seq(C)
         /\ w = SubSeq(w, 1, n) \o SubSeq(w, n + 1, Len(w))
<1>1. PICK m, k, a, b, all : m = Len(w) /\ k = n + 1 /\ a = SubSeq(w, 1, n) /\ b = SubSeq(w, k, m) /\ all = a \o b
  OBVIOUS
<1>2. m \in Nat /\ n \in Nat /\ n <= m /\ k \in Nat
  BY <1>1, LenProperties
<1>3. a \in Seq(C) /\ Len(a) = n /\ \A i \in 1..n : a[i] = w[i]
  <2>1. \A i \in 1..n : w[i] \in C
    BY <1>1, <1>2, ElementOfSeq
  <2> QED
    BY <1>1, <1>2, <2>1, SubSeqProperties
<1>4. b \in Seq(C) /\ Len(b) = m - n /\ \A i \in 1..m - n : b[i] = w[n + i]
  <2>1. \A i \in k..m : w[i] \in C
    BY <1>1, <1>2, ElementOfSeq
  <2>2. /\ b \in Seq(C) /\ Len(b) = (IF k <= m THEN m - k + 1 ELSE 0)
        /\ \A i \in 1..m - k + 1 : b[i] = w[k + i - 1]
    BY <1>1, <1>2, <2>1, SubSeqProperties
  <2>3. m - k + 1 = m - n /\ \A i \in 1..m - n : k + i - 1 = n + i
    BY <1>1, <1>2
  <2> QED
    BY <1>1, <1>2, <2>2, <2>3
<1>5. /\ all \in Seq(C) /\ Len(all) = Len(a) + Len(b)
      /\ \A i \in 1..Len(a) : all[i] = a[i]
      /\ \A i \in 1..Len(b) : all[Len(a) + i] = b[i]
  <2>1. a \in Seq(C) /\ b \in Seq(C) /\ all = a \o b
    BY <1>1, <1>3, <1>4
  <2>2. /\ a \o b \in Seq(C) /\ Len(a \o b) = Len(a) + Len(b)
        /\ \A i \in 1..Len(a) : (a \o b)[i] = a[i]
        /\ \A i \in 1..Len(b) : (a \o b)[Len(a) + i] = b[i]
    BY ONLY <2>1, ConcatIs
  <2> QED
    BY ONLY <2>1, <2>2
<1>6. ASSUME NEW i \in 1..m PROVE all[i] = w[i]
  <2>1. CASE i <= n
    BY <1>2, <1>3, <1>5, <2>1
  <2>2. CASE i > n
    <3>1. i - n \in 1..m - n /\ n + (i - n) = i
      BY <1>2, <2>2
    <3> QED
      BY <1>3, <1>4, <1>5, <3>1
  <2> QED
    BY <1>2, <2>1, <2>2
<1>7. Len(all) = m
  BY <1>2, <1>3, <1>4, <1>5
<1>8. all = w
  BY <1>1, <1>5, <1>6, <1>7, SeqEqual
<1> QED
  BY <1>1, <1>3, <1>4, <1>8

\* What a part of a written file is read as.
PartOf(t, n, text) ==
  LET lexed == Tokens(text)
      built == Built(lexed.tokens)
  IN  /\ ~lexed.thrown /\ built.end \notin {"undefined", "endless"}
      /\ Settings(built.tree) \subseteq Settings(ReadBack(t))
      /\ n = Len(Written(t)) => built.tree = ReadBack(t)

LEMMA PartIsRead ==
  ASSUME NEW t, Writable(t), Clean(t), NEW n \in 0..Len(Written(t))
  PROVE  PartOf(t, n, SubSeq(Written(t), 1, n))
<1>1. PICK ts : RoundTrip(t, ts)
  BY TreeIsReadBack
<1>2. PICK full, m : full = Written(t) /\ m = Len(full)
  OBVIOUS
<1>3. /\ full \in Seq(Chars) /\ n \in 0..m /\ ts \in Seq(TokensOf(Chars)) /\ ts # <<>> /\ ts[1] = OpenToken
      /\ Lex(Start, full).at = "ValueEnd" /\ Lex(Start, full).tokens = ts
      /\ Built(ts).tree = ReadBack(t) /\ Built(ts).end = "done"
  BY <1>1, <1>2 DEF RoundTrip
<1>4. PICK text, rest : text = SubSeq(full, 1, n) /\ rest = SubSeq(full, n + 1, m)
  OBVIOUS
<1>5. text \in Seq(Chars) /\ rest \in Seq(Chars) /\ full = text \o rest
  BY <1>2, <1>3, <1>4, TwoParts
<1>6. PICK start, s : start = Start /\ s = Lex(start, text)
  OBVIOUS
<1>7. start \in Lexed(Chars)
  BY <1>6, StartIs
<1>8. s \in Lexed(Chars)
  BY <1>5, <1>6, <1>7, LexIs
<1>9. Lex(start, full) = Lex(s, rest)
  BY <1>5, <1>6, <1>7, LexConcat
<1>10. Adding(s, Lex(s, rest))
  BY <1>5, <1>8, LexAdds
<1>11. PICK vs \in Seq(TokensOf(Chars)) : ts = s.tokens \o vs
  BY <1>3, <1>6, <1>9, <1>10 DEF Adding
<1>12. s.at # "thrown"
  BY <1>3, <1>6, <1>9, <1>10 DEF Adding
<1>13. PICK tokens, built : tokens = Tokens(text).tokens /\ built = Built(tokens)
  OBVIOUS
<1>14. ~Tokens(text).thrown /\ tokens = IF s.at = "ValueEnd" THEN s.tokens ELSE <<>>
  BY <1>6, <1>12, <1>13 DEF Tokens, Lex, Accepted
<1>15. built.end \notin {"undefined", "endless"} /\ Settings(built.tree) \subseteq Settings(ReadBack(t))
  <2>1. CASE tokens = <<>>
    BY <1>13, <2>1, NothingIsBuilt
  <2>2. CASE tokens # <<>>
    <3>1. tokens = s.tokens
      BY <1>14, <2>2
    <3>2. tokens \in Seq(TokensOf(Chars)) /\ InOrder(tokens)
      BY <1>8, <3>1 DEF Lexed
    <3>3. tokens[1] = OpenToken /\ Head(tokens) = OpenToken
      <4>1. Len(tokens) \in Nat \ {0}
        BY <2>2, <3>2, EmptySeq
      <4>2. 1 \in 1..Len(tokens)
        BY <4>1
      <4>3. ts[1] = tokens[1]
        BY <1>11, <3>1, <3>2, <4>2, ConcatIs
      <4> QED
        BY <1>3, <2>2, <3>2, <4>3, HeadTailProperties
    <3>4. Within(built.tree, Built(tokens \o vs).tree)
      BY <1>13, <2>2, <3>2, <3>3, FirstTokens
    <3>5. Within(built.tree, ReadBack(t))
      BY <1>3, <1>11, <3>1, <3>4
    <3>6. built.end # "endless" /\ built.end # "undefined"
      <4>1. PICK brace : brace = Token("bracket", <<"{">>)
        OBVIOUS
      <4>2. brace = OpenToken
        BY <4>1, Zenon DEF OpenToken, Opener
      <4>3. built.end # "endless" /\ (Head(tokens) = brace => built.end # "undefined")
        BY <1>13, <3>2, <4>1, BuiltIs, Zenon
      <4> QED
        BY <3>3, <4>2, <4>3
    <3> QED
      BY <3>5, <3>6, SettingsWithin
  <2> QED
    BY <2>1, <2>2
<1>16. ASSUME n = m PROVE built.tree = ReadBack(t)
  <2>1. text = full
    BY <1>3, <1>4, <1>2, <1>16, NoneAndAll
  <2>2. tokens = ts
    BY <1>3, <1>6, <1>14, <2>1
  <2> QED
    BY <1>3, <1>13, <2>2
<1> QED
  BY <1>2, <1>4, <1>13, <1>14, <1>15, <1>16 DEF PartOf

-----------------------------------------------------------------------------
(* The inductive invariant of the files.                                   *)

TreeIsWritable == tree = NoRoot \/ Writable(tree)
FileIsWritten ==
  file # Missing =>
    /\ file.of = NoRoot \/ Writable(file.of)
    /\ ~HasEmpty(file.of)
    /\ \E n \in 0..Len(Written(file.of)) :
         /\ file.text = SubSeq(Written(file.of), 1, n)
         /\ file.whole => n = Len(Written(file.of))
FirstReads == status = "new" => source = Missing
SInv == TreeIsWritable /\ FileIsWritten /\ FirstReads /\ SettingsSurviveExport

LEMMA NothingIsWritten == Written(NoRoot) = <<>>
BY DEF Written

LEMMA FileIsText2 ==
  ASSUME FileIsWritten, file # Missing
  PROVE  file.text \in Seq(Chars)
<1>1. PICK t, text : t = file.of /\ text = Written(t)
  OBVIOUS
<1>2. text \in Seq(Chars)
  <2>1. CASE t = NoRoot
    BY <1>1, <2>1, NothingIsWritten, PunctuationIsText
  <2>2. CASE Writable(t)
    <3>1. PICK f \in [DOMAIN t -> Seq(Chars)] : Written(t) = f[<<>>]
      BY <2>2, WrittenIs
    <3>2. <<>> \in DOMAIN t
      BY <2>2 DEF Writable, Rooted, IsDomain
    <3> QED
      BY <1>1, <3>1, <3>2
  <2> QED
    BY <1>1, <2>1, <2>2 DEF FileIsWritten
<1>3. PICK n \in 0..Len(text) : file.text = SubSeq(text, 1, n)
  BY <1>1 DEF FileIsWritten
<1> QED
  BY <1>2, <1>3, TwoParts

LEMMA LoadIsWritable ==
  ASSUME TreeIsWritable, NEW text \in Seq(Chars), Load(text)
  PROVE  TreeIsWritable'
<1>1. PICK built : built = Built(Tokens(text).tokens)
  OBVIOUS
<1>2. tree' = IF Tokens(text).thrown THEN tree ELSE built.tree
  BY <1>1, Zenon DEF Load
<1>3. Writable(built.tree)
  BY <1>1, TokensAreGood, BuiltIsWritable
<1>4. PICK t : t = tree'
  OBVIOUS
<1>5. t = NoRoot \/ Writable(t)
  BY <1>2, <1>3, <1>4 DEF TreeIsWritable
<1> QED
  BY <1>4, <1>5 DEF TreeIsWritable

\* An insertion adds first names of its key, a finite number of them.
LEMMA SetIsWritable ==
  ASSUME NEW t, t = NoRoot \/ Writable(t), NEW key \in Seq(Seq(Chars)), NEW value, Proper(value),
         NEW u, Set(t, u, key, value)
  PROVE  Writable(u)
<1>1. Rooted(u)
  BY DEF Set
<1>2. DOMAIN t \subseteq Seq(Seq(Chars)) /\ IsFiniteSet(DOMAIN t)
      /\ (\A path \in DOMAIN t : t[path] # Domain => Proper(t[path]))
      /\ \E depth \in Nat : \A path \in DOMAIN t : Len(path) <= depth
  <2>1. CASE t = NoRoot
    <3>1. DOMAIN t = {}
      BY <2>1 DEF NoRoot
    <3>2. IsFiniteSet({})
      BY FS_EmptySet
    <3>3. 0 \in Nat
      OBVIOUS
    <3> QED
      BY <3>1, <3>2, <3>3
  <2>2. CASE Writable(t)
    BY <2>2 DEF Writable
  <2> QED
    BY <2>1, <2>2
<1>3. PICK n, I, f, S : /\ n = Len(key) /\ I = 0..n /\ f = [i \in I |-> SubSeq(key, 1, i)]
                        /\ S = {SubSeq(key, 1, i) : i \in I}
  OBVIOUS
<1>4. n \in Nat
  BY <1>3, LenProperties
<1>5. IsFiniteSet(S)
  <2>1. IsFiniteSet(I)
    BY <1>3, <1>4, FS_Interval
  <2>2. f \in Surjection(I, S)
    BY <1>3 DEF Surjection
  <2> QED
    BY <2>1, <2>2, FS_Surjection
<1>6. \A q \in S : q \in Seq(Seq(Chars)) /\ Len(q) \in Nat /\ Len(q) <= n
  <2>1. ASSUME NEW i \in I PROVE SubSeq(key, 1, i) \in Seq(Seq(Chars)) /\ Len(SubSeq(key, 1, i)) = i
    <3>1. \A j \in 1..i : key[j] \in Seq(Chars)
      BY <1>3, <1>4, ElementOfSeq
    <3>2. PICK N, q : N = Seq(Chars) /\ q = SubSeq(key, 1, i)
      OBVIOUS
    <3>3. i \in Int /\ 1 \in Int /\ i >= 0
      BY <1>3, <1>4
    <3>4. \A j \in 1..i : key[j] \in N
      BY <3>1, <3>2
    <3>5. SubSeq(key, 1, i) \in Seq(N) /\ Len(SubSeq(key, 1, i)) = (IF 1 <= i THEN i - 1 + 1 ELSE 0)
      BY ONLY <3>3, <3>4, SubSeqProperties
    <3>6. q \in Seq(N) /\ Len(q) = (IF 1 <= i THEN i - 1 + 1 ELSE 0)
      BY ONLY <3>2, <3>5
    <3>7. Len(q) = i
      BY ONLY <3>3, <3>6
    <3> QED
      BY ONLY <3>2, <3>6, <3>7
  <2>2. ASSUME NEW q \in S PROVE q \in Seq(Seq(Chars)) /\ Len(q) \in Nat /\ Len(q) <= n
    <3>1. PICK i \in I : q = SubSeq(key, 1, i)
      BY <1>3
    <3>2. i \in Nat /\ i <= n
      BY <1>3, <1>4
    <3>3. q \in Seq(Seq(Chars)) /\ Len(q) = i
      BY <2>1, <3>1
    <3> QED
      BY <3>2, <3>3
  <2> QED
    BY <2>2
<1>7. DOMAIN u \subseteq DOMAIN t \cup S
  <2>1. PICK N : DOMAIN u \subseteq Seq(N)
    BY <1>1 DEF Rooted
  <2>2. key \in S
    <3>1. n \in I /\ SubSeq(key, 1, n) = key
      BY <1>3, <1>4, NoneAndAll
    <3> QED
      BY <1>3, <3>1
  <2>3. ASSUME NEW q \in DOMAIN u, q # key, q \notin DOMAIN t PROVE q \in S
    <3>1. IsStrictPrefix(q, key)
      BY <2>3 DEF Set
    <3>2. PICK i : i = Len(q)
      OBVIOUS
    <3>3. q \in Seq(N) /\ i \in Nat
      BY <2>1, <3>2, LenProperties
    <3>4. i <= n /\ SubSeq(q, 1, i) = SubSeq(key, 1, i)
      BY <1>3, <3>1, <3>2 DEF IsStrictPrefix, IsPrefix
    <3>5. SubSeq(q, 1, i) = q
      BY <3>2, <3>3, NoneAndAll
    <3>6. i \in I
      BY <1>3, <1>4, <3>3, <3>4
    <3> QED
      BY <1>3, <3>4, <3>5, <3>6
  <2> QED
    BY <2>2, <2>3
<1>8. IsFiniteSet(DOMAIN u)
  <2>1. IsFiniteSet(DOMAIN t \cup S)
    BY <1>2, <1>5, FS_Union
  <2> QED
    BY <1>7, <2>1, FS_Subset
<1>9. DOMAIN u \subseteq Seq(Seq(Chars))
  BY <1>2, <1>6, <1>7
<1>10. ASSUME NEW q \in DOMAIN u, u[q] # Domain PROVE Proper(u[q])
  <2>1. CASE q = key
    <3>1. u[q] = value
      BY <1>10, <2>1 DEF Set, Get, IsDomain
    <3> QED
      BY <3>1
  <2>2. CASE q # key
    <3>1. q \in DOMAIN t /\ u[q] = t[q]
      BY <1>10, <2>2 DEF Set
    <3> QED
      BY <1>2, <1>10, <3>1
  <2> QED
    BY <2>1, <2>2
<1>11. \E depth \in Nat : \A q \in DOMAIN u : Len(q) <= depth
  <2>1. PICK depth \in Nat : \A q \in DOMAIN t : Len(q) <= depth
    BY <1>2
  <2>2. \A q \in DOMAIN t : Len(q) \in Nat
    BY <1>2, LenProperties
  <2>3. depth + n \in Nat /\ \A q \in DOMAIN u : Len(q) <= depth + n
    BY <1>4, <1>6, <1>7, <2>1, <2>2
  <2> QED
    BY <2>3
<1> QED
  BY <1>1, <1>8, <1>9, <1>10, <1>11 DEF Writable

LEMMA NoSourceSurvives == source' = Missing => SettingsSurviveExport'
BY DEF SettingsSurviveExport

LEMMA InitIsWritable == Init => SInv
<1> SUFFICES ASSUME Init PROVE SInv
  OBVIOUS
<1>1. tree = NoRoot /\ file = Missing /\ source = Missing
  BY DEF Init
<1> QED
  BY <1>1 DEF SInv, TreeIsWritable, FileIsWritten, FirstReads, SettingsSurviveExport

LEMMA ConstructSurvives ==
  ASSUME SInv, Construct \/ ConstructWithoutFile
  PROVE  SInv'
<1>1. source' = Missing /\ file' = file /\ (tree' = EmptyTree \/ tree' = tree)
  BY DEF Construct, ConstructWithoutFile, SInv, FirstReads
<1>2. TreeIsWritable'
  <2>1. PICK t : t = tree'
    OBVIOUS
  <2>2. t = NoRoot \/ Writable(t)
    BY <1>1, <2>1, EmptyTreeIsWritable DEF SInv, TreeIsWritable
  <2> QED
    BY <2>1, <2>2 DEF TreeIsWritable
<1>3. FileIsWritten'
  BY <1>1 DEF SInv, FileIsWritten
<1>4. FirstReads'
  BY <1>1 DEF FirstReads
<1> QED
  BY <1>1, <1>2, <1>3, <1>4, NoSourceSurvives DEF SInv

LEMMA LoadHasStarted ==
  ASSUME NEW text, Load(text)
  PROVE  status' # "new"
<1>1. PICK built : built = Built(Tokens(text).tokens)
  OBVIOUS
<1>2. status' = IF ~Tokens(text).thrown /\ built.end \in {"undefined", "endless"}
                THEN built.end ELSE "running"
  BY <1>1, Zenon DEF Load
<1> QED
  BY <1>2

LEMMA ConstructFromSurvives ==
  ASSUME SInv, NEW text \in Texts, ConstructFrom(text)
  PROVE  SInv'
<1>1. text \in Seq(Chars) /\ Load(text) /\ file' = file
      /\ source' = [text |-> text, of |-> Missing, whole |-> TRUE]
  BY ConfigAssumption DEF ConstructFrom
<1>2. TreeIsWritable'
  BY <1>1, LoadIsWritable DEF SInv
<1>3. FileIsWritten'
  BY <1>1 DEF SInv, FileIsWritten
<1>4. FirstReads'
  BY <1>1, LoadHasStarted DEF FirstReads
<1>5. SettingsSurviveExport'
  <2>1. source'.of = Missing
    BY <1>1
  <2> QED
    BY <2>1 DEF SettingsSurviveExport
<1> QED
  BY <1>2, <1>3, <1>4, <1>5 DEF SInv

LEMMA InsertSurvives ==
  ASSUME GInv, SInv, NEW key \in Keys, NEW value \in Values, Insert(key, value)
  PROVE  SInv'
<1>1. source' = Missing /\ file' = file /\ status' = "running"
  BY DEF Insert
<1>2. TreeIsWritable'
  <2>1. tree' = tree \/ Set(tree, tree', key, value)
    BY InsertIs
  <2>2. key \in Seq(Seq(Chars)) /\ Proper(value)
    BY KeysAre, ConfigAssumption
  <2>3. PICK t : t = tree'
    OBVIOUS
  <2>4. t = tree \/ Set(tree, t, key, value)
    BY <2>1, <2>3
  <2>5. t = NoRoot \/ Writable(t)
    BY <2>2, <2>4, SetIsWritable DEF SInv, TreeIsWritable
  <2> QED
    BY <2>3, <2>5 DEF TreeIsWritable
<1>3. FileIsWritten'
  BY <1>1 DEF SInv, FileIsWritten
<1>4. FirstReads'
  BY <1>1 DEF FirstReads
<1> QED
  BY <1>1, <1>2, <1>3, <1>4, NoSourceSurvives DEF SInv

LEMMA ExportSurvives ==
  ASSUME SInv, Export
  PROVE  SInv'
<1>1. source' = Missing /\ tree' = tree /\ status' = "running"
  BY DEF Export
<1>2. PICK t, text : t = tree /\ text = Written(t)
  OBVIOUS
<1>3. PICK n \in 0..Len(text) :
        file' = [text |-> SubSeq(text, 1, n), of |-> t, whole |-> n = Len(text)]
  BY <1>2 DEF Export
<1>4. file'.text = SubSeq(text, 1, n) /\ file'.of = t /\ (file'.whole <=> n = Len(text))
  <2>1. PICK part : part = SubSeq(text, 1, n)
    OBVIOUS
  <2>2. file' = [text |-> part, of |-> t, whole |-> n = Len(text)]
    BY <1>3, <2>1
  <2> QED
    BY <2>1, <2>2
<1>5. t = NoRoot \/ Writable(t)
  BY <1>2 DEF SInv, TreeIsWritable
<1>9. ~HasEmpty(t)
  BY <1>2 DEF Export
<1>6. FileIsWritten'
  <2>1. PICK file2 : file2 = file'
    OBVIOUS
  <2>2. /\ file2.of = NoRoot \/ Writable(file2.of)
        /\ ~HasEmpty(file2.of)
        /\ \E k \in 0..Len(Written(file2.of)) :
             /\ file2.text = SubSeq(Written(file2.of), 1, k)
             /\ file2.whole => k = Len(Written(file2.of))
    BY <1>2, <1>4, <1>5, <1>9, <2>1
  <2> QED
    BY <2>1, <2>2 DEF FileIsWritten
<1>7. TreeIsWritable'
  BY <1>1 DEF SInv, TreeIsWritable
<1>8. FirstReads'
  BY <1>1 DEF FirstReads
<1> QED
  BY <1>1, <1>6, <1>7, <1>8, NoSourceSurvives DEF SInv

LEMMA RereadNothing ==
  ASSUME NEW none, none = <<>>
  PROVE  LET lexed == Tokens(none)
             built == Built(lexed.tokens)
         IN  /\ ~lexed.thrown /\ built.tree = EmptyTree /\ built.end = "going"
             /\ Settings(built.tree) = {}
<1>1. none \in Seq(Chars)
  BY EmptySeq
<1>2. PICK start : start = Start
  OBVIOUS
<1>3. start \in Lexed(Chars) /\ start.at = "Ready"
  BY <1>2, StartIs DEF Start
<1>4. Lex(start, none) = start
  BY <1>3, LexNone
<1>5. PICK tokens : tokens = Tokens(none).tokens
  OBVIOUS
<1>6. ~Tokens(none).thrown /\ tokens = none
  BY <1>2, <1>3, <1>4, <1>5 DEF Tokens, Lex, Accepted
<1>7. Built(tokens).tree = EmptyTree /\ Built(tokens).end = "going" /\ Settings(EmptyTree) = {}
  BY <1>6, NothingIsBuilt
<1> QED
  BY <1>5, <1>6, <1>7

\* What is read back is what was written, up to the digits of reals.
LEMMA QuotesAreTaken ==
  ASSUME NEW w, PlainText(w)
  PROVE  Convert(Quoted(w)) = [kind |-> "string", text |-> w]
<1>1. PICK q, one, C, word : q = Quote /\ one = <<q>> /\ C = Chars /\ word = (one \o w) \o one
  OBVIOUS
<1>2. q \in C /\ one \in Seq(C) /\ w \in Seq(C) /\ Len(one) = 1 /\ one[1] = q
  <2>1. q \in C
    BY <1>1, CharsAre, Zenon
  <2> QED
    BY <1>1, <2>1 DEF PlainText
<1>3. PICK n : n = Len(w)
  OBVIOUS
<1>4. /\ n \in Nat /\ word \in Seq(C) /\ Len(word) = n + 2 /\ word[1] = q
      /\ \A i \in 1..n : word[i + 1] = w[i]
  <2>1. PICK v : v = one \o w
    OBVIOUS
  <2>2. n \in Nat /\ DOMAIN w = 1..n
    BY <1>2, <1>3
  <2>3. /\ v \in Seq(C) /\ Len(v) = n + 1 /\ v[1] = q
        /\ \A i \in 1..n : v[i + 1] = w[i]
    <3>1. one \in Seq(C) /\ w \in Seq(C)
      BY <1>2
    <3>2. /\ one \o w \in Seq(C) /\ Len(one \o w) = Len(one) + Len(w)
          /\ \A i \in 1..Len(one) : (one \o w)[i] = one[i]
          /\ \A i \in 1..Len(w) : (one \o w)[Len(one) + i] = w[i]
      BY ONLY <3>1, ConcatIs
    <3>3. 1 \in 1..Len(one) /\ Len(one) = 1 /\ \A i \in 1..n : 1 + i = i + 1
      BY <1>2, <2>2
    <3> QED
      BY <1>2, <1>3, <2>1, <2>2, <3>2, <3>3
  <2>4. word = v \o one
    BY <1>1, <2>1
  <2>a. v \in Seq(C) /\ one \in Seq(C)
    BY <1>2, <2>3
  <2>b. /\ v \o one \in Seq(C) /\ Len(v \o one) = Len(v) + Len(one)
        /\ \A i \in 1..Len(v) : (v \o one)[i] = v[i]
    BY ONLY <2>a, ConcatIs
  <2>5. word \in Seq(C) /\ Len(word) = (n + 1) + 1
    BY <1>2, <2>3, <2>4, <2>b
  <2>6. \A i \in 1..n + 1 : word[i] = v[i]
    BY <2>3, <2>4, <2>b
  <2> QED
    BY <2>2, <2>3, <2>5, <2>6
<1>5. SubSeq(word, 2, n + 1) = w
  <2>1. PICK u : u = SubSeq(word, 2, n + 1)
    OBVIOUS
  <2>2. u \in Seq(C) /\ Len(u) = n /\ \A i \in 1..n : u[i] = word[i + 1]
    BY <1>4, <2>1
  <2>3. \A i \in 1..n : u[i] = w[i]
    BY <1>4, <2>2
  <2> QED
    BY <1>2, <1>3, <2>1, <2>2, <2>3
<1>6. Quoted(w) = word
  BY <1>1, PlainIs
<1>7. 1 \in DOMAIN word /\ Len(word) - 1 = n + 1
  BY <1>4
<1>8. Convert(word) = [kind |-> "string", text |-> SubSeq(word, 2, Len(word) - 1)]
  <2>1. word # <<>>
    BY <1>7
  <2> QED
    BY <1>1, <1>4, <2>1, ConvertQuoted
<1> QED
  BY <1>5, <1>6, <1>7, <1>8

LEMMA ValuesComeBack ==
  ASSUME NEW v, PlainValue(v), v # Domain
  PROVE  Convert(ValueText(v)) = IF v.kind = "real" THEN Convert(Printed(v.text)) ELSE v
<1>1. CASE v.kind = "string"
  <2>1. PICK w : w = v.text
    OBVIOUS
  <2>2. v = [kind |-> "string", text |-> w]
    BY <1>1, <2>1 DEF PlainValue, Proper
  <2>3. PlainText(w)
    BY <2>1 DEF PlainValue
  <2>4. ValueText(v) = Quoted(w)
    BY <1>1, <2>1 DEF ValueText
  <2> QED
    BY <1>1, <2>2, <2>3, <2>4, QuotesAreTaken
<1>2. CASE v.kind = "real"
  BY <1>2 DEF ValueText
<1>3. CASE v.kind \in {"integer", "bool"}
  <2>1. ValueText(v) = v.text
    BY <1>3 DEF ValueText
  <2> QED
    BY <1>3, <2>1 DEF PlainValue, Proper
<1> QED
  BY <1>1, <1>2, <1>3 DEF PlainValue, Proper

LEMMA TreeComesBack ==
  ASSUME NEW t, Writable(t), Clean(t)
  PROVE  ReadBack(t) = Reread(t)
<1>1. ASSUME NEW path \in DOMAIN t PROVE ReadBack(t)[path] = Reread(t)[path]
  <2>1. CASE t[path] = Domain
    BY <2>1 DEF ReadBack, Reread
  <2>2. CASE t[path] # Domain
    <3>1. path # <<>>
      BY <2>2, WritableIs
    <3>2. PICK v : v = t[path]
      OBVIOUS
    <3>3. PlainValue(v) /\ v # Domain
      BY <2>2, <3>1, <3>2, PlainTree
    <3>4. ReadBack(t)[path] = Convert(ValueText(v))
      BY <2>2, <3>2 DEF ReadBack
    <3>5. Reread(t)[path] = IF v.kind = "real" THEN Convert(Printed(v.text)) ELSE v
      BY <2>2, <3>2 DEF Reread
    <3> QED
      BY <3>3, <3>4, <3>5, ValuesComeBack
  <2> QED
    BY <2>1, <2>2
<1>2. /\ ReadBack(t) = [path \in DOMAIN t |-> ReadBack(t)[path]]
      /\ Reread(t) = [path \in DOMAIN t |-> Reread(t)[path]]
  BY DEF ReadBack, Reread
<1> QED
  BY <1>1, <1>2

\* What the properties of one file say once it has been read.
Survives(t, read, whole) ==
  /\ Settings(read) \subseteq Settings(Reread(t))
  /\ whole => read = IF t = NoRoot THEN EmptyTree ELSE Reread(t)

LEMMA FileSurvives ==
  ASSUME FileIsWritten, file # Missing, Load(file.text), Plain(file.of)
  PROVE  status' = "running" /\ Survives(file.of, tree', file.whole)
<1>1. PICK t, text, built : t = file.of /\ text = file.text /\ built = Built(Tokens(text).tokens)
  OBVIOUS
<1>2. PICK n \in 0..Len(Written(t)) : /\ text = SubSeq(Written(t), 1, n)
                                      /\ file.whole => n = Len(Written(t))
  BY <1>1 DEF FileIsWritten
<1>3. /\ tree' = IF Tokens(text).thrown THEN tree ELSE built.tree
      /\ status' = IF ~Tokens(text).thrown /\ built.end \in {"undefined", "endless"}
                   THEN built.end ELSE "running"
  BY <1>1, Zenon DEF Load
<1>4. CASE t = NoRoot
  <2>1. PICK none : none = Written(t)
    OBVIOUS
  <2>2. none = <<>>
    BY <1>4, <2>1, NothingIsWritten
  <2>3. none \in Seq(Chars) /\ Len(none) = 0
    BY <2>2, EmptySeq
  <2>4. n = 0
    BY <1>2, <2>1, <2>3
  <2>5. text = <<>>
    BY <1>2, <2>1, <2>3, <2>4, NoneAndAll
  <2>6. /\ ~Tokens(text).thrown /\ built.tree = EmptyTree /\ built.end = "going"
        /\ Settings(built.tree) = {}
    BY <1>1, <2>5, RereadNothing
  <2>7. tree' = EmptyTree /\ status' = "running" /\ Settings(EmptyTree) = {}
    BY <1>3, <2>6
  <2> QED
    BY <1>1, <1>4, <2>7 DEF Survives
<1>5. CASE t # NoRoot
  <2>1. Writable(t)
    BY <1>1, <1>5 DEF FileIsWritten
  <2>a. Clean(t)
    BY <1>1 DEF FileIsWritten, Clean
  <2>2. PartOf(t, n, text) /\ ReadBack(t) = Reread(t)
    BY <1>1, <1>2, <2>1, <2>a, PartIsRead, TreeComesBack
  <2>3. /\ ~Tokens(text).thrown /\ built.end \notin {"undefined", "endless"}
        /\ Settings(built.tree) \subseteq Settings(Reread(t))
        /\ n = Len(Written(t)) => built.tree = Reread(t)
    BY <1>1, <2>2, Zenon DEF PartOf
  <2>4. tree' = built.tree /\ status' = "running"
    BY <1>3, <2>3
  <2> QED
    BY <1>1, <1>2, <1>5, <2>3, <2>4 DEF Survives
<1> QED
  BY <1>4, <1>5

LEMMA ReadSurvives ==
  ASSUME SInv, Read
  PROVE  SInv'
<1>1. file # Missing /\ Load(file.text) /\ source' = file /\ file' = file
  BY DEF Read
<1>2. FileIsWritten
  BY DEF SInv
<1>3. PICK text \in Seq(Chars) : text = file.text
  BY <1>1, <1>2, FileIsText2
<1>4. TreeIsWritable'
  BY <1>1, <1>3, LoadIsWritable DEF SInv
<1>5. FileIsWritten'
  BY <1>1, <1>2 DEF FileIsWritten
<1>6. FirstReads'
  BY <1>1, LoadHasStarted DEF FirstReads
<1>7. SettingsSurviveExport'
  <2>1. Plain(file.of) => status' = "running" /\ Survives(file.of, tree', file.whole)
    BY <1>1, <1>2, FileSurvives
  <2> QED
    BY <1>1, <2>1 DEF Survives, SettingsSurviveExport
<1> QED
  BY <1>4, <1>5, <1>6, <1>7 DEF SInv

LEMMA CrashSurvives ==
  ASSUME SInv, ExportCrashes
  PROVE  SInv'
<1>1. source' = Missing /\ tree' = tree /\ file' = file /\ status' = "crashed"
  BY DEF ExportCrashes
<1>2. TreeIsWritable' /\ FileIsWritten' /\ FirstReads'
  BY <1>1 DEF SInv, TreeIsWritable, FileIsWritten, FirstReads
<1> QED
  BY <1>1, <1>2, NoSourceSurvives DEF SInv

LEMMA StutterSurvives ==
  ASSUME SInv, UNCHANGED vars
  PROVE  SInv'
BY DEF SInv, vars, TreeIsWritable, FileIsWritten, FirstReads, SettingsSurviveExport

LEMMA EveryStepSurvives == GInv /\ SInv /\ [Next]_vars => SInv'
<1> SUFFICES ASSUME GInv, SInv, [Next]_vars PROVE SInv'
  OBVIOUS
<1>1. CASE Construct \/ ConstructWithoutFile
  BY <1>1, ConstructSurvives
<1>2. CASE \E text \in Texts : ConstructFrom(text)
  BY <1>2, ConstructFromSurvives
<1>3. CASE \E key \in Keys, value \in Values : Insert(key, value)
  BY <1>3, InsertSurvives
<1>4. CASE Export
  BY <1>4, ExportSurvives
<1>5. CASE Read
  BY <1>5, ReadSurvives
<1>6. CASE UNCHANGED vars
  BY <1>6, StutterSurvives
<1>7. CASE ExportCrashes
  BY <1>7, CrashSurvives
<1> QED
  BY <1>1, <1>2, <1>3, <1>4, <1>5, <1>6, <1>7 DEF Next

-----------------------------------------------------------------------------
(* Theorems. *)

THEOREM Invariant == Spec => []GInv
BY InitIsGood, EveryStepKeeps, PTL DEF Spec

\* Every path of the tree leads from the root through domains, whatever insert,
\* the parser and a file that was cut short have done with it.
THEOREM TreeStaysRooted == Spec => [](tree = NoRoot \/ Rooted(tree))
<1>1. GInv => (tree = NoRoot \/ Rooted(tree))
  BY DEF GInv, TreeIsRooted
<1> QED
  BY <1>1, Invariant, PTL

\* Whatever text is read, parse_and_set comes to an end, and it pops no more
\* domains than it has pushed if the text begins with a brace.
THEOREM ParserAlwaysReturns == Spec => []ParserReturns
<1>1. GInv => ParserReturns
  BY DEF GInv
<1> QED
  BY <1>1, Invariant, PTL

\* insert sets one key, or changes nothing.
THEOREM InsertionsAreAtomic == Spec => InsertIsAtomic
<1>1. Read => source' # Missing
  BY DEF Read
<1>2. GInv /\ [Next]_vars => [AtomicStep]_vars
  BY <1>1, EveryStepIsAtomic DEF AtomicStep
<1>3. Spec => [][AtomicStep]_vars
  BY <1>2, Invariant, PTL DEF Spec
<1> QED
  BY <1>3 DEF InsertIsAtomic, AtomicStep

\* What export_all has written, read_from reads back: all of a whole file, and
\* from a file that was cut short no setting that was not written.  For every
\* tree whose names and strings std::quoted writes as they are.
THEOREM SettingsSurvive == Spec => []SettingsSurviveExport
<1>1. SInv => SettingsSurviveExport
  BY DEF SInv
<1> QED
  BY <1>1, InitIsWritable, EveryStepSurvives, Invariant, PTL DEF Spec
=============================================================================
