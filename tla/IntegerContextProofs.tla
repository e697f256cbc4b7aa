------------------------- MODULE IntegerContextProofs -------------------------
(***************************************************************************)
(* What IntegerContext guarantees for contexts of any size, any number of  *)
(* integers and numbers of any length, whatever the order in which a hash  *)
(* table lists the nodes.                                                  *)
(***************************************************************************)
EXTENDS IntegerContext, FiniteSetTheorems, SequenceTheorems,
        WellFoundedInduction, TLAPS

-----------------------------------------------------------------------------
(* Induction over numbers, and functions that are defined by it.           *)

LEMMA LeastNumber ==
  ASSUME NEW T, T \subseteq Nat, T # {}
  PROVE  \E m \in T : \A n \in T : m <= n
<1>1. IsWellFoundedOn(OpToRel(<, Nat), Nat)
  BY NatLessThanWellFounded
<1>2. PICK m \in T : \A n \in T : ~ (<<n, m>> \in OpToRel(<, Nat))
  BY <1>1, WFMin, Zenon
<1>3. ASSUME NEW n \in T PROVE m <= n
  <2>1. ~ (<<n, m>> \in OpToRel(<, Nat))
    BY <1>2, Zenon
  <2>2. m \in Nat /\ n \in Nat
    OBVIOUS
  <2>3. n < m => <<n, m>> \in OpToRel(<, Nat)
    BY <2>2 DEF OpToRel
  <2>4. ~ (n < m)
    BY <2>1, <2>3, Zenon
  <2> QED
    BY <2>2, <2>4
<1> QED
  BY <1>3, Zenon

\* What holds at the start and is kept by every step holds up to the end.
LEMMA StepByStep ==
  ASSUME NEW n \in Nat, NEW P, 0 \in P, \A k \in 1..n : k - 1 \in P => k \in P
  PROVE  \A k \in 0..n : k \in P
<1> SUFFICES ASSUME NEW j \in 0..n, j \notin P PROVE FALSE
  OBVIOUS
<1>1. PICK T : T = {k \in 0..n : k \notin P}
  OBVIOUS
<1>a. T \subseteq Nat /\ T # {}
  BY <1>1
<1>2. PICK m \in T : \A k \in T : m <= k
  BY <1>a, LeastNumber
<1>3. m \in 1..n /\ m - 1 \in 0..n
  BY <1>1
<1>4. m - 1 \notin T
  BY <1>2, <1>3
<1> QED
  BY <1>1, <1>3, <1>4

\* The same if each step may look at all that went before.
LEMMA AfterAllBefore ==
  ASSUME NEW n \in Nat, NEW P, \A k \in 1..n : (\A j \in 1..k - 1 : j \in P) => k \in P
  PROVE  \A k \in 1..n : k \in P
<1> SUFFICES ASSUME NEW j \in 1..n, j \notin P PROVE FALSE
  OBVIOUS
<1>1. PICK T : T = {k \in 1..n : k \notin P}
  OBVIOUS
<1>a. T \subseteq Nat /\ T # {}
  BY <1>1
<1>2. PICK m \in T : \A k \in T : m <= k
  BY <1>a, LeastNumber
<1>3. m \in 1..n /\ \A k \in 1..m - 1 : k \in 1..n
  BY <1>1
<1>4. \A k \in 1..m - 1 : k \notin T
  BY <1>2, <1>3
<1> QED
  BY <1>1, <1>3, <1>4

LEMMA MaxIs ==
  ASSUME NEW s, NEW n \in Nat, s \subseteq 1..n, s # {}
  PROVE  Max(s) \in s /\ \A k \in s : k <= Max(s)
<1>1. PICK T : T = {n - k : k \in s}
  OBVIOUS
<1>a. \A k \in s : n - k \in Nat
  OBVIOUS
<1>2. T \subseteq Nat /\ T # {}
  BY <1>1, <1>a
<1>3. PICK m \in T : \A j \in T : m <= j
  BY <1>2, LeastNumber
<1>4. PICK x \in s : m = n - x
  BY <1>1
<1>5. \A k \in s : x >= k
  BY <1>1, <1>3, <1>4
<1>6. Max(s) \in s /\ \A k \in s : Max(s) >= k
  BY <1>4, <1>5 DEF Max
<1>7. \A k \in s : k \in Int
  OBVIOUS
<1> QED
  BY <1>6, <1>7

LEMMA MinIs ==
  ASSUME NEW s, s \subseteq Nat, s # {}
  PROVE  Min(s) \in s /\ \A k \in s : Min(s) <= k
<1>1. \E m \in s : \A k \in s : m <= k
  BY LeastNumber
<1> QED
  BY <1>1 DEF Min

\* A fold takes the last position out of a set of positions. There is a function
\* on these sets that does what step says.
Folds(g, base, step, n) ==
  \A s \in SUBSET (1..n) :
    g[s] = IF s = {} THEN base ELSE step[<<Max(s), g[s \ {Max(s)}]>>]

LEMMA FoldExists ==
  ASSUME NEW n \in Nat, NEW State, NEW base \in State,
         NEW step \in [(1..n) \X State -> State]
  PROVE  \E g \in [SUBSET (1..n) -> State] : Folds(g, base, step, n)
<1> DEFINE Upto(k) == {s \in SUBSET (1..n) : s \subseteq 1..k}
           Eq(g, s) == IF s = {} THEN base ELSE step[<<Max(s), g[s \ {Max(s)}]>>]
           Ok(k) == \E g \in [Upto(k) -> State] : \A s \in Upto(k) : g[s] = Eq(g, s)
           P == {k \in 0..n : Ok(k)}
<1>1. \A s \in SUBSET (1..n) : s # {} => Max(s) \in s /\ Max(s) \in 1..n
  BY MaxIs
<1>2. Ok(0)
  <2>1. PICK g : g = [s \in Upto(0) |-> base]
    OBVIOUS
  <2>2. \A s \in Upto(0) : s = {}
    OBVIOUS
  <2>3. g \in [Upto(0) -> State] /\ \A s \in Upto(0) : g[s] = Eq(g, s)
    BY <2>1, <2>2
  <2> QED
    BY <2>3
<1>3. ASSUME NEW k \in 1..n, Ok(k - 1) PROVE Ok(k)
  <2>1. PICK g \in [Upto(k - 1) -> State] : \A s \in Upto(k - 1) : g[s] = Eq(g, s)
    BY <1>3
  <2>2. PICK h : h = [s \in Upto(k) |-> IF s \in Upto(k - 1) THEN g[s] ELSE Eq(g, s)]
    OBVIOUS
  <2>3. \A s \in Upto(k) : s # {} => s \ {Max(s)} \in Upto(k - 1)
    <3> SUFFICES ASSUME NEW s \in Upto(k), s # {}, NEW x \in s \ {Max(s)}
                 PROVE  x \in 1..k - 1
      OBVIOUS
    <3>1. Max(s) \in s /\ x <= Max(s) /\ Max(s) \in 1..k /\ x \in 1..k
      BY MaxIs
    <3> QED
      BY <3>1
  <2>4. Upto(k - 1) \subseteq Upto(k)
    OBVIOUS
  <2>5. \A s \in Upto(k) : s # {} => <<Max(s), g[s \ {Max(s)}]>> \in (1..n) \X State
    BY <1>1, <2>3
  <2> HIDE DEF Upto
  <2>6. \A s \in Upto(k) : h[s] \in State /\ h[s] = Eq(g, s)
    BY <2>1, <2>2, <2>5
  <2>7. \A s \in Upto(k - 1) : h[s] = g[s]
    BY <2>2, <2>4
  <2>8. h \in [Upto(k) -> State]
    BY <2>2, <2>6
  <2>9. \A s \in Upto(k) : Eq(h, s) = Eq(g, s)
    BY <2>3, <2>7
  <2> QED
    BY <2>6, <2>8, <2>9
<1>4. \A k \in 0..n : k \in P
  <2> HIDE DEF Ok
  <2>1. 0 \in P /\ \A k \in 1..n : k - 1 \in P => k \in P
    BY <1>2, <1>3
  <2> HIDE DEF P
  <2> QED
    BY <2>1, StepByStep
<1>5. n \in P
  <2>1. n \in 0..n
    OBVIOUS
  <2> HIDE DEF P
  <2> QED
    BY <1>4, <2>1
<1>a. Upto(n) = SUBSET (1..n)
  OBVIOUS
<1>6. PICK g \in [SUBSET (1..n) -> State] : \A s \in SUBSET (1..n) : g[s] = Eq(g, s)
  BY <1>5, <1>a
<1> QED
  BY <1>6 DEF Folds

\* Read from the first position on, it is a computation.
Runs(h, base, step, n) == h[0] = base /\ \A k \in 1..n : h[k] = step[<<k, h[k - 1]>>]

LEMMA FoldRuns ==
  ASSUME NEW n \in Nat, NEW g, NEW base, NEW step, Folds(g, base, step, n)
  PROVE  Runs([k \in 0..n |-> g[1..k]], base, step, n)
<1>1. 1..0 = {} /\ \A k \in 0..n : 1..k \in SUBSET (1..n)
  OBVIOUS
<1>2. g[1..0] = base
  BY <1>1 DEF Folds
<1>3. ASSUME NEW k \in 1..n PROVE g[1..k] = step[<<k, g[1..k - 1]>>]
  <2>1. 1..k \in SUBSET (1..n) /\ 1..k # {} /\ k \in 1..k
    OBVIOUS
  <2>a. 1..k \subseteq 1..n
    BY <2>1
  <2>2. Max(1..k) \in 1..k /\ \A j \in 1..k : j <= Max(1..k)
    BY <2>1, <2>a, MaxIs, Zenon
  <2>3. Max(1..k) = k /\ (1..k) \ {k} = 1..k - 1
    BY <2>1, <2>2
  <2>4. g[1..k] = step[<<Max(1..k), g[(1..k) \ {Max(1..k)}]>>]
    BY <2>1 DEF Folds
  <2> QED
    BY <2>3, <2>4
<1> QED
  BY <1>2, <1>3 DEF Runs

-----------------------------------------------------------------------------
(* Lists of nodes, and what their units compute.                           *)

Node == [a : 0..MaxNodes, b : 0..MaxNodes, data : Data, units : Nat]
Number == 1 - Modulus..Modulus - 1

\* Operands stand before their operation; only constants have data.
Ordered(list) ==
  \A n \in DOMAIN list :
    /\ {list[n].a, list[n].b} \subseteq 0..n - 1
    /\ (list[n].a = 0) = (list[n].b = 0)
    /\ (list[n].data = Pending) = (list[n].a # 0)

\* There are more nodes than may be made only after an update, which gives each
\* integer a node of its own.
Roomy(list) == Len(list) <= MaxNodes \/ \A n \in DOMAIN list : list[n].a = 0

SoundList(list) == list \in Seq(Node) /\ Ordered(list) /\ Roomy(list)

LEMMA TruncatedIsNumber ==
  ASSUME NEW n \in Int
  PROVE  Truncated(n) \in Number
<1>1. Modulus \in Nat /\ Modulus > 0
  BY ContextAssumption
<1>2. \A i \in Nat : i % Modulus \in 0..Modulus - 1
  BY <1>1
<1>3. CASE n >= 0
  <2>1. Truncated(n) = n % Modulus
    BY <1>3 DEF Truncated
  <2>2. n % Modulus \in 0..Modulus - 1
    BY <1>2, <1>3
  <2> QED
    BY <2>1, <2>2, <1>1 DEF Number
<1>4. CASE n < 0
  <2>1. Truncated(n) = -((-n) % Modulus)
    BY <1>4 DEF Truncated
  <2>2. (-n) % Modulus \in 0..Modulus - 1
    BY <1>2, <1>4
  <2> QED
    BY <2>1, <2>2, <1>1 DEF Number
<1> QED
  BY <1>3, <1>4

LEMMA NumbersAreData ==
  /\ Data = Number \cup {Pending} /\ Pending \notin Number /\ Gone \notin Number
  /\ 0 \in Number /\ Numbers \subseteq Number
  /\ Number \subseteq Int
<1>1. Modulus \in Nat \ {0} /\ Numbers \subseteq Number /\ {Pending, Gone} \cap Number = {}
  BY ContextAssumption DEF Number
<1>2. Data = Number \cup {Pending}
  BY <1>1 DEF Data, Number
<1>3. 0 \in Number /\ Number \subseteq Int
  BY <1>1 DEF Number
<1> QED
  BY <1>1, <1>2, <1>3

LEMMA ListParts ==
  ASSUME NEW list, SoundList(list)
  PROVE  /\ Len(list) \in Nat /\ DOMAIN list = 1..Len(list)
         /\ list = [n \in 1..Len(list) |-> list[n]]
         /\ \A n \in 1..Len(list) :
              /\ list[n] \in Node
              /\ list[n].a \in 0..n - 1 /\ list[n].b \in 0..n - 1
              /\ (list[n].a = 0) = (list[n].b = 0)
              /\ list[n].a = 0 => list[n].data \in Number
              /\ list[n].a # 0 => list[n].data = Pending
<1>1. list \in Seq(Node) /\ Ordered(list)
  BY DEF SoundList
<1>2. Len(list) \in Nat /\ DOMAIN list = 1..Len(list) /\ list \in [1..Len(list) -> Node]
  BY <1>1
<1>a. list = [n \in 1..Len(list) |-> list[n]]
  BY <1>2
<1>3. ASSUME NEW n \in 1..Len(list)
      PROVE  /\ list[n] \in Node
             /\ list[n].a \in 0..n - 1 /\ list[n].b \in 0..n - 1
             /\ (list[n].a = 0) = (list[n].b = 0)
             /\ list[n].a = 0 => list[n].data \in Number
             /\ list[n].a # 0 => list[n].data = Pending
  <2>1. list[n] \in Node
    BY <1>2
  <2>2. list[n].data \in Data
    BY <2>1 DEF Node
  <2>3. /\ {list[n].a, list[n].b} \subseteq 0..n - 1
        /\ (list[n].a = 0) = (list[n].b = 0)
        /\ (list[n].data = Pending) = (list[n].a # 0)
    BY <1>1, <1>2 DEF Ordered
  <2> QED
    BY <2>1, <2>2, <2>3, NumbersAreData
<1> QED
  BY <1>2, <1>3, <1>a

\* r is what the units of the list compute.
ComputedBy(list, r) ==
  r = [n \in DOMAIN list |-> IF list[n].a = 0 THEN list[n].data
                             ELSE Truncated(r[list[n].a] + r[list[n].b])]
Values(list) == CHOOSE r : ComputedBy(list, r)

LEMMA ComputedExists ==
  ASSUME NEW list, SoundList(list)
  PROVE  \E r \in [1..Len(list) -> Number] : ComputedBy(list, r)
<1> DEFINE n == Len(list)
           Eq(r, i) == IF list[i].a = 0 THEN list[i].data
                       ELSE Truncated(r[list[i].a] + r[list[i].b])
           Ok(k) == \E r \in [1..k -> Number] : \A i \in 1..k : r[i] = Eq(r, i)
           P == {k \in 0..n : Ok(k)}
<1>1. /\ n \in Nat /\ DOMAIN list = 1..n
      /\ \A i \in 1..n : /\ list[i].a \in 0..i - 1 /\ list[i].b \in 0..i - 1
                         /\ (list[i].a = 0) = (list[i].b = 0)
                         /\ list[i].a = 0 => list[i].data \in Number
  BY ListParts
<1> HIDE DEF n
<1>2. Ok(0)
  <2>1. PICK r : r = [i \in 1..0 |-> 0]
    OBVIOUS
  <2>2. r \in [1..0 -> Number]
    BY <2>1
  <2>3. \A i \in 1..0 : r[i] = Eq(r, i)
    <3>1. 1..0 = {}
      OBVIOUS
    <3> QED
      BY <3>1, Zenon
  <2> HIDE DEF Eq
  <2> QED
    BY <2>2, <2>3
<1>3. ASSUME NEW k \in 1..n, Ok(k - 1) PROVE Ok(k)
  <2>1. PICK r \in [1..k - 1 -> Number] : \A i \in 1..k - 1 : r[i] = Eq(r, i)
    BY <1>3
  <2>2. PICK s : s = [i \in 1..k |-> IF i = k THEN Eq(r, k) ELSE r[i]]
    OBVIOUS
  <2>3. Eq(r, k) \in Number
    <3>1. CASE list[k].a = 0
      BY <1>1, <3>1
    <3>2. CASE list[k].a # 0
      <4>1. list[k].a \in 1..k - 1 /\ list[k].b \in 1..k - 1
        BY <1>1, <3>2
      <4>2. r[list[k].a] \in Int /\ r[list[k].b] \in Int
        BY <4>1, NumbersAreData
      <4>3. r[list[k].a] + r[list[k].b] \in Int
        BY <4>2
      <4> QED
        BY <3>2, <4>3, TruncatedIsNumber
    <3> QED
      BY <3>1, <3>2
  <2>4. \A i \in 1..k : i # k => i \in 1..k - 1
    OBVIOUS
  <2>5. s \in [1..k -> Number]
    BY <2>2, <2>3, <2>4
  <2>6. \A i \in 1..k - 1 : s[i] = r[i]
    BY <2>2
  <2>7. ASSUME NEW i \in 1..k PROVE s[i] = Eq(s, i)
    <3>1. s[i] = Eq(r, i)
      BY <2>1, <2>2, <2>4
    <3>2. list[i].a # 0 => list[i].a \in 1..k - 1 /\ list[i].b \in 1..k - 1
      BY <1>1
    <3>3. list[i].a # 0 => s[list[i].a] = r[list[i].a] /\ s[list[i].b] = r[list[i].b]
      BY <2>6, <3>2
    <3> QED
      BY <3>1, <3>3
  <2> QED
    BY <2>5, <2>7
<1>4. n \in P
  <2> HIDE DEF Ok
  <2>1. 0 \in P /\ (\A k \in 1..n : k - 1 \in P => k \in P) /\ n \in 0..n
    BY <1>1, <1>2, <1>3
  <2> HIDE DEF P
  <2> QED
    BY <1>1, <2>1, StepByStep
<1>5. PICK r \in [1..n -> Number] : \A i \in 1..n : r[i] = Eq(r, i)
  BY <1>4
<1>6. r = [i \in 1..n |-> Eq(r, i)]
  BY <1>5
<1>7. ComputedBy(list, r)
  BY <1>1, <1>6 DEF ComputedBy
<1> QED
  BY <1>7 DEF n

\* p tells where the nodes of a list stand in another, with the same operands.
Matches(list, other, p) ==
  /\ p \in [1..Len(list) -> DOMAIN other]
  /\ \A i \in 1..Len(list) :
       /\ list[i].a = 0 => other[p[i]].a = 0 /\ other[p[i]].data = list[i].data
       /\ list[i].a # 0 => /\ other[p[i]].a # 0
                           /\ other[p[i]].a = p[list[i].a] /\ other[p[i]].b = p[list[i].b]

\* A node that stands elsewhere, in a list that is longer or otherwise ordered,
\* has the value it had if its operands are the same nodes.
LEMMA SameValues ==
  ASSUME NEW list, SoundList(list), NEW other, NEW r, NEW s,
         ComputedBy(list, r), ComputedBy(other, s), NEW p, Matches(list, other, p)
  PROVE  \A i \in 1..Len(list) : s[p[i]] = r[i]
<1>1. PICK n : n = Len(list)
  OBVIOUS
<1>a. /\ p \in [1..n -> DOMAIN other]
      /\ \A i \in 1..n :
           /\ list[i].a = 0 => other[p[i]].a = 0 /\ other[p[i]].data = list[i].data
           /\ list[i].a # 0 => /\ other[p[i]].a # 0
                               /\ other[p[i]].a = p[list[i].a] /\ other[p[i]].b = p[list[i].b]
  BY <1>1 DEF Matches
<1>2. /\ n \in Nat /\ DOMAIN list = 1..n
      /\ \A i \in 1..n : /\ list[i].a \in 0..i - 1 /\ list[i].b \in 0..i - 1
                         /\ (list[i].a = 0) = (list[i].b = 0)
  BY <1>1, ListParts
<1>3. \A i \in 1..n : r[i] = IF list[i].a = 0 THEN list[i].data
                             ELSE Truncated(r[list[i].a] + r[list[i].b])
  BY <1>2 DEF ComputedBy
<1>4. \A i \in DOMAIN other : s[i] = IF other[i].a = 0 THEN other[i].data
                                     ELSE Truncated(s[other[i].a] + s[other[i].b])
  BY DEF ComputedBy
<1>5. PICK P : P = {i \in 1..n : s[p[i]] = r[i]}
  OBVIOUS
<1>6. ASSUME NEW i \in 1..n, \A j \in 1..i - 1 : j \in P PROVE i \in P
  <2>1. p[i] \in DOMAIN other
    BY <1>a
  <2>2. CASE list[i].a = 0
    BY <1>a, <1>3, <1>4, <1>5, <2>1, <2>2
  <2>3. CASE list[i].a # 0
    <3>1. list[i].a \in 1..i - 1 /\ list[i].b \in 1..i - 1
      BY <1>2, <2>3
    <3>2. s[p[list[i].a]] = r[list[i].a] /\ s[p[list[i].b]] = r[list[i].b]
      BY <1>5, <1>6, <3>1
    <3>3. s[p[i]] = Truncated(s[p[list[i].a]] + s[p[list[i].b]])
      BY <1>a, <1>4, <2>1, <2>3
    <3>4. r[i] = Truncated(r[list[i].a] + r[list[i].b])
      BY <1>3, <2>3
    <3> QED
      BY <1>5, <3>2, <3>3, <3>4
  <2> QED
    BY <2>2, <2>3
<1>7. \A i \in 1..n : i \in P
  BY <1>2, <1>6, AfterAllBefore
<1> QED
  BY <1>1, <1>5, <1>7

\* The values of a list are numbers, and what its units compute.
LEMMA ValuesAre ==
  ASSUME NEW list, SoundList(list)
  PROVE  /\ ComputedBy(list, Values(list))
         /\ Values(list) \in [1..Len(list) -> Number]
<1>1. PICK r \in [1..Len(list) -> Number] : ComputedBy(list, r)
  BY ComputedExists
<1>2. ComputedBy(list, Values(list))
  BY <1>1 DEF Values
<1>3. PICK s : s = Values(list)
  OBVIOUS
<1>4. DOMAIN list = 1..Len(list) /\ DOMAIN s = 1..Len(list) /\ s = [i \in DOMAIN s |-> s[i]]
  <2>1. DOMAIN list = 1..Len(list)
    BY ListParts
  <2> QED
    BY <1>2, <1>3, <2>1 DEF ComputedBy
<1>5. PICK p : p = [i \in 1..Len(list) |-> i]
  OBVIOUS
<1>6. p \in [1..Len(list) -> DOMAIN list]
  BY <1>4, <1>5
<1>7. \A i \in 1..Len(list) : i = p[i] /\ (list[i].a # 0 => p[list[i].a] = list[i].a /\ p[list[i].b] = list[i].b)
  <2> SUFFICES ASSUME NEW i \in 1..Len(list)
               PROVE  i = p[i] /\ (list[i].a # 0 => p[list[i].a] = list[i].a /\ p[list[i].b] = list[i].b)
    OBVIOUS
  <2>1. Len(list) \in Nat /\ list[i].a \in 0..i - 1 /\ list[i].b \in 0..i - 1 /\ (list[i].a = 0) = (list[i].b = 0)
    BY ListParts
  <2>2. list[i].a # 0 => list[i].a \in 1..Len(list) /\ list[i].b \in 1..Len(list)
    BY <2>1
  <2> QED
    BY <1>5, <2>2
<1>8. Matches(list, list, p)
  BY <1>6, <1>7 DEF Matches
<1>9. ComputedBy(list, s)
  BY <1>2, <1>3
<1>10. \A i \in 1..Len(list) : s[p[i]] = r[i]
  BY <1>1, <1>8, <1>9, SameValues
<1>11. \A i \in 1..Len(list) : s[i] \in Number
  BY <1>7, <1>10
<1>12. s \in [1..Len(list) -> Number]
  BY <1>4, <1>11
<1> QED
  BY <1>2, <1>3, <1>12

-----------------------------------------------------------------------------
(* How often a value stands in a sequence.                                 *)

Places(s, v) == {i \in DOMAIN s : s[i] = v}
Times(s, v) == Cardinality(Places(s, v))

LEMMA TimesIs ==
  ASSUME NEW T, NEW s \in Seq(T), NEW v
  PROVE  /\ IsFiniteSet(Places(s, v)) /\ Places(s, v) \subseteq 1..Len(s)
         /\ Times(s, v) \in Nat
         /\ (Times(s, v) = 0) <=> \A i \in 1..Len(s) : s[i] # v
<1>1. Len(s) \in Nat /\ DOMAIN s = 1..Len(s)
  OBVIOUS
<1>2. IsFiniteSet(1..Len(s))
  BY <1>1, FS_Interval
<1>3. Places(s, v) \in SUBSET (1..Len(s))
  BY <1>1 DEF Places
<1>4. IsFiniteSet(Places(s, v))
  BY <1>2, <1>3, FS_Subset
<1>5. Times(s, v) \in Nat
  BY <1>4, FS_CardinalityType DEF Times
<1>6. Times(s, v) = 0 <=> Places(s, v) = {}
  BY <1>4, FS_EmptySet DEF Times
<1>7. Places(s, v) = {} <=> \A i \in 1..Len(s) : s[i] # v
  BY <1>1 DEF Places
<1> QED
  BY <1>3, <1>4, <1>5, <1>6, <1>7

LEMMA TimesAppend ==
  ASSUME NEW T, NEW s \in Seq(T), NEW w \in T, NEW v
  PROVE  Times(Append(s, w), v) = Times(s, v) + (IF w = v THEN 1 ELSE 0)
<1>1. PICK t : t = Append(s, w)
  OBVIOUS
<1>2. PICK n : n = Len(s)
  OBVIOUS
<1>3. /\ n \in Nat /\ DOMAIN s = 1..n /\ t \in Seq(T)
      /\ DOMAIN t = 1..n + 1 /\ t[n + 1] = w /\ \A i \in 1..n : t[i] = s[i]
  BY <1>1, <1>2, AppendProperties, LenProperties
<1>4. IsFiniteSet(Places(s, v)) /\ Times(s, v) \in Nat
  BY TimesIs
<1>5. CASE w = v
  <2>1. Places(t, v) = Places(s, v) \cup {n + 1}
    BY <1>3, <1>5 DEF Places
  <2>2. n + 1 \notin Places(s, v)
    BY <1>3 DEF Places
  <2>3. Cardinality(Places(s, v) \cup {n + 1}) = Cardinality(Places(s, v)) + 1
    BY <1>4, <2>2, FS_AddElement
  <2> QED
    BY <1>1, <1>5, <2>1, <2>3 DEF Times
<1>6. CASE w # v
  <2>1. Places(t, v) = Places(s, v)
    BY <1>3, <1>6 DEF Places
  <2> QED
    BY <1>1, <1>4, <1>6, <2>1 DEF Times
<1> QED
  BY <1>5, <1>6

\* What SelectInSeq finds is the first place.
First(s, v) == SelectInSeq(s, LAMBDA m : m = v)

LEMMA FirstIs ==
  ASSUME NEW T, NEW s \in Seq(T), NEW v
  PROVE  /\ (\E i \in 1..Len(s) : s[i] = v) =>
              /\ First(s, v) \in 1..Len(s)
              /\ s[First(s, v)] = v
         /\ (\A i \in 1..Len(s) : s[i] # v) => First(s, v) = 0
<1>1. PICK I : I = {i \in 1..Len(s) : s[i] = v}
  OBVIOUS
<1>2. First(s, v) = IF I # {} THEN Min(I) ELSE 0
  BY <1>1 DEF First, SelectInSeq
<1>3. I \subseteq Nat
  BY <1>1
<1>4. I # {} => Min(I) \in I
  BY <1>3, MinIs
<1> QED
  BY <1>1, <1>2, <1>4

\* The place that a value at place j is taken from, if place p is left out.
Skip(p, j) == IF j < p THEN j ELSE j + 1

\* t is s without the value at one place where it has w.
OneLess(t, s, w) ==
  \E p \in 1..Len(s) : /\ s[p] = w /\ Len(t) = Len(s) - 1
                       /\ \A j \in 1..Len(s) - 1 : t[j] = s[Skip(p, j)]

LEMMA RemoveFirstIs ==
  ASSUME NEW T, NEW s \in Seq(T), NEW w, \E i \in 1..Len(s) : s[i] = w
  PROVE  RemoveFirst(s, w) \in Seq(T) /\ OneLess(RemoveFirst(s, w), s, w)
<1>1. PICK p : p = First(s, w)
  OBVIOUS
<1>2. p \in 1..Len(s) /\ s[p] = w
  BY <1>1, FirstIs
<1>3. RemoveFirst(s, w) = SubSeq(s, 1, p - 1) \o SubSeq(s, p + 1, Len(s))
  BY <1>1 DEF First, RemoveFirst, RemoveAt
<1>4. PICK n : n = Len(s)
  OBVIOUS
<1>5. n \in Nat /\ p \in 1..n /\ \A j \in 1..n : s[j] \in T
  BY <1>2, <1>4
<1>6. PICK s1 : s1 = SubSeq(s, 1, p - 1)
  OBVIOUS
<1>7. PICK s2 : s2 = SubSeq(s, p + 1, n)
  OBVIOUS
<1>8. /\ s1 \in Seq(T) /\ Len(s1) = p - 1
      /\ \A j \in 1..p - 1 : s1[j] = s[j]
  BY <1>5, <1>6, SubSeqProperties
<1>9. /\ s2 \in Seq(T) /\ Len(s2) = n - p
      /\ \A j \in 1..n - p : s2[j] = s[p + j]
  BY <1>5, <1>7, SubSeqProperties
<1>10. /\ s1 \o s2 \in Seq(T) /\ Len(s1 \o s2) = n - 1
       /\ \A j \in 1..n - 1 : (s1 \o s2)[j] = IF j <= p - 1 THEN s1[j] ELSE s2[j - (p - 1)]
  BY <1>5, <1>8, <1>9, ConcatProperties
<1>11. ASSUME NEW j \in 1..n - 1 PROVE (s1 \o s2)[j] = s[Skip(p, j)]
  <2>1. CASE j < p
    <3>1. j \in 1..p - 1
      BY <1>5, <2>1
    <3> QED
      BY <1>8, <1>10, <2>1, <3>1 DEF Skip
  <2>2. CASE ~ (j < p)
    <3>1. j - (p - 1) \in 1..n - p /\ p + (j - (p - 1)) = j + 1 /\ ~ (j <= p - 1)
      BY <1>5, <2>2
    <3>2. s2[j - (p - 1)] = s[j + 1]
      BY <1>9, <3>1
    <3> QED
      BY <1>10, <2>2, <3>1, <3>2 DEF Skip
  <2> QED
    BY <2>1, <2>2
<1> QED
  BY <1>2, <1>3, <1>4, <1>6, <1>7, <1>10, <1>11 DEF OneLess

LEMMA TimesRemoveFirst ==
  ASSUME NEW T, NEW s \in Seq(T), NEW w, Times(s, w) = 1, NEW v
  PROVE  /\ RemoveFirst(s, w) \in Seq(T)
         /\ Times(RemoveFirst(s, w), v) = IF v = w THEN 0 ELSE Times(s, v)
<1>1. PICK t : t = RemoveFirst(s, w)
  OBVIOUS
<1>2. PICK i \in 1..Len(s) : s[i] = w
  BY TimesIs
<1>a. RemoveFirst(s, w) \in Seq(T) /\ OneLess(RemoveFirst(s, w), s, w)
  BY <1>2, RemoveFirstIs
<1>3. t \in Seq(T)
  BY <1>1, <1>a
<1>4. PICK p \in 1..Len(s) : /\ s[p] = w /\ Len(t) = Len(s) - 1
                             /\ \A j \in 1..Len(s) - 1 : t[j] = s[Skip(p, j)]
  BY <1>1, <1>a DEF OneLess
<1>5. PICK n : n = Len(s)
  OBVIOUS
<1>6. n \in Nat /\ DOMAIN s = 1..n /\ DOMAIN t = 1..n - 1 /\ p \in 1..n
  BY <1>3, <1>4, <1>5, LenProperties
<1>7. PICK A : A = Places(t, v)
  OBVIOUS
<1>8. PICK B : B = Places(s, v) \ {p}
  OBVIOUS
<1>9. PICK f : f = [j \in A |-> Skip(p, j)]
  OBVIOUS
<1>10. \A j \in A : j \in 1..n - 1 /\ t[j] = v
  BY <1>6, <1>7 DEF Places
<1>11. \A j : j \in B <=> j \in 1..n /\ s[j] = v /\ j # p
  BY <1>6, <1>8 DEF Places
<1>12. f \in [A -> B]
  <2> SUFFICES ASSUME NEW j \in A PROVE Skip(p, j) \in B
    BY <1>9
  <2>1. j \in 1..n - 1 /\ s[Skip(p, j)] = v
    BY <1>4, <1>5, <1>10
  <2>2. Skip(p, j) \in 1..n /\ Skip(p, j) # p
    BY <1>6, <2>1 DEF Skip
  <2> QED
    BY <1>11, <2>1, <2>2
<1>13. \A j, k \in A : f[j] = f[k] => j = k
  BY <1>6, <1>9, <1>10 DEF Skip
<1>14. ASSUME NEW j \in B PROVE \E k \in A : f[k] = j
  <2>1. j \in 1..n /\ s[j] = v /\ j # p
    BY <1>11
  <2>2. PICK k : k = IF j < p THEN j ELSE j - 1
    OBVIOUS
  <2>3. k \in 1..n - 1 /\ Skip(p, k) = j
    BY <1>6, <2>1, <2>2 DEF Skip
  <2>4. t[k] = v
    BY <1>4, <1>5, <2>1, <2>3
  <2>5. k \in A
    BY <1>6, <1>7, <2>3, <2>4 DEF Places
  <2> QED
    BY <1>9, <2>3, <2>5
<1>15. f \in Bijection(A, B)
  BY <1>12, <1>13, <1>14 DEF Bijection, Injection, Surjection, IsInjective
<1>16. IsFiniteSet(Places(s, v)) /\ IsFiniteSet(A) /\ Times(s, v) \in Nat
  BY <1>3, <1>7, TimesIs
<1>17. ExistsBijection(A, B)
  BY <1>15 DEF ExistsBijection
<1>18. Cardinality(B) = Cardinality(A)
  BY <1>16, <1>17, FS_Bijection
<1>19. Cardinality(B) = IF p \in Places(s, v) THEN Times(s, v) - 1 ELSE Times(s, v)
  BY <1>8, <1>16, FS_RemoveElement DEF Times
<1>20. p \in Places(s, v) <=> v = w
  BY <1>4, <1>5, <1>6 DEF Places
<1>21. Times(t, v) = IF v = w THEN 0 ELSE Times(s, v)
  BY <1>7, <1>16, <1>18, <1>19, <1>20 DEF Times
<1> QED
  BY <1>1, <1>3, <1>21

-----------------------------------------------------------------------------
(* The inductive invariant, and what keeps its parts.                      *)

\* The context knows each live integer once and no other.
Signed(s, r) ==
  /\ s \in Seq(Vars \cup {Dangling})
  /\ \A v \in Vars : Times(s, v) = (IF r[v] # 0 THEN 1 ELSE 0)

\* Integers refer to nodes, and without an update to do to constants.
Referring(list, r, need) ==
  /\ r \in [Vars -> 0..Len(list)] /\ need \in BOOLEAN
  /\ ~need => \A v \in Vars : r[v] # 0 => list[r[v]].a = 0

Statuses == {"running", "spoiled", "terminated", "hung", "undefined"}

IInv ==
  /\ SoundList(nodes) /\ Signed(signatures, ref)
  /\ Referring(nodes, ref, need_update) /\ status \in Statuses

LEMMA AppendNode ==
  ASSUME NEW list, SoundList(list), Len(list) < MaxNodes, NEW node \in Node,
         node.a \in 0..Len(list), node.b \in 0..Len(list),
         (node.a = 0) = (node.b = 0), (node.data = Pending) = (node.a # 0)
  PROVE  /\ SoundList(Append(list, node))
         /\ Len(Append(list, node)) = Len(list) + 1
         /\ \A n \in 1..Len(list) : Append(list, node)[n] = list[n]
         /\ Append(list, node)[Len(list) + 1] = node
<1>1. list \in Seq(Node) /\ Ordered(list)
  BY DEF SoundList
<1>2. PICK t : t = Append(list, node)
  OBVIOUS
<1>3. PICK k : k = Len(list)
  OBVIOUS
<1>4. /\ t \in Seq(Node) /\ Len(t) = k + 1 /\ \A n \in 1..k : t[n] = list[n]
      /\ t[k + 1] = node /\ k \in Nat /\ DOMAIN t = 1..k + 1 /\ DOMAIN list = 1..k
  BY <1>1, <1>2, <1>3, AppendProperties, LenProperties
<1>5. Ordered(t)
  <2> SUFFICES ASSUME NEW n \in 1..k + 1
               PROVE  /\ {t[n].a, t[n].b} \subseteq 0..n - 1
                      /\ (t[n].a = 0) = (t[n].b = 0)
                      /\ (t[n].data = Pending) = (t[n].a # 0)
    BY <1>4 DEF Ordered
  <2>1. CASE n \in 1..k
    BY <1>1, <1>4, <2>1 DEF Ordered
  <2>2. CASE n = k + 1
    <3>1. t[n] = node /\ n - 1 = k
      BY <1>4, <2>2
    <3> QED
      BY <1>3, <3>1
  <2> QED
    BY <1>4, <2>1, <2>2
<1>6. Roomy(t)
  BY <1>3, <1>4, ContextAssumption DEF Roomy
<1> QED
  BY <1>2, <1>3, <1>4, <1>5, <1>6 DEF SoundList

LEMMA ConstantIsNode ==
  ASSUME NEW d \in Number
  PROVE  /\ Constant(d) \in Node /\ Constant(d).a = 0 /\ Constant(d).b = 0
         /\ Constant(d).data = d /\ d # Pending
<1>1. 0 \in 0..MaxNodes
  BY ContextAssumption
<1>2. d \in Data /\ d # Pending
  BY NumbersAreData
<1> QED
  BY <1>1, <1>2 DEF Constant, Node

\* A list of constants, as an update leaves it.
LEMMA ConstantList ==
  ASSUME NEW k \in Nat, NEW d \in [1..k -> Number]
  PROVE  /\ SoundList([i \in 1..k |-> Constant(d[i])])
         /\ Len([i \in 1..k |-> Constant(d[i])]) = k
<1>1. PICK t : t = [i \in 1..k |-> Constant(d[i])]
  OBVIOUS
<1>2. \A i \in 1..k : /\ t[i] \in Node /\ t[i].a = 0 /\ t[i].b = 0
                      /\ t[i].data # Pending
  BY <1>1, ConstantIsNode
<1>3. t \in [1..k -> Node]
  BY <1>1, <1>2
<1>4. t \in Seq(Node) /\ Len(t) = k /\ DOMAIN t = 1..k
  BY <1>1, <1>3
<1>5. Ordered(t)
  <2> SUFFICES ASSUME NEW n \in 1..k
               PROVE  /\ {t[n].a, t[n].b} \subseteq 0..n - 1
                      /\ (t[n].a = 0) = (t[n].b = 0)
                      /\ (t[n].data = Pending) = (t[n].a # 0)
    BY <1>4 DEF Ordered
  <2>1. t[n].a = 0 /\ t[n].b = 0 /\ t[n].data # Pending /\ 0 \in 0..n - 1
    BY <1>2
  <2> QED
    BY <2>1
<1>6. Roomy(t)
  BY <1>2, <1>4 DEF Roomy
<1> QED
  BY <1>1, <1>4, <1>5, <1>6 DEF SoundList

\* Units may be made and left, which no operand and no data depends on.
LEMMA OtherUnits ==
  ASSUME NEW list, SoundList(list), NEW t,
         DOMAIN t = DOMAIN list,
         t = [n \in DOMAIN t |-> t[n]],
         \A n \in DOMAIN list : /\ t[n] \in Node /\ t[n].a = list[n].a
                                /\ t[n].b = list[n].b /\ t[n].data = list[n].data
  PROVE  SoundList(t) /\ Len(t) = Len(list)
<1>1. PICK k : k = Len(list)
  OBVIOUS
<1>2. list \in Seq(Node) /\ Ordered(list) /\ Roomy(list) /\ k \in Nat /\ DOMAIN list = 1..k
  BY <1>1, LenProperties DEF SoundList
<1>3. t \in [1..k -> Node]
  BY <1>2
<1>4. t \in Seq(Node) /\ Len(t) = k /\ DOMAIN t = 1..k
  BY <1>2, <1>3
<1>5. Ordered(t)
  BY <1>2, <1>4 DEF Ordered
<1>6. Roomy(t)
  BY <1>1, <1>2, <1>4 DEF Roomy
<1> QED
  BY <1>1, <1>4, <1>5, <1>6 DEF SoundList

LEMMA SignedIs ==
  ASSUME NEW s, NEW r, Signed(s, r)
  PROVE  /\ s \in Seq(Vars \cup {Dangling})
         /\ Len(s) \in Nat /\ DOMAIN s = 1..Len(s)
         /\ \A i \in 1..Len(s) : s[i] \in Vars => r[s[i]] # 0
         /\ \A v \in Vars : r[v] # 0 => \E i \in 1..Len(s) : s[i] = v
         /\ \A v \in Vars : Contains(s, v) <=> r[v] # 0
<1>1. s \in Seq(Vars \cup {Dangling}) /\ \A v \in Vars : Times(s, v) = (IF r[v] # 0 THEN 1 ELSE 0)
  BY DEF Signed
<1>2. Len(s) \in Nat /\ DOMAIN s = 1..Len(s)
  BY <1>1, LenProperties
<1>3. \A v \in Vars : Times(s, v) = 0 <=> \A i \in 1..Len(s) : s[i] # v
  BY <1>1, TimesIs
<1>4. \A v \in Vars : r[v] # 0 <=> \E i \in 1..Len(s) : s[i] = v
  BY <1>1, <1>3
<1>5. \A v \in Vars : Contains(s, v) <=> \E i \in 1..Len(s) : s[i] = v
  BY DEF Contains
<1>6. \A v \in Vars : Contains(s, v) <=> r[v] # 0
  BY <1>4, <1>5
<1>7. \A i \in 1..Len(s) : s[i] \in Vars => r[s[i]] # 0
  BY <1>4
<1> QED
  BY <1>1, <1>2, <1>4, <1>6, <1>7

\* An integer that signs when it gets a node, and leaves when it loses it.
LEMMA Signs ==
  ASSUME NEW s, NEW r, Signed(s, r), NEW v \in Vars, r[v] = 0, NEW t,
         t[v] # 0, \A u \in Vars : u # v => t[u] = r[u]
  PROVE  Signed(Append(s, v), t)
<1>1. s \in Seq(Vars \cup {Dangling}) /\ \A u \in Vars : Times(s, u) = (IF r[u] # 0 THEN 1 ELSE 0)
  BY DEF Signed
<1>2. v \in Vars \cup {Dangling}
  OBVIOUS
<1>3. Append(s, v) \in Seq(Vars \cup {Dangling})
  BY <1>1, <1>2, AppendProperties
<1>4. \A u \in Vars : Times(Append(s, v), u) = Times(s, u) + (IF v = u THEN 1 ELSE 0)
  BY <1>1, <1>2, TimesAppend
<1>5. \A u \in Vars : Times(Append(s, v), u) = (IF t[u] # 0 THEN 1 ELSE 0)
  BY <1>1, <1>4
<1> QED
  BY <1>3, <1>5 DEF Signed

LEMMA Leaves ==
  ASSUME NEW s, NEW r, Signed(s, r), NEW v \in Vars, r[v] # 0, NEW t,
         t[v] = 0, \A u \in Vars : u # v => (t[u] # 0) = (r[u] # 0)
  PROVE  Signed(RemoveFirst(s, v), t)
<1>1. s \in Seq(Vars \cup {Dangling}) /\ \A u \in Vars : Times(s, u) = (IF r[u] # 0 THEN 1 ELSE 0)
  BY DEF Signed
<1>2. Times(s, v) = 1
  BY <1>1
<1>3. /\ RemoveFirst(s, v) \in Seq(Vars \cup {Dangling})
      /\ \A u \in Vars : Times(RemoveFirst(s, v), u) = IF u = v THEN 0 ELSE Times(s, u)
  BY <1>1, <1>2, TimesRemoveFirst
<1>4. \A u \in Vars : Times(RemoveFirst(s, v), u) = (IF t[u] # 0 THEN 1 ELSE 0)
  BY <1>1, <1>3
<1> QED
  BY <1>3, <1>4 DEF Signed

-----------------------------------------------------------------------------
(* The steps of the invariant.                                             *)

LEMMA Grows ==
  ASSUME NEW list, NEW r, NEW need, SoundList(list), Referring(list, r, need), NEW t,
         Len(t) = Len(list) + 1, \A n \in 1..Len(list) : t[n] = list[n]
  PROVE  Referring(t, r, need)
<1>1. Len(list) \in Nat
  BY ListParts
<1>2. \A n \in 0..Len(list) : n \in 0..Len(t) /\ (n # 0 => n \in 1..Len(list))
  BY <1>1
<1>3. r \in [Vars -> 0..Len(list)] /\ need \in BOOLEAN
  BY DEF Referring
<1>4. r \in [Vars -> 0..Len(t)]
  BY <1>2, <1>3
<1>5. ASSUME ~need, NEW v \in Vars, r[v] # 0 PROVE t[r[v]].a = 0
  <2>1. list[r[v]].a = 0
    BY <1>5 DEF Referring
  <2>2. r[v] \in 1..Len(list)
    BY <1>2, <1>3, <1>5
  <2> QED
    BY <2>1, <2>2
<1> QED
  BY <1>3, <1>4, <1>5 DEF Referring

\* An integer may take the node of another, or lose its own.
LEMMA RefersElsewhere ==
  ASSUME NEW list, NEW r, NEW need, Referring(list, r, need), NEW t,
         t \in [Vars -> 0..Len(list)],
         \A v \in Vars : t[v] # 0 => \E u \in Vars : t[v] = r[u]
  PROVE  Referring(list, t, need)
<1>1. need \in BOOLEAN /\ (~need => \A v \in Vars : r[v] # 0 => list[r[v]].a = 0)
  BY DEF Referring
<1>2. ASSUME ~need, NEW v \in Vars, t[v] # 0 PROVE list[t[v]].a = 0
  <2>1. PICK u \in Vars : t[v] = r[u]
    BY <1>2
  <2> QED
    BY <1>1, <1>2, <2>1
<1> QED
  BY <1>1, <1>2 DEF Referring

\* A context starts sound.
LEMMA InitIsSound ==
  ASSUME Init
  PROVE  IInv
<1>1. nodes = <<>> /\ ref = [v \in Vars |-> 0] /\ signatures = <<>> /\ need_update = FALSE /\ status = "running"
  BY DEF Init
<1>2. nodes \in Seq(Node) /\ Len(nodes) = 0 /\ DOMAIN nodes = {}
  BY <1>1
<1>3. SoundList(nodes)
  BY <1>2 DEF SoundList, Ordered, Roomy
<1>4. signatures \in Seq(Vars \cup {Dangling}) /\ Len(signatures) = 0
  BY <1>1
<1>5. \A v \in Vars : Times(signatures, v) = 0
  <2>1. \A i \in 1..Len(signatures) : FALSE
    BY <1>4
  <2> QED
    BY <1>4, <2>1, TimesIs
<1>6. Signed(signatures, ref)
  BY <1>1, <1>4, <1>5 DEF Signed
<1>7. Referring(nodes, ref, need_update)
  <2>1. 0 \in 0..Len(nodes)
    BY <1>2
  <2>2. ref \in [Vars -> 0..Len(nodes)] /\ \A v \in Vars : ref[v] = 0
    BY <1>1, <2>1
  <2>3. need_update \in BOOLEAN
    BY <1>1
  <2> QED
    BY <2>2, <2>3 DEF Referring
<1> QED
  BY <1>1, <1>3, <1>6, <1>7 DEF IInv, Statuses

LEMMA MakeKeeps ==
  ASSUME IInv, NEW v \in Vars, NEW text \in Texts, Make(v, text)
  PROVE  IInv'
<1>1. /\ SoundList(nodes) /\ Signed(signatures, ref)
      /\ Referring(nodes, ref, need_update) /\ status \in Statuses
  BY DEF IInv
<1>2. /\ Len(nodes) < MaxNodes /\ ref[v] = 0 /\ need_update' = need_update /\ status' = status
  BY DEF Make, Room, Live
<1>3. PICK k : k = Len(nodes)
  OBVIOUS
<1>4. k \in Nat /\ ref \in [Vars -> 0..k]
  BY <1>1, <1>3, ListParts DEF Referring
<1>5. ASSUME NEW d \in Number
      PROVE  /\ SoundList(Append(nodes, Constant(d)))
             /\ Len(Append(nodes, Constant(d))) = k + 1
             /\ \A n \in 1..k : Append(nodes, Constant(d))[n] = nodes[n]
             /\ Append(nodes, Constant(d))[k + 1].a = 0
  <2>1. PICK node : node = Constant(d)
    OBVIOUS
  <2>2. /\ node \in Node /\ node.a \in 0..Len(nodes) /\ node.b \in 0..Len(nodes)
        /\ (node.a = 0) = (node.b = 0) /\ (node.data = Pending) = (node.a # 0)
        /\ node.a = 0
    BY <1>3, <1>4, <2>1, ConstantIsNode
  <2> QED
    BY <1>1, <1>2, <1>3, <2>1, <2>2, AppendNode
<1>6. CASE text # Refused
  <2>1. text \in Number
    BY <1>6, NumbersAreData DEF Texts
  <2>2. /\ nodes' = Append(nodes, Constant(text)) /\ ref' = [ref EXCEPT ![v] = Len(nodes')]
        /\ signatures' = Append(signatures, v)
    BY <1>6 DEF Make
  <2>3. /\ SoundList(nodes') /\ Len(nodes') = k + 1 /\ \A n \in 1..k : nodes'[n] = nodes[n]
        /\ nodes'[k + 1].a = 0
    BY <1>5, <2>1, <2>2
  <2>4. ref'[v] = k + 1 /\ \A u \in Vars : u # v => ref'[u] = ref[u]
    BY <1>4, <2>2, <2>3
  <2>5. Signed(signatures', ref')
    <3>1. PICK t : t = ref'
      OBVIOUS
    <3>2. t[v] # 0 /\ \A u \in Vars : u # v => t[u] = ref[u]
      BY <1>4, <2>4, <3>1
    <3>3. Signed(Append(signatures, v), t)
      BY <1>1, <1>2, <3>2, Signs
    <3> QED
      BY <2>2, <3>1, <3>3
  <2>6. Referring(nodes', ref, need_update)
    BY <1>1, <1>3, <2>3, Grows
  <2>7. Referring(nodes', ref', need_update')
    <3>1. ref' \in [Vars -> 0..Len(nodes')]
      BY <1>4, <2>2, <2>3
    <3>2. \A u \in Vars : ~need_update /\ ref'[u] # 0 => nodes'[ref'[u]].a = 0
      BY <2>3, <2>4, <2>6 DEF Referring
    <3> QED
      BY <1>2, <2>6, <3>1, <3>2 DEF Referring
  <2> QED
    BY <1>1, <1>2, <2>3, <2>5, <2>7 DEF IInv
<1>7. CASE text = Refused
  <2>1. /\ nodes' = Append(nodes, Constant(0)) /\ ref' = ref
        /\ signatures' = Append(signatures, Dangling)
    BY <1>7 DEF Make
  <2>2. /\ SoundList(nodes') /\ Len(nodes') = k + 1 /\ \A n \in 1..k : nodes'[n] = nodes[n]
    BY <1>5, <2>1, NumbersAreData
  <2>3. Referring(nodes', ref', need_update')
    BY <1>1, <1>2, <1>3, <2>1, <2>2, Grows
  <2>4. /\ signatures \in Seq(Vars \cup {Dangling}) /\ Dangling \in Vars \cup {Dangling}
        /\ Dangling \notin Vars
        /\ \A u \in Vars : Times(signatures, u) = (IF ref[u] # 0 THEN 1 ELSE 0)
    BY <1>1, ContextAssumption DEF Signed
  <2>5. signatures' \in Seq(Vars \cup {Dangling})
    BY <2>1, <2>4, AppendProperties
  <2>6. \A u \in Vars : Times(signatures', u) = Times(signatures, u) + 0
    BY <2>1, <2>4, TimesAppend
  <2>7. Signed(signatures', ref')
    BY <2>1, <2>4, <2>5, <2>6 DEF Signed
  <2> QED
    BY <1>1, <1>2, <2>2, <2>3, <2>7 DEF IInv
<1> QED
  BY <1>6, <1>7

LEMMA CopyKeeps ==
  ASSUME IInv, NEW v \in Vars, NEW u \in Vars, Copy(v, u)
  PROVE  IInv'
<1>1. /\ SoundList(nodes) /\ Signed(signatures, ref)
      /\ Referring(nodes, ref, need_update) /\ status \in Statuses
  BY DEF IInv
<1>2. /\ ref[v] = 0 /\ ref[u] # 0 /\ ref' = [ref EXCEPT ![v] = ref[u]]
      /\ signatures' = Append(signatures, v) /\ nodes' = nodes
      /\ need_update' = need_update /\ status' = status
  BY DEF Copy, Live
<1>3. ref \in [Vars -> 0..Len(nodes)]
  BY <1>1 DEF Referring
<1>4. ref'[v] = ref[u] /\ \A x \in Vars : x # v => ref'[x] = ref[x]
  BY <1>2, <1>3
<1>5. ref' \in [Vars -> 0..Len(nodes)]
  BY <1>2, <1>3
<1>6. Referring(nodes, ref', need_update)
  BY <1>1, <1>4, <1>5, RefersElsewhere
<1>7. Signed(signatures', ref')
  <2>1. PICK t : t = ref'
    OBVIOUS
  <2>2. t[v] # 0 /\ \A x \in Vars : x # v => t[x] = ref[x]
    BY <1>2, <1>4, <2>1
  <2>3. Signed(Append(signatures, v), t)
    BY <1>1, <1>2, <2>2, Signs
  <2> QED
    BY <1>2, <2>1, <2>3
<1> QED
  BY <1>1, <1>2, <1>6, <1>7 DEF IInv

LEMMA AssignKeeps ==
  ASSUME IInv, NEW v \in Vars, NEW u \in Vars, Assign(v, u)
  PROVE  IInv'
<1>1. /\ SoundList(nodes) /\ Signed(signatures, ref)
      /\ Referring(nodes, ref, need_update) /\ status \in Statuses
  BY DEF IInv
<1>2. /\ ref[v] # 0 /\ ref[u] # 0 /\ ref' = [ref EXCEPT ![v] = ref[u]]
      /\ signatures' = signatures /\ nodes' = nodes
      /\ need_update' = need_update /\ status' = status
  BY DEF Assign, Live
<1>3. ref \in [Vars -> 0..Len(nodes)]
  BY <1>1 DEF Referring
<1>4. ref'[v] = ref[u] /\ \A x \in Vars : x # v => ref'[x] = ref[x]
  BY <1>2, <1>3
<1>5. ref' \in [Vars -> 0..Len(nodes)]
  BY <1>2, <1>3
<1>6. Referring(nodes, ref', need_update)
  BY <1>1, <1>4, <1>5, RefersElsewhere
<1>7. Signed(signatures', ref')
  BY <1>1, <1>2, <1>4 DEF Signed
<1> QED
  BY <1>1, <1>2, <1>6, <1>7 DEF IInv

\* Both moves take the node of an integer, which leaves the context.
LEMMA TakesNode ==
  ASSUME IInv, NEW v \in Vars, NEW u \in Vars, u # v, ref[u] # 0,
         ref' = [ref EXCEPT ![v] = ref[u], ![u] = 0],
         nodes' = nodes, need_update' = need_update, status' = status,
         \/ ref[v] = 0 /\ signatures' = RemoveFirst(Append(signatures, v), u)
         \/ ref[v] # 0 /\ signatures' = RemoveFirst(signatures, u)
  PROVE  IInv'
<1>1. /\ SoundList(nodes) /\ Signed(signatures, ref)
      /\ Referring(nodes, ref, need_update) /\ status \in Statuses
  BY DEF IInv
<1>2. ref \in [Vars -> 0..Len(nodes)] /\ Len(nodes) \in Nat
  BY <1>1, ListParts DEF Referring
<1>3. ref'[v] = ref[u] /\ ref'[u] = 0 /\ \A x \in Vars : x # v /\ x # u => ref'[x] = ref[x]
  BY <1>2
<1>4. ref' \in [Vars -> 0..Len(nodes)]
  BY <1>2
<1>5. Referring(nodes, ref', need_update)
  BY <1>1, <1>3, <1>4, RefersElsewhere
<1>6. PICK both : both = [ref EXCEPT ![v] = ref[u]]
  OBVIOUS
<1>7. both[v] = ref[u] /\ both[u] = ref[u] /\ \A x \in Vars : x # v => both[x] = ref[x]
  BY <1>2, <1>6
<1>a. PICK t : t = ref'
  OBVIOUS
<1>8. t[u] = 0 /\ both[u] # 0 /\ \A x \in Vars : x # u => (t[x] # 0) = (both[x] # 0)
  BY <1>3, <1>7, <1>a
<1>9. CASE ref[v] = 0 /\ signatures' = RemoveFirst(Append(signatures, v), u)
  <2>1. Signed(Append(signatures, v), both)
    BY <1>1, <1>7, <1>9, Signs
  <2>2. PICK s : s = Append(signatures, v)
    OBVIOUS
  <2>3. Signed(RemoveFirst(s, u), t)
    BY <1>8, <2>1, <2>2, Leaves
  <2>4. Signed(signatures', ref')
    BY <1>9, <1>a, <2>2, <2>3
  <2> QED
    BY <1>1, <1>5, <2>4 DEF IInv
<1>10. CASE ref[v] # 0 /\ signatures' = RemoveFirst(signatures, u)
  <2>1. Signed(signatures, both)
    BY <1>1, <1>7, <1>10 DEF Signed
  <2>2. Signed(RemoveFirst(signatures, u), t)
    BY <1>8, <2>1, Leaves
  <2>3. Signed(signatures', ref')
    BY <1>10, <1>a, <2>2
  <2> QED
    BY <1>1, <1>5, <2>3 DEF IInv
<1> QED
  BY <1>9, <1>10

LEMMA MoveConstructKeeps ==
  ASSUME IInv, NEW v \in Vars, NEW u \in Vars, MoveConstruct(v, u)
  PROVE  IInv'
<1>1. /\ ref[v] = 0 /\ ref[u] # 0 /\ u # v
      /\ ref' = [ref EXCEPT ![v] = ref[u], ![u] = 0]
      /\ signatures' = RemoveFirst(Append(signatures, v), u)
      /\ nodes' = nodes /\ need_update' = need_update /\ status' = status
  BY DEF MoveConstruct, Live
<1> QED
  BY <1>1, TakesNode

LEMMA MoveAssignKeeps ==
  ASSUME IInv, NEW v \in Vars, NEW u \in Vars, MoveAssign(v, u)
  PROVE  IInv'
<1>1. /\ ref[v] # 0 /\ ref[u] # 0 /\ u # v
      /\ ref' = [ref EXCEPT ![v] = ref[u], ![u] = 0]
      /\ signatures' = RemoveFirst(signatures, u)
      /\ nodes' = nodes /\ need_update' = need_update /\ status' = status
  BY DEF MoveAssign, Live
<1> QED
  BY <1>1, TakesNode

LEMMA DestroyKeeps ==
  ASSUME IInv, NEW v \in Vars, Destroy(v)
  PROVE  IInv'
<1>1. /\ SoundList(nodes) /\ Signed(signatures, ref)
      /\ Referring(nodes, ref, need_update) /\ status \in Statuses
  BY DEF IInv
<1>2. /\ ref[v] # 0 /\ ref' = [ref EXCEPT ![v] = 0]
      /\ signatures' = RemoveFirst(signatures, v) /\ nodes' = nodes
      /\ need_update' = need_update /\ status' = status
  BY DEF Destroy, Live
<1>3. ref \in [Vars -> 0..Len(nodes)] /\ Len(nodes) \in Nat
  BY <1>1, ListParts DEF Referring
<1>4. ref'[v] = 0 /\ \A x \in Vars : x # v => ref'[x] = ref[x]
  BY <1>2, <1>3
<1>5. ref' \in [Vars -> 0..Len(nodes)]
  BY <1>2, <1>3
<1>6. Referring(nodes, ref', need_update)
  BY <1>1, <1>4, <1>5, RefersElsewhere
<1>7. Signed(signatures', ref')
  <2>1. PICK t : t = ref'
    OBVIOUS
  <2>2. t[v] = 0 /\ \A x \in Vars : x # v => (t[x] # 0) = (ref[x] # 0)
    BY <1>4, <2>1
  <2>3. Signed(RemoveFirst(signatures, v), t)
    BY <1>1, <1>2, <2>2, Leaves
  <2> QED
    BY <1>2, <2>1, <2>3
<1> QED
  BY <1>1, <1>2, <1>6, <1>7 DEF IInv

LEMMA AddKeeps ==
  ASSUME IInv, NEW v \in Vars, NEW u \in Vars, NEW w \in Vars, Add(v, u, w)
  PROVE  IInv'
<1>1. /\ SoundList(nodes) /\ Signed(signatures, ref)
      /\ Referring(nodes, ref, need_update) /\ status \in Statuses
  BY DEF IInv
<1>2. PICK node : node = [a |-> ref[u], b |-> ref[w], data |-> Pending, units |-> 0]
  OBVIOUS
<1>3. /\ Len(nodes) < MaxNodes /\ ref[v] = 0 /\ ref[u] # 0 /\ ref[w] # 0
      /\ nodes' = Append(nodes, node) /\ ref' = [ref EXCEPT ![v] = Len(nodes')]
      /\ signatures' = Append(signatures, v) /\ need_update' = TRUE /\ status' = status
  BY <1>2 DEF Add, Room, Live
<1>4. PICK k : k = Len(nodes)
  OBVIOUS
<1>5. k \in Nat /\ ref \in [Vars -> 0..k] /\ k < MaxNodes /\ MaxNodes \in Nat
  BY <1>1, <1>3, <1>4, ListParts, ContextAssumption DEF Referring
<1>6. ref[u] \in 1..k /\ ref[w] \in 1..k
  BY <1>3, <1>5
<1>7. /\ node.a = ref[u] /\ node.b = ref[w] /\ node.data = Pending
      /\ node.a \in 0..MaxNodes /\ node.b \in 0..MaxNodes /\ Pending \in Data
  BY <1>2, <1>5, <1>6, NumbersAreData
<1>8. node \in Node
  BY <1>2, <1>7 DEF Node
<1>9. /\ node.a \in 0..Len(nodes) /\ node.b \in 0..Len(nodes)
      /\ (node.a = 0) = (node.b = 0) /\ (node.data = Pending) = (node.a # 0)
  BY <1>3, <1>4, <1>6, <1>7
<1>10. /\ SoundList(nodes') /\ Len(nodes') = k + 1
       /\ \A n \in 1..k : nodes'[n] = nodes[n]
  BY <1>1, <1>3, <1>4, <1>8, <1>9, AppendNode
<1>11. ref'[v] = k + 1 /\ \A x \in Vars : x # v => ref'[x] = ref[x]
  BY <1>3, <1>5, <1>10
<1>12. Signed(signatures', ref')
  <2>1. PICK t : t = ref'
    OBVIOUS
  <2>2. t[v] # 0 /\ \A x \in Vars : x # v => t[x] = ref[x]
    BY <1>5, <1>11, <2>1
  <2>3. Signed(Append(signatures, v), t)
    BY <1>1, <1>3, <2>2, Signs
  <2> QED
    BY <1>3, <2>1, <2>3
<1>13. ref' \in [Vars -> 0..Len(nodes')]
  BY <1>3, <1>5, <1>10
<1>14. Referring(nodes', ref', need_update')
  BY <1>3, <1>13 DEF Referring
<1> QED
  BY <1>1, <1>3, <1>10, <1>12, <1>14 DEF IInv

LEMMA UpdateThrowsKeeps ==
  ASSUME IInv, NEW k \in DOMAIN nodes, UpdateThrows(k)
  PROVE  IInv'
<1>1. /\ SoundList(nodes) /\ Signed(signatures, ref)
      /\ Referring(nodes, ref, need_update) /\ status \in Statuses
  BY DEF IInv
<1>2. /\ nodes' = [n \in DOMAIN nodes |->
                     [nodes[n] EXCEPT !.units = IF n < k THEN @ + 1 ELSE @]]
      /\ ref' = ref /\ signatures' = signatures /\ need_update' = need_update
      /\ status' = status
  BY DEF UpdateThrows, GenerateFails
<1>3. ASSUME NEW n \in DOMAIN nodes
      PROVE  /\ nodes'[n] \in Node /\ nodes'[n].a = nodes[n].a
             /\ nodes'[n].b = nodes[n].b /\ nodes'[n].data = nodes[n].data
  <2>1. nodes[n] \in Node
    BY <1>1, ListParts
  <2>2. nodes'[n] = [nodes[n] EXCEPT !.units = IF n < k THEN @ + 1 ELSE @]
    BY <1>2
  <2> QED
    BY <2>1, <2>2 DEF Node
<1>4. DOMAIN nodes' = DOMAIN nodes /\ nodes' = [n \in DOMAIN nodes' |-> nodes'[n]]
  BY <1>2
<1>5. SoundList(nodes') /\ Len(nodes') = Len(nodes)
  BY <1>1, <1>3, <1>4, OtherUnits
<1>6. DOMAIN nodes = 1..Len(nodes) /\ Len(nodes) \in Nat
  BY <1>1, ListParts
<1>7. \A v \in Vars : ref[v] # 0 => nodes'[ref[v]].a = nodes[ref[v]].a
  <2>1. \A v \in Vars : ref[v] # 0 => ref[v] \in DOMAIN nodes
    BY <1>1, <1>6 DEF Referring
  <2> QED
    BY <1>3, <2>1
<1>8. Referring(nodes', ref', need_update')
  BY <1>1, <1>2, <1>5, <1>7 DEF Referring
<1> QED
  BY <1>1, <1>2, <1>5, <1>8 DEF IInv

-----------------------------------------------------------------------------
(* An update.                                                              *)

LEMMA ComputedIs == Computed = Values(nodes)
  BY DEF Computed, Values, ComputedBy, IsConstant

LEMMA ComputedNextIs == Computed' = Values(nodes')
  BY DEF Computed, Values, ComputedBy, IsConstant

\* Only the nodes that integers refer to keep their data, and an update reads
\* the data of no other: each integer gets a constant of its own with its value.
LEMMA UpdateIs ==
  ASSUME IInv, Update
  PROVE  \E d \in [1..Len(signatures) -> Number] :
           /\ nodes' = [i \in 1..Len(signatures) |-> Constant(d[i])]
           /\ \A i \in 1..Len(signatures) : /\ signatures[i] \in Vars
                                            /\ d[i] = Values(nodes)[ref[signatures[i]]]
           /\ ref' = [v \in Vars |-> IF ref[v] # 0 THEN First(signatures, v) ELSE 0]
           /\ signatures' = signatures /\ need_update' = FALSE /\ status' = status
<1>1. /\ SoundList(nodes) /\ Signed(signatures, ref)
      /\ Referring(nodes, ref, need_update) /\ status \in Statuses
  BY DEF IInv
<1>2. PICK k : k = Len(signatures)
  OBVIOUS
<1>3. /\ signatures \in Seq(Vars \cup {Dangling}) /\ k \in Nat /\ DOMAIN signatures = 1..k
      /\ \A i \in 1..k : signatures[i] \in Vars => ref[signatures[i]] # 0
      /\ \A v \in Vars : Contains(signatures, v) <=> ref[v] # 0
  BY <1>1, <1>2, SignedIs
<1>4. /\ nodes' = [i \in DOMAIN signatures |-> Constant(Results[ref[signatures[i]]])]
      /\ ref' = [v \in Vars |-> IF ref[v] # 0 THEN First(signatures, v) ELSE 0]
      /\ signatures' = signatures /\ need_update' = FALSE /\ status' = status
  BY DEF Update, Succeeds, Live, First
<1>5. \A i \in 1..k : signatures[i] \in Vars
  <2>1. ~ Contains(signatures, Dangling)
    BY DEF Update
  <2>2. \A i \in 1..k : signatures[i] # Dangling
    BY <1>2, <2>1 DEF Contains
  <2> QED
    BY <1>2, <1>3, <2>2
<1>6. Values(nodes) \in [1..Len(nodes) -> Number] /\ DOMAIN nodes = 1..Len(nodes) /\ Len(nodes) \in Nat
  BY <1>1, ValuesAre, ListParts
<1>7. ASSUME NEW i \in 1..k
      PROVE  /\ Results[ref[signatures[i]]] = Values(nodes)[ref[signatures[i]]]
             /\ Values(nodes)[ref[signatures[i]]] \in Number
  <2>1. PICK v \in Vars : v = signatures[i]
    BY <1>5
  <2>2. ref[v] # 0 /\ Contains(signatures, v)
    BY <1>3, <2>1
  <2>3. ref[v] \in 1..Len(nodes)
    BY <1>1, <1>6, <2>2 DEF Referring
  <2>4. ref[v] \in Kept
    BY <2>2 DEF Kept
  <2>5. Results = [n \in DOMAIN nodes |-> IF n \in Kept THEN Computed[n] ELSE Missing]
    BY DEF Results
  <2>6. Results[ref[v]] = Computed[ref[v]]
    BY <1>6, <2>3, <2>4, <2>5
  <2> QED
    BY <1>6, <2>1, <2>3, <2>6, ComputedIs
<1>8. PICK d : d = [i \in 1..k |-> Values(nodes)[ref[signatures[i]]]]
  OBVIOUS
<1>9. d \in [1..k -> Number]
  BY <1>7, <1>8
<1>10. \A i \in 1..k : Results[ref[signatures[i]]] = d[i]
  BY <1>7, <1>8
<1>11. nodes' = [i \in 1..k |-> Constant(d[i])]
  BY <1>3, <1>4, <1>10
<1>12. \A i \in 1..k : signatures[i] \in Vars /\ d[i] = Values(nodes)[ref[signatures[i]]]
  BY <1>5, <1>8
<1> QED
  BY <1>2, <1>4, <1>9, <1>11, <1>12

LEMMA UpdateKeeps ==
  ASSUME IInv, Update
  PROVE  /\ IInv'
         /\ \A v \in Vars : ref[v] # 0 => /\ ref'[v] # 0
                                          /\ Values(nodes')[ref'[v]] = Values(nodes)[ref[v]]
         /\ \A v \in Vars : ref[v] = 0 => ref'[v] = 0
<1>1. /\ SoundList(nodes) /\ Signed(signatures, ref)
      /\ Referring(nodes, ref, need_update) /\ status \in Statuses
  BY DEF IInv
<1>2. PICK k : k = Len(signatures)
  OBVIOUS
<1>3. PICK d \in [1..k -> Number] :
           /\ nodes' = [i \in 1..k |-> Constant(d[i])]
           /\ \A i \in 1..k : signatures[i] \in Vars /\ d[i] = Values(nodes)[ref[signatures[i]]]
           /\ ref' = [v \in Vars |-> IF ref[v] # 0 THEN First(signatures, v) ELSE 0]
           /\ signatures' = signatures /\ need_update' = FALSE /\ status' = status
  BY <1>2, UpdateIs
<1>4. /\ signatures \in Seq(Vars \cup {Dangling}) /\ k \in Nat
      /\ \A v \in Vars : ref[v] # 0 => \E i \in 1..k : signatures[i] = v
  BY <1>1, <1>2, SignedIs
<1>5. PICK list : list = [i \in 1..k |-> Constant(d[i])]
  OBVIOUS
<1>6. SoundList(list) /\ Len(list) = k
  BY <1>3, <1>4, <1>5, ConstantList
<1>7. nodes' = list
  BY <1>3, <1>5
<1>8. ASSUME NEW v \in Vars, ref[v] # 0
      PROVE  First(signatures, v) \in 1..k /\ signatures[First(signatures, v)] = v
  BY <1>2, <1>4, <1>8, FirstIs
<1>9. \A v \in Vars : ref[v] # 0 => ref'[v] = First(signatures, v) /\ ref'[v] \in 1..k /\ ref'[v] # 0
  BY <1>3, <1>4, <1>8
<1>10. \A v \in Vars : ref[v] = 0 => ref'[v] = 0
  BY <1>3
<1>11. Signed(signatures', ref')
  BY <1>1, <1>3, <1>9, <1>10 DEF Signed
<1>12. Referring(list, ref', need_update')
  <2>1. ref' \in [Vars -> 0..k]
    <3>1. \A v \in Vars : (IF ref[v] # 0 THEN First(signatures, v) ELSE 0) \in 0..k
      BY <1>4, <1>8
    <3> QED
      BY <1>3, <3>1
  <2>2. \A i \in 1..k : list[i].a = 0
    BY <1>3, <1>5, ConstantIsNode
  <2> QED
    BY <1>3, <1>6, <1>9, <1>10, <2>1, <2>2 DEF Referring
<1>13. IInv'
  BY <1>1, <1>3, <1>6, <1>7, <1>11, <1>12 DEF IInv
<1>14. ASSUME NEW v \in Vars, ref[v] # 0 PROVE Values(list)[ref'[v]] = Values(nodes)[ref[v]]
  <2>1. PICK i : i = First(signatures, v)
    OBVIOUS
  <2>2. ref'[v] = i /\ i \in 1..k /\ signatures[i] = v
    BY <1>8, <1>9, <1>14, <2>1
  <2>3. DOMAIN list = 1..k /\ list[i].a = 0 /\ list[i].data = d[i]
    BY <1>3, <1>5, <2>2, ConstantIsNode
  <2>4. ComputedBy(list, Values(list))
    BY <1>6, ValuesAre
  <2>5. Values(list)[i] = list[i].data
    BY <2>2, <2>3, <2>4 DEF ComputedBy
  <2>6. d[i] = Values(nodes)[ref[v]]
    BY <1>3, <2>2
  <2> QED
    BY <2>2, <2>3, <2>5, <2>6
<1> QED
  BY <1>7, <1>9, <1>10, <1>13, <1>14

-----------------------------------------------------------------------------
(* The nexts of a node: it stands among them once for each of their        *)
(* operands that it is.                                                    *)

Slots(node, n) == (IF node.a = n THEN 1 ELSE 0) + (IF node.b = n THEN 1 ELSE 0)

\* What is computed step by step exists.
LEMMA RunExists ==
  ASSUME NEW n \in Nat, NEW State, NEW base \in State,
         NEW step \in [(1..n) \X State -> State]
  PROVE  \E h \in [0..n -> State] : Runs(h, base, step, n)
<1>1. PICK g \in [SUBSET (1..n) -> State] : Folds(g, base, step, n)
  BY FoldExists
<1>2. PICK h : h = [k \in 0..n |-> g[1..k]]
  OBVIOUS
<1>3. Runs(h, base, step, n)
  BY <1>1, <1>2, FoldRuns
<1>4. \A k \in 0..n : 1..k \in SUBSET (1..n)
  OBVIOUS
<1>5. h \in [0..n -> State]
  BY <1>1, <1>2, <1>4
<1> QED
  BY <1>3, <1>5

\* Flattened, the first k sequences are followed by the next.
Flattens(h, pieces, n) ==
  /\ h[0] = <<>> /\ \A k \in 1..n : h[k] = h[k - 1] \o pieces[k]
  /\ FlattenSeq(pieces) = h[n]

LEMMA FlattenRuns ==
  ASSUME NEW n \in Nat \ {0}, NEW T, NEW pieces \in Seq(Seq(T)), Len(pieces) = n
  PROVE  \E h \in [0..n -> Seq(T)] : Flattens(h, pieces, n)
<1> DEFINE Eq(f, i) == IF i = 1 THEN pieces[i] ELSE f[i - 1] \o pieces[i]
           H(f) == f = [i \in 1..Len(pieces) |-> Eq(f, i)]
<1>1. \A k \in 1..n : pieces[k] \in Seq(T)
  OBVIOUS
<1>2. PICK step : step = [p \in (1..n) \X Seq(T) |-> p[2] \o pieces[p[1]]]
  OBVIOUS
<1>3. ASSUME NEW k \in 1..n, NEW s \in Seq(T)
      PROVE  step[<<k, s>>] = s \o pieces[k] /\ s \o pieces[k] \in Seq(T)
  <2>1. <<k, s>> \in (1..n) \X Seq(T) /\ <<k, s>>[1] = k /\ <<k, s>>[2] = s
    OBVIOUS
  <2>2. s \o pieces[k] \in Seq(T)
    BY <1>1, ConcatProperties
  <2> QED
    BY <1>2, <2>1, <2>2
<1>4. step \in [(1..n) \X Seq(T) -> Seq(T)]
  <2> SUFFICES ASSUME NEW p \in (1..n) \X Seq(T) PROVE p[2] \o pieces[p[1]] \in Seq(T)
    BY <1>2
  <2>1. p[1] \in 1..n /\ p[2] \in Seq(T)
    OBVIOUS
  <2> QED
    BY <1>1, <2>1, ConcatProperties
<1>5. <<>> \in Seq(T) /\ n \in Nat
  BY EmptySeq
<1>6. PICK h \in [0..n -> Seq(T)] : Runs(h, <<>>, step, n)
  BY <1>4, <1>5, RunExists
<1>7. h[0] = <<>> /\ \A k \in 1..n : h[k] = h[k - 1] \o pieces[k]
  <2>1. h[0] = <<>> /\ \A k \in 1..n : h[k] = step[<<k, h[k - 1]>>]
    BY <1>6 DEF Runs
  <2>2. \A k \in 1..n : h[k - 1] \in Seq(T)
    OBVIOUS
  <2> QED
    BY <1>3, <2>1, <2>2
<1>8. PICK f : f = [i \in 1..n |-> h[i]]
  OBVIOUS
<1>9. H(f)
  <2>1. ASSUME NEW i \in 1..n PROVE h[i] = Eq(f, i)
    <3>1. CASE i = 1
      <4>a. h[i] = h[i - 1] \o pieces[i]
        BY <1>7
      <4>b. i - 1 = 0
        BY <3>1
      <4>1. h[i] = <<>> \o pieces[i]
        BY <1>7, <4>a, <4>b
      <4>2. <<>> \o pieces[i] = pieces[i]
        BY <1>1, ConcatEmptySeq
      <4> QED
        BY <3>1, <4>1, <4>2
    <3>2. CASE i # 1
      <4>1. i - 1 \in 1..n
        BY <3>2
      <4> QED
        BY <1>7, <1>8, <3>2, <4>1
    <3> QED
      BY <3>1, <3>2
  <2>2. f = [i \in 1..n |-> Eq(f, i)]
    BY <1>8, <2>1
  <2> QED
    BY <2>2
<1>10. PICK g : g = CHOOSE it : H(it)
  OBVIOUS
<1>11. FlattenSeq(pieces) = g[n]
  <2>1. Len(pieces) # 0
    OBVIOUS
  <2> QED
    BY <1>10, <2>1 DEF FlattenSeq
<1>12. H(g)
  <2> HIDE DEF H
  <2> QED
    BY <1>9, <1>10
<1>13. \A i \in 1..n : g[i] = Eq(g, i)
  BY <1>12
<1>14. PICK P : P = {k \in 0..n : k # 0 => g[k] = h[k]}
  OBVIOUS
<1>15. ASSUME NEW k \in 1..n, k - 1 \in P PROVE k \in P
  <2>1. CASE k = 1
    <3>1. g[k] = pieces[k]
      BY <1>13, <2>1
    <3>a. h[k] = h[k - 1] \o pieces[k]
      BY <1>7
    <3>b. k - 1 = 0
      BY <2>1
    <3>2. h[k] = <<>> \o pieces[k]
      BY <1>7, <3>a, <3>b
    <3>3. <<>> \o pieces[k] = pieces[k]
      BY <1>1, ConcatEmptySeq
    <3> QED
      BY <1>14, <3>1, <3>2, <3>3
  <2>2. CASE k # 1
    <3>1. g[k - 1] = h[k - 1]
      BY <1>14, <1>15, <2>2
    <3>2. g[k] = g[k - 1] \o pieces[k]
      BY <1>13, <2>2
    <3>3. h[k] = h[k - 1] \o pieces[k]
      BY <1>7
    <3>4. g[k] = h[k]
      BY <3>1, <3>2, <3>3, Zenon
    <3> QED
      BY <1>14, <3>4
  <2> QED
    BY <2>1, <2>2
<1>16. \A k \in 0..n : k \in P
  <2>1. 0 \in P
    BY <1>14
  <2> QED
    BY <1>5, <1>15, <2>1, StepByStep
<1>17. g[n] = h[n]
  BY <1>14, <1>16
<1> QED
  BY <1>7, <1>11, <1>17 DEF Flattens

LEMMA AddsPiece ==
  ASSUME NEW T, NEW s \in Seq(T), NEW x \in T, NEW c \in BOOLEAN, NEW v
  PROVE  /\ s \o (IF c THEN <<x>> ELSE <<>>) \in Seq(T)
         /\ Times(s \o (IF c THEN <<x>> ELSE <<>>), v)
              = Times(s, v) + (IF c /\ x = v THEN 1 ELSE 0)
<1>1. Times(s, v) \in Nat
  BY TimesIs
<1>2. CASE c
  <2>1. s \o <<x>> = Append(s, x)
    BY AppendIsConcat
  <2>2. Append(s, x) \in Seq(T) /\ Times(Append(s, x), v) = Times(s, v) + (IF x = v THEN 1 ELSE 0)
    BY AppendProperties, TimesAppend
  <2> QED
    BY <1>2, <2>1, <2>2
<1>3. CASE ~c
  <2>1. s \o <<>> = s
    BY ConcatEmptySeq
  <2> QED
    BY <1>1, <1>3, <2>1
<1> QED
  BY <1>2, <1>3

LEMMA NextsAre ==
  ASSUME NEW list, SoundList(list), NEW n \in 1..Len(list)
  PROVE  /\ Nexts(list, n) \in Seq(1..Len(list))
         /\ \A m \in 1..Len(list) : Times(Nexts(list, n), m) = Slots(list[m], n)
<1>1. PICK N : N = Len(list)
  OBVIOUS
<1>2. N \in Nat \ {0} /\ DOMAIN list = 1..N
  BY <1>1, ListParts
<1>a. PICK T : T = 1..N
  OBVIOUS
<1> DEFINE A(m) == IF list[m].a = n THEN <<m>> ELSE <<>>
           B(m) == IF list[m].b = n THEN <<m>> ELSE <<>>
<1>3. PICK pieces : pieces = [m \in 1..N |-> A(m) \o B(m)]
  OBVIOUS
<1>4. Nexts(list, n) = FlattenSeq(pieces)
  BY <1>2, <1>3 DEF Nexts
<1>5. \A m \in 1..N : A(m) \in Seq(T) /\ B(m) \in Seq(T)
  <2>1. \A m \in 1..N : <<m>> \in Seq(T)
    BY <1>a
  <2>2. <<>> \in Seq(T)
    BY EmptySeq
  <2> QED
    BY <2>1, <2>2
<1>6. \A m \in 1..N : A(m) \o B(m) \in Seq(T)
  BY <1>5, ConcatProperties
<1>7. pieces \in Seq(Seq(T)) /\ Len(pieces) = N
  <2>1. pieces \in [1..N -> Seq(T)]
    BY <1>3, <1>6
  <2> QED
    BY <1>2, <2>1
<1>b. PICK h \in [0..N -> Seq(T)] : Flattens(h, pieces, N)
  BY <1>2, <1>7, FlattenRuns
<1>8. /\ h[0] = <<>> /\ \A k \in 1..N : h[k] = h[k - 1] \o pieces[k]
      /\ FlattenSeq(pieces) = h[N]
  BY <1>b DEF Flattens
<1>9. PICK P : P = {k \in 0..N : \A m \in 1..N : Times(h[k], m) = IF m <= k THEN Slots(list[m], n) ELSE 0}
  OBVIOUS
<1>10. 0 \in P
  <2>1. h[0] \in Seq(T) /\ Len(h[0]) = 0 /\ 0 \in 0..N
    BY <1>2, <1>8
  <2>2. \A m \in 1..N : Times(h[0], m) = 0
    <3>1. \A i \in 1..Len(h[0]) : FALSE
      BY <2>1
    <3> QED
      BY <2>1, <3>1, TimesIs
  <2>3. \A m \in 1..N : ~ (m <= 0)
    OBVIOUS
  <2> QED
    BY <1>9, <2>1, <2>2, <2>3
<1>11. ASSUME NEW k \in 1..N, k - 1 \in P PROVE k \in P
  <2>1. PICK s : s = h[k - 1]
    OBVIOUS
  <2>2. s \in Seq(T) /\ k \in T /\ k - 1 \in 0..N
    BY <1>2, <1>a, <2>1
  <2>3. h[k] = (s \o A(k)) \o B(k)
    <3>1. h[k] = s \o (A(k) \o B(k))
      BY <1>3, <1>8, <2>1
    <3>2. PICK p, q : p = A(k) /\ q = B(k)
      OBVIOUS
    <3>3. p \in Seq(T) /\ q \in Seq(T)
      BY <1>5, <3>2
    <3>4. s \o (p \o q) = (s \o p) \o q
      BY <2>2, <3>3, ConcatAssociative, SMTT(60)
    <3> HIDE DEF A, B
    <3> QED
      BY <3>1, <3>2, <3>4
  <2>4. PICK c \in BOOLEAN : c = (list[k].a = n)
    OBVIOUS
  <2>5. PICK d \in BOOLEAN : d = (list[k].b = n)
    OBVIOUS
  <2>6. PICK t : t = s \o (IF c THEN <<k>> ELSE <<>>)
    OBVIOUS
  <2>7. t = s \o A(k)
    BY <2>4, <2>6
  <2>8. h[k] = t \o (IF d THEN <<k>> ELSE <<>>)
    BY <2>3, <2>5, <2>7
  <2>9. t \in Seq(T) /\ \A m \in 1..N : Times(t, m) = Times(s, m) + (IF c /\ k = m THEN 1 ELSE 0)
    BY <2>2, <2>6, AddsPiece
  <2>10. \A m \in 1..N : Times(h[k], m) = Times(t, m) + (IF d /\ k = m THEN 1 ELSE 0)
    BY <2>2, <2>8, <2>9, AddsPiece
  <2>11. ASSUME NEW m \in 1..N
         PROVE  Times(h[k], m) = IF m <= k THEN Slots(list[m], n) ELSE 0
    <3>1. Times(s, m) = IF m <= k - 1 THEN Slots(list[m], n) ELSE 0
      BY <1>9, <1>11, <2>1
    <3>2. Slots(list[m], n) \in Nat
      BY DEF Slots
    <3>3. CASE k = m
      <4>1. Times(s, m) = 0
        BY <3>1, <3>3
      <4>2. Slots(list[m], n) = (IF c THEN 1 ELSE 0) + (IF d THEN 1 ELSE 0)
        BY <2>4, <2>5, <3>3 DEF Slots
      <4>3. Times(h[k], m) = (0 + (IF c THEN 1 ELSE 0)) + (IF d THEN 1 ELSE 0)
        BY <2>9, <2>10, <3>3, <4>1
      <4> QED
        BY <3>3, <4>2, <4>3
    <3>4. CASE k # m
      <4>1. Times(h[k], m) = (Times(s, m) + 0) + 0
        BY <2>9, <2>10, <3>4
      <4>2. (m <= k) <=> (m <= k - 1)
        BY <3>4
      <4> QED
        BY <3>1, <3>2, <4>1, <4>2
    <3> QED
      BY <3>3, <3>4
  <2> QED
    BY <1>9, <2>11
<1>12. \A k \in 0..N : k \in P
  BY <1>2, <1>10, <1>11, StepByStep
<1>13. \A m \in 1..N : Times(h[N], m) = Slots(list[m], n)
  BY <1>2, <1>9, <1>12
<1> QED
  BY <1>1, <1>2, <1>4, <1>8, <1>13, <1>a

-----------------------------------------------------------------------------
(* Relaxing the nexts of a node.                                           *)

In(s, x) == \E i \in 1..Len(s) : s[i] = x
Distinct(s) == \A i, j \in 1..Len(s) : s[i] = s[j] => i = j

LEMMA AppendDistinct ==
  ASSUME NEW T, NEW s \in Seq(T), NEW x \in T
  PROVE  /\ Append(s, x) \in Seq(T) /\ Len(Append(s, x)) = Len(s) + 1
         /\ \A y : In(Append(s, x), y) <=> In(s, y) \/ y = x
         /\ Distinct(s) /\ ~In(s, x) => Distinct(Append(s, x))
<1>1. PICK t : t = Append(s, x)
  OBVIOUS
<1>2. PICK n : n = Len(s)
  OBVIOUS
<1>3. /\ t \in Seq(T) /\ Len(t) = n + 1 /\ n \in Nat
      /\ \A i \in 1..n : t[i] = s[i]
      /\ t[n + 1] = x
  BY <1>1, <1>2, AppendProperties, LenProperties
<1>4. \A i \in 1..n + 1 : i \in 1..n \/ i = n + 1
  BY <1>3
<1>5. n + 1 \in 1..n + 1 /\ \A i \in 1..n : i \in 1..n + 1
  BY <1>3
<1>6. \A y : In(t, y) <=> In(s, y) \/ y = x
  BY <1>2, <1>3, <1>4, <1>5 DEF In
<1>7. ASSUME Distinct(s), ~In(s, x) PROVE Distinct(t)
  BY <1>2, <1>3, <1>4, <1>7 DEF In, Distinct
<1> QED
  BY <1>1, <1>2, <1>3, <1>6, <1>7

LEMMA TailDistinct ==
  ASSUME NEW T, NEW s \in Seq(T), s # <<>>, Distinct(s)
  PROVE  /\ Head(s) \in T /\ In(s, Head(s))
         /\ Tail(s) \in Seq(T) /\ Distinct(Tail(s))
         /\ \A y : In(Tail(s), y) <=> In(s, y) /\ y # Head(s)
<1>1. PICK t : t = Tail(s)
  OBVIOUS
<1>2. PICK n : n = Len(s)
  OBVIOUS
<1>3. /\ Head(s) \in T /\ t \in Seq(T) /\ Len(t) = n - 1 /\ n \in Nat \ {0}
      /\ \A i \in 1..n - 1 : t[i] = s[i + 1]
      /\ Head(s) = s[1]
  BY <1>1, <1>2, HeadTailProperties, LenProperties, EmptySeq
<1>4. Distinct(t)
  <2>1. \A i \in 1..n - 1 : i + 1 \in 1..n /\ t[i] = s[i + 1]
    BY <1>3
  <2>2. \A i, j \in 1..n : s[i] = s[j] => i = j
    BY <1>2 DEF Distinct
  <2>3. \A i, j \in 1..n - 1 : t[i] = t[j] => i + 1 = j + 1
    BY <2>1, <2>2
  <2> QED
    BY <1>3, <2>3 DEF Distinct
<1>5. In(s, Head(s))
  BY <1>2, <1>3 DEF In
<1>6. ASSUME NEW y PROVE In(t, y) <=> In(s, y) /\ y # Head(s)
  <2>1. ASSUME In(t, y) PROVE In(s, y) /\ y # Head(s)
    <3>1. PICK i \in 1..n - 1 : t[i] = y
      BY <1>3, <2>1 DEF In
    <3>2. s[i + 1] = y /\ i + 1 \in 1..n /\ i + 1 # 1 /\ 1 \in 1..n
      BY <1>3, <3>1
    <3> QED
      BY <1>2, <1>3, <3>2 DEF In, Distinct
  <2>2. ASSUME In(s, y), y # Head(s) PROVE In(t, y)
    <3>1. PICK i \in 1..n : s[i] = y
      BY <1>2, <2>2 DEF In
    <3>2. i - 1 \in 1..n - 1 /\ (i - 1) + 1 = i
      BY <1>3, <2>2, <3>1
    <3>3. t[i - 1] = y
      BY <1>3, <3>1, <3>2
    <3> QED
      BY <1>3, <3>2, <3>3 DEF In
  <2> QED
    BY <2>1, <2>2
<1> QED
  BY <1>1, <1>3, <1>4, <1>5, <1>6

State(n) == [queue : Seq(1..n), degree : [1..n -> Int], sorted : Seq(1..n)]

LEMMA RelaxIs ==
  ASSUME NEW n \in Nat, NEW s \in State(n), NEW m \in 1..n
  PROVE  /\ Relax(s, m) \in State(n) /\ Relax(s, m).sorted = s.sorted
         /\ \A x \in 1..n : Relax(s, m).degree[x] = IF x = m THEN s.degree[x] - 1 ELSE s.degree[x]
         /\ Relax(s, m).queue = IF s.degree[m] = 1 THEN Append(s.queue, m) ELSE s.queue
<1>1. PICK q : q = IF s.degree[m] = 1 THEN Append(s.queue, m) ELSE s.queue
  OBVIOUS
<1>2. s.queue \in Seq(1..n) /\ s.degree \in [1..n -> Int] /\ s.sorted \in Seq(1..n)
  BY DEF State
<1>3. q \in Seq(1..n)
  BY <1>1, <1>2, AppendProperties
<1>4. PICK d : d = [s.degree EXCEPT ![m] = s.degree[m] - 1]
  OBVIOUS
<1>5. d \in [1..n -> Int] /\ \A x \in 1..n : d[x] = IF x = m THEN s.degree[x] - 1 ELSE s.degree[x]
  BY <1>2, <1>4
<1>6. s = [queue |-> s.queue, degree |-> s.degree, sorted |-> s.sorted]
  BY DEF State
<1>a. PICK s1 : s1 = [s EXCEPT !.degree[m] = @ - 1]
  OBVIOUS
<1>b. s1.queue = s.queue /\ s1.sorted = s.sorted /\ s1.degree = d /\ s1 = [queue |-> s.queue, degree |-> d, sorted |-> s.sorted]
  BY <1>4, <1>6, <1>a
<1>c. Relax(s, m) = [s1 EXCEPT !.queue = IF s.degree[m] = 1 THEN Append(@, m) ELSE @]
  BY <1>a DEF Relax
<1>7. Relax(s, m) = [queue |-> q, degree |-> d, sorted |-> s.sorted]
  BY <1>1, <1>b, <1>c
<1> QED
  BY <1>1, <1>2, <1>3, <1>5, <1>7 DEF State

\* A whole interval loses its last number.
LEMMA LastOf ==
  ASSUME NEW n \in Nat, NEW k \in 1..n
  PROVE  Max(1..k) = k /\ (1..k) \ {k} = 1..k - 1 /\ 1..k \in SUBSET (1..n) /\ 1..k # {}
<1>1. 1..k \in SUBSET (1..n) /\ 1..k # {} /\ k \in 1..k
  OBVIOUS
<1>2. 1..k \subseteq 1..n
  BY <1>1
<1>3. Max(1..k) \in 1..k /\ \A j \in 1..k : j <= Max(1..k)
  BY <1>1, <1>2, MaxIs, Zenon
<1>4. Max(1..k) = k
  BY <1>1, <1>3
<1> QED
  BY <1>1, <1>4

Relaxes(h, base, seq) ==
  /\ h[0] = base /\ \A k \in 1..Len(seq) : h[k] = Relax(h[k - 1], seq[k])
  /\ FoldLeft(Relax, base, seq) = h[Len(seq)]

LEMMA RelaxRuns ==
  ASSUME NEW n \in Nat, NEW base \in State(n), NEW seq \in Seq(1..n)
  PROVE  \E h \in [0..Len(seq) -> State(n)] : Relaxes(h, base, seq)
<1>1. PICK l : l = Len(seq)
  OBVIOUS
<1>2. l \in Nat /\ DOMAIN seq = 1..l /\ \A k \in 1..l : seq[k] \in 1..n
  BY <1>1, LenProperties
<1>3. PICK step : step = [p \in (1..l) \X State(n) |-> Relax(p[2], seq[p[1]])]
  OBVIOUS
<1>4. ASSUME NEW k \in 1..l, NEW s \in State(n)
      PROVE  step[<<k, s>>] = Relax(s, seq[k]) /\ Relax(s, seq[k]) \in State(n)
  <2>1. <<k, s>> \in (1..l) \X State(n) /\ <<k, s>>[1] = k /\ <<k, s>>[2] = s
    OBVIOUS
  <2>2. Relax(s, seq[k]) \in State(n)
    BY <1>2, RelaxIs
  <2> QED
    BY <1>3, <2>1, <2>2
<1>5. step \in [(1..l) \X State(n) -> State(n)]
  <2> SUFFICES ASSUME NEW p \in (1..l) \X State(n) PROVE Relax(p[2], seq[p[1]]) \in State(n)
    BY <1>3
  <2>1. p[1] \in 1..l /\ p[2] \in State(n)
    OBVIOUS
  <2> QED
    BY <1>2, <2>1, RelaxIs
<1>6. PICK g \in [SUBSET (1..l) -> State(n)] : Folds(g, base, step, l)
  BY <1>2, <1>5, FoldExists
<1> DEFINE Eq(f, s) == IF s = {} THEN base ELSE Relax(f[s \ {Max(s)}], seq[Max(s)])
           H(f) == f = [s \in SUBSET (1..l) |-> Eq(f, s)]
<1>7. H(g)
  <2>1. ASSUME NEW s \in SUBSET (1..l) PROVE g[s] = Eq(g, s)
    <3>1. CASE s = {}
      BY <1>6, <3>1 DEF Folds
    <3>2. CASE s # {}
      <4>1. s \subseteq 1..l
        OBVIOUS
      <4>2. Max(s) \in s
        BY <1>2, <3>2, <4>1, MaxIs
      <4>3. Max(s) \in 1..l /\ s \ {Max(s)} \in SUBSET (1..l)
        BY <4>1, <4>2
      <4>4. g[s] = step[<<Max(s), g[s \ {Max(s)}]>>]
        BY <1>6, <3>2 DEF Folds
      <4>5. g[s \ {Max(s)}] \in State(n)
        BY <4>3
      <4> QED
        BY <1>4, <3>2, <4>3, <4>4, <4>5
    <3> QED
      BY <3>1, <3>2
  <2>2. g = [s \in SUBSET (1..l) |-> g[s]]
    OBVIOUS
  <2> HIDE DEF Eq
  <2> QED
    BY <2>1, <2>2
<1>8. PICK it : it = CHOOSE f : H(f)
  OBVIOUS
<1>9. FoldLeft(Relax, base, seq) = it[1..l]
  BY <1>2, <1>8 DEF FoldLeft, MapThenFoldSet
<1>10. H(it)
  <2> HIDE DEF H
  <2> QED
    BY <1>7, <1>8
<1>11. PICK h : h = [k \in 0..l |-> it[1..k]]
  OBVIOUS
<1>12. h[0] = base
  <2>1. 1..0 = {} /\ {} \in SUBSET (1..l) /\ 0 \in 0..l
    BY <1>2
  <2> QED
    BY <1>10, <1>11, <2>1
<1>13. ASSUME NEW k \in 1..l PROVE h[k] = Relax(h[k - 1], seq[k])
  <2>1. Max(1..k) = k /\ (1..k) \ {k} = 1..k - 1 /\ 1..k \in SUBSET (1..l) /\ 1..k # {}
    BY <1>2, LastOf
  <2>2. it[1..k] = Eq(it, 1..k)
    BY <1>10, <2>1
  <2>3. it[1..k] = Relax(it[1..k - 1], seq[k])
    BY <2>1, <2>2
  <2>4. k \in 0..l /\ k - 1 \in 0..l
    BY <1>2
  <2> QED
    BY <1>11, <2>3, <2>4
<1>14. PICK P : P = {k \in 0..l : h[k] \in State(n)}
  OBVIOUS
<1>15. \A k \in 0..l : k \in P
  <2>1. 0 \in P
    BY <1>2, <1>12, <1>14
  <2>2. ASSUME NEW k \in 1..l, k - 1 \in P PROVE k \in P
    <3>1. h[k - 1] \in State(n) /\ k \in 0..l
      BY <1>14, <2>2
    <3>2. Relax(h[k - 1], seq[k]) \in State(n)
      BY <1>4, <3>1
    <3> QED
      BY <1>13, <1>14, <3>1, <3>2
  <2> QED
    BY <1>2, <2>1, <2>2, StepByStep
<1>16. h \in [0..l -> State(n)]
  BY <1>11, <1>14, <1>15
<1>17. FoldLeft(Relax, base, seq) = h[l]
  BY <1>2, <1>9, <1>11
<1> QED
  BY <1>1, <1>12, <1>13, <1>16, <1>17 DEF Relaxes

LEMMA PrefixTimes ==
  ASSUME NEW T, NEW s \in Seq(T), NEW v
  PROVE  /\ Times(SubSeq(s, 1, 0), v) = 0
         /\ \A k \in 1..Len(s) : Times(SubSeq(s, 1, k), v)
              = Times(SubSeq(s, 1, k - 1), v) + (IF s[k] = v THEN 1 ELSE 0)
         /\ \A k \in 0..Len(s) : Times(SubSeq(s, 1, k), v) \in Nat
         /\ SubSeq(s, 1, Len(s)) = s
<1>1. PICK n : n = Len(s)
  OBVIOUS
<1>2. n \in Nat /\ \A k \in 1..n : s[k] \in T
  BY <1>1
<1>3. ASSUME NEW k \in 0..n PROVE SubSeq(s, 1, k) \in Seq(T) /\ Times(SubSeq(s, 1, k), v) \in Nat
  <2>1. \A i \in 1..k : s[i] \in T
    BY <1>2
  <2>2. SubSeq(s, 1, k) \in Seq(T)
    BY <2>1, SubSeqProperties
  <2>3. PICK t \in Seq(T) : t = SubSeq(s, 1, k)
    BY <2>2
  <2>4. Times(t, v) \in Nat
    BY TimesIs
  <2> QED
    BY <2>2, <2>3, <2>4
<1>4. Times(SubSeq(s, 1, 0), v) = 0
  <2>1. SubSeq(s, 1, 0) = <<>>
    BY SubSeqEmpty
  <2>2. PICK t \in Seq(T) : t = SubSeq(s, 1, 0) /\ Len(t) = 0
    BY <2>1, EmptySeq
  <2>3. \A i \in 1..Len(t) : t[i] # v
    BY <2>2
  <2>4. Times(t, v) = 0
    BY <2>3, TimesIs
  <2> QED
    BY <2>2, <2>4
<1>5. ASSUME NEW k \in 1..n
      PROVE  Times(SubSeq(s, 1, k), v) = Times(SubSeq(s, 1, k - 1), v) + (IF s[k] = v THEN 1 ELSE 0)
  <2>1. k - 1 \in 0..n /\ 1 \in 1..Len(s) /\ k \in 1..Len(s)
    BY <1>1, <1>2
  <2>2. PICK t \in Seq(T) : t = SubSeq(s, 1, k - 1)
    BY <1>3, <2>1
  <2>3. SubSeq(s, 1, k) = t \o <<s[k]>>
    BY <2>1, <2>2, SubSeqRecursiveSecond
  <2>4. s[k] \in T
    BY <1>2
  <2>5. PICK x \in T : x = s[k]
    BY <2>4
  <2>6. t \o <<x>> = Append(t, x)
    BY AppendIsConcat
  <2>7. Times(Append(t, x), v) = Times(t, v) + (IF x = v THEN 1 ELSE 0)
    BY TimesAppend
  <2> QED
    BY <2>2, <2>3, <2>5, <2>6, <2>7
<1>6. SubSeq(s, 1, Len(s)) = s
  BY SubSeqFull
<1> QED
  BY <1>1, <1>3, <1>4, <1>5, <1>6

\* Each next loses a degree for every time it stands among the nexts, and joins
\* the queue once, when it has none left.
Relaxed(r, base, seq, n) ==
  /\ r \in State(n) /\ r.sorted = base.sorted /\ Distinct(r.queue)
  /\ \A m \in 1..n : r.degree[m] = base.degree[m] - Times(seq, m)
  /\ \A m \in 1..n : In(r.queue, m)
       <=> In(base.queue, m) \/ (base.degree[m] > 0 /\ r.degree[m] <= 0)

LEMMA RelaxesNexts ==
  ASSUME NEW n \in Nat, NEW base \in State(n), NEW seq \in Seq(1..n),
         Distinct(base.queue), \A m \in 1..n : In(base.queue, m) => base.degree[m] <= 0
  PROVE  Relaxed(FoldLeft(Relax, base, seq), base, seq, n)
<1>1. PICK h \in [0..Len(seq) -> State(n)] : Relaxes(h, base, seq)
  BY RelaxRuns
<1>2. PICK l : l = Len(seq)
  OBVIOUS
<1>3. /\ l \in Nat /\ \A k \in 1..l : seq[k] \in 1..n
      /\ h[0] = base /\ \A k \in 1..l : h[k] = Relax(h[k - 1], seq[k])
      /\ FoldLeft(Relax, base, seq) = h[l]
      /\ \A k \in 0..l : h[k] \in State(n)
  BY <1>1, <1>2, LenProperties DEF Relaxes
<1>4. base.degree \in [1..n -> Int]
  BY DEF State
<1> DEFINE T(k, m) == Times(SubSeq(seq, 1, k), m)
           Ok(k) == /\ h[k].sorted = base.sorted /\ Distinct(h[k].queue)
                    /\ \A m \in 1..n : h[k].degree[m] = base.degree[m] - T(k, m)
                    /\ \A m \in 1..n : In(h[k].queue, m)
                         <=> In(base.queue, m) \/ (base.degree[m] > 0 /\ h[k].degree[m] <= 0)
<1>5. /\ \A m \in 1..n : T(0, m) = 0
      /\ \A k \in 1..l : \A m \in 1..n : T(k, m) = T(k - 1, m) + (IF seq[k] = m THEN 1 ELSE 0)
      /\ \A k \in 0..l : \A m \in 1..n : T(k, m) \in Nat
      /\ SubSeq(seq, 1, l) = seq
  <2>1. ASSUME NEW m \in 1..n
        PROVE  /\ T(0, m) = 0
               /\ \A k \in 1..l : T(k, m) = T(k - 1, m) + (IF seq[k] = m THEN 1 ELSE 0)
               /\ \A k \in 0..l : T(k, m) \in Nat
    BY <1>2, PrefixTimes
  <2>2. SubSeq(seq, 1, l) = seq
    BY <1>2, SubSeqFull
  <2> HIDE DEF T
  <2> QED
    BY <2>1, <2>2
<1>6. PICK P : P = {k \in 0..l : Ok(k)}
  OBVIOUS
<1>7. Ok(0)
  <2> HIDE DEF T
  <2>1. \A m \in 1..n : h[0].degree[m] = base.degree[m] - T(0, m)
    BY <1>3, <1>4, <1>5
  <2>2. \A m \in 1..n : ~ (base.degree[m] > 0 /\ h[0].degree[m] <= 0)
    BY <1>3, <1>4
  <2> QED
    BY <1>3, <2>1, <2>2
<1>8. ASSUME NEW k \in 1..l, Ok(k - 1) PROVE Ok(k)
  <2> HIDE DEF T
  <2>1. PICK s : s = h[k - 1]
    OBVIOUS
  <2>2. PICK x : x = seq[k]
    OBVIOUS
  <2>3. PICK r : r = h[k]
    OBVIOUS
  <2>4. s \in State(n) /\ x \in 1..n /\ k - 1 \in 0..l /\ r = Relax(s, x)
    BY <1>3, <2>1, <2>2, <2>3
  <2>5. /\ s.sorted = base.sorted /\ Distinct(s.queue)
        /\ \A m \in 1..n : s.degree[m] = base.degree[m] - T(k - 1, m)
        /\ \A m \in 1..n : In(s.queue, m)
             <=> In(base.queue, m) \/ (base.degree[m] > 0 /\ s.degree[m] <= 0)
    BY <1>8, <2>1
  <2>6. /\ r \in State(n) /\ r.sorted = s.sorted
        /\ \A m \in 1..n : r.degree[m] = IF m = x THEN s.degree[m] - 1 ELSE s.degree[m]
        /\ r.queue = IF s.degree[x] = 1 THEN Append(s.queue, x) ELSE s.queue
    <3>1. s \in State(n) /\ x \in 1..n
      BY <2>4
    <3>2. /\ Relax(s, x) \in State(n) /\ Relax(s, x).sorted = s.sorted
          /\ \A m \in 1..n : Relax(s, x).degree[m] = IF m = x THEN s.degree[m] - 1 ELSE s.degree[m]
          /\ Relax(s, x).queue = IF s.degree[x] = 1 THEN Append(s.queue, x) ELSE s.queue
      BY <3>1, RelaxIs
    <3> QED
      BY <2>4, <3>2
  <2>7. s.degree \in [1..n -> Int] /\ s.queue \in Seq(1..n)
    BY <2>4 DEF State
  <2>8. \A m \in 1..n : r.degree[m] = base.degree[m] - T(k, m)
    <3> SUFFICES ASSUME NEW m \in 1..n PROVE r.degree[m] = base.degree[m] - T(k, m)
      OBVIOUS
    <3>1. T(k, m) = T(k - 1, m) + (IF x = m THEN 1 ELSE 0) /\ T(k - 1, m) \in Nat /\ base.degree[m] \in Int
      BY <1>4, <1>5, <2>2, <2>4
    <3>2. s.degree[m] = base.degree[m] - T(k - 1, m)
      BY <2>5
    <3>3. r.degree[m] = IF m = x THEN s.degree[m] - 1 ELSE s.degree[m]
      BY <2>6
    <3> QED
      BY <3>1, <3>2, <3>3
  <2>9. CASE s.degree[x] = 1
    <3>1. base.degree[x] > 0
      <4>1. base.degree[x] \in Int /\ T(k - 1, x) \in Nat
        BY <1>4, <1>5, <2>4
      <4>2. 1 = base.degree[x] - T(k - 1, x)
        BY <2>4, <2>5, <2>9
      <4> QED
        BY <4>1, <4>2
    <3>2. ~ In(base.queue, x)
      <4>1. base.degree[x] \in Int /\ (In(base.queue, x) => base.degree[x] <= 0)
        BY <1>4, <2>4
      <4> QED
        BY <3>1, <4>1
    <3>3. ~ In(s.queue, x)
      BY <2>4, <2>5, <2>9, <3>2
    <3>4. r.queue = Append(s.queue, x)
      BY <2>6, <2>9
    <3>5. Distinct(r.queue) /\ \A y : In(r.queue, y) <=> In(s.queue, y) \/ y = x
      BY <2>4, <2>5, <2>7, <3>3, <3>4, AppendDistinct
    <3>6. ASSUME NEW m \in 1..n
          PROVE  In(r.queue, m) <=> In(base.queue, m) \/ (base.degree[m] > 0 /\ r.degree[m] <= 0)
      <4>1. CASE m = x
        <5>1. r.degree[m] = 0
          BY <2>6, <2>9, <4>1
        <5> QED
          BY <3>1, <3>5, <4>1, <5>1
      <4>2. CASE m # x
        <5>1. r.degree[m] = s.degree[m]
          BY <2>6, <4>2
        <5> QED
          BY <2>5, <3>5, <4>2, <5>1
      <4> QED
        BY <4>1, <4>2
    <3> QED
      BY <2>3, <2>5, <2>6, <2>8, <3>5, <3>6
  <2>10. CASE s.degree[x] # 1
    <3>1. r.queue = s.queue
      BY <2>6, <2>10
    <3>2. ASSUME NEW m \in 1..n
          PROVE  (base.degree[m] > 0 /\ r.degree[m] <= 0) <=> (base.degree[m] > 0 /\ s.degree[m] <= 0)
      <4>1. r.degree[m] = IF m = x THEN s.degree[m] - 1 ELSE s.degree[m]
        BY <2>6
      <4>2. s.degree[m] \in Int
        BY <2>7
      <4>3. m = x => s.degree[m] # 1
        BY <2>10
      <4>4. r.degree[m] <= 0 <=> s.degree[m] <= 0
        BY <4>1, <4>2, <4>3
      <4> QED
        BY <4>4
    <3>3. ASSUME NEW m \in 1..n
          PROVE  In(r.queue, m) <=> In(base.queue, m) \/ (base.degree[m] > 0 /\ r.degree[m] <= 0)
      BY <2>5, <3>1, <3>2
    <3> QED
      BY <2>3, <2>5, <2>6, <2>8, <3>1, <3>3
  <2> QED
    BY <2>9, <2>10
<1>9. \A k \in 0..l : k \in P
  <2> HIDE DEF Ok
  <2>1. 0 \in P /\ \A k \in 1..l : k - 1 \in P => k \in P
    BY <1>3, <1>6, <1>7, <1>8
  <2> QED
    BY <1>3, <2>1, StepByStep
<1>10. Ok(l) /\ h[l] \in State(n)
  <2> HIDE DEF Ok
  <2> QED
    BY <1>3, <1>6, <1>9
<1> QED
  BY <1>3, <1>5, <1>10 DEF Relaxed

-----------------------------------------------------------------------------
(* The topological sort.                                                   *)

\* Distinct numbers up to n: fewer than n leave one out, n are all of them.
LEMMA Fills ==
  ASSUME NEW n \in Nat, NEW s \in Seq(1..n), Distinct(s)
  PROVE  /\ Len(s) < n => \E m \in 1..n : ~In(s, m)
         /\ Len(s) = n => \A m \in 1..n : In(s, m)
<1>1. PICK j : j = Len(s)
  OBVIOUS
<1>2. j \in Nat /\ s \in [1..j -> 1..n]
  BY <1>1, LenProperties
<1>3. /\ IsFiniteSet(1..j) /\ Cardinality(1..j) = j
      /\ IsFiniteSet(1..n) /\ Cardinality(1..n) = n
  BY <1>2, FS_Interval
<1>4. ASSUME j < n, \A m \in 1..n : In(s, m) PROVE FALSE
  <2>1. \A m \in 1..n : \E i \in 1..j : s[i] = m
    BY <1>1, <1>4 DEF In
  <2>2. s \in Surjection(1..j, 1..n)
    BY <1>2, <2>1 DEF Surjection
  <2>3. Cardinality(1..n) <= Cardinality(1..j)
    BY <1>3, <2>2, FS_Surjection
  <2> QED
    BY <1>2, <1>3, <1>4, <2>3
<1>5. ASSUME j = n, NEW m \in 1..n PROVE In(s, m)
  <2>1. s \in Injection(1..j, 1..n)
    BY <1>1, <1>2 DEF Injection, IsInjective, Distinct
  <2>2. Cardinality(1..j) = Cardinality(1..n)
    BY <1>3, <1>5
  <2>3. s \in Surjection(1..j, 1..n)
    BY <1>3, <2>1, <2>2, FS_Injection
  <2> QED
    BY <1>1, <2>3 DEF Surjection, In
<1> QED
  BY <1>1, <1>4, <1>5

\* The operands that are not sorted yet.
OpenIn(node, s) == (IF node.a # 0 /\ ~In(s, node.a) THEN 1 ELSE 0)
                 + (IF node.b # 0 /\ ~In(s, node.b) THEN 1 ELSE 0)

\* After j turns of the loop: what is sorted and what is in the queue are the
\* nodes without open operands, and operands are sorted before their operation.
Kahn(list, s, j) ==
  /\ s \in State(Len(list)) /\ Distinct(s.queue) /\ Distinct(s.sorted) /\ Len(s.sorted) = j
  /\ \A m \in 1..Len(list) :
       /\ s.degree[m] = OpenIn(list[m], s.sorted)
       /\ (In(s.sorted, m) \/ In(s.queue, m)) <=> s.degree[m] = 0
       /\ ~ (In(s.sorted, m) /\ In(s.queue, m))
  /\ \A i \in 1..j : \A x \in {list[s.sorted[i]].a, list[s.sorted[i]].b} :
       x # 0 => \E k \in 1..i - 1 : s.sorted[k] = x

\* The queue does not run empty before every node is sorted: the first node that
\* is not has no open operands.
LEMMA QueueLasts ==
  ASSUME NEW list, SoundList(list), NEW s, NEW j \in Nat, Kahn(list, s, j), j < Len(list)
  PROVE  s.queue # <<>>
<1>1. PICK n : n = Len(list)
  OBVIOUS
<1>2. /\ n \in Nat
      /\ \A i \in 1..n : list[i].a \in 0..i - 1 /\ list[i].b \in 0..i - 1
  BY <1>1, ListParts
<1>3. s.sorted \in Seq(1..n) /\ Distinct(s.sorted) /\ Len(s.sorted) = j
  BY <1>1 DEF Kahn, State
<1>4. PICK T : T = {m \in 1..n : ~In(s.sorted, m)}
  OBVIOUS
<1>5. T \subseteq Nat /\ T # {}
  <2>1. \E m \in 1..n : ~In(s.sorted, m)
    BY <1>1, <1>2, <1>3, Fills
  <2> QED
    BY <1>4, <2>1
<1>6. PICK m \in T : \A k \in T : m <= k
  BY <1>5, LeastNumber
<1>7. m \in 1..n /\ ~In(s.sorted, m)
  BY <1>4, <1>6
<1>8. \A x \in 1..m - 1 : In(s.sorted, x)
  BY <1>2, <1>4, <1>6, <1>7
<1>9. OpenIn(list[m], s.sorted) = 0
  <2>1. list[m].a # 0 => In(s.sorted, list[m].a)
    BY <1>2, <1>7, <1>8
  <2>2. list[m].b # 0 => In(s.sorted, list[m].b)
    BY <1>2, <1>7, <1>8
  <2> QED
    BY <2>1, <2>2 DEF OpenIn
<1>10. In(s.queue, m)
  BY <1>1, <1>7, <1>9 DEF Kahn
<1> QED
  <2>1. ASSUME s.queue = <<>> PROVE FALSE
    <3>1. Len(s.queue) = 0
      BY <2>1
    <3> QED
      BY <1>10, <3>1 DEF In
  <2> QED
    BY <2>1

\* The state a turn starts from.
Taken(s) == [s EXCEPT !.queue = Tail(@), !.sorted = Append(@, Head(s.queue))]

LEMMA TakenIs ==
  ASSUME NEW n \in Nat, NEW s \in State(n), s.queue # <<>>
  PROVE  /\ Head(s.queue) \in 1..n
         /\ Taken(s) \in State(n) /\ Taken(s).queue = Tail(s.queue)
         /\ Taken(s).degree = s.degree
         /\ Taken(s).sorted = Append(s.sorted, Head(s.queue))
<1>1. s.queue \in Seq(1..n) /\ s.degree \in [1..n -> Int] /\ s.sorted \in Seq(1..n)
  BY DEF State
<1>2. PICK t : t = Tail(s.queue)
  OBVIOUS
<1>3. PICK q : q = Head(s.queue)
  OBVIOUS
<1>4. t \in Seq(1..n) /\ q \in 1..n
  BY <1>1, <1>2, <1>3, HeadTailProperties
<1>5. PICK a : a = Append(s.sorted, q)
  OBVIOUS
<1>6. a \in Seq(1..n)
  BY <1>1, <1>4, <1>5, AppendProperties
<1>7. s = [queue |-> s.queue, degree |-> s.degree, sorted |-> s.sorted]
  BY DEF State
<1>8. Taken(s) = [s EXCEPT !.queue = t, !.sorted = a]
  BY <1>2, <1>3, <1>5 DEF Taken
<1>9. Taken(s) = [queue |-> t, degree |-> s.degree, sorted |-> a]
  BY <1>7, <1>8
<1> QED
  BY <1>1, <1>2, <1>3, <1>4, <1>5, <1>6, <1>9 DEF State

LEMMA VisitIs ==
  ASSUME NEW list, SoundList(list), NEW s \in State(Len(list))
  PROVE  /\ Visit(list, s) \in State(Len(list))
         /\ s.queue # <<>> =>
              Visit(list, s) = FoldLeft(Relax, Taken(s), Nexts(list, Head(s.queue)))
<1>1. PICK n : n = Len(list)
  OBVIOUS
<1>2. n \in Nat
  BY <1>1, ListParts
<1>3. CASE s.queue = <<>>
  <2>1. Visit(list, s) = s
    BY <1>3 DEF Visit
  <2> QED
    BY <1>3, <2>1
<1>4. CASE s.queue # <<>>
  <2>1. PICK base : base = Taken(s)
    OBVIOUS
  <2>2. PICK seq : seq = Nexts(list, Head(s.queue))
    OBVIOUS
  <2>3. Visit(list, s) = FoldLeft(Relax, base, seq)
    BY <1>4, <2>1, <2>2 DEF Visit, Taken
  <2>4. Head(s.queue) \in 1..n /\ base \in State(n)
    BY <1>1, <1>2, <1>4, <2>1, TakenIs
  <2>5. seq \in Seq(1..n)
    BY <1>1, <2>2, <2>4, NextsAre
  <2>6. PICK h \in [0..Len(seq) -> State(n)] : Relaxes(h, base, seq)
    BY <1>2, <2>4, <2>5, RelaxRuns
  <2>7. Len(seq) \in Nat
    BY <2>5
  <2>8. FoldLeft(Relax, base, seq) \in State(n)
    BY <2>6, <2>7 DEF Relaxes
  <2> QED
    BY <1>1, <1>4, <2>1, <2>2, <2>3, <2>8
<1> QED
  BY <1>3, <1>4

\* One more is sorted, and it is no operand of what is sorted already.
LEMMA VisitKeeps ==
  ASSUME NEW list, SoundList(list), NEW s, NEW j \in Nat, Kahn(list, s, j), j < Len(list)
  PROVE  Kahn(list, Visit(list, s), j + 1)
<1>1. PICK n : n = Len(list)
  OBVIOUS
<1>2. n \in Nat /\ \A m \in 1..n : list[m].a \in 0..m - 1 /\ list[m].b \in 0..m - 1
  BY <1>1, ListParts
<1>3. /\ s \in State(n) /\ Distinct(s.queue) /\ Distinct(s.sorted) /\ Len(s.sorted) = j
      /\ \A m \in 1..n : /\ s.degree[m] = OpenIn(list[m], s.sorted)
                         /\ (In(s.sorted, m) \/ In(s.queue, m)) <=> s.degree[m] = 0
                         /\ ~ (In(s.sorted, m) /\ In(s.queue, m))
      /\ \A i \in 1..j : \A x \in {list[s.sorted[i]].a, list[s.sorted[i]].b} :
           x # 0 => \E k \in 1..i - 1 : s.sorted[k] = x
  BY <1>1 DEF Kahn
<1>4. s.queue # <<>>
  BY QueueLasts
<1>5. s.queue \in Seq(1..n) /\ s.degree \in [1..n -> Int] /\ s.sorted \in Seq(1..n)
  BY <1>3 DEF State
<1>6. PICK q : q = Head(s.queue)
  OBVIOUS
<1>7. /\ q \in 1..n /\ In(s.queue, q) /\ Distinct(Tail(s.queue))
      /\ \A y : In(Tail(s.queue), y) <=> In(s.queue, y) /\ y # q
  BY <1>3, <1>4, <1>5, <1>6, TailDistinct
<1>8. s.degree[q] = 0 /\ ~In(s.sorted, q)
  BY <1>3, <1>7
<1>9. PICK base : base = Taken(s)
  OBVIOUS
<1>10. /\ base \in State(n) /\ base.queue = Tail(s.queue) /\ base.degree = s.degree
       /\ base.sorted = Append(s.sorted, q)
  BY <1>2, <1>3, <1>4, <1>6, <1>9, TakenIs
<1>11. /\ Len(base.sorted) = j + 1 /\ Distinct(base.sorted)
       /\ \A y : In(base.sorted, y) <=> In(s.sorted, y) \/ y = q
  <2>1. PICK t : t = s.sorted
    OBVIOUS
  <2>2. t \in Seq(1..n) /\ q \in 1..n /\ Distinct(t) /\ ~In(t, q) /\ Len(t) = j
    BY <1>3, <1>5, <1>7, <1>8, <2>1
  <2>3. PICK T : T = 1..n
    OBVIOUS
  <2>4. t \in Seq(T) /\ q \in T
    BY <2>2, <2>3
  <2>5. Len(Append(t, q)) = Len(t) + 1
    BY <2>4, AppendDistinct
  <2>6. Distinct(Append(t, q))
    BY <2>2, <2>4, AppendDistinct
  <2>7. ASSUME NEW y PROVE In(Append(t, q), y) <=> In(t, y) \/ y = q
    BY <2>4, AppendDistinct
  <2> QED
    BY <1>10, <2>1, <2>2, <2>5, <2>6, <2>7
<1>12. PICK seq : seq = Nexts(list, q)
  OBVIOUS
<1>13. seq \in Seq(1..n) /\ \A m \in 1..n : Times(seq, m) = Slots(list[m], q)
  BY <1>1, <1>7, <1>12, NextsAre
<1>14. PICK r : r = FoldLeft(Relax, base, seq)
  OBVIOUS
<1>15. Visit(list, s) = r
  BY <1>1, <1>3, <1>4, <1>6, <1>9, <1>12, <1>14, VisitIs
<1>16. Relaxed(r, base, seq, n)
  <2>1. Distinct(base.queue)
    BY <1>7, <1>10
  <2>2. \A m \in 1..n : In(base.queue, m) => base.degree[m] <= 0
    BY <1>3, <1>7, <1>10
  <2> QED
    BY <1>2, <1>10, <1>13, <1>14, <2>1, <2>2, RelaxesNexts
<1>17. /\ r \in State(n) /\ r.sorted = base.sorted /\ Distinct(r.queue)
       /\ \A m \in 1..n : r.degree[m] = s.degree[m] - Slots(list[m], q)
       /\ \A m \in 1..n : In(r.queue, m)
            <=> (In(s.queue, m) /\ m # q) \/ (s.degree[m] > 0 /\ r.degree[m] <= 0)
  BY <1>7, <1>10, <1>13, <1>16 DEF Relaxed
<1>18. ASSUME NEW m \in 1..n
       PROVE  r.degree[m] = OpenIn(list[m], r.sorted) /\ r.degree[m] >= 0
  <2>1. \A x : In(r.sorted, x) <=> In(s.sorted, x) \/ x = q
    BY <1>11, <1>17
  <2>2. q # 0
    BY <1>7
  <2>3. r.degree[m] = OpenIn(list[m], s.sorted) - Slots(list[m], q)
    BY <1>3, <1>17
  <2>4. (IF list[m].a # 0 /\ ~In(s.sorted, list[m].a) THEN 1 ELSE 0) - (IF list[m].a = q THEN 1 ELSE 0)
          = (IF list[m].a # 0 /\ ~In(r.sorted, list[m].a) THEN 1 ELSE 0)
    BY <1>8, <2>1, <2>2
  <2>5. (IF list[m].b # 0 /\ ~In(s.sorted, list[m].b) THEN 1 ELSE 0) - (IF list[m].b = q THEN 1 ELSE 0)
          = (IF list[m].b # 0 /\ ~In(r.sorted, list[m].b) THEN 1 ELSE 0)
    BY <1>8, <2>1, <2>2
  <2>6. OpenIn(list[m], s.sorted) - Slots(list[m], q) = OpenIn(list[m], r.sorted)
    BY <2>4, <2>5 DEF OpenIn, Slots
  <2>7. OpenIn(list[m], r.sorted) >= 0
    BY DEF OpenIn
  <2> QED
    BY <2>3, <2>6, <2>7
<1>19. ASSUME NEW m \in 1..n
       PROVE  /\ (In(r.sorted, m) \/ In(r.queue, m)) <=> r.degree[m] = 0
              /\ ~ (In(r.sorted, m) /\ In(r.queue, m))
  <2>1. In(r.sorted, m) <=> In(s.sorted, m) \/ m = q
    BY <1>11, <1>17
  <2>2. In(r.queue, m) <=> (In(s.queue, m) /\ m # q) \/ (s.degree[m] > 0 /\ r.degree[m] <= 0)
    BY <1>17
  <2>3. /\ (In(s.sorted, m) \/ In(s.queue, m)) <=> s.degree[m] = 0
        /\ ~ (In(s.sorted, m) /\ In(s.queue, m))
    BY <1>3
  <2>4. s.degree[m] \in Int /\ r.degree[m] \in Int /\ r.degree[m] >= 0
    BY <1>5, <1>17, <1>18 DEF State
  <2>5. r.degree[m] <= s.degree[m]
    <3>1. Slots(list[m], q) \in Nat
      BY DEF Slots
    <3> QED
      BY <1>17, <2>4, <3>1
  <2>6. s.degree[m] > 0 => ~In(r.sorted, m)
    BY <1>8, <2>1, <2>3
  <2>7. s.degree[m] = 0 \/ s.degree[m] > 0
    BY <2>4, <2>5
  <2>8. CASE s.degree[m] = 0
    <3>1. r.degree[m] = 0 /\ ~ (s.degree[m] > 0)
      BY <2>4, <2>5, <2>8
    <3>2. In(s.sorted, m) \/ In(s.queue, m)
      BY <2>3, <2>8
    <3>3. In(r.sorted, m) \/ In(r.queue, m)
      BY <2>1, <2>2, <3>2
    <3>4. ~ (In(r.sorted, m) /\ In(r.queue, m))
      BY <2>1, <2>2, <2>3, <3>1
    <3> QED
      BY <3>1, <3>3, <3>4
  <2>9. CASE s.degree[m] > 0
    <3>1. ~In(s.sorted, m) /\ ~In(s.queue, m) /\ ~In(r.sorted, m)
      BY <2>3, <2>6, <2>9
    <3>2. In(r.queue, m) <=> r.degree[m] <= 0
      BY <2>2, <2>9, <3>1
    <3>3. r.degree[m] <= 0 <=> r.degree[m] = 0
      BY <2>4
    <3> QED
      BY <3>1, <3>2, <3>3
  <2> QED
    BY <2>7, <2>8, <2>9
<1>20. ASSUME NEW i \in 1..j + 1, NEW x \in {list[r.sorted[i]].a, list[r.sorted[i]].b}, x # 0
       PROVE  \E k \in 1..i - 1 : r.sorted[k] = x
  <2>1. r.sorted = Append(s.sorted, q)
    BY <1>10, <1>17
  <2>2. (\A k \in 1..j : r.sorted[k] = s.sorted[k]) /\ r.sorted[j + 1] = q
    BY <1>3, <1>5, <1>7, <2>1, AppendProperties
  <2>3. CASE i \in 1..j
    <3>1. r.sorted[i] = s.sorted[i]
      BY <2>2, <2>3
    <3>2. PICK k \in 1..i - 1 : s.sorted[k] = x
      BY <1>3, <1>20, <2>3, <3>1
    <3>3. k \in 1..j
      BY <2>3
    <3> QED
      BY <2>2, <3>2, <3>3
  <2>4. CASE i = j + 1
    <3>1. x = list[q].a \/ x = list[q].b
      BY <1>20, <2>2, <2>4
    <3>2. OpenIn(list[q], s.sorted) = 0
      BY <1>3, <1>7, <1>8
    <3>3. In(s.sorted, x)
      BY <1>20, <3>1, <3>2 DEF OpenIn
    <3>4. PICK k \in 1..j : s.sorted[k] = x
      BY <1>3, <3>3 DEF In
    <3>5. k \in 1..i - 1
      BY <2>4
    <3> QED
      BY <2>2, <3>4, <3>5
  <2> QED
    BY <2>3, <2>4
<1>21. Len(r.sorted) = j + 1 /\ Distinct(r.sorted)
  BY <1>11, <1>17
<1> QED
  BY <1>1, <1>15, <1>17, <1>18, <1>19, <1>20, <1>21 DEF Kahn

Visits(h, base, list) ==
  h[0] = base /\ \A k \in 1..Len(list) : h[k] = Visit(list, h[k - 1])

SortBase(list, roots) ==
  [queue |-> roots, degree |-> [n \in DOMAIN list |-> IF n \in Roots(list) THEN 0 ELSE 2],
   sorted |-> <<>>]

LEMMA VisitRuns ==
  ASSUME NEW list, SoundList(list), NEW roots, SortBase(list, roots) \in State(Len(list))
  PROVE  \E h \in [0..Len(list) -> State(Len(list))] :
           /\ Visits(h, SortBase(list, roots), list)
           /\ Sorted(list, roots) = h[Len(list)].sorted
<1>1. PICK n : n = Len(list)
  OBVIOUS
<1>2. n \in Nat /\ DOMAIN list = 1..n
  BY <1>1, ListParts
<1>3. PICK base : base = SortBase(list, roots)
  OBVIOUS
<1>4. base \in State(n)
  BY <1>1, <1>3
<1>5. PICK step : step = [p \in (1..n) \X State(n) |-> Visit(list, p[2])]
  OBVIOUS
<1>6. ASSUME NEW k \in 1..n, NEW s \in State(n)
      PROVE  step[<<k, s>>] = Visit(list, s) /\ Visit(list, s) \in State(n)
  <2>1. <<k, s>> \in (1..n) \X State(n) /\ <<k, s>>[2] = s
    OBVIOUS
  <2>2. Visit(list, s) \in State(n)
    BY <1>1, VisitIs
  <2> QED
    BY <1>5, <2>1, <2>2
<1>7. step \in [(1..n) \X State(n) -> State(n)]
  <2> SUFFICES ASSUME NEW p \in (1..n) \X State(n) PROVE Visit(list, p[2]) \in State(n)
    BY <1>5
  <2>1. p[2] \in State(n)
    OBVIOUS
  <2> QED
    BY <1>1, <2>1, VisitIs
<1>8. PICK g \in [SUBSET (1..n) -> State(n)] : Folds(g, base, step, n)
  BY <1>2, <1>4, <1>7, FoldExists
<1> DEFINE Eq(f, s) == IF s = {} THEN base ELSE Visit(list, f[s \ {Max(s)}])
           H(f) == f = [s \in SUBSET (1..n) |-> Eq(f, s)]
<1>9. H(g)
  <2>1. ASSUME NEW s \in SUBSET (1..n) PROVE g[s] = Eq(g, s)
    <3>1. CASE s = {}
      BY <1>8, <3>1 DEF Folds
    <3>2. CASE s # {}
      <4>1. s \subseteq 1..n
        OBVIOUS
      <4>2. Max(s) \in s
        BY <1>2, <3>2, <4>1, MaxIs
      <4>3. Max(s) \in 1..n /\ s \ {Max(s)} \in SUBSET (1..n)
        BY <4>1, <4>2
      <4>4. g[s] = step[<<Max(s), g[s \ {Max(s)}]>>]
        BY <1>8, <3>2 DEF Folds
      <4>5. g[s \ {Max(s)}] \in State(n)
        BY <4>3
      <4> QED
        BY <1>6, <3>2, <4>3, <4>4, <4>5
    <3> QED
      BY <3>1, <3>2
  <2>2. g = [s \in SUBSET (1..n) |-> g[s]]
    OBVIOUS
  <2> HIDE DEF Eq
  <2> QED
    BY <2>1, <2>2
<1>10. PICK it : it = CHOOSE f : H(f)
  OBVIOUS
<1>11. Sorted(list, roots) = it[1..n].sorted
  BY <1>2, <1>3, <1>10 DEF Sorted, SortBase, FoldLeft, MapThenFoldSet
<1>12. H(it)
  <2> HIDE DEF H
  <2> QED
    BY <1>9, <1>10
<1>13. PICK h : h = [k \in 0..n |-> it[1..k]]
  OBVIOUS
<1>14. h[0] = base
  <2>1. 1..0 = {} /\ {} \in SUBSET (1..n) /\ 0 \in 0..n
    BY <1>2
  <2> QED
    BY <1>12, <1>13, <2>1
<1>15. ASSUME NEW k \in 1..n PROVE h[k] = Visit(list, h[k - 1])
  <2>1. Max(1..k) = k /\ (1..k) \ {k} = 1..k - 1 /\ 1..k \in SUBSET (1..n) /\ 1..k # {}
    BY <1>2, LastOf
  <2>2. it[1..k] = Eq(it, 1..k)
    BY <1>12, <2>1
  <2>3. it[1..k] = Visit(list, it[1..k - 1])
    BY <2>1, <2>2
  <2>4. k \in 0..n /\ k - 1 \in 0..n
    BY <1>2
  <2> QED
    BY <1>13, <2>3, <2>4
<1>16. PICK P : P = {k \in 0..n : h[k] \in State(n)}
  OBVIOUS
<1>17. \A k \in 0..n : k \in P
  <2>1. 0 \in P
    BY <1>2, <1>4, <1>14, <1>16
  <2>2. ASSUME NEW k \in 1..n, k - 1 \in P PROVE k \in P
    <3>1. h[k - 1] \in State(n) /\ k \in 0..n
      BY <1>16, <2>2
    <3>2. Visit(list, h[k - 1]) \in State(n)
      BY <1>6, <3>1
    <3> QED
      BY <1>15, <1>16, <3>1, <3>2
  <2> QED
    BY <1>2, <2>1, <2>2, StepByStep
<1>18. h \in [0..n -> State(n)]
  BY <1>13, <1>16, <1>17
<1>19. Sorted(list, roots) = h[n].sorted
  BY <1>2, <1>11, <1>13
<1>20. Visits(h, base, list)
  BY <1>1, <1>14, <1>15 DEF Visits
<1> QED
  BY <1>1, <1>3, <1>18, <1>19, <1>20

LEMMA FunctionIsSeq ==
  ASSUME NEW T, NEW c \in Nat, NEW f \in [1..c -> T]
  PROVE  f \in Seq(T) /\ Len(f) = c
  OBVIOUS

LEMMA RootsAre ==
  ASSUME NEW list, SoundList(list), NEW roots \in SetToSeqs(Roots(list))
  PROVE  /\ roots \in Seq(1..Len(list)) /\ Distinct(roots)
         /\ \A m \in 1..Len(list) : In(roots, m) <=> list[m].a = 0
<1>1. PICK n : n = Len(list)
  OBVIOUS
<1>2. n \in Nat /\ DOMAIN list = 1..n
  BY <1>1, ListParts
<1>3. PICK R : R = Roots(list)
  OBVIOUS
<1>4. R \in SUBSET (1..n) /\ \A m \in 1..n : m \in R <=> list[m].a = 0
  BY <1>2, <1>3 DEF Roots
<1>5. IsFiniteSet(1..n)
  BY <1>2, FS_Interval
<1>6. IsFiniteSet(R) /\ Cardinality(R) \in Nat
  BY <1>4, <1>5, FS_Subset, FS_CardinalityType
<1>7. PICK c : c = Cardinality(R)
  OBVIOUS
<1>8. roots \in [1..c -> R] /\ \A i, j \in 1..c : i # j => roots[i] # roots[j]
  BY <1>3, <1>7 DEF SetToSeqs
<1>9. roots \in Seq(1..n) /\ Len(roots) = c
  <2>1. roots \in [1..c -> 1..n]
    BY <1>4, <1>8
  <2>2. c \in Nat
    BY <1>6, <1>7
  <2>3. PICK T : T = 1..n
    OBVIOUS
  <2>4. roots \in [1..c -> T]
    BY <2>1, <2>3
  <2>5. roots \in Seq(T) /\ Len(roots) = c
    BY <2>2, <2>4, FunctionIsSeq
  <2> QED
    BY <2>3, <2>5
<1>10. Distinct(roots)
  BY <1>8, <1>9 DEF Distinct
<1>11. roots \in Injection(1..c, R)
  BY <1>8 DEF Injection, IsInjective
<1>12. IsFiniteSet(1..c) /\ Cardinality(1..c) = c
  BY <1>6, <1>7, FS_Interval
<1>13. roots \in Surjection(1..c, R)
  BY <1>6, <1>7, <1>11, <1>12, FS_Injection
<1>14. \A m \in R : \E i \in 1..c : roots[i] = m
  BY <1>13 DEF Surjection
<1>15. ASSUME NEW m \in 1..n PROVE In(roots, m) <=> list[m].a = 0
  BY <1>4, <1>8, <1>9, <1>14 DEF In
<1> QED
  BY <1>1, <1>9, <1>10, <1>15

\* Each node stands once in the sorted list, after its operands.
WellSorted(list, s) ==
  /\ s \in Seq(1..Len(list)) /\ Len(s) = Len(list) /\ Distinct(s)
  /\ \A m \in 1..Len(list) : In(s, m)
  /\ \A i \in 1..Len(list) : \A x \in {list[s[i]].a, list[s[i]].b} :
       x # 0 => \E k \in 1..i - 1 : s[k] = x

\* nodes_topological_sort() keeps every node of a context once and puts operands
\* first, whatever the graph and the order in which the hash table gives the roots.
THEOREM SortsWell ==
  ASSUME NEW list, SoundList(list), NEW roots \in SetToSeqs(Roots(list))
  PROVE  WellSorted(list, Sorted(list, roots))
<1>1. PICK n : n = Len(list)
  OBVIOUS
<1>2. /\ n \in Nat /\ DOMAIN list = 1..n
      /\ \A m \in 1..n : /\ list[m].a \in 0..m - 1 /\ list[m].b \in 0..m - 1
                         /\ (list[m].a = 0) = (list[m].b = 0)
  BY <1>1, ListParts
<1>3. /\ roots \in Seq(1..n) /\ Distinct(roots)
      /\ \A m \in 1..n : In(roots, m) <=> list[m].a = 0
  BY <1>1, RootsAre
<1>4. PICK base : base = SortBase(list, roots)
  OBVIOUS
<1>5. PICK d : d = [m \in 1..n |-> IF list[m].a = 0 THEN 0 ELSE 2]
  OBVIOUS
<1>6. base = [queue |-> roots, degree |-> d, sorted |-> <<>>]
  BY <1>2, <1>4, <1>5 DEF SortBase, Roots
<1>7. d \in [1..n -> Int] /\ <<>> \in Seq(1..n) /\ Len(<<>>) = 0
  BY <1>5, EmptySeq
<1>8. base \in State(n)
  BY <1>3, <1>6, <1>7 DEF State
<1>9. Kahn(list, base, 0)
  <2>1. \A x : ~In(base.sorted, x)
    <3>1. Len(base.sorted) = 0
      BY <1>6, <1>7
    <3>2. \A i \in 1..Len(base.sorted) : FALSE
      BY <3>1
    <3> QED
      BY <3>2 DEF In
  <2>2. Distinct(base.queue) /\ Distinct(base.sorted) /\ Len(base.sorted) = 0
    BY <1>3, <1>6, <1>7 DEF Distinct
  <2>3. ASSUME NEW m \in 1..n
        PROVE  /\ base.degree[m] = OpenIn(list[m], base.sorted)
               /\ (In(base.sorted, m) \/ In(base.queue, m)) <=> base.degree[m] = 0
               /\ ~ (In(base.sorted, m) /\ In(base.queue, m))
    <3>1. base.degree[m] = IF list[m].a = 0 THEN 0 ELSE 2
      BY <1>5, <1>6
    <3>2. OpenIn(list[m], base.sorted) = IF list[m].a = 0 THEN 0 ELSE 2
      BY <1>2, <2>1 DEF OpenIn
    <3>3. In(base.queue, m) <=> list[m].a = 0
      BY <1>3, <1>6
    <3> QED
      BY <2>1, <3>1, <3>2, <3>3
  <2>4. \A i \in 1..0 : FALSE
    OBVIOUS
  <2> QED
    BY <1>1, <1>8, <2>2, <2>3, <2>4 DEF Kahn
<1>10. PICK h \in [0..n -> State(n)] : Visits(h, base, list) /\ Sorted(list, roots) = h[n].sorted
  BY <1>1, <1>4, <1>8, VisitRuns
<1>11. h[0] = base /\ \A k \in 1..n : h[k] = Visit(list, h[k - 1])
  BY <1>1, <1>10 DEF Visits
<1>12. PICK P : P = {k \in 0..n : Kahn(list, h[k], k)}
  OBVIOUS
<1>13. ASSUME NEW k \in 1..n, k - 1 \in P PROVE k \in P
  <2>1. PICK j : j = k - 1
    OBVIOUS
  <2>a. j \in P
    BY <1>13, <2>1
  <2>b. Kahn(list, h[j], j)
    BY <1>12, <2>a
  <2>c. j \in Nat /\ j < n /\ j + 1 = k
    BY <1>2, <2>1
  <2>2. j \in Nat /\ j < n /\ j + 1 = k /\ Kahn(list, h[j], j)
    BY <2>b, <2>c
  <2>3. PICK s : s = h[j]
    OBVIOUS
  <2>4. Kahn(list, Visit(list, s), j + 1)
    BY <1>1, <2>2, <2>3, VisitKeeps
  <2>5. h[k] = Visit(list, s)
    BY <1>11, <2>1, <2>3
  <2> QED
    BY <1>12, <2>2, <2>4, <2>5
<1>14. \A k \in 0..n : k \in P
  <2>1. 0 \in P
    BY <1>2, <1>9, <1>11, <1>12
  <2> QED
    BY <1>2, <1>13, <2>1, StepByStep
<1>15. Kahn(list, h[n], n)
  BY <1>2, <1>12, <1>14
<1>16. PICK s : s = h[n].sorted
  OBVIOUS
<1>17. /\ s \in Seq(1..n) /\ Len(s) = n /\ Distinct(s)
       /\ \A i \in 1..n : \A x \in {list[s[i]].a, list[s[i]].b} :
            x # 0 => \E k \in 1..i - 1 : s[k] = x
  BY <1>1, <1>15, <1>16 DEF Kahn, State
<1>18. \A m \in 1..n : In(s, m)
  BY <1>2, <1>17, Fills
<1> QED
  BY <1>1, <1>10, <1>16, <1>17, <1>18 DEF WellSorted

Place(list, s) == [n \in 0..Len(list) |-> IF n = 0 THEN 0 ELSE First(s, n)]
Reordered(list, s) ==
  [i \in DOMAIN s |-> [list[s[i]] EXCEPT !.a = Place(list, s)[@], !.b = Place(list, s)[@]]]

LEMMA PlaceIs ==
  ASSUME NEW list, SoundList(list), NEW s, WellSorted(list, s)
  PROVE  /\ Place(list, s) \in [0..Len(list) -> 0..Len(list)] /\ Place(list, s)[0] = 0
         /\ \A m \in 1..Len(list) : Place(list, s)[m] \in 1..Len(list) /\ s[Place(list, s)[m]] = m
         /\ \A i \in 1..Len(list) : s[i] \in 1..Len(list) /\ Place(list, s)[s[i]] = i
<1>1. PICK n : n = Len(list)
  OBVIOUS
<1>2. n \in Nat
  BY <1>1, ListParts
<1>3. /\ s \in Seq(1..n) /\ Len(s) = n
      /\ \A m \in 1..n : \E i \in 1..n : s[i] = m
      /\ \A i, j \in 1..n : s[i] = s[j] => i = j
      /\ \A i \in 1..n : s[i] \in 1..n
  <2>1. /\ s \in Seq(1..n) /\ Len(s) = n /\ Distinct(s)
        /\ \A m \in 1..n : In(s, m)
    BY <1>1 DEF WellSorted
  <2>2. \A i \in 1..n : s[i] \in 1..n
    BY <2>1
  <2> QED
    BY <2>1, <2>2 DEF In, Distinct
<1>4. PICK p : p = Place(list, s)
  OBVIOUS
<1>5. p = [m \in 0..n |-> IF m = 0 THEN 0 ELSE First(s, m)]
  BY <1>1, <1>4 DEF Place
<1>6. ASSUME NEW m \in 1..n PROVE First(s, m) \in 1..n /\ s[First(s, m)] = m
  BY <1>3, FirstIs
<1>7. ASSUME NEW m \in 1..n PROVE p[m] \in 1..n /\ s[p[m]] = m
  <2>1. m # 0 /\ m \in 0..n
    OBVIOUS
  <2> QED
    BY <1>5, <1>6, <2>1
<1>8. p[0] = 0
  BY <1>2, <1>5
<1>9. p \in [0..n -> 0..n]
  <2>1. \A m \in 0..n : m = 0 \/ m \in 1..n
    OBVIOUS
  <2>2. \A m \in 0..n : p[m] \in 0..n
    BY <1>2, <1>7, <1>8, <2>1
  <2> QED
    BY <1>5, <2>2
<1>10. ASSUME NEW i \in 1..n PROVE p[s[i]] = i
  <2>1. PICK m \in 1..n : m = s[i]
    BY <1>3
  <2>2. p[m] \in 1..n /\ s[p[m]] = s[i]
    BY <1>7, <2>1
  <2>3. p[m] = i
    BY <1>3, <2>2
  <2> QED
    BY <2>1, <2>3
<1> QED
  BY <1>1, <1>3, <1>4, <1>7, <1>8, <1>9, <1>10

\* Sorted well, a sound list is sound again, and each node has the value it had
\* at its old place.
LEMMA ReorderedIsSound ==
  ASSUME NEW list, SoundList(list), NEW s, WellSorted(list, s)
  PROVE  /\ SoundList(Reordered(list, s)) /\ Len(Reordered(list, s)) = Len(list)
         /\ \A m \in 1..Len(list) :
              /\ Reordered(list, s)[Place(list, s)[m]].a = 0 <=> list[m].a = 0
              /\ Values(Reordered(list, s))[Place(list, s)[m]] = Values(list)[m]
<1>1. PICK n : n = Len(list)
  OBVIOUS
<1>2. /\ n \in Nat
      /\ \A m \in 1..n : /\ list[m] \in Node
                         /\ list[m].a \in 0..m - 1 /\ list[m].b \in 0..m - 1
                         /\ (list[m].a = 0) = (list[m].b = 0)
                         /\ list[m].a = 0 => list[m].data \in Number
                         /\ list[m].a # 0 => list[m].data = Pending
  BY <1>1, ListParts
<1>3. PICK p : p = Place(list, s)
  OBVIOUS
<1>4. /\ p \in [0..n -> 0..n] /\ p[0] = 0
      /\ \A m \in 1..n : p[m] \in 1..n /\ s[p[m]] = m
      /\ \A i \in 1..n : s[i] \in 1..n /\ p[s[i]] = i
  BY <1>1, <1>3, PlaceIs
<1>5. PICK t : t = Reordered(list, s)
  OBVIOUS
<1>6. DOMAIN s = 1..n
  BY <1>1, LenProperties DEF WellSorted
<1>7. t = [i \in 1..n |-> [list[s[i]] EXCEPT !.a = p[@], !.b = p[@]]]
  BY <1>3, <1>5, <1>6 DEF Reordered
<1>8. \A x \in 0..n : p[x] = 0 <=> x = 0
  <2>1. \A x \in 0..n : x = 0 \/ x \in 1..n
    OBVIOUS
  <2> QED
    BY <1>4, <2>1
<1>9. Roomy(list)
  BY DEF SoundList
<1>10. ASSUME NEW i \in 1..n
       PROVE  /\ t[i].a = p[list[s[i]].a] /\ t[i].b = p[list[s[i]].b]
              /\ t[i].data = list[s[i]].data
              /\ list[s[i]].a \in 0..n /\ list[s[i]].b \in 0..n
              /\ t[i] \in Node
  <2>1. PICK m \in 1..n : m = s[i]
    BY <1>4
  <2>2. t[i] = [list[m] EXCEPT !.a = p[@], !.b = p[@]]
    BY <1>7, <2>1
  <2>3. list[m] \in Node /\ list[m].a \in 0..n /\ list[m].b \in 0..n
    BY <1>2
  <2>4. /\ t[i].a = p[list[m].a] /\ t[i].b = p[list[m].b] /\ t[i].data = list[m].data
        /\ t[i].units = list[m].units
        /\ t[i] = [a |-> p[list[m].a], b |-> p[list[m].b], data |-> list[m].data,
                   units |-> list[m].units]
    BY <2>2, <2>3 DEF Node
  <2>5. p[list[m].a] \in 0..MaxNodes /\ p[list[m].b] \in 0..MaxNodes
    <3>1. CASE n <= MaxNodes
      <4>1. p[list[m].a] \in 0..n /\ p[list[m].b] \in 0..n
        BY <1>4, <2>3
      <4> QED
        BY <1>2, <3>1, <4>1, ContextAssumption
    <3>2. CASE ~ (n <= MaxNodes)
      <4>1. list[m].a = 0 /\ list[m].b = 0
        BY <1>1, <1>2, <1>9, <3>2, LenProperties, ListParts DEF Roomy
      <4> QED
        BY <1>4, <4>1, ContextAssumption
    <3> QED
      BY <3>1, <3>2
  <2>6. t[i] \in Node
    BY <2>3, <2>4, <2>5 DEF Node
  <2> QED
    BY <2>1, <2>3, <2>4, <2>6
<1>11. t \in Seq(Node) /\ Len(t) = n /\ DOMAIN t = 1..n
  <2>1. t \in [1..n -> Node]
    BY <1>7, <1>10
  <2> QED
    BY <1>2, <2>1
<1>12. ASSUME NEW i \in 1..n, NEW x \in {list[s[i]].a, list[s[i]].b} PROVE p[x] \in 0..i - 1
  <2>1. CASE x = 0
    BY <1>4, <2>1
  <2>2. CASE x # 0
    <3>1. PICK k \in 1..i - 1 : s[k] = x
      BY <1>1, <2>2 DEF WellSorted
    <3>2. k \in 1..n
      BY <1>2
    <3>3. p[x] = k
      BY <1>4, <3>1, <3>2
    <3> QED
      BY <3>3
  <2> QED
    BY <2>1, <2>2
<1>13. ASSUME NEW i \in 1..n
       PROVE  /\ {t[i].a, t[i].b} \subseteq 0..i - 1
              /\ (t[i].a = 0) = (t[i].b = 0)
              /\ (t[i].data = Pending) = (t[i].a # 0)
  <2>1. t[i].a \in 0..i - 1 /\ t[i].b \in 0..i - 1
    BY <1>10, <1>12
  <2>2. (t[i].a = 0 <=> list[s[i]].a = 0) /\ (t[i].b = 0 <=> list[s[i]].b = 0)
    BY <1>8, <1>10
  <2>3. PICK m \in 1..n : m = s[i]
    BY <1>4
  <2>4. (list[m].a = 0 <=> list[m].b = 0) /\ (list[m].data = Pending <=> list[m].a # 0)
    BY <1>2, NumbersAreData
  <2>5. t[i].data = list[m].data
    BY <1>10, <2>3
  <2> QED
    BY <2>1, <2>2, <2>3, <2>4, <2>5
<1>14. Ordered(t)
  BY <1>11, <1>13 DEF Ordered
<1>15. Roomy(t)
  <2>1. CASE n <= MaxNodes
    BY <1>11, <2>1 DEF Roomy
  <2>2. CASE ~ (n <= MaxNodes)
    <3>1. \A m \in 1..n : list[m].a = 0
      BY <1>1, <1>6, <1>9, <2>2, ListParts DEF Roomy
    <3>2. ASSUME NEW i \in 1..n PROVE t[i].a = 0
      <4>1. s[i] \in 1..n /\ t[i].a = p[list[s[i]].a]
        BY <1>4, <1>10
      <4>2. list[s[i]].a = 0
        BY <3>1, <4>1
      <4> QED
        BY <1>4, <4>1, <4>2
    <3> QED
      BY <1>11, <3>2 DEF Roomy
  <2> QED
    BY <2>1, <2>2
<1>16. SoundList(t)
  BY <1>11, <1>14, <1>15 DEF SoundList
<1>17. PICK f : f = [m \in 1..n |-> p[m]]
  OBVIOUS
<1>18. f \in [1..n -> DOMAIN t] /\ \A m \in 1..n : f[m] = p[m]
  BY <1>4, <1>11, <1>17
<1>19. ASSUME NEW m \in 1..n
       PROVE  /\ t[f[m]].a = p[list[m].a] /\ t[f[m]].b = p[list[m].b]
              /\ t[f[m]].data = list[m].data
              /\ (t[f[m]].a = 0 <=> list[m].a = 0)
  <2>1. PICK i \in 1..n : i = f[m] /\ s[i] = m
    BY <1>4, <1>18
  <2>2. /\ t[i].a = p[list[m].a] /\ t[i].b = p[list[m].b] /\ t[i].data = list[m].data
        /\ list[m].a \in 0..n
    BY <1>10, <2>1
  <2>3. p[list[m].a] = 0 <=> list[m].a = 0
    BY <1>8, <2>2
  <2> QED
    BY <2>1, <2>2, <2>3
<1>20. ASSUME NEW m \in 1..n
       PROVE  /\ list[m].a = 0 => t[f[m]].a = 0 /\ t[f[m]].data = list[m].data
              /\ list[m].a # 0 => /\ t[f[m]].a # 0
                                  /\ t[f[m]].a = f[list[m].a] /\ t[f[m]].b = f[list[m].b]
  <2>1. list[m].a # 0 => list[m].a \in 1..n /\ list[m].b \in 1..n
    BY <1>2
  <2>2. list[m].a # 0 => f[list[m].a] = p[list[m].a] /\ f[list[m].b] = p[list[m].b]
    BY <1>18, <2>1
  <2> QED
    BY <1>19, <2>2
<1>a. Matches(list, t, f)
  BY <1>1, <1>18, <1>20 DEF Matches
<1>21. ComputedBy(list, Values(list)) /\ ComputedBy(t, Values(t))
  BY <1>16, ValuesAre
<1>22. \A m \in 1..n : Values(t)[f[m]] = Values(list)[m]
  <2>1. PICK r, u : r = Values(list) /\ u = Values(t)
    OBVIOUS
  <2>2. ComputedBy(list, r) /\ ComputedBy(t, u)
    BY <1>21, <2>1
  <2>3. \A m \in 1..n : u[f[m]] = r[m]
    BY <1>1, <1>a, <2>2, SameValues
  <2> QED
    BY <2>1, <2>3
<1> QED
  BY <1>1, <1>3, <1>5, <1>11, <1>16, <1>18, <1>19, <1>22

LEMMA SortIs ==
  ASSUME IInv, Sort
  PROVE  \E s : /\ WellSorted(nodes, s) /\ nodes' = Reordered(nodes, s)
                /\ ref' = [v \in Vars |-> Place(nodes, s)[ref[v]]]
                /\ signatures' = signatures /\ need_update' = need_update /\ status' = status
<1>1. SoundList(nodes)
  BY DEF IInv
<1>2. PICK roots \in SetToSeqs(Roots(nodes)) :
        /\ nodes' = Reordered(nodes, Sorted(nodes, roots))
        /\ ref' = [v \in Vars |-> Place(nodes, Sorted(nodes, roots))[ref[v]]]
  BY DEF Sort, Reordered, Place, First
<1>3. WellSorted(nodes, Sorted(nodes, roots))
  BY <1>1, SortsWell
<1>4. signatures' = signatures /\ need_update' = need_update /\ status' = status
  BY DEF Sort
<1> QED
  BY <1>2, <1>3, <1>4

LEMMA SortKeeps ==
  ASSUME IInv, Sort
  PROVE  /\ IInv'
         /\ \A v \in Vars : ref[v] # 0 => /\ ref'[v] # 0
                                          /\ Values(nodes')[ref'[v]] = Values(nodes)[ref[v]]
         /\ \A v \in Vars : ref[v] = 0 => ref'[v] = 0
<1>1. /\ SoundList(nodes) /\ Signed(signatures, ref)
      /\ Referring(nodes, ref, need_update) /\ status \in Statuses
  BY DEF IInv
<1>2. PICK s : /\ WellSorted(nodes, s) /\ nodes' = Reordered(nodes, s)
               /\ ref' = [v \in Vars |-> Place(nodes, s)[ref[v]]]
               /\ signatures' = signatures /\ need_update' = need_update /\ status' = status
  BY SortIs
<1>3. PICK n : n = Len(nodes)
  OBVIOUS
<1>4. n \in Nat /\ ref \in [Vars -> 0..n] /\ need_update \in BOOLEAN
  BY <1>1, <1>3, ListParts DEF Referring
<1>5. PICK p : p = Place(nodes, s)
  OBVIOUS
<1>6. /\ p \in [0..n -> 0..n] /\ p[0] = 0
      /\ \A m \in 1..n : p[m] \in 1..n
  BY <1>1, <1>2, <1>3, <1>5, PlaceIs
<1>7. PICK t : t = Reordered(nodes, s)
  OBVIOUS
<1>8. /\ SoundList(t) /\ Len(t) = n
      /\ \A m \in 1..n : /\ t[p[m]].a = 0 <=> nodes[m].a = 0
                         /\ Values(t)[p[m]] = Values(nodes)[m]
  BY <1>1, <1>2, <1>3, <1>5, <1>7, ReorderedIsSound
<1>9. nodes' = t /\ \A v \in Vars : ref'[v] = p[ref[v]]
  BY <1>2, <1>5, <1>7
<1>10. \A v \in Vars : ref[v] # 0 => ref[v] \in 1..n
  BY <1>4
<1>11. \A v \in Vars : ref[v] # 0 => ref'[v] # 0 /\ ref'[v] = p[ref[v]]
  BY <1>6, <1>9, <1>10
<1>12. \A v \in Vars : ref[v] = 0 => ref'[v] = 0
  BY <1>6, <1>9
<1>13. Signed(signatures', ref')
  BY <1>1, <1>2, <1>11, <1>12 DEF Signed
<1>14. Referring(t, ref', need_update')
  <2>1. ref' \in [Vars -> 0..Len(t)]
    BY <1>2, <1>4, <1>5, <1>6, <1>8
  <2>2. ASSUME ~need_update, NEW v \in Vars, ref'[v] # 0 PROVE t[ref'[v]].a = 0
    <3>1. ref[v] # 0
      BY <1>12, <2>2
    <3>2. nodes[ref[v]].a = 0 /\ ref[v] \in 1..n
      BY <1>1, <1>10, <2>2, <3>1 DEF Referring
    <3>3. t[p[ref[v]]].a = 0
      BY <1>8, <3>2
    <3> QED
      BY <1>9, <3>3
  <2> QED
    BY <1>2, <1>4, <2>1, <2>2 DEF Referring
<1>15. IInv'
  BY <1>1, <1>2, <1>8, <1>9, <1>13, <1>14 DEF IInv
<1>16. ASSUME NEW v \in Vars, ref[v] # 0 PROVE Values(t)[ref'[v]] = Values(nodes)[ref[v]]
  BY <1>8, <1>10, <1>11, <1>16
<1> QED
  BY <1>9, <1>11, <1>12, <1>15, <1>16

-----------------------------------------------------------------------------
(* The invariant.                                                          *)

\* Where a step leaves the list, the integers and their signatures alone.
LEMMA RestKeeps ==
  ASSUME IInv, nodes' = nodes, ref' = ref, signatures' = signatures,
         need_update' = need_update, status' \in Statuses
  PROVE  IInv'
<1>1. /\ SoundList(nodes) /\ Signed(signatures, ref)
      /\ Referring(nodes, ref, need_update)
  BY DEF IInv
<1>2. SoundList(nodes') /\ Signed(signatures', ref') /\ Referring(nodes', ref', need_update')
  BY <1>1
<1> QED
  BY <1>2 DEF IInv

\* The steps after which the program does not go on, or the context is spoiled.
Ending ==
  \/ UpdateNever \/ UpdateSpoils
  \/ \E v \in Vars : \/ ShowThrows(v) \/ AddReleased(v) \/ ShowReleased(v)
                     \/ \E u \in Vars : AssignReleased(v, u)

\* They leave alone what the invariant is about.
LEMMA EndIs ==
  ASSUME IInv, Ending
  PROVE  /\ nodes' = nodes /\ ref' = ref /\ signatures' = signatures
         /\ need_update' = need_update /\ status' \in Statuses
<1>1. CASE UpdateNever
  BY <1>1 DEF UpdateNever, Statuses
<1>2. CASE UpdateSpoils
  BY <1>2 DEF UpdateSpoils, Statuses
<1>3. CASE \E v \in Vars : ShowThrows(v)
  BY <1>3 DEF ShowThrows, Statuses
<1>4. CASE \E v \in Vars : \/ AddReleased(v) \/ ShowReleased(v)
                           \/ \E u \in Vars : AssignReleased(v, u)
  BY <1>4 DEF AddReleased, ShowReleased, AssignReleased, Statuses
<1> QED
  BY <1>1, <1>2, <1>3, <1>4 DEF Ending

LEMMA ShowIs ==
  ASSUME NEW v \in Vars, Show(v)
  PROVE  Update \/ UNCHANGED vars
  BY DEF Show

LEMMA StepIsSound ==
  ASSUME IInv, [Next]_vars
  PROVE  IInv'
<1>1. ASSUME UNCHANGED vars PROVE IInv'
  <2>1. status \in Statuses
    BY DEF IInv
  <2> QED
    BY <1>1, <2>1, RestKeeps DEF vars
<1>2. ASSUME NEW v \in Vars, NEW text \in Texts, Make(v, text) PROVE IInv'
  BY <1>2, MakeKeeps
<1>3. ASSUME NEW v \in Vars, NEW u \in Vars, Copy(v, u) PROVE IInv'
  BY <1>3, CopyKeeps
<1>4. ASSUME NEW v \in Vars, NEW u \in Vars, MoveConstruct(v, u) PROVE IInv'
  BY <1>4, MoveConstructKeeps
<1>5. ASSUME NEW v \in Vars, NEW u \in Vars, Assign(v, u) PROVE IInv'
  BY <1>5, AssignKeeps
<1>6. ASSUME NEW v \in Vars, NEW u \in Vars, MoveAssign(v, u) PROVE IInv'
  BY <1>6, MoveAssignKeeps
<1>7. ASSUME NEW v \in Vars, NEW u \in Vars, NEW w \in Vars, Add(v, u, w) PROVE IInv'
  BY <1>7, AddKeeps
<1>8. ASSUME NEW v \in Vars, Destroy(v) PROVE IInv'
  BY <1>8, DestroyKeeps
<1>9. ASSUME NEW v \in Vars, Show(v) PROVE IInv'
  BY <1>1, <1>9, ShowIs, UpdateKeeps
<1>10. ASSUME Ending PROVE IInv'
  BY <1>10, EndIs, RestKeeps
<1>11. ASSUME Update PROVE IInv'
  BY <1>11, UpdateKeeps
<1>12. ASSUME NEW k \in DOMAIN nodes, UpdateThrows(k) PROVE IInv'
  BY <1>12, UpdateThrowsKeeps
<1>13. ASSUME Sort PROVE IInv'
  BY <1>13, SortKeeps
<1> QED
  BY <1>1, <1>2, <1>3, <1>4, <1>5, <1>6, <1>7, <1>8, <1>9, <1>10, <1>11, <1>12, <1>13
     DEF Next, Ending

LEMMA AlwaysSound == Spec => []IInv
<1>1. Init => IInv
  BY InitIsSound
<1>2. IInv /\ [Next]_vars => IInv'
  BY StepIsSound
<1> QED
  BY <1>1, <1>2, PTL DEF Spec

LEMMA ReleasedOnes ==
  ASSUME released \subseteq Vars, [Next]_vars
  PROVE  released' \subseteq Vars
<1>1. ASSUME Update \/ (\E k \in DOMAIN nodes : UpdateThrows(k)) \/ Sort \/ Ending
             \/ UNCHANGED vars
      PROVE  released' = released
  BY <1>1 DEF Update, Succeeds, UpdateThrows, GenerateFails, Sort, Ending, UpdateNever,
              UpdateSpoils, ShowThrows, AddReleased, ShowReleased, AssignReleased, vars
<1>2. ASSUME NEW v \in Vars, Show(v) PROVE released' = released
  BY <1>1, <1>2, ShowIs
<1>3. ASSUME NEW v \in Vars, NEW u \in Vars,
             \/ Copy(v, u) \/ MoveConstruct(v, u) \/ Assign(v, u) \/ MoveAssign(v, u)
             \/ Destroy(v) \/ \E text \in Texts : Make(v, text)
             \/ \E w \in Vars : Add(v, u, w)
      PROVE  released' \subseteq Vars
  BY <1>3 DEF Copy, MoveConstruct, Assign, MoveAssign, Destroy, Make, Add
<1> QED
  BY <1>1, <1>2, <1>3 DEF Next, Ending

LEMMA AlwaysReleasedOnes == Spec => [](released \subseteq Vars)
<1>1. Init => released \subseteq Vars
  BY DEF Init
<1>2. (released \subseteq Vars) /\ [Next]_vars => (released \subseteq Vars)'
  BY ReleasedOnes
<1> QED
  BY <1>1, <1>2, PTL DEF Spec

\* The context has its types, however large it is.
THEOREM ContextTypes == Spec => []TypeOK
<1>1. ASSUME IInv, released \subseteq Vars PROVE TypeOK
  <2>1. /\ nodes \in Seq(Node) /\ signatures \in Seq(Vars \cup {Dangling})
        /\ ref \in [Vars -> 0..Len(nodes)] /\ need_update \in BOOLEAN /\ status \in Statuses
    BY <1>1 DEF IInv, SoundList, Signed, Referring
  <2> QED
    BY <1>1, <2>1 DEF TypeOK, Node, Statuses
<1> QED
  BY <1>1, AlwaysSound, AlwaysReleasedOnes, PTL

\* Whatever is made, copied, moved, assigned, destroyed, computed or sorted, and
\* whatever update() or a text fails on: the context knows each live integer once
\* and no other, operands stand before their operation, and there is data where
\* update() and operator<< read it.
THEOREM GraphStaysSound == Spec => []GraphIsSound
<1>1. ASSUME IInv PROVE GraphIsSound
  <2>1. /\ SoundList(nodes) /\ Signed(signatures, ref) /\ Referring(nodes, ref, need_update)
    BY <1>1 DEF IInv
  <2>2. \A v \in Vars : Cardinality({i \in DOMAIN signatures : signatures[i] = v})
                          = (IF Live(v) THEN 1 ELSE 0)
    BY <2>1 DEF Signed, Times, Places, Live
  <2>3. ASSUME NEW n \in DOMAIN nodes
        PROVE  /\ {nodes[n].a, nodes[n].b} \subseteq 0..n - 1
               /\ (nodes[n].a = 0) = (nodes[n].b = 0)
               /\ (nodes[n].data = Pending) = ~IsConstant(n)
    BY <2>1 DEF SoundList, Ordered, IsConstant
  <2>4. ~need_update => \A v \in Vars : Live(v) => IsConstant(ref[v])
    BY <2>1 DEF Referring, Live, IsConstant
  <2> QED
    BY <2>2, <2>3, <2>4 DEF GraphIsSound
<1> QED
  BY <1>1, AlwaysSound, PTL

-----------------------------------------------------------------------------
(* The values the integers have: the eager integers are implemented.       *)

Mean(list, r) == [v \in Vars |-> IF r[v] # 0 THEN Values(list)[r[v]] ELSE Gone]

\* What the eager integers may do, of their values before and after.
EagerStep(m, t) ==
  \/ \E v \in Vars : m[v] = Gone /\ \E n \in Numbers : t = [m EXCEPT ![v] = n]
  \/ \E v, u, w \in Vars : /\ m[v] = Gone /\ m[u] # Gone /\ m[w] # Gone
                           /\ t = [m EXCEPT ![v] = Truncated(m[u] + m[w])]
  \/ \E v, u \in Vars : m[u] # Gone /\ t = [m EXCEPT ![v] = m[u]]
  \/ \E v, u \in Vars : m[u] # Gone /\ v # u /\ t = [m EXCEPT ![v] = m[u], ![u] = Gone]
  \/ \E v \in Vars : m[v] # Gone /\ t = [m EXCEPT ![v] = Gone]
  \/ t = m

LEMMA MeanIs ==
  ASSUME IInv
  PROVE  /\ DOMAIN Mean(nodes, ref) = Vars
         /\ \A v \in Vars : /\ ref[v] # 0 => /\ Mean(nodes, ref)[v] = Values(nodes)[ref[v]]
                                             /\ Values(nodes)[ref[v]] \in Number
                                             /\ ref[v] \in 1..Len(nodes)
                            /\ Mean(nodes, ref)[v] # Gone <=> ref[v] # 0
<1>1. SoundList(nodes) /\ ref \in [Vars -> 0..Len(nodes)]
  BY DEF IInv, Referring
<1>2. Values(nodes) \in [1..Len(nodes) -> Number] /\ Len(nodes) \in Nat
  BY <1>1, ValuesAre, ListParts
<1>3. ASSUME NEW v \in Vars, ref[v] # 0
      PROVE  ref[v] \in 1..Len(nodes) /\ Values(nodes)[ref[v]] \in Number
  BY <1>1, <1>2, <1>3
<1>4. Gone \notin Number
  BY NumbersAreData
<1> QED
  BY <1>3, <1>4 DEF Mean

\* The values of the nodes there were do not change when one is added.
LEMMA AppendValues ==
  ASSUME NEW list, SoundList(list), NEW t, SoundList(t),
         Len(t) = Len(list) + 1, \A n \in 1..Len(list) : t[n] = list[n]
  PROVE  /\ \A n \in 1..Len(list) : Values(t)[n] = Values(list)[n]
         /\ t[Len(list) + 1].a = 0 => Values(t)[Len(list) + 1] = t[Len(list) + 1].data
         /\ t[Len(list) + 1].a # 0 =>
              Values(t)[Len(list) + 1] = Truncated(Values(list)[t[Len(list) + 1].a]
                                                   + Values(list)[t[Len(list) + 1].b])
<1>1. PICK n : n = Len(list)
  OBVIOUS
<1>2. /\ n \in Nat /\ DOMAIN t = 1..n + 1
      /\ \A m \in 1..n : list[m].a \in 0..m - 1 /\ list[m].b \in 0..m - 1 /\ (list[m].a = 0) = (list[m].b = 0)
      /\ t[n + 1].a \in 0..n /\ t[n + 1].b \in 0..n /\ (t[n + 1].a = 0) = (t[n + 1].b = 0)
  <2>1. /\ n \in Nat /\ DOMAIN t = 1..Len(t)
        /\ \A m \in 1..n : list[m].a \in 0..m - 1 /\ list[m].b \in 0..m - 1 /\ (list[m].a = 0) = (list[m].b = 0)
    BY <1>1, ListParts
  <2>2. \A m \in 1..Len(t) : t[m].a \in 0..m - 1 /\ t[m].b \in 0..m - 1 /\ (t[m].a = 0) = (t[m].b = 0)
    BY ListParts
  <2>3. n + 1 \in 1..Len(t) /\ (n + 1) - 1 = n
    BY <1>1, <2>1
  <2> QED
    BY <1>1, <2>1, <2>2, <2>3
<1>3. PICK r, u : r = Values(list) /\ u = Values(t)
  OBVIOUS
<1>4. ComputedBy(list, r) /\ ComputedBy(t, u)
  BY <1>3, ValuesAre
<1>5. PICK p : p = [m \in 1..n |-> m]
  OBVIOUS
<1>6. p \in [1..n -> DOMAIN t] /\ \A m \in 1..n : p[m] = m
  BY <1>2, <1>5
<1>7. ASSUME NEW m \in 1..n
      PROVE  /\ list[m].a = 0 => t[p[m]].a = 0 /\ t[p[m]].data = list[m].data
             /\ list[m].a # 0 => /\ t[p[m]].a # 0
                                 /\ t[p[m]].a = p[list[m].a] /\ t[p[m]].b = p[list[m].b]
  <2>1. t[p[m]] = list[m]
    BY <1>1, <1>6
  <2>a. list[m].a \in 0..m - 1 /\ list[m].b \in 0..m - 1 /\ (list[m].a = 0) = (list[m].b = 0)
    BY <1>2
  <2>b. PICK x, y : x = list[m].a /\ y = list[m].b
    OBVIOUS
  <2>c. x \in 0..m - 1 /\ y \in 0..m - 1 /\ (x # 0 => y # 0)
    BY <2>a, <2>b, Zenon
  <2>d. x # 0 => x \in 1..n /\ y \in 1..n
    BY <1>2, <2>c
  <2>2. list[m].a # 0 => list[m].a \in 1..n /\ list[m].b \in 1..n
    BY <2>b, <2>d, Zenon
  <2> QED
    BY <1>6, <2>1, <2>2
<1>a. Matches(list, t, p)
  BY <1>1, <1>6, <1>7 DEF Matches
<1>8. \A m \in 1..n : u[p[m]] = r[m]
  <2>1. \A m \in 1..Len(list) : u[p[m]] = r[m]
    BY <1>4, <1>a, SameValues
  <2> QED
    BY <1>1, <2>1
<1>9. \A m \in 1..n : u[m] = r[m]
  BY <1>6, <1>8
<1>10. u[n + 1] = IF t[n + 1].a = 0 THEN t[n + 1].data ELSE Truncated(u[t[n + 1].a] + u[t[n + 1].b])
  <2>1. n + 1 \in DOMAIN t
    BY <1>2
  <2> QED
    BY <1>4, <2>1 DEF ComputedBy
<1>11. t[n + 1].a # 0 => u[t[n + 1].a] = r[t[n + 1].a] /\ u[t[n + 1].b] = r[t[n + 1].b]
  <2>1. t[n + 1].a # 0 => t[n + 1].a \in 1..n /\ t[n + 1].b \in 1..n
    BY <1>2
  <2> QED
    BY <1>9, <2>1
<1> QED
  BY <1>1, <1>3, <1>9, <1>10, <1>11

LEMMA MakeMeans ==
  ASSUME IInv, IInv', NEW v \in Vars, NEW text \in Texts, Make(v, text)
  PROVE  EagerStep(Mean(nodes, ref), Mean(nodes', ref'))
<1>1. SoundList(nodes) /\ SoundList(nodes') /\ ref \in [Vars -> 0..Len(nodes)]
  BY DEF IInv, Referring
<1>2. PICK d : d = IF text # Refused THEN text ELSE 0
  OBVIOUS
<1>3. d \in Number
  BY <1>2, NumbersAreData DEF Texts
<1>4. Len(nodes) < MaxNodes /\ ref[v] = 0 /\ nodes' = Append(nodes, Constant(d))
  BY <1>2 DEF Make, Room, Live
<1>5. PICK k : k = Len(nodes)
  OBVIOUS
<1>6. k \in Nat
  BY <1>1, <1>5, ListParts
<1>7. PICK node : node = Constant(d)
  OBVIOUS
<1>8. /\ node \in Node /\ node.a = 0 /\ node.b = 0 /\ node.data = d
  BY <1>3, <1>7, ConstantIsNode
<1>9. nodes \in Seq(Node)
  BY <1>1 DEF SoundList
<1>10. PICK t : t = nodes'
  OBVIOUS
<1>11. /\ Len(t) = Len(nodes) + 1 /\ \A n \in 1..Len(nodes) : t[n] = nodes[n]
       /\ t[k + 1] = node /\ SoundList(t)
  BY <1>1, <1>4, <1>5, <1>7, <1>8, <1>9, <1>10, AppendProperties
<1>12. (\A n \in 1..k : Values(t)[n] = Values(nodes)[n]) /\ Values(t)[k + 1] = d
  BY <1>1, <1>5, <1>8, <1>11, AppendValues
<1>13. \A u \in Vars : ref[u] # 0 => Values(t)[ref[u]] = Values(nodes)[ref[u]]
  BY <1>1, <1>5, <1>6, <1>12
<1>14. CASE text # Refused
  <2>1. ref' = [ref EXCEPT ![v] = k + 1] /\ d \in Numbers
    <3>1. ref' = [ref EXCEPT ![v] = Len(nodes')] /\ text \in Numbers
      BY <1>14 DEF Make, Texts
    <3> QED
      BY <1>2, <1>5, <1>10, <1>11, <1>14, <3>1
  <2>2. ref'[v] = k + 1 /\ k + 1 # 0 /\ \A u \in Vars : u # v => ref'[u] = ref[u]
    BY <1>1, <1>6, <2>1
  <2>a. PICK q : q = ref'
    OBVIOUS
  <2>b. \A x \in Vars : x # v => (IF q[x] # 0 THEN Values(t)[q[x]] ELSE Gone)
                                 = (IF ref[x] # 0 THEN Values(nodes)[ref[x]] ELSE Gone)
    BY <1>13, <2>2, <2>a
  <2>c. (IF q[v] # 0 THEN Values(t)[q[v]] ELSE Gone) = d
    BY <1>12, <2>2, <2>a
  <2>d. Mean(t, q) = [Mean(nodes, ref) EXCEPT ![v] = d]
    BY <2>b, <2>c DEF Mean
  <2>3. Mean(t, ref') = [Mean(nodes, ref) EXCEPT ![v] = d]
    BY <2>a, <2>d
  <2>4. Mean(nodes, ref)[v] = Gone
    BY <1>4 DEF Mean
  <2> QED
    BY <1>10, <2>1, <2>3, <2>4 DEF EagerStep
<1>15. CASE text = Refused
  <2>1. ref' = ref
    BY <1>15 DEF Make
  <2>2. Mean(t, ref) = Mean(nodes, ref)
    BY <1>13 DEF Mean
  <2> QED
    BY <1>10, <2>1, <2>2 DEF EagerStep
<1> QED
  BY <1>14, <1>15

LEMMA AddMeans ==
  ASSUME IInv, IInv', NEW v \in Vars, NEW u \in Vars, NEW w \in Vars, Add(v, u, w)
  PROVE  EagerStep(Mean(nodes, ref), Mean(nodes', ref'))
<1>1. SoundList(nodes) /\ SoundList(nodes') /\ ref \in [Vars -> 0..Len(nodes)]
  BY DEF IInv, Referring
<1>2. PICK node : node = [a |-> ref[u], b |-> ref[w], data |-> Pending, units |-> 0]
  OBVIOUS
<1>3. /\ Len(nodes) < MaxNodes /\ ref[v] = 0 /\ ref[u] # 0 /\ ref[w] # 0
      /\ nodes' = Append(nodes, node) /\ ref' = [ref EXCEPT ![v] = Len(nodes')]
  BY <1>2 DEF Add, Room, Live
<1>4. PICK k : k = Len(nodes)
  OBVIOUS
<1>5. k \in Nat /\ MaxNodes \in Nat /\ k < MaxNodes
  BY <1>1, <1>3, <1>4, ListParts, ContextAssumption
<1>6. ref[u] \in 1..k /\ ref[w] \in 1..k
  BY <1>1, <1>3, <1>4
<1>7. ref[u] \in 0..MaxNodes /\ ref[w] \in 0..MaxNodes /\ Pending \in Data
  BY <1>5, <1>6, NumbersAreData
<1>8. node \in Node /\ node.a = ref[u] /\ node.b = ref[w]
  BY <1>2, <1>7 DEF Node
<1>9. nodes \in Seq(Node)
  BY <1>1 DEF SoundList
<1>10. PICK t : t = nodes'
  OBVIOUS
<1>11. /\ Len(t) = Len(nodes) + 1 /\ \A n \in 1..Len(nodes) : t[n] = nodes[n]
       /\ t[k + 1] = node /\ SoundList(t)
  BY <1>1, <1>3, <1>4, <1>8, <1>9, <1>10, AppendProperties
<1>12. /\ \A n \in 1..k : Values(t)[n] = Values(nodes)[n]
       /\ Values(t)[k + 1] = Truncated(Values(nodes)[ref[u]] + Values(nodes)[ref[w]])
  BY <1>1, <1>3, <1>4, <1>8, <1>11, AppendValues
<1>13. \A x \in Vars : ref[x] # 0 => Values(t)[ref[x]] = Values(nodes)[ref[x]]
  BY <1>1, <1>4, <1>5, <1>12
<1>14. ref'[v] = k + 1 /\ k + 1 # 0 /\ \A x \in Vars : x # v => ref'[x] = ref[x]
  BY <1>1, <1>3, <1>4, <1>5, <1>10, <1>11
<1>15. PICK m : m = Mean(nodes, ref)
  OBVIOUS
<1>16. /\ m[u] = Values(nodes)[ref[u]] /\ m[w] = Values(nodes)[ref[w]]
       /\ m[v] = Gone /\ m[u] # Gone /\ m[w] # Gone
  BY <1>3, <1>15, MeanIs
<1>a. PICK q : q = ref'
  OBVIOUS
<1>b. \A x \in Vars : x # v => (IF q[x] # 0 THEN Values(t)[q[x]] ELSE Gone)
                               = (IF ref[x] # 0 THEN Values(nodes)[ref[x]] ELSE Gone)
  BY <1>13, <1>14, <1>a
<1>c. PICK sum : sum = Truncated(Values(nodes)[ref[u]] + Values(nodes)[ref[w]])
  OBVIOUS
<1>d. (IF q[v] # 0 THEN Values(t)[q[v]] ELSE Gone) = sum
  BY <1>12, <1>14, <1>a, <1>c
<1>17. Mean(t, q) = [m EXCEPT ![v] = sum]
  BY <1>15, <1>b, <1>d DEF Mean
<1>18. PICK after : after = Mean(t, q)
  OBVIOUS
<1>19. after = [m EXCEPT ![v] = Truncated(m[u] + m[w])]
  BY <1>16, <1>17, <1>18, <1>c
<1>20. EagerStep(m, after)
  <2>1. m[v] = Gone /\ m[u] # Gone /\ m[w] # Gone
    BY <1>16
  <2> QED
    BY <1>19, <2>1, Zenon DEF EagerStep
<1> QED
  BY <1>10, <1>15, <1>18, <1>20, <1>a

\* An integer takes the node of another, or loses its own.
LEMMA TakesMean ==
  ASSUME IInv, nodes' = nodes, NEW v \in Vars, NEW u \in Vars,
         \/ ref[u] # 0 /\ ref' = [ref EXCEPT ![v] = ref[u]]
         \/ ref[u] # 0 /\ v # u /\ ref' = [ref EXCEPT ![v] = ref[u], ![u] = 0]
         \/ ref[v] # 0 /\ ref' = [ref EXCEPT ![v] = 0]
  PROVE  EagerStep(Mean(nodes, ref), Mean(nodes', ref'))
<1>1. ref \in [Vars -> 0..Len(nodes)]
  BY DEF IInv, Referring
<1>2. PICK m : m = Mean(nodes, ref)
  OBVIOUS
<1>3. PICK t : t = Mean(nodes', ref')
  OBVIOUS
<1>4. \A x \in Vars : m[x] # Gone <=> ref[x] # 0
  BY <1>2, MeanIs
<1>a. PICK q : q = ref'
  OBVIOUS
<1>b. t = Mean(nodes, q)
  BY <1>3, <1>a
<1>c. ASSUME NEW x \in Vars, NEW y \in Vars, q[x] = ref[y] PROVE t[x] = m[y]
  BY <1>2, <1>b, <1>c DEF Mean
<1>d. ASSUME NEW x \in Vars, q[x] = 0 PROVE t[x] = Gone
  BY <1>b, <1>d DEF Mean
<1>e. /\ DOMAIN m = Vars /\ m = [x \in Vars |-> m[x]]
      /\ DOMAIN t = Vars /\ t = [x \in Vars |-> t[x]]
  BY <1>2, <1>b DEF Mean
<1>f. EagerStep(m, t) = EagerStep(Mean(nodes, ref), Mean(nodes', ref'))
  BY <1>2, <1>3
<1>5. CASE ref[u] # 0 /\ ref' = [ref EXCEPT ![v] = ref[u]]
  <2>1. q[v] = ref[u] /\ \A x \in Vars : x # v => q[x] = ref[x]
    BY <1>1, <1>5, <1>a
  <2>2. t[v] = m[u] /\ \A x \in Vars : x # v => t[x] = m[x]
    BY <1>c, <2>1
  <2>3. t = [m EXCEPT ![v] = m[u]]
    BY <1>e, <2>2
  <2>4. m[u] # Gone
    BY <1>4, <1>5
  <2>5. EagerStep(m, t)
    BY <2>3, <2>4, Zenon DEF EagerStep
  <2> QED
    BY <1>f, <2>5
<1>6. CASE ref[u] # 0 /\ v # u /\ ref' = [ref EXCEPT ![v] = ref[u], ![u] = 0]
  <2>1. q[v] = ref[u] /\ q[u] = 0 /\ \A x \in Vars : x # v /\ x # u => q[x] = ref[x]
    BY <1>1, <1>6, <1>a
  <2>2. t[v] = m[u] /\ t[u] = Gone /\ \A x \in Vars : x # v /\ x # u => t[x] = m[x]
    BY <1>c, <1>d, <2>1
  <2>3. t = [m EXCEPT ![v] = m[u], ![u] = Gone]
    BY <1>6, <1>e, <2>2
  <2>4. m[u] # Gone /\ v # u
    BY <1>4, <1>6
  <2>5. EagerStep(m, t)
    BY <2>3, <2>4, Zenon DEF EagerStep
  <2> QED
    BY <1>f, <2>5
<1>7. CASE ref[v] # 0 /\ ref' = [ref EXCEPT ![v] = 0]
  <2>1. q[v] = 0 /\ \A x \in Vars : x # v => q[x] = ref[x]
    BY <1>1, <1>7, <1>a
  <2>2. t[v] = Gone /\ \A x \in Vars : x # v => t[x] = m[x]
    BY <1>c, <1>d, <2>1
  <2>3. t = [m EXCEPT ![v] = Gone]
    BY <1>e, <2>2
  <2>4. m[v] # Gone
    BY <1>4, <1>7
  <2>5. EagerStep(m, t)
    BY <2>3, <2>4, Zenon DEF EagerStep
  <2> QED
    BY <1>f, <2>5
<1> QED
  BY <1>5, <1>6, <1>7

\* Updates and sorts change no value.
LEMMA SameMean ==
  ASSUME IInv,
         \A v \in Vars : ref[v] # 0 => /\ ref'[v] # 0
                                       /\ Values(nodes')[ref'[v]] = Values(nodes)[ref[v]],
         \A v \in Vars : ref[v] = 0 => ref'[v] = 0
  PROVE  EagerStep(Mean(nodes, ref), Mean(nodes', ref'))
<1>1. Mean(nodes', ref') = Mean(nodes, ref)
  BY DEF Mean
<1> QED
  BY <1>1 DEF EagerStep

LEMMA ThrowMeans ==
  ASSUME IInv, IInv', NEW k \in DOMAIN nodes, UpdateThrows(k)
  PROVE  EagerStep(Mean(nodes, ref), Mean(nodes', ref'))
<1>1. SoundList(nodes) /\ SoundList(nodes') /\ ref \in [Vars -> 0..Len(nodes)]
  BY DEF IInv, Referring
<1>2. /\ nodes' = [n \in DOMAIN nodes |->
                     [nodes[n] EXCEPT !.units = IF n < k THEN @ + 1 ELSE @]]
      /\ ref' = ref
  BY DEF UpdateThrows, GenerateFails
<1>3. PICK t : t = nodes'
  OBVIOUS
<1>4. /\ Len(nodes) \in Nat /\ DOMAIN nodes = 1..Len(nodes)
      /\ \A n \in 1..Len(nodes) : /\ nodes[n] \in Node /\ nodes[n].a \in 0..n - 1
                                  /\ nodes[n].b \in 0..n - 1 /\ (nodes[n].a = 0) = (nodes[n].b = 0)
  BY <1>1, ListParts
<1>5. ASSUME NEW n \in 1..Len(nodes)
      PROVE  t[n].a = nodes[n].a /\ t[n].b = nodes[n].b /\ t[n].data = nodes[n].data
  <2>1. t[n] = [nodes[n] EXCEPT !.units = IF n < k THEN @ + 1 ELSE @] /\ nodes[n] \in Node
    BY <1>2, <1>3, <1>4
  <2> QED
    BY <2>1 DEF Node
<1>6. DOMAIN t = 1..Len(nodes)
  BY <1>2, <1>3, <1>4
<1>7. PICK p : p = [m \in 1..Len(nodes) |-> m]
  OBVIOUS
<1>8. p \in [1..Len(nodes) -> DOMAIN t] /\ \A m \in 1..Len(nodes) : p[m] = m
  BY <1>6, <1>7
<1>9. ASSUME NEW m \in 1..Len(nodes)
      PROVE  /\ nodes[m].a = 0 => t[p[m]].a = 0 /\ t[p[m]].data = nodes[m].data
             /\ nodes[m].a # 0 => /\ t[p[m]].a # 0
                                  /\ t[p[m]].a = p[nodes[m].a] /\ t[p[m]].b = p[nodes[m].b]
  <2>1. nodes[m].a # 0 => nodes[m].a \in 1..Len(nodes) /\ nodes[m].b \in 1..Len(nodes)
    BY <1>4
  <2>2. p[m] = m /\ t[m].a = nodes[m].a /\ t[m].b = nodes[m].b /\ t[m].data = nodes[m].data
    BY <1>5, <1>8
  <2> QED
    BY <1>8, <2>1, <2>2
<1>10. PICK r, u : r = Values(nodes) /\ u = Values(t)
  OBVIOUS
<1>11. ComputedBy(nodes, r) /\ ComputedBy(t, u)
  BY <1>1, <1>3, <1>10, ValuesAre
<1>a. Matches(nodes, t, p)
  BY <1>8, <1>9 DEF Matches
<1>12. \A m \in 1..Len(nodes) : u[p[m]] = r[m]
  BY <1>1, <1>a, <1>11, SameValues
<1>13. \A v \in Vars : ref[v] # 0 => Values(t)[ref[v]] = Values(nodes)[ref[v]]
  BY <1>1, <1>4, <1>8, <1>10, <1>12
<1>14. Mean(t, ref) = Mean(nodes, ref)
  BY <1>13 DEF Mean
<1> QED
  BY <1>2, <1>3, <1>14 DEF EagerStep

\* Each step of the context is one of the eager integers, or shows nothing.
LEMMA StepMeans ==
  ASSUME IInv, [Next]_vars
  PROVE  EagerStep(Mean(nodes, ref), Mean(nodes', ref'))
<1>0. IInv'
  BY StepIsSound
<1>1. ASSUME nodes' = nodes, ref' = ref PROVE EagerStep(Mean(nodes, ref), Mean(nodes', ref'))
  BY <1>1, SameMean
<1>2. ASSUME NEW v \in Vars, NEW text \in Texts, Make(v, text)
      PROVE  EagerStep(Mean(nodes, ref), Mean(nodes', ref'))
  BY <1>0, <1>2, MakeMeans
<1>3. ASSUME NEW v \in Vars, NEW u \in Vars, Copy(v, u) \/ Assign(v, u)
      PROVE  EagerStep(Mean(nodes, ref), Mean(nodes', ref'))
  <2>1. nodes' = nodes /\ ref[u] # 0 /\ ref' = [ref EXCEPT ![v] = ref[u]]
    BY <1>3 DEF Copy, Assign, Live
  <2> QED
    BY <2>1, TakesMean
<1>4. ASSUME NEW v \in Vars, NEW u \in Vars, MoveConstruct(v, u) \/ MoveAssign(v, u)
      PROVE  EagerStep(Mean(nodes, ref), Mean(nodes', ref'))
  <2>1. nodes' = nodes /\ ref[u] # 0 /\ v # u /\ ref' = [ref EXCEPT ![v] = ref[u], ![u] = 0]
    BY <1>4 DEF MoveConstruct, MoveAssign, Live
  <2> QED
    BY <2>1, TakesMean
<1>5. ASSUME NEW v \in Vars, Destroy(v) PROVE EagerStep(Mean(nodes, ref), Mean(nodes', ref'))
  <2>1. nodes' = nodes /\ ref[v] # 0 /\ ref' = [ref EXCEPT ![v] = 0]
    BY <1>5 DEF Destroy, Live
  <2> QED
    BY <2>1, TakesMean
<1>6. ASSUME NEW v \in Vars, NEW u \in Vars, NEW w \in Vars, Add(v, u, w)
      PROVE  EagerStep(Mean(nodes, ref), Mean(nodes', ref'))
  BY <1>0, <1>6, AddMeans
<1>7. ASSUME Update PROVE EagerStep(Mean(nodes, ref), Mean(nodes', ref'))
  <2>1. /\ \A v \in Vars : ref[v] # 0 => /\ ref'[v] # 0
                                         /\ Values(nodes')[ref'[v]] = Values(nodes)[ref[v]]
        /\ \A v \in Vars : ref[v] = 0 => ref'[v] = 0
    BY <1>7, UpdateKeeps
  <2> QED
    BY <2>1, SameMean
<1>8. ASSUME Sort PROVE EagerStep(Mean(nodes, ref), Mean(nodes', ref'))
  <2>1. /\ \A v \in Vars : ref[v] # 0 => /\ ref'[v] # 0
                                         /\ Values(nodes')[ref'[v]] = Values(nodes)[ref[v]]
        /\ \A v \in Vars : ref[v] = 0 => ref'[v] = 0
    BY <1>8, SortKeeps
  <2> QED
    BY <2>1, SameMean
<1>9. ASSUME NEW k \in DOMAIN nodes, UpdateThrows(k)
      PROVE  EagerStep(Mean(nodes, ref), Mean(nodes', ref'))
  BY <1>0, <1>9, ThrowMeans
<1>10. ASSUME UNCHANGED vars PROVE EagerStep(Mean(nodes, ref), Mean(nodes', ref'))
  BY <1>1, <1>10 DEF vars
<1>11. ASSUME Ending
       PROVE  EagerStep(Mean(nodes, ref), Mean(nodes', ref'))
  BY <1>1, <1>11, EndIs
<1>12. ASSUME NEW v \in Vars, Show(v) PROVE EagerStep(Mean(nodes, ref), Mean(nodes', ref'))
  BY <1>7, <1>10, <1>12, ShowIs
<1> QED
  BY <1>2, <1>3, <1>4, <1>5, <1>6, <1>7, <1>8, <1>9, <1>10, <1>11, <1>12
     DEF Next, Ending

EagerValue == LET computed == Computed
              IN  [v \in Vars |-> IF Live(v) THEN computed[ref[v]] ELSE Gone]

LEMMA EagerValueIs ==
  /\ EagerValue = Mean(nodes, ref)
  /\ EagerValue' = Mean(nodes', ref')
<1>1. EagerValue = Mean(nodes, ref)
  BY ComputedIs DEF EagerValue, Mean, Live
<1>2. EagerValue' = Mean(nodes', ref')
  BY ComputedNextIs DEF EagerValue, Mean, Live
<1> QED
  BY <1>1, <1>2

LEMMA EagerSteps ==
  ASSUME EagerStep(EagerValue, EagerValue')
  PROVE  [Eager!Next]_EagerValue
<1>1. EagerValue' = EagerValue \/ Eager!Step(EagerValue, EagerValue')
  BY DEF EagerStep, Eager!Step, Eager!Make, Eager!Copy, Eager!Move, Eager!Add,
         Eager!Destroy, Eager!Truncate, Truncated, EagerValue
<1> QED
  BY <1>1 DEF Eager!Next, EagerValue

LEMMA EagerInit ==
  ASSUME Init
  PROVE  Eager!Init
<1>1. \A v \in Vars : ~Live(v)
  BY DEF Init, Live
<1> QED
  BY <1>1 DEF Eager!Init, EagerValue

\* The lazily computed integers are eager ones, in a context of any size: no
\* copy, move, update, failed update or sort changes the value an integer has.
THEOREM ValuesKept == Spec => KeepsValues
<1>1. Init => Eager!Init
  BY EagerInit
<1>2. IInv /\ [Next]_vars => [Eager!Next]_EagerValue
  BY StepMeans, EagerValueIs, EagerSteps
<1> QED
  BY <1>1, <1>2, AlwaysSound, PTL DEF Spec, KeepsValues, Eager!Spec, EagerValue
=============================================================================
