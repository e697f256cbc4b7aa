----------------------------- MODULE DigitsProofs -----------------------------
(***************************************************************************)
(* What Digits guarantees for every base, group, length and precision: the *)
(* kernels compute with the numbers that digits stand for, and a store is  *)
(* printed as text that is read as the store.                              *)
(***************************************************************************)
EXTENDS MCIntegerContext, IntegerContextProofs

-----------------------------------------------------------------------------
(* Arithmetic. *)

LEMMA TimesAssoc ==
  ASSUME NEW x \in Nat, NEW y \in Nat, NEW z \in Nat
  PROVE  x * (y * z) = y * (x * z) /\ x * (y * z) = (x * y) * z /\ x * y \in Nat /\ x * y = y * x
OBVIOUS

LEMMA PlusTimes ==
  ASSUME NEW x \in Int, NEW y \in Int, NEW z \in Int
  PROVE  (x + y) * z = x * z + y * z /\ (x - y) * z = x * z - y * z
OBVIOUS

LEMMA OneLessTimes ==
  ASSUME NEW x \in Int, NEW y \in Int
  PROVE  (x - 1) * y = x * y - y
OBVIOUS

LEMMA TimesGrows ==
  ASSUME NEW x \in Nat, NEW y \in Nat, NEW z \in Nat, x <= y
  PROVE  x * z <= y * z
OBVIOUS

LEMMA DivMod ==
  ASSUME NEW b \in Nat, b > 0, NEW x \in Nat
  PROVE  /\ x % b \in 0..(b - 1)
         /\ x \div b \in Nat
         /\ x = b * (x \div b) + (x % b)
BY SMT

LEMMA QuotientBelow ==
  ASSUME NEW b \in Nat, b > 0, NEW x \in Nat, NEW c \in Nat, x < b * c
  PROVE  x \div b < c
OBVIOUS

LEMMA SameQuotient ==
  ASSUME NEW b \in Nat, b > 0, NEW p \in Int, NEW q \in Int,
         NEW r \in 0..b - 1, NEW s \in 0..b - 1, b * p + r = b * q + s
  PROVE  p = q /\ r = s
BY Z3

LEMMA QuotientIs ==
  ASSUME NEW b \in Nat, b > 0, NEW x \in Nat, NEW q \in Nat, NEW r \in 0..b - 1, x = b * q + r
  PROVE  x % b = r /\ x \div b = q
<1>1. b * (x \div b) + (x % b) = b * q + r
  BY DivMod
<1>2. x \div b \in Int /\ x % b \in 0..b - 1
  BY DivMod
<1> QED
  BY <1>1, <1>2, SameQuotient

-----------------------------------------------------------------------------
(* Powers. *)

Powers(p, b, n) == p = [k \in 0..n |-> IF k = 0 THEN 1 ELSE b * p[k - 1]]

LEMMA PowersExist ==
  ASSUME NEW b \in Nat, NEW n \in Nat
  PROVE  \E p \in [0..n -> Nat] : Powers(p, b, n)
<1>1. PICK step : step = [q \in (1..n) \X Nat |-> b * q[2]]
  OBVIOUS
<1>2. step \in [(1..n) \X Nat -> Nat]
  BY <1>1
<1>3. PICK p \in [0..n -> Nat] : Runs(p, 1, step, n)
  BY <1>2, RunExists
<1>4. ASSUME NEW k \in 1..n PROVE p[k] = b * p[k - 1]
  <2>1. k - 1 \in 0..n
    OBVIOUS
  <2>2. <<k, p[k - 1]>> \in (1..n) \X Nat
    BY <1>3, <2>1
  <2>3. p[k] = step[<<k, p[k - 1]>>]
    BY <1>3 DEF Runs
  <2> QED
    BY <1>1, <2>2, <2>3
<1>5. p[0] = 1
  BY <1>3 DEF Runs
<1>6. \A k \in 0..n : k # 0 => k \in 1..n
  OBVIOUS
<1>7. p = [k \in 0..n |-> p[k]]
  OBVIOUS
<1>8. \A k \in 0..n : p[k] = IF k = 0 THEN 1 ELSE b * p[k - 1]
  BY <1>4, <1>5, <1>6
<1> QED
  BY <1>7, <1>8 DEF Powers

LEMMA PowersAgree ==
  ASSUME NEW b \in Nat, NEW n \in Nat, NEW m \in Nat, n <= m,
         NEW p, Powers(p, b, n), NEW q, Powers(q, b, m)
  PROVE  p[n] = q[n]
<1>1. PICK P : P = {k \in 0..n : p[k] = q[k]}
  OBVIOUS
<1>2. /\ p[0] = 1 /\ q[0] = 1
      /\ \A k \in 1..n : p[k] = b * p[k - 1] /\ q[k] = b * q[k - 1]
  BY DEF Powers
<1>3. 0 \in P
  BY <1>1, <1>2
<1>4. \A k \in 1..n : k - 1 \in P => k \in P
  BY <1>1, <1>2
<1>5. \A k \in 0..n : k \in P
  BY <1>3, <1>4, StepByStep
<1> QED
  BY <1>1, <1>5

LEMMA PowerIs ==
  ASSUME NEW b \in Nat, NEW n \in Nat, NEW m \in Nat, n <= m, NEW q, Powers(q, b, m)
  PROVE  Power(b, n) = q[n]
<1>1. PICK p : p = CHOOSE f : Powers(f, b, n)
  OBVIOUS
<1>2. Powers(p, b, n)
  BY <1>1, PowersExist
<1>3. Power(b, n) = p[n]
  BY <1>1 DEF Power, Powers
<1> QED
  BY <1>2, <1>3, PowersAgree

LEMMA PowerLaws ==
  ASSUME NEW b \in Nat, NEW n \in Nat
  PROVE  Power(b, n) \in Nat /\ Power(b, 0) = 1 /\ Power(b, n + 1) = b * Power(b, n)
<1>a. PICK m : m = n + 1
  OBVIOUS
<1>b. m \in Nat /\ 0 <= m /\ n <= m
  BY <1>a
<1>c. PICK q \in [0..m -> Nat] : Powers(q, b, m)
  BY <1>b, PowersExist
<1>1. q \in [0..n + 1 -> Nat] /\ Powers(q, b, n + 1)
  BY <1>a, <1>c
<1>2. Power(b, n) = q[n] /\ Power(b, 0) = q[0] /\ Power(b, n + 1) = q[n + 1]
  <2>1. Power(b, n) = q[n] /\ Power(b, 0) = q[0] /\ Power(b, m) = q[m]
    BY <1>b, <1>c, PowerIs
  <2> QED
    BY <1>a, <2>1
<1>3. q[0] = 1 /\ q[n + 1] = b * q[(n + 1) - 1]
  BY <1>1 DEF Powers
<1>4. (n + 1) - 1 = n /\ n \in 0..n + 1
  OBVIOUS
<1> QED
  BY <1>1, <1>2, <1>3, <1>4

LEMMA PowerPositive ==
  ASSUME NEW b \in Nat \ {0}, NEW n \in Nat
  PROVE  Power(b, n) \in Nat \ {0}
<1>1. PICK P : P = {k \in 0..n : Power(b, k) \in Nat \ {0}}
  OBVIOUS
<1>2. 0 \in P
  BY <1>1, PowerLaws
<1>3. ASSUME NEW k \in 1..n, k - 1 \in P PROVE k \in P
  <2>1. PICK j : j = k - 1
    OBVIOUS
  <2>2. j \in Nat /\ j + 1 = k /\ Power(b, j) \in Nat \ {0}
    BY <1>1, <1>3, <2>1
  <2>3. Power(b, k) = b * Power(b, j)
    BY <2>2, PowerLaws
  <2>4. \A x \in Nat \ {0} : b * x \in Nat \ {0}
    OBVIOUS
  <2> QED
    BY <1>1, <2>2, <2>3, <2>4
<1>4. \A k \in 0..n : k \in P
  BY <1>2, <1>3, StepByStep
<1> QED
  BY <1>1, <1>4

LEMMA PowerAdd ==
  ASSUME NEW b \in Nat, NEW m \in Nat, NEW n \in Nat
  PROVE  Power(b, m + n) = Power(b, m) * Power(b, n)
<1>1. PICK P : P = {k \in 0..n : Power(b, m + k) = Power(b, m) * Power(b, k)}
  OBVIOUS
<1>2. 0 \in P
  <2>1. Power(b, m) \in Nat /\ Power(b, 0) = 1
    BY PowerLaws
  <2>2. m + 0 = m /\ Power(b, m) * 1 = Power(b, m)
    BY <2>1
  <2> QED
    BY <1>1, <2>1, <2>2
<1>3. ASSUME NEW k \in 1..n, k - 1 \in P PROVE k \in P
  <2>1. PICK j : j = k - 1
    OBVIOUS
  <2>2. j \in Nat /\ j + 1 = k /\ m + j \in Nat /\ (m + j) + 1 = m + k
    BY <2>1
  <2>3. PICK x, y, z : x = Power(b, m) /\ y = Power(b, j) /\ z = Power(b, m + j)
    OBVIOUS
  <2>4. x \in Nat /\ y \in Nat /\ z \in Nat /\ z = x * y
    BY <1>1, <1>3, <2>1, <2>2, <2>3, PowerLaws
  <2>5. Power(b, k) = b * y /\ Power(b, m + k) = b * z
    BY <2>2, <2>3, PowerLaws
  <2>6. b * (x * y) = x * (b * y)
    BY <2>4, TimesAssoc
  <2> QED
    BY <1>1, <2>3, <2>4, <2>5, <2>6
<1>4. \A k \in 0..n : k \in P
  BY <1>2, <1>3, StepByStep
<1> QED
  BY <1>1, <1>4

LEMMA PowerGrows ==
  ASSUME NEW b \in Nat \ {0}, NEW m \in Nat, NEW n \in Nat, m <= n
  PROVE  Power(b, m) <= Power(b, n)
<1>1. PICK d : d = n - m
  OBVIOUS
<1>2. d \in Nat /\ m + d = n
  BY <1>1
<1>3. Power(b, n) = Power(b, m) * Power(b, d)
  BY <1>2, PowerAdd
<1>4. Power(b, m) \in Nat \ {0} /\ Power(b, d) \in Nat \ {0}
  BY <1>2, PowerPositive
<1>5. \A x, y \in Nat \ {0} : x <= x * y
  OBVIOUS
<1> QED
  BY <1>3, <1>4, <1>5

LEMMA PowerAbove ==
  ASSUME NEW b \in Nat, b >= 2, NEW n \in Nat
  PROVE  Power(b, n) > n
<1>1. PICK P : P = {k \in 0..n : Power(b, k) > k}
  OBVIOUS
<1>2. 0 \in P
  BY <1>1, PowerLaws
<1>3. ASSUME NEW k \in 1..n, k - 1 \in P PROVE k \in P
  <2>1. PICK j : j = k - 1
    OBVIOUS
  <2>2. j \in Nat /\ j + 1 = k /\ Power(b, j) > j /\ Power(b, j) \in Nat
    BY <1>1, <1>3, <2>1, PowerLaws
  <2>3. Power(b, k) = b * Power(b, j)
    BY <2>2, PowerLaws
  <2>4. \A x \in Nat : b * x >= 2 * x
    OBVIOUS
  <2>5. b * Power(b, j) >= 2 * Power(b, j) /\ b * Power(b, j) \in Nat
    BY <2>2, <2>4
  <2> QED
    BY <1>1, <2>2, <2>3, <2>5
<1>4. \A k \in 0..n : k \in P
  BY <1>2, <1>3, StepByStep
<1> QED
  BY <1>1, <1>4

-----------------------------------------------------------------------------
(* What digits stand for, as the sums of their first ones.                 *)

Sums(s, d, b, n) == s[0] = 0 /\ \A i \in 1..n : s[i] = s[i - 1] + d[i] * Power(b, i - 1)

LEMMA SumsExist ==
  ASSUME NEW b \in Nat, NEW n \in Nat, NEW d \in [1..n -> Nat]
  PROVE  \E s \in [0..n -> Nat] : Sums(s, d, b, n)
<1>1. PICK step : step = [q \in (1..n) \X Nat |-> q[2] + d[q[1]] * Power(b, q[1] - 1)]
  OBVIOUS
<1>2. ASSUME NEW i \in 1..n, NEW x \in Nat
      PROVE  /\ x + d[i] * Power(b, i - 1) \in Nat
             /\ step[<<i, x>>] = x + d[i] * Power(b, i - 1)
  <2>1. PICK j : j = i - 1
    OBVIOUS
  <2>2. j \in Nat /\ Power(b, j) \in Nat
    <3>1. j \in Nat
      BY <2>1
    <3> QED
      BY <3>1, PowerLaws
  <2>3. d[i] * Power(b, j) \in Nat
    BY <2>2
  <2>4. <<i, x>> \in (1..n) \X Nat /\ <<i, x>>[1] = i /\ <<i, x>>[2] = x
    OBVIOUS
  <2> QED
    BY <1>1, <2>1, <2>3, <2>4
<1>3. step \in [(1..n) \X Nat -> Nat]
  <2> SUFFICES ASSUME NEW q \in (1..n) \X Nat
               PROVE  q[2] + d[q[1]] * Power(b, q[1] - 1) \in Nat
    BY <1>1
  <2>1. q[1] \in 1..n /\ q[2] \in Nat
    OBVIOUS
  <2> QED
    BY <1>2, <2>1
<1>4. PICK s \in [0..n -> Nat] : Runs(s, 0, step, n)
  BY <1>3, RunExists
<1>5. ASSUME NEW i \in 1..n PROVE s[i] = s[i - 1] + d[i] * Power(b, i - 1)
  <2>1. s[i - 1] \in Nat
    BY <1>4
  <2>2. s[i] = step[<<i, s[i - 1]>>]
    BY <1>4 DEF Runs
  <2> QED
    BY <1>2, <2>1, <2>2
<1> QED
  BY <1>4, <1>5 DEF Runs, Sums

Agree(d, e, n) == \A i \in 1..n : d[i] = e[i]

LEMMA SumsAgree ==
  ASSUME NEW b \in Nat, NEW n \in Nat, NEW d, NEW e, NEW s, NEW t,
         Agree(d, e, n), Sums(s, d, b, n), Sums(t, e, b, n)
  PROVE  s[n] = t[n]
<1>1. PICK P : P = {k \in 0..n : s[k] = t[k]}
  OBVIOUS
<1>2. 0 \in P
  BY <1>1 DEF Sums
<1>3. \A k \in 1..n : k - 1 \in P => k \in P
  BY <1>1 DEF Sums, Agree
<1>4. \A k \in 0..n : k \in P
  BY <1>2, <1>3, StepByStep
<1>5. n \in 0..n
  OBVIOUS
<1> QED
  BY <1>1, <1>4, <1>5

\* The definition, for digits of any length.
LEMMA DenotesIs ==
  ASSUME NEW b \in Nat, NEW n \in Nat, NEW d \in [1..n -> Nat],
         NEW s, Sums(s, d, b, n)
  PROVE  Denotes(d, b) = s[n]
<1> DEFINE H(f) == f = [i \in 0..n |-> IF i = 0 THEN 0 ELSE f[i - 1] + d[i] * Power(b, i - 1)]
<1>1. Len(d) = n
  OBVIOUS
<1>2. PICK t : t = CHOOSE f : H(f)
  OBVIOUS
<1>3. Denotes(d, b) = t[n]
  BY <1>1, <1>2 DEF Denotes
<1>4. PICK g \in [0..n -> Nat] : Sums(g, d, b, n)
  BY SumsExist
<1>5. H(g)
  <2>1. \A i \in 0..n : g[i] = IF i = 0 THEN 0 ELSE g[i - 1] + d[i] * Power(b, i - 1)
    <3>1. \A i \in 0..n : i # 0 => i \in 1..n
      OBVIOUS
    <3> QED
      BY <1>4, <3>1 DEF Sums
  <2>2. g = [i \in 0..n |-> g[i]]
    OBVIOUS
  <2> QED
    BY <2>1, <2>2
<1>6. H(t)
  <2> HIDE DEF H
  <2> QED
    BY <1>2, <1>5
<1>7. Sums(t, d, b, n)
  <2>1. \A i \in 0..n : t[i] = IF i = 0 THEN 0 ELSE t[i - 1] + d[i] * Power(b, i - 1)
    BY <1>6
  <2> QED
    BY <2>1 DEF Sums
<1>8. n \in 0..n /\ Agree(d, d, n)
  BY DEF Agree
<1> QED
  BY <1>3, <1>7, <1>8, SumsAgree

\* Digits below the base stand for less than the next power of it.
LEMMA SumsBelow ==
  ASSUME NEW b \in Nat \ {0}, NEW n \in Nat, NEW d \in [1..n -> 0..b - 1],
         NEW s \in [0..n -> Nat], Sums(s, d, b, n)
  PROVE  \A k \in 0..n : s[k] < Power(b, k)
<1>1. PICK P : P = {k \in 0..n : s[k] < Power(b, k)}
  OBVIOUS
<1>2. 0 \in P
  <2>1. Power(b, 0) = 1
    BY PowerLaws
  <2> QED
    BY <1>1, <2>1 DEF Sums
<1>3. ASSUME NEW k \in 1..n, k - 1 \in P PROVE k \in P
  <2>1. PICK j, p : j = k - 1 /\ p = Power(b, j)
    OBVIOUS
  <2>2. j \in Nat /\ j + 1 = k /\ j \in 0..n
    BY <2>1
  <2>3. p \in Nat /\ Power(b, k) = b * p
    BY <2>1, <2>2, PowerLaws
  <2>4. s[k] = s[j] + d[k] * p /\ s[j] < p /\ s[j] \in Nat
    BY <1>1, <1>3, <2>1, <2>2 DEF Sums
  <2>5. \A x \in Nat, y \in 0..b - 1 : x < p => x + y * p < b * p
    <3> SUFFICES ASSUME NEW x \in Nat, NEW y \in 0..b - 1, x < p PROVE x + y * p < b * p
      OBVIOUS
    <3>1. y * p <= (b - 1) * p
      BY <2>3
    <3>2. (b - 1) * p = b * p - p
      BY <2>3, OneLessTimes
    <3>3. PICK u, v : u = y * p /\ v = b * p
      OBVIOUS
    <3>4. u \in Nat /\ v \in Nat
      BY <2>3, <3>3
    <3>5. u <= v - p
      BY <3>1, <3>2, <3>3
    <3>6. x + u < v
      BY <2>3, <3>4, <3>5
    <3> QED
      BY <3>3, <3>6
  <2>6. d[k] \in 0..b - 1
    OBVIOUS
  <2>7. s[j] + d[k] * p < b * p
    BY <2>4, <2>5, <2>6
  <2> QED
    BY <1>1, <2>3, <2>4, <2>7
<1>4. \A k \in 0..n : k \in P
  BY <1>2, <1>3, StepByStep
<1> QED
  BY <1>1, <1>4

LEMMA DenotesBelow ==
  ASSUME NEW b \in Nat \ {0}, NEW n \in Nat, NEW d \in [1..n -> 0..b - 1]
  PROVE  Denotes(d, b) \in Nat /\ Denotes(d, b) < Power(b, n)
<1>1. d \in [1..n -> Nat]
  OBVIOUS
<1>2. PICK s \in [0..n -> Nat] : Sums(s, d, b, n)
  BY <1>1, SumsExist
<1>3. Denotes(d, b) = s[n] /\ n \in 0..n
  BY <1>1, <1>2, DenotesIs
<1> QED
  BY <1>2, <1>3, SumsBelow

-----------------------------------------------------------------------------
(* The sizes of stores. *)

LEMMA LogLengthIs ==
  ASSUME NEW precision \in Nat
  PROVE  /\ LogLength(precision) \in Nat
         /\ Power(2, LogLength(precision)) >= (precision + Group - 1) \div Group
<1>1. Group \in Nat /\ Group > 0
  BY DigitAssumption
<1>2. PICK groups : groups = (precision + Group - 1) \div Group
  OBVIOUS
<1>3. groups \in Nat
  <2>1. precision + Group - 1 \in Nat
    BY <1>1
  <2>2. PICK x : x = precision + Group - 1
    OBVIOUS
  <2> QED
    BY <1>1, <1>2, <2>1, <2>2, DivMod
<1>4. PICK s : s = {k \in 0..groups : Power(2, k) >= groups}
  OBVIOUS
<1>5. groups \in s
  <2>1. Power(2, groups) > groups /\ Power(2, groups) \in Nat
    BY <1>3, PowerAbove, PowerLaws
  <2> QED
    BY <1>3, <1>4, <2>1
<1>6. s \subseteq Nat /\ s # {}
  BY <1>3, <1>4, <1>5
<1>7. Min(s) \in s
  BY <1>6, MinIs
<1>8. LogLength(precision) = Min(s)
  BY <1>2, <1>4 DEF LogLength
<1> QED
  BY <1>2, <1>4, <1>6, <1>7, <1>8

LEMMA OfTwo ==
  ASSUME NEW x \in Nat, NEW y \in Nat
  PROVE  /\ Max({x, y}) \in Nat /\ Max({x, y}) >= x /\ Max({x, y}) >= y /\ Max({x, y}) \in {x, y}
         /\ Min({x, y}) \in Nat /\ Min({x, y}) <= x /\ Min({x, y}) <= y /\ Min({x, y}) \in {x, y}
<1>1. \E m \in {x, y} : \A z \in {x, y} : m >= z
  OBVIOUS
<1>2. \E m \in {x, y} : \A z \in {x, y} : m <= z
  OBVIOUS
<1>3. Max({x, y}) \in {x, y} /\ \A z \in {x, y} : Max({x, y}) >= z
  BY <1>1 DEF Max
<1>4. Min({x, y}) \in {x, y} /\ \A z \in {x, y} : Min({x, y}) <= z
  BY <1>2 DEF Min
<1> QED
  BY <1>3, <1>4

\* A store is as long as the precision asks for, within the limits.
LEMMA LengthIs ==
  /\ Length \in Nat \ {0}
  /\ LogLength(Precision) <= MaxLogLength => Length >= (Precision + Group - 1) \div Group
<1>1. Precision \in Nat /\ MinLogLength \in Nat /\ MaxLogLength \in Nat
  BY DigitAssumption
<1>2. PICK l, h, k : l = LogLength(Precision) /\ h = Max({l, MinLogLength})
                     /\ k = Min({h, MaxLogLength})
  OBVIOUS
<1>3. l \in Nat /\ Power(2, l) >= (Precision + Group - 1) \div Group
  BY <1>1, <1>2, LogLengthIs
<1>4. h \in Nat /\ h >= l /\ h \in {l, MinLogLength}
  BY <1>1, <1>2, <1>3, OfTwo
<1>5. k \in Nat /\ k \in {h, MaxLogLength}
  BY <1>1, <1>2, <1>4, OfTwo
<1>6. Length = Power(2, k)
  BY <1>2 DEF Length
<1>7. Power(2, k) \in Nat \ {0}
  BY <1>5, PowerPositive
<1>8. ASSUME l <= MaxLogLength PROVE Power(2, k) >= (Precision + Group - 1) \div Group
  <2>1. l <= k
    BY <1>1, <1>3, <1>4, <1>5, <1>8
  <2>2. Power(2, l) <= Power(2, k)
    BY <1>3, <1>5, <2>1, PowerGrows
  <2>3. PICK g : g = (Precision + Group - 1) \div Group
    OBVIOUS
  <2>4. g \in Int
    BY <1>1, <2>3, DigitAssumption
  <2>5. Power(2, l) \in Nat /\ Power(2, k) \in Nat
    BY <1>3, <1>5, PowerLaws
  <2> QED
    BY <1>3, <2>2, <2>3, <2>4, <2>5
<1> QED
  BY <1>2, <1>6, <1>7, <1>8

LEMMA BaseIs == Base \in Nat /\ Base >= 2 /\ Base >= IoBase
<1>1. IoBase \in Nat /\ IoBase >= 2 /\ Group \in Nat /\ Group >= 1
  BY DigitAssumption
<1>2. Power(IoBase, Group) > Group /\ Power(IoBase, Group) \in Nat
  BY <1>1, PowerAbove, PowerLaws
<1>3. Power(IoBase, 1) <= Power(IoBase, Group)
  BY <1>1, PowerGrows
<1>4. Power(IoBase, 1) = IoBase
  <2>1. Power(IoBase, 0) = 1 /\ Power(IoBase, 0 + 1) = IoBase * Power(IoBase, 0)
    BY <1>1, PowerLaws
  <2>2. 0 + 1 = 1 /\ IoBase * 1 = IoBase
    BY <1>1
  <2> QED
    BY <2>1, <2>2
<1>5. Base = Power(IoBase, Group)
  BY DEF Base
<1> QED
  BY <1>1, <1>2, <1>3, <1>4, <1>5

-----------------------------------------------------------------------------
(* What digits stand for, of digits computed from others.                  *)

LEMMA FourTimes ==
  ASSUME NEW r \in Nat, NEW k \in Nat, NEW x \in Nat, NEW c \in Nat, NEW b \in Nat,
         NEW p \in Nat, r + b * k = x + c
  PROVE  r * p + k * (b * p) = x * p + c * p
<1>1. k * (b * p) = (b * k) * p
  BY TimesAssoc
<1>2. b * k \in Nat
  OBVIOUS
<1>3. (r + b * k) * p = r * p + (b * k) * p
  BY <1>2, PlusTimes
<1>4. (x + c) * p = x * p + c * p
  BY PlusTimes
<1> QED
  BY <1>1, <1>3, <1>4

\* One step of a sum.
AddsUp(s, d, b, j) ==
  /\ d[j + 1] \in Nat /\ s[j + 1] \in Nat /\ s[j] \in Nat
  /\ s[j + 1] = s[j] + d[j + 1] * Power(b, j)

LEMMA SumStep ==
  ASSUME NEW b \in Nat, NEW n \in Nat, NEW d \in [1..n -> Nat],
         NEW s \in [0..n -> Nat], Sums(s, d, b, n), NEW j \in 0..n - 1
  PROVE  AddsUp(s, d, b, j)
<1>1. PICK k : k = j + 1
  OBVIOUS
<1>2. k \in 1..n /\ k - 1 = j /\ k \in 0..n /\ j \in 0..n
  BY <1>1
<1>3. s[k] = s[j] + d[k] * Power(b, j)
  BY <1>2 DEF Sums
<1>4. d[k] \in Nat /\ s[k] \in Nat /\ s[j] \in Nat
  BY <1>2
<1> QED
  BY <1>1, <1>3, <1>4 DEF AddsUp

\* What is computed from one place to the next, with a carry.
Carries(r, x, c, b, n) == c[0] = 0 /\ \A i \in 1..n : r[i] + b * c[i] = x[i] + c[i - 1]

LEMMA CarriesAdd ==
  ASSUME NEW b \in Nat, NEW n \in Nat, NEW r \in [1..n -> Nat], NEW x \in [1..n -> Nat],
         NEW c \in [0..n -> Nat], Carries(r, x, c, b, n)
  PROVE  Denotes(r, b) + c[n] * Power(b, n) = Denotes(x, b)
<1>1. PICK sr \in [0..n -> Nat], sx \in [0..n -> Nat] : Sums(sr, r, b, n) /\ Sums(sx, x, b, n)
  BY SumsExist
<1>2. PICK P : P = {k \in 0..n : sr[k] + c[k] * Power(b, k) = sx[k]}
  OBVIOUS
<1>3. 0 \in P
  <2>1. sr[0] = 0 /\ sx[0] = 0 /\ c[0] = 0
    BY <1>1 DEF Sums, Carries
  <2>2. 0 * Power(b, 0) = 0
    BY PowerLaws
  <2>3. 0 \in 0..n
    OBVIOUS
  <2> QED
    BY <1>2, <2>1, <2>2, <2>3
<1>4. ASSUME NEW k \in 1..n, k - 1 \in P PROVE k \in P
  <2>1. PICK j, p : j = k - 1 /\ p = Power(b, j)
    OBVIOUS
  <2>a. j \in Nat /\ j \in 0..n - 1 /\ j \in 0..n /\ j + 1 = k /\ k \in 0..n
    BY <2>1
  <2>b. p \in Nat /\ Power(b, k) = b * p
    BY <2>1, <2>a, PowerLaws
  <2>c. r[k] \in Nat /\ sr[k] \in Nat /\ sr[j] \in Nat /\ sr[k] = sr[j] + r[k] * p
    <3>1. AddsUp(sr, r, b, j)
      BY <1>1, <2>a, SumStep
    <3> QED
      BY <2>1, <2>a, <3>1 DEF AddsUp
  <2>2. /\ j \in Nat /\ j \in 0..n /\ j + 1 = k /\ k \in 0..n /\ p \in Nat /\ Power(b, k) = b * p
        /\ r[k] \in Nat /\ sr[k] \in Nat /\ sr[j] \in Nat /\ sr[k] = sr[j] + r[k] * p
    BY <2>a, <2>b, <2>c
  <2>3. x[k] \in Nat /\ sx[k] \in Nat /\ sx[j] \in Nat /\ sx[k] = sx[j] + x[k] * p
    <3>1. AddsUp(sx, x, b, j)
      BY <1>1, <2>a, SumStep
    <3> QED
      BY <2>1, <2>a, <3>1 DEF AddsUp
  <2>4. PICK u, v, w, z : u = r[k] /\ v = x[k] /\ w = c[k] /\ z = c[j]
    OBVIOUS
  <2>5. u \in Nat /\ v \in Nat /\ w \in Nat /\ z \in Nat /\ u + b * w = v + z
    BY <2>1, <2>2, <2>3, <2>4 DEF Carries
  <2>6. u * p + w * (b * p) = v * p + z * p
    BY <2>2, <2>5, FourTimes
  <2>7. sr[j] + z * p = sx[j]
    BY <1>2, <1>4, <2>1, <2>4
  <2>8. PICK m1, m2, m3, m4 : m1 = u * p /\ m2 = w * (b * p) /\ m3 = v * p /\ m4 = z * p
    OBVIOUS
  <2>9. m1 \in Nat /\ m2 \in Nat /\ m3 \in Nat /\ m4 \in Nat
    BY <2>2, <2>5, <2>8
  <2>10. PICK s1, s2, s3, s4 : s1 = sr[k] /\ s2 = sr[j] /\ s3 = sx[k] /\ s4 = sx[j]
    OBVIOUS
  <2>11. s1 = s2 + m1 /\ s3 = s4 + m3 /\ m1 + m2 = m3 + m4 /\ s2 + m4 = s4
    BY <2>2, <2>3, <2>4, <2>6, <2>7, <2>8, <2>10
  <2>12. s1 + m2 = s3
    <3>1. s1 \in Nat /\ s2 \in Nat /\ s3 \in Nat /\ s4 \in Nat
      BY <2>2, <2>3, <2>10
    <3>2. m1 \in Int /\ m2 \in Int /\ m3 \in Int /\ m4 \in Int
      BY <2>9
    <3> QED
      BY <2>11, <3>1, <3>2
  <2>13. sr[k] + c[k] * Power(b, k) = sx[k]
    BY <2>2, <2>4, <2>8, <2>10, <2>12
  <2> QED
    BY <1>2, <2>2, <2>13
<1>5. \A k \in 0..n : k \in P
  BY <1>3, <1>4, StepByStep
<1>6. sr[n] + c[n] * Power(b, n) = sx[n]
  BY <1>2, <1>5
<1>7. Denotes(r, b) = sr[n] /\ Denotes(x, b) = sx[n]
  BY <1>1, DenotesIs
<1> QED
  BY <1>6, <1>7

\* The sum of two lists of digits, and a multiple of one, place by place.
Combined(x, d, m, e, n) == \A i \in 1..n : x[i] = d[i] + m * e[i]

Combines(x, d, m, e, b) == Denotes(x, b) = Denotes(d, b) + m * Denotes(e, b)

LEMMA DenotesCombined ==
  ASSUME NEW b \in Nat, NEW n \in Nat, NEW d \in [1..n -> Nat], NEW e \in [1..n -> Nat],
         NEW m \in Nat, NEW x \in [1..n -> Nat], Combined(x, d, m, e, n)
  PROVE  Combines(x, d, m, e, b)
<1>1. PICK sd \in [0..n -> Nat], se \in [0..n -> Nat], sx \in [0..n -> Nat] :
        Sums(sd, d, b, n) /\ Sums(se, e, b, n) /\ Sums(sx, x, b, n)
  BY SumsExist
<1>2. PICK P : P = {k \in 0..n : sx[k] = sd[k] + m * se[k]}
  OBVIOUS
<1>3. 0 \in P
  <2>1. sd[0] = 0 /\ sx[0] = 0 /\ se[0] = 0
    BY <1>1 DEF Sums
  <2>2. m * 0 = 0 /\ 0 \in 0..n
    OBVIOUS
  <2> QED
    BY <1>2, <2>1, <2>2
<1>4. ASSUME NEW k \in 1..n, k - 1 \in P PROVE k \in P
  <2>1. PICK j, p : j = k - 1 /\ p = Power(b, j)
    OBVIOUS
  <2>a. j \in Nat /\ j \in 0..n - 1 /\ j \in 0..n /\ j + 1 = k /\ k \in 0..n
    BY <2>1
  <2>b. p \in Nat
    BY <2>1, <2>a, PowerLaws
  <2>c. d[k] \in Nat /\ sd[k] \in Nat /\ sd[j] \in Nat /\ sd[k] = sd[j] + d[k] * p
    <3>1. AddsUp(sd, d, b, j)
      BY <1>1, <2>a, SumStep
    <3> QED
      BY <2>1, <2>a, <3>1 DEF AddsUp
  <2>2. /\ j \in Nat /\ j \in 0..n /\ k \in 0..n /\ p \in Nat
        /\ d[k] \in Nat /\ sd[k] \in Nat /\ sd[j] \in Nat /\ sd[k] = sd[j] + d[k] * p
    BY <2>a, <2>b, <2>c
  <2>3. e[k] \in Nat /\ se[k] \in Nat /\ se[j] \in Nat /\ se[k] = se[j] + e[k] * p
    <3>1. AddsUp(se, e, b, j)
      BY <1>1, <2>a, SumStep
    <3> QED
      BY <2>1, <2>a, <3>1 DEF AddsUp
  <2>4. sx[k] \in Nat /\ sx[j] \in Nat /\ sx[k] = sx[j] + x[k] * p
    <3>1. AddsUp(sx, x, b, j)
      BY <1>1, <2>a, SumStep
    <3> QED
      BY <2>1, <2>a, <3>1 DEF AddsUp
  <2>5. PICK u, v, s1, s2, s3, s4 : /\ u = d[k] /\ v = e[k]
                                    /\ s1 = sx[j] /\ s2 = sd[j] /\ s3 = se[j] /\ s4 = se[k]
    OBVIOUS
  <2>6. x[k] = u + m * v /\ s1 = s2 + m * s3
    BY <1>2, <1>4, <2>1, <2>5 DEF Combined
  <2>7. (u + m * v) * p = u * p + m * (v * p)
    <3>0. u \in Nat /\ v \in Nat /\ p \in Nat
      BY <2>2, <2>3, <2>5
    <3>1. m * v \in Nat /\ (m * v) * p = m * (v * p)
      BY <3>0, TimesAssoc
    <3>2. (u + m * v) * p = u * p + (m * v) * p
      BY <3>0, <3>1, PlusTimes
    <3> QED
      BY <3>1, <3>2
  <2>8. m * (s3 + v * p) = m * s3 + m * (v * p)
    <3>0. v \in Nat /\ p \in Nat /\ s3 \in Nat
      BY <2>2, <2>3, <2>5
    <3>1. PICK q : q = v * p
      OBVIOUS
    <3>2. q \in Nat /\ s3 \in Nat
      BY <3>0, <3>1
    <3>3. m * (s3 + q) = m * s3 + m * q
      BY <3>2
    <3> QED
      BY <3>1, <3>3
  <2>9. PICK m1, m2, m3 : m1 = u * p /\ m2 = m * (v * p) /\ m3 = m * s3
    OBVIOUS
  <2>10. m1 \in Nat /\ m2 \in Nat /\ m3 \in Nat /\ s1 \in Nat /\ s2 \in Nat
    <3>1. u \in Nat /\ v \in Nat /\ p \in Nat /\ s1 \in Nat /\ s2 \in Nat /\ s3 \in Nat
      BY <2>2, <2>3, <2>4, <2>5
    <3>2. \A t1, t2 \in Nat : t1 * t2 \in Nat
      OBVIOUS
    <3> QED
      BY <2>9, <3>1, <3>2
  <2>11. sx[k] = s1 + (m1 + m2)
    BY <2>4, <2>5, <2>6, <2>7, <2>9
  <2>12. sd[k] = s2 + m1
    BY <2>2, <2>5, <2>9
  <2>13. m * se[k] = m3 + m2
    BY <2>3, <2>5, <2>8, <2>9
  <2>14. sx[k] = sd[k] + m * se[k]
    BY <2>6, <2>9, <2>10, <2>11, <2>12, <2>13
  <2> QED
    BY <1>2, <2>2, <2>14
<1>5. \A k \in 0..n : k \in P
  BY <1>3, <1>4, StepByStep
<1>6. sx[n] = sd[n] + m * se[n]
  BY <1>2, <1>5
<1>7. Denotes(d, b) = sd[n] /\ Denotes(e, b) = se[n] /\ Denotes(x, b) = sx[n]
  BY <1>1, DenotesIs
<1> QED
  BY <1>6, <1>7 DEF Combines

\* The digits from one place on, as digits of their own.
Joined(d, l, e, m, f, n) ==
  l = m + n /\ (\A i \in 1..m : e[i] = d[i]) /\ (\A i \in 1..n : f[i] = d[m + i])

Splits(d, e, m, f, b) == Denotes(d, b) = Denotes(e, b) + Power(b, m) * Denotes(f, b)

LEMMA DenotesSplit ==
  ASSUME NEW b \in Nat, NEW n \in Nat, NEW m \in Nat, NEW l \in Nat, NEW d \in [1..l -> Nat],
         NEW e \in [1..m -> Nat], NEW f \in [1..n -> Nat], Joined(d, l, e, m, f, n)
  PROVE  Splits(d, e, m, f, b)
<1>0. l \in Nat /\ m <= l /\ l = m + n
  BY DEF Joined
<1>1. PICK sd \in [0..l -> Nat], se \in [0..m -> Nat], sf \in [0..n -> Nat] :
        Sums(sd, d, b, l) /\ Sums(se, e, b, m) /\ Sums(sf, f, b, n)
  BY <1>0, SumsExist
<1>2. sd[m] = se[m]
  <2>1. Sums(sd, d, b, m)
    BY <1>0, <1>1 DEF Sums
  <2>2. Sums(se, e, b, m)
    BY <1>1
  <2>3. Agree(e, d, m)
    BY DEF Joined, Agree
  <2> QED
    <3>1. PICK t, s : t = sd /\ s = se
      OBVIOUS
    <3>2. Sums(t, d, b, m) /\ Sums(s, e, b, m)
      BY <2>1, <2>2, <3>1
    <3>3. s[m] = t[m]
      BY <2>3, <3>2, SumsAgree
    <3> QED
      BY <3>1, <3>3
<1>3. PICK q : q = Power(b, m)
  OBVIOUS
<1>4. q \in Nat
  BY <1>3, PowerLaws
<1>5. PICK P : P = {k \in 0..n : sd[m + k] = se[m] + q * sf[k]}
  OBVIOUS
<1>6. 0 \in P
  <2>1. sf[0] = 0 /\ q * 0 = 0 /\ m + 0 = m /\ 0 \in 0..n /\ se[m] \in Nat
    BY <1>1, <1>4 DEF Sums
  <2> QED
    BY <1>2, <1>5, <2>1
<1>7. ASSUME NEW k \in 1..n, k - 1 \in P PROVE k \in P
  <2>1. PICK j, p, i, h, t : j = k - 1 /\ p = Power(b, j) /\ i = m + k /\ h = i - 1 /\ t = Power(b, h)
    OBVIOUS
  <2>a. j \in Nat /\ j \in 0..n - 1 /\ j \in 0..n /\ j + 1 = k /\ k \in 0..n
    BY <2>1
  <2>b. p \in Nat
    BY <2>1, <2>a, PowerLaws
  <2>c. f[k] \in Nat /\ sf[k] \in Nat /\ sf[j] \in Nat /\ sf[k] = sf[j] + f[k] * p
    <3>1. AddsUp(sf, f, b, j)
      BY <1>1, <2>a, SumStep
    <3> QED
      BY <2>1, <2>a, <3>1 DEF AddsUp
  <2>2. /\ j \in Nat /\ k \in 0..n /\ p \in Nat
        /\ f[k] \in Nat /\ sf[k] \in Nat /\ sf[j] \in Nat /\ sf[k] = sf[j] + f[k] * p
    BY <2>a, <2>b, <2>c
  <2>3. i \in 1..l /\ h = m + j /\ h \in 0..l - 1 /\ h + 1 = i
    BY <1>0, <2>1
  <2>4. /\ sd[i] \in Nat /\ sd[h] \in Nat /\ sd[i] = sd[h] + d[i] * t
    <3>1. d \in [1..l -> Nat] /\ sd \in [0..l -> Nat] /\ Sums(sd, d, b, l) /\ l \in Nat
      BY <1>0, <1>1
    <3>2. AddsUp(sd, d, b, h)
      BY <2>3, <3>1, SumStep
    <3> QED
      BY <2>1, <2>3, <3>2 DEF AddsUp
  <2>5. t = q * p
    BY <1>3, <2>1, <2>2, <2>3, PowerAdd
  <2>6. d[i] = f[k]
    BY <2>1 DEF Joined
  <2>7. sd[h] = se[m] + q * sf[j]
    BY <1>5, <1>7, <2>1, <2>3
  <2>8. PICK u, s1, s2 : u = f[k] /\ s1 = se[m] /\ s2 = sf[j]
    OBVIOUS
  <2>9. u \in Nat /\ s1 \in Nat /\ s2 \in Nat
    BY <1>1, <2>2, <2>8
  <2>10. u * (q * p) = q * (u * p)
    BY <1>4, <2>2, <2>9, TimesAssoc
  <2>11. q * (s2 + u * p) = q * s2 + q * (u * p)
    <3>1. PICK v : v = u * p
      OBVIOUS
    <3>2. v \in Nat
      BY <2>2, <2>9, <3>1
    <3>3. q * (s2 + v) = q * s2 + q * v
      BY <1>4, <2>9, <3>2
    <3> QED
      BY <3>1, <3>3
  <2>12. PICK m1, m2 : m1 = q * s2 /\ m2 = q * (u * p)
    OBVIOUS
  <2>13. m1 \in Nat /\ m2 \in Nat
    BY <1>4, <2>2, <2>9, <2>12
  <2>14. sd[i] = (s1 + m1) + m2
    BY <2>4, <2>5, <2>6, <2>7, <2>8, <2>10, <2>12
  <2>15. q * sf[k] = m1 + m2
    BY <2>2, <2>8, <2>11, <2>12
  <2>16. sd[i] = s1 + (m1 + m2)
    BY <2>9, <2>13, <2>14
  <2> QED
    BY <1>5, <2>1, <2>2, <2>8, <2>15, <2>16
<1>8. \A k \in 0..n : k \in P
  BY <1>6, <1>7, StepByStep
<1>9. sd[l] = se[m] + q * sf[n]
  BY <1>0, <1>5, <1>8
<1>10. Denotes(d, b) = sd[l]
  <2>1. d \in [1..l -> Nat] /\ Sums(sd, d, b, l) /\ l \in Nat
    BY <1>0, <1>1
  <2> QED
    BY <2>1, DenotesIs
<1>11. Denotes(e, b) = se[m] /\ Denotes(f, b) = sf[n]
  BY <1>1, DenotesIs
<1> QED
  BY <1>3, <1>9, <1>10, <1>11 DEF Splits

-----------------------------------------------------------------------------
(* The kernels of sums: what the digits of the result stand for.           *)

\* A carry leaves a place where the digits reach the base.
AdditionCarries(a, b, n, B) ==
  CHOOSE f : f = [i \in 0..n |-> IF i > 0 /\ a[i] + b[i] + f[i - 1] >= B THEN 1 ELSE 0]
AdditionCarry(c, a, b, n, B) ==
  /\ c \in [0..n -> {0, 1}] /\ c[0] = 0
  /\ \A i \in 1..n : c[i] = IF a[i] + b[i] + c[i - 1] >= B THEN 1 ELSE 0

LEMMA AdditionCarryIs ==
  ASSUME NEW n \in Nat, NEW B \in Nat, NEW a \in [1..n -> 0..B - 1], NEW b \in [1..n -> 0..B - 1],
         NEW c, c = AdditionCarries(a, b, n, B)
  PROVE  AdditionCarry(c, a, b, n, B)
<1> DEFINE H(f) == f = [i \in 0..n |-> IF i > 0 /\ a[i] + b[i] + f[i - 1] >= B THEN 1 ELSE 0]
<1>1. \E f : H(f)
  <2>1. PICK step : step = [q \in (1..n) \X {0, 1} |->
                              IF a[q[1]] + b[q[1]] + q[2] >= B THEN 1 ELSE 0]
    OBVIOUS
  <2>2. step \in [(1..n) \X {0, 1} -> {0, 1}]
    BY <2>1
  <2>3. PICK f \in [0..n -> {0, 1}] : Runs(f, 0, step, n)
    BY <2>2, RunExists
  <2>4. ASSUME NEW i \in 0..n
        PROVE  f[i] = IF i > 0 /\ a[i] + b[i] + f[i - 1] >= B THEN 1 ELSE 0
    <3>1. CASE i = 0
      BY <2>3, <3>1 DEF Runs
    <3>2. CASE i # 0
      <4>1. i \in 1..n /\ i > 0 /\ i - 1 \in 0..n
        BY <3>2
      <4>2. PICK x : x = f[i - 1]
        OBVIOUS
      <4>3. x \in {0, 1}
        BY <2>3, <4>1, <4>2
      <4>4. step[<<i, x>>] = IF a[i] + b[i] + x >= B THEN 1 ELSE 0
        <5>1. <<i, x>> \in (1..n) \X {0, 1} /\ <<i, x>>[1] = i /\ <<i, x>>[2] = x
          BY <4>1, <4>3
        <5> QED
          BY <2>1, <5>1
      <4>5. f[i] = step[<<i, x>>]
        BY <2>3, <4>1, <4>2 DEF Runs
      <4> QED
        BY <4>1, <4>2, <4>4, <4>5
    <3> QED
      BY <3>1, <3>2
  <2>5. f = [i \in 0..n |-> f[i]]
    BY <2>3
  <2> QED
    BY <2>4, <2>5
<1>2. H(c)
  <2>1. c = CHOOSE f : H(f)
    BY DEF AdditionCarries
  <2> HIDE DEF H
  <2> QED
    BY <1>1, <2>1
<1>3. c \in [0..n -> {0, 1}]
  BY <1>2
<1>4. \A i \in 0..n : c[i] = IF i > 0 /\ a[i] + b[i] + c[i - 1] >= B THEN 1 ELSE 0
  BY <1>2
<1>5. c[0] = 0
  BY <1>4
<1>6. \A i \in 1..n : i \in 0..n /\ i > 0
  OBVIOUS
<1>7. \A i \in 1..n : c[i] = IF a[i] + b[i] + c[i - 1] >= B THEN 1 ELSE 0
  BY <1>4, <1>6
<1> QED
  BY <1>3, <1>5, <1>7 DEF AdditionCarry

LEMMA AdditionIs ==
  ASSUME NEW a \in Magnitudes, NEW b \in Magnitudes
  PROVE  LET r == Addition(a, b)
         IN  /\ r.digits \in Magnitudes /\ r.carry \in {0, 1}
             /\ Denotes(r.digits, Base) + r.carry * Power(Base, Length)
                  = Denotes(a, Base) + Denotes(b, Base)
<1>1. PICK n, B : n = Length /\ B = Base
  OBVIOUS
<1>2. n \in Nat /\ B \in Nat /\ B >= 2
  BY <1>1, LengthIs, BaseIs
<1>3. a \in [1..n -> 0..B - 1] /\ b \in [1..n -> 0..B - 1]
  BY <1>1 DEF Magnitudes, Indices
<1>4. a \in [1..n -> Nat] /\ b \in [1..n -> Nat]
  BY <1>2, <1>3
<1>5. PICK c : c = AdditionCarries(a, b, n, B)
  OBVIOUS
<1>6. /\ c \in [0..n -> {0, 1}] /\ c[0] = 0
      /\ \A i \in 1..n : c[i] = IF a[i] + b[i] + c[i - 1] >= B THEN 1 ELSE 0
  <2>1. AdditionCarry(c, a, b, n, B)
    BY <1>2, <1>3, <1>5, AdditionCarryIs
  <2> QED
    BY <2>1 DEF AdditionCarry
<1>7. PICK r : r = [i \in 1..n |-> a[i] + b[i] + c[i - 1] - B * c[i]]
  OBVIOUS
<1>8. Addition(a, b) = [digits |-> r, carry |-> c[n]]
  BY <1>1, <1>5, <1>7 DEF Addition, Indices, AdditionCarries
<1>9. ASSUME NEW i \in 1..n
      PROVE  a[i] + b[i] + c[i - 1] - B * c[i] \in 0..B - 1
  <2>1. PICK x, y, z, u : x = a[i] /\ y = b[i] /\ z = c[i - 1] /\ u = c[i]
    OBVIOUS
  <2>2. x \in 0..B - 1 /\ y \in 0..B - 1 /\ z \in {0, 1} /\ u \in {0, 1}
    <3>1. i - 1 \in 0..n /\ i \in 0..n
      BY <1>2
    <3> QED
      BY <1>3, <1>6, <2>1, <3>1
  <2>3. u = IF x + y + z >= B THEN 1 ELSE 0
    BY <1>6, <2>1
  <2>4. x + y + z - B * u \in 0..B - 1
    <3>1. CASE u = 0
      BY <1>2, <2>2, <2>3, <3>1
    <3>2. CASE u = 1
      BY <1>2, <2>2, <2>3, <3>2
    <3> QED
      BY <2>2, <3>1, <3>2
  <2> QED
    BY <2>1, <2>4
<1>10. r \in [1..n -> 0..B - 1] /\ r \in Magnitudes
  <2>1. r \in [1..n -> 0..B - 1]
    BY <1>7, <1>9
  <2> QED
    BY <1>1, <2>1 DEF Magnitudes, Indices
<1>11. r \in [1..n -> Nat] /\ c \in [0..n -> Nat]
  BY <1>2, <1>6, <1>10
<1>12. PICK x : x = [i \in 1..n |-> a[i] + b[i]]
  OBVIOUS
<1>13. x \in [1..n -> Nat]
  BY <1>4, <1>11, <1>12
<1>14. Carries(r, x, c, B, n)
  <2>1. ASSUME NEW i \in 1..n PROVE r[i] + B * c[i] = x[i] + c[i - 1]
    <3>1. PICK u, v, w, y, z : u = a[i] /\ v = b[i] /\ w = r[i] /\ y = c[i] /\ z = c[i - 1]
      OBVIOUS
    <3>2. u \in Nat /\ v \in Nat /\ w \in Nat /\ y \in {0, 1} /\ z \in {0, 1}
      <4>1. i - 1 \in 0..n /\ i \in 0..n
        BY <1>2
      <4> QED
        BY <1>4, <1>6, <1>11, <3>1, <4>1
    <3>3. w = u + v + z - B * y /\ x[i] = u + v
      BY <1>7, <1>12, <3>1
    <3>4. PICK m : m = B * y
      OBVIOUS
    <3>5. m \in Nat
      BY <1>2, <3>2, <3>4
    <3>6. w + m = x[i] + z
      BY <3>2, <3>3, <3>4, <3>5
    <3> QED
      BY <3>1, <3>4, <3>6
  <2> QED
    BY <1>6, <2>1 DEF Carries
<1>15. Denotes(r, B) + c[n] * Power(B, n) = Denotes(x, B)
  BY <1>2, <1>4, <1>11, <1>13, <1>14, CarriesAdd
<1>16. Denotes(x, B) = Denotes(a, B) + Denotes(b, B)
  <2>0. PICK m \in Nat : m = 1
    OBVIOUS
  <2>1. Combined(x, a, m, b, n)
    <3>1. \A i \in 1..n : m * b[i] = b[i]
      BY <1>4, <2>0
    <3> QED
      BY <1>12, <3>1 DEF Combined
  <2>2. Denotes(x, B) = Denotes(a, B) + m * Denotes(b, B)
    <3>1. Combines(x, a, m, b, B)
      BY <1>2, <1>4, <1>11, <1>13, <2>1, DenotesCombined
    <3> QED
      BY <3>1 DEF Combines
  <2>3. m * Denotes(b, B) = Denotes(b, B)
    <3>1. Denotes(b, B) \in Nat
      BY <1>2, <1>3, DenotesBelow
    <3> QED
      BY <2>0, <3>1
  <2> QED
    BY <2>2, <2>3
<1>17. c[n] \in {0, 1}
  BY <1>2, <1>6
<1> QED
  BY <1>1, <1>8, <1>10, <1>15, <1>16, <1>17

\* One is borrowed where the digit is too small.
SubtractionCarries(a, b, n, B) ==
  CHOOSE f : f = [i \in 0..n |-> IF i > 0 /\ a[i] < b[i] + f[i - 1] THEN 1 ELSE 0]
SubtractionCarry(c, a, b, n, B) ==
  /\ c \in [0..n -> {0, 1}] /\ c[0] = 0
  /\ \A i \in 1..n : c[i] = IF a[i] < b[i] + c[i - 1] THEN 1 ELSE 0

LEMMA SubtractionCarryIs ==
  ASSUME NEW n \in Nat, NEW B \in Nat, NEW a \in [1..n -> 0..B - 1], NEW b \in [1..n -> 0..B - 1],
         NEW c, c = SubtractionCarries(a, b, n, B)
  PROVE  SubtractionCarry(c, a, b, n, B)
<1> DEFINE H(f) == f = [i \in 0..n |-> IF i > 0 /\ a[i] < b[i] + f[i - 1] THEN 1 ELSE 0]
<1>1. \E f : H(f)
  <2>1. PICK step : step = [q \in (1..n) \X {0, 1} |->
                              IF a[q[1]] < b[q[1]] + q[2] THEN 1 ELSE 0]
    OBVIOUS
  <2>2. step \in [(1..n) \X {0, 1} -> {0, 1}]
    BY <2>1
  <2>3. PICK f \in [0..n -> {0, 1}] : Runs(f, 0, step, n)
    BY <2>2, RunExists
  <2>4. ASSUME NEW i \in 0..n
        PROVE  f[i] = IF i > 0 /\ a[i] < b[i] + f[i - 1] THEN 1 ELSE 0
    <3>1. CASE i = 0
      BY <2>3, <3>1 DEF Runs
    <3>2. CASE i # 0
      <4>1. i \in 1..n /\ i > 0 /\ i - 1 \in 0..n
        BY <3>2
      <4>2. PICK x : x = f[i - 1]
        OBVIOUS
      <4>3. x \in {0, 1}
        BY <2>3, <4>1, <4>2
      <4>4. step[<<i, x>>] = IF a[i] < b[i] + x THEN 1 ELSE 0
        <5>1. <<i, x>> \in (1..n) \X {0, 1} /\ <<i, x>>[1] = i /\ <<i, x>>[2] = x
          BY <4>1, <4>3
        <5> QED
          BY <2>1, <5>1
      <4>5. f[i] = step[<<i, x>>]
        BY <2>3, <4>1, <4>2 DEF Runs
      <4> QED
        BY <4>1, <4>2, <4>4, <4>5
    <3> QED
      BY <3>1, <3>2
  <2>5. f = [i \in 0..n |-> f[i]]
    BY <2>3
  <2> QED
    BY <2>4, <2>5
<1>2. H(c)
  <2>1. c = CHOOSE f : H(f)
    BY DEF SubtractionCarries
  <2> HIDE DEF H
  <2> QED
    BY <1>1, <2>1
<1>3. c \in [0..n -> {0, 1}]
  BY <1>2
<1>4. \A i \in 0..n : c[i] = IF i > 0 /\ a[i] < b[i] + c[i - 1] THEN 1 ELSE 0
  BY <1>2
<1>5. c[0] = 0
  BY <1>4
<1>6. \A i \in 1..n : i \in 0..n /\ i > 0
  OBVIOUS
<1>7. \A i \in 1..n : c[i] = IF a[i] < b[i] + c[i - 1] THEN 1 ELSE 0
  BY <1>4, <1>6
<1> QED
  BY <1>3, <1>5, <1>7 DEF SubtractionCarry

LEMMA SubtractionIs ==
  ASSUME NEW a \in Magnitudes, NEW b \in Magnitudes
  PROVE  LET r == Subtraction(a, b)
         IN  /\ r.digits \in Magnitudes /\ r.carry \in {0, 1}
             /\ Denotes(a, Base) + r.carry * Power(Base, Length)
                  = Denotes(r.digits, Base) + Denotes(b, Base)
<1>1. PICK n, B : n = Length /\ B = Base
  OBVIOUS
<1>2. n \in Nat /\ B \in Nat /\ B >= 2
  BY <1>1, LengthIs, BaseIs
<1>3. a \in [1..n -> 0..B - 1] /\ b \in [1..n -> 0..B - 1]
  BY <1>1 DEF Magnitudes, Indices
<1>4. a \in [1..n -> Nat] /\ b \in [1..n -> Nat]
  BY <1>2, <1>3
<1>5. PICK c : c = SubtractionCarries(a, b, n, B)
  OBVIOUS
<1>6. /\ c \in [0..n -> {0, 1}] /\ c[0] = 0
      /\ \A i \in 1..n : c[i] = IF a[i] < b[i] + c[i - 1] THEN 1 ELSE 0
  <2>1. SubtractionCarry(c, a, b, n, B)
    BY <1>2, <1>3, <1>5, SubtractionCarryIs
  <2> QED
    BY <2>1 DEF SubtractionCarry
<1>7. PICK r : r = [i \in 1..n |-> a[i] + B * c[i] - b[i] - c[i - 1]]
  OBVIOUS
<1>8. Subtraction(a, b) = [digits |-> r, carry |-> c[n]]
  BY <1>1, <1>5, <1>7 DEF Subtraction, Indices, SubtractionCarries
<1>9. ASSUME NEW i \in 1..n
      PROVE  a[i] + B * c[i] - b[i] - c[i - 1] \in 0..B - 1
  <2>1. PICK x, y, z, u : x = a[i] /\ y = b[i] /\ z = c[i - 1] /\ u = c[i]
    OBVIOUS
  <2>2. x \in 0..B - 1 /\ y \in 0..B - 1 /\ z \in {0, 1} /\ u \in {0, 1}
    <3>1. i - 1 \in 0..n /\ i \in 0..n
      BY <1>2
    <3> QED
      BY <1>3, <1>6, <2>1, <3>1
  <2>3. u = IF x < y + z THEN 1 ELSE 0
    BY <1>6, <2>1
  <2>4. x + B * u - y - z \in 0..B - 1
    <3>1. CASE u = 0
      BY <1>2, <2>2, <2>3, <3>1
    <3>2. CASE u = 1
      BY <1>2, <2>2, <2>3, <3>2
    <3> QED
      BY <2>2, <3>1, <3>2
  <2> QED
    BY <2>1, <2>4
<1>10. r \in [1..n -> 0..B - 1] /\ r \in Magnitudes
  <2>1. r \in [1..n -> 0..B - 1]
    BY <1>7, <1>9
  <2> QED
    BY <1>1, <2>1 DEF Magnitudes, Indices
<1>11. r \in [1..n -> Nat] /\ c \in [0..n -> Nat]
  BY <1>2, <1>6, <1>10
<1>12. PICK x : x = [i \in 1..n |-> r[i] + b[i]]
  OBVIOUS
<1>13. x \in [1..n -> Nat]
  BY <1>4, <1>11, <1>12
<1>14. Carries(a, x, c, B, n)
  <2>1. ASSUME NEW i \in 1..n PROVE a[i] + B * c[i] = x[i] + c[i - 1]
    <3>1. PICK u, v, w, y, z : u = a[i] /\ v = b[i] /\ w = r[i] /\ y = c[i] /\ z = c[i - 1]
      OBVIOUS
    <3>2. u \in Nat /\ v \in Nat /\ w \in Nat /\ y \in {0, 1} /\ z \in {0, 1}
      <4>1. i - 1 \in 0..n /\ i \in 0..n
        BY <1>2
      <4> QED
        BY <1>4, <1>6, <1>11, <3>1, <4>1
    <3>3. w = u + B * y - v - z /\ x[i] = w + v
      BY <1>7, <1>12, <3>1
    <3>4. PICK m : m = B * y
      OBVIOUS
    <3>5. m \in Nat
      BY <1>2, <3>2, <3>4
    <3>6. u + m = x[i] + z
      BY <3>2, <3>3, <3>4, <3>5
    <3> QED
      BY <3>1, <3>4, <3>6
  <2> QED
    BY <1>6, <2>1 DEF Carries
<1>15. Denotes(a, B) + c[n] * Power(B, n) = Denotes(x, B)
  BY <1>2, <1>4, <1>11, <1>13, <1>14, CarriesAdd
<1>16. Denotes(x, B) = Denotes(r, B) + Denotes(b, B)
  <2>0. PICK m \in Nat : m = 1
    OBVIOUS
  <2>1. Combined(x, r, m, b, n)
    <3>1. \A i \in 1..n : m * b[i] = b[i]
      BY <1>4, <2>0
    <3> QED
      BY <1>12, <3>1 DEF Combined
  <2>2. Denotes(x, B) = Denotes(r, B) + m * Denotes(b, B)
    <3>1. Combines(x, r, m, b, B)
      BY <1>2, <1>4, <1>11, <1>13, <2>1, DenotesCombined
    <3> QED
      BY <3>1 DEF Combines
  <2>3. m * Denotes(b, B) = Denotes(b, B)
    <3>1. Denotes(b, B) \in Nat
      BY <1>2, <1>3, DenotesBelow
    <3> QED
      BY <2>0, <3>1
  <2> QED
    BY <2>2, <2>3
<1>17. c[n] \in {0, 1}
  BY <1>2, <1>6
<1> QED
  BY <1>1, <1>8, <1>10, <1>15, <1>16, <1>17

-----------------------------------------------------------------------------
(* Sums of stores. *)

LEMMA HigherDigit ==
  ASSUME NEW B \in Nat \ {0}, NEW n \in Nat,
         NEW a \in [1..n -> 0..B - 1], NEW b \in [1..n -> 0..B - 1],
         NEW k \in 1..n, a[k] > b[k], \A i \in 1..n : i > k => a[i] = b[i]
  PROVE  Denotes(a, B) > Denotes(b, B)
<1>1. a \in [1..n -> Nat] /\ b \in [1..n -> Nat] /\ B \in Nat
  OBVIOUS
<1>2. PICK sa \in [0..n -> Nat], sb \in [0..n -> Nat] : Sums(sa, a, B, n) /\ Sums(sb, b, B, n)
  BY <1>1, SumsExist
<1>3. sa[k] > sb[k]
  <2>1. PICK j, p : j = k - 1 /\ p = Power(B, j)
    OBVIOUS
  <2>2. j \in 0..n - 1 /\ j \in 0..n /\ j \in Nat /\ j + 1 = k
    BY <2>1
  <2>3. p \in Nat /\ sb[j] < p
    BY <1>2, <2>1, <2>2, PowerLaws, SumsBelow
  <2>4. AddsUp(sa, a, B, j) /\ AddsUp(sb, b, B, j)
    BY <1>1, <1>2, <2>2, SumStep
  <2>5. PICK x, y, s, t : x = a[k] /\ y = b[k] /\ s = sa[j] /\ t = sb[j]
    OBVIOUS
  <2>6. /\ x \in Nat /\ y \in Nat /\ s \in Nat /\ t \in Nat /\ sa[k] = s + x * p
        /\ sb[k] = t + y * p
    BY <2>1, <2>2, <2>4, <2>5 DEF AddsUp
  <2>7. y + 1 <= x /\ t < p
    BY <2>3, <2>5, <2>6
  <2>8. (y + 1) * p <= x * p /\ (y + 1) * p = y * p + p
    <3>1. PICK z : z = y + 1
      OBVIOUS
    <3>2. z \in Nat /\ z <= x
      BY <2>6, <2>7, <3>1
    <3>3. z * p <= x * p
      BY <2>3, <2>6, <3>2, TimesGrows
    <3>4. (y + 1) * p = y * p + p
      BY <2>3, <2>6
    <3> QED
      BY <3>1, <3>3, <3>4
  <2>9. PICK u, v : u = x * p /\ v = y * p
    OBVIOUS
  <2>10. u \in Nat /\ v \in Nat /\ v + p <= u
    BY <2>3, <2>6, <2>8, <2>9
  <2>11. s + u > t + v
    BY <2>3, <2>6, <2>7, <2>10
  <2> QED
    BY <2>6, <2>9, <2>11
<1>4. PICK P : P = {i \in 0..n : i >= k => sa[i] > sb[i]}
  OBVIOUS
<1>5. 0 \in P
  BY <1>4
<1>6. ASSUME NEW i \in 1..n, i - 1 \in P PROVE i \in P
  <2>1. CASE i < k
    BY <1>4, <2>1
  <2>2. CASE i = k
    BY <1>3, <1>4, <2>2
  <2>3. CASE i > k
    <3>1. PICK j, p : j = i - 1 /\ p = Power(B, j)
      OBVIOUS
    <3>2. j \in 0..n - 1 /\ j \in 0..n /\ j \in Nat /\ j + 1 = i /\ j >= k
      BY <2>3, <3>1
    <3>3. AddsUp(sa, a, B, j) /\ AddsUp(sb, b, B, j) /\ p \in Nat
      BY <1>1, <1>2, <3>1, <3>2, SumStep, PowerLaws
    <3>4. PICK x, s, t : x = a[i] * p /\ s = sa[j] /\ t = sb[j]
      OBVIOUS
    <3>5. s > t /\ s \in Nat /\ t \in Nat
      BY <1>2, <1>4, <1>6, <3>1, <3>2, <3>4
    <3>6. a[i] = b[i]
      BY <2>3
    <3>7. sa[i] = s + x /\ sb[i] = t + x
      BY <3>1, <3>2, <3>3, <3>4, <3>6 DEF AddsUp
    <3>8. x \in Nat
      <4>1. a[i] \in Nat
        BY <1>1
      <4>2. \A y \in Nat : y * p \in Nat
        BY <3>3
      <4> QED
        BY <3>4, <4>1, <4>2
    <3>9. s + x > t + x
      BY <3>5, <3>8
    <3> QED
      BY <1>4, <3>7, <3>9
  <2> QED
    BY <2>1, <2>2, <2>3
<1>7. \A i \in 0..n : i \in P
  BY <1>5, <1>6, StepByStep
<1>8. sa[n] > sb[n]
  BY <1>4, <1>7
<1>9. Denotes(a, B) = sa[n] /\ Denotes(b, B) = sb[n]
  BY <1>1, <1>2, DenotesIs
<1> QED
  BY <1>8, <1>9

LEMMA HighestOf ==
  ASSUME NEW n \in Nat, NEW S \in SUBSET (1..n), S # {}
  PROVE  Max(S) \in S /\ \A x \in S : x <= Max(S)
<1>1. PICK P : P = {k \in 0..n : (\E x \in S : x <= k) => \E x \in S : x <= k /\ \A y \in S : y <= k => y <= x}
  OBVIOUS
<1>2. 0 \in P
  BY <1>1
<1>3. ASSUME NEW k \in 1..n, k - 1 \in P PROVE k \in P
  <2>1. CASE k \in S
    <3>1. k <= k /\ \A y \in S : y <= k => y <= k
      OBVIOUS
    <3> QED
      BY <1>1, <2>1, <3>1
  <2>2. CASE k \notin S
    <3>1. \A x \in S : x <= k <=> x <= k - 1
      BY <2>2
    <3> QED
      BY <1>1, <1>3, <3>1
  <2> QED
    BY <2>1, <2>2
<1>4. \A k \in 0..n : k \in P
  BY <1>2, <1>3, StepByStep
<1>5. n \in P /\ \A x \in S : x <= n
  BY <1>4
<1>6. \E x \in S : \A y \in S : x >= y
  BY <1>1, <1>5
<1>7. Max(S) \in S /\ \A y \in S : Max(S) >= y
  BY <1>6 DEF Max
<1> QED
  BY <1>7

LEMMA CompareIs ==
  ASSUME NEW a \in Magnitudes, NEW b \in Magnitudes
  PROVE  \/ Compare(a, b) = 0 /\ a = b
         \/ Compare(a, b) = 1 /\ Denotes(a, Base) > Denotes(b, Base)
         \/ Compare(a, b) = -1 /\ Denotes(b, Base) > Denotes(a, Base)
<1>1. PICK n, B : n = Length /\ B = Base
  OBVIOUS
<1>2. n \in Nat /\ B \in Nat \ {0}
  BY <1>1, LengthIs, BaseIs
<1>3. a \in [1..n -> 0..B - 1] /\ b \in [1..n -> 0..B - 1]
  BY <1>1 DEF Magnitudes, Indices
<1>4. PICK differ : differ = {i \in 1..n : a[i] # b[i]}
  OBVIOUS
<1>5. Compare(a, b) = IF differ = {} THEN 0 ELSE IF a[Max(differ)] > b[Max(differ)] THEN 1 ELSE -1
  BY <1>1, <1>4 DEF Compare, Indices
<1>6. CASE differ = {}
  <2>1. \A i \in 1..n : a[i] = b[i]
    BY <1>4, <1>6
  <2>2. a = b
    <3>1. a = [i \in 1..n |-> a[i]] /\ b = [i \in 1..n |-> b[i]]
      BY <1>3
    <3> QED
      BY <2>1, <3>1
  <2> QED
    BY <1>5, <1>6, <2>2
<1>7. CASE differ # {}
  <2>1. PICK k : k = Max(differ)
    OBVIOUS
  <2>2. k \in differ /\ \A x \in differ : x <= k
    <3>1. differ \in SUBSET (1..n)
      BY <1>4
    <3> QED
      BY <1>2, <1>7, <2>1, <3>1, HighestOf
  <2>3. k \in 1..n /\ a[k] # b[k]
    BY <1>4, <2>2
  <2>4. \A i \in 1..n : i > k => a[i] = b[i]
    BY <1>2, <1>4, <2>2, <2>3
  <2>5. CASE a[k] > b[k]
    <3>1. Denotes(a, B) > Denotes(b, B)
      BY <1>2, <1>3, <2>3, <2>4, <2>5, HigherDigit
    <3>2. Compare(a, b) = 1
      BY <1>5, <1>7, <2>1, <2>5
    <3> QED
      BY <1>1, <3>1, <3>2
  <2>6. CASE ~(a[k] > b[k])
    <3>1. a[k] \in 0..B - 1 /\ b[k] \in 0..B - 1
      BY <1>3, <2>3
    <3>2. b[k] > a[k]
      BY <1>2, <2>3, <2>6, <3>1
    <3>3. \A i \in 1..n : i > k => b[i] = a[i]
      BY <2>4
    <3>4. Denotes(b, B) > Denotes(a, B)
      BY <1>2, <1>3, <2>3, <3>2, <3>3, HigherDigit
    <3>5. Compare(a, b) = -1
      BY <1>5, <1>7, <2>1, <2>6
    <3> QED
      BY <1>1, <3>4, <3>5
  <2> QED
    BY <2>5, <2>6
<1> QED
  BY <1>6, <1>7

\* All digits zero.
LEMMA NothingIsZero ==
  ASSUME NEW B \in Nat, NEW n \in Nat, NEW z \in [1..n -> Nat], \A i \in 1..n : z[i] = 0
  PROVE  Denotes(z, B) = 0
<1>1. PICK s \in [0..n -> Nat] : Sums(s, z, B, n)
  BY SumsExist
<1>2. PICK P : P = {k \in 0..n : s[k] = 0}
  OBVIOUS
<1>3. 0 \in P
  BY <1>1, <1>2 DEF Sums
<1>4. ASSUME NEW k \in 1..n, k - 1 \in P PROVE k \in P
  <2>1. PICK j : j = k - 1
    OBVIOUS
  <2>2. j \in 0..n - 1 /\ j \in Nat /\ j + 1 = k
    BY <2>1
  <2>3. AddsUp(s, z, B, j) /\ Power(B, j) \in Nat
    BY <1>1, <2>2, SumStep, PowerLaws
  <2>4. 0 * Power(B, j) = 0
    BY <2>3
  <2> QED
    BY <1>2, <1>4, <2>1, <2>2, <2>3, <2>4 DEF AddsUp
<1>5. \A k \in 0..n : k \in P
  BY <1>3, <1>4, StepByStep
<1>6. s[n] = 0
  BY <1>2, <1>5
<1> QED
  BY <1>1, <1>6, DenotesIs

LEMMA TruncateIs ==
  ASSUME NEW m \in Nat, m > 0, m = Power(Base, Length), NEW q \in Nat, NEW r \in 0..m - 1,
         NEW v \in Nat, v = m * q + r
  PROVE  Truncate(v) = r /\ Truncate(-v) = -r
<1>1. v % m = r
  BY QuotientIs
<1>2. Truncate(v) = r
  BY <1>1 DEF Truncate
<1>3. CASE v = 0
  <2>1. r = 0 /\ -v = v
    <3>1. m * q \in Nat
      OBVIOUS
    <3> QED
      BY <1>3, <3>1
  <2> QED
    BY <1>2, <2>1
<1>4. CASE v > 0
  <2>1. PICK u : u = -v
    OBVIOUS
  <2>2. ~(u >= 0) /\ -u = v
    BY <1>4, <2>1
  <2>3. Truncate(u) = -(v % m)
    BY <2>2 DEF Truncate
  <2> QED
    BY <1>1, <1>2, <2>1, <2>3
<1> QED
  BY <1>3, <1>4

\* Values of digits in a store.
LEMMA MagnitudeIs ==
  ASSUME NEW a \in Magnitudes
  PROVE  /\ Power(Base, Length) \in Nat \ {0}
         /\ Denotes(a, Base) \in 0..Power(Base, Length) - 1
<1>1. PICK n, B : n = Length /\ B = Base
  OBVIOUS
<1>2. n \in Nat /\ B \in Nat \ {0}
  BY <1>1, LengthIs, BaseIs
<1>3. a \in [1..n -> 0..B - 1]
  BY <1>1 DEF Magnitudes, Indices
<1>4. Power(B, n) \in Nat \ {0}
  BY <1>2, PowerPositive
<1>5. Denotes(a, B) \in Nat /\ Denotes(a, B) < Power(B, n)
  BY <1>2, <1>3, DenotesBelow
<1>6. Denotes(a, B) \in 0..Power(B, n) - 1
  BY <1>4, <1>5
<1> QED
  BY <1>1, <1>4, <1>6

LEMMA DifferenceIs ==
  ASSUME NEW a \in Magnitudes, NEW b \in Magnitudes, Denotes(a, Base) > Denotes(b, Base),
         NEW r, r = Subtraction(a, b).digits
  PROVE  r \in Magnitudes /\ Denotes(r, Base) = Denotes(a, Base) - Denotes(b, Base)
<1>1. PICK c, m, x, y, z : /\ c = Subtraction(a, b).carry /\ m = Power(Base, Length)
                           /\ x = Denotes(a, Base) /\ y = Denotes(b, Base) /\ z = Denotes(r, Base)
  OBVIOUS
<1>2. r \in Magnitudes /\ c \in {0, 1} /\ x + c * m = z + y
  BY <1>1, SubtractionIs
<1>3. m \in Nat \ {0} /\ x \in 0..m - 1 /\ y \in 0..m - 1 /\ z \in 0..m - 1 /\ x > y
  BY <1>1, <1>2, MagnitudeIs
<1>4. c # 1
  <2> SUFFICES ASSUME c = 1 PROVE FALSE
    OBVIOUS
  <2>1. c * m = m
    BY <1>3
  <2> QED
    BY <1>2, <1>3, <2>1
<1>5. c * m = 0
  BY <1>2, <1>3, <1>4
<1>6. z = x - y
  BY <1>2, <1>3, <1>5
<1> QED
  BY <1>1, <1>2, <1>6

LEMMA SumIs ==
  ASSUME NEW A \in Stores, NEW B \in Stores
  PROVE  Sum(A, B) \in Stores /\ Value(Sum(A, B)) = Truncate(Value(A) + Value(B))
<1>1. PICK a, b, m, x, y : /\ a = A.digits /\ b = B.digits /\ m = Power(Base, Length)
                           /\ x = Denotes(a, Base) /\ y = Denotes(b, Base)
  OBVIOUS
<1>2. a \in Magnitudes /\ b \in Magnitudes /\ A.sign \in {0, 1} /\ B.sign \in {0, 1}
  BY <1>1 DEF Stores
<1>3. m \in Nat /\ m > 0 /\ x \in 0..m - 1 /\ y \in 0..m - 1
  BY <1>1, <1>2, MagnitudeIs
<1>4. /\ Value(A) = IF A.sign = 1 THEN x ELSE -x
      /\ Value(B) = IF B.sign = 1 THEN y ELSE -y
  BY <1>1 DEF Value
<1>5. ASSUME NEW s \in {0, 1}, NEW r \in Magnitudes, Sum(A, B) = [sign |-> s, digits |-> r]
      PROVE  Sum(A, B) \in Stores /\ Value(Sum(A, B)) = IF s = 1 THEN Denotes(r, Base) ELSE -Denotes(r, Base)
  BY <1>5 DEF Stores, Value
<1>6. CASE A.sign = B.sign
  <2>1. PICK r, c, z, s : r = Addition(a, b).digits /\ c = Addition(a, b).carry
                          /\ z = Denotes(r, Base) /\ s = A.sign
    OBVIOUS
  <2>2. r \in Magnitudes /\ c \in {0, 1} /\ z + c * m = x + y
    BY <1>1, <1>2, <2>1, AdditionIs
  <2>3. Sum(A, B) = [sign |-> s, digits |-> r]
    BY <1>1, <1>6, <2>1 DEF Sum
  <2>4. Sum(A, B) \in Stores /\ Value(Sum(A, B)) = IF s = 1 THEN z ELSE -z
    BY <1>2, <1>5, <2>1, <2>2, <2>3
  <2>5. PICK v : v = x + y
    OBVIOUS
  <2>6. z \in 0..m - 1
    BY <1>1, <2>1, <2>2, MagnitudeIs
  <2>7. v \in Nat /\ v = m * c + z
    <3>1. m * c \in Nat /\ c * m = m * c
      BY <1>3, <2>2
    <3> QED
      BY <1>3, <2>2, <2>5, <2>6, <3>1
  <2>8. Truncate(v) = z /\ Truncate(-v) = -z
    <3>1. c \in Nat
      BY <2>2
    <3>2. m \in Nat /\ m > 0 /\ m = Power(Base, Length)
      BY <1>1, <1>3
    <3> QED
      BY <2>6, <2>7, <3>1, <3>2, TruncateIs
  <2>9. Value(A) + Value(B) = IF s = 1 THEN v ELSE -v
    BY <1>2, <1>3, <1>4, <1>6, <2>1, <2>5
  <2> QED
    BY <2>4, <2>8, <2>9
<1>7. CASE A.sign # B.sign /\ Compare(a, b) = 0
  <2>1. a = b /\ x = y
    BY <1>1, <1>2, <1>7, CompareIs
  <2>2. PICK z : z = [i \in Indices |-> 0]
    OBVIOUS
  <2>3. z \in Magnitudes
    BY <2>2, BaseIs DEF Magnitudes
  <2>4. Denotes(z, Base) = 0
    <3>1. PICK n, p : n = Length /\ p = Base
      OBVIOUS
    <3>2. n \in Nat /\ p \in Nat /\ z \in [1..n -> Nat] /\ \A i \in 1..n : z[i] = 0
      BY <2>2, <3>1, LengthIs, BaseIs DEF Indices
    <3>3. Denotes(z, p) = 0
      BY <3>2, NothingIsZero
    <3> QED
      BY <3>1, <3>3
  <2>5. Sum(A, B) = [sign |-> 1, digits |-> z]
    BY <1>1, <1>7, <2>2 DEF Sum
  <2>6. Sum(A, B) \in Stores /\ Value(Sum(A, B)) = 0
    <3>1. PICK s : s = 1
      OBVIOUS
    <3>2. s \in {0, 1} /\ Sum(A, B) = [sign |-> s, digits |-> z]
      BY <2>5, <3>1
    <3>3. Value(Sum(A, B)) = IF s = 1 THEN Denotes(z, Base) ELSE -Denotes(z, Base)
      BY <1>5, <2>3, <3>2
    <3>4. Sum(A, B) \in Stores
      BY <1>5, <2>3, <3>2
    <3> QED
      BY <2>4, <3>1, <3>3, <3>4
  <2>7. Value(A) + Value(B) = 0
    BY <1>2, <1>3, <1>4, <1>7, <2>1
  <2>8. Truncate(0) = 0
    <3>1. PICK q, v : q = 0 /\ v = 0
      OBVIOUS
    <3>2. q \in Nat /\ v \in Nat /\ v \in 0..m - 1 /\ v = m * q + v
      BY <1>3, <3>1
    <3>3. Truncate(v) = v
      BY <1>1, <1>3, <3>2, TruncateIs
    <3> QED
      BY <3>1, <3>3
  <2> QED
    BY <2>6, <2>7, <2>8
<1>8. ASSUME A.sign # B.sign, NEW l, NEW s, NEW h, {l, s} = {a, b}, h \in {0, 1},
             l = (IF h = A.sign THEN a ELSE b), s = (IF h = A.sign THEN b ELSE a),
             Denotes(l, Base) > Denotes(s, Base),
             Sum(A, B) = [sign |-> h, digits |-> Subtraction(l, s).digits]
      PROVE  Sum(A, B) \in Stores /\ Value(Sum(A, B)) = Truncate(Value(A) + Value(B))
  <2>1. PICK r, v, dl, ds : /\ r = Subtraction(l, s).digits /\ v = Denotes(r, Base)
                            /\ dl = Denotes(l, Base) /\ ds = Denotes(s, Base)
    OBVIOUS
  <2>2. l \in Magnitudes /\ s \in Magnitudes
    BY <1>2, <1>8
  <2>3. r \in Magnitudes /\ v = dl - ds
    BY <1>8, <2>1, <2>2, DifferenceIs
  <2>4. v \in 0..m - 1 /\ dl \in 0..m - 1 /\ ds \in 0..m - 1
    BY <1>1, <2>1, <2>2, <2>3, MagnitudeIs
  <2>5. Sum(A, B) \in Stores /\ Value(Sum(A, B)) = IF h = 1 THEN v ELSE -v
    BY <1>5, <1>8, <2>1, <2>3
  <2>6. Truncate(v) = v /\ Truncate(-v) = -v
    <3>1. PICK q : q = 0
      OBVIOUS
    <3>2. q \in Nat /\ v \in Nat /\ v = m * q + v
      BY <1>3, <2>4, <3>1
    <3> QED
      BY <1>1, <1>3, <2>4, <3>2, TruncateIs
  <2>7. Value(A) + Value(B) = IF h = 1 THEN v ELSE -v
    <3>1. CASE h = A.sign
      <4>1. dl = x /\ ds = y
        BY <1>1, <1>8, <2>1, <3>1
      <4> QED
        BY <1>2, <1>3, <1>4, <1>8, <2>3, <3>1, <4>1
    <3>2. CASE h # A.sign
      <4>1. dl = y /\ ds = x
        BY <1>1, <1>8, <2>1, <3>2
      <4> QED
        BY <1>2, <1>3, <1>4, <1>8, <2>3, <3>2, <4>1
    <3> QED
      BY <3>1, <3>2
  <2> QED
    BY <2>5, <2>6, <2>7
<1>9. CASE A.sign # B.sign /\ Compare(a, b) = 1
  <2>1. x > y
    BY <1>1, <1>2, <1>9, CompareIs
  <2>2. Sum(A, B) = [sign |-> A.sign, digits |-> Subtraction(a, b).digits]
    BY <1>1, <1>9 DEF Sum
  <2>3. PICK h : h = A.sign
    OBVIOUS
  <2> QED
    BY <1>1, <1>2, <1>8, <1>9, <2>1, <2>2, <2>3
<1>10. CASE A.sign # B.sign /\ Compare(a, b) = -1
  <2>1. y > x
    BY <1>1, <1>2, <1>10, CompareIs
  <2>2. Sum(A, B) = [sign |-> B.sign, digits |-> Subtraction(b, a).digits]
    BY <1>1, <1>10 DEF Sum
  <2>3. PICK h : h = B.sign
    OBVIOUS
  <2> QED
    BY <1>1, <1>2, <1>8, <1>10, <2>1, <2>2, <2>3
<1>11. Compare(a, b) \in {0, 1, -1}
  BY <1>2, CompareIs
<1> QED
  BY <1>6, <1>7, <1>9, <1>10, <1>11

-----------------------------------------------------------------------------
(* Products: one row after the other.                                      *)

\* The carries of a row.
RowCarries(c, a, b, i, n, B) ==
  CHOOSE f : f = [j \in 0..n |->
    IF j = 0 THEN 0 ELSE (c[i + j - 1] + a[i] * b[j] + f[j - 1]) \div B]
RowCarry(f, c, a, b, i, n, B) ==
  /\ f \in [0..n -> 0..B - 1] /\ f[0] = 0
  /\ \A j \in 1..n : f[j] = (c[i + j - 1] + a[i] * b[j] + f[j - 1]) \div B

\* A digit, a product of two, and a carry.
Fits(x, y, z, w, B) ==
  LET v == x + y * z + w
  IN  v \in Nat /\ v \div B \in 0..B - 1 /\ v % B \in 0..B - 1 /\ (v % B) + B * (v \div B) = v

LEMMA ProductFits ==
  ASSUME NEW B \in Nat, B > 0, NEW x \in 0..B - 1, NEW y \in 0..B - 1, NEW z \in 0..B - 1,
         NEW w \in 0..B - 1
  PROVE  Fits(x, y, z, w, B)
<1>0. PICK v : v = x + y * z + w
  OBVIOUS
<1>1. y * z <= (B - 1) * (B - 1) /\ y * z \in Nat
  <2>1. PICK t : t = B - 1
    OBVIOUS
  <2>2. t \in Nat /\ y <= t /\ z <= t /\ y \in Nat /\ z \in Nat
    BY <2>1
  <2>3. y * z <= t * z
    BY <2>2, TimesGrows
  <2>4. z * t <= t * t /\ t * z = z * t
    BY <2>2, TimesGrows
  <2>5. PICK u1, u2, u3 : u1 = y * z /\ u2 = t * z /\ u3 = t * t
    OBVIOUS
  <2>6. u1 \in Nat /\ u2 \in Nat /\ u3 \in Nat
    BY <2>2, <2>5
  <2>7. u1 <= u3
    BY <2>3, <2>4, <2>5, <2>6
  <2> QED
    BY <2>1, <2>5, <2>6, <2>7
<1>2. (B - 1) * (B - 1) = B * B - 2 * B + 1 /\ B * B \in Nat
  OBVIOUS
<1>3. v \in Nat /\ v < B * B
  <2>1. PICK p, q : p = y * z /\ q = B * B
    OBVIOUS
  <2>2. p \in Nat /\ q \in Nat /\ p <= q - 2 * B + 1
    BY <1>1, <1>2, <2>1
  <2>3. v = x + p + w
    BY <1>0, <2>1
  <2>4. v \in Nat /\ v < q
    BY <2>2, <2>3
  <2> QED
    BY <2>1, <2>4
<1>4. v \div B < B
  BY <1>3, QuotientBelow
<1>5. v % B \in 0..(B - 1) /\ v \div B \in Nat /\ v = B * (v \div B) + (v % B)
  BY <1>3, DivMod
<1>6. PICK d, r, m : d = v \div B /\ r = v % B /\ m = B * (v \div B)
  OBVIOUS
<1>7. d \in 0..B - 1 /\ r \in 0..B - 1
  BY <1>4, <1>5, <1>6
<1>8. m \in Nat
  <2>1. m = B * d /\ d \in Nat
    BY <1>5, <1>6
  <2>2. \A t \in Nat : B * t \in Nat
    OBVIOUS
  <2> QED
    BY <2>1, <2>2
<1>9. r + m = v
  BY <1>3, <1>5, <1>6, <1>7, <1>8
<1> QED
  BY <1>0, <1>3, <1>6, <1>7, <1>9 DEF Fits

LEMMA RowCarryIs ==
  ASSUME NEW n \in Nat, NEW B \in Nat, B > 0, NEW i \in 1..n,
         NEW c \in [1..2 * n -> 0..B - 1], NEW a \in [1..n -> 0..B - 1],
         NEW b \in [1..n -> 0..B - 1], NEW f, f = RowCarries(c, a, b, i, n, B)
  PROVE  RowCarry(f, c, a, b, i, n, B)
<1> DEFINE H(g) == g = [j \in 0..n |->
                         IF j = 0 THEN 0 ELSE (c[i + j - 1] + a[i] * b[j] + g[j - 1]) \div B]
<1>1. PICK T : T = 0..B - 1
  OBVIOUS
<1>2. ASSUME NEW j \in 1..n, NEW w \in T
      PROVE  (c[i + j - 1] + a[i] * b[j] + w) \div B \in T
  <2>1. PICK k : k = i + j - 1
    OBVIOUS
  <2>2. k \in 1..2 * n
    BY <2>1
  <2>3. PICK x, y, z : x = c[k] /\ y = a[i] /\ z = b[j]
    OBVIOUS
  <2>4. x \in 0..B - 1 /\ y \in 0..B - 1 /\ z \in 0..B - 1 /\ w \in 0..B - 1
    BY <1>1, <1>2, <2>2, <2>3
  <2>5. PICK v : v = x + y * z + w
    OBVIOUS
  <2>6. v \div B \in 0..B - 1
    <3>1. Fits(x, y, z, w, B)
      BY <2>4, ProductFits
    <3> QED
      BY <2>5, <3>1 DEF Fits
  <2> QED
    BY <1>1, <2>1, <2>3, <2>5, <2>6
<1>3. \E g : H(g)
  <2>1. PICK step : step = [q \in (1..n) \X T |->
                              (c[i + q[1] - 1] + a[i] * b[q[1]] + q[2]) \div B]
    OBVIOUS
  <2>2. ASSUME NEW j \in 1..n, NEW w \in T
        PROVE  step[<<j, w>>] = (c[i + j - 1] + a[i] * b[j] + w) \div B
    <3>1. <<j, w>> \in (1..n) \X T /\ <<j, w>>[1] = j /\ <<j, w>>[2] = w
      BY <2>2
    <3> QED
      BY <2>1, <3>1
  <2>3. step \in [(1..n) \X T -> T]
    <3> SUFFICES ASSUME NEW q \in (1..n) \X T
                 PROVE  (c[i + q[1] - 1] + a[i] * b[q[1]] + q[2]) \div B \in T
      BY <2>1
    <3>1. q[1] \in 1..n /\ q[2] \in T
      OBVIOUS
    <3> QED
      BY <1>2, <3>1
  <2>4. PICK zero : zero = 0
    OBVIOUS
  <2>5. zero \in T
    BY <1>1, <2>4
  <2>6. PICK g \in [0..n -> T] : Runs(g, zero, step, n)
    BY <2>3, <2>5, RunExists
  <2>7. ASSUME NEW j \in 0..n
        PROVE  g[j] = IF j = 0 THEN 0 ELSE (c[i + j - 1] + a[i] * b[j] + g[j - 1]) \div B
    <3>1. CASE j = 0
      BY <2>4, <2>6, <3>1 DEF Runs
    <3>2. CASE j # 0
      <4>1. j \in 1..n /\ j - 1 \in 0..n
        BY <3>2
      <4>2. PICK w : w = g[j - 1]
        OBVIOUS
      <4>3. w \in T
        BY <2>6, <4>1, <4>2
      <4>4. g[j] = step[<<j, w>>]
        BY <2>6, <4>1, <4>2 DEF Runs
      <4>5. step[<<j, w>>] = (c[i + j - 1] + a[i] * b[j] + w) \div B
        BY <2>2, <4>1, <4>3
      <4> QED
        BY <3>2, <4>2, <4>4, <4>5
    <3> QED
      BY <3>1, <3>2
  <2>8. g = [j \in 0..n |-> g[j]]
    BY <2>6
  <2> QED
    BY <2>7, <2>8
<1>4. H(f)
  <2>1. f = CHOOSE g : H(g)
    BY DEF RowCarries
  <2> HIDE DEF H
  <2> QED
    BY <1>3, <2>1
<1>5. /\ \A j \in 0..n : f[j] = IF j = 0 THEN 0 ELSE (c[i + j - 1] + a[i] * b[j] + f[j - 1]) \div B
      /\ f = [j \in 0..n |-> f[j]]
  BY <1>4
<1>6. f[0] = 0
  <2>1. 0 \in 0..n
    OBVIOUS
  <2> QED
    BY <1>5, <2>1, Zenon
<1>7. \A j \in 1..n : f[j] = (c[i + j - 1] + a[i] * b[j] + f[j - 1]) \div B
  <2>1. \A j \in 1..n : j \in 0..n /\ j # 0
    OBVIOUS
  <2> QED
    BY <1>5, <2>1
<1>8. PICK P : P = {j \in 0..n : f[j] \in T}
  OBVIOUS
<1>9. 0 \in P
  BY <1>1, <1>6, <1>8
<1>10. ASSUME NEW j \in 1..n, j - 1 \in P PROVE j \in P
  <2>1. PICK w : w = f[j - 1]
    OBVIOUS
  <2>2. w \in T
    BY <1>8, <1>10, <2>1
  <2>3. (c[i + j - 1] + a[i] * b[j] + w) \div B \in T
    BY <1>2, <2>2
  <2>4. f[j] = (c[i + j - 1] + a[i] * b[j] + w) \div B
    BY <1>7, <2>1, Zenon
  <2>5. f[j] \in T
    BY <2>3, <2>4, Zenon
  <2>6. j \in 0..n
    OBVIOUS
  <2> QED
    BY <1>8, <2>5, <2>6
<1>11. \A j \in 0..n : j \in P
  BY <1>9, <1>10, StepByStep
<1>12. f \in [0..n -> 0..B - 1]
  BY <1>1, <1>5, <1>8, <1>11
<1> QED
  BY <1>6, <1>7, <1>12 DEF RowCarry

\* Only the first digit is not zero.
LEMMA OnlyFirst ==
  ASSUME NEW B \in Nat, NEW n \in Nat, n > 0, NEW z \in [1..n -> Nat],
         \A i \in 1..n : i > 1 => z[i] = 0
  PROVE  Denotes(z, B) = z[1]
<1>1. PICK s \in [0..n -> Nat] : Sums(s, z, B, n)
  BY SumsExist
<1>2. PICK P : P = {k \in 0..n : k > 0 => s[k] = z[1]}
  OBVIOUS
<1>3. 0 \in P
  BY <1>2
<1>4. ASSUME NEW k \in 1..n, k - 1 \in P PROVE k \in P
  <2>1. PICK j, p : j = k - 1 /\ p = Power(B, j)
    OBVIOUS
  <2>2. j \in 0..n - 1 /\ j \in 0..n /\ j \in Nat /\ j + 1 = k
    BY <2>1
  <2>3. AddsUp(s, z, B, j) /\ p \in Nat
    BY <1>1, <2>1, <2>2, SumStep, PowerLaws
  <2>4. s[k] = s[j] + z[k] * p /\ s[j] \in Nat /\ z[k] \in Nat
    BY <2>1, <2>2, <2>3 DEF AddsUp
  <2>5. CASE j = 0
    <3>1. s[j] = 0
      BY <1>1, <2>5 DEF Sums
    <3>2. p = 1
      BY <2>1, <2>5, PowerLaws
    <3>3. k = 1
      BY <2>2, <2>5
    <3> QED
      BY <1>2, <2>2, <2>4, <3>1, <3>2, <3>3
  <2>6. CASE j > 0
    <3>1. s[j] = z[1] /\ z[k] = 0
      BY <1>2, <1>4, <2>1, <2>2, <2>6
    <3>2. 0 * p = 0
      BY <2>3
    <3>3. s[k] = z[1]
      BY <2>4, <3>1, <3>2
    <3> QED
      BY <1>2, <3>3
  <2> QED
    BY <2>2, <2>5, <2>6
<1>5. \A k \in 0..n : k \in P
  BY <1>3, <1>4, StepByStep
<1>6. s[n] = z[1]
  BY <1>2, <1>5
<1>7. Denotes(z, B) = s[n]
  BY <1>1, DenotesIs
<1> QED
  BY <1>6, <1>7, Zenon

\* What a row leaves, in the places below it, at it, and above it.
LEMMA RowAt ==
  ASSUME NEW c \in [1..2 * Length -> 0..Base - 1], NEW a \in Magnitudes, NEW b \in Magnitudes,
         NEW i \in 1..Length, NEW f, f = RowCarries(c, a, b, i, Length, Base), NEW d, d = Row(c, a, b, i)
  PROVE  /\ RowCarry(f, c, a, b, i, Length, Base) /\ d \in [1..2 * Length -> 0..Base - 1]
         /\ \A k \in 1..i - 1 : d[k] = c[k]
         /\ \A j \in 1..Length :
              d[i + j - 1] = (c[i + j - 1] + a[i] * b[j] + f[j - 1]) % Base
         /\ d[i + Length] = f[Length]
         /\ \A k \in 1..2 * Length : k > i + Length => d[k] = c[k]
<1>1. PICK n, B : n = Length /\ B = Base
  OBVIOUS
<1>2. n \in Nat /\ B \in Nat /\ B > 0
  BY <1>1, LengthIs, BaseIs
<1>3. c \in [1..2 * n -> 0..B - 1] /\ a \in [1..n -> 0..B - 1] /\ b \in [1..n -> 0..B - 1] /\ i \in 1..n
  BY <1>1 DEF Magnitudes, Indices
<1>4. RowCarry(f, c, a, b, i, n, B)
  <2>1. f = RowCarries(c, a, b, i, n, B)
    BY <1>1
  <2> QED
    BY <1>2, <1>3, <2>1, RowCarryIs
<1>5. PICK g : g = [k \in 1..2 * n |->
                     IF k \in i..i + n - 1 THEN (c[k] + a[i] * b[k - i + 1] + f[k - i]) % B
                     ELSE IF k = i + n THEN f[n] ELSE c[k]]
  OBVIOUS
<1>6. d = g
  <2>1. DOMAIN c = 1..2 * n
    BY <1>3
  <2>2. f = RowCarries(c, a, b, i, Length, Base)
    OBVIOUS
  <2> QED
    BY <1>1, <1>5, <2>1, <2>2 DEF Row, RowCarries
<1>7. \A k \in 1..i - 1 : g[k] = c[k]
  <2> SUFFICES ASSUME NEW k \in 1..i - 1 PROVE g[k] = c[k]
    OBVIOUS
  <2>1. k \in 1..2 * n /\ k \notin i..i + n - 1 /\ k # i + n
    BY <1>2, <1>3
  <2> QED
    BY <1>5, <2>1
<1>8. ASSUME NEW j \in 1..n
      PROVE  g[i + j - 1] = (c[i + j - 1] + a[i] * b[j] + f[j - 1]) % B
  <2>1. PICK k : k = i + j - 1
    OBVIOUS
  <2>2. k \in 1..2 * n /\ k \in i..i + n - 1 /\ k - i + 1 = j /\ k - i = j - 1
    BY <1>2, <1>3, <2>1
  <2>3. g[k] = (c[k] + a[i] * b[k - i + 1] + f[k - i]) % B
    BY <1>5, <2>2
  <2> QED
    BY <2>1, <2>2, <2>3
<1>9. g[i + n] = f[n]
  <2>1. i + n \in 1..2 * n /\ i + n \notin i..i + n - 1
    BY <1>2, <1>3
  <2> QED
    BY <1>5, <2>1
<1>10. ASSUME NEW k \in 1..2 * n, k > i + n PROVE g[k] = c[k]
  <2>1. k \notin i..i + n - 1 /\ k # i + n
    BY <1>2, <1>3, <1>10
  <2> QED
    BY <1>5, <2>1
<1>11. g \in [1..2 * n -> 0..B - 1]
  <2>1. ASSUME NEW k \in 1..2 * n PROVE g[k] \in 0..B - 1
    <3>1. CASE k \in i..i + n - 1
      <4>1. PICK j : j = k - i + 1
        OBVIOUS
      <4>2. j \in 1..n /\ i + j - 1 = k /\ j - 1 \in 0..n
        BY <1>2, <1>3, <3>1, <4>1
      <4>3. PICK x, y, z, w, v : x = c[k] /\ y = a[i] /\ z = b[j] /\ w = f[j - 1] /\ v = x + y * z + w
        OBVIOUS
      <4>4. w \in 0..B - 1
        BY <1>4, <4>2, <4>3 DEF RowCarry
      <4>5. x \in 0..B - 1 /\ y \in 0..B - 1 /\ z \in 0..B - 1
        BY <1>3, <4>2, <4>3
      <4>6. v % B \in 0..B - 1
        <5>1. Fits(x, y, z, w, B)
          BY <1>2, <4>4, <4>5, ProductFits
        <5> QED
          BY <4>3, <5>1 DEF Fits
      <4> QED
        BY <1>8, <4>2, <4>3, <4>6
    <3>2. CASE k = i + n
      <4>1. f[n] \in 0..B - 1
        <5>1. n \in 0..n
          BY <1>2
        <5> QED
          BY <1>4, <5>1 DEF RowCarry
      <4> QED
        BY <1>9, <3>2, <4>1
    <3>3. CASE k \notin i..i + n - 1 /\ k # i + n
      <4>1. g[k] = c[k]
        BY <1>5, <3>3
      <4> QED
        BY <1>3, <4>1
    <3> QED
      BY <3>1, <3>2, <3>3
  <2>2. g = [k \in 1..2 * n |-> g[k]]
    BY <1>5
  <2> QED
    BY <2>1, <2>2
<1> QED
  BY <1>1, <1>4, <1>6, <1>7, <1>8, <1>9, <1>10, <1>11

\* A row adds its multiple of the other number, at its place.
Reaches(c, k, n) == \A i \in 1..n : i > k => c[i] = 0

IsRow(d, c, x, b, f, m, i, n, N, B) ==
  /\ f[0] = 0 /\ d[i + n] = f[n]
  /\ \A k \in 1..m : d[k] = c[k]
  /\ \A j \in 1..n : /\ d[m + j] = (c[m + j] + x * b[j] + f[j - 1]) % B
                     /\ f[j] = (c[m + j] + x * b[j] + f[j - 1]) \div B
  /\ \A k \in 1..N : k > i + n => d[k] = c[k]

AtPlace(m, i, n, N) == m = i - 1 /\ N = 2 * n
Raises(d, c, x, m, b, B) ==
  Denotes(d, B) = Denotes(c, B) + x * (Power(B, m) * Denotes(b, B))

LEMMA RowAdds ==
  ASSUME NEW n \in Nat, NEW B \in Nat, B > 0, NEW i \in 1..n, NEW m \in Nat, NEW N \in Nat,
         AtPlace(m, i, n, N), NEW c \in [1..N -> 0..B - 1], Reaches(c, m + n, N), NEW d \in [1..N -> 0..B - 1],
         NEW x \in 0..B - 1, NEW b \in [1..n -> 0..B - 1], NEW f \in [0..n -> 0..B - 1],
         IsRow(d, c, x, b, f, m, i, n, N, B)
  PROVE  Raises(d, c, x, m, b, B) /\ Reaches(d, i + n, N)
<1>0. PICK h, M : h = n - m /\ M = n + h
  OBVIOUS
<1>1. /\ m \in Nat /\ h \in Nat /\ h > 0 /\ N \in Nat /\ M \in Nat /\ N = m + M /\ m + 1 = i
      /\ M = n + h
  BY <1>0 DEF AtPlace
<1>2. PICK e, c1, d1, c2, c3, d2, d3 :
        /\ e = [k \in 1..m |-> c[k]]
        /\ c1 = [k \in 1..M |-> c[m + k]] /\ d1 = [k \in 1..M |-> d[m + k]]
        /\ c2 = [k \in 1..n |-> c[m + k]] /\ d2 = [k \in 1..n |-> d[m + k]]
        /\ c3 = [k \in 1..h |-> c[m + n + k]] /\ d3 = [k \in 1..h |-> d[m + n + k]]
  OBVIOUS
<1>3. /\ c \in [1..N -> Nat] /\ d \in [1..N -> Nat] /\ b \in [1..n -> Nat] /\ f \in [0..n -> Nat]
      /\ x \in Nat
  <2>1. \A v \in 0..B - 1 : v \in Nat
    OBVIOUS
  <2>2. c \in [1..N -> Nat]
    BY <2>1
  <2>3. d \in [1..N -> Nat]
    BY <2>1
  <2>4. b \in [1..n -> Nat] /\ f \in [0..n -> Nat] /\ x \in Nat
    BY <2>1
  <2> QED
    BY <2>2, <2>3, <2>4
<1>4. /\ e \in [1..m -> Nat] /\ c1 \in [1..M -> Nat] /\ d1 \in [1..M -> Nat]
      /\ c2 \in [1..n -> Nat] /\ d2 \in [1..n -> Nat]
      /\ c3 \in [1..h -> Nat] /\ d3 \in [1..h -> Nat]
  <2>1. \A k \in 1..m : k \in 1..N
    BY <1>1
  <2>2. \A k \in 1..M : m + k \in 1..N
    BY <1>1
  <2>3. \A k \in 1..n : m + k \in 1..N
    BY <1>1
  <2>4. \A k \in 1..h : m + n + k \in 1..N
    BY <1>1
  <2>5. \A k \in 1..N : c[k] \in Nat /\ d[k] \in Nat
    BY <1>3
  <2>6. e \in [1..m -> Nat]
    BY <1>2, <2>1, <2>5
  <2>7. c1 \in [1..M -> Nat] /\ d1 \in [1..M -> Nat]
    BY <1>2, <2>2, <2>5
  <2>8. c2 \in [1..n -> Nat] /\ d2 \in [1..n -> Nat]
    BY <1>2, <2>3, <2>5
  <2>9. c3 \in [1..h -> Nat] /\ d3 \in [1..h -> Nat]
    BY <1>2, <2>4, <2>5
  <2> QED
    BY <2>6, <2>7, <2>8, <2>9
<1>5. Joined(c, N, e, m, c1, M) /\ Joined(d, N, e, m, d1, M)
  BY <1>1, <1>2 DEF Joined, IsRow
<1>6. Joined(c1, M, c2, n, c3, h) /\ Joined(d1, M, d2, n, d3, h)
  <2>1. \A k \in 1..n : k \in 1..M
    BY <1>1
  <2>2. \A k \in 1..h : n + k \in 1..M /\ m + (n + k) = m + n + k
    BY <1>1
  <2>3. \A k \in 1..n : c2[k] = c1[k] /\ d2[k] = d1[k]
    BY <1>2, <2>1
  <2>4. \A k \in 1..h : c3[k] = c1[n + k] /\ d3[k] = d1[n + k]
    BY <1>2, <2>2
  <2>5. M = n + h
    BY <1>1
  <2> QED
    BY ONLY <2>3, <2>4, <2>5 DEF Joined
<1>7. PICK y : y = [j \in 1..n |-> c2[j] + x * b[j]]
  OBVIOUS
<1>8. y \in [1..n -> Nat]
  <2> SUFFICES ASSUME NEW j \in 1..n PROVE c2[j] + x * b[j] \in Nat
    BY <1>7
  <2>1. PICK u, z : u = c2[j] /\ z = b[j]
    OBVIOUS
  <2>2. u \in Nat /\ z \in Nat
    BY <1>3, <1>4, <2>1
  <2>3. u + x * z \in Nat
    <3>1. \A s, t \in Nat : s * t \in Nat /\ s + t \in Nat
      OBVIOUS
    <3>2. x * z \in Nat
      BY <1>3, <2>2, <3>1
    <3> QED
      BY <2>2, <3>1, <3>2
  <2> QED
    BY <2>1, <2>3
<1>9. Carries(d2, y, f, B, n)
  <2>1. ASSUME NEW j \in 1..n PROVE d2[j] + B * f[j] = y[j] + f[j - 1]
    <3>1. PICK u, z, w, v : u = c[m + j] /\ z = b[j] /\ w = f[j - 1] /\ v = u + x * z + w
      OBVIOUS
    <3>2. m + j \in 1..N /\ j - 1 \in 0..n
      BY <1>1
    <3>3. u \in 0..B - 1 /\ z \in 0..B - 1 /\ w \in 0..B - 1
      BY <3>1, <3>2
    <3>4. (v % B) + B * (v \div B) = v
      <4>1. Fits(u, x, z, w, B)
        BY <3>3, ProductFits
      <4> QED
        BY <3>1, <4>1 DEF Fits
    <3>5. d2[j] = v % B /\ f[j] = v \div B
      BY <1>2, <3>1 DEF IsRow
    <3>6. y[j] + f[j - 1] = v
      BY <1>2, <1>7, <3>1
    <3> QED
      BY <3>4, <3>5, <3>6
  <2> QED
    BY <2>1 DEF Carries, IsRow
<1>10. PICK p, q, dc, dd, de, db, d11, c11, d22, c22, d33, dy :
         /\ p = Power(B, m) /\ q = Power(B, n) /\ dc = Denotes(c, B) /\ dd = Denotes(d, B)
         /\ de = Denotes(e, B) /\ db = Denotes(b, B) /\ d11 = Denotes(d1, B) /\ c11 = Denotes(c1, B)
         /\ d22 = Denotes(d2, B) /\ c22 = Denotes(c2, B) /\ d33 = Denotes(d3, B) /\ dy = Denotes(y, B)
  OBVIOUS
<1>11. d22 + f[n] * q = dy
  BY <1>3, <1>4, <1>8, <1>9, <1>10, CarriesAdd
<1>12. dy = c22 + x * db
  <2>1. Combined(y, c2, x, b, n)
    BY <1>7 DEF Combined
  <2>2. Combines(y, c2, x, b, B)
    BY <1>3, <1>4, <1>8, <2>1, DenotesCombined
  <2> QED
    BY <1>10, <2>2 DEF Combines
<1>13. d33 = f[n]
  <2>1. d3[1] = f[n] /\ 1 \in 1..h
    <3>1. 1 \in 1..h /\ m + n + 1 = i + n
      BY <1>1
    <3> QED
      BY <1>2, <3>1 DEF IsRow
  <2>2. \A k \in 1..h : k > 1 => d3[k] = 0
    <3> SUFFICES ASSUME NEW k \in 1..h, k > 1 PROVE d3[k] = 0
      OBVIOUS
    <3>1. m + n + k \in 1..N /\ m + n + k > i + n /\ m + n + k > m + n
      BY <1>1
    <3>2. d[m + n + k] = c[m + n + k]
      BY <3>1 DEF IsRow
    <3>3. c[m + n + k] = 0
      BY <3>1 DEF Reaches
    <3> QED
      BY <1>2, <3>2, <3>3
  <2>3. Denotes(d3, B) = d3[1]
    BY <1>1, <1>4, <2>2, OnlyFirst
  <2> QED
    BY <1>10, <2>1, <2>3
<1>14. Denotes(c3, B) = 0
  <2>1. \A k \in 1..h : c3[k] = 0
    <3> SUFFICES ASSUME NEW k \in 1..h PROVE c3[k] = 0
      OBVIOUS
    <3>1. m + n + k \in 1..N /\ m + n + k > m + n
      BY <1>1
    <3> QED
      BY <1>2, <3>1 DEF Reaches
  <2> QED
    BY <1>1, <1>4, <2>1, NothingIsZero
<1>15. dc = de + p * c11 /\ dd = de + p * d11
  <2>1. Splits(c, e, m, c1, B) /\ Splits(d, e, m, d1, B)
    BY <1>1, <1>3, <1>4, <1>5, DenotesSplit
  <2> QED
    BY <1>10, <2>1 DEF Splits
<1>16. c11 = c22 + q * 0 /\ d11 = d22 + q * d33
  <2>1. Splits(c1, c2, n, c3, B) /\ Splits(d1, d2, n, d3, B)
    BY <1>1, <1>4, <1>6, DenotesSplit
  <2> QED
    BY <1>10, <1>14, <2>1 DEF Splits
<1>17. p \in Nat /\ q \in Nat
  BY <1>1, <1>10, PowerLaws
<1>18. c22 \in Nat /\ d22 \in Nat /\ db \in Nat /\ de \in Nat
  <2>1. c2 \in [1..n -> 0..B - 1] /\ d2 \in [1..n -> 0..B - 1]
    <3>1. \A k \in 1..n : m + k \in 1..N
      BY <1>1
    <3> QED
      BY <1>2, <3>1
  <2>2. e \in [1..m -> 0..B - 1]
    <3>1. \A k \in 1..m : k \in 1..N
      BY <1>1
    <3> QED
      BY <1>2, <3>1
  <2>3. B \in Nat \ {0}
    OBVIOUS
  <2> QED
    BY <1>1, <1>10, <2>1, <2>2, <2>3, DenotesBelow
<1>19. dd = dc + x * (p * db)
  <2>1. PICK u : u = f[n]
    OBVIOUS
  <2>2. u \in Nat
    <3>1. n \in 0..n
      OBVIOUS
    <3> QED
      BY <1>3, <2>1, <3>1
  <2>3. q * u = u * q /\ u * q \in Nat /\ q * 0 = 0
    BY <1>17, <2>2
  <2>4. PICK t, w : t = x * db /\ w = u * q
    OBVIOUS
  <2>5. t \in Nat /\ w \in Nat
    BY <1>3, <1>18, <2>3, <2>4
  <2>6. d11 = c22 + t /\ c11 = c22
    BY <1>11, <1>12, <1>13, <1>16, <1>18, <2>1, <2>3, <2>4, <2>5
  <2>7. p * (c22 + t) = p * c22 + p * t /\ p * c22 \in Nat /\ p * t \in Nat
    BY <1>17, <1>18, <2>5
  <2>8. p * t = x * (p * db)
    BY <1>3, <1>17, <1>18, <2>4, TimesAssoc
  <2>9. PICK s1, s2 : s1 = p * c22 /\ s2 = p * t
    OBVIOUS
  <2>10. dd = de + (s1 + s2) /\ dc = de + s1
    BY <1>15, <2>6, <2>7, <2>9
  <2>11. dd = dc + s2
    BY <1>18, <2>7, <2>9, <2>10
  <2> QED
    BY <2>8, <2>9, <2>11
<1>20. Reaches(d, i + n, N)
  <2> SUFFICES ASSUME NEW k \in 1..N, k > i + n PROVE d[k] = 0
    BY DEF Reaches
  <2>1. d[k] = c[k] /\ k > m + n
    BY <1>1 DEF IsRow
  <2> QED
    BY <2>1 DEF Reaches
<1> QED
  BY <1>10, <1>19, <1>20 DEF Raises

\* All rows: the recursion of the definition.
Rows(g, a, b, n, N) ==
  g[0] = [k \in 1..N |-> 0] /\ \A i \in 1..n : g[i] = Row(g[i - 1], a, b, i)

LEMMA RowsExist ==
  ASSUME NEW a \in Magnitudes, NEW b \in Magnitudes
  PROVE  \E g \in [0..Length -> [1..2 * Length -> 0..Base - 1]] :
           Rows(g, a, b, Length, 2 * Length) /\ Multiplication(a, b) = g[Length]
<1>1. PICK n, T, zero : /\ n = Length /\ T = [1..2 * Length -> 0..Base - 1]
                        /\ zero = [k \in 1..2 * Length |-> 0]
  OBVIOUS
<1>2. n \in Nat
  BY <1>1, LengthIs
<1>3. zero \in T
  BY <1>1, BaseIs
<1>4. ASSUME NEW i \in 1..n, NEW c \in T PROVE Row(c, a, b, i) \in T
  <2>1. PICK d, f : d = Row(c, a, b, i) /\ f = RowCarries(c, a, b, i, Length, Base)
    OBVIOUS
  <2>2. i \in 1..Length /\ c \in [1..2 * Length -> 0..Base - 1]
    BY <1>1, <1>4
  <2>3. d \in [1..2 * Length -> 0..Base - 1]
    BY <2>1, <2>2, RowAt
  <2> QED
    BY <1>1, <2>1, <2>3
<1> DEFINE H(g) == g = [i \in 0..n |-> IF i = 0 THEN zero ELSE Row(g[i - 1], a, b, i)]
<1>5. \E g : H(g)
  <2>1. PICK step : step = [q \in (1..n) \X T |-> Row(q[2], a, b, q[1])]
    OBVIOUS
  <2>2. ASSUME NEW i \in 1..n, NEW c \in T PROVE step[<<i, c>>] = Row(c, a, b, i)
    <3>1. <<i, c>> \in (1..n) \X T /\ <<i, c>>[1] = i /\ <<i, c>>[2] = c
      BY <2>2
    <3> QED
      BY <2>1, <3>1
  <2>3. step \in [(1..n) \X T -> T]
    <3> SUFFICES ASSUME NEW q \in (1..n) \X T PROVE Row(q[2], a, b, q[1]) \in T
      BY <2>1
    <3>1. q[1] \in 1..n /\ q[2] \in T
      OBVIOUS
    <3> QED
      BY <1>4, <3>1
  <2>4. PICK g \in [0..n -> T] : Runs(g, zero, step, n)
    BY <1>2, <1>3, <2>3, RunExists
  <2>5. ASSUME NEW i \in 0..n PROVE g[i] = IF i = 0 THEN zero ELSE Row(g[i - 1], a, b, i)
    <3>1. CASE i = 0
      BY <2>4, <3>1 DEF Runs
    <3>2. CASE i # 0
      <4>1. i \in 1..n /\ i - 1 \in 0..n
        BY <1>2, <3>2
      <4>2. PICK c : c = g[i - 1]
        OBVIOUS
      <4>3. c \in T
        BY <2>4, <4>1, <4>2
      <4>4. g[i] = step[<<i, c>>]
        BY <2>4, <4>1, <4>2 DEF Runs
      <4>5. step[<<i, c>>] = Row(c, a, b, i)
        BY <2>2, <4>1, <4>3
      <4> QED
        BY <3>2, <4>2, <4>4, <4>5
    <3> QED
      BY <3>1, <3>2
  <2>6. g = [i \in 0..n |-> g[i]]
    BY <2>4
  <2> QED
    BY <2>5, <2>6
<1>6. PICK f : f = CHOOSE g : H(g)
  OBVIOUS
<1>7. Multiplication(a, b) = f[n]
  BY <1>1, <1>6 DEF Multiplication
<1>8. H(f)
  <2> HIDE DEF H
  <2> QED
    BY <1>5, <1>6
<1>9. /\ \A i \in 0..n : f[i] = IF i = 0 THEN zero ELSE Row(f[i - 1], a, b, i)
      /\ f = [i \in 0..n |-> f[i]]
  BY <1>8
<1>10. f[0] = zero
  <2>1. 0 \in 0..n
    BY <1>2
  <2> QED
    BY <1>9, <2>1, Zenon
<1>11. \A i \in 1..n : f[i] = Row(f[i - 1], a, b, i)
  <2>1. \A i \in 1..n : i \in 0..n /\ i # 0
    BY <1>2
  <2> QED
    BY <1>9, <2>1, Zenon
<1>12. PICK P : P = {i \in 0..n : f[i] \in T}
  OBVIOUS
<1>13. 0 \in P
  BY <1>2, <1>3, <1>10, <1>12
<1>14. ASSUME NEW i \in 1..n, i - 1 \in P PROVE i \in P
  <2>1. PICK c : c = f[i - 1]
    OBVIOUS
  <2>2. c \in T
    BY <1>12, <1>14, <2>1
  <2>3. f[i] = Row(c, a, b, i)
    BY <1>11, <2>1, Zenon
  <2>4. Row(c, a, b, i) \in T
    BY <1>4, <2>2
  <2>5. i \in 0..n /\ f[i] \in T
    BY <2>3, <2>4
  <2> QED
    BY <1>12, <2>5
<1>15. \A i \in 0..n : i \in P
  BY <1>2, <1>13, <1>14, StepByStep
<1>16. f \in [0..n -> T]
  BY <1>9, <1>12, <1>15
<1>17. Rows(f, a, b, n, 2 * n)
  BY <1>1, <1>10, <1>11 DEF Rows
<1> QED
  BY <1>1, <1>7, <1>16, <1>17

LEMMA MultiplicationIs ==
  ASSUME NEW a \in Magnitudes, NEW b \in Magnitudes
  PROVE  Denotes(Multiplication(a, b), Base) = Denotes(a, Base) * Denotes(b, Base)
<1>1. PICK n, B, N, db : n = Length /\ B = Base /\ N = 2 * Length /\ db = Denotes(b, Base)
  OBVIOUS
<1>2. n \in Nat /\ B \in Nat /\ B > 0 /\ N = 2 * n /\ N \in Nat
  BY <1>1, LengthIs, BaseIs
<1>3. a \in [1..n -> 0..B - 1] /\ b \in [1..n -> 0..B - 1] /\ a \in [1..n -> Nat]
  <2>1. a \in [1..n -> 0..B - 1] /\ b \in [1..n -> 0..B - 1]
    BY <1>1 DEF Magnitudes, Indices
  <2> QED
    BY <1>2, <2>1
<1>4. db \in Nat
  <2>1. B \in Nat \ {0}
    BY <1>2
  <2> QED
    BY <1>1, <1>2, <1>3, <2>1, DenotesBelow
<1>5. PICK T : T = [1..N -> 0..B - 1]
  OBVIOUS
<1>6. PICK g \in [0..n -> T] : Rows(g, a, b, n, N) /\ Multiplication(a, b) = g[n]
  BY <1>1, <1>5, RowsExist
<1>7. PICK s \in [0..n -> Nat] : Sums(s, a, B, n)
  BY <1>2, <1>3, SumsExist
<1>8. PICK P : P = {i \in 0..n : Reaches(g[i], i + n, N) /\ Denotes(g[i], B) = s[i] * db}
  OBVIOUS
<1>9. 0 \in P
  <2>1. PICK z : z = [k \in 1..N |-> 0]
    OBVIOUS
  <2>2. z \in [1..N -> Nat] /\ \A k \in 1..N : z[k] = 0
    BY <2>1
  <2>3. Denotes(z, B) = 0
    BY <1>2, <2>2, NothingIsZero
  <2>4. g[0] = z /\ s[0] = 0 /\ 0 \in 0..n
    BY <1>2, <1>6, <1>7, <2>1 DEF Rows, Sums
  <2>5. 0 * db = 0
    BY <1>4
  <2>6. Reaches(z, 0 + n, N)
    BY <2>2 DEF Reaches
  <2>7. Reaches(g[0], 0 + n, N) /\ Denotes(g[0], B) = s[0] * db
    BY <2>3, <2>4, <2>5, <2>6
  <2> QED
    BY <1>8, <2>4, <2>7
<1>10. ASSUME NEW i \in 1..n, i - 1 \in P PROVE i \in P
  <2>1. PICK m, x, c, d, f :
          /\ m = i - 1 /\ x = a[i] /\ c = g[m] /\ d = g[i]
          /\ f = RowCarries(c, a, b, i, n, B)
    OBVIOUS
  <2>2. m \in 0..n - 1 /\ m \in 0..n /\ m \in Nat /\ m + 1 = i /\ i \in 0..n
    BY <1>2, <2>1
  <2>3. c \in [1..N -> 0..B - 1] /\ d = Row(c, a, b, i) /\ x \in 0..B - 1
    BY <1>3, <1>5, <1>6, <2>1, <2>2 DEF Rows
  <2>4. Reaches(c, m + n, N) /\ Denotes(c, B) = s[m] * db
    BY <1>8, <1>10, <2>1
  <2>5. /\ RowCarry(f, c, a, b, i, n, B) /\ d \in [1..N -> 0..B - 1]
        /\ \A k \in 1..i - 1 : d[k] = c[k]
        /\ \A j \in 1..n : d[i + j - 1] = (c[i + j - 1] + a[i] * b[j] + f[j - 1]) % B
        /\ d[i + n] = f[n]
        /\ \A k \in 1..N : k > i + n => d[k] = c[k]
    <3>1. c \in [1..2 * Length -> 0..Base - 1] /\ i \in 1..Length /\ f = RowCarries(c, a, b, i, Length, Base)
      BY <1>1, <2>1, <2>3
    <3> QED
      BY <1>1, <2>3, <3>1, RowAt
  <2>6. IsRow(d, c, x, b, f, m, i, n, N, B)
    <3>1. f[0] = 0 /\ \A j \in 1..n : f[j] = (c[i + j - 1] + a[i] * b[j] + f[j - 1]) \div B
      BY <2>5 DEF RowCarry
    <3>2. \A j \in 1..n : i + j - 1 = m + j
      BY <2>1, <2>2
    <3> QED
      BY <2>1, <2>5, <3>1, <3>2 DEF IsRow
  <2>7. f \in [0..n -> 0..B - 1]
    BY <2>5 DEF RowCarry
  <2>8. PICK p : p = Power(B, m)
    OBVIOUS
  <2>9. Denotes(d, B) = Denotes(c, B) + x * (p * db) /\ Reaches(d, i + n, N)
    <3>1. AtPlace(m, i, n, N)
      BY <1>2, <2>1 DEF AtPlace
    <3>2. Raises(d, c, x, m, b, B) /\ Reaches(d, i + n, N)
      BY <1>2, <1>3, <2>2, <2>3, <2>4, <2>5, <2>6, <2>7, <3>1, RowAdds
    <3> QED
      BY <1>1, <2>8, <3>2 DEF Raises
  <2>10. s[i] = s[m] + x * p /\ s[m] \in Nat /\ p \in Nat
    <3>1. AddsUp(s, a, B, m) /\ p \in Nat
      BY <1>2, <1>3, <1>7, <2>2, <2>8, SumStep, PowerLaws
    <3> QED
      BY <2>1, <2>2, <2>8, <3>1 DEF AddsUp
  <2>11. (s[m] + x * p) * db = s[m] * db + x * (p * db)
    <3>1. PICK u, v : u = s[m] /\ v = x * p
      OBVIOUS
    <3>2. x \in Nat
      BY <1>2, <2>3
    <3>3. v \in Nat /\ v * db = x * (p * db)
      BY <1>4, <2>10, <3>1, <3>2, TimesAssoc
    <3>4. (u + v) * db = u * db + v * db
      BY <1>4, <2>10, <3>1, <3>3, PlusTimes
    <3> QED
      BY <3>1, <3>3, <3>4
  <2>12. Denotes(d, B) = s[i] * db
    BY <2>4, <2>9, <2>10, <2>11
  <2> QED
    BY <1>8, <2>1, <2>2, <2>9, <2>12
<1>11. \A i \in 0..n : i \in P
  BY <1>2, <1>9, <1>10, StepByStep
<1>12. n \in 0..n
  BY <1>2
<1>13. Denotes(g[n], B) = s[n] * db
  BY <1>8, <1>11, <1>12
<1>14. Denotes(a, B) = s[n]
  BY <1>2, <1>3, <1>7, DenotesIs
<1> QED
  BY <1>1, <1>6, <1>13, <1>14

-----------------------------------------------------------------------------
(* Text: a digit of the store as a group of digits of the text.            *)

\* The digits of a number.
Digit(d, b, i) == (d \div Power(b, i - 1)) % b

LEMMA DigitIs ==
  ASSUME NEW d \in Nat, NEW b \in Nat \ {0}, NEW i \in Nat \ {0}
  PROVE  /\ Digit(d, b, i) \in 0..b - 1 /\ Digit(d, b, i) \in Nat
         /\ d < Power(b, i - 1) => Digit(d, b, i) = 0
<1>1. PICK j, p, q : j = i - 1 /\ p = Power(b, j) /\ q = d \div p
  OBVIOUS
<1>2. j \in Nat
  BY <1>1
<1>3. p \in Nat /\ p > 0
  BY <1>1, <1>2, PowerPositive
<1>4. q \in Nat
  BY <1>1, <1>3, DivMod
<1>5. b \in Nat /\ b > 0
  OBVIOUS
<1>6. q % b \in 0..(b - 1)
  BY <1>4, <1>5, DivMod
<1>7. ASSUME d < p PROVE q % b = 0
  <2>1. PICK z : z = 0
    OBVIOUS
  <2>2. z \in Nat /\ z \in 0..b - 1 /\ d \in 0..p - 1 /\ d = p * z + d
    BY <1>3, <1>5, <1>7, <2>1
  <2>3. q = z
    BY <1>1, <1>3, <2>2, QuotientIs
  <2>4. z = b * z + z
    BY <1>5, <2>1
  <2>5. z % b = z
    BY <1>5, <2>2, <2>4, QuotientIs
  <2> QED
    BY <2>1, <2>3, <2>5
<1>8. Digit(d, b, i) = q % b
  BY <1>1 DEF Digit
<1> QED
  BY <1>1, <1>6, <1>7, <1>8

\* They stand for the number, if they are enough.
LEMMA DigitsStandFor ==
  ASSUME NEW b \in Nat \ {0}, NEW n \in Nat, NEW d \in Nat, d < Power(b, n),
         NEW e, e = [i \in 1..n |-> Digit(d, b, i)]
  PROVE  e \in [1..n -> 0..b - 1] /\ Denotes(e, b) = d
<1>0. b \in Nat /\ b > 0
  OBVIOUS
<1>1. e \in [1..n -> 0..b - 1] /\ e \in [1..n -> Nat]
  <2>1. \A i \in 1..n : i \in Nat \ {0}
    OBVIOUS
  <2>2. \A i \in 1..n : Digit(d, b, i) \in 0..b - 1 /\ Digit(d, b, i) \in Nat
    BY <2>1, DigitIs
  <2> QED
    BY <2>2
<1>2. PICK s \in [0..n -> Nat] : Sums(s, e, b, n)
  BY <1>0, <1>1, SumsExist
<1>3. \A k \in 0..n : s[k] < Power(b, k)
  BY <1>1, <1>2, SumsBelow
<1>4. PICK P : P = {k \in 0..n : d = Power(b, k) * (d \div Power(b, k)) + s[k]}
  OBVIOUS
<1>5. 0 \in P
  <2>1. PICK p, z : p = Power(b, 0) /\ z = 0
    OBVIOUS
  <2>2. p = 1 /\ s[0] = 0 /\ 0 \in 0..n
    BY <1>0, <1>2, <2>1, PowerLaws DEF Sums
  <2>3. p \in Nat /\ p > 0 /\ z \in 0..p - 1 /\ z \in Nat /\ d = p * d + z
    BY <2>1, <2>2
  <2>4. d \div p = d
    BY <2>3, QuotientIs
  <2>5. d = p * (d \div p) + s[0]
    BY <2>1, <2>2, <2>3, <2>4
  <2> QED
    BY <1>4, <2>1, <2>2, <2>5
<1>6. ASSUME NEW k \in 1..n, k - 1 \in P PROVE k \in P
  <2>1. PICK j, p, q : j = k - 1 /\ p = Power(b, j) /\ q = d \div p
    OBVIOUS
  <2>2. j \in 0..n - 1 /\ j \in 0..n /\ j \in Nat /\ j + 1 = k /\ k \in 0..n
    BY <2>1
  <2>3. p \in Nat /\ p > 0 /\ Power(b, k) = b * p
    <3>1. Power(b, j) \in Nat \ {0}
      BY <2>2, PowerPositive
    <3>2. Power(b, j + 1) = b * Power(b, j)
      BY <1>0, <2>2, PowerLaws
    <3> QED
      BY <2>1, <2>2, <3>1, <3>2
  <2>4. q \in Nat
    BY <2>1, <2>3, DivMod
  <2>5. PICK r, h : r = q % b /\ h = q \div b
    OBVIOUS
  <2>6. r \in 0..(b - 1) /\ h \in Nat /\ q = b * h + r
    BY <1>0, <2>4, <2>5, DivMod
  <2>7. s[k] = s[j] + r * p /\ s[j] \in Nat /\ s[k] \in Nat
    <3>1. AddsUp(s, e, b, j)
      BY <1>0, <1>1, <1>2, <2>2, SumStep
    <3>2. e[k] = r
      BY <2>1, <2>2, <2>5 DEF Digit
    <3> QED
      BY <2>1, <2>2, <3>1, <3>2 DEF AddsUp
  <2>8. d = p * q + s[j]
    BY <1>4, <1>6, <2>1
  <2>9. PICK c : c = b * p
    OBVIOUS
  <2>10. c \in Nat /\ c > 0
    <3>1. \A x, y \in Nat : x > 0 /\ y > 0 => x * y \in Nat /\ x * y > 0
      OBVIOUS
    <3> QED
      BY <1>0, <2>3, <2>9, <3>1
  <2>11. p * q = c * h + r * p
    <3>1. p * (b * h + r) = p * (b * h) + p * r
      <4>1. PICK t : t = b * h
        OBVIOUS
      <4>2. t \in Nat /\ r \in Nat
        BY <1>0, <2>6, <4>1
      <4>3. p * (t + r) = p * t + p * r
        BY <2>3, <4>2
      <4> QED
        BY <4>1, <4>3
    <3>2. p * (b * h) = (p * b) * h /\ p * b = b * p
      BY <1>0, <2>3, <2>6, TimesAssoc
    <3>3. p * r = r * p
      BY <2>3, <2>6, TimesAssoc
    <3> QED
      BY <2>6, <2>9, <3>1, <3>2, <3>3
  <2>12. PICK u, v : u = c * h /\ v = r * p
    OBVIOUS
  <2>13. u \in Nat /\ v \in Nat
    <3>1. \A x, y \in Nat : x * y \in Nat
      OBVIOUS
    <3>2. r \in Nat
      BY <2>6
    <3> QED
      BY <2>3, <2>6, <2>10, <2>12, <3>1, <3>2
  <2>14. d = u + s[k]
    <3>1. PICK w, s1, s2 : w = p * q /\ s1 = s[j] /\ s2 = s[k]
      OBVIOUS
    <3>2. d = w + s1 /\ w = u + v /\ s2 = s1 + v /\ s1 \in Nat
      BY <2>7, <2>8, <2>11, <2>12, <3>1
    <3>3. d = u + s2
      BY <2>13, <3>2
    <3> QED
      BY <3>1, <3>3
  <2>15. s[k] \in 0..c - 1
    BY <1>3, <2>2, <2>3, <2>7, <2>9, <2>10
  <2>16. d = c * h + s[k]
    BY <2>12, <2>14
  <2>17. d \div c = h
    BY <2>6, <2>10, <2>15, <2>16, QuotientIs
  <2> QED
    BY <1>4, <2>2, <2>3, <2>9, <2>16, <2>17
<1>7. \A k \in 0..n : k \in P
  BY <1>5, <1>6, StepByStep
<1>8. d \div Power(b, n) = 0
  <2>1. PICK p, z : p = Power(b, n) /\ z = 0
    OBVIOUS
  <2>2. p \in Nat /\ p > 0
    BY <2>1, PowerPositive
  <2>3. d \in 0..p - 1 /\ z \in Nat /\ d = p * z + d
    BY <2>1, <2>2
  <2>4. d \div p = z
    BY <2>2, <2>3, QuotientIs
  <2> QED
    BY <2>1, <2>4
<1>9. d = s[n]
  <2>1. PICK p : p = Power(b, n)
    OBVIOUS
  <2>2. p \in Nat /\ n \in 0..n
    BY <1>0, <2>1, PowerLaws
  <2>3. d = p * 0 + s[n] /\ s[n] \in Nat
    BY <1>2, <1>4, <1>7, <1>8, <2>1, <2>2
  <2> QED
    BY <2>2, <2>3
<1>10. Denotes(e, b) = s[n]
  BY <1>0, <1>1, <1>2, DenotesIs
<1> QED
  BY <1>1, <1>9, <1>10

\* The least of a set of places.
LEMMA LowestOf ==
  ASSUME NEW n \in Nat, NEW S \in SUBSET (1..n), S # {}
  PROVE  Min(S) \in S /\ \A x \in S : Min(S) <= x
<1>2. PICK x \in S : \A y \in S : x <= y
  <2>1. PICK Q : Q = {k \in 0..n : (\E x \in S : x <= k) => \E x \in S : \A y \in S : x <= y}
    OBVIOUS
  <2>2. 0 \in Q
    BY <2>1
  <2>3. ASSUME NEW k \in 1..n, k - 1 \in Q PROVE k \in Q
    <3>1. CASE \E x \in S : x <= k - 1
      BY <2>1, <2>3, <3>1
    <3>2. CASE ~ \E x \in S : x <= k - 1
      <4>1. \A x \in S : x <= k => x = k
        BY <3>2
      <4>2. \A x \in S : k <= x
        BY <3>2
      <4> QED
        BY <2>1, <4>1, <4>2
    <3> QED
      BY <3>1, <3>2
  <2>4. \A k \in 0..n : k \in Q
    BY <2>2, <2>3, StepByStep
  <2>5. n \in Q /\ \A x \in S : x <= n
    BY <2>4
  <2> QED
    BY <2>1, <2>5
<1>3. \E m \in S : \A y \in S : m <= y
  BY <1>2
<1> QED
  BY <1>3 DEF Min

LEMMA WidthIs ==
  ASSUME NEW d \in 0..Base - 1
  PROVE  Width(d) \in 1..Group /\ d < Power(IoBase, Width(d))
<1>1. IoBase \in Nat /\ Group \in Nat \ {0}
  BY DigitAssumption
<1>2. PICK S : S = {n \in 1..Group : d < Power(IoBase, n)}
  OBVIOUS
<1>3. Group \in S
  <2>1. Base \in Nat
    BY BaseIs
  <2>2. d < Base
    BY <2>1
  <2> QED
    BY <1>1, <1>2, <2>2 DEF Base
<1>4. S \in SUBSET (1..Group) /\ S # {}
  BY <1>2, <1>3
<1>5. Min(S) \in S
  BY <1>1, <1>4, LowestOf
<1>6. Width(d) = Min(S)
  BY <1>2 DEF Width
<1> QED
  BY <1>2, <1>5, <1>6

-----------------------------------------------------------------------------
(* Text: what is printed.                                                  *)

\* The digits of a text from its end, each group one of the store.
Prints(ds, digits, top, w) ==
  /\ ds \in Seq(0..IoBase - 1) /\ Len(ds) = w + (top - 1) * Group
  /\ \A k \in 1..top, t \in 1..Group :
       (k - 1) * Group + t <= Len(ds) =>
         ds[Len(ds) + 1 - (k - 1) * Group - t] = Digit(digits[k], IoBase, t)

Joins(e, s, t, S) ==
  /\ e \in Seq(S) /\ Len(e) = Len(s) + Len(t)
  /\ \A q \in 1..Len(s) : e[q] = s[q]
  /\ \A q \in 1..Len(t) : e[Len(s) + q] = t[q]

LEMMA ConcatIs ==
  ASSUME NEW S, NEW s \in Seq(S), NEW t \in Seq(S)
  PROVE  Joins(s \o t, s, t, S)
BY DEF Joins

\* A group in full.
LEMMA GroupIs ==
  ASSUME NEW d \in 0..Base - 1, NEW filling \in BOOLEAN, NEW g, g = GroupText(d, filling)
  PROVE  /\ g \in Seq(0..IoBase - 1) /\ Len(g) = IF filling THEN Group ELSE Width(d)
         /\ \A t \in 1..Len(g) : g[Len(g) + 1 - t] = Digit(d, IoBase, t)
<1>1. PICK n : n = IF filling THEN Group ELSE Width(d)
  OBVIOUS
<1>2. n \in Nat /\ IoBase \in Nat \ {0} /\ d \in Nat
  <2>1. Group \in Nat /\ IoBase \in Nat \ {0}
    BY DigitAssumption
  <2>2. Width(d) \in 1..Group
    BY WidthIs
  <2>3. Base \in Nat
    BY BaseIs
  <2> QED
    BY <1>1, <2>1, <2>2, <2>3
<1>3. g = [i \in 1..n |-> (d \div Power(IoBase, n - i)) % IoBase]
  BY <1>1 DEF GroupText
<1>4. ASSUME NEW i \in 1..n
      PROVE  /\ (d \div Power(IoBase, n - i)) % IoBase = Digit(d, IoBase, n + 1 - i)
             /\ Digit(d, IoBase, n + 1 - i) \in 0..IoBase - 1
  <2>1. PICK t : t = n + 1 - i
    OBVIOUS
  <2>2. t \in Nat \ {0} /\ t - 1 = n - i
    BY <1>2, <2>1
  <2>3. Digit(d, IoBase, t) \in 0..IoBase - 1
    BY <1>2, <2>2, DigitIs
  <2> QED
    BY <2>1, <2>2, <2>3 DEF Digit
<1>5. g \in [1..n -> 0..IoBase - 1]
  BY <1>3, <1>4
<1>6. g \in Seq(0..IoBase - 1) /\ Len(g) = n
  BY <1>2, <1>5
<1>7. ASSUME NEW t \in 1..n PROVE g[n + 1 - t] = Digit(d, IoBase, t)
  <2>1. PICK i : i = n + 1 - t
    OBVIOUS
  <2>2. i \in 1..n /\ n + 1 - i = t
    BY <1>2, <2>1
  <2> QED
    BY <1>3, <1>4, <2>1, <2>2
<1> QED
  BY <1>1, <1>6, <1>7

\* One group more, in front of those before.
LEMMA PrintsMore ==
  ASSUME NEW digits \in Magnitudes, NEW i \in Nat \ {0}, NEW w \in Nat, NEW ds, NEW below,
         NEW h \in Nat \ {0}, Prints(ds, [k \in 1..i |-> digits[h + k]], i, w), h + i <= Length,
         NEW g, g = GroupText(digits[h], TRUE),
         below = [k \in 1..i + 1 |-> digits[h - 1 + k]]
  PROVE  Prints(ds \o g, below, i + 1, w)
<1>1. PICK S, G, b : S = 0..IoBase - 1 /\ G = Group /\ b = IoBase
  OBVIOUS
<1>2. G \in Nat /\ G > 0 /\ Length \in Nat
  BY <1>1, DigitAssumption, LengthIs
<1>3. digits[h] \in 0..Base - 1
  BY <1>2 DEF Magnitudes, Indices
<1>4. PICK d : d = digits[h]
  OBVIOUS
<1>5. /\ g \in Seq(S) /\ Len(g) = G
      /\ \A t \in 1..G : g[G + 1 - t] = Digit(d, b, t)
  <2>1. PICK filling : filling = TRUE
    OBVIOUS
  <2>2. filling \in BOOLEAN /\ g = GroupText(d, filling) /\ d \in 0..Base - 1
    BY <1>3, <1>4, <2>1
  <2>3. /\ g \in Seq(0..IoBase - 1) /\ Len(g) = IF filling THEN Group ELSE Width(d)
        /\ \A t \in 1..Len(g) : g[Len(g) + 1 - t] = Digit(d, IoBase, t)
    BY <2>2, GroupIs
  <2> QED
    BY <1>1, <2>1, <2>3
<1>6. PICK upper, l : upper = [k \in 1..i |-> digits[h + k]] /\ l = Len(ds)
  OBVIOUS
<1>7. /\ ds \in Seq(S) /\ l = w + (i - 1) * G
      /\ \A k \in 1..i, t \in 1..G :
           (k - 1) * G + t <= l => ds[l + 1 - (k - 1) * G - t] = Digit(upper[k], b, t)
  BY <1>1, <1>6 DEF Prints
<1>8. PICK e, L : e = ds \o g /\ L = Len(e)
  OBVIOUS
<1>9. /\ e \in Seq(S) /\ L = l + G /\ l \in Nat
      /\ \A q \in 1..l : e[q] = ds[q]
      /\ \A q \in 1..G : e[l + q] = g[q]
  <2>1. Joins(ds \o g, ds, g, S)
    BY <1>5, <1>7, ConcatIs
  <2>2. Len(ds) \in Nat
    BY <1>7
  <2>3. Joins(e, ds, g, S)
    BY <1>8, <2>1
  <2>4. e \in Seq(S) /\ L = l + G /\ l \in Nat
    BY <1>5, <1>6, <1>8, <2>2, <2>3 DEF Joins
  <2>5. \A q \in 1..l : e[q] = ds[q]
    BY <1>6, <2>3 DEF Joins
  <2>6. \A q \in 1..G : e[l + q] = g[q]
    BY <1>5, <1>6, <2>3 DEF Joins
  <2> QED
    BY <2>4, <2>5, <2>6
<1>10. L = w + (i + 1 - 1) * G
  <2>1. PICK j, n : j = i - 1 /\ n = j * G
    OBVIOUS
  <2>2. j \in Nat /\ j + 1 = i
    BY <2>1
  <2>3. (j + 1) * G = j * G + G /\ j * G \in Nat
    BY <1>2, <2>2
  <2>4. i * G = n + G /\ n \in Nat
    BY <2>1, <2>2, <2>3
  <2>5. l = w + n
    BY <1>7, <2>1
  <2>6. i + 1 - 1 = i
    OBVIOUS
  <2> QED
    BY <1>2, <1>9, <2>4, <2>5, <2>6
<1>11. ASSUME NEW k \in 1..i + 1, NEW t \in 1..G, (k - 1) * G + t <= L
       PROVE  e[L + 1 - (k - 1) * G - t] = Digit(below[k], b, t)
  <2>1. below[k] = digits[h - 1 + k]
    OBVIOUS
  <2>2. CASE k = 1
    <3>1. (k - 1) * G = 0 /\ h - 1 + k = h
      BY <1>2, <2>2
    <3>2. PICK q : q = G + 1 - t
      OBVIOUS
    <3>3. q \in 1..G
      BY <1>2, <3>2
    <3>4. L + 1 - 0 - t = l + q
      BY <1>2, <1>9, <3>2
    <3>5. e[l + q] = Digit(d, b, t)
      BY <1>5, <1>9, <3>2, <3>3
    <3> QED
      BY <1>4, <2>1, <3>1, <3>4, <3>5
  <2>3. CASE k # 1
    <3>1. PICK j, n : j = k - 1 /\ n = (j - 1) * G
      OBVIOUS
    <3>2. j \in 1..i /\ j \in Nat /\ h + j = h - 1 + k
      BY <2>3, <3>1
    <3>3. (k - 1) * G = n + G /\ n \in Nat
      <4>1. PICK m : m = j - 1
        OBVIOUS
      <4>2. m \in Nat /\ j = m + 1
        BY <3>2, <4>1
      <4>3. (m + 1) * G = m * G + G /\ m * G \in Nat
        BY <1>2, <4>2
      <4> QED
        BY <3>1, <4>1, <4>2, <4>3
    <3>4. n + t <= l
      BY <1>2, <1>9, <1>11, <3>3
    <3>5. PICK q : q = l + 1 - n - t
      OBVIOUS
    <3>6. ds[q] = Digit(upper[j], b, t)
      BY <1>7, <3>1, <3>2, <3>4, <3>5
    <3>7. q \in 1..l /\ L + 1 - (n + G) - t = q
      BY <1>2, <1>9, <3>3, <3>4, <3>5
    <3>8. upper[j] = digits[h + j]
      BY <1>6, <3>2
    <3>9. e[q] = Digit(digits[h + j], b, t)
      BY <1>9, <3>6, <3>7, <3>8
    <3> QED
      BY <2>1, <3>2, <3>3, <3>7, <3>9
  <2> QED
    BY <2>2, <2>3
<1>12. e \in Seq(0..IoBase - 1) /\ Len(e) = w + (i + 1 - 1) * Group
  BY <1>1, <1>8, <1>9, <1>10
<1>13. \A k \in 1..i + 1, t \in 1..Group :
         (k - 1) * Group + t <= Len(e) =>
           e[Len(e) + 1 - (k - 1) * Group - t] = Digit(below[k], IoBase, t)
  BY ONLY <1>1, <1>8, <1>11
<1>14. Prints(e, below, i + 1, w)
  BY ONLY <1>12, <1>13 DEF Prints
<1> QED
  BY <1>8, <1>14

LEMMA PrintedIs ==
  ASSUME NEW digits \in Magnitudes, NEW top \in Indices, digits[top] # 0,
         NEW seqs, seqs = [k \in 1..top |-> GroupText(digits[top + 1 - k], k > 1)]
  PROVE  Prints(FlattenSeq(seqs), digits, top, Width(digits[top]))
<1>1. PICK S, w : S = 0..IoBase - 1 /\ w = Width(digits[top])
  OBVIOUS
<1>2. top \in Nat \ {0} /\ Length \in Nat /\ top <= Length
  BY LengthIs DEF Indices
<1>3. \A k \in 1..Length : digits[k] \in 0..Base - 1
  BY DEF Magnitudes, Indices
<1>4. ASSUME NEW k \in 1..top PROVE seqs[k] = GroupText(digits[top + 1 - k], k > 1) /\ seqs[k] \in Seq(S)
  <2>1. PICK h, filling, g : h = top + 1 - k /\ filling = (k > 1) /\ g = GroupText(digits[h], filling)
    OBVIOUS
  <2>2. h \in 1..Length /\ filling \in BOOLEAN
    BY <1>2, <2>1
  <2>3. PICK d : d = digits[h]
    OBVIOUS
  <2>4. d \in 0..Base - 1 /\ g = GroupText(d, filling)
    BY <1>3, <2>1, <2>2, <2>3
  <2>5. g \in Seq(0..IoBase - 1)
    BY <2>2, <2>4, GroupIs
  <2> QED
    BY <1>1, <2>1, <2>5
<1>5. seqs \in [1..top -> Seq(S)]
  BY <1>4
<1>6. PICK f \in [0..top -> Seq(S)] :
        /\ f[0] = <<>> /\ \A i \in 1..top : f[i] = f[i - 1] \o seqs[i]
        /\ FlattenSeq(seqs) = f[top]
  <2>1. seqs \in Seq(Seq(S)) /\ Len(seqs) = top
    BY <1>2, <1>5
  <2>2. PICK f \in [0..top -> Seq(S)] : Flattens(f, seqs, top)
    BY <1>2, <2>1, FlattenRuns
  <2> QED
    BY <2>2 DEF Flattens
<1>7. PICK P : P = {i \in 0..top : i # 0 => Prints(f[i], [k \in 1..i |-> digits[top - i + k]], i, w)}
  OBVIOUS
<1>8. 0 \in P
  BY <1>2, <1>7
<1>9. ASSUME NEW i \in 1..top, i - 1 \in P PROVE i \in P
  <2>1. CASE i = 1
    <3>1. 1 \in 1..top /\ top + 1 - 1 = top /\ 1 - 1 = 0
      BY <1>2
    <3>2. PICK g, d, filling : g = seqs[1] /\ d = digits[top] /\ filling = FALSE
      OBVIOUS
    <3>3. g = GroupText(d, filling)
      <4>1. seqs[1] = GroupText(digits[top + 1 - 1], 1 > 1)
        BY <1>4, <3>1
      <4>2. (1 > 1) = FALSE
        OBVIOUS
      <4> QED
        BY <3>1, <3>2, <4>1, <4>2
    <3>4. d \in 0..Base - 1 /\ filling \in BOOLEAN
      <4>1. top \in 1..Length
        BY <1>2
      <4>2. digits[top] \in 0..Base - 1
        BY <1>3, <4>1
      <4> QED
        BY <3>2, <4>2
    <3>5. /\ g \in Seq(0..IoBase - 1) /\ Len(g) = w
          /\ \A t \in 1..Len(g) : g[Len(g) + 1 - t] = Digit(d, IoBase, t)
      <4>1. /\ g \in Seq(0..IoBase - 1) /\ Len(g) = IF filling THEN Group ELSE Width(d)
            /\ \A t \in 1..Len(g) : g[Len(g) + 1 - t] = Digit(d, IoBase, t)
        BY <3>3, <3>4, GroupIs
      <4> QED
        BY <1>1, <3>2, <4>1
    <3>6. f[1] = g
      <4>1. f[1] = f[1 - 1] \o seqs[1]
        BY <1>6, <3>1
      <4>2. <<>> \o g = g
        BY <3>5
      <4> QED
        BY <1>6, <3>1, <3>2, <4>1, <4>2
    <3>7. PICK one : one = [k \in 1..1 |-> digits[top - 1 + k]]
      OBVIOUS
    <3>8. one[1] = d
      <4>1. 1 \in 1..1 /\ top - 1 + 1 = top
        BY <1>2
      <4> QED
        BY <3>2, <3>7, <4>1
    <3>9. Group \in Nat /\ w \in Nat
      <4>1. Width(d) \in 1..Group /\ Group \in Nat
        BY <3>4, WidthIs, DigitAssumption
      <4> QED
        BY <1>1, <3>2, <4>1
    <3>10. (1 - 1) * Group = 0
      BY <3>9
    <3>11. Prints(g, one, 1, w)
      <4>1. \A k \in 1..1 : k = 1
        OBVIOUS
      <4>2. ASSUME NEW t \in 1..Group, (1 - 1) * Group + t <= Len(g)
            PROVE  g[Len(g) + 1 - (1 - 1) * Group - t] = Digit(one[1], IoBase, t)
        <5>1. t \in 1..Len(g) /\ Len(g) + 1 - 0 - t = Len(g) + 1 - t
          BY <3>5, <3>9, <3>10, <4>2
        <5> QED
          BY <3>5, <3>8, <3>10, <5>1
      <4>3. Len(g) = w + (1 - 1) * Group
        BY <3>5, <3>9, <3>10
      <4> QED
        BY <3>5, <4>1, <4>2, <4>3 DEF Prints
    <3> QED
      BY <1>2, <1>7, <2>1, <3>6, <3>7, <3>11
  <2>2. CASE i # 1
    <3>1. PICK j, h, ds, g : j = i - 1 /\ h = top - j /\ ds = f[j] /\ g = seqs[i]
      OBVIOUS
    <3>2. /\ j \in Nat \ {0} /\ j \in 0..top /\ h \in Nat \ {0} /\ h \in 1..Length /\ h + j <= Length
          /\ j + 1 = i /\ top + 1 - i = h /\ h - 1 = top - i
      BY <1>2, <2>2, <3>1
    <3>3. Prints(ds, [k \in 1..j |-> digits[h + k]], j, w)
      BY <1>7, <1>9, <3>1, <3>2
    <3>4. g = GroupText(digits[h], TRUE)
      <4>1. (i > 1) = TRUE
        BY <2>2
      <4> QED
        BY <1>4, <3>1, <3>2, <4>1
    <3>5. PICK below : below = [k \in 1..j + 1 |-> digits[h - 1 + k]]
      OBVIOUS
    <3>6. w \in Nat
      <4>1. digits[top] \in 0..Base - 1
        BY <1>2, <1>3
      <4>2. Width(digits[top]) \in 1..Group /\ Group \in Nat
        BY <4>1, WidthIs, DigitAssumption
      <4> QED
        BY <1>1, <4>2
    <3>7. Prints(ds \o g, below, j + 1, w)
      BY <3>2, <3>3, <3>4, <3>5, <3>6, PrintsMore
    <3>8. f[i] = ds \o g
      BY <1>6, <3>1
    <3>9. Prints(f[i], [k \in 1..i |-> digits[top - i + k]], i, w)
      BY <3>2, <3>5, <3>7, <3>8
    <3> QED
      BY <1>7, <3>9
  <2> QED
    BY <2>1, <2>2
<1>10. \A i \in 0..top : i \in P
  BY <1>2, <1>8, <1>9, StepByStep
<1>11. PICK same : same = [k \in 1..top |-> digits[top - top + k]]
  OBVIOUS
<1>12. Prints(f[top], same, top, w)
  BY <1>2, <1>7, <1>10, <1>11
<1>13. \A k \in 1..top : same[k] = digits[k]
  <2>1. \A k \in 1..top : top - top + k = k
    BY <1>2
  <2> QED
    BY <1>11, <2>1
<1>14. Prints(f[top], digits, top, w)
  BY <1>12, <1>13 DEF Prints
<1> QED
  BY <1>1, <1>6, <1>14

-----------------------------------------------------------------------------
(* Text: what is read. *)

\* The places of a group, zero beyond the text.
DigitRead(ds, k, i) == IF (k - 1) * Group + i > Len(ds) THEN 0
                   ELSE ds[Len(ds) + 1 - (k - 1) * Group - i]

LEMMA DigitReadIs ==
  ASSUME NEW S, 0 \in S, NEW ds \in Seq(S), NEW k \in Nat \ {0}, NEW i \in 1..Group
  PROVE  DigitRead(ds, k, i) \in S
<1>1. PICK n : n = (k - 1) * Group
  OBVIOUS
<1>2. n \in Nat
  <2>1. PICK m, g : m = k - 1 /\ g = Group
    OBVIOUS
  <2>2. m \in Nat /\ g \in Nat
    BY <2>1, DigitAssumption
  <2> QED
    BY <1>1, <2>1, <2>2
<1>3. CASE n + i > Len(ds)
  BY <1>1, <1>3 DEF DigitRead
<1>4. CASE ~(n + i > Len(ds))
  <2>1. PICK q : q = Len(ds) + 1 - n - i
    OBVIOUS
  <2>2. Group \in Nat /\ Len(ds) \in Nat
    BY DigitAssumption
  <2>3. q \in 1..Len(ds)
    BY <1>2, <1>4, <2>1, <2>2
  <2>4. ds[q] \in S
    BY <2>3
  <2> QED
    BY <1>1, <1>4, <2>1, <2>4 DEF DigitRead
<1> QED
  BY <1>3, <1>4

LEMMA GroupAtIs ==
  ASSUME NEW ds \in Seq(0..IoBase - 1), NEW k \in Nat \ {0}, NEW e,
         e = [i \in 1..Group |-> DigitRead(ds, k, i)]
  PROVE  /\ e \in [1..Group -> 0..IoBase - 1] /\ e \in [1..Group -> Nat]
         /\ GroupAt(ds, k) = Denotes(e, IoBase)
         /\ GroupAt(ds, k) \in 0..Base - 1
<1>1. IoBase \in Nat \ {0} /\ Group \in Nat /\ Base \in Nat
  BY DigitAssumption, BaseIs
<1>2. PICK S : S = 0..IoBase - 1
  OBVIOUS
<1>3. 0 \in S /\ ds \in Seq(S)
  BY <1>1, <1>2
<1>4. \A i \in 1..Group : DigitRead(ds, k, i) \in S
  BY <1>3, DigitReadIs
<1>5. e \in [1..Group -> 0..IoBase - 1]
  BY <1>2, <1>4
<1>6. e \in [1..Group -> Nat]
  BY <1>1, <1>5
<1>7. GroupAt(ds, k) = Denotes(e, IoBase)
  BY DEF GroupAt, DigitRead
<1>8. Denotes(e, IoBase) \in Nat /\ Denotes(e, IoBase) < Power(IoBase, Group)
  BY <1>1, <1>5, DenotesBelow
<1>9. GroupAt(ds, k) \in 0..Base - 1
  BY <1>1, <1>7, <1>8 DEF Base
<1> QED
  BY <1>5, <1>6, <1>7, <1>9

\* Beyond the text there is nothing.
LEMMA BeyondIsZero ==
  ASSUME NEW ds \in Seq(0..IoBase - 1), NEW k \in Nat \ {0}, Len(ds) <= (k - 1) * Group
  PROVE  GroupAt(ds, k) = 0
<1>1. IoBase \in Nat /\ Group \in Nat
  BY DigitAssumption
<1>2. PICK e : e = [i \in 1..Group |-> DigitRead(ds, k, i)]
  OBVIOUS
<1>3. e \in [1..Group -> Nat] /\ GroupAt(ds, k) = Denotes(e, IoBase)
  BY <1>2, GroupAtIs
<1>4. ASSUME NEW i \in 1..Group PROVE e[i] = 0
  <2>1. PICK n : n = (k - 1) * Group
    OBVIOUS
  <2>2. n \in Nat
    <3>1. PICK m, g : m = k - 1 /\ g = Group
      OBVIOUS
    <3>2. m \in Nat /\ g \in Nat
      BY <1>1, <3>1
    <3> QED
      BY <2>1, <3>1, <3>2
  <2>3. n + i > Len(ds)
    <3>1. Len(ds) \in Nat /\ Len(ds) <= n /\ i \in Nat /\ i > 0
      BY <1>1, <2>1
    <3> QED
      BY <2>2, <3>1
  <2>4. DigitRead(ds, k, i) = 0
    BY <2>1, <2>3 DEF DigitRead
  <2> QED
    BY <1>2, <2>4
<1>5. Denotes(e, IoBase) = 0
  BY <1>1, <1>3, <1>4, NothingIsZero
<1> QED
  BY <1>3, <1>5

\* A text of digits that is not too long is taken.
LEMMA ShortIsTaken ==
  ASSUME NEW text, text.ds \in Seq(0..IoBase - 1), text.ds # <<>>,
         Len(text.ds) <= Length * Group
  PROVE  Parses(text)
<1>1. PICK ds, n, G, N : ds = text.ds /\ n = Len(text.ds) /\ G = Group /\ N = Length
  OBVIOUS
<1>2. /\ n \in Nat /\ G \in Nat /\ G > 0 /\ N \in Nat /\ N > 0 /\ n <= N * G
      /\ IoBase \in 2..36 /\ Base \in Nat /\ IoBase <= Base /\ ds \in Seq(0..IoBase - 1)
  BY <1>1, DigitAssumption, LengthIs, BaseIs
<1>3. PICK full, rest : full = n \div G /\ rest = n % G
  OBVIOUS
<1>4. full \in Nat /\ rest \in Nat /\ n = G * full + rest
  BY <1>2, <1>3, DivMod
<1>5. G * full <= G * N
  <2>1. N * G = G * N /\ G * N \in Nat /\ G * full \in Nat
    BY <1>2, <1>4
  <2>2. PICK u, v : u = G * full /\ v = G * N
    OBVIOUS
  <2>3. n = u + rest /\ n <= v
    BY <1>2, <1>4, <2>1, <2>2
  <2> QED
    BY <1>4, <2>1, <2>2, <2>3
<1>6. full <= N
  <2> SUFFICES ASSUME full > N PROVE FALSE
    BY <1>2, <1>4
  <2>1. PICK m : m = N + 1
    OBVIOUS
  <2>2. m \in Nat /\ m <= full
    BY <1>2, <1>4, <2>1
  <2>3. m * G <= full * G
    BY <1>2, <1>4, <2>2, TimesGrows
  <2>4. m * G = N * G + G /\ full * G = G * full /\ N * G = G * N
    BY <1>2, <1>4, <2>1
  <2>5. PICK u, v, w : u = G * full /\ v = G * N /\ w = m * G
    OBVIOUS
  <2>6. u \in Nat /\ v \in Nat
    BY <1>2, <1>4, <2>5
  <2>7. w = v + G /\ w <= u /\ u <= v
    BY <1>5, <2>3, <2>4, <2>5
  <2> QED
    BY <1>2, <2>6, <2>7
<1>7. full < N \/ (full = N /\ GroupAt(ds, full + 1) = 0)
  <2>1. CASE full = N
    <3>1. PICK k : k = full + 1
      OBVIOUS
    <3>2. k \in Nat \ {0} /\ k - 1 = full
      BY <1>4, <3>1
    <3>3. Len(ds) <= (k - 1) * Group
      BY <1>1, <1>2, <2>1, <3>2
    <3>4. GroupAt(ds, k) = 0
      BY <1>2, <3>2, <3>3, BeyondIsZero
    <3> QED
      BY <2>1, <3>1, <3>4
  <2> QED
    BY <1>2, <1>4, <1>6, <2>1
<1>8. \A i \in DOMAIN text.ds : text.ds[i] # NotADigit /\ text.ds[i] < Base
  <2> SUFFICES ASSUME NEW i \in DOMAIN ds PROVE ds[i] # 36 /\ ds[i] < Base
    BY <1>1 DEF NotADigit
  <2>1. ds[i] \in 0..IoBase - 1
    BY <1>2
  <2> QED
    BY <1>2, <2>1
<1> QED
  BY <1>1, <1>3, <1>7, <1>8 DEF Parses

\* What was printed is read as what it was.
LEMMA GroupIsRead ==
  ASSUME NEW digits \in Magnitudes, NEW top \in Indices,
         NEW ds, Prints(ds, digits, top, Width(digits[top])), NEW k \in 1..top
  PROVE  GroupAt(ds, k) = digits[k]
<1>1. PICK G, b, w, L : G = Group /\ b = IoBase /\ w = Width(digits[top]) /\ L = Len(ds)
  OBVIOUS
<1>2. /\ G \in Nat /\ G > 0 /\ b \in Nat \ {0} /\ Base = Power(b, G) /\ Base \in Nat
      /\ top \in Nat /\ top > 0 /\ k \in Nat /\ k > 0 /\ k <= top
  BY <1>1, DigitAssumption, LengthIs, BaseIs DEF Base, Indices
<1>3. \A i \in Indices : digits[i] \in 0..Base - 1
  BY DEF Magnitudes
<1>4. /\ ds \in Seq(0..b - 1) /\ L = w + (top - 1) * G
      /\ \A t \in 1..G : (k - 1) * G + t <= L => ds[L + 1 - (k - 1) * G - t] = Digit(digits[k], b, t)
  BY <1>1 DEF Prints
<1>13. L \in Nat
  <2>1. ds \in Seq(0..b - 1)
    BY <1>4
  <2>2. Len(ds) \in Nat
    BY <2>1
  <2> QED
    BY <1>1, <2>2
<1>5. PICK d : d = digits[k]
  OBVIOUS
<1>6. d \in 0..Base - 1 /\ d \in Nat /\ d < Power(b, G)
  <2>1. k \in Indices
    BY <1>2, LengthIs DEF Indices
  <2>2. d \in 0..Base - 1
    BY <1>3, <1>5, <2>1
  <2> QED
    BY <1>2, <2>2
<1>7. w \in 1..G /\ digits[top] < Power(b, w) /\ digits[top] \in Nat
  <2>1. PICK h : h = digits[top]
    OBVIOUS
  <2>2. h \in 0..Base - 1
    BY <1>3, <2>1
  <2>3. Width(h) \in 1..Group /\ h < Power(IoBase, Width(h))
    BY <2>2, WidthIs
  <2>4. h \in Nat
    BY <1>2, <2>2
  <2> QED
    BY <1>1, <2>1, <2>3, <2>4
<1>8. PICK e : e = [i \in 1..G |-> Digit(d, b, i)]
  OBVIOUS
<1>9. ASSUME NEW i \in 1..G PROVE DigitRead(ds, k, i) = Digit(d, b, i)
  <2>1. PICK n : n = (k - 1) * G
    OBVIOUS
  <2>2. n \in Nat
    <3>1. PICK m : m = k - 1
      OBVIOUS
    <3>2. m \in Nat
      BY <1>2, <3>1
    <3> QED
      BY <1>2, <2>1, <3>1, <3>2
  <2>3. CASE n + i <= L
    <3>1. ds[L + 1 - n - i] = Digit(d, b, i)
      BY <1>4, <1>5, <2>1, <2>3
    <3>2. L \in Nat
      BY <1>13
    <3>3. ~(n + i > L)
      BY <1>2, <2>2, <2>3, <3>2
    <3> QED
      BY <1>1, <2>1, <3>1, <3>3 DEF DigitRead
  <2>4. CASE ~(n + i <= L)
    <3>1. L \in Nat
      BY <1>13
    <3>2. n + i > L
      BY <1>2, <2>2, <2>4, <3>1
    <3>3. DigitRead(ds, k, i) = 0
      BY <1>1, <2>1, <3>2 DEF DigitRead
    <3>4. k = top
      <4> SUFFICES ASSUME k < top PROVE FALSE
        BY <1>2
      <4>1. PICK m, j : m = top - 1 /\ j = k - 1
        OBVIOUS
      <4>2. m \in Nat /\ j \in Nat /\ j + 1 <= m
        BY <1>2, <4>1
      <4>3. PICK z : z = j + 1
        OBVIOUS
      <4>4. z \in Nat /\ z <= m
        BY <4>2, <4>3
      <4>5. z * G <= m * G
        BY <1>2, <4>2, <4>4, TimesGrows
      <4>6. z * G = j * G + G
        BY <1>2, <4>2, <4>3
      <4>7. PICK u : u = m * G
        OBVIOUS
      <4>8. n + G <= u /\ L = w + u
        BY <1>4, <2>1, <4>1, <4>5, <4>6, <4>7
      <4>9. u \in Nat
        BY <1>2, <4>2, <4>7
      <4> QED
        BY <1>2, <1>7, <2>2, <3>1, <3>2, <4>8, <4>9
    <3>5. i > w
      <4>1. L = w + n
        BY <1>4, <2>1, <3>4
      <4> QED
        BY <1>2, <1>7, <2>2, <3>2, <4>1
    <3>6. PICK j : j = i - 1
      OBVIOUS
    <3>7. j \in Nat /\ w \in Nat /\ w <= j /\ i \in Nat \ {0}
      BY <1>2, <1>7, <3>5, <3>6
    <3>8. Power(b, w) <= Power(b, j) /\ Power(b, w) \in Nat /\ Power(b, j) \in Nat
      <4>1. b \in Nat
        BY <1>2
      <4> QED
        BY <1>2, <3>7, <4>1, PowerGrows, PowerLaws
    <3>9. d < Power(b, i - 1)
      BY <1>5, <1>6, <1>7, <3>4, <3>6, <3>8
    <3>10. Digit(d, b, i) = 0
      BY <1>2, <1>6, <3>7, <3>9, DigitIs
    <3> QED
      BY <3>3, <3>10
  <2> QED
    BY <2>3, <2>4
<1>10. e = [i \in 1..Group |-> DigitRead(ds, k, i)]
  BY <1>1, <1>8, <1>9
<1>11. GroupAt(ds, k) = Denotes(e, b)
  <2>1. ds \in Seq(0..IoBase - 1) /\ k \in Nat \ {0}
    BY <1>1, <1>2, <1>4
  <2> QED
    BY <1>1, <1>10, <2>1, GroupAtIs
<1>12. Denotes(e, b) = d
  BY <1>2, <1>6, <1>8, DigitsStandFor
<1> QED
  BY <1>5, <1>11, <1>12

LEMMA TextOfZero ==
  ASSUME NEW ds, ds = << 0 >>, NEW k \in Nat \ {0}
  PROVE  GroupAt(ds, k) = 0
<1>1. IoBase \in Nat /\ IoBase > 0 /\ Group \in Nat /\ Group > 0
  BY DigitAssumption
<1>2. ds \in Seq(0..IoBase - 1) /\ Len(ds) = 1 /\ ds[1] = 0
  BY <1>1
<1>3. PICK S : S = {0}
  OBVIOUS
<1>4. 0 \in S /\ ds \in Seq(S)
  BY <1>3
<1>5. PICK e : e = [i \in 1..Group |-> DigitRead(ds, k, i)]
  OBVIOUS
<1>6. \A i \in 1..Group : DigitRead(ds, k, i) \in S
  BY <1>4, DigitReadIs
<1>7. \A i \in 1..Group : e[i] = 0
  BY <1>3, <1>5, <1>6
<1>8. e \in [1..Group -> Nat] /\ GroupAt(ds, k) = Denotes(e, IoBase)
  BY <1>2, <1>5, GroupAtIs
<1>9. Denotes(e, IoBase) = 0
  BY <1>1, <1>7, <1>8, NothingIsZero
<1> QED
  BY <1>8, <1>9

LEMMA RoundTrip ==
  ASSUME NEW A \in Stores
  PROVE  Parses(Printed(A)) /\ Parsed(Printed(A)) = A
<1>1. PICK digits, n, top, text, ds :
        /\ digits = A.digits /\ n = Length /\ top = Max({0} \cup {i \in Indices : digits[i] # 0})
        /\ text = Printed(A) /\ ds = text.ds
  OBVIOUS
<1>2. /\ digits \in Magnitudes /\ A.sign \in {0, 1} /\ A = [sign |-> A.sign, digits |-> digits]
      /\ n \in Nat /\ n > 0 /\ Indices = 1..n
  BY <1>1, LengthIs DEF Stores, Indices
<1>3. \A i \in 1..n : digits[i] \in 0..Base - 1
  BY <1>2 DEF Magnitudes
<1>4. PICK T : T = {i \in 1..n : digits[i] # 0}
  OBVIOUS
<1>5. top = Max({0} \cup T)
  BY <1>1, <1>2, <1>4
<1>15. PICK seqs : seqs = [k \in 1..top |-> GroupText(digits[top + 1 - k], k > 1)]
  OBVIOUS
<1>6. text = [sign |-> IF A.sign = 0 THEN "-" ELSE "",
              ds |-> IF top = 0 THEN << 0 >> ELSE FlattenSeq(seqs)]
  BY ONLY <1>1, <1>15, Zenon DEF Printed
<1>14. ds = IF top = 0 THEN << 0 >> ELSE FlattenSeq(seqs)
  <2>1. PICK x, f : /\ x = (IF A.sign = 0 THEN "-" ELSE "")
                    /\ f = (IF top = 0 THEN << 0 >> ELSE FlattenSeq(seqs))
    OBVIOUS
  <2>2. text = [sign |-> x, ds |-> f]
    BY <1>6, <2>1
  <2>3. text.ds = f
    BY ONLY <2>2
  <2> QED
    BY <1>1, <2>1, <2>3
<1>7. top \in {0} \cup T /\ \A i \in T : i <= top
  <2>1. \E m \in {0} \cup T : \A y \in {0} \cup T : m >= y
    <3>1. CASE T = {}
      BY <3>1
    <3>2. CASE T # {}
      <4>1. T \in SUBSET (1..n)
        BY <1>4
      <4>2. Max(T) \in T /\ \A x \in T : x <= Max(T)
        BY <1>2, <3>2, <4>1, HighestOf
      <4>3. PICK m : m = Max(T)
        OBVIOUS
      <4>4. m \in 1..n /\ m >= 0 /\ \A x \in T : m >= x
        BY <1>2, <4>1, <4>2, <4>3
      <4> QED
        BY <4>2, <4>3, <4>4
    <3> QED
      BY <3>1, <3>2
  <2>2. PICK U : U = {0} \cup T
    OBVIOUS
  <2>3. Max(U) \in U /\ \A y \in U : Max(U) >= y
    BY <2>1, <2>2 DEF Max
  <2>4. \A i \in T : i \in Nat
    BY <1>4
  <2>5. top \in Nat
    BY <1>5, <2>2, <2>3, <2>4
  <2> QED
    BY <1>5, <2>2, <2>3, <2>4, <2>5
<1>8. /\ Len(ds) <= n * Group /\ ds \in Seq(0..IoBase - 1) /\ ds # <<>>
      /\ \A k \in 1..n : GroupAt(ds, k) = digits[k]
  <2>1. CASE top = 0
    <3>1. ds = << 0 >>
      BY <1>14, <2>1
    <3>2. T = {}
      BY <1>4, <1>7, <2>1
    <3>3. \A k \in 1..n : digits[k] = 0
      BY <1>4, <3>2
    <3>4. \A k \in 1..n : GroupAt(ds, k) = 0
      <4>1. \A k \in 1..n : k \in Nat \ {0}
        OBVIOUS
      <4> QED
        BY <3>1, <4>1, TextOfZero
    <3>5. Group \in Nat /\ Group > 0 /\ IoBase \in Nat /\ IoBase > 0
      BY DigitAssumption
    <3>6. Len(ds) = 1 /\ ds \in Seq(0..IoBase - 1) /\ ds # <<>>
      BY <3>1, <3>5
    <3>7. 1 <= n * Group
      <4>1. \A x, y \in Nat : x > 0 /\ y > 0 => 1 <= x * y
        OBVIOUS
      <4> QED
        BY <1>2, <3>5, <4>1
    <3> QED
      BY <3>3, <3>4, <3>6, <3>7
  <2>2. CASE top # 0
    <3>1. top \in T /\ top \in 1..n /\ digits[top] # 0 /\ top \in Indices
      BY <1>2, <1>4, <1>7, <2>2
    <3>2. seqs = [k \in 1..top |-> GroupText(digits[top + 1 - k], k > 1)]
      BY <1>15
    <3>3. ds = FlattenSeq(seqs)
      BY <1>14, <2>2
    <3>4. Prints(ds, digits, top, Width(digits[top]))
      BY <1>2, <3>1, <3>2, <3>3, PrintedIs
    <3>5. PICK w, G, L : w = Width(digits[top]) /\ G = Group /\ L = Len(ds)
      OBVIOUS
    <3>6. ds \in Seq(0..IoBase - 1) /\ L = w + (top - 1) * G
      BY <3>4, <3>5 DEF Prints
    <3>7. w \in 1..G /\ G \in Nat
      <4>1. PICK h : h = digits[top]
        OBVIOUS
      <4>2. h \in 0..Base - 1
        BY <1>3, <3>1, <4>1
      <4>3. Width(h) \in 1..Group
        BY <4>2, WidthIs
      <4> QED
        BY <3>5, <4>1, <4>3, DigitAssumption
    <3>8. L > 0 /\ L <= top * G /\ top * G <= n * G /\ L \in Nat /\ top * G \in Nat
      <4>1. PICK m : m = top - 1
        OBVIOUS
      <4>2. m \in Nat /\ top = m + 1 /\ top \in Nat /\ top <= n
        BY <1>2, <3>1, <4>1
      <4>3. (m + 1) * G = m * G + G /\ m * G \in Nat
        BY <3>7, <4>2
      <4>4. PICK u, v : u = m * G /\ v = top * G
        OBVIOUS
      <4>5. u \in Nat /\ v = u + G /\ L = w + u
        BY <3>6, <4>1, <4>2, <4>3, <4>4
      <4>6. L > 0 /\ L <= v /\ L \in Nat /\ v \in Nat
        BY <3>7, <4>5
      <4>7. top * G <= n * G
        BY <1>2, <3>7, <4>2, TimesGrows
      <4> QED
        BY <4>4, <4>6, <4>7
    <3>9. L <= n * G
      <4>1. PICK u, v : u = top * G /\ v = n * G
        OBVIOUS
      <4>2. u \in Nat /\ v \in Nat
        BY <1>2, <3>7, <3>8, <4>1
      <4> QED
        BY <3>8, <4>1, <4>2
    <3>10. ds # <<>>
      <4>1. Len(<<>>) = 0
        OBVIOUS
      <4> QED
        BY <3>5, <3>8, <4>1
    <3>11. ASSUME NEW k \in 1..n PROVE GroupAt(ds, k) = digits[k]
      <4>1. CASE k <= top
        <5>1. k \in 1..top
          BY <3>1, <4>1
        <5> QED
          BY <1>2, <3>1, <3>4, <5>1, GroupIsRead
      <4>2. CASE ~(k <= top)
        <5>1. digits[k] = 0
          BY <1>4, <1>7, <3>1, <4>2
        <5>2. PICK m : m = k - 1
          OBVIOUS
        <5>3. m \in Nat /\ top <= m /\ top \in Nat /\ k \in Nat \ {0}
          BY <3>1, <4>2, <5>2
        <5>4. top * G <= m * G
          BY <3>7, <5>3, TimesGrows
        <5>5. Len(ds) <= (k - 1) * Group
          <6>1. PICK u, v : u = top * G /\ v = m * G
            OBVIOUS
          <6>2. u \in Nat /\ v \in Nat
            BY <3>7, <5>3, <6>1
          <6>3. L <= v
            BY <3>8, <5>4, <6>1, <6>2
          <6> QED
            BY <3>5, <5>2, <6>1, <6>3
        <5>6. GroupAt(ds, k) = 0
          BY <3>6, <5>3, <5>5, BeyondIsZero
        <5> QED
          BY <5>1, <5>6
      <4> QED
        BY <4>1, <4>2
    <3> QED
      BY <3>5, <3>6, <3>9, <3>10, <3>11
  <2> QED
    BY <2>1, <2>2
<1>9. Parses(text)
  BY <1>1, <1>8, ShortIsTaken
<1>10. Parsed(text) = A
  <2>1. Parsed(text) = [sign |-> IF text.sign = "-" THEN 0 ELSE 1,
                        digits |-> [k \in 1..n |-> GroupAt(ds, k)]]
    BY <1>1, <1>2 DEF Parsed
  <2>2. digits = [k \in 1..n |-> digits[k]]
    BY <1>2 DEF Magnitudes
  <2>3. [k \in 1..n |-> GroupAt(ds, k)] = digits
    BY <1>8, <2>2
  <2>4. (IF text.sign = "-" THEN 0 ELSE 1) = A.sign
    BY <1>2, <1>6
  <2> QED
    BY <1>2, <2>1, <2>3, <2>4
<1> QED
  BY <1>1, <1>9, <1>10

-----------------------------------------------------------------------------
(* Text: what it means.                                                    *)

LEMMA PowerOfPower ==
  ASSUME NEW b \in Nat, NEW G \in Nat, NEW n \in Nat
  PROVE  Power(Power(b, G), n) = Power(b, n * G)
<1>1. PICK B : B = Power(b, G)
  OBVIOUS
<1>2. B \in Nat
  BY <1>1, PowerLaws
<1>3. PICK P : P = {k \in 0..n : Power(B, k) = Power(b, k * G)}
  OBVIOUS
<1>4. 0 \in P
  <2>1. 0 * G = 0
    OBVIOUS
  <2>2. Power(B, 0) = 1 /\ Power(b, 0) = 1
    BY <1>2, PowerLaws
  <2> QED
    BY <1>3, <2>1, <2>2
<1>5. ASSUME NEW k \in 1..n, k - 1 \in P PROVE k \in P
  <2>1. PICK j, m, l : j = k - 1 /\ m = j * G /\ l = k * G
    OBVIOUS
  <2>2. j \in Nat /\ j + 1 = k
    BY <2>1
  <2>3. m \in Nat /\ l = m + G
    <3>1. (j + 1) * G = j * G + G /\ j * G \in Nat
      BY <2>2
    <3> QED
      BY <2>1, <2>2, <3>1
  <2>4. PICK p, q : p = Power(B, j) /\ q = Power(b, m)
    OBVIOUS
  <2>5. p \in Nat /\ q \in Nat /\ p = q
    BY <1>2, <1>3, <1>5, <2>1, <2>2, <2>3, <2>4, PowerLaws
  <2>6. Power(B, k) = B * p
    BY <1>2, <2>2, <2>4, PowerLaws
  <2>7. Power(b, l) = q * B
    BY <1>1, <2>3, <2>4, PowerAdd
  <2>8. B * p = q * B
    BY <1>2, <2>5
  <2> QED
    BY <1>3, <2>1, <2>6, <2>7, <2>8
<1>6. \A k \in 0..n : k \in P
  BY <1>4, <1>5, StepByStep
<1>7. n \in 0..n
  OBVIOUS
<1> QED
  BY <1>1, <1>3, <1>6, <1>7

\* Digits taken in groups, each a digit in a larger base.
InText(k, i, G) == (k - 1) * G + i
InGroups(g, e, G, b, n) ==
  \A k \in 1..n : g[k] = Denotes([i \in 1..G |-> e[InText(k, i, G)]], b)
SameNumber(d, b, e, c) == Denotes(d, b) = Denotes(e, c)

LEMMA GroupsMean ==
  ASSUME NEW b \in Nat, NEW G \in Nat, NEW n \in Nat, NEW N \in Nat, NEW B \in Nat,
         N = n * G, B = Power(b, G), NEW e \in [1..N -> Nat], NEW g \in [1..n -> Nat],
         InGroups(g, e, G, b, n)
  PROVE  SameNumber(g, B, e, b)
<1>1. PICK s \in [0..n -> Nat] : Sums(s, g, B, n)
  BY SumsExist
<1>2. Denotes(g, B) = s[n]
  BY <1>1, DenotesIs
<1> DEFINE Lowest(l) == [i \in 1..l |-> e[i]]
<1>3. PICK P : P = {k \in 0..n : s[k] = Denotes(Lowest(k * G), b)}
  OBVIOUS
<1>4. 0 \in P
  <2>1. PICK z, y : z = 0 /\ y = Lowest(z)
    OBVIOUS
  <2>2. 0 * G = z /\ z \in Nat
    BY <2>1
  <2>3. y \in [1..z -> Nat] /\ \A i \in 1..z : y[i] = 0
    BY <2>1
  <2>4. Denotes(y, b) = 0
    BY <2>2, <2>3, NothingIsZero
  <2>5. s[0] = 0
    BY <1>1 DEF Sums
  <2> HIDE DEF Lowest
  <2> QED
    BY <1>3, <2>1, <2>2, <2>4, <2>5
<1>5. ASSUME NEW k \in 1..n, k - 1 \in P PROVE k \in P
  <2>1. PICK j, m, l : j = k - 1 /\ m = j * G /\ l = k * G
    OBVIOUS
  <2>2. j \in Nat /\ j + 1 = k /\ k \in Nat /\ k <= n
    BY <2>1
  <2>3. m \in Nat /\ l \in Nat /\ l = m + G /\ l <= N
    <3>1. (j + 1) * G = j * G + G /\ j * G \in Nat
      BY <2>2
    <3>2. k * G <= n * G
      BY <2>2, TimesGrows
    <3>3. m \in Nat /\ l = m + G
      BY <2>1, <2>2, <3>1
    <3> QED
      BY <2>1, <3>2, <3>3
  <2>4. PICK d, x, f : /\ d = Lowest(l) /\ x = Lowest(m)
                       /\ f = [i \in 1..G |-> e[InText(k, i, G)]]
    OBVIOUS
  <2>5. \A i \in 1..G : InText(k, i, G) = m + i
    BY <2>1 DEF InText
  <2>6. d \in [1..l -> Nat] /\ x \in [1..m -> Nat]
    BY <2>3, <2>4
  <2>7. f \in [1..G -> Nat] /\ \A i \in 1..G : f[i] = e[m + i]
    <3>1. \A i \in 1..G : m + i \in 1..N
      BY <2>3
    <3>2. \A i \in 1..G : e[m + i] \in Nat
      BY <3>1
    <3> QED
      BY <2>4, <2>5, <3>2
  <2>8. Joined(d, l, x, m, f, G)
    <3>1. \A i \in 1..m : x[i] = e[i] /\ i \in 1..l
      BY <2>3, <2>4
    <3>2. \A i \in 1..l : d[i] = e[i]
      BY <2>4
    <3>3. \A i \in 1..G : m + i \in 1..l
      BY <2>3
    <3> QED
      BY <2>3, <2>7, <3>1, <3>2, <3>3 DEF Joined
  <2>9. Splits(d, x, m, f, b)
    BY <2>3, <2>6, <2>7, <2>8, DenotesSplit
  <2>10. Denotes(f, b) = g[k]
    BY <2>4 DEF InGroups
  <2>11. Denotes(x, b) = s[j]
    <3> HIDE DEF Lowest
    <3> QED
      BY <1>3, <1>5, <2>1, <2>4
  <2>12. Power(B, j) = Power(b, m)
    BY <2>1, <2>2, PowerOfPower
  <2>13. s[k] = s[j] + g[k] * Power(B, j)
    BY <1>1, <2>1 DEF Sums
  <2>14. PICK u, v : u = g[k] /\ v = Power(b, m)
    OBVIOUS
  <2>15. u \in Nat /\ v \in Nat
    BY <2>3, <2>14, PowerLaws
  <2>16. Denotes(d, b) = s[j] + v * u
    BY <2>9, <2>10, <2>11, <2>14 DEF Splits
  <2>17. s[k] = s[j] + u * v
    BY <2>12, <2>13, <2>14
  <2>18. u * v = v * u
    BY <2>15
  <2>19. s[k] = Denotes(d, b)
    BY <2>16, <2>17, <2>18
  <2> HIDE DEF Lowest
  <2> QED
    BY <1>3, <2>1, <2>4, <2>19
<1>6. \A k \in 0..n : k \in P
  BY <1>4, <1>5, StepByStep
<1>7. s[n] = Denotes(Lowest(N), b)
  <2> HIDE DEF Lowest
  <2>1. n \in 0..n
    OBVIOUS
  <2> QED
    BY <1>3, <1>6, <2>1
<1>8. Lowest(N) = e
  <2>1. e = [i \in 1..N |-> e[i]]
    OBVIOUS
  <2> QED
    BY <2>1
<1> QED
  BY <1>2, <1>7, <1>8 DEF SameNumber

\* Zeros above the digits change nothing.
Padded(e, d, n, N) == \A i \in 1..N : e[i] = IF i <= n THEN d[i] ELSE 0

LEMMA PaddedMeans ==
  ASSUME NEW b \in Nat, NEW n \in Nat, NEW N \in Nat, n <= N, NEW d \in [1..n -> Nat],
         NEW e \in [1..N -> Nat], Padded(e, d, n, N)
  PROVE  SameNumber(e, b, d, b)
<1>1. PICK m, z : m = N - n /\ z = [i \in 1..m |-> 0]
  OBVIOUS
<1>2. m \in Nat /\ N = n + m
  BY <1>1
<1>3. z \in [1..m -> Nat] /\ \A i \in 1..m : z[i] = 0
  BY <1>1
<1>4. Denotes(z, b) = 0
  BY <1>2, <1>3, NothingIsZero
<1>5. Joined(e, N, d, n, z, m)
  <2>1. \A i \in 1..n : i \in 1..N /\ i <= n
    BY <1>2
  <2>2. \A i \in 1..m : n + i \in 1..N /\ ~(n + i <= n)
    BY <1>2
  <2> QED
    BY <1>2, <1>3, <2>1, <2>2 DEF Joined, Padded
<1>6. Splits(e, d, n, z, b)
  BY <1>2, <1>3, <1>5, DenotesSplit
<1>7. PICK u, v : u = Power(b, n) /\ v = Denotes(d, b)
  OBVIOUS
<1>8. u \in Nat
  BY <1>7, PowerLaws
<1>9. v \in Nat
  <2>1. PICK s \in [0..n -> Nat] : Sums(s, d, b, n)
    BY SumsExist
  <2>2. v = s[n] /\ n \in 0..n
    BY <1>7, <2>1, DenotesIs
  <2> QED
    BY <2>2
<1>10. Denotes(e, b) = v + u * 0
  BY <1>4, <1>6, <1>7 DEF Splits
<1> QED
  BY <1>7, <1>8, <1>9, <1>10 DEF SameNumber

\* The groups that are read are the digits of the text from its end.
LEMMA GroupsOfText ==
  ASSUME NEW ds \in Seq(0..IoBase - 1), Len(ds) <= Length * Group,
         NEW g, g = [k \in Indices |-> GroupAt(ds, k)]
  PROVE  g \in Magnitudes /\ SameNumber(g, Base, Reverse(ds), IoBase)
<1>1. PICK b, G, N, n, l : b = IoBase /\ G = Group /\ N = Length * Group /\ n = Length /\ l = Len(ds)
  OBVIOUS
<1>2. /\ b \in Nat \ {0} /\ G \in Nat /\ G > 0 /\ n \in Nat /\ n > 0 /\ Base = Power(b, G)
      /\ Base \in Nat /\ Indices = 1..n /\ N = n * G
  BY <1>1, DigitAssumption, LengthIs, BaseIs DEF Base, Indices
<1>3. N \in Nat
  BY <1>2
<1>4. l \in Nat /\ l <= N /\ \A i \in 1..l : ds[i] \in 0..b - 1
  <2>1. ds \in Seq(0..b - 1) /\ l = Len(ds) /\ l <= N
    BY <1>1
  <2>2. PICK S : S = 0..b - 1
    OBVIOUS
  <2>5. ds \in Seq(S)
    BY ONLY <2>1, <2>2
  <2>6. ASSUME NEW i \in 1..Len(ds) PROVE ds[i] \in S
    BY ONLY <2>5, <2>6
  <2>3. \A i \in 1..l : ds[i] \in S
    BY <2>1, <2>6
  <2>4. Len(ds) \in Nat
    BY ONLY <2>1, <2>2
  <2> QED
    BY <2>1, <2>2, <2>3, <2>4
<1>5. PICK d, e : d = Reverse(ds) /\ e = [i \in 1..N |-> IF i <= l THEN d[i] ELSE 0]
  OBVIOUS
<1>6. d = [i \in 1..l |-> ds[(l - i) + 1]]
  BY <1>1, <1>5 DEF Reverse
<1>7. d \in [1..l -> Nat]
  <2> SUFFICES ASSUME NEW i \in 1..l PROVE ds[(l - i) + 1] \in Nat
    BY <1>6
  <2>1. PICK q : q = (l - i) + 1
    OBVIOUS
  <2>2. q \in 1..l
    BY <1>4, <2>1
  <2>3. ds[q] \in 0..b - 1
    BY <1>4, <2>2
  <2> QED
    BY <1>2, <2>1, <2>3
<1>8. e \in [1..N -> Nat]
  <2> SUFFICES ASSUME NEW i \in 1..N PROVE (IF i <= l THEN d[i] ELSE 0) \in Nat
    BY <1>5
  <2>1. i <= l => i \in 1..l
    BY <1>4
  <2> QED
    BY <1>7, <2>1
<1>9. Padded(e, d, l, N)
  BY <1>5 DEF Padded
<1>10. SameNumber(e, b, d, b)
  BY <1>2, <1>3, <1>4, <1>7, <1>8, <1>9, PaddedMeans
<1>11. g \in [1..n -> 0..Base - 1]
  <2> SUFFICES ASSUME NEW k \in 1..n PROVE GroupAt(ds, k) \in 0..Base - 1
    BY <1>2
  <2>1. k \in Nat \ {0}
    OBVIOUS
  <2>2. PICK x : x = [i \in 1..Group |-> DigitRead(ds, k, i)]
    OBVIOUS
  <2> QED
    BY <2>1, <2>2, GroupAtIs
<1>12. g \in [1..n -> Nat] /\ g \in Magnitudes
  BY <1>2, <1>11 DEF Magnitudes
<1>13. InGroups(g, e, G, b, n)
  <2> SUFFICES ASSUME NEW k \in 1..n
               PROVE  g[k] = Denotes([i \in 1..G |-> e[InText(k, i, G)]], b)
    BY DEF InGroups
  <2>1. PICK x : x = [i \in 1..Group |-> DigitRead(ds, k, i)]
    OBVIOUS
  <2>2. k \in Nat \ {0} /\ k <= n
    OBVIOUS
  <2>3. g[k] = Denotes(x, b)
    BY <1>1, <1>2, <2>1, <2>2, GroupAtIs
  <2>4. ASSUME NEW i \in 1..G PROVE e[InText(k, i, G)] = DigitRead(ds, k, i)
    <3>1. PICK j, m, p : j = k - 1 /\ m = j * G /\ p = m + i
      OBVIOUS
    <3>2. j \in Nat /\ j + 1 = k
      BY <2>2, <3>1
    <3>3. m \in Nat /\ m + G <= N
      <4>1. (j + 1) * G = j * G + G /\ j * G \in Nat
        BY <1>2, <3>2
      <4>2. k * G <= n * G
        BY <1>2, <2>2, TimesGrows
      <4>3. m \in Nat /\ k * G = m + G
        BY <3>1, <3>2, <4>1
      <4> QED
        BY <1>2, <4>2, <4>3
    <3>4. p \in 1..N /\ InText(k, i, G) = p
      <4>1. InText(k, i, G) = p
        BY <3>1 DEF InText
      <4> QED
        BY <1>2, <1>3, <3>1, <3>3, <4>1
    <3>5. DigitRead(ds, k, i) = IF m + i > l THEN 0 ELSE ds[l + 1 - m - i]
      BY <1>1, <3>1 DEF DigitRead
    <3>6. e[p] = IF p <= l THEN d[p] ELSE 0
      BY <1>5, <3>4
    <3>7. CASE p <= l
      <4>1. (l - p) + 1 = l + 1 - m - i
        BY <1>4, <3>1, <3>3
      <4>2. p \in 1..l
        BY <1>4, <3>4, <3>7
      <4>3. d[p] = ds[(l - p) + 1]
        BY <1>6, <4>2
      <4>4. ~(m + i > l)
        BY <1>4, <3>1, <3>3, <3>7
      <4> QED
        BY <3>4, <3>5, <3>6, <3>7, <4>1, <4>3, <4>4
    <3>8. CASE ~(p <= l)
      <4>1. m + i > l
        BY <1>4, <3>1, <3>3, <3>8
      <4> QED
        BY <3>4, <3>5, <3>6, <3>8, <4>1
    <3> QED
      BY <3>7, <3>8
  <2>5. x = [i \in 1..G |-> e[InText(k, i, G)]]
    BY <1>1, <2>1, <2>4
  <2> QED
    BY <2>3, <2>5
<1>14. SameNumber(g, Base, e, b)
  BY <1>2, <1>3, <1>8, <1>12, <1>13, GroupsMean
<1> QED
  BY <1>1, <1>5, <1>10, <1>12, <1>14 DEF SameNumber

\* A text that is not longer than asked for fits into a store.
LEMMA ProperIsShort ==
  ASSUME NEW n \in 1..Precision, LogLength(Precision) <= MaxLogLength
  PROVE  n <= Length * Group
<1>1. PICK p, G, N : p = Precision /\ G = Group /\ N = Length
  OBVIOUS
<1>2. p \in Nat /\ G \in Nat /\ G > 0 /\ N \in Nat /\ n \in Nat /\ n <= p /\ n > 0
  BY <1>1, DigitAssumption, LengthIs
<1>3. PICK x, y, q, r : x = p + G - 1 /\ q = x \div G /\ r = x % G /\ y = G * q
  OBVIOUS
<1>4. N >= q
  BY <1>1, <1>3, LengthIs
<1>5. x \in Nat
  BY <1>2, <1>3
<1>6. q \in Nat /\ r \in 0..(G - 1) /\ x = G * q + r
  BY <1>2, <1>3, <1>5, DivMod
<1>7. y >= p /\ y \in Nat
  <2>1. y \in Nat
    BY <1>2, <1>3, <1>6
  <2>2. x = y + r
    BY <1>3, <1>6
  <2> QED
    BY <1>2, <1>3, <1>6, <2>1, <2>2
<1>8. q * G <= N * G
  BY <1>2, <1>4, <1>6, TimesGrows
<1>9. q * G = y /\ N * G \in Nat
  BY <1>2, <1>3, <1>6
<1>10. PICK v : v = N * G
  OBVIOUS
<1>11. n <= v
  BY <1>2, <1>7, <1>8, <1>9, <1>10
<1> QED
  BY <1>1, <1>10, <1>11

\* A context takes every text that is not longer than the precision it was
\* asked for, unless that is beyond the limit, and reads the number it stands for.
THEOREM TextsAreRead == TextIsRead
<1> SUFFICES ASSUME LogLength(Precision) <= MaxLogLength, NEW text \in ProperTexts
             PROVE  Parses(text) /\ Value(Parsed(text)) = Meaning(text)
  BY DEF TextIsRead
<1>1. PICK ds, sign : ds = text.ds /\ sign = text.sign
  OBVIOUS
<1>2. PICK n \in 1..Precision : ds \in [1..n -> 0..IoBase - 1]
  BY <1>1 DEF ProperTexts
<1>3. n \in Nat /\ n > 0 /\ n <= Length * Group
  <2>1. n \in Nat /\ n > 0
    BY DigitAssumption
  <2>2. n <= Length * Group
    BY ProperIsShort
  <2> QED
    BY <2>1, <2>2
<1>4. ds \in Seq(0..IoBase - 1) /\ Len(ds) = n
  <2>1. PICK S : S = 0..IoBase - 1
    OBVIOUS
  <2>2. ds \in [1..n -> S] /\ n \in Nat
    BY <1>2, <1>3, <2>1
  <2>3. ds \in Seq(S) /\ Len(ds) = n
    BY ONLY <2>2
  <2> QED
    BY <2>1, <2>3
<1>5. ds # <<>>
  <2>1. Len(<<>>) = 0
    OBVIOUS
  <2> QED
    BY <1>3, <1>4, <2>1
<1>6. Parses(text)
  BY <1>1, <1>3, <1>4, <1>5, ShortIsTaken
<1>7. PICK g : g = [k \in Indices |-> GroupAt(ds, k)]
  OBVIOUS
<1>8. g \in Magnitudes /\ SameNumber(g, Base, Reverse(ds), IoBase)
  BY <1>3, <1>4, <1>7, GroupsOfText
<1>9. PICK v, r : v = Denotes(g, Base) /\ r = Parsed(text)
  OBVIOUS
<1>10. v \in Nat /\ Denotes(Reverse(ds), IoBase) = v
  BY <1>8, <1>9, MagnitudeIs DEF SameNumber
<1>11. r = [sign |-> IF sign = "-" THEN 0 ELSE 1, digits |-> g]
  BY <1>1, <1>7, <1>9 DEF Parsed
<1>12. r.digits = g /\ r.sign = IF sign = "-" THEN 0 ELSE 1
  BY <1>11
<1>13. Value(r) = IF sign = "-" THEN -v ELSE v
  BY <1>9, <1>12 DEF Value
<1>14. Meaning(text) = (IF sign = "-" THEN -1 ELSE 1) * v
  BY <1>1, <1>10 DEF Meaning
<1>15. (-1) * v = -v /\ 1 * v = v
  BY <1>10
<1> QED
  BY <1>6, <1>9, <1>13, <1>14, <1>15

-----------------------------------------------------------------------------
(* All of it.                                                              *)

\* The kernels of ArithmeticFunctions.hpp and the two conversions of Basics.cpp,
\* for stores of any length, in any of the bases: any two stores are added to the sum of
\* their values, cut off at the length of a store, and multiplied to the product
\* of what their digits stand for; each is printed as text that is read as itself.
THEOREM StoresAreExact == \A A \in Stores : ExactFor(A)
<1> SUFFICES ASSUME NEW A \in Stores PROVE ExactFor(A)
  OBVIOUS
<1>1. ASSUME NEW B \in Stores
      PROVE  Denotes(Multiplication(A.digits, B.digits), Base)
               = Denotes(A.digits, Base) * Denotes(B.digits, Base)
  <2>1. A.digits \in Magnitudes /\ B.digits \in Magnitudes
    BY DEF Stores
  <2> QED
    BY <2>1, MultiplicationIs
<1> QED
  BY <1>1, SumIs, RoundTrip DEF ExactFor

\* Whatever number a node of a context comes to hold, its digits are computed
\* with, printed and read exactly, and every text the context was made for is
\* read.  The first number too large for a store is that of module Digits.
THEOREM DigitsStayExact == Modulus = MCModulus => (Spec => []DigitsAreExact)
<1> SUFFICES ASSUME Modulus = MCModulus PROVE Spec => []DigitsAreExact
  OBVIOUS
<1>1. ASSUME TypeOK, GraphIsSound
      PROVE  DigitsAreExact
  <2> SUFFICES ASSUME NEW n \in DOMAIN nodes, IsConstant(n) PROVE Exact[nodes[n].data]
    BY TextsAreRead DEF DigitsAreExact
  <2>1. nodes[n].data \in 1 - Modulus..Modulus - 1
    <3>1. nodes[n].data \in Data
      <4>1. PICK R : R = [a : 0..MaxNodes, b : 0..MaxNodes, data : Data, units : Nat]
        OBVIOUS
      <4>2. nodes \in Seq(R)
        BY <1>1, <4>1 DEF TypeOK
      <4>3. nodes[n] \in R
        BY ONLY <4>2, n \in DOMAIN nodes
      <4> QED
        BY <4>1, <4>3
    <3>2. nodes[n].data # Pending
      BY <1>1, Zenon DEF GraphIsSound
    <3>3. Modulus \in Nat
      BY ContextAssumption
    <3> QED
      BY <3>1, <3>2, <3>3 DEF Data
  <2>2. PICK d : d = nodes[n].data
    OBVIOUS
  <2>3. d \in 1 - MCModulus..MCModulus - 1
    BY <2>1, <2>2
  <2>4. Exact[d] = \A A \in Stores : Value(A) = d => ExactFor(A)
    BY <2>3 DEF Exact
  <2> QED
    BY <2>2, <2>4, StoresAreExact
<1> QED
  BY <1>1, ContextTypes, GraphStaysSound, PTL
=============================================================================
