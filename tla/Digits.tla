-------------------------------- MODULE Digits --------------------------------
(***************************************************************************)
(* Long integers: their stores of digits, the kernels that compute with    *)
(* them, and their text.  A store has Length digits below Base, the least  *)
(* first, and a sign, 1 for positive; Base is a power of IoBase, so that   *)
(* Group digits of the text make one of the store.                         *)
(***************************************************************************)
EXTENDS Integers, FiniteSetsExt, SequencesExt

CONSTANTS
  IoBase, Group,               \* io_base and log_store_base
  Precision,                   \* what a context is asked for
  MinLogLength, MaxLogLength   \* the settings

ASSUME DigitAssumption ==
  /\ IoBase \in 2..36             \* digit_parse knows as many digits
  /\ Group \in Nat \ {0}
  /\ {Precision, MinLogLength, MaxLogLength} \subseteq Nat
  /\ MinLogLength < MaxLogLength   \* the constructor of a store throws if not

Power(base, n) ==
  LET power[k \in 0..n] == IF k = 0 THEN 1 ELSE base * power[k - 1] IN power[n]

Base == Power(IoBase, Group)

\* precision_to_log_len: the logarithm of the groups needed, rounded up.
LogLength(precision) ==
  LET groups == (precision + Group - 1) \div Group
  IN  Min({k \in 0..groups : Power(2, k) >= groups})

\* Both limits apply to what the context asks for.
Length == Power(2, Min({Max({LogLength(Precision), MinLogLength}), MaxLogLength}))

Indices == 1..Length
Magnitudes == [Indices -> 0..Base - 1]
Stores == [sign : {0, 1}, digits : Magnitudes]

\* What digits in some base stand for, the least first.
Denotes(digits, base) ==
  LET sum[i \in 0..Len(digits)] ==
        IF i = 0 THEN 0 ELSE sum[i - 1] + digits[i] * Power(base, i - 1)
  IN  sum[Len(digits)]

Value(store) ==
  IF store.sign = 1 THEN Denotes(store.digits, Base)
                    ELSE -Denotes(store.digits, Base)

-----------------------------------------------------------------------------
(* The kernels of ArithmeticFunctions.hpp: the digits of the result, and   *)
(* the carry that is left in the end.                                      *)

\* Slip: a digit may be as large as the base.
AdditionLate(a, b) ==
  LET carry[i \in 0..Length] ==
        IF i > 0 /\ a[i] + b[i] + carry[i - 1] > Base THEN 1 ELSE 0
  IN  [digits |-> [i \in Indices |-> a[i] + b[i] + carry[i - 1] - Base * carry[i]],
       carry |-> carry[Length]]

Addition(a, b) ==
  LET carry[i \in 0..Length] ==
        IF i > 0 /\ a[i] + b[i] + carry[i - 1] >= Base THEN 1 ELSE 0
  IN  [digits |-> [i \in Indices |-> a[i] + b[i] + carry[i - 1] - Base * carry[i]],
       carry |-> carry[Length]]

\* For a >= b.
Subtraction(a, b) ==
  LET carry[i \in 0..Length] ==
        IF i > 0 /\ a[i] < b[i] + carry[i - 1] THEN 1 ELSE 0
  IN  [digits |-> [i \in Indices |-> a[i] + Base * carry[i] - b[i] - carry[i - 1]],
       carry |-> carry[Length]]

\* The highest digit that differs decides.
Compare(a, b) ==
  LET differ == {i \in Indices : a[i] # b[i]}
  IN  IF differ = {} THEN 0 ELSE IF a[Max(differ)] > b[Max(differ)] THEN 1 ELSE -1

\* 2 * Length digits: one row of products after the other, the carry of a row
\* ends in the digit after it.
Row(c, a, b, i) ==
  LET carry[j \in 0..Length] ==
        IF j = 0 THEN 0 ELSE (c[i + j - 1] + a[i] * b[j] + carry[j - 1]) \div Base
  IN  [k \in DOMAIN c |->
         IF k \in i..i + Length - 1
         THEN (c[k] + a[i] * b[k - i + 1] + carry[k - i]) % Base
         ELSE IF k = i + Length THEN carry[Length] ELSE c[k]]

Multiplication(a, b) ==
  LET rows[i \in 0..Length] ==
        IF i = 0 THEN [k \in 1..2 * Length |-> 0] ELSE Row(rows[i - 1], a, b, i)
  IN  rows[Length]

-----------------------------------------------------------------------------
(* Addition of stores: ArithmeticAddTaskForInteger::run.  An overflow is   *)
(* logged and its carry forgotten.                                         *)

Sum(A, B) ==
  IF A.sign = B.sign
  THEN [sign |-> A.sign, digits |-> Addition(A.digits, B.digits).digits]
  ELSE LET order == Compare(A.digits, B.digits)
           larger == IF order < 0 THEN B ELSE A
           smaller == IF order < 0 THEN A ELSE B
       IN  [sign |-> IF order = 0 THEN 1 ELSE larger.sign,
            digits |-> IF order = 0 THEN [i \in Indices |-> 0]
                       ELSE Subtraction(larger.digits, smaller.digits).digits]

-----------------------------------------------------------------------------
(* Text: a sign and digits, the highest first.  A character is its number, *)
(* NotADigit if it is none.                                                *)

NotADigit == 36

\* parse_string_to_integer, from the end: full groups, then what is left.  A
\* digit is compared with the base of the store, not with that of the text.
GroupAt(ds, k) ==
  Denotes([i \in 1..Group |-> IF (k - 1) * Group + i > Len(ds) THEN 0
                              ELSE ds[Len(ds) + 1 - (k - 1) * Group - i]], IoBase)

Parses(text) ==
  LET full == Len(text.ds) \div Group
  IN  /\ text.sign # "" \/ text.ds # <<>>
      /\ \A i \in DOMAIN text.ds : text.ds[i] # NotADigit /\ text.ds[i] < Base
      /\ full < Length \/ (full = Length /\ GroupAt(text.ds, full + 1) = 0)

Parsed(text) == [sign |-> IF text.sign = "-" THEN 0 ELSE 1,
                 digits |-> [k \in Indices |-> GroupAt(text.ds, k)]]

\* write_store_digit_to_stream: zeros fill a group up, unless it is the first.
Width(d) == Min({n \in 1..Group : d < Power(IoBase, n)})
GroupText(d, filling) ==
  LET n == IF filling THEN Group ELSE Width(d)
  IN  [i \in 1..n |-> (d \div Power(IoBase, n - i)) % IoBase]

\* parse_integer_to_stream: from the highest digit that is not zero.
Printed(store) ==
  LET top == Max({0} \cup {i \in Indices : store.digits[i] # 0})
  IN  [sign |-> IF store.sign = 0 THEN "-" ELSE "",
       ds |-> IF top = 0 THEN <<0>>
              ELSE FlattenSeq([k \in 1..top |->
                     GroupText(store.digits[top + 1 - k], k > 1)])]

-----------------------------------------------------------------------------
(* Properties. *)

Truncate(n) == LET m == Power(Base, Length) IN IF n >= 0 THEN n % m ELSE -((-n) % m)
Meaning(text) ==
  (IF text.sign = "-" THEN -1 ELSE 1) * Denotes(Reverse(text.ds), IoBase)
ProperTexts ==
  [sign : {"", "+", "-"}, ds : UNION {[1..n -> 0..IoBase - 1] : n \in 1..Precision}]

\* The kernels compute with the numbers that the digits of A and any other store
\* stand for: sums, cut off at the length of a store, and products in full.  A is
\* printed as text that is read as A.
ExactFor(A) ==
  /\ \A B \in Stores : /\ Sum(A, B) \in Stores
                       /\ Value(Sum(A, B)) = Truncate(Value(A) + Value(B))
                       /\ Denotes(Multiplication(A.digits, B.digits), Base)
                            = Denotes(A.digits, Base) * Denotes(B.digits, Base)
  /\ Parses(Printed(A)) /\ Parsed(Printed(A)) = A

\* A context takes every text that is not longer than the precision it was
\* asked for, unless that is beyond the limit, and reads the number it stands for.
TextIsRead == LogLength(Precision) <= MaxLogLength =>
  \A text \in ProperTexts : Parses(text) /\ Value(Parsed(text)) = Meaning(text)
=============================================================================
