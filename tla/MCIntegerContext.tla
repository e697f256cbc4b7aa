--------------------------- MODULE MCIntegerContext ---------------------------
(***************************************************************************)
(* A small instance of IntegerContext, with the stores of Digits: binary   *)
(* text, two digits of it in one of the store, two of these in a store.    *)
(***************************************************************************)
EXTENDS IntegerContext, Digits

MCModulus == Power(Base, Length)
MCNumbers == {-7}
MCVars == Permutations(Vars)

Exact == [n \in 1 - MCModulus..MCModulus - 1 |->
            \A A \in Stores : Value(A) = n => ExactFor(A)]

\* Whatever number a node holds, its digits are exact: in the sum and in the
\* product with every other store, and in its text.
DigitsAreExact ==
  TextIsRead /\ \A n \in DOMAIN nodes : IsConstant(n) => Exact[nodes[n].data]

\* nodes_topological_sort on every list of four nodes, whatever order the hash
\* table gives: no operation is put before its operands, and every node of a list
\* that update() can work with is kept.
Lists == {list \in [1..4 -> [a : 0..4, b : 0..4]] :
            \A n \in 1..4 : list[n].a <= list[n].b /\ (list[n].a = 0 => list[n].b = 0)}
Precedes(sorted, list) ==
  \A n \in Range(sorted) : {list[n].a, list[n].b} \ {0} \subseteq
    {sorted[i] : i \in 1..SelectInSeq(sorted, LAMBDA m : m = n) - 1}

ASSUME SortAssumption ==
  \A list \in Lists : \A roots \in SetToSeqs(Roots(list)) :
    LET sorted == Sorted(list, roots)
    IN  /\ IsInjective(sorted) /\ Precedes(sorted, list)
        /\ (\A n \in 1..4 : list[n].b < n) => Len(sorted) = 4
=============================================================================
