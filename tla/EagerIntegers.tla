---------------------------- MODULE EagerIntegers ----------------------------
(***************************************************************************)
(* What the integers of a context promise: each has a value the moment it  *)
(* is made, assigned or computed.  Sums are cut off at Modulus, keeping    *)
(* their sign.                                                             *)
(***************************************************************************)
EXTENDS Integers

CONSTANTS Vars, Modulus, Numbers, Gone

VARIABLE value   \* of each integer, Gone where there is none

Truncate(n) == IF n >= 0 THEN n % Modulus ELSE -((-n) % Modulus)

Init == value = [v \in Vars |-> Gone]

Make(old, new, v, n) == new = [old EXCEPT ![v] = n]
Copy(old, new, v, u) == new = [old EXCEPT ![v] = old[u]]
Move(old, new, v, u) == v # u /\ new = [old EXCEPT ![v] = old[u], ![u] = Gone]
Add(old, new, v, u, w) == new = [old EXCEPT ![v] = Truncate(old[u] + old[w])]
Destroy(old, new, v) == new = [old EXCEPT ![v] = Gone]

\* An integer is made, copied or computed where there is none, from those there
\* are; a live one is assigned to, or destroyed; both may take another's value.
Step(old, new) ==
  LET live == {v \in Vars : old[v] # Gone} IN
  \/ \E v \in Vars \ live : \/ \E n \in Numbers : Make(old, new, v, n)
                            \/ \E u, w \in live : Add(old, new, v, u, w)
  \/ \E v \in Vars, u \in live : Copy(old, new, v, u) \/ Move(old, new, v, u)
  \/ \E v \in live : Destroy(old, new, v)

\* A step that changes no value is no step of the integers.
Next == \E old \in {value}, new \in {value'} : old # new /\ Step(old, new)

Spec == Init /\ [][Next]_value
=============================================================================
