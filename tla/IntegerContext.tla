---------------------------- MODULE IntegerContext ----------------------------
(***************************************************************************)
(* The integers of one context: sums build a graph of nodes, an update     *)
(* computes it and turns every referenced node into a constant.  A node is *)
(* its place in the context's list, where an operation refers to earlier   *)
(* ones; what no list and no integer refers to is forgotten.  Stores are   *)
(* the numbers they stand for: module Digits has their digits and text.    *)
(***************************************************************************)
EXTENDS Integers, FiniteSetsExt, SequencesExt

CONSTANTS
  Vars,
  Modulus,   \* the first number too large for the digits of a store
  Numbers,   \* what proper texts stand for
  Refused,   \* a text that is not read: too long, empty, or with no digits
  Gone, Pending, Missing, Dangling,
  MaxNodes, MaxUpdates, MaxFailures, MaxSorts

\* A store has room for what is read into it, and what stands for "no number" is
\* not one.
ASSUME ContextAssumption ==
  /\ Modulus \in Nat \ {0} /\ MaxNodes \in Nat
  /\ Numbers \subseteq 1 - Modulus..Modulus - 1
  /\ {Pending, Gone} \cap (1 - Modulus..Modulus - 1) = {}
  /\ Dangling \notin Vars

VARIABLES
  nodes,       \* the list of nodes: operands (0 if constant), data, and how
               \* many units its procedure holds
  ref,         \* the node of each integer, 0 where there is none
  signatures,  \* the integers the context knows of
  need_update,
  released,    \* the integers that were moved from, as long as they exist
  status,      \* "running", or how the program ended, or "spoiled" once no update
               \* of the context can return
  spent        \* updates, failures and sorts so far, for the bounds

vars == <<nodes, ref, signatures, need_update, released, status, spent>>

Constant(data) == [a |-> 0, b |-> 0, data |-> data, units |-> 0]
IsConstant(n) == nodes[n].a = 0
Live(v) == ref[v] # 0
Running == status = "running"
Truncated(n) == IF n >= 0 THEN n % Modulus ELSE -((-n) % Modulus)
Room == Running /\ Len(nodes) < MaxNodes

Init ==
  /\ nodes = <<>> /\ ref = [v \in Vars |-> 0] /\ signatures = <<>>
  /\ need_update = FALSE /\ released = {} /\ status = "running"
  /\ spent = [updates |-> 0, failures |-> 0, sorts |-> 0]

-----------------------------------------------------------------------------
(* Integers come, go and are assigned. *)

\* The signature is entered before the text is read: a text that is refused
\* leaves it behind, without an integer.
Make(v, text) ==
  /\ Room /\ ~Live(v)
  /\ IF text # Refused
       THEN /\ nodes' = Append(nodes, Constant(text))
            /\ ref' = [ref EXCEPT ![v] = Len(nodes')]
            /\ signatures' = Append(signatures, v)
            /\ UNCHANGED spent
       ELSE /\ spent.failures < MaxFailures
            /\ nodes' = Append(nodes, Constant(0))
            /\ signatures' = Append(signatures, Dangling)
            /\ spent' = [spent EXCEPT !.failures = @ + 1]
            /\ UNCHANGED ref
  /\ released' = released \ {v}
  /\ UNCHANGED <<need_update, status>>

Copy(v, u) ==
  /\ Running /\ ~Live(v) /\ Live(u)
  /\ ref' = [ref EXCEPT ![v] = ref[u]]
  /\ signatures' = Append(signatures, v)
  /\ released' = released \ {v}
  /\ UNCHANGED <<nodes, need_update, status, spent>>

\* The new integer signs before the old one is destroyed.
MoveConstruct(v, u) ==
  /\ Running /\ ~Live(v) /\ Live(u)
  /\ ref' = [ref EXCEPT ![v] = ref[u], ![u] = 0]
  /\ signatures' = RemoveFirst(Append(signatures, v), u)
  /\ released' = (released \ {v}) \cup {u}
  /\ UNCHANGED <<nodes, need_update, status, spent>>

Assign(v, u) ==
  /\ Running /\ Live(v) /\ Live(u)
  /\ ref' = [ref EXCEPT ![v] = ref[u]]
  /\ UNCHANGED <<nodes, signatures, need_update, released, status, spent>>

\* Slip: the released integer stays known to the context.
MoveAssignOnly(v, u) ==
  /\ Running /\ Live(v) /\ Live(u) /\ v # u
  /\ ref' = [ref EXCEPT ![v] = ref[u], ![u] = 0]
  /\ released' = released \cup {u}
  /\ UNCHANGED <<nodes, signatures, need_update, status, spent>>

MoveAssign(v, u) ==
  /\ Running /\ Live(v) /\ Live(u) /\ v # u
  /\ ref' = [ref EXCEPT ![v] = ref[u], ![u] = 0]
  /\ signatures' = RemoveFirst(signatures, u)
  /\ released' = released \cup {u}
  /\ UNCHANGED <<nodes, need_update, status, spent>>

Destroy(v) ==
  /\ Running /\ Live(v)
  /\ ref' = [ref EXCEPT ![v] = 0]
  /\ signatures' = RemoveFirst(signatures, v)
  /\ UNCHANGED <<nodes, need_update, released, status, spent>>

Add(v, u, w) ==
  /\ Room /\ ~Live(v) /\ Live(u) /\ Live(w)
  /\ nodes' = Append(nodes, [a |-> ref[u], b |-> ref[w], data |-> Pending,
                             units |-> 0])
  /\ ref' = [ref EXCEPT ![v] = Len(nodes')]
  /\ signatures' = Append(signatures, v)
  /\ need_update' = TRUE
  /\ released' = released \ {v}
  /\ UNCHANGED <<status, spent>>

\* A released integer is a null pointer.  It throws where it would be copied or
\* moved, which changes nothing, and where it is printed, which may not throw;
\* the pointer is followed where it is assigned to or added.
AssignReleased(v, u) ==
  /\ Running /\ v \in released /\ Live(u) /\ status' = "undefined"
  /\ UNCHANGED <<nodes, ref, signatures, need_update, released, spent>>
AddReleased(v) ==
  /\ Running /\ v \in released /\ status' = "undefined"
  /\ UNCHANGED <<nodes, ref, signatures, need_update, released, spent>>
ShowReleased(v) ==
  /\ Running /\ v \in released /\ status' = "terminated"
  /\ UNCHANGED <<nodes, ref, signatures, need_update, released, spent>>

-----------------------------------------------------------------------------
(* update() *)

\* generate_procedure throws if it finds no memory, or an operand that has no
\* unit yet.
Unready(n) == ~IsConstant(n) /\ \E m \in {nodes[n].a, nodes[n].b} :
                                  m > n /\ nodes[m].units = 0

MayFail(k) == Unready(k) \/ spent.failures < MaxFailures

\* The exception leaves the units of the first k - 1 nodes in place.
GenerateFails(k) ==
  /\ MayFail(k)
  /\ nodes' = [n \in DOMAIN nodes |->
                 [nodes[n] EXCEPT !.units = IF n < k THEN @ + 1 ELSE @]]
  /\ spent' = [spent EXCEPT !.updates = @ + 1, !.failures = @ + 1]
  /\ UNCHANGED <<ref, signatures, need_update, released>>

\* A constant calls the successors of its first unit only, while the waiting
\* thread counts on every unit: with units of an earlier attempt it never ends,
\* if it does not call into the unit that the exception destroyed.
Hangs == \E n \in DOMAIN nodes : IsConstant(n) /\ nodes[n].units > 0

\* Slip: the flags are cleared after they are set.
KeptNone == {}

\* The nodes an integer refers to; the others lose their data once the tasks
\* have it.
Kept == {ref[v] : v \in {u \in Vars : Contains(signatures, u)}}

\* Slip: they lose it before.
ComputedFromKept ==
  LET result[n \in DOMAIN nodes] ==
        IF IsConstant(n) THEN (IF n \in Kept THEN nodes[n].data ELSE 0)
        ELSE Truncated(result[nodes[n].a] + result[nodes[n].b])
  IN  result

\* What the units compute, each after its operands.
Computed ==
  LET result[n \in DOMAIN nodes] ==
        IF IsConstant(n) THEN nodes[n].data
        ELSE Truncated(result[nodes[n].a] + result[nodes[n].b])
  IN  result

Results ==
  LET computed == Computed
  IN  [n \in DOMAIN nodes |-> IF n \in Kept THEN computed[n] ELSE Missing]

\* clean_up: a constant of its own for each signature.
Succeeds ==
  /\ \A n \in DOMAIN nodes : ~Unready(n)
  /\ nodes' = [i \in DOMAIN signatures |-> Constant(Results[ref[signatures[i]]])]
  /\ ref' = [v \in Vars |-> IF Live(v) THEN SelectInSeq(signatures, LAMBDA s : s = v)
                                       ELSE 0]
  /\ need_update' = FALSE
  /\ spent' = [spent EXCEPT !.updates = @ + 1]
  /\ UNCHANGED <<signatures, released>>

Attempt == Running /\ need_update /\ spent.updates < MaxUpdates

\* An update that returns, throws, or does neither.  The behaviour is undefined
\* if a signature was left behind by a refused text.
Update ==
  /\ Attempt /\ ~Contains(signatures, Dangling) /\ ~Hangs
  /\ Succeeds
  /\ UNCHANGED status
UpdateThrows(k) == Attempt /\ GenerateFails(k) /\ UNCHANGED status

\* No memory for the first calls or for the new constants: the nodes no integer
\* refers to have lost their data, some integers have constants that no list
\* holds, and every constant of the list has a unit, so that from then on an
\* update throws, hangs or is undefined.  What the context still holds is not
\* followed further.  Without memory for the count of the units, which is
\* noexcept, the program is terminated.
UpdateSpoils ==
  /\ Attempt /\ ~Contains(signatures, Dangling) /\ \A n \in DOMAIN nodes : ~Unready(n)
  /\ status' \in {"spoiled", "terminated"}
  /\ UNCHANGED <<nodes, ref, signatures, need_update, released, spent>>

UpdateNever ==
  /\ Attempt /\ (Hangs \/ Contains(signatures, Dangling))
  /\ status' \in IF Contains(signatures, Dangling) THEN {"undefined"}
                                                 ELSE {"hung", "undefined"}
  /\ UNCHANGED <<nodes, ref, signatures, need_update, released, spent>>

\* operator<<: an update, if one is needed, then the text of the node's data.
\* It is noexcept: what update() throws ends the program.
Show(v) ==
  /\ Live(v)
  /\ IF need_update THEN Update ELSE Running /\ UNCHANGED vars
ShowThrows(v) ==
  /\ Live(v) /\ Attempt /\ \E k \in DOMAIN nodes : MayFail(k)
  /\ status' = "terminated"
  /\ UNCHANGED <<nodes, ref, signatures, need_update, released, spent>>

-----------------------------------------------------------------------------
(* nodes_topological_sort: Kahn's algorithm, from the nodes without        *)
(* operands in the order of a hash table.                                  *)

Nexts(list, n) ==
  FlattenSeq([m \in DOMAIN list |-> (IF list[m].a = n THEN <<m>> ELSE <<>>)
                                 \o (IF list[m].b = n THEN <<m>> ELSE <<>>)])
Roots(list) == {n \in DOMAIN list : list[n].a = 0}

\* One next of the node taken from the queue: its degree, and the queue.
Relax(state, m) ==
  [state EXCEPT !.degree[m] = @ - 1,
                !.queue = IF state.degree[m] = 1 THEN Append(@, m) ELSE @]

\* One turn of the loop: the first of the queue is sorted, and its nexts relaxed.
Visit(list, state) ==
  IF state.queue = <<>> THEN state
  ELSE FoldLeft(Relax,
         [state EXCEPT !.queue = Tail(@), !.sorted = Append(@, Head(state.queue))],
         Nexts(list, Head(state.queue)))

Sorted(list, roots) ==
  LET degree == [n \in DOMAIN list |-> IF n \in Roots(list) THEN 0 ELSE 2]
  IN  FoldLeft(LAMBDA state, n : Visit(list, state),
               [queue |-> roots, degree |-> degree, sorted |-> <<>>], list).sorted

Sort ==
  /\ Running /\ Len(nodes) > 1 /\ spent.sorts < MaxSorts
  /\ \E roots \in SetToSeqs(Roots(nodes)) :
       LET sorted == Sorted(nodes, roots)
           place == [n \in 0..Len(nodes) |->
                       IF n = 0 THEN 0 ELSE SelectInSeq(sorted, LAMBDA m : m = n)]
       IN  /\ nodes' = [i \in DOMAIN sorted |->
                          [nodes[sorted[i]] EXCEPT !.a = place[@], !.b = place[@]]]
           /\ ref' = [v \in Vars |-> place[ref[v]]]
  /\ spent' = [spent EXCEPT !.sorts = @ + 1]
  /\ UNCHANGED <<signatures, need_update, released, status>>

-----------------------------------------------------------------------------
Texts == Numbers \cup {Refused}
Next ==
  \/ \E v \in Vars :
       \/ \E text \in Texts : Make(v, text)
       \/ \E u \in Vars : Copy(v, u) \/ MoveConstruct(v, u) \/ Assign(v, u)
                          \/ MoveAssign(v, u) \/ AssignReleased(v, u)
       \/ \E u, w \in Vars : Add(v, u, w)
       \/ Destroy(v) \/ Show(v) \/ ShowThrows(v) \/ AddReleased(v) \/ ShowReleased(v)
  \/ Update \/ UpdateSpoils \/ UpdateNever \/ (\E k \in DOMAIN nodes : UpdateThrows(k))
  \/ Sort

Spec == Init /\ [][Next]_vars

-----------------------------------------------------------------------------
(* Properties. *)

Data == (-Modulus + 1)..(Modulus - 1) \cup {Pending}

\* The context has its types.
TypeOK ==
  /\ nodes \in Seq([a : 0..MaxNodes, b : 0..MaxNodes, data : Data, units : Nat])
  /\ ref \in [Vars -> 0..Len(nodes)]
  /\ signatures \in Seq(Vars \cup {Dangling})
  /\ need_update \in BOOLEAN /\ released \subseteq Vars
  /\ status \in {"running", "spoiled", "terminated", "hung", "undefined"}

\* Whatever is copied, moved, destroyed or sorted, the context knows each live
\* integer exactly once and no other, and every operand stands in the list
\* before its operation, which is what update() relies on.  There is data in
\* every constant, and in every integer that is printed without an update.
GraphIsSound ==
  /\ \A v \in Vars : Cardinality({i \in DOMAIN signatures : signatures[i] = v})
                       = (IF Live(v) THEN 1 ELSE 0)
  /\ \A n \in DOMAIN nodes :
       /\ {nodes[n].a, nodes[n].b} \subseteq 0..n - 1
       /\ (nodes[n].a = 0) = (nodes[n].b = 0)
       /\ (nodes[n].data = Pending) = ~IsConstant(n)
  /\ ~need_update => \A v \in Vars : Live(v) => IsConstant(ref[v])

\* The lazily computed integers are the eager ones: whatever the program has
\* printed is the value the integer has had since it was made, copied or
\* computed, however many updates lie in between and even if some failed.
Eager == INSTANCE EagerIntegers WITH
  value <- LET computed == Computed
           IN  [v \in Vars |-> IF Live(v) THEN computed[ref[v]] ELSE Gone]
KeepsValues == Eager!Spec
=============================================================================
