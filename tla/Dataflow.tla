------------------------------- MODULE Dataflow -------------------------------
(***************************************************************************)
(* What an update of an expression graph promises: the result of a node is *)
(* complete once, after those of its operands, and the update returns only *)
(* when every node is.                                                     *)
(***************************************************************************)
EXTENDS Naturals, Sequences

CONSTANT Nodes

VARIABLES operands,   \* the operands of each node, none for a constant
          complete,   \* the nodes whose result is complete
          returned    \* whether the update has returned

graphVars == <<operands, complete, returned>>

Operands(n) == {operands[n][i] : i \in DOMAIN operands[n]}
Constants == {n \in Nodes : operands[n] = <<>>}

GraphInit == complete = Constants /\ returned = FALSE

Complete(n) == /\ n \notin complete
               /\ Operands(n) \subseteq complete
               /\ complete' = complete \cup {n}
               /\ UNCHANGED <<operands, returned>>

Return == /\ complete = Nodes
          /\ returned' = TRUE
          /\ UNCHANGED <<operands, complete>>

GraphNext == Return \/ \E n \in Nodes : Complete(n)

GraphSpec == GraphInit /\ [][GraphNext]_graphVars
=============================================================================
