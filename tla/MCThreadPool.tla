----------------------------- MODULE MCThreadPool -----------------------------
(***************************************************************************)
(* Small instances of ThreadPool: the first task the owner submits submits *)
(* those that the owner does not, while it runs.                           *)
(***************************************************************************)
EXTENDS ThreadPool

CONSTANTS t1, t2, t3

MCChildren == [t \in Tasks |-> IF t # t1 THEN <<>>
                               ELSE SelectSeq(<<t2, t3>>, LAMBDA u : u \in Tasks \ Roots)]
=============================================================================
