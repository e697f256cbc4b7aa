------------------------------ MODULE MCMetaBlock ------------------------------
(***************************************************************************)
(* Small instances of MetaBlock: the threads are interchangeable.          *)
(***************************************************************************)
EXTENDS MetaBlock, TLC

ThreadSymmetry == Permutations(Threads)
=============================================================================
