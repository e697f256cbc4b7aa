--------------------------- MODULE MCLockFreeQueue ---------------------------
(***************************************************************************)
(* Small instances of LockFreeQueue.                                       *)
(***************************************************************************)
EXTENDS LockFreeQueue, TLC

\* Items are only stored and compared, so they can be exchanged in the runs
\* that check safety.
ItemSymmetry == Permutations(Items)
=============================================================================
