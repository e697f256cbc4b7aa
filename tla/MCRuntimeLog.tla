----------------------------- MODULE MCRuntimeLog -----------------------------
(***************************************************************************)
(* Small instances of RuntimeLog.                                          *)
(***************************************************************************)
EXTENDS RuntimeLog

CONSTANT f
MCSetup == [path |-> f, level |-> 0, capacity |-> 4]
=============================================================================
