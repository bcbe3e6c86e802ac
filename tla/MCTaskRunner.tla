--------------------------- MODULE MCTaskRunner ---------------------------
(* Model-checking instance of TaskRunner. *)
EXTENDS TaskRunner
===========================================================================
