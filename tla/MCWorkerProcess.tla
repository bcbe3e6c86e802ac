--------------------------- MODULE MCWorkerProcess ---------------------------
(* Model-checking instances of WorkerProcess. *)
EXTENDS WorkerProcess, TLC

Symmetry == Permutations(Runtimes) \union Permutations(Defs)
==============================================================================
