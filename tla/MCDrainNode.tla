----------------------------- MODULE MCDrainNode -----------------------------
(* Model-checking instances of DrainNode. *)
EXTENDS DrainNode, TLC

Symmetry == Permutations(Names)
==============================================================================
