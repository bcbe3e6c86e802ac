---------------------------- MODULE MCAgentIdentity ----------------------------
\* AgentIdentity for TLC.  The processes are interchangeable.
EXTENDS AgentIdentity, TLC

CONSTANTS r1, r2

Symmetry == Permutations(Registrars)
=============================================================================
