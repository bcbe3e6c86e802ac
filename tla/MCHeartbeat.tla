----------------------------- MODULE MCHeartbeat -----------------------------
\* Heartbeat for TLC.
EXTENDS Heartbeat

CONSTANTS deployments, pods, nodes, r1, r2, sda, sdb, proc
=============================================================================
