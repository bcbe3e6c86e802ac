-------------------------- MODULE MCClusterRuntime --------------------------
\* ClusterRuntime for TLC: a runtime with a claim, a Service and a Deployment.
EXTENDS ClusterRuntime

CONSTANTS deployment, service, claim

MCManifests == <<claim, service, deployment>>
=============================================================================
