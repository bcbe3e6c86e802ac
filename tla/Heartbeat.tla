------------------------------ MODULE Heartbeat ------------------------------
(***************************************************************************)
(* What a heartbeat reports (discoverForMode of internal/agent/runner.go): *)
(* a cluster agent reports from its cache, the module InventoryCache.  Its *)
(* statuses, those of a host and the storage of a host are functions of    *)
(* what the agent finds, and a report depends on no earlier one; `found`   *)
(* is what a heartbeat finds.                                              *)
(***************************************************************************)
EXTENDS InventoryCache, RuntimeStatus, HostTelemetry

VARIABLE found

Nothing == [kind |-> "nothing"]

\* The kinds of things that reports are made of, one at a time.
FindRuntime ==
    \E d \in Deployments, few \in SeqsUpTo(Pods, MaxPods) :
        found' = [kind |-> "runtime", deployment |-> d, pods |-> {few[i] : i \in DOMAIN few}]
FindCluster == \E c \in ClusterObjects : found' = [kind |-> "cluster", objects |-> c]
FindStorage == \E table \in MountTables : found' = [kind |-> "storage", mounts |-> table]

HeartbeatInit == Init /\ found = Nothing

\* discoverForMode, with and without the cluster's cache.
Discover ==
    /\ found = Nothing /\ now = 0 /\ pc = "idle" /\ faults = 0
    /\ FindRuntime \/ FindCluster \/ FindStorage
    /\ UNCHANGED vars

HeartbeatNext ==
    \/ found = Nothing /\ Next /\ UNCHANGED found
    \/ Discover

HeartbeatSpec == HeartbeatInit /\ [][HeartbeatNext]_<<vars, found>>
-----------------------------------------------------------------------------
(* Properties.                                                             *)

\* A failing reason hides behind that of an earlier container.
Masked(pod) == PodFailure(pod) /\ FirstReason(pod) # "failing" /\ pod.phase # "Failed"

\* The heartbeat of a host and an inspection of the same objects report the same
\* status, except: a runtime with some of its replicas ready is running for one
\* and starting for the other; what is left of a failed pod of a runtime scaled to
\* zero is an error for the inspection only; so is a failing container behind one
\* that has another reason; and a host that could not list the pods knows of no
\* failure.
StatusesAgree ==
    found.kind = "runtime" =>
        \A listed \in BOOLEAN :
            LET d == found.deployment
                detected == DetectedStatus(d, found.pods, listed)
                inspected == InspectedStatus(d, found.pods)
            IN \/ detected = inspected
               \/ detected = "running" /\ inspected = "starting" /\ d.ready < d.desired
               \/ detected = "stopped" /\ inspected = "error" /\ d.desired = 0
               \/ /\ detected = "starting" /\ inspected = "error"
                  /\ ~listed \/ \E pod \in found.pods : Masked(pod)

\* A heartbeat that refreshes the inventory and the next one, which reads the
\* labelled objects only, report the same statuses of the same cluster, unless the
\* inventory says that its lists were cut off.
PathsAgreeUnlessTruncated ==
    found.kind = "cluster" =>
        Truncated(found.objects) \/ FullStatuses(found.objects) = SelectedStatuses(found.objects)

\* The storage total has every device that can be reached once, however often it
\* is mounted, or the report says that it is cut off; one mount over another is
\* outside that promise (the one below is kept, and gets the usage of the other).
DevicesCountedOnce ==
    found.kind = "storage" =>
        LET table == found.mounts
        IN Overmounted(table) \/
           \A d \in Devices :
               /\ TimesCounted(table, d) <= 1
               /\ TimesCounted(table, d) = 0 =>
                     \/ d \in VirtualDevices \/ StorageTruncated(table)
                     \/ \A i \in DOMAIN table : table[i].device = d => table[i].point \in Unreachable
=============================================================================
