---------------------------- MODULE RuntimeStatus ----------------------------
(***************************************************************************)
(* The status of a runtime from its Deployment and its pods.  The agent    *)
(* derives it in two ways: deriveRuntimeStatusFromPods of                  *)
(* internal/agent/runtime_status.go for the heartbeat of a host, and       *)
(* inspectRuntimeResult of internal/agent/kubernetes_runtime.go for the    *)
(* heartbeat of a cluster agent and for k8s.inspect-runtime everywhere.    *)
(* A cluster agent also reads the objects in two ways: all of them with    *)
(* the inventory, or only those that bear the runtime label.               *)
(***************************************************************************)
EXTENDS Naturals, FiniteSets, Sequences

CONSTANTS MaxItems,     \* kubernetesMaxListItems: what a list returns at most
          MaxStatuses,  \* maxRuntimeStatuses: what a report holds at most
          RuntimeIds,   \* values of the runtime label
          MaxReplicas, MaxPods, MaxContainers, MaxObjects \* bounds of the inputs

ASSUME StatusAssumption ==
    /\ MaxItems \in Nat /\ MaxStatuses \in Nat
    /\ MaxReplicas \in Nat /\ MaxPods \in Nat /\ MaxContainers \in Nat /\ MaxObjects \in Nat
    /\ "none" \notin RuntimeIds

SeqsUpTo(S, n) == UNION {[1..k -> S] : k \in 0..n}

\* Reasons by what the agent makes of them: "failing" are those of
\* runtimeFailureReason and isRuntimeFailureReason (CrashLoopBackOff, Error, ...),
\* "benign" all others (ContainerCreating, Completed, ...).
Reasons == {"none", "benign", "failing"}

\* Only a failed pod has a reason of its own (Evicted and others).
Pods == {pod \in [phase : {"Running", "Failed"}, reason : Reasons,
                  containers : SeqsUpTo(Reasons, MaxContainers)] :
            pod.phase = "Running" => pod.reason = "none"}

Deployments == [desired : 0..MaxReplicas, ready : 0..MaxReplicas]

-----------------------------------------------------------------------------
(* detectRuntimeStatuses: a host asks kubectl.                             *)

\* firstNonEmpty(pod.Status.Reason, firstContainerReason(...)).
FirstReason(pod) ==
    LET named == {i \in DOMAIN pod.containers : pod.containers[i] # "none"}
    IN IF pod.reason # "none" \/ named = {} THEN pod.reason
       ELSE pod.containers[CHOOSE i \in named : \A j \in named : i <= j]

\* deriveRuntimeStatusFromPods.
DerivedFromPods(d, pods) ==
    CASE d.desired = 0 -> "stopped"
      [] d.desired > 0 /\ d.ready > 0 -> "running"
      [] d.desired > 0 /\ d.ready = 0 ->
           IF \E pod \in pods : FirstReason(pod) = "failing" \/ pod.phase = "Failed"
             THEN "error" ELSE "starting"

\* A host whose list of pods fails goes on with the Deployments alone.
DetectedStatus(d, pods, listed) == DerivedFromPods(d, IF listed THEN pods ELSE {})

-----------------------------------------------------------------------------
(* inspectRuntimeResult.                                                   *)

\* kubernetesPodFailure: any container with a failing reason will do.
PodFailure(pod) ==
    pod.phase = "Failed" \/ \E i \in DOMAIN pod.containers : pod.containers[i] = "failing"

\* Mutation of InspectedStatus: a failing pod makes an error of a running runtime.
InspectedFailingFirst(d, pods) ==
    IF \E pod \in pods : PodFailure(pod) THEN "error"
    ELSE IF d.desired = 0 THEN "stopped"
    ELSE IF d.ready >= d.desired THEN "running" ELSE "starting"

InspectedStatus(d, pods) ==
    IF d.ready = 0 /\ \E pod \in pods : PodFailure(pod) THEN "error"
    ELSE IF d.desired = 0 THEN "stopped"
    ELSE IF d.ready >= d.desired THEN "running" ELSE "starting"

-----------------------------------------------------------------------------
(* The statuses of a cluster.  Objects are named by their place in the     *)
(* API's order, which is that of their namespaces and names.               *)

\* A Deployment is given by its label, a pod by its label and whether it fails.
\* Every Deployment wants one replica and has none.
Labels == RuntimeIds \union {"none"}
ClusterObjects == [deployments : SeqsUpTo([label : Labels], MaxObjects),
                   pods : SeqsUpTo([label : Labels, failing : BOOLEAN], MaxObjects)]

PodOf(object) ==
    [phase |-> IF object.failing THEN "Failed" ELSE "Running", reason |-> "none",
     containers |-> <<>>]

FirstOf(S, n) == {i \in S : Cardinality({j \in S : j < i}) < n}
Labelled(objects) == {i \in DOMAIN objects : objects[i].label # "none"}

\* runtimeStatusesFromObjects, of the objects that two lists have returned; the
\* report is cut before it is sorted.
StatusesFrom(c, deployments, pods) ==
    {[name |-> i, status |-> InspectedStatus([desired |-> 1, ready |-> 0],
         {PodOf(c.pods[j]) : j \in {k \in pods : c.pods[k].label = c.deployments[i].label}})] :
        i \in FirstOf(deployments \intersect Labelled(c.deployments), MaxStatuses)}

\* fullClusterSnapshot lists everything, runtimeStatuses by label.
FullStatuses(c) ==
    StatusesFrom(c, FirstOf(DOMAIN c.deployments, MaxItems), FirstOf(DOMAIN c.pods, MaxItems))
SelectedStatuses(c) ==
    StatusesFrom(c, FirstOf(Labelled(c.deployments), MaxItems), FirstOf(Labelled(c.pods), MaxItems))

\* Mutation of Truncated: the mark looks at the Deployments alone.
TruncatedDeployments(c) == Len(c.deployments) > MaxItems

\* The inventory says that its lists are cut off (countsTruncated).
Truncated(c) == Len(c.deployments) > MaxItems \/ Len(c.pods) > MaxItems
=============================================================================
