------------------------------ MODULE DrainNode ------------------------------
(***************************************************************************)
(* The k8s.drain-node task of a cluster agent: drainNode and its helpers   *)
(* in internal/agent/kubernetes_node_lifecycle.go.  It cordons the node,   *)
(* lists its pods, decides which of them to evict, asks for each eviction  *)
(* until it is accepted, then polls until each pod is gone.  A drain that  *)
(* times out or loses the API fails with a retryable error, and the task   *)
(* is executed again from the start (TaskRunner).                          *)
(*                                                                         *)
(* Meanwhile the cluster goes on: pods terminate, controllers recreate     *)
(* them (a StatefulSet under the same name), somebody else may delete a    *)
(* pod, uncordon the node or bind a pod to it, and an eviction that the    *)
(* drain got no answer to may be carried out long after it has given up.   *)
(***************************************************************************)
EXTENDS Naturals, FiniteSets, SequencesExt

CONSTANTS Names,       \* names of pods (namespace/name)
          MaxUids,     \* bound: incarnations of a pod name
          MaxAttempts, \* bound: executions of the task
          MaxMeddling  \* bound: deletions, uncordonings and bindings by others

ASSUME DrainAssumption ==
    /\ IsFiniteSet(Names)
    /\ MaxUids \in Nat \ {0} /\ MaxAttempts \in Nat /\ MaxMeddling \in Nat

\* What selectDrainPods tells apart, and "stateful": a controlled pod that comes
\* back under its name.  "scratch" uses an emptyDir, "bare" has no controller,
\* "mirror" is static and "finished" has succeeded or failed.
Kinds == {"plain", "stateful", "daemon", "mirror", "scratch", "bare", "finished"}

Options == [ignoreDaemonSets : BOOLEAN, deleteEmptyDirData : BOOLEAN, force : BOOLEAN]

VARIABLES
    \* the cluster (external)
    kind,          \* per pod name
    uid,           \* per pod name: its last incarnation
    where,         \* per pod name: here (on the node), elsewhere or nowhere
    terminating,   \* the names whose pod has a deletionTimestamp
    unschedulable, \* the node is cordoned
    meddling,      \* what others did
    \* the drain
    options,       \* its payload
    pc, attempts,
    queue,         \* candidates whose eviction has not been accepted
    remaining,     \* candidates that waitForPodsDeleted has not seen gone
    result,        \* how the last attempt ended
    \* the network (external)
    late,          \* evictions without an answer that may still be carried out
    \* bookkeeping for the properties
    candidates,    \* the incarnations the attempt has selected
    evicted,       \* the incarnations whose eviction was carried out, and where
    unanswered     \* the names that an eviction without an answer was for

clusterVars == <<kind, uid, where, terminating, unschedulable>>
drainVars   == <<options, pc, attempts, queue, remaining, result>>
ghostVars   == <<candidates, evicted>>
lateVars    == <<late, unanswered>>
vars == <<clusterVars, meddling, drainVars, ghostVars, lateVars>>

Incarnations == [name : Names, uid : 1..MaxUids]
Evictions    == [name : Names, uid : 1..MaxUids, at : {"here", "elsewhere"}, attempt : 1..MaxAttempts]

TypeOK ==
    /\ kind \in [Names -> Kinds]
    /\ uid \in [Names -> 1..MaxUids]
    /\ where \in [Names -> {"here", "elsewhere", "nowhere"}]
    /\ terminating \subseteq {n \in Names : where[n] # "nowhere"}
    /\ unschedulable \in BOOLEAN
    /\ meddling \in 0..MaxMeddling
    /\ options \in Options
    /\ pc \in {"idle", "cordon", "list", "evict", "wait"}
    /\ attempts \in 0..MaxAttempts
    /\ queue \in Seq(Names)
    /\ remaining \subseteq Names
    /\ result \in {"none", "drained", "refused", "timeout", "error", "failed"}
    /\ candidates \subseteq Incarnations
    /\ evicted \subseteq Evictions
    /\ late \subseteq [name : Names, attempt : 1..MaxAttempts]
    /\ unanswered \subseteq Names

Init ==
    /\ kind \in [Names -> Kinds]
    /\ uid = [n \in Names |-> 1]
    /\ where \in [Names -> {"here", "nowhere"}]
    /\ terminating = {}
    /\ unschedulable \in BOOLEAN
    /\ meddling = 0
    /\ options \in Options
    /\ pc = "idle" /\ attempts = 0 /\ queue = <<>> /\ remaining = {} /\ result = "none"
    /\ candidates = {} /\ evicted = {} /\ late = {} /\ unanswered = {}

-----------------------------------------------------------------------------
(* The drain.                                                              *)

Return(outcome) ==
    /\ pc' = "idle" /\ queue' = <<>> /\ remaining' = {} /\ result' = outcome

\* The task is dispatched: first, or again after a retryable failure.
Begin ==
    /\ pc = "idle"
    /\ attempts < MaxAttempts
    /\ result \in {"none", "timeout", "error"}
    /\ attempts' = attempts + 1
    /\ pc' = "cordon" /\ result' = "none"
    /\ candidates' = {}
    /\ UNCHANGED <<clusterVars, meddling, options, queue, remaining, evicted, lateVars>>

\* Mutation of Cordon: the node is not patched.
CordonSkipped ==
    /\ pc = "cordon"
    /\ pc' = "list"
    /\ UNCHANGED <<clusterVars, meddling, options, attempts, queue, remaining, result, ghostVars, lateVars>>

\* setNodeUnschedulable: nothing to do, or a patch under the resource version read.
Cordon ==
    /\ pc = "cordon"
    /\ unschedulable' = TRUE
    /\ pc' = "list"
    /\ UNCHANGED <<kind, uid, where, terminating, meddling, options, attempts, queue,
                   remaining, result, ghostVars, lateVars>>

\* selectDrainPods looks at the pods of the node that are not on their way out.
Considered(n) ==
    /\ where[n] = "here" /\ n \notin terminating
    /\ kind[n] \notin {"finished", "mirror"}

\* The options do not allow to evict (or, for a DaemonSet, to leave) pod n.
Forbidden(n) ==
    \/ kind[n] = "daemon" /\ ~options.ignoreDaemonSets
    \/ kind[n] = "scratch" /\ ~options.deleteEmptyDirData
    \/ kind[n] = "bare" /\ ~options.force

\* listPodsOnNode and selectDrainPods: one forbidden pod refuses the drain.
List ==
    /\ pc = "list"
    /\ \A n \in Names : Considered(n) => ~Forbidden(n)
    /\ LET chosen == {n \in Names : Considered(n) /\ kind[n] # "daemon"}
       IN /\ queue' \in SetToSeqs(chosen)
          /\ remaining' = chosen
          /\ candidates' = {[name |-> n, uid |-> uid[n]] : n \in chosen}
    /\ pc' = "evict"
    /\ UNCHANGED <<clusterVars, meddling, options, attempts, result, evicted, lateVars>>

\* The error is permanent: the task is not executed again.
Refuse ==
    /\ pc = "list"
    /\ \E n \in Names : Considered(n) /\ Forbidden(n)
    /\ Return("refused")
    /\ UNCHANGED <<clusterVars, meddling, options, attempts, ghostVars, lateVars>>

\* evictPodUntilAccepted asks for the pod by its name.  404: there is none.
\* (429, too many requests, is answered as long as a PodDisruptionBudget forbids
\* the eviction, and asked again half a second later.)
EvictNotFound ==
    /\ pc = "evict" /\ queue # <<>>
    /\ where[Head(queue)] = "nowhere"
    /\ queue' = Tail(queue)
    /\ UNCHANGED <<clusterVars, meddling, options, pc, attempts, remaining, result, ghostVars, lateVars>>

\* Mutation of EvictAccepted: the answer 404 is not told apart.
EvictUnchecked ==
    /\ pc = "evict" /\ queue # <<>>
    /\ terminating' = terminating \union {Head(queue)}
    /\ queue' = Tail(queue)
    /\ UNCHANGED <<kind, uid, where, unschedulable, meddling, options, pc, attempts,
                   remaining, result, ghostVars, lateVars>>

\* The API server carries out an eviction.
Evict(n, attempt) ==
    /\ where[n] # "nowhere"
    /\ terminating' = terminating \union {n}
    /\ evicted' = evicted \union
           {[name |-> n, uid |-> uid[n], at |-> where[n], attempt |-> attempt]}

EvictAccepted ==
    /\ pc = "evict" /\ queue # <<>>
    /\ Evict(Head(queue), attempts)
    /\ queue' = Tail(queue)
    /\ UNCHANGED <<kind, uid, where, unschedulable, meddling, options, pc, attempts,
                   remaining, result, candidates, lateVars>>

\* Mutation of AllAccepted: the drain ends without waiting.
AllAcceptedDrained ==
    /\ pc = "evict" /\ queue = <<>>
    /\ Return("drained")
    /\ UNCHANGED <<clusterVars, meddling, options, attempts, ghostVars, lateVars>>

AllAccepted ==
    /\ pc = "evict" /\ queue = <<>>
    /\ pc' = "wait"
    /\ UNCHANGED <<clusterVars, meddling, options, attempts, queue, remaining, result, ghostVars, lateVars>>

\* waitForPodsDeleted asks for the pod by its name, too.
SeenGone(n) ==
    /\ pc = "wait" /\ n \in remaining
    /\ where[n] = "nowhere"
    /\ remaining' = remaining \ {n}
    /\ UNCHANGED <<clusterVars, meddling, options, pc, attempts, queue, result, ghostVars, lateVars>>

Drained ==
    /\ pc = "wait" /\ remaining = {}
    /\ Return("drained")
    /\ UNCHANGED <<clusterVars, meddling, options, attempts, ghostVars, lateVars>>

\* The deadline passes in waitForDrainRetry: the head of the queue was answered
\* 429, or every remaining name is still there.
TimeOut ==
    /\ \/ pc = "evict" /\ queue # <<>> /\ where[Head(queue)] # "nowhere"
       \/ pc = "wait" /\ remaining # {} /\ \A n \in remaining : where[n] # "nowhere"
    /\ Return("timeout")
    /\ UNCHANGED <<clusterVars, meddling, options, attempts, ghostVars, lateVars>>

\* A request fails, the deadline passes during one, or the lease is lost: an error
\* that is retryable, or one that is not (an answer such as 403).  An eviction that
\* was carried out without an answer is EvictAccepted followed by Fail; one may also
\* be carried out later.  (So may the cordon, which the next attempt then finds done.)
Fail ==
    /\ pc # "idle"
    /\ \E outcome \in {"error", "failed"} : Return(outcome)
    /\ \/ UNCHANGED lateVars
       \/ /\ pc = "evict" /\ queue # <<>>
          /\ late' = late \union {[name |-> Head(queue), attempt |-> attempts]}
          /\ unanswered' = unanswered \union {Head(queue)}
    /\ UNCHANGED <<clusterVars, meddling, options, attempts, ghostVars>>

-----------------------------------------------------------------------------
(* The cluster.                                                            *)

\* It goes by the name, whatever pod has it by now.
DeliverLate(m) ==
    /\ late' = late \ {m}
    /\ \/ Evict(m.name, m.attempt)
       \/ where[m.name] = "nowhere" /\ UNCHANGED <<terminating, evicted>>
    /\ UNCHANGED <<kind, uid, where, unschedulable, meddling, drainVars, candidates, unanswered>>

\* A terminating pod has ended and its object is deleted.
Terminated(n) ==
    /\ n \in terminating
    /\ where' = [where EXCEPT ![n] = "nowhere"]
    /\ terminating' = terminating \ {n}
    /\ UNCHANGED <<kind, uid, unschedulable, meddling, drainVars, ghostVars, lateVars>>

\* A StatefulSet recreates its pod, on this node only when it is schedulable.
Recreated(n) ==
    /\ kind[n] = "stateful" /\ where[n] = "nowhere"
    /\ uid[n] < MaxUids
    /\ uid' = [uid EXCEPT ![n] = @ + 1]
    /\ \E w \in {"here", "elsewhere"} :
        /\ w = "here" => ~unschedulable
        /\ where' = [where EXCEPT ![n] = w]
    /\ UNCHANGED <<kind, terminating, unschedulable, meddling, drainVars, ghostVars, lateVars>>

\* Somebody else deletes a pod, uncordons the node, or binds a pod to it in spite
\* of the cordon (a scheduler that has not seen it).
Meddle ==
    /\ meddling < MaxMeddling
    /\ meddling' = meddling + 1
    /\ \/ /\ unschedulable
          /\ unschedulable' = FALSE
          /\ UNCHANGED <<uid, where, terminating>>
       \/ \E n \in Names :
            /\ where[n] # "nowhere" /\ n \notin terminating
            /\ terminating' = terminating \union {n}
            /\ UNCHANGED <<uid, where, unschedulable>>
       \/ \E n \in Names :
            /\ where[n] = "nowhere" /\ uid[n] < MaxUids
            /\ uid' = [uid EXCEPT ![n] = @ + 1]
            /\ where' = [where EXCEPT ![n] = "here"]
            /\ UNCHANGED <<terminating, unschedulable>>
    /\ UNCHANGED <<kind, drainVars, ghostVars, lateVars>>

-----------------------------------------------------------------------------
DrainStep ==
    \/ Begin \/ Cordon \/ List \/ Refuse
    \/ EvictNotFound \/ EvictAccepted \/ AllAccepted
    \/ \E n \in Names : SeenGone(n)
    \/ Drained \/ TimeOut

Next ==
    \/ DrainStep \/ Fail
    \/ \E n \in Names : Terminated(n) \/ Recreated(n)
    \/ \E m \in late : DeliverLate(m)
    \/ Meddle

Spec == Init /\ [][Next]_vars

-----------------------------------------------------------------------------
(* Properties.                                                             *)

\* The incarnation is still on the node.
StillHere(i) == where[i.name] = "here" /\ uid[i.name] = i.uid

\* "DrainCordonsEvictsAndWaits": a drain that reports "drained" has waited until
\* every pod whose eviction it caused has left the node.
DrainWaits ==
    result = "drained" => \A e \in evicted : ~StillHere([name |-> e.name, uid |-> e.uid])

\* What a drain reports is true of the pods that the attempt has selected, in any
\* attempt: when it reports "drained" they have left the node (waiting by name is
\* enough, although the name may be taken again), and when the options refuse it none
\* has been evicted for a drain that cannot end.
ResultIsTrue ==
    /\ result = "drained" => \A i \in candidates : ~StillHere(i)
    /\ result = "refused" => \A e \in evicted : e.attempt < attempts

\* A drain only evicts pods of its node, and they do not come back to it since the
\* node was cordoned first, unless somebody else deletes a StatefulSet's pod under
\* the drain (it asks by name), uncordons the node or binds a pod.  Only an eviction
\* that nobody answered may make it, and those after it, strike the same name on
\* another node.
EvictsTheNode ==
    meddling = 0 => \A e \in evicted :
        /\ e.at = "here" \/ e.name \in unanswered
        /\ where[e.name] = "here" => uid[e.name] = e.uid
=============================================================================
