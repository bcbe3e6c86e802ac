--------------------------- MODULE DrainNodeProofs ---------------------------
(***************************************************************************)
(* Theorems about the k8s.drain-node task (DrainNode), for any set of pod  *)
(* names, any number of incarnations, executions and acts of others.       *)
(***************************************************************************)
EXTENDS DrainNode, FiniteSetTheorems, SequenceTheorems, TLAPS

-----------------------------------------------------------------------------
(* The inductive invariant.                                                *)

\* An attempt has no result until it ends; it evicts nothing before it has listed
\* the pods, or when it refuses.
AttemptsInOrder ==
    /\ pc # "idle" => result = "none" /\ attempts \in 1..MaxAttempts
    /\ \A e \in evicted : e.attempt <= attempts
    /\ pc \in {"cordon", "list"} \/ result = "refused" =>
           \A e \in evicted : e.attempt < attempts

\* So do the evictions that are still in the network.
LateInOrder ==
    /\ \A m \in late : m.attempt <= attempts /\ m.name \in unanswered
    /\ pc \in {"cordon", "list"} \/ result = "refused" =>
           \A m \in late : m.attempt < attempts

\* A pod that was selected has left the node, for good, or is waited for.
WaitsForTheRest ==
    /\ \A i \in candidates : i.uid <= uid[i.name]
    /\ pc \in {"evict", "wait"} => \A i \in candidates : i.name \in remaining \/ ~StillHere(i)
    /\ result = "drained" => \A i \in candidates : ~StillHere(i)

\* While nobody meddles the node stays cordoned, and the pods that are still to be
\* evicted stay where they were, unless an eviction of an earlier attempt is carried
\* out.
Undisturbed ==
    meddling = 0 =>
        /\ pc \in {"list", "evict", "wait"} \/ evicted # {} \/ late # {} => unschedulable
        /\ \A k \in 1..Len(queue) :
               queue[k] \in unanswered \/ (where[queue[k]] = "here" /\ queue[k] \notin terminating)
        /\ \A j, k \in 1..Len(queue) : queue[j] = queue[k] => j = k
        /\ EvictsTheNode

DrainInv == TypeOK /\ AttemptsInOrder /\ LateInOrder /\ WaitsForTheRest /\ Undisturbed

LEMMA InitDrain == Init => DrainInv
  <1> SUFFICES ASSUME Init PROVE DrainInv
    OBVIOUS
  <1>1. TypeOK
    BY DrainAssumption DEF Init, TypeOK
  <1>2. AttemptsInOrder /\ LateInOrder /\ WaitsForTheRest
    BY DEF Init, AttemptsInOrder, LateInOrder, WaitsForTheRest
  <1>3. Undisturbed
    <2>1. Len(queue) = 0 /\ evicted = {} /\ late = {}
      BY DEF Init
    <2>2. QED
      BY <2>1 DEF Init, Undisturbed, EvictsTheNode
  <1>4. QED
    BY <1>1, <1>2, <1>3 DEF DrainInv

-----------------------------------------------------------------------------
(* Lemmas.                                                                 *)

\* The pods that were chosen come in some order, each once.
LEMMA OrderOfPods ==
    ASSUME NEW S \in SUBSET Names, NEW order \in SetToSeqs(S)
    PROVE  /\ order \in Seq(Names)
           /\ \A k \in 1..Len(order) : order[k] \in S
           /\ \A j, k \in 1..Len(order) : order[j] = order[k] => j = k
  <1>1. Cardinality(S) \in Nat
    BY DrainAssumption, FS_Subset, FS_CardinalityType
  <1>2. order \in [1..Cardinality(S) -> S]
    BY DEF SetToSeqs
  <1>3. order \in Seq(S) /\ Len(order) = Cardinality(S)
    <2>1. order \in Seq(S)
      BY <1>1, <1>2, SeqDef
    <2>2. DOMAIN order = 1..Len(order) /\ Len(order) \in Nat
      BY <2>1, LenProperties
    <2>3. QED
      BY <1>1, <1>2, <2>1, <2>2
  <1>4. order \in Seq(Names)
    BY <1>3, SeqMonotonic
  <1>5. QED
    BY <1>2, <1>3, <1>4 DEF SetToSeqs

\* What Tail leaves of a queue.
LEMMA TailOfQueue ==
    ASSUME queue \in Seq(Names), queue # <<>>
    PROVE  /\ Tail(queue) \in Seq(Names) /\ Head(queue) \in Names
           /\ 1 \in 1..Len(queue) /\ Head(queue) = queue[1]
           /\ \A k \in 1..Len(Tail(queue)) :
                 k + 1 \in 1..Len(queue) /\ Tail(queue)[k] = queue[k + 1]
  <1>1. Len(queue) \in Nat \ {0}
    BY EmptySeq
  <1>2. QED
    BY <1>1, HeadTailProperties

\* The end of an attempt, with or without an eviction left in the network.
LEMMA ReturnKeeps ==
    ASSUME DrainInv, pc # "idle", NEW outcome \in {"refused", "timeout", "error", "failed", "drained"},
           Return(outcome), UNCHANGED <<clusterVars, meddling, options, attempts, ghostVars>>,
           outcome = "refused" => pc = "list",
           outcome = "drained" => pc = "wait" /\ remaining = {},
           \/ UNCHANGED lateVars
           \/ /\ pc = "evict" /\ queue # <<>> /\ outcome \in {"error", "failed"}
              /\ late' = late \union {[name |-> Head(queue), attempt |-> attempts]}
              /\ unanswered' = unanswered \union {Head(queue)}
    PROVE  DrainInv'
  <1> USE DEF DrainInv, Return, clusterVars, ghostVars, lateVars
  <1>1. attempts \in 1..MaxAttempts /\ attempts \in Nat
    BY DrainAssumption DEF AttemptsInOrder
  <1>2. queue # <<>> => Head(queue) \in Names
    BY TailOfQueue DEF TypeOK
  <1>3. late' \subseteq [name : Names, attempt : 1..MaxAttempts] /\ unanswered' \subseteq Names
    BY <1>1, <1>2 DEF TypeOK
  <1>4. TypeOK'
    BY <1>3, EmptySeq DEF TypeOK
  <1>5. AttemptsInOrder'
    BY DEF AttemptsInOrder
  <1>6. LateInOrder'
    BY <1>1 DEF LateInOrder
  <1>7. WaitsForTheRest'
    BY DEF WaitsForTheRest, StillHere
  <1>8. Undisturbed'
    <2>1. Len(queue') = 0
      BY EmptySeq
    <2>2. late' # {} /\ meddling = 0 => unschedulable
      BY DEF Undisturbed
    <2>3. unanswered \subseteq unanswered'
      OBVIOUS
    <2>4. QED
      BY <2>1, <2>2, <2>3 DEF Undisturbed, EvictsTheNode
  <1>9. QED
    BY <1>4, <1>5, <1>6, <1>7, <1>8

\* A pod that has left the node does not come back as the same incarnation.
LEMMA GoneForGood ==
    ASSUME TypeOK, NEW i \in candidates, i.uid <= uid[i.name],
           \A m \in Names : uid'[m] = uid[m] \/ uid'[m] = uid[m] + 1,
           \A m \in Names : where'[m] = "here" => where[m] = "here" \/ uid'[m] = uid[m] + 1
    PROVE  /\ i.uid <= uid'[i.name]
           /\ ~StillHere(i) => ~StillHere(i)'
  <1>1. i.name \in Names /\ i.uid \in Nat
    BY DrainAssumption DEF TypeOK, Incarnations
  <1>2. uid[i.name] \in Nat
    BY <1>1, DrainAssumption DEF TypeOK
  <1>3. i.uid <= uid'[i.name]
    BY <1>1, <1>2
  <1>4. ASSUME where'[i.name] = "here", uid'[i.name] = i.uid
        PROVE  where[i.name] = "here" /\ uid[i.name] = i.uid
    BY <1>1, <1>2, <1>4
  <1>5. QED
    BY <1>3, <1>4 DEF StillHere

-----------------------------------------------------------------------------
(* The steps of the drain.                                                 *)

LEMMA BeginKeeps == DrainInv /\ Begin => DrainInv'
  <1> SUFFICES ASSUME DrainInv, Begin PROVE DrainInv'
    OBVIOUS
  <1> USE DEF DrainInv, Begin, clusterVars, lateVars
  <1>1. TypeOK'
    BY DrainAssumption DEF TypeOK
  <1>2. attempts \in 0..MaxAttempts /\ attempts < MaxAttempts /\ MaxAttempts \in Nat
    BY DrainAssumption DEF TypeOK
  <1>3. \A e \in evicted : e.attempt \in Nat
    BY DrainAssumption DEF TypeOK, Evictions
  <1>4. AttemptsInOrder'
    <2>1. \A e \in evicted : e.attempt < attempts' /\ e.attempt <= attempts'
      BY <1>2, <1>3 DEF AttemptsInOrder
    <2>2. attempts' \in 1..MaxAttempts
      BY <1>2
    <2>3. QED
      BY <2>1, <2>2 DEF AttemptsInOrder
  <1>5. LateInOrder'
    <2>1. \A m \in late : m.attempt \in Nat
      BY DrainAssumption DEF TypeOK
    <2>2. \A m \in late : m.attempt < attempts' /\ m.attempt <= attempts'
      BY <1>2, <2>1 DEF LateInOrder
    <2>3. QED
      BY <2>2 DEF LateInOrder
  <1>6. WaitsForTheRest' /\ Undisturbed'
    BY DEF WaitsForTheRest, Undisturbed, EvictsTheNode
  <1>7. QED
    BY <1>1, <1>4, <1>5, <1>6

LEMMA CordonKeeps == DrainInv /\ Cordon => DrainInv'
  <1> SUFFICES ASSUME DrainInv, Cordon PROVE DrainInv'
    OBVIOUS
  <1> USE DEF DrainInv, Cordon, ghostVars, lateVars
  <1>1. TypeOK'
    BY DEF TypeOK
  <1>2. AttemptsInOrder' /\ LateInOrder'
    BY DEF AttemptsInOrder, LateInOrder
  <1>3. WaitsForTheRest' /\ Undisturbed'
    BY DEF WaitsForTheRest, StillHere, Undisturbed, EvictsTheNode
  <1>4. QED
    BY <1>1, <1>2, <1>3

LEMMA ListKeeps == DrainInv /\ List => DrainInv'
  <1> SUFFICES ASSUME DrainInv, List PROVE DrainInv'
    OBVIOUS
  <1> USE DEF DrainInv
  <1> DEFINE chosen == {n \in Names : Considered(n) /\ kind[n] # "daemon"}
  <1>1. /\ chosen \in SUBSET Names /\ queue' \in SetToSeqs(chosen) /\ remaining' = chosen
        /\ candidates' = {[name |-> n, uid |-> uid[n]] : n \in chosen}
        /\ pc = "list" /\ pc' = "evict"
        /\ UNCHANGED <<clusterVars, meddling, options, attempts, result, evicted, lateVars>>
    BY DEF List
  <1>2. \A n \in chosen : where[n] = "here" /\ n \notin terminating
    BY DEF Considered
  <1> HIDE DEF chosen
  <1>3. /\ queue' \in Seq(Names)
        /\ \A k \in 1..Len(queue') : queue'[k] \in chosen
        /\ \A j, k \in 1..Len(queue') : queue'[j] = queue'[k] => j = k
    BY <1>1, OrderOfPods
  <1>4. TypeOK'
    <2>1. candidates' \subseteq Incarnations
      BY <1>1 DEF TypeOK, Incarnations
    <2>2. QED
      BY <1>1, <1>3, <2>1 DEF TypeOK, clusterVars, lateVars
  <1>5. AttemptsInOrder' /\ LateInOrder'
    BY <1>1 DEF AttemptsInOrder, LateInOrder, lateVars
  <1>6. WaitsForTheRest'
    <2>1. \A i \in candidates' : i.name \in remaining' /\ i.uid = uid[i.name] /\ i.name \in Names
      BY <1>1
    <2>2. \A n \in Names : uid[n] \in Nat
      BY DrainAssumption DEF TypeOK
    <2>3. result' # "drained" /\ uid' = uid
      BY <1>1 DEF AttemptsInOrder, clusterVars
    <2>4. QED
      BY <2>1, <2>2, <2>3 DEF WaitsForTheRest
  <1>7. Undisturbed'
    <2> SUFFICES ASSUME meddling = 0
                 PROVE  /\ unschedulable' /\ EvictsTheNode'
                        /\ \A k \in 1..Len(queue') :
                              where'[queue'[k]] = "here" /\ queue'[k] \notin terminating'
      BY <1>1, <1>3 DEF Undisturbed
    <2>1. unschedulable' /\ EvictsTheNode'
      BY <1>1 DEF Undisturbed, EvictsTheNode, clusterVars, lateVars
    <2>2. where' = where /\ terminating' = terminating
      BY <1>1 DEF clusterVars
    <2>3. QED
      BY <1>2, <1>3, <2>1, <2>2
  <1>8. QED
    BY <1>4, <1>5, <1>6, <1>7

\* Without others, the head of the queue is the first of several or the only one, and
\* where it was unless it has been evicted before.
LEMMA RestIsUndisturbed ==
    ASSUME DrainInv, queue # <<>>, queue' = Tail(queue), meddling = 0,
           UNCHANGED <<uid, where, unschedulable, unanswered>>,
           terminating' \subseteq terminating \union {Head(queue)}
    PROVE  /\ where[Head(queue)] = "here" \/ Head(queue) \in unanswered
           /\ \A k \in 1..Len(queue') :
                  \/ queue'[k] \in unanswered'
                  \/ where'[queue'[k]] = "here" /\ queue'[k] \notin terminating'
           /\ \A j, k \in 1..Len(queue') : queue'[j] = queue'[k] => j = k
  <1> USE DEF DrainInv
  <1>1. /\ 1 \in 1..Len(queue) /\ Head(queue) = queue[1] /\ queue' \in Seq(Names)
        /\ \A k \in 1..Len(queue') : k + 1 \in 1..Len(queue) /\ queue'[k] = queue[k + 1]
    BY TailOfQueue DEF TypeOK
  <1>2. /\ \A k \in 1..Len(queue) :
               queue[k] \in unanswered \/ (where[queue[k]] = "here" /\ queue[k] \notin terminating)
        /\ \A j, k \in 1..Len(queue) : queue[j] = queue[k] => j = k
    BY DEF Undisturbed
  <1>3. \A k \in 1..Len(queue') : queue'[k] # Head(queue)
    <2> SUFFICES ASSUME NEW k \in 1..Len(queue'), queue[k + 1] = queue[1] PROVE FALSE
      BY <1>1
    <2>1. k + 1 = 1
      BY <1>1, <1>2
    <2>2. QED
      BY <1>1, <2>1, LenProperties
  <1>4. \A k \in 1..Len(queue') :
            \/ queue'[k] \in unanswered'
            \/ where'[queue'[k]] = "here" /\ queue'[k] \notin terminating'
    BY <1>1, <1>2, <1>3
  <1>5. ASSUME NEW j \in 1..Len(queue'), NEW k \in 1..Len(queue'), queue'[j] = queue'[k]
        PROVE  j = k
    <2>1. j + 1 = k + 1
      BY <1>1, <1>2, <1>5
    <2>2. QED
      BY <1>1, <2>1, LenProperties
  <1>6. QED
    BY <1>1, <1>2, <1>4, <1>5

LEMMA EvictNotFoundKeeps == DrainInv /\ EvictNotFound => DrainInv'
  <1> SUFFICES ASSUME DrainInv, EvictNotFound PROVE DrainInv'
    OBVIOUS
  <1> USE DEF DrainInv, EvictNotFound, clusterVars, ghostVars, lateVars
  <1>1. TypeOK'
    BY TailOfQueue DEF TypeOK
  <1>2. AttemptsInOrder' /\ LateInOrder' /\ WaitsForTheRest'
    BY DEF AttemptsInOrder, LateInOrder, WaitsForTheRest, StillHere
  <1>3. Undisturbed'
    <2> SUFFICES ASSUME meddling = 0 PROVE Undisturbed'
      BY DEF Undisturbed
    <2>1. /\ \A k \in 1..Len(queue') :
                 \/ queue'[k] \in unanswered'
                 \/ where'[queue'[k]] = "here" /\ queue'[k] \notin terminating'
          /\ \A j, k \in 1..Len(queue') : queue'[j] = queue'[k] => j = k
      BY RestIsUndisturbed
    <2>2. unschedulable' /\ EvictsTheNode'
      BY DEF Undisturbed, EvictsTheNode
    <2>3. QED
      BY <2>1, <2>2 DEF Undisturbed
  <1>4. QED
    BY <1>1, <1>2, <1>3

\* The API server carries out an eviction of this attempt, or of an earlier one that
\* had no answer.
LEMMA EvictKeeps ==
    ASSUME DrainInv, NEW n \in Names, NEW attempt \in 1..MaxAttempts, Evict(n, attempt),
           UNCHANGED <<kind, uid, where, unschedulable, meddling, options, pc, attempts,
                       remaining, result, candidates, unanswered>>,
           queue' \in Seq(Names), late' \subseteq late, attempt <= attempts,
           pc \in {"cordon", "list"} \/ result = "refused" => attempt < attempts,
           meddling = 0 =>
               /\ unschedulable /\ (where[n] = "here" \/ n \in unanswered)
               /\ \A k \in 1..Len(queue') :
                      \/ queue'[k] \in unanswered'
                      \/ where'[queue'[k]] = "here" /\ queue'[k] \notin terminating'
               /\ \A j, k \in 1..Len(queue') : queue'[j] = queue'[k] => j = k
    PROVE  DrainInv'
  <1> USE DEF DrainInv
  <1> DEFINE new == [name |-> n, uid |-> uid[n], at |-> where[n], attempt |-> attempt]
  <1>1. /\ where[n] # "nowhere" /\ terminating' = terminating \union {n}
        /\ evicted' = evicted \union {new}
    BY DEF Evict
  <1>2. new \in Evictions /\ new.attempt = attempt /\ new.name = n /\ new.at = where[n]
        /\ new.uid = uid[n]
    BY <1>1 DEF TypeOK, Evictions
  <1> HIDE DEF new
  <1>3. TypeOK'
    BY <1>1, <1>2 DEF TypeOK
  <1>4. AttemptsInOrder'
    BY <1>1, <1>2 DEF AttemptsInOrder
  <1>5. LateInOrder'
    BY DEF LateInOrder
  <1>6. WaitsForTheRest'
    BY DEF WaitsForTheRest, StillHere
  <1>7. Undisturbed'
    <2> SUFFICES ASSUME meddling = 0 PROVE Undisturbed'
      BY DEF Undisturbed
    <2>1. EvictsTheNode'
      BY <1>1, <1>2 DEF Undisturbed, EvictsTheNode
    <2>2. QED
      BY <2>1 DEF Undisturbed
  <1>8. QED
    BY <1>3, <1>4, <1>5, <1>6, <1>7

LEMMA EvictAcceptedKeeps == DrainInv /\ EvictAccepted => DrainInv'
  <1> SUFFICES ASSUME DrainInv, EvictAccepted PROVE DrainInv'
    OBVIOUS
  <1> USE DEF DrainInv
  <1>1. /\ pc = "evict" /\ queue # <<>> /\ Evict(Head(queue), attempts)
        /\ queue' = Tail(queue)
        /\ UNCHANGED <<kind, uid, where, unschedulable, meddling, options, pc, attempts,
                       remaining, result, candidates, late, unanswered>>
    BY DEF EvictAccepted, lateVars
  <1>2. Head(queue) \in Names /\ queue' \in Seq(Names)
    BY <1>1, TailOfQueue DEF TypeOK
  <1>3. attempts \in 1..MaxAttempts /\ attempts <= attempts /\ result # "refused"
    BY <1>1, DrainAssumption DEF AttemptsInOrder
  <1>4. terminating' = terminating \union {Head(queue)}
    BY <1>1 DEF Evict
  <1>5. meddling = 0 =>
            /\ where[Head(queue)] = "here" \/ Head(queue) \in unanswered
            /\ \A k \in 1..Len(queue') :
                   \/ queue'[k] \in unanswered'
                   \/ where'[queue'[k]] = "here" /\ queue'[k] \notin terminating'
            /\ \A j, k \in 1..Len(queue') : queue'[j] = queue'[k] => j = k
    BY <1>1, <1>4, RestIsUndisturbed
  <1>6. meddling = 0 => unschedulable
    BY <1>1 DEF Undisturbed
  <1>7. QED
    BY <1>1, <1>2, <1>3, <1>5, <1>6, EvictKeeps

LEMMA DeliverLateKeeps ==
    ASSUME DrainInv, NEW m \in late, DeliverLate(m)
    PROVE  DrainInv'
  <1> USE DEF DrainInv
  <1>1. /\ late' = late \ {m}
        /\ UNCHANGED <<kind, uid, where, unschedulable, meddling, drainVars, candidates, unanswered>>
    BY DEF DeliverLate
  <1>2. /\ m.name \in Names /\ m.attempt \in 1..MaxAttempts /\ m.name \in unanswered
        /\ m.attempt <= attempts
        /\ (pc \in {"cordon", "list"} \/ result = "refused" => m.attempt < attempts)
        /\ queue \in Seq(Names)
    BY DEF TypeOK, LateInOrder
  <1>3. CASE Evict(m.name, m.attempt)
    <2>1. terminating' = terminating \union {m.name}
      BY <1>3 DEF Evict
    <2>2. meddling = 0 =>
              /\ unschedulable
              /\ \A k \in 1..Len(queue) :
                     \/ queue[k] \in unanswered
                     \/ where[queue[k]] = "here" /\ queue[k] \notin terminating'
              /\ \A j, k \in 1..Len(queue) : queue[j] = queue[k] => j = k
      BY <1>2, <2>1 DEF Undisturbed
    <2>3. QED
      BY <1>1, <1>2, <1>3, <2>2, EvictKeeps DEF drainVars
  <1>4. CASE UNCHANGED <<terminating, evicted>>
    <2> USE <1>1, <1>4 DEF drainVars
    <2>1. TypeOK'
      BY DEF TypeOK
    <2>2. AttemptsInOrder' /\ LateInOrder' /\ WaitsForTheRest' /\ Undisturbed'
      BY DEF AttemptsInOrder, LateInOrder, WaitsForTheRest, StillHere, Undisturbed, EvictsTheNode
    <2>3. QED
      BY <2>1, <2>2
  <1>5. QED
    BY <1>3, <1>4 DEF DeliverLate

LEMMA AllAcceptedKeeps == DrainInv /\ AllAccepted => DrainInv'
  <1> SUFFICES ASSUME DrainInv, AllAccepted PROVE DrainInv'
    OBVIOUS
  <1> USE DEF DrainInv, AllAccepted, clusterVars, ghostVars, lateVars
  <1>1. TypeOK'
    BY DEF TypeOK
  <1>2. AttemptsInOrder' /\ LateInOrder' /\ WaitsForTheRest'
    BY DEF AttemptsInOrder, LateInOrder, WaitsForTheRest, StillHere
  <1>3. Undisturbed'
    BY DEF Undisturbed, EvictsTheNode
  <1>4. QED
    BY <1>1, <1>2, <1>3

LEMMA SeenGoneKeeps ==
    ASSUME DrainInv, NEW n \in Names, SeenGone(n)
    PROVE  DrainInv'
  <1> USE DEF DrainInv, SeenGone, clusterVars, ghostVars, lateVars
  <1>1. TypeOK'
    BY DEF TypeOK
  <1>2. AttemptsInOrder' /\ LateInOrder' /\ WaitsForTheRest'
    BY DEF AttemptsInOrder, LateInOrder, WaitsForTheRest, StillHere
  <1>3. Undisturbed'
    BY DEF Undisturbed, EvictsTheNode
  <1>4. QED
    BY <1>1, <1>2, <1>3

-----------------------------------------------------------------------------
(* The steps of the cluster.                                               *)

\* A step of the cluster disturbs nothing of the drain but the places of its pods.
LEMMA ClusterKeeps ==
    ASSUME DrainInv, UNCHANGED <<drainVars, ghostVars, lateVars>>, TypeOK', Undisturbed',
           \A m \in Names : uid'[m] = uid[m] \/ uid'[m] = uid[m] + 1,
           \A m \in Names : where'[m] = "here" => where[m] = "here" \/ uid'[m] = uid[m] + 1
    PROVE  DrainInv'
  <1> USE DEF DrainInv, drainVars, ghostVars, lateVars
  <1>1. AttemptsInOrder' /\ LateInOrder'
    BY DEF AttemptsInOrder, LateInOrder
  <1>2. \A i \in candidates : i.uid <= uid'[i.name] /\ (~StillHere(i) => ~StillHere(i)')
    BY GoneForGood DEF WaitsForTheRest
  <1>3. WaitsForTheRest'
    BY <1>2 DEF WaitsForTheRest
  <1>4. QED
    BY <1>1, <1>3

LEMMA TerminatedKeeps ==
    ASSUME DrainInv, NEW n \in Names, Terminated(n)
    PROVE  DrainInv'
  <1> USE DEF DrainInv, Terminated
  <1>1. TypeOK'
    BY DEF TypeOK, drainVars, ghostVars, lateVars
  <1>2. \A m \in Names : where'[m] = where[m] \/ where'[m] = "nowhere"
    BY DEF TypeOK
  <1>3. Undisturbed'
    <2> SUFFICES ASSUME meddling = 0 PROVE Undisturbed'
      BY DEF Undisturbed
    <2>1. \A k \in 1..Len(queue) : queue[k] # n \/ queue[k] \in unanswered
      BY DEF Undisturbed
    <2>2. \A m \in Names : m # n => where'[m] = where[m]
      BY DEF TypeOK
    <2>3. \A k \in 1..Len(queue) : queue[k] \in Names
      BY ElementOfSeq DEF TypeOK
    <2>4. EvictsTheNode'
      BY <1>2 DEF Undisturbed, EvictsTheNode, TypeOK, Evictions, drainVars, ghostVars, lateVars
    <2>5. QED
      BY <2>1, <2>2, <2>3, <2>4 DEF Undisturbed, drainVars, ghostVars, lateVars
  <1>4. UNCHANGED <<drainVars, ghostVars, lateVars>> /\ UNCHANGED uid
    OBVIOUS
  <1>5. QED
    BY <1>1, <1>2, <1>3, <1>4, ClusterKeeps

LEMMA RecreatedKeeps ==
    ASSUME DrainInv, NEW n \in Names, Recreated(n)
    PROVE  DrainInv'
  <1> USE DEF DrainInv
  <1>1. PICK w \in {"here", "elsewhere"} :
            (w = "here" => ~unschedulable) /\ where' = [where EXCEPT ![n] = w]
    BY DEF Recreated
  <1>2. /\ where[n] = "nowhere" /\ uid[n] < MaxUids /\ uid' = [uid EXCEPT ![n] = @ + 1]
        /\ UNCHANGED <<kind, terminating, unschedulable, meddling, drainVars, ghostVars, lateVars>>
    BY DEF Recreated
  <1>3. TypeOK'
    <2>1. uid' \in [Names -> 1..MaxUids]
      BY <1>2, DrainAssumption DEF TypeOK
    <2>2. where' \in [Names -> {"here", "elsewhere", "nowhere"}]
      BY <1>1 DEF TypeOK
    <2>3. terminating' \subseteq {m \in Names : where'[m] # "nowhere"}
      BY <1>1, <1>2 DEF TypeOK
    <2>4. QED
      BY <1>2, <2>1, <2>2, <2>3 DEF TypeOK, drainVars, ghostVars, lateVars
  <1>4. /\ \A m \in Names : uid'[m] = uid[m] \/ uid'[m] = uid[m] + 1
        /\ \A m \in Names : where'[m] = "here" => where[m] = "here" \/ uid'[m] = uid[m] + 1
    BY <1>1, <1>2 DEF TypeOK
  <1>5. Undisturbed'
    <2> SUFFICES ASSUME meddling = 0 PROVE Undisturbed'
      BY <1>2 DEF Undisturbed
    <2>1. \A m \in Names : m # n => where'[m] = where[m] /\ uid'[m] = uid[m]
      BY <1>1, <1>2 DEF TypeOK
    <2>2. \A k \in 1..Len(queue) : queue[k] \in Names /\ (queue[k] # n \/ queue[k] \in unanswered)
      BY <1>2, ElementOfSeq DEF TypeOK, Undisturbed
    <2>3. where'[n] = "here" => evicted = {}
      BY <1>1 DEF TypeOK, Undisturbed
    <2>4. EvictsTheNode'
      BY <1>2, <2>1, <2>3 DEF Undisturbed, EvictsTheNode, TypeOK, Evictions, ghostVars, lateVars
    <2>5. QED
      BY <1>2, <2>1, <2>2, <2>4 DEF Undisturbed, drainVars, ghostVars, lateVars
  <1>6. QED
    BY <1>2, <1>3, <1>4, <1>5, ClusterKeeps

LEMMA MeddleKeeps == DrainInv /\ Meddle => DrainInv'
  <1> SUFFICES ASSUME DrainInv, Meddle PROVE DrainInv'
    OBVIOUS
  <1> USE DEF DrainInv
  <1>1. /\ meddling < MaxMeddling /\ meddling' = meddling + 1
        /\ UNCHANGED <<kind, drainVars, ghostVars, lateVars>>
    BY DEF Meddle
  <1>2. Undisturbed' /\ meddling' \in 0..MaxMeddling
    BY <1>1, DrainAssumption DEF TypeOK, Undisturbed
  <1>3. CASE unschedulable' = FALSE /\ UNCHANGED <<uid, where, terminating>>
    <2>1. TypeOK'
      BY <1>1, <1>2, <1>3 DEF TypeOK, drainVars, ghostVars, lateVars
    <2>2. QED
      BY <1>1, <1>2, <1>3, <2>1, ClusterKeeps
  <1>4. ASSUME NEW n \in Names, where[n] # "nowhere", terminating' = terminating \union {n},
               UNCHANGED <<uid, where, unschedulable>>
        PROVE  DrainInv'
    <2>1. TypeOK'
      BY <1>1, <1>2, <1>4 DEF TypeOK, drainVars, ghostVars, lateVars
    <2>2. QED
      BY <1>1, <1>2, <1>4, <2>1, ClusterKeeps
  <1>5. ASSUME NEW n \in Names, where[n] = "nowhere", uid[n] < MaxUids,
               uid' = [uid EXCEPT ![n] = @ + 1], where' = [where EXCEPT ![n] = "here"],
               UNCHANGED <<terminating, unschedulable>>
        PROVE  DrainInv'
    <2>1. uid' \in [Names -> 1..MaxUids]
      BY <1>5, DrainAssumption DEF TypeOK
    <2>2. /\ where' \in [Names -> {"here", "elsewhere", "nowhere"}]
          /\ terminating' \subseteq {m \in Names : where'[m] # "nowhere"}
      BY <1>5 DEF TypeOK
    <2>3. TypeOK'
      BY <1>1, <1>2, <1>5, <2>1, <2>2 DEF TypeOK, drainVars, ghostVars, lateVars
    <2>4. /\ \A m \in Names : uid'[m] = uid[m] \/ uid'[m] = uid[m] + 1
          /\ \A m \in Names : where'[m] = "here" => where[m] = "here" \/ uid'[m] = uid[m] + 1
      BY <1>5 DEF TypeOK
    <2>5. QED
      BY <1>1, <1>2, <2>3, <2>4, ClusterKeeps
  <1>6. QED
    BY <1>3, <1>4, <1>5 DEF Meddle

-----------------------------------------------------------------------------
LEMMA DrainStepKeeps == DrainInv /\ [Next]_vars => DrainInv'
  <1> SUFFICES ASSUME DrainInv, [Next]_vars PROVE DrainInv'
    OBVIOUS
  <1>1. CASE Refuse
    BY <1>1, ReturnKeeps DEF Refuse
  <1>2. CASE Drained
    BY <1>2, ReturnKeeps DEF Drained
  <1>3. CASE TimeOut
    BY <1>3, ReturnKeeps DEF TimeOut
  <1>4. CASE Fail
    BY <1>4, ReturnKeeps DEF Fail
  <1>5. CASE \E n \in Names : SeenGone(n)
    BY <1>5, SeenGoneKeeps
  <1>6. CASE \E n \in Names : Terminated(n) \/ Recreated(n)
    BY <1>6, TerminatedKeeps, RecreatedKeeps
  <1>7. CASE UNCHANGED vars
    <2> USE <1>7 DEF DrainInv, vars, clusterVars, drainVars, ghostVars, lateVars
    <2>1. TypeOK'
      BY DEF TypeOK
    <2>2. AttemptsInOrder' /\ LateInOrder' /\ WaitsForTheRest' /\ Undisturbed'
      BY DEF AttemptsInOrder, LateInOrder, WaitsForTheRest, StillHere, Undisturbed, EvictsTheNode
    <2>3. QED
      BY <2>1, <2>2
  <1>8. CASE \E m \in late : DeliverLate(m)
    BY <1>8, DeliverLateKeeps
  <1>9. QED
    BY <1>1, <1>2, <1>3, <1>4, <1>5, <1>6, <1>7, <1>8, BeginKeeps, CordonKeeps, ListKeeps,
       EvictNotFoundKeeps, EvictAcceptedKeeps, AllAcceptedKeeps, MeddleKeeps
       DEF Next, DrainStep

-----------------------------------------------------------------------------
(* Theorems.                                                               *)

THEOREM DrainInvariant == Spec => []DrainInv
  BY InitDrain, DrainStepKeeps, PTL DEF Spec

\* The state of the drain and of its cluster has its types.
THEOREM DrainTypes == Spec => []TypeOK
  <1>1. DrainInv => TypeOK
    BY DEF DrainInv
  <1>2. QED
    BY <1>1, DrainInvariant, PTL

\* "drained" and "refused" are true of the pods, whatever others do meanwhile.
THEOREM DrainResultIsTrue == Spec => []ResultIsTrue
  <1>1. DrainInv => ResultIsTrue
    BY DEF DrainInv, AttemptsInOrder, WaitsForTheRest, ResultIsTrue
  <1>2. QED
    BY <1>1, DrainInvariant, PTL

\* A drain that nobody disturbs evicts pods of its node and no pod comes back to it,
\* unless an eviction without an answer is carried out late.
THEOREM DrainEvictsTheNode == Spec => []EvictsTheNode
  <1>1. DrainInv => EvictsTheNode
    BY DEF DrainInv, Undisturbed, EvictsTheNode
  <1>2. QED
    BY <1>1, DrainInvariant, PTL
=============================================================================
