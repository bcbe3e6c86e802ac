-------------------------- MODULE HeartbeatProofs --------------------------
(***************************************************************************)
(* Theorems about what a heartbeat reports: the cluster's inventory        *)
(* (InventoryCache), for any number of resources, any TTL and any clock;   *)
(* the statuses of runtimes (RuntimeStatus), for any number of objects,    *)
(* pods, containers and replicas; and the storage of a host                *)
(* (HostTelemetry), for mount tables of any length.                        *)
(***************************************************************************)
EXTENDS Heartbeat, FiniteSetTheorems, SequenceTheorems, WellFoundedInduction, TLAPS

-----------------------------------------------------------------------------
(* The oldest of some times.                                               *)

LessThan == {pair \in Nat \X Nat : pair[1] < pair[2]}

LEMMA LeastExists ==
    ASSUME NEW S \in SUBSET Nat, S # {}
    PROVE  \E m \in S : \A n \in S : m <= n
  <1>1. IsWellFoundedOn(LessThan, Nat)
    BY NatLessThanWellFounded DEF LessThan, OpToRel
  <1>2. PICK m \in S : \A n \in S : <<n, m>> \notin LessThan
    BY <1>1, WFMin
  <1>3. \A n \in S : ~(n < m)
    BY <1>2 DEF LessThan
  <1>4. QED
    BY <1>3

LEMMA StatusesAreRead ==
    ASSUME NEW lists \in [Resources -> Time \union {Unread}],
           \A r \in StatusResources : lists[r] # Unread
    PROVE  \E r \in StatusResources : StatusesOf(lists) = lists[r] /\ lists[r] \in Time
  <1> DEFINE times == {lists[r] : r \in StatusResources}
  <1>1. times \subseteq Time /\ times # {}
    BY InventoryAssumption DEF Time, Unread
  <1>2. \E m \in times : \A n \in times : m <= n
    <2>1. times \in SUBSET Nat
      BY <1>1, InventoryAssumption DEF Time
    <2>2. QED
      BY <1>1, <2>1, LeastExists
  <1>3. Min(times) \in times
    BY <1>2 DEF Min
  <1>4. QED
    BY <1>1, <1>3 DEF StatusesOf

-----------------------------------------------------------------------------
(* The inductive invariant.                                                *)

\* Nothing comes from the future.
ClockIsAhead ==
    /\ taken <= now /\ began <= now /\ failedAt <= now
    /\ served.statuses <= now
    /\ \A r \in Resources : snapshot[r] <= now /\ answers[r] <= now

\* The cache was last updated by a refresh, or by a failure that has moved the time
\* back so far that the next one is due after RetryTTL.
LastUpdate ==
    Cached => \/ updatedAt = taken /\ failedAt <= taken
              \/ updatedAt = failedAt - TTL + RetryTTL /\ taken <= failedAt

\* What a call that is under way has seen.
Underway ==
    /\ pc \in {"fresh", "stale"} => Cached
    /\ pc = "fresh" => began - updatedAt < TTL
    /\ pc # "refresh" => answers = None
    /\ pc = "refresh" => \A r \in Resources : answers[r] = Unread \/ began <= answers[r]
    /\ pc # "idle" => served.statuses <= began

InventoryInv == TypeOK /\ ClockIsAhead /\ LastUpdate /\ Underway

LEMMA InitInventory == Init => InventoryInv
  <1> SUFFICES ASSUME Init PROVE InventoryInv
    OBVIOUS
  <1> USE InventoryAssumption DEF Init, None, Unread, NotServed
  <1>1. TypeOK
    BY DEF TypeOK, Result, Time
  <1>2. ClockIsAhead /\ Underway
    BY DEF ClockIsAhead, Underway
  <1>3. LastUpdate
    BY DEF LastUpdate, Cached
  <1>4. QED
    BY <1>1, <1>2, <1>3 DEF InventoryInv

\* One list of a snapshot that is there has a time.
LEMMA CachedIsRead ==
    ASSUME TypeOK, Cached
    PROVE  /\ snapshot \in [Resources -> Time \union {Unread}]
           /\ \A r \in StatusResources : snapshot[r] # Unread
  BY InventoryAssumption DEF TypeOK, Cached, Time, Unread

LEMMA ServeTypes ==
    ASSUME NEW mark \in {"none", "stale", "unavailable"}, NEW statuses \in Time \union {Unread},
           NEW failed \in BOOLEAN, Serve(mark, statuses, failed)
    PROVE  /\ pc' = "idle"
           /\ answers' \in [Resources -> Time \union {Unread}]
           /\ served' \in Result
  BY DEF Serve, None, Result

LEMMA InventoryStep == InventoryInv /\ [Next]_vars => InventoryInv'
  <1> SUFFICES ASSUME InventoryInv, [Next]_vars PROVE InventoryInv'
    OBVIOUS
  <1> USE InventoryAssumption DEF InventoryInv
  <1>1. CASE Call
    <2>1. TypeOK'
      BY <1>1 DEF Call, TypeOK, Time
    <2>2. ClockIsAhead' /\ LastUpdate'
      BY <1>1 DEF Call, ClockIsAhead, LastUpdate, Cached, TypeOK, Time
    <2>3. Underway'
      BY <1>1 DEF Call, Underway, ClockIsAhead, Cached, Fresh, TypeOK, Time, None, Unread
    <2>4. QED
      BY <2>1, <2>2, <2>3
  <1>2. CASE FreshStatuses
    <2>1. Cached
      BY <1>2 DEF FreshStatuses, Underway
    <2>2. PICK r \in StatusResources : StatusesOf(snapshot) = snapshot[r] /\ snapshot[r] \in Time
      BY <2>1, CachedIsRead, StatusesAreRead
    <2>3. pc' = "idle" /\ answers' \in [Resources -> Time \union {Unread}] /\ served' \in Result
      <3>1. now \in Time \union {Unread} /\ StatusesOf(snapshot) \in Time \union {Unread}
        BY <2>2 DEF TypeOK
      <3>2. Serve("none", now, FALSE) \/ Serve("none", StatusesOf(snapshot), TRUE)
        BY <1>2 DEF FreshStatuses
      <3>3. QED
        BY <3>1, <3>2, ServeTypes
    <2>4. TypeOK'
      <3>1. /\ faults' \in 0..MaxFaults
            /\ UNCHANGED <<now, snapshot, updatedAt, taken, began, failedAt>>
        BY <1>2 DEF FreshStatuses, Serve, TypeOK, Faulty, NoFault
      <3>2. QED
        BY <2>3, <3>1 DEF TypeOK
    <2>5. ClockIsAhead' /\ LastUpdate' /\ Underway'
      BY <1>2, <2>2 DEF FreshStatuses, Serve, ClockIsAhead, LastUpdate, Cached, Underway, TypeOK,
                        None, Time, Unread
    <2>6. QED
      BY <2>4, <2>5
  <1>3. ASSUME NEW r \in Resources, List(r) PROVE InventoryInv'
    <2>1. TypeOK'
      BY <1>3 DEF List, TypeOK, Time
    <2>2. ClockIsAhead' /\ LastUpdate' /\ Underway'
      BY <1>3 DEF List, ClockIsAhead, LastUpdate, Cached, Underway, TypeOK, Time
    <2>3. QED
      BY <2>1, <2>2
  <1>4. CASE Complete
    <2>1. PICK r \in StatusResources : StatusesOf(answers) = answers[r] /\ answers[r] \in Time
      BY <1>4, StatusesAreRead DEF Complete, TypeOK
    <2>2. TypeOK'
      BY <1>4, <2>1 DEF Complete, Serve, TypeOK, Result, None, Time, Unread
    <2>3. ClockIsAhead' /\ LastUpdate' /\ Underway'
      BY <1>4, <2>1 DEF Complete, Serve, ClockIsAhead, LastUpdate, Underway, TypeOK,
                        None, Time, Unread
    <2>4. QED
      BY <2>2, <2>3
  <1>5. CASE RefreshFails
    <2>1. CASE Cached
      <3>1. TypeOK'
        BY <1>5, <2>1 DEF RefreshFails, Faulty, TypeOK, None, Time, Unread
      <3>2. ClockIsAhead' /\ LastUpdate' /\ Underway'
        BY <1>5, <2>1 DEF RefreshFails, ClockIsAhead, LastUpdate, Cached, Underway, TypeOK,
                          None, Time, Unread
      <3>3. QED
        BY <3>1, <3>2
    <2>2. CASE ~Cached
      <3>1. TypeOK'
        <4>1. Serve("unavailable", Unread, FALSE)
          BY <1>5, <2>2 DEF RefreshFails
        <4>2. pc' = "idle" /\ answers' \in [Resources -> Time \union {Unread}] /\ served' \in Result
          BY <4>1, ServeTypes
        <4>3. QED
          BY <1>5, <2>2, <4>2 DEF RefreshFails, Faulty, Postpone, TypeOK, Time
      <3>2. ClockIsAhead' /\ LastUpdate' /\ Underway'
        BY <1>5, <2>2 DEF RefreshFails, Postpone, Serve, ClockIsAhead, LastUpdate, Cached, Underway,
                          TypeOK, None, Time, Unread
      <3>3. QED
        BY <3>1, <3>2
    <2>3. QED
      BY <2>1, <2>2
  <1>6. CASE StaleStatuses
    <2>1. Cached
      BY <1>6 DEF StaleStatuses, Underway
    <2>2. PICK r \in StatusResources : StatusesOf(snapshot) = snapshot[r] /\ snapshot[r] \in Time
      BY <2>1, CachedIsRead, StatusesAreRead
    <2>3. pc' = "idle" /\ answers' \in [Resources -> Time \union {Unread}] /\ served' \in Result
      <3>1. now \in Time \union {Unread} /\ StatusesOf(snapshot) \in Time \union {Unread}
        BY <2>2 DEF TypeOK
      <3>2. Serve("stale", now, FALSE) \/ Serve("stale", StatusesOf(snapshot), TRUE)
        BY <1>6 DEF StaleStatuses
      <3>3. QED
        BY <3>1, <3>2, ServeTypes
    <2>4. TypeOK'
      <3>1. /\ faults' \in 0..MaxFaults
            /\ updatedAt' \in (-TTL)..MaxTime /\ failedAt' \in Time
            /\ UNCHANGED <<now, snapshot, taken, began>>
        BY <1>6 DEF StaleStatuses, Serve, Postpone, TypeOK, Faulty, NoFault, Time
      <3>2. QED
        BY <2>3, <3>1 DEF TypeOK
    <2>5. ClockIsAhead' /\ LastUpdate' /\ Underway'
      BY <1>6, <2>2 DEF StaleStatuses, Serve, Postpone, ClockIsAhead, LastUpdate, Cached, Underway,
                        TypeOK, None, Time, Unread
    <2>6. QED
      BY <2>4, <2>5
  <1>7. CASE NoClient
    <2>1. TypeOK'
      BY <1>7 DEF NoClient, Faulty, Serve, TypeOK, Result, None, Time, Unread
    <2>2. ClockIsAhead' /\ LastUpdate' /\ Underway'
      BY <1>7 DEF NoClient, Serve, ClockIsAhead, LastUpdate, Cached, Underway, TypeOK,
                  None, Time, Unread
    <2>3. QED
      BY <2>1, <2>2
  <1>8. CASE Tick
    <2>1. TypeOK'
      BY <1>8 DEF Tick, TypeOK, Time
    <2>2. ClockIsAhead'
      BY <1>8 DEF Tick, ClockIsAhead, TypeOK, Time, None, Unread, Result
    <2>3. LastUpdate' /\ Underway'
      BY <1>8 DEF Tick, LastUpdate, Cached, Underway
    <2>4. QED
      BY <2>1, <2>2, <2>3
  <1>9. CASE UNCHANGED vars
    BY <1>9 DEF vars, TypeOK, ClockIsAhead, LastUpdate, Cached, Underway
  <1>10. QED
    BY <1>1, <1>2, <1>3, <1>4, <1>5, <1>6, <1>7, <1>8, <1>9 DEF Next

-----------------------------------------------------------------------------
(* Theorems.                                                               *)

\* collectClusterState: the times it keeps are consistent, whatever fails.
THEOREM InventoryInvariant == Spec => []InventoryInv
  BY InitInventory, InventoryStep, PTL DEF Spec

\* The state of the cache has its types.
THEOREM InventoryTypes == Spec => []TypeOK
  <1>1. InventoryInv => TypeOK
    BY DEF InventoryInv
  <1>2. QED
    BY <1>1, InventoryInvariant, PTL

\* An inventory that bears no mark is younger than TTL, or a refresh has failed less
\* than RetryTTL ago.
THEOREM UnmarkedRecent == Spec => []UnmarkedIsRecent
  <1>1. InventoryInv => UnmarkedIsRecent
    BY InventoryAssumption
       DEF InventoryInv, TypeOK, LastUpdate, Underway, UnmarkedIsRecent, Time
  <1>2. QED
    BY <1>1, InventoryInvariant, PTL

\* Neither a refresh nor a failed one is followed by the next within RetryTTL.
THEOREM RefreshesSpaced == Spec => RefreshesAreSpaced
  <1> DEFINE Spaced == pc = "idle" /\ pc' = "refresh" /\ Cached =>
                           /\ now - failedAt >= RetryTTL
                           /\ now - taken >= RetryTTL
  <1>1. InventoryInv /\ [Next]_vars => [Spaced]_vars
    <2> SUFFICES ASSUME InventoryInv, Next, pc = "idle", pc' = "refresh", Cached
                 PROVE  now - failedAt >= RetryTTL /\ now - taken >= RetryTTL
      OBVIOUS
    <2>1. Call
      BY DEF Next, Call, FreshStatuses, List, Complete, RefreshFails, StaleStatuses, NoClient,
             Serve, Tick
    <2>2. now - updatedAt >= TTL
      BY <2>1, InventoryAssumption DEF Call, Fresh, InventoryInv, TypeOK, Time
    <2>3. QED
      BY <2>2, InventoryAssumption DEF InventoryInv, TypeOK, LastUpdate, Time
  <1>2. QED
    BY <1>1, InventoryInvariant, PTL DEF Spec, RefreshesAreSpaced

\* Statuses go back in time only in a call whose reading of them has failed.
THEOREM StatusesForward == Spec => StatusesGoForward
  <1> DEFINE Forward == pc # "idle" /\ pc' = "idle" /\ served'.mark # "unavailable" =>
                            served'.tried \/ served'.statuses >= served.statuses
  <1>1. InventoryInv /\ [Next]_vars => [Forward]_vars
    <2> SUFFICES ASSUME InventoryInv, Next, pc # "idle", pc' = "idle",
                        served'.mark # "unavailable", ~served'.tried
                 PROVE  served'.statuses >= served.statuses
      OBVIOUS
    <2>1. CASE FreshStatuses \/ StaleStatuses
      BY <2>1, InventoryAssumption
         DEF FreshStatuses, StaleStatuses, Serve, InventoryInv, ClockIsAhead, TypeOK, Result, Time,
             Unread
    <2>2. CASE Complete
      <3>0. /\ answers \in [Resources -> Time \union {Unread}]
            /\ \A r \in StatusResources : answers[r] # Unread
        BY <2>2, InventoryAssumption DEF Complete, InventoryInv, TypeOK
      <3>1. PICK r \in StatusResources : StatusesOf(answers) = answers[r] /\ answers[r] \in Time
        BY <3>0, StatusesAreRead
      <3>2. served'.statuses = answers[r] /\ began <= answers[r] /\ served.statuses <= began
        BY <2>2, <3>1, InventoryAssumption DEF Complete, Serve, InventoryInv, Underway, Time, Unread
      <3>3. QED
        BY <3>1, <3>2, InventoryAssumption DEF InventoryInv, TypeOK, Result, Time, Unread
    <2>3. QED
      BY <2>1, <2>2
         DEF Next, Call, FreshStatuses, List, Complete, RefreshFails, StaleStatuses, NoClient, Serve,
             Tick
  <1>2. QED
    BY <1>1, InventoryInvariant, PTL DEF Spec, StatusesGoForward

-----------------------------------------------------------------------------
(* What a heartbeat finds.                                                 *)

\* A heartbeat's objects are objects of the cluster or of the host.
FoundTypes ==
    /\ found.kind = "runtime" => found.deployment \in Deployments /\ found.pods \subseteq Pods
    /\ found.kind = "cluster" => found.objects \in ClusterObjects
    /\ found.kind = "storage" => found.mounts \in MountTables

LEMMA PodsOfSequence ==
    ASSUME NEW few \in SeqsUpTo(Pods, MaxPods)
    PROVE  {few[i] : i \in DOMAIN few} \subseteq Pods
  <1>1. PICK k \in 0..MaxPods : few \in [1..k -> Pods]
    BY DEF SeqsUpTo
  <1>2. QED
    BY <1>1

LEMMA DiscoverTypes == Discover => FoundTypes'
  <1> SUFFICES ASSUME Discover PROVE FoundTypes'
    OBVIOUS
  <1>1. CASE FindRuntime
    <2>1. PICK d \in Deployments, few \in SeqsUpTo(Pods, MaxPods) :
            found' = [kind |-> "runtime", deployment |-> d, pods |-> {few[i] : i \in DOMAIN few}]
      BY <1>1 DEF FindRuntime
    <2> DEFINE pods == {few[i] : i \in DOMAIN few}
    <2>2. pods \subseteq Pods
      BY PodsOfSequence
    <2>3. found'.kind = "runtime" /\ found'.deployment = d /\ found'.pods = pods
      BY <2>1
    <2> HIDE DEF pods
    <2>4. QED
      BY <2>2, <2>3 DEF FoundTypes
  <1>2. CASE FindCluster
    BY <1>2 DEF FindCluster, FoundTypes
  <1>3. CASE FindStorage
    BY <1>3 DEF FindStorage, FoundTypes
  <1>4. QED
    BY <1>1, <1>2, <1>3 DEF Discover

\* A heartbeat does to the cache what collectClusterState does.
LEMMA HeartbeatKeepsCache == HeartbeatSpec => Spec
  <1>1. HeartbeatInit => Init
    BY DEF HeartbeatInit
  <1>2. [HeartbeatNext]_<<vars, found>> => [Next]_vars
    BY DEF HeartbeatNext, Discover
  <1>3. QED
    BY <1>1, <1>2, PTL DEF HeartbeatSpec, Spec

\* What a heartbeat finds has its types.
LEMMA HeartbeatFinds == HeartbeatSpec => []FoundTypes
  <1>1. HeartbeatInit => FoundTypes
    BY DEF HeartbeatInit, Nothing, FoundTypes
  <1>2. FoundTypes /\ [HeartbeatNext]_<<vars, found>> => FoundTypes'
    <2> SUFFICES ASSUME FoundTypes, [HeartbeatNext]_<<vars, found>> PROVE FoundTypes'
      OBVIOUS
    <2>1. CASE Discover
      BY <2>1, DiscoverTypes
    <2>2. CASE UNCHANGED found
      BY <2>2 DEF FoundTypes
    <2>3. QED
      BY <2>1, <2>2 DEF HeartbeatNext
  <1>3. QED
    BY <1>1, <1>2, PTL DEF HeartbeatSpec

\* The promises of the inventory are those of the heartbeat.
THEOREM HeartbeatInventory ==
    HeartbeatSpec => []TypeOK /\ []UnmarkedIsRecent /\ RefreshesAreSpaced /\ StatusesGoForward
  BY HeartbeatKeepsCache, InventoryTypes, UnmarkedRecent, RefreshesSpaced, StatusesForward, PTL

-----------------------------------------------------------------------------
(* Statuses of runtimes.                                                   *)

LEMMA FirstReasonFails ==
    ASSUME NEW pod \in Pods, FirstReason(pod) = "failing"
    PROVE  PodFailure(pod)
  <1> DEFINE named == {i \in DOMAIN pod.containers : pod.containers[i] # "none"}
             first == CHOOSE i \in named : \A j \in named : i <= j
  <1>1. CASE pod.reason # "none" \/ named = {}
    BY <1>1 DEF FirstReason, PodFailure, Pods
  <1>2. CASE ~(pod.reason # "none" \/ named = {})
    <2>1. PICK k \in Nat : pod.containers \in [1..k -> Reasons]
      BY StatusAssumption DEF Pods, SeqsUpTo
    <2>2. named \in SUBSET Nat /\ named # {}
      BY <1>2, <2>1
    <2>3. \E i \in named : \A j \in named : i <= j
      <3> HIDE DEF named
      <3>1. QED
        BY <2>2, LeastExists
    <2>4. first \in named
      BY <2>3
    <2>5. FirstReason(pod) = pod.containers[first]
      BY <1>2 DEF FirstReason
    <2>6. QED
      BY <2>4, <2>5 DEF PodFailure
  <1>3. QED
    BY <1>1, <1>2

\* The two derivations of a status agree, but for the exceptions that are listed.
THEOREM StatusesAlwaysAgree == HeartbeatSpec => []StatusesAgree
  <1>1. FoundTypes => StatusesAgree
    <2> SUFFICES ASSUME NEW d \in Deployments, NEW pods \in SUBSET Pods, NEW listed \in BOOLEAN
                 PROVE  LET detected == DetectedStatus(d, pods, listed)
                            inspected == InspectedStatus(d, pods)
                        IN \/ detected = inspected
                           \/ detected = "running" /\ inspected = "starting" /\ d.ready < d.desired
                           \/ detected = "stopped" /\ inspected = "error" /\ d.desired = 0
                           \/ /\ detected = "starting" /\ inspected = "error"
                              /\ ~listed \/ \E pod \in pods : Masked(pod)
      BY DEF FoundTypes, StatusesAgree
    <2> DEFINE seen == IF listed THEN pods ELSE {}
               fails == \E pod \in pods : PodFailure(pod)
               seenToFail == \E pod \in seen : FirstReason(pod) = "failing" \/ pod.phase = "Failed"
    <2>1. d.desired \in Nat /\ d.ready \in Nat
      BY StatusAssumption DEF Deployments
    <2>2. seenToFail => fails
      BY FirstReasonFails DEF PodFailure
    <2>3. fails /\ ~seenToFail => ~listed \/ \E pod \in pods : Masked(pod)
      BY DEF PodFailure, Masked
    <2>4. /\ d.desired = 0 => DetectedStatus(d, pods, listed) = "stopped"
          /\ d.desired > 0 /\ d.ready > 0 => DetectedStatus(d, pods, listed) = "running"
          /\ d.desired > 0 /\ d.ready = 0 =>
                DetectedStatus(d, pods, listed) = IF seenToFail THEN "error" ELSE "starting"
      BY <2>1 DEF DetectedStatus, DerivedFromPods
    <2>5. InspectedStatus(d, pods) =
             IF d.ready = 0 /\ fails THEN "error"
             ELSE IF d.desired = 0 THEN "stopped"
             ELSE IF d.ready >= d.desired THEN "running" ELSE "starting"
      BY DEF InspectedStatus
    <2> HIDE DEF seen, fails, seenToFail
    <2>6. QED
      BY <2>1, <2>2, <2>3, <2>4, <2>5
  <1>2. QED
    BY <1>1, HeartbeatFinds, PTL

-----------------------------------------------------------------------------
(* Lists of a cluster's objects.                                           *)

LEMMA FirstOfAll ==
    ASSUME NEW m \in Nat, NEW n \in Nat, m <= n, NEW S \in SUBSET (1..m)
    PROVE  FirstOf(S, n) = S
  <1> SUFFICES ASSUME NEW i \in S PROVE Cardinality({j \in S : j < i}) < n
    BY DEF FirstOf
  <1>0. i \in 1..m
    OBVIOUS
  <1>1. {j \in S : j < i} \subseteq 1..(i - 1)
    <2> SUFFICES ASSUME NEW j \in S, j < i PROVE j \in 1..(i - 1)
      OBVIOUS
    <2>1. j \in 1..m
      OBVIOUS
    <2>2. QED
      BY <1>0, <2>1
  <1>2. IsFiniteSet(1..(i - 1)) /\ Cardinality(1..(i - 1)) = i - 1
    BY <1>0, FS_Interval
  <1>3. Cardinality({j \in S : j < i}) <= i - 1
    BY <1>1, <1>2, FS_Subset
  <1>4. Cardinality({j \in S : j < i}) \in Nat
    BY <1>1, <1>2, FS_Subset, FS_CardinalityType
  <1>5. QED
    BY <1>3, <1>4

LEMMA ListsOfObjects ==
    ASSUME NEW S, NEW objects \in SeqsUpTo(S, MaxObjects)
    PROVE  Len(objects) \in Nat /\ DOMAIN objects = 1..Len(objects)
  <1>1. objects \in Seq(S)
    BY StatusAssumption, SeqDef DEF SeqsUpTo
  <1>2. QED
    BY <1>1, LenProperties

\* Unless a list was cut off, all objects and the labelled ones make the same report.
THEOREM PathsAlwaysAgree == HeartbeatSpec => []PathsAgreeUnlessTruncated
  <1>1. FoundTypes => PathsAgreeUnlessTruncated
    <2> SUFFICES ASSUME NEW c \in ClusterObjects, ~Truncated(c)
                 PROVE  FullStatuses(c) = SelectedStatuses(c)
      BY DEF FoundTypes, PathsAgreeUnlessTruncated
    <2>1. /\ c.deployments \in SeqsUpTo([label : Labels], MaxObjects)
          /\ c.pods \in SeqsUpTo([label : Labels, failing : BOOLEAN], MaxObjects)
      BY DEF ClusterObjects
    <2>2. /\ Len(c.deployments) \in Nat /\ DOMAIN c.deployments = 1..Len(c.deployments)
          /\ Len(c.pods) \in Nat /\ DOMAIN c.pods = 1..Len(c.pods)
      BY <2>1, ListsOfObjects
    <2>3. Len(c.deployments) <= MaxItems /\ Len(c.pods) <= MaxItems
      BY <2>2, StatusAssumption DEF Truncated
    <2>4. /\ FirstOf(DOMAIN c.deployments, MaxItems) = DOMAIN c.deployments
          /\ FirstOf(Labelled(c.deployments), MaxItems) = Labelled(c.deployments)
      BY <2>2, <2>3, FirstOfAll, StatusAssumption DEF Labelled
    <2>5. /\ FirstOf(DOMAIN c.pods, MaxItems) = DOMAIN c.pods
          /\ FirstOf(Labelled(c.pods), MaxItems) = Labelled(c.pods)
      BY <2>2, <2>3, FirstOfAll, StatusAssumption DEF Labelled
    <2> DEFINE labelled == FirstOf(Labelled(c.deployments), MaxStatuses)
               all(i) == {k \in DOMAIN c.pods : c.pods[k].label = c.deployments[i].label}
               selected(i) == {k \in Labelled(c.pods) : c.pods[k].label = c.deployments[i].label}
               status(i, its) == [name |-> i, status |->
                   InspectedStatus([desired |-> 1, ready |-> 0], {PodOf(c.pods[j]) : j \in its})]
    <2>6. \A i \in labelled : all(i) = selected(i)
      BY DEF FirstOf, Labelled
    <2>7. /\ DOMAIN c.deployments \intersect Labelled(c.deployments) = Labelled(c.deployments)
          /\ Labelled(c.deployments) \intersect Labelled(c.deployments) = Labelled(c.deployments)
      BY DEF Labelled
    <2>8. FullStatuses(c) = {status(i, all(i)) : i \in labelled}
      BY <2>4, <2>5, <2>7 DEF FullStatuses, StatusesFrom
    <2>9. SelectedStatuses(c) = {status(i, selected(i)) : i \in labelled}
      BY <2>4, <2>5, <2>7 DEF SelectedStatuses, StatusesFrom
    <2> HIDE DEF labelled, all, selected, status
    <2>10. QED
      BY <2>6, <2>8, <2>9
  <1>2. QED
    BY <1>1, HeartbeatFinds, PTL

-----------------------------------------------------------------------------
(* The storage of a host.                                                  *)

LEMMA TableTypes ==
    ASSUME NEW table \in MountTables
    PROVE  /\ Len(table) \in Nat /\ DOMAIN table = 1..Len(table)
           /\ \A i \in DOMAIN table : table[i].device \in Devices /\ table[i].point \in Nat
  <1>1. table \in Seq(Entries)
    BY TelemetryAssumption, SeqDef DEF MountTables
  <1>2. Len(table) \in Nat /\ table \in [1..Len(table) -> Entries]
    BY <1>1, LenProperties
  <1>3. QED
    BY <1>2, TelemetryAssumption DEF Entries

\* The candidates are mounts, and so are the mounts that are counted.
LEMMA MountsAreEntries ==
    ASSUME NEW table \in MountTables
    PROVE  /\ Counted(table) \subseteq Mounts(table) /\ Mounts(table) \subseteq Candidates(table)
           /\ Candidates(table) \subseteq Wanted(table) /\ Wanted(table) \subseteq DOMAIN table
  BY DEF Counted, Mounts, Reached, Considered, Candidates, Wanted, Real

\* Where nothing lies over a mount, its usage is its own.
LEMMA OnTopIsThere ==
    ASSUME NEW table \in MountTables, ~Overmounted(table), NEW i \in DOMAIN table
    PROVE  OnTop(table, table[i].point) = table[i].device
  <1> DEFINE there == {j \in DOMAIN table : table[j].point = table[i].point}
             top == CHOOSE k \in there : \A j \in there : j <= k
  <1>1. there = {i}
    BY DEF Overmounted
  <1>2. i \in Nat
    BY TableTypes
  <1>3. top = i
    BY <1>1, <1>2
  <1>4. OnTop(table, table[i].point) = table[top].device
    BY DEF OnTop
  <1>5. QED
    BY <1>3, <1>4

\* The last of some entries.
LEMMA GreatestExists ==
    ASSUME NEW n \in Nat, NEW S \in SUBSET (1..n), S # {}
    PROVE  \E m \in S : \A k \in S : k <= m
  <1> DEFINE rests == {n - k : k \in S}
  <1>0. \A k \in S : k \in Nat /\ n - k \in Nat
    <2> SUFFICES ASSUME NEW k \in S PROVE k \in Nat /\ n - k \in Nat
      OBVIOUS
    <2>1. k \in 1..n
      OBVIOUS
    <2>2. QED
      BY <2>1
  <1>1. rests \in SUBSET Nat /\ rests # {}
    BY <1>0
  <1>2. \E r \in rests : \A s \in rests : r <= s
    <2> HIDE DEF rests
    <2>1. QED
      BY <1>1, LeastExists
  <1>3. PICK m \in S : \A k \in S : n - m <= n - k
    BY <1>2
  <1>4. \A k \in S : k <= m
    BY <1>0, <1>3
  <1>5. QED
    BY <1>4

\* Candidates are left out only when there is the full number of them already.
LEMMA CutWhenMissing ==
    ASSUME NEW table \in MountTables, Candidates(table) # Wanted(table)
    PROVE  CandidatesCut(table)
  <1> DEFINE wanted == Wanted(table)
             candidates == Candidates(table)
             earlier(i) == {j \in wanted : j < i}
             missing == wanted \ candidates
  <1>1. Len(table) \in Nat /\ wanted \subseteq 1..Len(table) /\ candidates \subseteq wanted
    BY TableTypes, MountsAreEntries
  <1>2. \A i \in wanted : i \in candidates <=> Cardinality(earlier(i)) < MaxCandidates
    BY DEF Candidates
  <1> HIDE DEF wanted, candidates
  <1>0. \A i \in wanted : i \in Nat
    <2> SUFFICES ASSUME NEW i \in wanted PROVE i \in Nat
      OBVIOUS
    <2>1. i \in 1..Len(table)
      BY <1>1
    <2>2. QED
      BY <1>1, <2>1
  <1>3. IsFiniteSet(1..Len(table)) /\ IsFiniteSet(wanted)
    <2>1. IsFiniteSet(1..Len(table))
      BY <1>1, FS_Interval
    <2>2. QED
      BY <1>1, <2>1, FS_Subset
  <1>4. \A i \in wanted : IsFiniteSet(earlier(i)) /\ Cardinality(earlier(i)) \in Nat
    BY <1>3, FS_Subset, FS_CardinalityType
  <1>5. PICK i \in missing : \A j \in missing : i <= j
    <2>1. missing \subseteq wanted /\ missing # {}
      BY <1>1 DEF wanted, candidates
    <2>2. missing \in SUBSET Nat
      BY <1>0, <2>1
    <2> HIDE DEF missing
    <2>3. QED
      BY <2>1, <2>2, LeastExists
  <1>6. i \in wanted /\ i \in 1..Len(table) /\ Cardinality(earlier(i)) >= MaxCandidates
    <2>1. i \in wanted /\ i \notin candidates
      BY <1>5
    <2>2. i \in 1..Len(table)
      BY <1>1, <2>1
    <2> HIDE DEF earlier
    <2>3. Cardinality(earlier(i)) \in Nat /\ ~(Cardinality(earlier(i)) < MaxCandidates)
      BY <1>2, <1>4, <2>1
    <2>4. QED
      BY <2>1, <2>2, <2>3, TelemetryAssumption
  <1>7. candidates = earlier(i)
    <2>1. ASSUME NEW k \in candidates PROVE k < i
      <3> SUFFICES ASSUME i <= k PROVE FALSE
        BY <1>1, <1>6, <1>0
      <3>1. earlier(i) \subseteq earlier(k)
        <4>1. \A j \in wanted : j < i => j < k
          BY <1>1, <1>6, <1>0
        <4>2. QED
          BY <4>1
      <3>2. Cardinality(earlier(i)) <= Cardinality(earlier(k))
        <4>1. k \in wanted
          BY <1>1
        <4> HIDE DEF earlier
        <4>2. QED
          BY <1>4, <3>1, <4>1, FS_Subset
      <3> HIDE DEF earlier
      <3>3. k \in wanted /\ Cardinality(earlier(k)) < MaxCandidates
        BY <1>1, <1>2
      <3>4. QED
        BY <1>4, <1>6, <3>2, <3>3, TelemetryAssumption
    <2>2. ASSUME NEW k \in wanted, k < i PROVE k \in candidates
      BY <1>1, <1>5, <1>6, <2>2
    <2>3. QED
      BY <1>1, <2>1, <2>2
  <1>8. Cardinality(candidates) <= MaxCandidates
    <2>1. CASE candidates = {}
      BY <2>1, FS_EmptySet, TelemetryAssumption
    <2>2. CASE candidates # {}
      <3>1. PICK x \in candidates : \A k \in candidates : k <= x
        <4>1. candidates \in SUBSET (1..Len(table))
          BY <1>1
        <4>2. QED
          BY <1>1, <2>2, <4>1, GreatestExists
      <3>2. earlier(x) = candidates \ {x}
        <4>1. \A k \in wanted : k < i <=> k \in candidates
          BY <1>7
        <4>2. \A k \in candidates : k \in wanted /\ k \in Nat /\ k <= x
          BY <1>1, <1>0, <3>1
        <4>3. \A k \in wanted : k < x => k \in candidates
          BY <1>6, <1>0, <4>1, <4>2
        <4>4. \A k \in candidates : k < x <=> k # x
          BY <4>2
        <4>5. QED
          BY <4>2, <4>3, <4>4
      <3>3. Cardinality(earlier(x)) = Cardinality(candidates) - 1
        <4>1. IsFiniteSet(candidates)
          BY <1>1, <1>3, FS_Subset
        <4> HIDE DEF earlier
        <4>2. QED
          BY <3>1, <3>2, <4>1, FS_RemoveElement
      <3>4. Cardinality(earlier(x)) < MaxCandidates
        BY <1>1, <1>2, <3>1
      <3>5. Cardinality(candidates) \in Nat
        BY <1>1, <1>3, FS_Subset, FS_CardinalityType
      <3>6. QED
        BY <3>3, <3>4, <3>5, TelemetryAssumption
    <2>3. QED
      BY <2>1, <2>2
  <1>9. Cardinality(candidates) = MaxCandidates
    BY <1>4, <1>6, <1>7, <1>8, TelemetryAssumption
  <1>10. \A k \in candidates : k < Len(table)
    BY <1>1, <1>6, <1>7
  <1>11. QED
    BY <1>9, <1>10 DEF CandidatesCut, candidates

\* Of the mounts of a device that could be read, the first is counted.
LEMMA FirstIsCounted ==
    ASSUME NEW table \in MountTables, NEW d \in Devices,
           \E i \in Mounts(table) : table[i].device = d
    PROVE  \E i \in Counted(table) : table[i].device = d
  <1> DEFINE its == {i \in Mounts(table) : table[i].device = d}
             points == {table[i].point : i \in its}
  <1>1. points \in SUBSET Nat /\ points # {}
    BY TableTypes, MountsAreEntries
  <1>2. \E m \in points : \A n \in points : m <= n
    <2> HIDE DEF points
    <2>1. QED
      BY <1>1, LeastExists
  <1>3. PICK i \in its : \A j \in its : table[i].point <= table[j].point
    BY <1>2
  <1>4. \A j \in Mounts(table) \intersect Before(table, i) : table[j].device # d
    BY <1>3, TableTypes, MountsAreEntries DEF Before
  <1>5. QED
    BY <1>3, <1>4 DEF Counted

\* Each device is counted once, or the report says that it is cut off.
THEOREM DevicesAlwaysCountedOnce == HeartbeatSpec => []DevicesCountedOnce
  <1>1. FoundTypes => DevicesCountedOnce
    <2> SUFFICES ASSUME NEW table \in MountTables, ~Overmounted(table), NEW d \in Devices
                 PROVE  /\ TimesCounted(table, d) <= 1
                        /\ TimesCounted(table, d) = 0 =>
                              \/ d \in VirtualDevices \/ StorageTruncated(table)
                              \/ \A i \in DOMAIN table :
                                    table[i].device = d => table[i].point \in Unreachable
      BY DEF FoundTypes, DevicesCountedOnce
    <2> DEFINE times == {i \in Counted(table) : OnTop(table, table[i].point) = d}
               its == {i \in Counted(table) : table[i].device = d}
    <2>1. Counted(table) \subseteq DOMAIN table
      BY MountsAreEntries
    <2>2. times = its
      BY <2>1, OnTopIsThere
    <2>3. TimesCounted(table, d) = Cardinality(its)
      BY <2>2 DEF TimesCounted
    <2>4. IsFiniteSet(its)
      <3>1. IsFiniteSet(DOMAIN table)
        BY TableTypes, FS_Interval
      <3>2. QED
        BY <2>1, <3>1, FS_Subset
    <2>5. \A i, k \in its : i = k
      <3> SUFFICES ASSUME NEW i \in its, NEW k \in its, table[i].point < table[k].point
                   PROVE  FALSE
        BY <2>1, TableTypes DEF Overmounted
      <3>1. i \in Mounts(table) \intersect Before(table, k)
        BY MountsAreEntries DEF Before
      <3>2. QED
        BY <3>1 DEF Counted
    <2>6. Cardinality(its) <= 1
      <3>1. CASE its = {}
        BY <3>1, FS_EmptySet
      <3>2. ASSUME NEW i \in its PROVE Cardinality(its) = 1
        <4>1. its = {i}
          BY <2>5
        <4>2. QED
          BY <4>1, FS_Singleton
      <3> HIDE DEF its
      <3>3. QED
        BY <3>1, <3>2
    <2>7. ASSUME its = {}, d \notin VirtualDevices, ~StorageTruncated(table),
                 NEW i \in DOMAIN table, table[i].device = d
          PROVE  table[i].point \in Unreachable
      <3>1. i \in Wanted(table)
        BY <2>7, TableTypes DEF Wanted, Real, Overmounted
      <3>2. i \in Candidates(table) /\ Considered(table) = Candidates(table)
        BY <2>7, <3>1, CutWhenMissing DEF StorageTruncated
      <3>3. i \notin Mounts(table)
        BY <2>7, FirstIsCounted
      <3>4. QED
        BY <3>2, <3>3 DEF Mounts, Reached
    <2>8. Cardinality(its) = 0 => its = {}
      BY <2>4, FS_EmptySet
    <2> HIDE DEF its
    <2>9. QED
      BY <2>3, <2>6, <2>7, <2>8
  <1>2. QED
    BY <1>1, HeartbeatFinds, PTL
=============================================================================
