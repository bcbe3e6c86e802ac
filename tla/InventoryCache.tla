---------------------------- MODULE InventoryCache ----------------------------
(***************************************************************************)
(* What a cluster agent tells the control plane about its cluster:         *)
(* collectClusterState of internal/agent/kubernetes_inventory.go, called   *)
(* by every heartbeat.  An inventory is kept for TTL; a refresh lists the  *)
(* resources in parallel and fails with the first of them; after a failure *)
(* the old one is served and the next refresh waits for RetryTTL.  What a  *)
(* list returns is represented by the time at which it was read.           *)
(***************************************************************************)
EXTENDS Integers, FiniteSetsExt

CONSTANTS Resources,       \* the resources that a refresh lists
          StatusResources, \* those that runtime statuses are made from
          TTL, RetryTTL,   \* clusterInventoryCacheTTL and ...RetryTTL
          MaxTime,         \* bound: the clock
          MaxFaults        \* bound: failed requests

ASSUME InventoryAssumption ==
    /\ StatusResources \subseteq Resources /\ StatusResources # {}
    /\ TTL \in Nat /\ RetryTTL \in 1..TTL
    /\ MaxTime \in Nat /\ MaxFaults \in Nat

VARIABLES
    now,
    snapshot,  \* the cached snapshot: when each list was read, or None
    updatedAt, \* when the cache was updated, or is said to have been
    pc,        \* the step of the current call
    answers,   \* the lists that the refresh under way has received
    served,    \* the last call's result
    taken,     \* when the cached snapshot was completed
    began,     \* when the last call began
    failedAt,  \* when the last refresh failed
    faults

vars == <<now, snapshot, updatedAt, pc, answers, served, taken, began, failedAt, faults>>

Time == 0..MaxTime
Unread == -1
None == [r \in Resources |-> Unread]

\* mark is "none", "stale" or "unavailable"; statuses is when they were read and
\* tried whether the call's own reading of them has failed.
Result == [mark : {"none", "stale", "unavailable"}, statuses : Time \union {Unread},
           tried : BOOLEAN]
NotServed == [mark |-> "unavailable", statuses |-> Unread, tried |-> FALSE]

TypeOK ==
    /\ now \in Time
    /\ snapshot \in [Resources -> Time] \union {None}
    /\ updatedAt \in (-TTL)..MaxTime
    /\ pc \in {"idle", "fresh", "refresh", "stale"}
    /\ answers \in [Resources -> Time \union {Unread}]
    /\ served \in Result
    /\ taken \in Time /\ began \in Time /\ failedAt \in Time \union {-RetryTTL}
    /\ faults \in 0..MaxFaults

Init ==
    /\ now = 0 /\ snapshot = None /\ updatedAt = 0
    /\ pc = "idle" /\ answers = None /\ served = NotServed
    /\ taken = 0 /\ began = 0 /\ failedAt = -RetryTTL
    /\ faults = 0

Cached == snapshot # None
StatusesOf(lists) == Min({lists[r] : r \in StatusResources})

Faulty == faults < MaxFaults /\ faults' = faults + 1
NoFault == UNCHANGED faults

\* collectClusterState returns.
Serve(mark, statuses, failed) ==
    /\ pc' = "idle"
    /\ answers' = None
    /\ served' = [mark |-> mark, statuses |-> statuses, tried |-> failed]

-----------------------------------------------------------------------------
Fresh == Cached /\ now - updatedAt < TTL

\* A heartbeat: statuses are read anew in any case, the rest when it is due.
Call ==
    /\ pc = "idle"
    /\ pc' = IF Fresh THEN "fresh" ELSE "refresh"
    /\ began' = now
    /\ UNCHANGED <<now, snapshot, updatedAt, answers, served, taken, failedAt, faults>>

\* Mutation of FreshStatuses: the cached ones will do.
FreshStatusesCached ==
    /\ pc = "fresh"
    /\ Serve("none", StatusesOf(snapshot), FALSE)
    /\ UNCHANGED <<now, snapshot, updatedAt, taken, began, failedAt, faults>>

FreshStatuses ==
    /\ pc = "fresh"
    /\ \/ NoFault /\ Serve("none", now, FALSE)
       \/ Faulty /\ Serve("none", StatusesOf(snapshot), TRUE)
    /\ UNCHANGED <<now, snapshot, updatedAt, taken, began, failedAt>>

-----------------------------------------------------------------------------
(* fullClusterSnapshot: the lists arrive in any order.                     *)

List(r) ==
    /\ pc = "refresh" /\ answers[r] = Unread
    /\ answers' = [answers EXCEPT ![r] = now]
    /\ UNCHANGED <<now, snapshot, updatedAt, pc, served, taken, began, failedAt, faults>>

\* Mutation of Complete: one list is not waited for.
CompleteEarly ==
    /\ pc = "refresh"
    /\ \A r \in StatusResources : answers[r] # Unread
    /\ snapshot' = [r \in Resources |-> IF answers[r] = Unread THEN snapshot[r] ELSE answers[r]]
    /\ updatedAt' = now /\ taken' = now
    /\ Serve("none", StatusesOf(answers), FALSE)
    /\ UNCHANGED <<now, began, failedAt, faults>>

Complete ==
    /\ pc = "refresh"
    /\ \A r \in Resources : answers[r] # Unread
    /\ snapshot' = answers
    /\ updatedAt' = now /\ taken' = now
    /\ Serve("none", StatusesOf(answers), FALSE)
    /\ UNCHANGED <<now, began, failedAt, faults>>

\* Mutations of Postpone: the old inventory counts as new, or at once as due.
PostponeByTTL == updatedAt' = now
PostponeNot == UNCHANGED updatedAt

\* The cache is due again after RetryTTL.
Postpone == updatedAt' = now - TTL + RetryTTL

\* The first error cancels the others; what has arrived is dropped.
RefreshFails ==
    /\ pc = "refresh" /\ Faulty
    /\ IF Cached
         THEN /\ pc' = "stale" /\ answers' = None
              /\ UNCHANGED <<updatedAt, served, failedAt>>
         ELSE /\ Postpone /\ failedAt' = now
              /\ Serve("unavailable", Unread, FALSE)
    /\ UNCHANGED <<now, snapshot, taken, began>>

StaleStatuses ==
    /\ pc = "stale"
    /\ \/ NoFault /\ Serve("stale", now, FALSE)
       \/ Faulty /\ Serve("stale", StatusesOf(snapshot), TRUE)
    /\ Postpone /\ failedAt' = now
    /\ UNCHANGED <<now, snapshot, taken, began>>

\* newInClusterKubernetesClient finds no token or certificate.
NoClient ==
    /\ pc = "idle" /\ Faulty
    /\ Serve("unavailable", Unread, FALSE)
    /\ UNCHANGED <<now, snapshot, updatedAt, taken, began, failedAt>>

\* Time passes, between heartbeats and during requests.
Tick ==
    /\ now < MaxTime
    /\ now' = now + 1
    /\ UNCHANGED <<snapshot, updatedAt, pc, answers, served, taken, began, failedAt, faults>>

Next ==
    \/ Call \/ FreshStatuses \/ (\E r \in Resources : List(r)) \/ Complete
    \/ RefreshFails \/ StaleStatuses \/ NoClient \/ Tick

Spec == Init /\ [][Next]_vars
-----------------------------------------------------------------------------
(* Properties.                                                             *)

\* An inventory that bears no mark was complete less than TTL before the call,
\* or a refresh failed, and was reported, within RetryTTL: that is how long an old
\* inventory goes for a fresh one after each failure.
UnmarkedIsRecent ==
    pc = "fresh" => began - taken < TTL \/ began - failedAt < RetryTTL

\* The full refresh, six cluster-wide lists, is not repeated within RetryTTL of
\* the one before, whatever the heartbeat interval is and whether or not that
\* one failed, once there has been a snapshot.
RefreshesAreSpaced ==
    [][pc = "idle" /\ pc' = "refresh" /\ Cached =>
          /\ now - failedAt >= RetryTTL
          /\ now - taken >= RetryTTL]_vars

\* Statuses reported are older than those reported before only when this call
\* has tried to read them and failed (the cached ones are those of the last
\* refresh, not the last that were read).
StatusesGoForward ==
    [][pc # "idle" /\ pc' = "idle" /\ served'.mark # "unavailable" =>
          served'.tried \/ served'.statuses >= served.statuses]_vars

=============================================================================
