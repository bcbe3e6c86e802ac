----------------------------- MODULE TaskRunner -----------------------------
(***************************************************************************)
(* The durable-task half of the agent: claimAndExecuteTasks and            *)
(* executeClaimedTask of internal/agent/runner.go with the outcome cache   *)
(* of internal/agent/task_results.go, against a control plane that grants  *)
(* leases and over a network that delays and loses calls.  One poll        *)
(* goroutine claims one task at a time (limit 1), a second goroutine keeps *)
(* its lease alive, and the process may be killed or shut down anywhere.   *)
(*                                                                         *)
(* The control plane is not in the repository.  It is modelled from what   *)
(* the agent relies on: a claim grants a fresh lease owner, and a report   *)
(* or a heartbeat under a lease that is not the task's current one is      *)
(* answered 404 or 409.                                                    *)
(***************************************************************************)
EXTENDS Naturals, FiniteSets

CONSTANTS Tasks,       \* the durable tasks the control plane holds for this node
          NoTask,      \* no task: the poll goroutine is between two tasks
          CacheLimit,  \* outcomes kept by pruneTaskOutcomes (2000 in the code)
          MaxFaults    \* bound: faults (see Faulty) in one behaviour

ASSUME RunnerAssumption ==
    /\ NoTask \notin Tasks
    /\ CacheLimit \in Nat \ {0}
    /\ MaxFaults \in Nat

VARIABLES
    \* the control plane (external)
    status,     \* per task: queued, leased, completed, failed or cancelled
    owner,      \* per task: number of the last lease granted, 0 before the first
    \* the agent's disk: .monkeys/task-results.json
    cache,      \* per task: its recorded outcome, or "none"
    recordedAt, \* per task: when that outcome was recorded (CompletedAt)
    \* the agent's memory
    pc,         \* where executeClaimedTask is
    task, lease,\* the claimed task and its lease owner
    outcome,    \* the outcome being recorded and reported
    leaseLost,  \* taskLeaseHeartbeat.leaseLost
    wait,       \* how long the execution at hand may last (see Waits)
    reply,      \* answer of the control plane to the report
    stopping,   \* SIGTERM was received: the root context is cancelled
    \* the network
    late,       \* reports the agent gave up on that may still be delivered
    \* bookkeeping for the bound and the properties
    clock, faults, produced, successes, pruned, ranUnder

serverVars == <<status, owner>>
diskVars   == <<cache, recordedAt, clock>>
agentVars  == <<pc, task, lease, outcome, leaseLost, wait, reply>>
ghostVars  == <<produced, successes, pruned, ranUnder>>
vars == <<serverVars, diskVars, agentVars, stopping, late, faults, ghostVars>>

Outcomes == {"completed", "failed", "retryable"}
Statuses == {"queued", "leased", "completed", "failed", "cancelled"}
Settled  == {"completed", "failed", "cancelled"}
Steps    == {"idle", "lookup", "executing", "executed", "report", "replied"}
Reports  == [task : Tasks, lease : Nat, outcome : Outcomes]

\* taskCtx has no deadline, so an execution is as long as its type lets it be.
\* Most end by limits of their own.  k8s.exec-runtime runs a command of the user
\* under taskCtx alone and ends for sure only once that is cancelled.  A deaf one
\* does not end then either: process.exec waits for its pipes after the kill, and
\* a process that left the group may keep them open.
Waits == {"bounded", "heeding", "deaf"}

\* The handler's variables, and the two that only mean something at some steps.
AgentTypeOK ==
    /\ pc \in Steps
    /\ task \in Tasks \union {NoTask}
    /\ pc # "idle" => task \in Tasks
    /\ lease \in Nat
    /\ outcome \in Outcomes \union {"none"}
    /\ pc \in {"executed", "report", "replied"} => outcome \in Outcomes
    /\ leaseLost \in BOOLEAN
    /\ wait \in Waits
    /\ reply \in {"none", "ok", "conflict", "error"}

TypeOK ==
    /\ status \in [Tasks -> Statuses]
    /\ owner \in [Tasks -> Nat]
    /\ cache \in [Tasks -> Outcomes \union {"none"}]
    /\ recordedAt \in [Tasks -> Nat]
    /\ clock \in Nat
    /\ AgentTypeOK
    /\ stopping \in BOOLEAN
    /\ late \subseteq Reports
    /\ faults \in Nat
    /\ produced \in [Tasks -> SUBSET Outcomes]
    /\ successes \in [Tasks -> Nat]
    /\ pruned \in [Tasks -> Nat]
    /\ ranUnder \in [Tasks -> Nat]

Init ==
    /\ status = [t \in Tasks |-> "queued"]
    /\ owner = [t \in Tasks |-> 0]
    /\ cache = [t \in Tasks |-> "none"]
    /\ recordedAt = [t \in Tasks |-> 0]
    /\ clock = 0
    /\ pc = "idle" /\ task = NoTask /\ lease = 0 /\ outcome = "none"
    /\ leaseLost = FALSE /\ wait = "bounded" /\ reply = "none" /\ stopping = FALSE
    /\ late = {}
    /\ faults = 0
    /\ produced = [t \in Tasks |-> {}]
    /\ successes = [t \in Tasks |-> 0]
    /\ pruned = [t \in Tasks |-> 0]
    /\ ranUnder = [t \in Tasks |-> 0]

-----------------------------------------------------------------------------
(* Helpers.                                                                *)

\* Everything that may go wrong a bounded number of times.
Faulty == faults < MaxFaults /\ faults' = faults + 1

\* The control plane still holds lease n of task t.
Holds(t, n) == status[t] = "leased" /\ owner[t] = n

\* executeClaimedTask returns: the deferred cancel and heartbeat.stop run.
Return ==
    /\ pc' = "idle" /\ task' = NoTask /\ lease' = 0 /\ outcome' = "none"
    /\ leaseLost' = FALSE /\ wait' = "bounded" /\ reply' = "none"

\* The outcomes that survive pruneTaskOutcomes in the map values, stamped by
\* at: those not older than the retention period (seven days, so any instant up
\* to the present may be its cutoff), and of them the CacheLimit newest.
Survivors(values, at, cutoff) ==
    LET unexpired == {u \in Tasks : values[u] # "none" /\ at[u] >= cutoff}
    IN {u \in unexpired : Cardinality({w \in unexpired : at[w] > at[u]}) < CacheLimit}

\* taskResultStore.put: load, insert, prune, replace the file.
PutOutcome(t, o) ==
    \E cutoff \in 0..(clock + 1) :
        LET values == [cache EXCEPT ![t] = o]
            at     == [recordedAt EXCEPT ![t] = clock + 1]
            kept   == Survivors(values, at, cutoff)
        IN /\ cache' = [u \in Tasks |-> IF u \in kept THEN values[u] ELSE "none"]
           /\ recordedAt' = [u \in Tasks |-> IF u \in kept THEN at[u] ELSE 0]
           /\ clock' = clock + 1
           /\ pruned' = [u \in Tasks |->
                            IF values[u] = "completed" /\ u \notin kept
                              THEN pruned[u] + 1 ELSE pruned[u]]

\* taskResultStore.remove: load, delete, replace the file.
RemoveOutcome(t) ==
    /\ cache' = [cache EXCEPT ![t] = "none"]
    /\ recordedAt' = [recordedAt EXCEPT ![t] = 0]
    /\ UNCHANGED clock

\* What the control plane makes of a report it accepts: a retryable failure is
\* queued again, unless it allows no further attempt.
Verdict(t, o) ==
    \/ o = "completed" /\ status' = [status EXCEPT ![t] = "completed"]
    \/ o \in {"failed", "retryable"} /\ status' = [status EXCEPT ![t] = "failed"]
    \/ o = "retryable" /\ status' = [status EXCEPT ![t] = "queued"]

-----------------------------------------------------------------------------
(* The poll goroutine.                                                     *)

\* claimTasks grants a lease; the answer reaches the agent.
Claim(t) ==
    /\ pc = "idle" /\ ~stopping
    /\ status[t] = "queued"
    /\ status' = [status EXCEPT ![t] = "leased"]
    /\ owner' = [owner EXCEPT ![t] = @ + 1]
    /\ pc' = "lookup" /\ task' = t /\ lease' = owner[t] + 1
    /\ UNCHANGED <<diskVars, outcome, leaseLost, wait, reply, stopping, late, faults, ghostVars>>

\* The lease is granted but the answer is lost: the agent never learns of it.
ClaimAnswerLost(t) ==
    /\ pc = "idle" /\ ~stopping
    /\ status[t] = "queued"
    /\ Faulty
    /\ status' = [status EXCEPT ![t] = "leased"]
    /\ owner' = [owner EXCEPT ![t] = @ + 1]
    /\ UNCHANGED <<diskVars, agentVars, stopping, late, ghostVars>>

\* Mutations of ReportCached: a retryable failure counts as final (!Retryable
\* dropped from the condition), or the report does not say what the cache says.
ReportCachedRetryable ==
    /\ pc = "lookup"
    /\ cache[task] \in Outcomes
    /\ outcome' = cache[task]
    /\ pc' = "report"
    /\ UNCHANGED <<serverVars, diskVars, task, lease, leaseLost, wait, reply,
                   stopping, late, faults, ghostVars>>

ReportCachedAsFailed ==
    /\ pc = "lookup"
    /\ cache[task] \in {"completed", "failed"}
    /\ outcome' = "failed"
    /\ pc' = "report"
    /\ UNCHANGED <<serverVars, diskVars, task, lease, leaseLost, wait, reply,
                   stopping, late, faults, ghostVars>>

\* A final outcome is in the cache: report it under the new lease.
ReportCached ==
    /\ pc = "lookup"
    /\ cache[task] \in {"completed", "failed"}
    /\ outcome' = cache[task]
    /\ pc' = "report"
    /\ UNCHANGED <<serverVars, diskVars, task, lease, leaseLost, wait, reply,
                   stopping, late, faults, ghostVars>>

\* Mutations of StartExecution: a recorded success is executed again, or the
\* retryable failure is not removed.
StartExecutionDespiteSuccess(w) ==
    /\ pc = "lookup"
    /\ cache[task] # "failed"
    /\ RemoveOutcome(task)
    /\ pc' = "executing"
    /\ wait' = w
    /\ ranUnder' = [ranUnder EXCEPT ![task] = lease]
    /\ UNCHANGED <<serverVars, task, lease, outcome, leaseLost, reply,
                   stopping, late, faults, produced, successes, pruned>>

\* No outcome, or a retryable failure, which is removed first: start the lease
\* heartbeat and dispatch the task.
StartExecution(w) ==
    /\ pc = "lookup"
    /\ cache[task] \in {"none", "retryable"}
    /\ RemoveOutcome(task)
    /\ pc' = "executing"
    /\ wait' = w
    /\ ranUnder' = [ranUnder EXCEPT ![task] = lease]
    /\ UNCHANGED <<serverVars, task, lease, outcome, leaseLost, reply,
                   stopping, late, faults, produced, successes, pruned>>

\* The cache cannot be read or rewritten (get or remove returns an error).  When
\* writeJSONAtomic fails after its rename the file has changed all the same, here
\* and in RecordFails: that is StartExecution or RecordOutcome followed by Crash.
LookupFails ==
    /\ pc = "lookup"
    /\ Faulty
    /\ Return
    /\ UNCHANGED <<serverVars, diskVars, stopping, late, ghostVars>>

\* Mutation of FinishExecution: the outcome is never filled in.
FinishExecutionUnset(o) ==
    /\ pc = "executing"
    /\ pc' = "executed"
    /\ wait' = "bounded"
    /\ produced' = [produced EXCEPT ![task] = @ \union {o}]
    /\ UNCHANGED <<serverVars, diskVars, task, lease, outcome, leaseLost, reply,
                   stopping, late, faults, successes, pruned, ranUnder>>

\* dispatchClaimedTask returns.  A cancelled context (lost lease, shutdown) may
\* make it return early with any outcome, and none need make it return at all.
FinishExecution(o) ==
    /\ pc = "executing"
    /\ IF o = "retryable" THEN Faulty ELSE UNCHANGED faults
    /\ outcome' = o
    /\ pc' = "executed"
    /\ wait' = "bounded"
    /\ produced' = [produced EXCEPT ![task] = @ \union {o}]
    /\ UNCHANGED <<serverVars, diskVars, task, lease, leaseLost, reply,
                   stopping, late, successes, pruned, ranUnder>>

\* heartbeat.lost() is true: the result is dropped and nothing is recorded.
DropResult ==
    /\ pc = "executed"
    /\ leaseLost
    /\ Return
    /\ UNCHANGED <<serverVars, diskVars, stopping, late, faults, ghostVars>>

\* The outcome is recorded before it is reported.
RecordOutcome ==
    /\ pc = "executed"
    /\ ~leaseLost
    /\ PutOutcome(task, outcome)
    /\ pc' = "report"
    /\ successes' = [successes EXCEPT ![task] = IF outcome = "completed" THEN @ + 1 ELSE @]
    /\ UNCHANGED <<serverVars, task, lease, outcome, leaseLost, wait, reply,
                   stopping, late, faults, produced, ranUnder>>

\* put returns an error: the handler returns without a report.
RecordFails ==
    /\ pc = "executed"
    /\ ~leaseLost
    /\ Faulty
    /\ Return
    /\ UNCHANGED <<serverVars, diskVars, stopping, late, ghostVars>>

\* completeTask or failTask under the current lease: the report is accepted.
ReportAccepted ==
    /\ pc = "report" /\ ~stopping
    /\ Holds(task, lease)
    /\ Verdict(task, outcome)
    /\ reply' = "ok"
    /\ pc' = "replied"
    /\ UNCHANGED <<owner, diskVars, task, lease, outcome, leaseLost, wait,
                   stopping, late, faults, ghostVars>>

\* The lease is gone: 404 or 409.
ReportRejected ==
    /\ pc = "report" /\ ~stopping
    /\ ~Holds(task, lease)
    /\ reply' = "conflict"
    /\ pc' = "replied"
    /\ UNCHANGED <<serverVars, diskVars, task, lease, outcome, leaseLost, wait,
                   stopping, late, faults, ghostVars>>

\* No answer in time, or another HTTP error: the control plane may see the
\* report now, later or never (DeliverLate).
ReportUnanswered ==
    /\ pc = "report" /\ ~stopping
    /\ Faulty
    /\ late' = late \union {[task |-> task, lease |-> lease, outcome |-> outcome]}
    /\ reply' = "error"
    /\ pc' = "replied"
    /\ UNCHANGED <<serverVars, diskVars, task, lease, outcome, leaseLost, wait,
                   stopping, ghostVars>>

\* Reports use the root context: after SIGTERM they fail without being sent.
ReportCancelled ==
    /\ pc = "report" /\ stopping
    /\ reply' = "error"
    /\ pc' = "replied"
    /\ UNCHANGED <<serverVars, diskVars, task, lease, outcome, leaseLost, wait,
                   stopping, late, faults, ghostVars>>

\* Mutation of ForgetsAfter: a success, too, is dropped when its lease is gone.
ForgetsAnyConflict(r, o) == r = "conflict" \/ (r = "ok" /\ o = "retryable")

\* The answers after which the outcome is dropped from the cache: a failure the
\* control plane will not take under this lease, and a retryable failure it took
\* (only an outcome just produced is retryable here).
ForgetsAfter(r, o) ==
    \/ r = "conflict" /\ o # "completed"
    \/ r = "ok" /\ o = "retryable"

\* Mutation of HandleReply: a report that met a conflict is sent again.
HandleReplyRetries ==
    /\ pc = "replied"
    /\ IF reply = "conflict"
         THEN pc' = "report" /\ UNCHANGED <<diskVars, task, lease, outcome, leaseLost, wait, reply>>
         ELSE /\ IF ForgetsAfter(reply, outcome) THEN RemoveOutcome(task) ELSE UNCHANGED diskVars
              /\ Return
    /\ UNCHANGED <<serverVars, stopping, late, faults, ghostVars>>

\* The answer is handled and the handler returns.
HandleReply ==
    /\ pc = "replied"
    /\ IF ForgetsAfter(reply, outcome)
         THEN RemoveOutcome(task)
         ELSE UNCHANGED diskVars
    /\ Return
    /\ UNCHANGED <<serverVars, stopping, late, faults, ghostVars>>

\* The same, and the error of remove is ignored: the outcome stays cached.
HandleReplyKeepsOutcome ==
    /\ pc = "replied"
    /\ ForgetsAfter(reply, outcome)
    /\ Faulty
    /\ Return
    /\ UNCHANGED <<serverVars, diskVars, stopping, late, ghostVars>>

-----------------------------------------------------------------------------
(* The lease heartbeat goroutine, the process and the control plane.       *)

\* A heartbeat is answered 404 or 409: the task's context is cancelled.  Any
\* other answer changes nothing here, and after the result was recorded nobody
\* reads the flag.
HeartbeatRejected ==
    /\ pc \in {"executing", "executed"}
    /\ ~leaseLost /\ ~stopping
    /\ ~Holds(task, lease)
    /\ leaseLost' = TRUE
    /\ UNCHANGED <<serverVars, diskVars, pc, task, lease, outcome, wait, reply,
                   stopping, late, faults, ghostVars>>

\* SIGTERM: the loops finish what they are doing, with a cancelled context.
Shutdown ==
    /\ ~stopping
    /\ Faulty
    /\ stopping' = TRUE
    /\ UNCHANGED <<serverVars, diskVars, agentVars, late, ghostVars>>

\* Both loops have returned; the service manager starts the agent again.
Restart ==
    /\ stopping /\ pc = "idle"
    /\ stopping' = FALSE
    /\ UNCHANGED <<serverVars, diskVars, agentVars, late, faults, ghostVars>>

\* The process is killed and started again: memory is lost, the file is not
\* (writeJSONAtomic replaces it by a rename).
Crash ==
    /\ pc # "idle"
    /\ Faulty
    /\ Return
    /\ stopping' = FALSE
    /\ UNCHANGED <<serverVars, diskVars, late, ghostVars>>

\* A report the agent gave up on reaches the control plane.
DeliverLate(m) ==
    /\ late' = late \ {m}
    /\ IF Holds(m.task, m.lease) THEN Verdict(m.task, m.outcome) ELSE UNCHANGED status
    /\ UNCHANGED <<owner, diskVars, agentVars, stopping, faults, ghostVars>>

\* The agent works under the current lease of t and heartbeats it.
Attended(t) == pc # "idle" /\ task = t /\ lease = owner[t]

\* A lease runs out: at once when nobody attends it, and as a fault when the
\* heartbeats of the agent that attends it are lost or late.
ExpireLease(t) ==
    /\ status[t] = "leased"
    /\ IF Attended(t) THEN Faulty ELSE UNCHANGED faults
    /\ status' = [status EXCEPT ![t] = "queued"]
    /\ UNCHANGED <<owner, diskVars, agentVars, stopping, late, ghostVars>>

\* A user cancels the task.
Cancel(t) ==
    /\ status[t] \in {"queued", "leased"}
    /\ status' = [status EXCEPT ![t] = "cancelled"]
    /\ UNCHANGED <<owner, diskVars, agentVars, stopping, late, faults, ghostVars>>

\* Every task has its verdict and the agent polls in vain.
PollInVain ==
    /\ pc = "idle" /\ ~stopping
    /\ \A t \in Tasks : status[t] # "queued"
    /\ UNCHANGED vars

-----------------------------------------------------------------------------
AgentStep ==
    \/ ReportCached
    \/ \E w \in Waits : StartExecution(w)
    \/ \E o \in Outcomes : FinishExecution(o)
    \/ DropResult \/ RecordOutcome
    \/ ReportAccepted \/ ReportRejected \/ ReportCancelled
    \/ HandleReply \/ Restart

AgentFault ==
    \/ LookupFails \/ RecordFails \/ ReportUnanswered
    \/ HandleReplyKeepsOutcome \/ HeartbeatRejected \/ Shutdown \/ Crash

ServerStep(t) == ClaimAnswerLost(t) \/ ExpireLease(t) \/ Cancel(t)

Next ==
    \/ AgentStep
    \/ AgentFault
    \/ \E t \in Tasks : Claim(t) \/ ServerStep(t)
    \/ \E m \in late : DeliverLate(m)
    \/ PollInVain

Spec == Init /\ [][Next]_vars

\* The execution at hand may go on for ever: it waits without limit, and it is
\* deaf to its context or nothing cancels it, while the heartbeats keep its lease.
Hanging ==
    /\ pc = "executing"
    /\ \/ wait = "deaf"
       \/ wait = "heeding" /\ ~leaseLost /\ ~stopping

\* The goroutine keeps running except in an execution that may hang, a heartbeat
\* of a lost lease is answered at some time, and the control plane hands out
\* queued tasks and expires leases nobody attends.
Fairness ==
    /\ WF_vars(AgentStep /\ ~Hanging)
    /\ WF_vars(HeartbeatRejected)
    /\ \A t \in Tasks : WF_vars(Claim(t)) /\ WF_vars(ExpireLease(t) /\ ~Attended(t))

FairSpec == Spec /\ Fairness

-----------------------------------------------------------------------------
(* Properties.                                                             *)

\* A success is recorded once: across lost reports, expired leases, crashes and
\* restarts a task whose "completed" outcome reached the cache is not executed
\* to success again, unless pruneTaskOutcomes dropped the outcome in between.
SuccessRecordedOnce == \A t \in Tasks : successes[t] <= 1 + pruned[t]

\* A task whose success is on disk is never "failed" at the control plane, even
\* when an earlier failure report of it is still in the network.
SuccessNeverReportedFailed ==
    \A t \in Tasks : status[t] = "failed" /\ successes[t] > 0 => pruned[t] > 0

\* "A retryable failure must execute again after the server grants a new lease":
\* a retryable failure is only ever reported under the lease its execution ran
\* under, never out of the cache under a later one.
RetryableReportIsFresh ==
    pc = "report" /\ outcome = "retryable" => ranUnder[task] = lease

\* The runner implements the ledger of TaskLedger.
Ledger == INSTANCE TaskLedger WITH
              verdict <- [t \in Tasks |->
                             IF status[t] \in Settled THEN status[t] ELSE "open"]
ImplementsLedger == Ledger!LedgerSpec

\* Every task gets its verdict once the faults stop, unless one execution hangs for
\* ever, and then the tasks behind it wait: one goroutine executes one task at a
\* time.  Such an execution is deaf, or it still holds its lease: one that heeds
\* its context is ended by the heartbeat after the lease is gone.
EveryTaskSettles ==
    \/ \A t \in Tasks : <>(status[t] \in Settled)
    \/ <>[](Hanging /\ (wait = "heeding" => Holds(task, lease)))
-----------------------------------------------------------------------------
(* The inductive invariant behind them (proved in TaskRunnerProofs).       *)

\* Every outcome the agent holds, on disk, in memory or in the network, was
\* produced by an execution of its task.
OutcomesEarned ==
    /\ \A t \in Tasks : cache[t] # "none" => cache[t] \in produced[t]
    /\ pc \in {"executed", "report", "replied"} => outcome \in produced[task]
    /\ \A m \in late : m.outcome \in produced[m.task] /\ m.lease <= owner[m.task]

\* The handler works under the last lease granted; until it reports, the task
\* has no verdict and nothing in the network can give it one.
LeaseCurrent ==
    /\ pc # "idle" => lease = owner[task]
    /\ pc \in {"lookup", "executing", "executed", "report"} =>
           /\ status[task] \notin {"completed", "failed"}
           /\ \A m \in late : m.task = task => m.lease < lease

\* What the cache holds of the task at hand.
CacheInStep ==
    /\ pc \in {"executing", "executed"} => cache[task] = "none"
    /\ pc \in {"report", "replied"} => cache[task] \in {outcome, "none"}
    /\ pc \in {"executing", "executed"} => ranUnder[task] = lease

\* A recorded success accounts for itself until it is pruned, and no failure
\* can reach the control plane while it is cached.
SuccessAccounted ==
    \A t \in Tasks :
        /\ successes[t] <= pruned[t] + (IF cache[t] = "completed" THEN 1 ELSE 0)
        /\ status[t] = "failed" => cache[t] # "completed"
        /\ \A m \in late :
               m.task = t /\ m.lease = owner[t] /\ cache[t] = "completed"
                   => m.outcome = "completed"

\* All of it: what the agent does is safe from any state where this holds.
RunnerInv ==
    /\ TypeOK
    /\ OutcomesEarned /\ LeaseCurrent /\ CacheInStep /\ SuccessAccounted
    /\ RetryableReportIsFresh
=============================================================================
