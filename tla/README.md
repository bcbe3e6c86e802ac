# Verification of the Monkeys compute node agent

TLA+ models of the agent in `src/` (Go, package `internal/agent`), the TLC runs
that check them on small instances, and TLAPS proofs of what matters most for
every instance. Line numbers are those of the sources under `src/internal/agent/`
unless a path says otherwise. `PROJECT.json` maps every definition that models
code to its lines and lists runs, mutants, hazards, findings and theorems.

## The system

The agent runs on a host, in a cluster pod or as a worker, and works for a
control plane ("Kernel runtime control plane") that is not in the repository. It
talks HTTP and JSON with it (`client.go`); whatever fails or is not answered in
30 seconds is an error, and the request may have been executed all the same.

| Part | State | Operations | Talks to |
|---|---|---|---|
| Task runner (`runner.go`, `task_results.go`) | the claimed task, its lease, `leaseLost`; `.monkeys/task-results.json` | claim, look up, execute, record, report, forget; lease heartbeat every 15 s | control plane, every executor |
| Plan execution (`runner.go`, `executor.go`, `host_service.go`) | the list of results of one attempt, nothing on disk | events, actions, completion | control plane, system tools |
| Worker processes (`worker_process.go`, `worker_state.go`, `worker_tasks.go`) | `.monkeys/worker-state.json`, one mutex per task, child processes, waiter goroutines | process.create, start, stop, restart, delete, inspect, exec | operating system |
| Node lifecycle (`kubernetes_node_lifecycle.go`) | none between tasks | cordon, uncordon, drain | Kubernetes API |
| Cluster runtimes (`kubernetes_runtime.go`, `kubernetes_client.go`) | none between tasks | k8s.apply-, scale-, restart-, inspect-, delete-, exec-runtime | Kubernetes API |
| Cluster inventory (`kubernetes_inventory.go`) | a cached snapshot and its time | one call for each heartbeat | Kubernetes API |
| Identity (`state.go`, `runner.go`) | `<state>.instance-id`, the state file | register, start | control plane |
| Loops and shutdown (`runner.go`, `cmd/.../main.go`) | the root context | heartbeat loop, task loop, SIGTERM | all of the above |
| Runtime status (`runtime_status.go`, `kubernetes_runtime.go`) | none | a status from a Deployment and its pods, in two ways | heartbeat, k8s.inspect-runtime |
| Process output (`worker_process.go`) | the buffer of an exec; log files with a byte limit and one backup | exec, open and rotate, write, quote | child processes, waiters |
| Worker filesystem (`worker_filesystem.go`) | the files of a runtime | list, stat, read, write, mkdir, rename, delete | operating system |
| Discovery and telemetry (`discovery.go`, `telemetry.go`) | none | read the host | heartbeat |
| Host kubectl tasks, HTTP and metrics tasks, CLI, installer | none | one call each | system tools |

What makes each of them correct, and hard:

* **Task runner.** A task is executed on this node, possibly more than once, and
  settled once. Leases expire, reports are lost or arrive late, the agent dies
  between execution, record and report, and the cache drops old outcomes. A
  recorded success must be reported and not repeated; a retryable failure must
  be repeated and not reported under another lease.
* **Plan execution.** At most one execution of an action for each reason to
  start over, opt-in at every path, events before the completion, and progress
  although `agent.update` kills the agent that carries it out.
* **Worker processes.** Three kinds of goroutine rewrite one file. No process
  runs unrecorded or under another definition than its record has, the exit of
  each is recorded for the right incarnation, and a record refers to the secrets
  that are on disk.
* **Process output.** A log stays below its limit and a full one hurts nobody, a
  failed start quotes its own process, and exec ends although what it started
  forks, while old processes hold the pipes and logs of new ones.
* **Worker filesystem.** A task that is executed again after an error or a death
  reports what became of the files, and does no more than it says.
* **Drain.** Evicts what the options allow, nowhere else, and says "drained" only
  when the pods are gone, while pods terminate and come back under their names.
* **Cluster runtimes.** Success means that all of it is in place, without
  overwriting what was not read, among other writers, conflicts and retries.
* **Heartbeat reports.** How old a report may be and how often the cluster is
  listed; two derivations of a status, and two ways to read the cluster, that
  must agree; mounts that share a device.
* **Identity.** One installation is one instance for the control plane, however
  often `register` is interrupted and repeated.

## Modules

| Module | Models | With |
|---|---|---|
| `TaskLedger` | abstract: what the task runner promises about verdicts | - |
| `TaskRunner` | task runner, outcome cache, leases, network | refines `TaskLedger` |
| `TaskRunnerProofs` | theorems about `TaskRunner` | TLAPS |
| `PlanExecution`, `PlanExecutionProofs` | plans | TLAPS |
| `WorkerProcess`, `WorkerProcessProofs` | worker processes, their secrets and the state file | TLAPS |
| `WorkerOutput` | logs of processes and buffers of execs | - |
| `WorkerFilesystem` | filesystem tasks as system calls | - |
| `WorkerTasks`, `WorkerTasksProofs` | the task loop of worker mode | composes the two above; TLAPS |
| `DrainNode`, `DrainNodeProofs` | k8s.drain-node | TLAPS |
| `ClusterRuntime`, `ClusterRuntimeProofs` | apply, scale, restart and delete of a runtime | TLAPS |
| `InventoryCache` | cluster inventory | - |
| `RuntimeStatus`, `HostTelemetry` | statuses and storage, as functions of what is found | - |
| `Heartbeat`, `HeartbeatProofs` | what a heartbeat reports | composes the three above; TLAPS |
| `AgentIdentity`, `AgentIdentityProofs` | registration | TLAPS |
| `MC*` | model values, symmetry and sequences for TLC | - |

In each module the external world (control plane, kernel, Kubernetes API, network)
is modelled from what the agent's code relies on and is marked external. An
operator whose comment begins with "Mutation of" is not part of the model: it is
the form that a plausible bug would give the definition it names, kept beside it
to show that the properties notice.

### TaskRunner and TaskLedger

`pc` walks through `executeClaimedTask` (runner.go:211-256): *lookup* in the
cache, *executing*, *executed* (outcome known, not recorded), *report*,
*replied*. `Claim` is `claimAndExecuteTasks` with its limit of one.
`ReportCached`, `StartExecution` and `LookupFails` are the three ways the lookup
ends; a retryable outcome found there is removed and executed again.
How long the execution may last is chosen when it starts (`wait`).
`FinishExecution` ends with any outcome, `DropResult` is the `lost()` check,
`RecordOutcome` is `put` with `pruneTaskOutcomes`. A report is accepted, rejected
(404 or 409), unanswered (and may be delivered later, `DeliverLate`), or
cancelled with the root context after SIGTERM. `HandleReply` decides whether the
outcome is forgotten. `HeartbeatRejected` is the second goroutine. `Crash` may
happen between any two steps and keeps the disk; a torn write cannot happen
because the file is replaced by a rename, and a record that fails after the
rename is `RecordOutcome` followed by `Crash` as far as the rest of the system
can tell. `Shutdown` and `Restart` are SIGTERM and the service manager.

`TaskLedger` has no lease, cache or message: executions produce outcomes, and a
verdict repeats a produced outcome and is final. A task with a verdict is not
executed again, except a cancelled one that was running.
`ImplementsLedger` is the refinement; `verdict` is the control plane's status
with *queued* and *leased* both read as *open*.

Simplifications: time is replaced by "a lease may expire": an expiry while the
agent attends the task counts as a fault, one that nobody attends does not.
`CompletedAt` values are distinct (a clock), where the code breaks ties by id. An
execution interrupted by SIGTERM may end with any outcome. An error of the cache
file ends the task early, as in the code, and the lease then expires.

### PlanExecution

`pc` walks through `executePlan` (runner.go:368-438). A plan is a sequence of
kinds of action; `Performs` says whether `executeAction` changes anything for a
kind in a configuration (`opted` is AllowInstall and not DryRun), `ListOf` in
which list the result goes. A post that is not answered ends the attempt and may
be delivered late. `ScheduledRestart` is the `sleep 2; systemctl restart` that
agent.update leaves behind; it is free between two plans and counts as a fault
when it cuts one off.

### WorkerProcess

`file` is the state file, `proc` the kernel's processes, `waiter` the goroutine
of each, `secrets` the secret files and the secret environment of each runtime. A
task is a list of steps in `todo`; create and restart are made of several, in the
code's order: a create stops, writes the secrets, puts the record, starts; a delete
stops, erases the record, and removes the secrets that this record named (`FollowUp`,
`Unlink`), if it had any. An
update of the file is three actions, `Acquire` (mutex and read), `Write`,
`Release`, because other managers can act in between: `executeWorkerTask` makes
a manager for every task, and `MutexFree` lets an actor in when no actor of *the
same manager* is inside. `clobbered` says that an update replaced a file that had
changed since it was read. `Crash` kills the agent and, depending on the service
manager, its processes; `LoadFails` is a state file that cannot be read, which
makes stop write into a nil map and the agent panic.

### WorkerOutput

`pc` walks through start (open the log: remove the backup, rename, truncate,
open; spawn; record; watch for `workerStartupGrace`) or through exec. `holders`
are the processes that hold the write end of a command's pipe: the command, a
child in its group, a child that has left it. `copy` is the goroutine of os/exec,
which ends when nobody holds the pipe or when the writer errs; `Wait` ends after
it. A byte is the number of the start it comes from, so that a property can ask
whose output is quoted; a file is the number of the start that created it.
`shared` remembers the files that two logs had open at once. What decides whether
a process is started, and its record, is in `WorkerProcess`: here a start may come
whenever no started command is alive, except one that is `lost`: it runs although no
record names it (the agent died between `command.Start` and the record), or it has
survived SIGKILL (`GiveUp` of a stop; `InterruptFails` of an exec; `RecordFails`). One
process id, one of the two logs, and one child at a time.

### WorkerFilesystem and WorkerTasks

A task is a list of system calls, in `step`: look, make the missing parents, one
directory at a time as `os.MkdirAll` does, act, and for a write the bytes. Each may
fail, with the class of error that the code gives it
(an error without a class is final), and the agent may die before each and before
the outcome is recorded; the task is then executed from the start, as
`TaskRunner` does. `tree` is the workspace, `before` as the task first found it.
The contents of a file are the pieces it was written in. Left out: symbolic links,
the root of the workspace, and what the runtime's processes do meanwhile.

`WorkerTasks` is the loop that has one such task, or one process task, at a time.
Neither kind looks at the other's state, so the filesystem tasks come before the
first process: the order that a behaviour has them in makes no difference, and
the product would be checked in vain.

### DrainNode

`pc` walks through `drainNode`: cordon, list and select, evict each candidate
until accepted, wait for each to disappear (eviction and waiting go by name, as
in the code, long after the list was read), and the time-out. A failed attempt may be followed by another, as the task
runner does with a retryable failure. Pods terminate when they like, StatefulSet
pods come back under their name on another node (or the same one if it is not
cordoned), and `Meddle` is everybody else. An eviction that the drain got no answer to
(`Fail`; kubernetes_client.go:162) may also be carried out later (`DeliverLate`), by
its name, whatever pod has the name by then and whether or not the drain is still
under way: `EvictsTheNode` lets such an eviction, and those after it of the same
name, strike a pod on another node, because the code sends no uid.

### ClusterRuntime

Every request to the API is one action: `Get` and `Post` of `applyRuntime`,
`Read` and `Write` of `replaceWithResourceVersion` and
`patchWithResourceVersion` (read the version, write under it, three conflicts at
most), `Resolve`, `List` and `Delete`. Objects have a version, an owner label,
which task's apply and which patch they carry, and, for Services, a clusterIP and
a nodePort. A PUT of a Service that names no nodePort is given a new one
(`PortAfter`), and one without a resourceVersion overwrites whatever is there; `Body`
is what the agent sends. `Answer` and `Perform` are the API server; `Edit`, `Remove`, `Create`
and `Vanish` are other writers and claim protection. A request without an answer
may be executed later (`DeliverLate`).

### InventoryCache, RuntimeStatus, HostTelemetry and Heartbeat

`Call` is a heartbeat; `FreshStatuses`, `List`, `Complete`, `RefreshFails` and
`StaleStatuses` are the paths of `collectClusterState`. A list is represented by
the time it was read at; `updatedAt` is the code's field, moved into the past
after a failure; `taken` and `failedAt` are the true times, for the properties.

`RuntimeStatus` has `deriveRuntimeStatusFromPods` and `inspectRuntimeResult` side
by side (`DetectedStatus`, `InspectedStatus`), and the statuses of a cluster from
the full inventory and from the labelled objects (`FullStatuses`,
`SelectedStatuses`) with both cut-offs. `HostTelemetry` has the candidates, the
cut-offs and the total of `collectStorageTelemetry`. These are functions;
`Heartbeat` adds one variable, `found`, that takes every bounded input once.

### AgentIdentity

`Begin` to `Save` is `Register`, one action for each file or network operation:
read the id file, create it exclusively, read it again when it exists, write,
sync, post, and save the state by rename. Every step may fail or be the last one
of a killed command, and several commands may run at once. `StartAgent` is
`resolveRunConfig`. Not modelled: a loss of power (the reason for the syncs) and
ids given by flag or environment.

## What the runs check

| Run | Checks | Bounds |
|---|---|---|
| `task_runner` | `SuccessRecordedOnce`, `SuccessNeverReportedFailed`, `RetryableReportIsFresh`, `ImplementsLedger`, `EveryTaskSettles` | 2 tasks, cache of 1, 3 faults |
| `plan_execution` | `RepeatsArePaidFor`, `ReportedWasAnnounced`, `SilentEffectsArePaidFor`, `ResultsAreCarried`, `PlanCompletes` | every plan of 0 to 2 actions out of 9 kinds, every configuration, 2 faults |
| `worker_process` | `LiveIsRecorded-`, `ExitRecorded-`, `StartableUnlessClobbered` | 2 runtimes, 2 definitions, 4 tasks, 2 processes, 1 fault |
| `worker_lost_update` | finding: `ExitRecorded` fails with a manager per task | the same, 3 tasks |
| `worker_tasks` | `OvershootIsShared`, `DiagnosticIsOwn`, `CutIsHarmless`, `TasksEnd`, `FilesystemIsFaithful` | 3 starts or execs, limit, tail and writes of 2 bytes, 1 fault; every workspace of 2 names, 3 levels and at most 3 entries, every task on it, 2 errors or deaths |
| `drain_node` | `ResultIsTrue`, `EvictsTheNode` | 2 pods of every kind, 2 incarnations, 2 attempts, 1 act of others |
| `drain_retried` | finding: `DrainWaits` fails in a second attempt | the same, nobody else acts |
| `cluster_runtime` | `SuccessMeansDone`, `EditsAreSeen`, `OthersAreSpared` | a claim, a Service, a Deployment; 2 tasks, 2 edits, 1 fault |
| `cluster_ports` | finding: `PortsStand` fails | 1 task, 2 edits, no fault |
| `heartbeat_reports` | `UnmarkedIsRecent`, `RefreshesAreSpaced`, `StatusesGoForward`, `StatusesAgree`, `PathsAgreeUnlessTruncated`, `DevicesCountedOnce` | 3 lists, TTL 3, retry 2, time to 7, 2 faults; 2 pods of 2 containers, 3 objects of each kind in lists of 2, 4 mounts |
| `agent_identity` | `IdentityIsStable`, `RunsAsRegistered`, `OnlyAnEmptyFileStops` | 2 processes, 4 commands, 2 faults |
| `identity_repeat` | finding: `RepeatSucceeds` fails | 1 process, 2 commands, 1 fault |

Each passing run also checks the `TypeOK` of its module (in `worker_tasks`, that
of `WorkerOutput`).

Why the bounds are enough to be worth something: two tasks are the least that
compete for a cache, and a cache of one is pruned at every second record. Three
faults allow a lost report, a crash and an expired lease in one behaviour. Two
runtimes and two processes are the least for one record to overwrite another and
for a record to outlive its process; four tasks let a create be cut off between
secrets and record and be followed by two more. Three starts are the least for a
log to be rotated under a process that still writes to it and for a third one to
quote it; two bytes are an amount that fits, that does not, and that fits in
part. Two disturbances let a filesystem task die, fail in the repetition, and be
executed a third time; three levels are the least with two parents to make, between
which a task may be cut off, and three entries a directory with two in it, or one in
one in one. Two actions allow a failure behind an
effect, and two attempts at it. Two uids are the least for a name to be taken
again. Two edits allow one before and one after each read (a third conflict needs
three, and is reached with the agent's own late request as the third writer or
by two edits and a fault; `TypeOK`'s mutant, an endless loop, is found there).
Time to 7 with a TTL of 3 allows a refresh, its expiry, two postponements and a
second refresh. Lists of two in a cluster of three are cut off in some reports and
not in others, and a table of four mounts exceeds both of its limits.

`CHECK_DEADLOCK FALSE` is set where the environment's moves are bounded (tasks
handed out, attempts, time) and the system stops when they are used up.
`TaskRunner` and `PlanExecution` poll for ever and are checked for deadlock.

Fairness is assumed for `EveryTaskSettles`, `PlanCompletes` and `TasksEnd` only. `TaskRunner`: weak fairness of the
agent's step (the poll goroutine is a ticker loop that logs errors and goes on, and
the service unit restarts the agent), except while an execution is `Hanging`; of
`Claim` (the control plane hands out queued tasks), of the expiry of a lease that
nobody attends, and of the answer to a heartbeat whose lease is lost. Nothing is
assumed of faults or late messages. That an execution ends is not assumed of all of
them, because `taskCtx` has no deadline (runner.go:215) and the heartbeat keeps the
lease of a hanging task for as long as it hangs: `wait` says whether an execution
has a limit of its own, ends only when its context is cancelled (k8s.exec-runtime,
kubernetes_runtime.go:386), or not even then (process.exec whose pipe a process
outside the group holds, worker_process.go:561). `EveryTaskSettles` exempts the
behaviours in which the last two kinds hang for ever, and says that a task that
heeds its context does so only while it has its lease. `PlanExecution`: weak fairness of the step of
`executePlan`, except while it is `Hanging`; heartbeats go on every interval whatever
the last one returned. An install, an update and a kubectl apply run under
`runShellCommand` or `runCommandWithEnv` (executor.go:370-395) without a time-out, in
the goroutine that sends the heartbeats: `PlanCompletes` exempts the behaviours in
which such a command hangs for ever. `WorkerTasks`: weak
fairness of what the task loop does by itself, the timer of exec included;
nothing of processes, which may run, fork and write for ever. An exec therefore
ends unless a process that has left its group, or a command that survives SIGKILL,
holds the pipe: `TasksEnd` has these exceptions because the code has them, and is about
the rest: that the kill reaches the whole group, for one.

## What is proved

All with TLAPS, for every value of the constants, from the named assumptions of
the modules alone. `RunnerAssumption`, `PlanAssumption`, `IdentityAssumption`,
`OutputAssumption`, `FilesystemAssumption`, `WorkerAssumption`,
`DrainAssumption`, `ClusterAssumption`, `InventoryAssumption`, `StatusAssumption`
and `TelemetryAssumption` say that bounds
are natural numbers, that markers such as "none" are no names, and besides: a
cache keeps at least one outcome, a log limit is above zero, the retry interval
of the inventory is at least 1 and at most its time to live, a pod has at least
one incarnation, a runtime at least one manifest, and a node finitely many pods.
None puts a number on a set or a sequence.

* **TaskRunner** - `RunnerInv` is inductive (`RunnerInvariant`). The properties
  are not inductive by themselves: that a success is never followed by a failed
  verdict depends on what is still in the network and on what the cache holds.
  `OutcomesEarned` says that every outcome on disk, in memory and in the network
  was produced by an execution; `LeaseCurrent` that the handler works under the
  last lease granted and that nothing in the network bears it before the report;
  `CacheInStep` what the cache holds of the task at hand; `SuccessAccounted` that
  a recorded success is in the cache or was pruned and that nothing but a success
  can be delivered for it. From it follow `TypeCorrect`, `SuccessOnce`,
  `SuccessStands`, `RetryFresh`, and `RefinesLedger`: every step is a step of the
  ledger or a stutter.
* **PlanExecution** - `PlanInv` (`PlanInvariant`) counts the effects of each
  action against the faults, for actions before and behind the one the attempt is
  at, and the set of actions whose effect was lost before its event
  (`LostArePaidFor`). From it `PlanTypes`, `OptIn`, `RepeatsBounded`,
  `CompletionFollowsEvents`, `SilenceBounded`, `StopsAtFailure`. `ArtifactsCarried`
  is that a completion carries the results of all services of the attempt, and of
  the runtimes the failed and the last one; it rests on a lemma on appending.
* **AgentIdentity** - `IdentityInv` (`IdentityInvariant`): at most one command is
  ever about to write the id file, and every command that has left that step has
  the id that is in it. From it `IdentityTypes`, `OneInstance`, `TokensMatch` and
  the action property `OnlyTheTrap`.
* **WorkerOutput** - `OutputInv` (`OutputInvariant`). That a log stays below its
  limit says nothing about the room its writer believes in; `RoomIsTrue` says
  that room and length add up to the limit for a log that only one writer has
  open, `TailIsOwn` that what lies behind `startOffset` is the last start's or
  the file is shared, `NotYet` that nothing exists of starts to come. From it
  `OutputTypes`, `LogsAreCapped`, `QuotesOwn` and `FullLogsDoNoHarm`, and
  `OutputOfTasks` for the loop that has filesystem tasks as well.
* **WorkerFilesystem** - `FilesystemInv` (`FilesystemInvariant`). What is reported
  says nothing about an execution that was cut off; `WriteSoFar`, `MkdirSoFar`,
  `RenameSoFar` and `DeleteSoFar` say of each kind of task what it may have done
  to the workspace it found when it is at a given step and was disturbed or not, so
  that executing it again leads to the same end. Until it has acted there are the
  first n missing parents, for some n (`PartlyPrepared`, `NextParent`). An append is the exception, and
  `Grown` counts what it has left against the disturbances. That a rename
  cannot be carried out twice is `CheckedRename`: its source is gone, unless source
  and target are the same or the target contains the source, and then the target is
  a directory, because whatever is in a workspace has directories above it
  (`Ancestors`). From it `FilesystemFaithful`.
* **WorkerProcess** - `WorkerInv` (`WorkerInvariant`). Everything that is claimed
  unless an update was overwritten is one conjunct, `clobbered \/ Sound`; what it
  rests on holds always: `StepsInOrder`, that a task's steps come in the code's
  order (no erase or put that has not been preceded by a stop), and `Processes`,
  that a waiter is one of a process that was started. `TargetIsQuiet` in `Sound`
  is the reason why a stop before a create or a delete is enough: when the record is about to
  lose its process, nothing of the target runs but the candidate that the task
  is stopping or starting. From it `WorkerTypes`, `LiveRecorded`, `ExitsRecorded`
  and `Startable`.
* **DrainNode** - `DrainInv` (`DrainInvariant`). `WaitsForTheRest` ties the names
  that are still waited for to the pods that were selected: each has left the
  node for good, which is so because uids are not used again, or its name is in
  `remaining`. `Undisturbed` says of the queue that its pods stay where they
  were, `LateInOrder` of the evictions still in the network that they are of attempts
  that have begun and of names that are `unanswered`. From it `DrainTypes`, `DrainResultIsTrue` and `DrainEvictsTheNode`.
* **ClusterRuntime** - `ClusterInv` (`ClusterInvariant`). That a success is one is
  shown by what an attempt has achieved so far: `AppliedSoFar` (the manifests
  before the current one stand or somebody else changed them), `DeletedSoFar`
  (kinds already swept have nothing left of the runtime) and `ListedAreOwn`. From
  it `ClusterTypes`, which bounds the attempts at an update, `SuccessIsDone`, and
  the action properties `EditsSeen` and `OthersSpared`. That every Service keeps a
  nodePort of its own needs a second invariant, `AllocInv` (`AllocationsCarried`):
  every Service has a clusterIP and a nodePort, the latter not older, and every update
  that the agent is about to send, or has in the network, names a version and carries
  such a pair.
* **Heartbeat** - `InventoryInv` (`InventoryInvariant`): nothing is dated in the
  future, and `updatedAt` is the time of the last refresh or was moved back after
  a failure by just so much (`LastUpdate`). From it `InventoryTypes`,
  `UnmarkedRecent`, `RefreshesSpaced` and `StatusesForward`, for the inventory
  alone and, as the reports change nothing in it, for the heartbeat
  (`HeartbeatInventory`).
  `StatusesAlwaysAgree`, `PathsAlwaysAgree` and `DevicesAlwaysCountedOnce` are
  results on functions, for clusters and mount tables of any size; where one would
  think of an induction on the list they use its least element with the
  property.

Only model-checked: the liveness properties `EveryTaskSettles`, `PlanCompletes` and
`TasksEnd` (fairness is beyond the prover). Every other property of a passing run
is a theorem. Only proved, because TLC would show nothing more: `OptIn`
(`EffectsOptedIn`) and `StopsAtFailure`. The modules of proofs say in comments what each part of an
invariant is for; each invariant was checked by TLC on its component's run before it
was proved.

## Findings

Each is a run that TLC finds violated; what the repository says is quoted in
`PROJECT.json`.

1. `worker_lost_update` - `executeWorkerTask` makes a state store with a mutex of
   its own for every task (worker_tasks.go:33), while waiters of earlier tasks
   update the same file under theirs. A record of an exit can be overwritten by
   an update of another runtime.
2. `drain_retried` - `selectDrainPods` passes over terminating pods
   (kubernetes_node_lifecycle.go:364), also those that an earlier attempt of the
   same task evicted. The retry of a drain that timed out says "drained" at once,
   with the pods still running.
3. `cluster_ports` - `applyRuntime` copies the nodePort of its first GET into the
   manifest; `replaceWithResourceVersion` reads the Service again, writes under
   the newer version, and keeps the older nodePort. A change in between is set
   back, past the version check.
4. `identity_repeat` - a `register` that dies, or whose disk is full, between
   creating the instance id file and writing it leaves an empty file, and every
   later `register` fails until somebody removes it.

Weaknesses that the properties had to make room for, and that contradict nothing
the repository says:

* after a failed inventory refresh the old inventory is reported without its stale
  mark for 30 seconds (`UnmarkedIsRecent`);
* an action that was carried out in one attempt stays unannounced when the next
  attempt fails before it (`SilentEffectsArePaidFor`);
* a create that is cut off between secrets and record leaves the old definition
  with the new secret files, whose hashes start does not compare
  (`StartableUnlessClobbered`);
* a log that a process outside the group still has open exceeds its limit
  (`OvershootIsShared`), and such a process holds up an exec past its time-out, as
  does a command that survives SIGKILL (`TasksEnd`);
* a plan, and the heartbeat with it, waits for an install, an update or a kubectl
  apply without a limit (`PlanCompletes`), and a task for some of its commands
  (`EveryTaskSettles`);
* an eviction without an answer may strike a pod of the same name on another node
  (`EvictsTheNode`);
* an append that is executed again is appended again, a rename that was carried
  out is reported as failed, and a write that fails after the truncation is final
  with the old content gone (`FilesystemIsFaithful`);
* a host calls a runtime running with one replica ready, an inspection calls it
  starting, and three more differences of that kind (`StatusesAgree`);
* of two mounts on one point the lower one is kept and given the usage of the
  upper one (`DevicesCountedOnce`).

## Not modelled

* Readiness probes of worker processes, and the redaction of secrets in what a
  failed start quotes: a read, and text.
* k8s.inspect-runtime beyond its status and k8s.exec-runtime read or run one
  command and keep nothing. Cordon and uncordon alone are one patch of the node.
* Host kubectl tasks, HTTP and metrics tasks, filesystem.list, stat and read: one
  call each and no state of the agent's. `confinedWorkerPath` follows symbolic
  links; the workspaces modelled have none.
* Discovery, and telemetry but for storage: stateless parsing of the output of
  system tools.
* Two tickers that drop ticks (heartbeat and task loop): the models' loops start
  the next round at any time.
* Flags, the installer, the build tool and the service unit, except for what the
  models take from them: SIGTERM, `Restart=always`, the kill of a control group.

## Plan

Done, in this order, the most important behaviour first: `TaskRunner` with its
ledger and proofs; `WorkerProcess`; `PlanExecution` and its proofs; `DrainNode`;
`ClusterRuntime`; `AgentIdentity` and its proofs; `InventoryCache`; the secrets
and panics of `WorkerProcess`; `RuntimeStatus`, `HostTelemetry` and `Heartbeat`;
`WorkerOutput` and its proofs; the results of a plan; `WorkerFilesystem`; the
proofs about `Heartbeat`, `DrainNode`, `WorkerProcess`, `ClusterRuntime` and
`WorkerFilesystem`.

Next, models:

1. `TaskLease` - the lease heartbeat with time (15 s of 60 s, per-call time-out):
   how long a task may run on after its lease is lost. Refines the expiry and the
   heartbeat of `TaskRunner`.
2. `AgentLoops` - the heartbeat and the task loop side by side on one host and
   shutdown: composes `TaskRunner` and `PlanExecution`.
