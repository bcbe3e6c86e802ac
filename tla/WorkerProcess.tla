---------------------------- MODULE WorkerProcess ----------------------------
(***************************************************************************)
(* Process supervision in worker mode: workerProcessManager of             *)
(* internal/agent/worker_process.go over workerStateStore of               *)
(* internal/agent/worker_state.go.                                         *)
(*                                                                         *)
(* One goroutine runs the process.* tasks, one after the other.  Each      *)
(* process the agent starts has a waiter goroutine that outlives the task  *)
(* and records the exit.  All of them rewrite one file: an update reads    *)
(* it, changes one record and replaces it by a rename, under the mutex of  *)
(* its store.  executeWorkerTask makes a new manager, hence a new store    *)
(* and a new mutex, for every task, so only updates of the same task       *)
(* exclude each other.  The secrets of a process are files of their own,   *)
(* written before the record that refers to them.                          *)
(***************************************************************************)
EXTENDS Naturals, FiniteSets, Sequences

CONSTANTS Runtimes,   \* runtime ids, which are also process ids
          Defs,       \* process definitions a create may carry (their hashes)
          MaxTasks,   \* bound: tasks executed
          MaxSpawns,  \* bound: processes started
          MaxFaults   \* bound: crashes, file errors and kills that time out

ASSUME WorkerAssumption ==
    /\ MaxTasks \in Nat /\ MaxSpawns \in Nat /\ MaxFaults \in Nat
    /\ {"absent", "blank", "none"} \intersect Defs = {}

\* A process is named by the order of its start: the number stands for its PID
\* together with the start marker read from /proc, and for startedAt.
Procs == 1..MaxSpawns
Waiters == Procs
TaskLoop == 0
Actors == {TaskLoop} \union Waiters

VARIABLES
    file,      \* .monkeys/worker-state.json: one record per runtime
    secrets,   \* whose secret files and secret environment are on disk
    proc,      \* the kernel's processes
    spawned,   \* processes started so far
    waiter,    \* waitForProcess of each process
    manager,   \* the task whose manager started it
    held,      \* actors inside workerStateStore.update
    snap,      \* the state each of them has read
    tasks,     \* tasks begun so far
    target,    \* the runtime of the current task
    newDef,    \* the definition a create carries
    todo,      \* what is left of the current task, in steps
    stage,     \* how far its first step is
    cand,      \* the process that step starts or waits for
    faults,
    clobbered, \* some update replaced a file that had changed since it was read
    unaccounted, \* processes lost sight of: see LiveIsRecorded
    torn       \* runtimes whose create has written secrets and no record yet

taskVars == <<tasks, target, newDef, todo, stage, cand>>
procVars == <<proc, spawned, waiter, manager>>
secretVars == <<secrets, torn>>
vars == <<file, procVars, held, snap, taskVars, faults, clobbered, unaccounted, secretVars>>

\* workerProcessRecord, as far as supervision reads it.  exit: lastExitCode is
\* set.  def is "absent" when the file has no record and "blank" for the zero
\* record that inspect writes when the record has disappeared under it.
Record == [def : Defs \union {"absent", "blank"}, pid : 0..MaxSpawns,
           started : 0..MaxSpawns, status : {"none", "created", "running", "stopped"},
           exit : BOOLEAN]
Absent == [def |-> "absent", pid |-> 0, started |-> 0, status |-> "none", exit |-> FALSE]
Created(d) == [Absent EXCEPT !.def = d, !.status = "created"]

\* The paths are those of the runtime, whatever the definition; each definition
\* has its own content for them.
Secrets == [files : Defs \union {"none"}, env : Defs \union {"none"}]
NoSecrets == [files |-> "none", env |-> "none"]

Process == [state : {"none", "alive", "zombie", "gone"},
            runtime : Runtimes \union {"none"}, def : Defs \union {"none"}]

TypeOK ==
    /\ file \in [Runtimes -> Record]
    /\ secrets \in [Runtimes -> Secrets]
    /\ proc \in [Procs -> Process]
    /\ spawned \in 0..MaxSpawns
    /\ waiter \in [Procs -> {"none", "waiting", "reaped", "done", "failed"}]
    /\ manager \in [Procs -> 0..MaxTasks]
    /\ held \subseteq Actors
    /\ snap \in [Actors -> [Runtimes -> Record]]
    /\ tasks \in 0..MaxTasks
    /\ target \in Runtimes
    /\ newDef \in Defs
    /\ todo \in Seq({"files", "env", "put", "erase", "unlink", "start", "stop",
                     "stopped", "inspect", "check"})
    /\ stage \in {"begin", "wait", "update"}
    /\ cand \in 0..MaxSpawns
    /\ faults \in 0..MaxFaults
    /\ clobbered \in BOOLEAN
    /\ unaccounted \subseteq Procs
    /\ torn \subseteq Runtimes

NoRecords == [r \in Runtimes |-> Absent]

Init ==
    /\ file = NoRecords
    /\ secrets = [r \in Runtimes |-> NoSecrets]
    /\ proc = [p \in Procs |-> [state |-> "none", runtime |-> "none", def |-> "none"]]
    /\ spawned = 0
    /\ waiter = [p \in Procs |-> "none"]
    /\ manager = [p \in Procs |-> 0]
    /\ held = {}
    /\ snap = [a \in Actors |-> NoRecords]
    /\ tasks = 0
    /\ target \in Runtimes /\ newDef \in Defs
    /\ todo = <<>> /\ stage = "begin" /\ cand = 0
    /\ faults = 0
    /\ clobbered = FALSE
    /\ unaccounted = {}
    /\ torn = {}

-----------------------------------------------------------------------------
Faulty == faults < MaxFaults /\ faults' = faults + 1

\* In /proc: a zombie still has its PID and start marker until it is reaped.
Present(p) == proc[p].state \in {"alive", "zombie"}

\* processRecordRunning.
Running(record) == record.pid # 0 /\ Present(record.pid)

ManagerOf(a) == IF a = TaskLoop THEN tasks ELSE manager[a]

\* The mutex of actor a's store is free.
MutexFree(a) == \A b \in held : ManagerOf(b) # ManagerOf(a)

Mine == file[target]
Idle == todo = <<>>
At(step, st) == ~Idle /\ Head(todo) = step /\ stage = st

\* The first step is over; the steps more come next.
Continue(more) ==
    /\ todo' = more \o Tail(todo)
    /\ stage' = "begin" /\ cand' = 0
    /\ UNCHANGED <<tasks, target, newDef>>

\* The task returns, with a result or an error.
EndTask ==
    /\ todo' = <<>> /\ stage' = "begin" /\ cand' = 0
    /\ UNCHANGED <<tasks, target, newDef>>

Stage(st, p) ==
    /\ stage' = st /\ cand' = p
    /\ UNCHANGED <<tasks, target, newDef, todo>>

-----------------------------------------------------------------------------
(* workerProcessManager.execute: which steps a task is made of.            *)

\* Mutations of CreateSteps: the running process is not stopped first, or the
\* record is replaced before the secrets are there.
CreateStepsNoStop(r, d, auto) ==
    IF file[r].def = d THEN <<"inspect">> ELSE <<"files", "env", "put", "start">>

CreateStepsPutFirst(r, d, auto) ==
    IF file[r].def = d THEN <<"files", "env", "inspect">>
                       ELSE <<"stop", "put", "files", "env", "start">>

\* create stops a running process of another definition, writes the secrets and
\* then the record, and starts it again; with the same definition it writes the
\* secrets and only inspects, or checks that the process runs and starts it
\* otherwise.
CreateSteps(r, d, auto) ==
    IF file[r].def = d
      THEN IF auto THEN <<"files", "env", "check", "start">> ELSE <<"files", "env", "inspect">>
      ELSE IF Running(file[r]) THEN <<"stop", "files", "env", "put", "start">>
      ELSE IF auto THEN <<"files", "env", "put", "start">> ELSE <<"files", "env", "put", "inspect">>

\* A task reaches a fresh manager; create loads the state first.
Begin(r) ==
    /\ Idle /\ tasks < MaxTasks
    /\ tasks' = tasks + 1 /\ target' = r
    /\ stage' = "begin" /\ cand' = 0
    /\ UNCHANGED <<file, procVars, held, snap, faults, clobbered, unaccounted, secretVars>>

BeginCreate(r, d, auto) ==
    /\ Begin(r)
    /\ newDef' = d
    /\ todo' = CreateSteps(r, d, auto)

BeginOther(r, steps) ==
    /\ Begin(r)
    /\ newDef' = newDef
    /\ todo' = steps

Programs == {<<"start">>, <<"stop">>, <<"stop", "start">>, <<"stop", "erase">>, <<"inspect">>}

-----------------------------------------------------------------------------
(* workerStateStore.update: lock, read, then write what the caller made of *)
(* it, then unlock.                                                        *)

Acquire(a) ==
    /\ a \notin held /\ MutexFree(a)
    /\ held' = held \union {a}
    /\ snap' = [snap EXCEPT ![a] = file]

Release(a) ==
    /\ held' = held \ {a}
    /\ snap' = [snap EXCEPT ![a] = NoRecords]

\* The file is replaced by the state actor a read, with record changed.
Write(a, r, record) ==
    /\ file' = [snap[a] EXCEPT ![r] = record]
    /\ clobbered' = (clobbered \/ snap[a] # file)
    /\ Release(a)

\* Mutation of Stopped: a status that no reader of the record knows.
StoppedAsExited(record) == [record EXCEPT !.pid = 0, !.status = "exited"]

Stopped(record) == [record EXCEPT !.pid = 0, !.status = "stopped"]

-----------------------------------------------------------------------------
(* The steps of a task.                                                    *)

\* stop: nothing to do without a record; a running process is signalled.
StopLoad ==
    /\ At("stop", "begin") /\ MutexFree(TaskLoop)
    /\ \/ Mine.def = "absent" /\ Continue(<<>>)
       \/ Mine.def # "absent" /\ Running(Mine) /\ Stage("wait", Mine.pid)
       \/ Mine.def # "absent" /\ ~Running(Mine) /\ Stage("update", 0)
    /\ UNCHANGED <<file, procVars, held, snap, faults, clobbered, unaccounted, secretVars>>

\* The process is gone after SIGTERM or SIGKILL.
StopWait ==
    /\ At("stop", "wait")
    /\ ~Present(cand)
    /\ Stage("update", cand)
    /\ UNCHANGED <<file, procVars, held, snap, faults, clobbered, unaccounted, secretVars>>

\* It survives the five seconds after SIGKILL; stop goes on all the same.
KillTimesOut ==
    /\ At("stop", "wait")
    /\ Present(cand)
    /\ Faulty
    /\ Stage("update", cand)
    /\ unaccounted' = unaccounted \union {cand}
    /\ UNCHANGED <<file, procVars, held, snap, clobbered, secretVars>>

\* start: an error without a record, an inspection of a running process, a new
\* process otherwise (Spawn), if the secret environment has the recorded hash;
\* those of the secret files are never compared.
StartLoad ==
    /\ At("start", "begin") /\ MutexFree(TaskLoop)
    /\ \/ Mine.def = "absent" /\ EndTask
       \/ Running(Mine) /\ Continue(<<"inspect">>)
    /\ UNCHANGED <<file, procVars, held, snap, faults, clobbered, unaccounted, secretVars>>

Spawn ==
    /\ At("start", "begin") /\ MutexFree(TaskLoop)
    /\ Mine.def \in Defs /\ ~Running(Mine)
    /\ secrets[target].env = Mine.def
    /\ spawned < MaxSpawns
    /\ spawned' = spawned + 1
    /\ proc' = [proc EXCEPT ![spawned + 1] =
                   [state |-> "alive", runtime |-> target, def |-> Mine.def]]
    /\ Stage("update", spawned + 1)
    /\ UNCHANGED <<file, waiter, manager, held, snap, faults, clobbered, unaccounted, secretVars>>

\* A log cannot be opened, the secret environment is missing or not the recorded
\* one, or the command cannot be started; a blank record has no working directory
\* to make and always fails.
StartFails ==
    /\ At("start", "begin") /\ MutexFree(TaskLoop)
    /\ Mine.def # "absent" /\ ~Running(Mine)
    /\ EndTask
    /\ UNCHANGED <<file, procVars, held, snap, faults, clobbered, unaccounted, secretVars>>

\* The step is an inspection: by itself, as the check of a create, or by stop.
Inspections == {"inspect", "check", "stopped"}
Inspecting == ~Idle /\ Head(todo) \in Inspections /\ stage = "begin"

\* inspect: a record that names a process that is gone is corrected.  A check that
\* finds the process running ends its create.
InspectLoad ==
    /\ Inspecting /\ MutexFree(TaskLoop)
    /\ \/ Running(Mine) /\ (IF Head(todo) = "check" THEN EndTask ELSE Continue(<<>>))
       \/ Mine.pid = 0 /\ Continue(<<>>)
       \/ Mine.pid # 0 /\ ~Running(Mine) /\ Stage("update", 0)
    /\ UNCHANGED <<file, procVars, held, snap, faults, clobbered, unaccounted, secretVars>>

\* writeWorkerSecrets: each file is replaced by a rename, the environment last.
\* Until the record follows, the secrets are not those it names.
WriteSecret(part) ==
    /\ At(part, "begin")
    /\ secrets' = [secrets EXCEPT ![target][part] = newDef]
    /\ torn' = IF part = "env" /\ Mine.def = newDef
                 THEN torn \ {target} ELSE torn \union {target}
    /\ Continue(<<>>)
    /\ UNCHANGED <<file, procVars, held, snap, faults, clobbered, unaccounted>>

\* A secret cannot be written: create fails, with those before it replaced.
SecretFails(part) ==
    /\ At(part, "begin")
    /\ Faulty
    /\ EndTask
    /\ UNCHANGED <<file, procVars, held, snap, clobbered, unaccounted, secretVars>>

\* The end of a delete of a runtime that had a record: its secrets go.
Unlink ==
    /\ At("unlink", "begin")
    /\ secrets' = [secrets EXCEPT ![target] = NoSecrets]
    /\ Continue(<<>>)
    /\ UNCHANGED <<file, procVars, held, snap, faults, clobbered, unaccounted, torn>>

\* put and erase are updates from the start.
UpdateStage == ~Idle /\ (stage = "update" \/ Head(todo) \in {"put", "erase"})

TaskAcquire ==
    /\ UpdateStage
    /\ Acquire(TaskLoop)
    /\ UNCHANGED <<file, procVars, taskVars, faults, clobbered, unaccounted, secretVars>>

\* The record as the step rewrites it, from the record it has read.
Rewritten(step, record) ==
    CASE step = "put" -> Created(newDef)
      [] step = "erase" -> Absent
      [] step = "stop" -> IF record.def = "absent" THEN record ELSE Stopped(record)
      [] step \in Inspections ->       
                             IF record.def = "absent"
                               THEN [Stopped(Absent) EXCEPT !.def = "blank"]
                               ELSE Stopped(record)
      [] step = "start" -> [record EXCEPT !.pid = cand, !.started = cand,
                                          !.status = "running", !.exit = FALSE]

\* Once the record is written or erased, the secrets are no longer ahead of it.
Mended == IF Head(todo) \in {"put", "erase"} THEN torn \ {target} ELSE torn

\* What the step finds left to do: stop goes on to an inspection, and erase removes
\* the files that the record it has read names.  A record that is absent or blank
\* names none, so that what a create cut off before its put has written stays.
FollowUp(step, record) ==
    CASE step = "stop" -> <<"stopped">>
      [] step = "erase" /\ record.def \in Defs -> <<"unlink">>
      [] OTHER -> <<>>

\* put, erase, stop and inspect.
TaskWrite ==
    /\ UpdateStage /\ TaskLoop \in held
    /\ Head(todo) # "start"
    /\ Write(TaskLoop, target, Rewritten(Head(todo), snap[TaskLoop][target]))
    /\ Continue(FollowUp(Head(todo), snap[TaskLoop][target]))
    /\ torn' = Mended
    /\ UNCHANGED <<procVars, faults, unaccounted, secrets>>

\* start records the process and leaves it to a waiter; after the startup grace
\* period it inspects.
RecordStart ==
    /\ At("start", "update") /\ TaskLoop \in held
    /\ snap[TaskLoop][target].def # "absent"
    /\ Write(TaskLoop, target, Rewritten("start", snap[TaskLoop][target]))
    /\ waiter' = [waiter EXCEPT ![cand] = "waiting"]
    /\ manager' = [manager EXCEPT ![cand] = tasks]
    /\ Continue(<<"inspect">>)
    /\ UNCHANGED <<proc, spawned, faults, unaccounted, secretVars>>

\* The store fails: before the rename of the new file, or after it.
StoreFails ==
    /\ Faulty
    /\ \/ Release(TaskLoop) /\ UNCHANGED <<file, clobbered, torn>>
       \/ /\ Write(TaskLoop, target, Rewritten(Head(todo), snap[TaskLoop][target]))
          /\ torn' = Mended

\* "process disappeared", or the store fails: the new process is killed, waited
\* for, and the task fails.
UndoStart ==
    /\ At("start", "update") /\ TaskLoop \in held
    /\ IF snap[TaskLoop][target].def = "absent"
         THEN Release(TaskLoop) /\ UNCHANGED <<file, faults, clobbered, torn>>
         ELSE StoreFails
    /\ proc' = [proc EXCEPT ![cand].state = "gone"]
    /\ EndTask
    /\ UNCHANGED <<spawned, waiter, manager, unaccounted, secrets>>

\* The store fails in another step: inspect ignores it, the others return it.
UpdateFails ==
    /\ UpdateStage /\ TaskLoop \in held
    /\ Head(todo) # "start"
    /\ StoreFails
    /\ IF Head(todo) \in Inspections THEN Continue(<<>>) ELSE EndTask
    /\ UNCHANGED <<procVars, unaccounted, secrets>>

-----------------------------------------------------------------------------
(* Processes and their waiters.                                            *)

\* A process ends, by itself or by a signal.  A child stays a zombie until its
\* waiter reaps it; one inherited from a dead agent is reaped at once by init.
Exit(p) ==
    /\ proc[p].state = "alive"
    /\ proc' = [proc EXCEPT ![p].state =
                   IF waiter[p] = "waiting" \/ (cand = p /\ At("start", "update"))
                     THEN "zombie" ELSE "gone"]
    /\ UNCHANGED <<file, spawned, waiter, manager, held, snap, taskVars,
                   faults, clobbered, unaccounted, secretVars>>

\* command.Wait returns.
Reap(p) ==
    /\ waiter[p] = "waiting" /\ proc[p].state = "zombie"
    /\ proc' = [proc EXCEPT ![p].state = "gone"]
    /\ waiter' = [waiter EXCEPT ![p] = "reaped"]
    /\ UNCHANGED <<file, spawned, manager, held, snap, taskVars,
                   faults, clobbered, unaccounted, secretVars>>

WaiterAcquire(p) ==
    /\ waiter[p] = "reaped"
    /\ Acquire(p)
    /\ UNCHANGED <<file, procVars, taskVars, faults, clobbered, unaccounted, secretVars>>

\* Mutation of StillAbout: the waiter does not expect that stop has cleared the
\* record before it.
StillAboutNamed(p, record) == record.def # "absent" /\ record.pid = p

\* The record is still about process p: it names p, or stop (or inspect) has
\* cleared it before the waiter came and nobody started it again.
StillAbout(p, record) ==
    /\ record.def # "absent"
    /\ \/ record.pid = p
       \/ record.pid = 0 /\ record.status = "stopped" /\ record.started = p /\ ~record.exit

\* Otherwise the file is rewritten as it was read.
WaiterWrite(p) ==
    /\ waiter[p] = "reaped" /\ p \in held
    /\ LET r == proc[p].runtime
           record == snap[p][r]
       IN Write(p, r, IF StillAbout(p, record)
                        THEN [Stopped(record) EXCEPT !.exit = TRUE] ELSE record)
    /\ waiter' = [waiter EXCEPT ![p] = "done"]
    /\ UNCHANGED <<proc, spawned, manager, taskVars, faults, unaccounted, secretVars>>

\* The store fails before the rename (after it, this is WaiterWrite): ignored.
WaiterFails(p) ==
    /\ waiter[p] = "reaped" /\ p \in held
    /\ Faulty
    /\ Release(p)
    /\ waiter' = [waiter EXCEPT ![p] = "failed"]
    /\ UNCHANGED <<file, proc, spawned, manager, taskVars, clobbered, unaccounted, secretVars>>

\* The agent dies and is started again.  Its processes die with it (a systemd
\* unit kills its control group) or live on (nohup); a process that was started
\* but not recorded yet is lost sight of.
Dies ==
    /\ \E survive \in BOOLEAN :
        /\ proc' = [p \in Procs |->
                       IF proc[p].state = "zombie" \/ (proc[p].state = "alive" /\ ~survive)
                         THEN [proc[p] EXCEPT !.state = "gone"] ELSE proc[p]]
        /\ unaccounted' = unaccounted \union
                             {p \in Procs : survive /\ cand = p /\ At("start", "update")}
    /\ waiter' = [p \in Procs |->
                     IF waiter[p] \in {"waiting", "reaped"} THEN "failed" ELSE waiter[p]]
    /\ held' = {} /\ snap' = [a \in Actors |-> NoRecords]
    /\ EndTask
    /\ UNCHANGED <<file, spawned, manager, clobbered, secretVars>>

Crash == Faulty /\ Dies

\* load: the state file cannot be read.  The task fails, except that stop writes
\* "changed" into the nil result of its inspection: nobody recovers that panic.
LoadFails ==
    /\ ~Idle /\ stage = "begin" /\ Head(todo) \in {"stop", "start"} \union Inspections
    /\ MutexFree(TaskLoop)
    /\ Faulty
    /\ IF Head(todo) = "stopped"
         THEN Dies
         ELSE EndTask /\ UNCHANGED <<file, procVars, held, snap, clobbered, unaccounted, secretVars>>

-----------------------------------------------------------------------------
TaskStep ==
    \/ StopLoad \/ StopWait \/ KillTimesOut
    \/ StartLoad \/ Spawn \/ StartFails
    \/ InspectLoad \/ LoadFails
    \/ \E part \in {"files", "env"} : WriteSecret(part) \/ SecretFails(part)
    \/ Unlink
    \/ TaskAcquire \/ TaskWrite \/ RecordStart \/ UndoStart \/ UpdateFails

Next ==
    \/ \E r \in Runtimes, d \in Defs, auto \in BOOLEAN : BeginCreate(r, d, auto)
    \/ \E r \in Runtimes : \E steps \in Programs : BeginOther(r, steps)
    \/ TaskStep
    \/ \E p \in Procs : Exit(p) \/ Reap(p) \/ WaiterAcquire(p) \/ WaiterWrite(p) \/ WaiterFails(p)
    \/ Crash

Spec == Init /\ [][Next]_vars
-----------------------------------------------------------------------------
(* Properties.  Each is about the updates of one manager; an update that    *)
(* overwrites a change it has not read (clobbered) may break all of them.   *)

\* start is between the fork and the record of p.
BeingRecorded(p) == cand = p /\ At("start", "update")

\* No process runs behind the agent's back: every process that is present is the
\* one its runtime's record names, or is about to be, and runs the definition that
\* record holds (create never replaces it under a running process).  The exceptions
\* are the process that survived SIGKILL for five seconds and the one whose agent
\* died between its fork and its record.
LiveIsRecordedUnlessClobbered ==
    clobbered \/ \A p \in Procs :
        Present(p) /\ p \notin unaccounted /\ ~BeingRecorded(p)
            => /\ file[proc[p].runtime].pid = p
               /\ file[proc[p].runtime].def = proc[p].def

\* "unexpected exit state": once the waiter of a process has finished, the record
\* of that incarnation is stopped, names no process and has the exit code,
\* whatever stop or inspect wrote before the waiter came.
ExitRecorded ==
    \A p \in Procs :
        waiter[p] = "done" /\ file[proc[p].runtime].started = p
            => /\ file[proc[p].runtime].exit
               /\ file[proc[p].runtime].pid = 0
               /\ file[proc[p].runtime].status = "stopped"

ExitRecordedUnlessClobbered == clobbered \/ ExitRecorded

\* A runtime that has a record can be started: the record has a definition (the
\* zero record of inspect has none) and the secrets on disk are the ones it names.
\* The exception is a create that is under way or was cut off between the secrets
\* and the record; the process can then not be started, or starts with the old
\* definition and the new secret files, until it is created again.
StartableUnlessClobbered ==
    clobbered \/ \A r \in Runtimes \ torn :
        file[r].def # "absent"
            => file[r].def \in Defs /\ secrets[r] = [files |-> file[r].def, env |-> file[r].def]
=============================================================================
