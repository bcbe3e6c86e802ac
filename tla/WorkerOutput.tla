---------------------------- MODULE WorkerOutput ----------------------------
(***************************************************************************)
(* What becomes of the output of processes in worker mode: start with its  *)
(* capped logs, and exec with its bounded buffers                          *)
(* (internal/agent/worker_process.go).                                     *)
(*                                                                         *)
(* os/exec gives a command a pipe, and a goroutine that copies from it to  *)
(* the log or the buffer until all write ends are closed or the writer     *)
(* errs; command.Wait returns after both the command and the copy have     *)
(* ended.  Processes that the command has forked hold the pipe as well;    *)
(* SIGKILL reaches those in its process group, not those that have left it *)
(* ("escaped"), nor does it end at once a command in uninterruptible sleep *)
(* ("lost", as is one that runs although no record names it).  A start may *)
(* therefore find the log open for the last one.                           *)
(*                                                                         *)
(* The starts are those of one process id, and of its two logs only one is *)
(* modelled.  Who decides to start and what is recorded of it is the       *)
(* subject of WorkerProcess.  A byte is the number of the start that it    *)
(* comes from; a log file, that of the start that created it.              *)
(***************************************************************************)
EXTENDS Integers, FiniteSets, Sequences

CONSTANTS Limit,     \* workerProcessLogLimit; outputLimitBytes of exec
          TailSize,  \* workerStartupTailSize
          MaxChunk,  \* bound: bytes that a process writes at once
          MaxSpawns, \* bound: starts and execs
          MaxFaults  \* bound: errors and deaths of the agent

ASSUME OutputAssumption ==
    /\ Limit \in Nat \ {0} /\ TailSize \in Nat /\ MaxChunk \in Nat
    /\ MaxSpawns \in Nat /\ MaxFaults \in Nat

Spawns == 1..MaxSpawns
Files == 0..MaxSpawns  \* 0: no file
Holders == {"leader", "lost", "member", "escaped"}

VARIABLES
    current, backup, \* the log file and the one that is called .1
    content,   \* of each file that was created
    pc,        \* the task loop: what start or exec does next
    spawned,   \* starts and execs so far; the last is the one pc is about
    starts,    \* which of them are starts
    holders,   \* the processes that hold the write end of each one's pipe
    copy,      \* the goroutine that copies from it
    writing,   \* the file that each log has open
    remaining, \* the room that each log thinks there is
    offset,    \* stderr.startOffset of the last start
    buffer,    \* boundedBuffer of an exec
    diagnostic, \* what a failed start quotes from the log
    faults,
    shared,    \* files that two logs had open at once
    hurt       \* spawns whose pipe was closed by an error or a death

fileVars == <<current, backup, content>>
logVars == <<writing, remaining, offset, shared>>
pipeVars == <<holders, copy, hurt>>
vars == <<fileVars, pc, spawned, starts, pipeVars, logVars, buffer, diagnostic, faults>>

LogTypes ==
    /\ current \in Files /\ backup \in Files
    /\ content \in [Spawns -> Seq(Spawns)]
    /\ writing \in [Spawns -> Files]
    /\ remaining \in [Spawns -> Int]
    /\ offset \in Nat
    /\ shared \subseteq Spawns
    /\ diagnostic \in Seq(Spawns)

PipeTypes ==
    /\ starts \subseteq Spawns
    /\ holders \in [Spawns -> SUBSET Holders]
    /\ copy \in [Spawns -> {"none", "copying", "broken", "closed"}]
    /\ hurt \subseteq Spawns

LoopTypes ==
    /\ pc \in {"idle", "remove", "rename", "truncate", "open", "spawn", "record",
               "undo", "watch", "exec", "killed"}
    /\ spawned \in 0..MaxSpawns
    /\ buffer \in [kept : 0..Limit, truncated : BOOLEAN]
    /\ faults \in 0..MaxFaults

TypeOK == LogTypes /\ PipeTypes /\ LoopTypes

NoOutput == [kept |-> 0, truncated |-> FALSE]

Init ==
    /\ current = 0 /\ backup = 0
    /\ content = [i \in Spawns |-> <<>>]
    /\ pc = "idle" /\ spawned = 0 /\ starts = {}
    /\ holders = [s \in Spawns |-> {}]
    /\ copy = [s \in Spawns |-> "none"]
    /\ writing = [s \in Spawns |-> 0]
    /\ remaining = [s \in Spawns |-> 0] /\ offset = 0
    /\ buffer = NoOutput
    /\ diagnostic = <<>>
    /\ faults = 0 /\ shared = {} /\ hurt = {}

-----------------------------------------------------------------------------
Faulty == faults < MaxFaults /\ faults' = faults + 1
Least(m, n) == IF m <= n THEN m ELSE n
Most(m, n) == IF m <= n THEN n ELSE m

Go(from, to) == pc = from /\ pc' = to

\* command.Wait returns.
WaitReturns(s) ==
    /\ {"leader", "lost"} \intersect holders[s] = {}
    /\ holders[s] = {} \/ copy[s] = "broken"

\* syscall.Kill(-pid, SIGKILL), of the process group.
KillGroup == holders' = [holders EXCEPT ![spawned] = @ \ {"leader", "member"}]

Lost(held) == {IF h = "leader" THEN "lost" ELSE h : h \in held}

\* The same, and the command survives it.
KillSurvived(s) == holders' = [holders EXCEPT ![s] = Lost(@) \ {"member"}]

\* Both ends of the copy are closed, and the log is forgotten.
Closed(s) ==
    /\ copy' = [copy EXCEPT ![s] = "closed"]
    /\ writing' = [writing EXCEPT ![s] = 0] /\ remaining' = [remaining EXCEPT ![s] = 0]

-----------------------------------------------------------------------------
(* start, and openCappedWorkerLog under it.                                *)

Full == current # 0 /\ Len(content[current]) >= Limit

\* The record names no process that runs (one that is lost may run, as may those
\* that have left their group).
StartLog ==
    /\ pc = "idle" /\ spawned < MaxSpawns
    /\ \A s \in starts : "leader" \notin holders[s]
    /\ spawned' = spawned + 1 /\ starts' = starts \union {spawned + 1}
    /\ pc' = IF Full THEN "remove" ELSE "open"
    /\ diagnostic' = <<>>
    /\ UNCHANGED <<fileVars, pipeVars, logVars, buffer, faults>>

RemoveBackup ==
    /\ Go("remove", "rename")
    /\ backup' = 0
    /\ UNCHANGED <<current, content, spawned, starts, pipeVars, logVars, buffer, diagnostic, faults>>

RenameLog ==
    /\ Go("rename", "truncate")
    /\ backup' = current /\ current' = 0
    /\ UNCHANGED <<content, spawned, starts, pipeVars, logVars, buffer, diagnostic, faults>>

TruncateBackup ==
    /\ Go("truncate", "open")
    /\ content' = [content EXCEPT ![backup] = SubSeq(@, 1, Least(Len(@), Limit))]
    /\ UNCHANGED <<current, backup, spawned, starts, pipeVars, logVars, buffer, diagnostic, faults>>

\* Mutation of Room: the log forgets what is in the file.
RoomOfEmpty(size) == Limit

Room(size) == Limit - size

\* The file is opened to append to it, and created where there is none.
OpenLog ==
    LET i == IF current = 0 THEN spawned ELSE current
        size == Len(content[i])
    IN /\ Go("open", "spawn")
       /\ current' = i
       /\ writing' = [writing EXCEPT ![spawned] = i]
       /\ remaining' = [remaining EXCEPT ![spawned] = Room(size)]
       /\ offset' = size
       /\ shared' = IF \E s \in Spawns : writing[s] = i THEN shared \union {i} ELSE shared
       /\ UNCHANGED <<backup, content, spawned, starts, pipeVars, buffer, diagnostic, faults>>

OpenFails ==
    /\ Faulty
    /\ pc \in {"remove", "rename", "truncate", "open"} /\ pc' = "idle"
    /\ UNCHANGED <<fileVars, spawned, starts, pipeVars, logVars, buffer, diagnostic>>

Spawn ==
    /\ Go("spawn", "record")
    /\ holders' = [holders EXCEPT ![spawned] = {"leader"}]
    /\ copy' = [copy EXCEPT ![spawned] = "copying"]
    /\ UNCHANGED <<fileVars, spawned, starts, hurt, logVars, buffer, diagnostic, faults>>

\* No secrets to read, or command.Start fails: the log is closed again.
SpawnFails ==
    /\ Faulty /\ Go("spawn", "idle")
    /\ Closed(spawned)
    /\ UNCHANGED <<fileVars, spawned, starts, holders, hurt, offset, shared, buffer, diagnostic>>

\* The record is updated and a waiter started; start gives it workerStartupGrace.
Record ==
    /\ Go("record", "watch")
    /\ UNCHANGED <<fileVars, spawned, starts, pipeVars, logVars, buffer, diagnostic, faults>>

\* No start marker or no update: start kills the group and waits.
RecordFails ==
    /\ Faulty /\ Go("record", "undo")
    /\ KillGroup \/ KillSurvived(spawned)
    /\ UNCHANGED <<fileVars, spawned, starts, copy, hurt, logVars, buffer, diagnostic>>

Undone ==
    /\ Go("undo", "idle") /\ WaitReturns(spawned)
    /\ Closed(spawned)
    /\ UNCHANGED <<fileVars, spawned, starts, holders, hurt, offset, shared, buffer,
                   diagnostic, faults>>

\* waitForProcess, of a process that start is done with or still watches.
Reap(s) ==
    /\ writing[s] # 0 /\ copy[s] \in {"copying", "broken"} /\ WaitReturns(s)
    /\ s = spawned => pc \in {"idle", "watch"}
    /\ Closed(s)
    /\ UNCHANGED <<fileVars, pc, spawned, starts, holders, hurt, offset, shared, buffer,
                   diagnostic, faults>>

\* Mutation of TailSince: the tail may begin before the start.
TailOfFile(bytes, since) == SubSeq(bytes, Most(Len(bytes) - TailSize, 0) + 1, Len(bytes))

\* readFileTailSince.
TailSince(bytes, since) ==
    LET from == Most(Len(bytes) - TailSize, since)
    IN SubSeq(bytes, from + 1, Least(Len(bytes), from + TailSize))

\* The waiter sends the exit code within the grace; it is not zero.
Diagnose ==
    /\ Go("watch", "idle") /\ copy[spawned] = "closed"
    /\ diagnostic' = TailSince(content[current], offset)
    /\ UNCHANGED <<fileVars, spawned, starts, pipeVars, logVars, buffer, faults>>

\* It is zero, or the grace is over.
Started ==
    /\ Go("watch", "idle")
    /\ UNCHANGED <<fileVars, spawned, starts, pipeVars, logVars, buffer, diagnostic, faults>>

\* stop gives up on a process that survives SIGKILL for five seconds, and records
\* it as stopped.
GiveUp(s) ==
    /\ Faulty
    /\ pc = "idle" /\ s \in starts /\ "leader" \in holders[s]
    /\ KillSurvived(s)
    /\ UNCHANGED <<fileVars, pc, spawned, starts, copy, hurt, logVars, buffer, diagnostic>>

-----------------------------------------------------------------------------
(* exec.                                                                   *)

Exec ==
    /\ spawned < MaxSpawns /\ Go("idle", "exec")
    /\ spawned' = spawned + 1
    /\ holders' = [holders EXCEPT ![spawned + 1] = {"leader"}]
    /\ copy' = [copy EXCEPT ![spawned + 1] = "copying"]
    /\ buffer' = NoOutput /\ diagnostic' = <<>>
    /\ UNCHANGED <<fileVars, starts, hurt, logVars, faults>>

\* Mutation of Interrupt: the command is killed, and not its group.
InterruptLeader ==
    /\ Go("exec", "killed")
    /\ holders' = [holders EXCEPT ![spawned] = @ \ {"leader"}]
    /\ UNCHANGED <<fileVars, spawned, starts, copy, hurt, logVars, buffer, diagnostic, faults>>

\* The timeout, or the end of the task's context.
Interrupt ==
    /\ Go("exec", "killed")
    /\ KillGroup
    /\ UNCHANGED <<fileVars, spawned, starts, copy, hurt, logVars, buffer, diagnostic, faults>>

InterruptFails ==
    /\ Faulty /\ Go("exec", "killed")
    /\ KillSurvived(spawned)
    /\ UNCHANGED <<fileVars, spawned, starts, copy, hurt, logVars, buffer, diagnostic>>

\* exec returns, with a result or, once it has been interrupted, with an error.
ExecReturns ==
    /\ pc \in {"exec", "killed"} /\ pc' = "idle"
    /\ WaitReturns(spawned)
    /\ copy' = [copy EXCEPT ![spawned] = "closed"]
    /\ buffer' = NoOutput
    /\ UNCHANGED <<fileVars, spawned, starts, holders, hurt, logVars, diagnostic, faults>>

-----------------------------------------------------------------------------
(* The processes, and the copy of what they write.                         *)

Run(n, s) == [k \in 1..n |-> s]

\* n bytes are appended to the log of s.
Appended(s, n) ==
    /\ content' = [content EXCEPT ![writing[s]] = @ \o Run(n, s)]
    /\ remaining' = [remaining EXCEPT ![s] = @ - n]

\* Mutation of WriteLog: a full log returns the number of bytes that fit.
WriteLogShort(s, n) ==
    LET fit == Least(n, Most(remaining[s], 0))
    IN /\ Appended(s, fit)
       /\ copy' = IF fit < n THEN [copy EXCEPT ![s] = "broken"] ELSE copy

\* cappedWorkerLog.Write: what does not fit is dropped, and counts as written.
WriteLog(s, n) ==
    /\ Appended(s, Least(n, Most(remaining[s], 0)))
    /\ UNCHANGED copy

OutputToLog(s) ==
    /\ copy[s] = "copying" /\ writing[s] # 0 /\ holders[s] # {}
    /\ \E n \in 1..MaxChunk : WriteLog(s, n)
    /\ UNCHANGED <<current, backup, pc, spawned, starts, holders, hurt, writing, offset, shared,
                   buffer, diagnostic, faults>>

\* The write fails after some bytes; the copy ends, and closes the pipe.
WriteFails(s) ==
    /\ Faulty
    /\ copy[s] = "copying" /\ writing[s] # 0 /\ holders[s] # {} /\ remaining[s] > 0
    /\ \E n \in 0..Least(MaxChunk, remaining[s]) - 1 : Appended(s, n)
    /\ copy' = [copy EXCEPT ![s] = "broken"]
    /\ hurt' = hurt \union {s}
    /\ UNCHANGED <<current, backup, pc, spawned, starts, holders, writing, offset, shared, buffer,
                   diagnostic>>

\* Mutation of Buffered: the limit is not applied.
BufferedAll(n) == [kept |-> buffer.kept + n, truncated |-> buffer.kept + n > Limit]

\* boundedBuffer.Write.
Buffered(n) ==
    LET room == Limit - buffer.kept
    IN [kept |-> buffer.kept + Least(n, room), truncated |-> buffer.truncated \/ n > room]

OutputToBuffer ==
    /\ pc \in {"exec", "killed"} /\ holders[spawned] # {}
    /\ \E n \in 1..MaxChunk : buffer' = Buffered(n)
    /\ UNCHANGED <<fileVars, pc, spawned, starts, pipeVars, logVars, diagnostic, faults>>

\* Bound: a command has one child at a time, and one that is lost has no more (it is
\* about to die, or nobody reads its pipe).
Fork(s) ==
    /\ holders[s] = {"leader"}
    /\ \E h \in {"member", "escaped"} : holders' = [holders EXCEPT ![s] = @ \union {h}]
    /\ UNCHANGED <<fileVars, pc, spawned, starts, copy, hurt, logVars, buffer, diagnostic, faults>>

\* A process exits, or is stopped, or writes to a pipe that nobody reads (SIGPIPE).
Exit(s) ==
    /\ \E h \in holders[s] : holders' = [holders EXCEPT ![s] = @ \ {h}]
    /\ UNCHANGED <<fileVars, pc, spawned, starts, copy, hurt, logVars, buffer, diagnostic, faults>>

\* The agent dies, perhaps before it has recorded a process, and is started again;
\* nobody reads the pipes any more.
Crash ==
    /\ Faulty
    /\ pc' = "idle"
    /\ hurt' = hurt \union {s \in Spawns : copy[s] = "copying"}
    /\ copy' = [s \in Spawns |-> IF copy[s] = "none" THEN "none" ELSE "closed"]
    /\ writing' = [s \in Spawns |-> 0] /\ remaining' = [s \in Spawns |-> 0]
    /\ buffer' = NoOutput
    /\ holders' = [s \in Spawns |-> IF pc = "record" /\ s = spawned THEN Lost(holders[s]) ELSE holders[s]]
    /\ UNCHANGED <<fileVars, spawned, starts, offset, shared, diagnostic>>

TaskLoop ==
    \/ RemoveBackup \/ RenameLog \/ TruncateBackup \/ OpenLog \/ Spawn \/ Record \/ Undone
    \/ Diagnose \/ Started \/ Interrupt \/ ExecReturns

Next ==
    \/ StartLog \/ Exec \/ TaskLoop
    \/ OpenFails \/ SpawnFails \/ RecordFails \/ InterruptFails \/ OutputToBuffer \/ Crash
    \/ \E s \in Spawns : Reap(s) \/ OutputToLog(s) \/ WriteFails(s) \/ Fork(s) \/ Exit(s)
                         \/ GiveUp(s)

\* The task loop runs on; the timer of Interrupt fires.  Nothing is assumed of the
\* processes.
Spec == Init /\ [][Next]_vars /\ WF_vars(TaskLoop)

-----------------------------------------------------------------------------
(* Properties.                                                             *)

\* A log file, the backup included, is longer than the limit only if two logs have
\* had it open at once, however starts, errors and deaths come between the steps
\* of a rotation.
OvershootIsShared == \A i \in Spawns : Len(content[i]) > Limit => i \in shared

\* What a failed start quotes was written by the process that it started, or the log
\* was open for an earlier one as well.
DiagnosticIsOwn ==
    \A k \in DOMAIN diagnostic : diagnostic[k] = spawned \/ current \in shared

\* A log or a buffer that is full does no harm: only an error or the agent's death
\* closes the pipe of a process that is alive, and an exec that calls its
\* output cut off has a full buffer.
CutIsHarmless ==
    /\ \A s \in Spawns : copy[s] \in {"broken", "closed"} /\ holders[s] # {} => s \in hurt
    /\ buffer.truncated => buffer.kept = Limit

\* Every task ends, unless a process that has left its group, or a command that
\* survives SIGKILL, holds the pipe of the exec or of the start that waits for it.
TasksEnd ==
    pc # "idle" ~> (pc = "idle" \/ {"escaped", "lost"} \intersect holders[spawned] # {})
=============================================================================
