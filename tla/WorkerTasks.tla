---------------------------- MODULE WorkerTasks ----------------------------
(***************************************************************************)
(* executeWorkerTask of internal/agent/worker_tasks.go: the task loop of   *)
(* worker mode starts processes and executes commands (WorkerOutput), or   *)
(* changes the files of a runtime (WorkerFilesystem).  It has one task at  *)
(* a time.  Bound: the filesystem tasks come before the first process, as  *)
(* neither looks at what the other does.                                   *)
(***************************************************************************)
EXTENDS WorkerOutput, WorkerFilesystem

TasksInit == Init /\ FsInit

ProcessTask == request = NoRequest /\ Next /\ UNCHANGED fsVars
FilesystemTask == spawned = 0 /\ faults = 0 /\ FsNext /\ UNCHANGED vars

TasksSpec ==
    TasksInit /\ [][ProcessTask \/ FilesystemTask]_<<vars, fsVars>> /\ WF_vars(TaskLoop)
=============================================================================
