-------------------------- MODULE WorkerFilesystem --------------------------
(***************************************************************************)
(* The tasks filesystem.write, mkdir, rename and delete of worker mode     *)
(* (internal/agent/worker_filesystem.go).  Each is a sequence of system    *)
(* calls on the workspace of a runtime.  The agent may die between any two *)
(* of them, or before the outcome is recorded, and the task is executed    *)
(* again from the start, as after a retryable error (TaskRunner).          *)
(*                                                                         *)
(* list, stat and read change nothing, and the root of the workspace is    *)
(* neither written to, renamed nor deleted.  Symbolic links, and what the  *)
(* runtime's own processes do to the files meanwhile, are left out.        *)
(***************************************************************************)
EXTENDS Naturals, Sequences, FiniteSets

CONSTANTS Names,           \* names of files and directories
          MaxDepth,        \* bound: of the workspace
          MaxEntries,      \* bound: files and directories that a task finds
          MaxDisturbances  \* bound: I/O errors and deaths of the agent

ASSUME FilesystemAssumption ==
    /\ Names \intersect {"whole", "torn"} = {}
    /\ MaxDepth \in Nat /\ MaxEntries \in Nat /\ MaxDisturbances \in Nat

VARIABLES
    tree,     \* the workspace (external)
    before,   \* as the first execution of the task has found it
    request,  \* the task
    step,     \* what execute does next
    result,   \* how the last execution has ended
    disturbed

fsVars == <<tree, before, request, step, result, disturbed>>

Paths == UNION {[1..n -> Names] : n \in 1..MaxDepth}
Parent(p) == SubSeq(p, 1, Len(p) - 1)
Below(p, q) == Len(p) < Len(q) /\ SubSeq(q, 1, Len(p)) = p  \* q is in the directory p
Within(p, q) == q = p \/ Below(p, q)

\* What files consist of: what they had at first, named by its path then, and what
\* a write adds, in whole or in part.
Whole == <<"whole">>
Torn  == <<"torn">>
None == [kind |-> "none", bytes |-> <<>>]
Directory == [kind |-> "directory", bytes |-> <<>>]
File(bytes) == [kind |-> "file", bytes |-> bytes]

\* What each file or directory of a workspace is.
Contents ==
    {kinds \in UNION {[S -> {"directory", "file"}] : S \in SUBSET Paths} :
        /\ Cardinality(DOMAIN kinds) <= MaxEntries
        /\ \A p \in DOMAIN kinds : Len(p) > 1 =>
               Parent(p) \in DOMAIN kinds /\ kinds[Parent(p)] = "directory"}

Trees ==
    {[p \in Paths |-> IF p \notin DOMAIN kinds THEN None
                      ELSE IF kinds[p] = "file" THEN File(<<p>>) ELSE Directory] :
        kinds \in Contents}

Requests ==
    [op : {"write"}, path : Paths, append : BOOLEAN] \union
    [op : {"mkdir"}, path : Paths] \union
    [op : {"rename"}, path : Paths, target : Paths, overwrite : BOOLEAN] \union
    [op : {"delete"}, path : Paths, recursive : BOOLEAN]
NoRequest == [op |-> "none"]

\* The workspace is anything, and nothing looks at it before a task does.
FsInit ==
    /\ tree = <<>> /\ before = <<>>
    /\ request = NoRequest /\ step = "idle" /\ result = "none"
    /\ disturbed = 0

-----------------------------------------------------------------------------
Disturbed == disturbed < MaxDisturbances /\ disturbed' = disturbed + 1
NotDisturbed == UNCHANGED disturbed

Ends(outcome) == step' = "idle" /\ result' = outcome
Goes(next) == step' = next /\ UNCHANGED result

\* Bound: no rename moves anything deeper than MaxDepth.
Fits(t, r) ==
    r.op = "rename" =>
        \A q \in Paths : Within(r.path, q) /\ t[q] # None =>
            Len(q) - Len(r.path) + Len(r.target) <= MaxDepth

\* The task is claimed, with the workspace in any state.
Deliver ==
    /\ request = NoRequest
    /\ request' \in Requests /\ tree' \in Trees
    /\ Fits(tree', request')
    /\ before' = tree' /\ step' = "check"
    /\ UNCHANGED <<result, disturbed>>

\* confinedWorkerPath accepts no path that leads through a file.
BelowFile(p) == \E q \in Paths : tree[q].kind = "file" /\ Below(q, p)

\* Where the parents are made.
Destination(r) == IF r.op = "rename" THEN r.target ELSE r.path

\* filesystemPath and what the operations look at before they begin.
RefusedForGood(r) ==
    \/ BelowFile(r.path) \/ BelowFile(Destination(r))
    \/ r.op = "write" /\ tree[r.path].kind = "directory"
    \/ r.op = "rename" /\ tree[r.path] # None /\ tree[r.target] # None /\ ~r.overwrite
RefusedForNow(r) ==
    \/ r.op = "mkdir" /\ tree[r.path].kind = "file"
    \/ r.op = "rename" /\ tree[r.path] = None

Check ==
    /\ step = "check"
    /\ IF RefusedForGood(request) THEN Ends("permanent")
       ELSE IF RefusedForNow(request) THEN Ends("retryable")
       ELSE Goes(IF request.op = "delete" THEN "act" ELSE "parents")
    /\ NotDisturbed /\ UNCHANGED <<tree, before, request>>

\* What is missing of the directories that the destination is to be in.
Missing == {q \in Paths : Below(q, Destination(request)) /\ tree[q] = None}

\* os.MkdirAll makes them one by one, from the top.
MakeParents ==
    /\ step = "parents"
    /\ \/ Missing = {} /\ UNCHANGED tree /\ Goes("act")
       \/ \E q \in Missing :
              /\ \A other \in Missing : Within(q, other)
              /\ tree' = [tree EXCEPT ![q] = Directory]
              /\ UNCHANGED <<step, result>>
    /\ NotDisturbed /\ UNCHANGED <<before, request>>

\* Mutation of Opened: the file is not truncated (O_TRUNC).
OpenedKeeping(entry, append) == File(entry.bytes)

Opened(entry, append) == File(IF append THEN entry.bytes ELSE <<>>)

OpenFile ==
    /\ step = "act" /\ request.op = "write"
    /\ tree' = [tree EXCEPT ![request.path] = Opened(@, request.append)]
    /\ Goes("write")
    /\ NotDisturbed /\ UNCHANGED <<before, request>>

WriteBytes ==
    /\ step = "write"
    /\ tree' = [tree EXCEPT ![request.path].bytes = Append(@, Whole)]
    /\ Ends("done")
    /\ NotDisturbed /\ UNCHANGED <<before, request>>

\* The write, the sync or the close fails; the error has no class, so it is final.
BytesFail ==
    /\ step = "write" /\ Disturbed
    /\ \/ UNCHANGED tree
       \/ \E piece \in {Whole, Torn} :
              tree' = [tree EXCEPT ![request.path].bytes = Append(@, piece)]
    /\ Ends("permanent")
    /\ UNCHANGED <<before, request>>

MakeDirectory ==
    /\ step = "act" /\ request.op = "mkdir"
    /\ tree' = [tree EXCEPT ![request.path] = Directory]
    /\ Ends("done")
    /\ NotDisturbed /\ UNCHANGED <<before, request>>

Removed(t, p) == [q \in Paths |-> IF Within(p, q) THEN None ELSE t[q]]

\* p, with all that is in it, is at r and no longer at p.
Moved(t, p, r) ==
    [q \in Paths |-> IF Within(r, q)
                       THEN LET from == p \o SubSeq(q, Len(r) + 1, Len(q))
                            IN IF from \in Paths THEN t[from] ELSE None
                       ELSE Removed(t, p)[q]]

\* os.Rename replaces no directory, puts no directory in the place of a file or
\* below itself.
Movable(t, p, r) ==
    /\ t[r].kind # "directory"
    /\ t[p].kind = "directory" => t[r].kind = "none" /\ ~Below(p, r)

RenameEntry ==
    /\ step = "act" /\ request.op = "rename"
    /\ IF Movable(tree, request.path, request.target)
         THEN tree' = Moved(tree, request.path, request.target) /\ Ends("done")
         ELSE UNCHANGED tree /\ Ends("retryable")
    /\ NotDisturbed /\ UNCHANGED <<before, request>>

Inside(p) == {q \in Paths : Below(p, q) /\ tree[q] # None}

\* os.RemoveAll takes what is inside first.
RemoveInside ==
    /\ step = "act" /\ request.op = "delete" /\ request.recursive
    /\ \E q \in Inside(request.path) :
        /\ Inside(q) = {}
        /\ tree' = [tree EXCEPT ![q] = None]
    /\ UNCHANGED <<before, request, step, result, disturbed>>

RemoveEntry ==
    /\ step = "act" /\ request.op = "delete"
    /\ IF Inside(request.path) = {}
         THEN tree' = [tree EXCEPT ![request.path] = None] /\ Ends("done")
         ELSE ~request.recursive /\ UNCHANGED tree /\ Ends("retryable")
    /\ NotDisturbed /\ UNCHANGED <<before, request>>

\* What an error of a system call is made.  One without a class is final.
Classes(op, at) ==
    CASE at = "check" -> IF op = "rename" THEN {"permanent", "retryable"} ELSE {"permanent"}
      [] at = "parents" -> IF op = "mkdir" THEN {"retryable"} ELSE {"permanent"}
      [] at = "act" -> {"retryable"}

CallFails ==
    /\ step \in {"check", "parents", "act"} /\ Disturbed
    /\ \E class \in Classes(request.op, step) : Ends(class)
    /\ UNCHANGED <<tree, before, request>>

\* The agent dies before it has recorded an outcome.
Die ==
    /\ request # NoRequest /\ Disturbed
    /\ step' = "check" /\ result' = "none"
    /\ \/ UNCHANGED tree
       \/ /\ step = "write"
          /\ tree' = [tree EXCEPT ![request.path].bytes = Append(@, Torn)]
    /\ UNCHANGED <<before, request>>

\* The task is handed out again.
Retry ==
    /\ result = "retryable"
    /\ step' = "check" /\ result' = "none"
    /\ NotDisturbed /\ UNCHANGED <<tree, before, request>>

FsNext ==
    \/ Deliver \/ Check \/ MakeParents
    \/ OpenFile \/ WriteBytes \/ BytesFail
    \/ MakeDirectory \/ RenameEntry \/ RemoveInside \/ RemoveEntry
    \/ CallFails \/ Die \/ Retry

-----------------------------------------------------------------------------
(* Properties.                                                             *)

\* The first n directories on the way to p are there.
WithParents(t, p, n) ==
    [q \in Paths |-> IF Below(q, p) /\ Len(q) <= n /\ t[q] = None THEN Directory ELSE t[q]]
WithAllParents(t, p) == WithParents(t, p, Len(p))

\* The workspace after one execution of r that succeeds.
After(t, r) ==
    CASE r.op = "write" ->
           [WithAllParents(t, r.path) EXCEPT ![r.path] =
                File((IF r.append THEN t[r.path].bytes ELSE <<>>) \o <<Whole>>)]
      [] r.op = "mkdir" -> [WithAllParents(t, r.path) EXCEPT ![r.path] = Directory]
      [] r.op = "rename" -> Moved(WithAllParents(t, r.target), r.path, r.target)
      [] r.op = "delete" -> Removed(t, r.path)

\* An append that was repeated has left its bytes, or some of them, each time.
AppendedMore ==
    /\ request.op = "write" /\ request.append
    /\ \E n \in 0..disturbed : \E more \in [1..n -> {Whole, Torn}] :
           tree = [After(before, request) EXCEPT
                       ![request.path].bytes = before[request.path].bytes \o more \o <<Whole>>]

\* Some parent directories of the destination may be there, and those above them.
PartlyPrepared ==
    \E n \in 0..MaxDepth : tree = WithParents(before, Destination(request), n)

\* What a task that is not done may have done, if something came between.
DoneInPart ==
    CASE request.op = "write" ->
           \A p \in Paths \ {request.path} : tree[p] = WithAllParents(before, request.path)[p]
      [] request.op \in {"mkdir", "rename"} -> tree = After(before, request)
      [] request.op = "delete" ->
           \A p \in Paths : tree[p] = before[p] \/ (Within(request.path, p) /\ tree[p] = None)

\* A filesystem task that reports success has done what it says, and once however
\* often it was executed (only an append is repeated), and replaced nothing that
\* it must not; one that reports failure has at most made parent directories, none
\* of them without those above it.  Only after a death or an I/O error may a failed
\* one have done something, and then nothing but its own: a rename that was carried
\* out is reported as failed when it is repeated.
FilesystemIsFaithful ==
    /\ result = "done" =>
        /\ tree = After(before, request) \/ AppendedMore
        /\ request.op = "rename" => before[request.target] = None \/ request.overwrite
    /\ result \in {"retryable", "permanent"} =>
        \/ PartlyPrepared
        \/ disturbed > 0 /\ DoneInPart
=============================================================================
