----------------------------- MODULE AgentIdentity -----------------------------
(***************************************************************************)
(* Registration of an agent: Register and resolveRunConfig of              *)
(* internal/agent/runner.go, and the two files beside them (state.go): the *)
(* instance id, created once with O_EXCL and sent with every registration, *)
(* and the state file, replaced by rename, with the token that the agent   *)
(* runs under.  The register command may be repeated, killed and run twice *)
(* at once; no --agent-instance-id is given.                               *)
(***************************************************************************)
EXTENDS Integers, Sequences

CONSTANTS Registrars, \* processes that run the register command
          MaxRuns,    \* bound: register commands started
          MaxFaults   \* bound: errors, deaths and lost answers

ASSUME IdentityAssumption == MaxRuns \in Nat /\ MaxFaults \in Nat

VARIABLES
    file,    \* the instance id file: Absent, Empty or its id
    ids,     \* ids generated so far
    issued,  \* the control plane's tokens: the instance each was issued to
    state,   \* the state file: the token and the instance, or NoState
    pc,      \* the next step of each register command
    id,      \* cfg.AgentInstanceID of each
    token,   \* the token it was answered
    running, \* the state the agent was started with, or NoState
    runs, faults

own  == <<pc, id, token>>
disk == <<file, ids, state>>
vars == <<own, disk, issued, running, runs, faults>>

Absent == -1
Empty == 0

Ids == Nat \ {0}
State == [token : Nat, instance : Nat]
NoState == [token |-> 0, instance |-> 0]

TypeOK ==
    /\ file \in {Absent, Empty} \union Ids
    /\ ids \in Nat
    /\ issued \in Seq(Ids)
    /\ state \in State /\ running \in State
    /\ pc \in [Registrars -> {"idle", "read", "create", "reread", "write", "sync", "post",
                              "save", "failed", "ok"}]
    /\ id \in [Registrars -> Nat]
    /\ token \in [Registrars -> 0..Len(issued)]
    /\ runs \in 0..MaxRuns /\ faults \in 0..MaxFaults

Init ==
    /\ file = Absent /\ ids = 0 /\ issued = <<>> /\ state = NoState /\ running = NoState
    /\ pc = [r \in Registrars |-> "idle"]
    /\ id = [r \in Registrars |-> 0] /\ token = [r \in Registrars |-> 0]
    /\ runs = 0 /\ faults = 0

-----------------------------------------------------------------------------
At(r, step) == pc[r] = step
Goto(r, step) == pc' = [pc EXCEPT ![r] = step]

Faulty == faults < MaxFaults /\ faults' = faults + 1
NoFault == UNCHANGED faults

Begin(r) ==
    /\ pc[r] \in {"idle", "failed", "ok"}
    /\ runs < MaxRuns /\ runs' = runs + 1
    /\ Goto(r, "read")
    /\ id' = [id EXCEPT ![r] = 0] /\ token' = [token EXCEPT ![r] = 0]
    /\ UNCHANGED <<disk, issued, running, faults>>

-----------------------------------------------------------------------------
(* loadOrCreateAgentInstanceID and writeFileExclusive.                     *)

\* The file's id is the instance's, if it has one.
Adopt(r, otherwise) ==
    /\ Goto(r, IF file \in Ids THEN "post" ELSE otherwise)
    /\ id' = [id EXCEPT ![r] = IF file \in Ids THEN file ELSE 0]
    /\ UNCHANGED <<token, disk, issued, running, runs, faults>>

ReadId(r) == At(r, "read") /\ Adopt(r, "create")

\* Mutation of Create: without O_EXCL.
CreateOverwrites(r) ==
    /\ At(r, "create")
    /\ ids' = ids + 1 /\ id' = [id EXCEPT ![r] = ids + 1]
    /\ file' = Empty
    /\ Goto(r, "write")
    /\ UNCHANGED <<token, state, issued, running, runs, faults>>

Create(r) ==
    /\ At(r, "create")
    /\ IF file = Absent
         THEN /\ ids' = ids + 1 /\ id' = [id EXCEPT ![r] = ids + 1]
              /\ file' = Empty
              /\ Goto(r, "write")
         ELSE Goto(r, "reread") /\ UNCHANGED <<file, ids, id>>
    /\ UNCHANGED <<token, state, issued, running, runs, faults>>

\* Mutations of Reread: the command goes on with an id of its own, or an id that
\* another command has written is an error.
RereadOwn(r) ==
    /\ At(r, "reread") /\ Goto(r, "post")
    /\ ids' = ids + 1 /\ id' = [id EXCEPT ![r] = ids + 1]
    /\ UNCHANGED <<token, file, state, issued, running, runs, faults>>

RereadRefused(r) ==
    At(r, "reread") /\ Goto(r, "failed")
    /\ UNCHANGED <<id, token, disk, issued, running, runs, faults>>

\* Somebody else has created it; there is no waiting for its content.
Reread(r) == At(r, "reread") /\ Adopt(r, "failed")

Write(r) ==
    /\ At(r, "write")
    /\ file' = id[r]
    /\ Goto(r, "sync")
    /\ UNCHANGED <<id, token, ids, state, issued, running, runs, faults>>

\* Of a write that stops short nothing is left, or what then is another id.
WriteFails(r) ==
    /\ At(r, "write") /\ Faulty
    /\ \/ UNCHANGED <<file, ids>>
       \/ file' = ids + 1 /\ ids' = ids + 1
    /\ Goto(r, "failed")
    /\ UNCHANGED <<id, token, state, issued, running, runs>>

Sync(r) ==
    /\ At(r, "sync")
    /\ Goto(r, "post")
    /\ UNCHANGED <<id, token, disk, issued, running, runs, faults>>

-----------------------------------------------------------------------------
(* Register: the control plane (external) issues a token to the instance.  *)

Issue(r) == issued' = Append(issued, id[r])

Post(r) ==
    /\ At(r, "post")
    /\ Issue(r)
    /\ token' = [token EXCEPT ![r] = Len(issued) + 1]
    /\ Goto(r, "save")
    /\ UNCHANGED <<id, disk, running, runs, faults>>

\* Mutation of PostFails: the status of the answer is not looked at.
PostFailsUnchecked(r) ==
    /\ At(r, "post") /\ Faulty
    /\ token' = [token EXCEPT ![r] = Len(issued) + 1]
    /\ Goto(r, "save")
    /\ UNCHANGED <<id, issued, disk, running, runs>>

\* Refused, or the answer is lost.
PostFails(r) ==
    /\ At(r, "post") /\ Faulty
    /\ Issue(r) \/ UNCHANGED issued
    /\ Goto(r, "failed")
    /\ UNCHANGED <<id, token, disk, running, runs>>

Saved(r) == state' = [token |-> token[r], instance |-> id[r]]

\* saveState: the rename is the step that counts.
Save(r) ==
    /\ At(r, "save")
    /\ Saved(r)
    /\ Goto(r, "ok")
    /\ UNCHANGED <<id, token, file, ids, issued, running, runs, faults>>

\* Before the rename, or after it (the directory is not synced).
SaveFails(r) ==
    /\ At(r, "save") /\ Faulty
    /\ UNCHANGED state \/ Saved(r)
    /\ Goto(r, "failed")
    /\ UNCHANGED <<id, token, file, ids, issued, running, runs>>

\* Any other file operation fails.
FileFails(r) ==
    /\ pc[r] \in {"read", "create", "reread", "sync"} /\ Faulty
    /\ Goto(r, "failed")
    /\ UNCHANGED <<id, token, disk, issued, running, runs>>

\* The command is killed between two steps.
Kill(r) ==
    /\ pc[r] \notin {"idle", "failed", "ok"} /\ Faulty
    /\ Goto(r, "idle")
    /\ UNCHANGED <<id, token, disk, issued, running, runs>>

\* The agent is started: resolveRunConfig with loadState.
StartAgent ==
    /\ state # NoState /\ running # state
    /\ running' = state
    /\ UNCHANGED <<own, disk, issued, runs, faults>>

RegisterStep(r) ==
    \/ ReadId(r) \/ Create(r) \/ Reread(r) \/ Write(r) \/ Sync(r) \/ Post(r) \/ Save(r)

Next ==
    \/ \E r \in Registrars :
          \/ Begin(r) \/ RegisterStep(r)
          \/ WriteFails(r) \/ PostFails(r) \/ SaveFails(r) \/ FileFails(r) \/ Kill(r)
    \/ StartAgent

Spec == Init /\ [][Next]_vars
-----------------------------------------------------------------------------
(* Properties.                                                             *)

\* "registration identity was not stable": however often register is repeated,
\* interrupted or run twice at once, the control plane sees one instance.
IdentityIsStable == \A i, j \in 1..Len(issued) : issued[i] = issued[j]

\* The agent runs under a token that was issued to the instance it says it is,
\* and that is the one in the id file.
RunsAsRegistered ==
    \A s \in {state, running} \ {NoState} :
        issued[s.token] = s.instance /\ file = s.instance

Fails(r) == pc[r] # "failed" /\ pc'[r] = "failed"

\* A register command repeated after one that failed succeeds, unless it meets
\* an error of its own.
RepeatSucceeds == [][NoFault => \A r \in Registrars : ~Fails(r)]_vars

\* What is left of it: the one thing that stops a command that meets no error is
\* an id file that another command is about to fill, or could not fill.
OnlyAnEmptyFileStops ==
    [][NoFault => \A r \in Registrars : Fails(r) =>
          /\ file = Empty
          /\ faults > 0 \/ \E other \in Registrars \ {r} : pc[other] = "write"]_vars

=============================================================================
