--------------------------- MODULE ClusterRuntime ---------------------------
(***************************************************************************)
(* Runtime tasks of a cluster agent: k8s.apply-runtime, scale-runtime,     *)
(* restart-runtime and delete-runtime of internal/agent/                   *)
(* kubernetes_runtime.go, as sequences of requests to the Kubernetes API   *)
(* (request and list of kubernetes_client.go), against other writers of    *)
(* the same objects.  A task that fails with a retryable error is executed *)
(* again from its first request (TaskRunner).                              *)
(*                                                                         *)
(* The API server is not in the repository.  It is modelled from what the  *)
(* client relies on: every write gives the object a new resourceVersion, a *)
(* PUT or PATCH under another version than the current one is answered     *)
(* 409 (one without a version is not), a POST of a name in use too, and a  *)
(* Service has a clusterIP that never changes and a nodePort that does: a  *)
(* PUT that names none is given a new one.                                 *)
(***************************************************************************)
EXTENDS Naturals, Sequences, FiniteSets

CONSTANTS Deployments, Services, Secrets, Claims, \* object names, by kind
          Manifests, \* the manifests of an apply, in the payload's order
          MaxTasks,  \* bound: tasks handed out
          MaxEdits,  \* bound: changes by other writers
          MaxFaults  \* bound: requests without an answer or with an error

\* deleteRuntime goes through the kinds in this order.
Kinds == <<Deployments, Services, Secrets, Claims>>
Objects == Deployments \union Services \union Secrets \union Claims

\* validateRuntimeManifests: there is at least one manifest, of a known kind.
ASSUME ClusterAssumption ==
    /\ Manifests \in Seq(Objects) /\ Manifests # <<>>
    /\ "none" \notin Objects
    /\ MaxTasks \in Nat /\ MaxEdits \in Nat /\ MaxFaults \in Nat

VARIABLES
    api,       \* the objects in the API server, by name
    rev,       \* the last resourceVersion it has given out
    tasks,     \* tasks handed out; their number stands for what they write
    op,        \* the current task's type
    outcome,   \* how its last attempt ended
    pc,        \* the request the attempt is about to make
    todo,      \* apply: manifests not applied yet, the current one first
    name,      \* the object the attempt is at
    kind,      \* delete: the kind of object it is at
    batch,     \* delete: names listed and not deleted yet
    attempt,   \* conflicts met by replaceWithResourceVersion or patchWith...
    seen,      \* the allocations applyRuntime has read
    got,       \* the version and allocations those two have read
    late,      \* requests the agent gave up on that may still be executed
    done,      \* objects this attempt has written or deleted
    meddled,   \* objects somebody else changed since, or since it began
    edits, faults

apiVars  == <<api, rev>>
taskVars == <<tasks, op, outcome>>
stepVars == <<pc, todo, name, kind, batch, attempt, seen, got>>
vars == <<apiVars, taskVars, stepVars, late, done, meddled, edits, faults>>

\* ip and port are 0 for an object without allocations.  content is the apply
\* that wrote the object, patched the scale or restart; 0 stands for others.
Object == [present : BOOLEAN, ver : Nat, own : BOOLEAN, content : 0..MaxTasks,
           patched : 0..MaxTasks, ip : Nat, port : Nat, terminating : BOOLEAN]
Absent == [present |-> FALSE, ver |-> 0, own |-> FALSE, content |-> 0,
           patched |-> 0, ip |-> 0, port |-> 0, terminating |-> FALSE]
Allocations == [ver : Nat, ip : Nat, port : Nat]
Nothing == [ver |-> 0, ip |-> 0, port |-> 0]

\* A request: the object it names, the version it is bound to and the body.
Request == [verb : {"POST", "PUT", "PATCH", "DELETE"}, name : Objects,
            read : Allocations, task : 1..MaxTasks, op : {"apply", "scale", "restart", "delete"}]

TypeOK ==
    /\ api \in [Objects -> Object]
    /\ rev \in Nat
    /\ tasks \in 0..MaxTasks
    /\ op \in {"none", "apply", "scale", "restart", "delete"}
    /\ outcome \in {"none", "success", "retry", "failed"}
    /\ pc \in {"idle", "get", "create", "read", "write", "resolve", "list", "delete"}
    /\ todo \in Seq(Objects)
    /\ name \in Objects \union {"none"}
    /\ kind \in 0..Len(Kinds)
    /\ batch \subseteq Objects
    /\ attempt \in 0..2
    /\ seen \in Allocations /\ got \in Allocations
    /\ late \subseteq Request
    /\ done \subseteq Objects /\ meddled \subseteq Objects
    /\ edits \in 0..MaxEdits /\ faults \in 0..MaxFaults

Init ==
    /\ api = [o \in Objects |-> Absent] /\ rev = 0
    /\ tasks = 0 /\ op = "none" /\ outcome = "none"
    /\ pc = "idle" /\ todo = <<>> /\ name = "none" /\ kind = 0 /\ batch = {}
    /\ attempt = 0 /\ seen = Nothing /\ got = Nothing
    /\ late = {} /\ done = {} /\ meddled = {}
    /\ edits = 0 /\ faults = 0

-----------------------------------------------------------------------------
(* The API server (external).                                              *)

AllocationsOf(o) == [ver |-> api[o].ver, ip |-> api[o].ip, port |-> api[o].port]

\* A new object; a Service is given its allocations.
Fresh(o, content, own) ==
    [Absent EXCEPT !.present = TRUE, !.ver = rev + 1, !.own = own, !.content = content,
                   !.ip = IF o \in Services THEN rev + 1 ELSE 0,
                   !.port = IF o \in Services THEN rev + 1 ELSE 0]

Store(o, object) ==
    /\ api' = [api EXCEPT ![o] = object]
    /\ rev' = rev + 1

\* A claim that pods still use is only marked for deletion.
Erase(o) ==
    \/ ~api[o].terminating /\ Store(o, Absent)
    \/ /\ ~api[o].terminating /\ o \in Claims
       /\ Store(o, [api[o] EXCEPT !.terminating = TRUE, !.ver = rev + 1])
    \/ api[o].terminating /\ UNCHANGED apiVars

\* A body without a resourceVersion is bound to none.
VersionMatches(m) == api[m.name].present /\ m.read.ver \in {0, api[m.name].ver}

\* preserveServiceAllocations runs twice: for what applyRuntime has read, then,
\* where nothing was set yet, for what replaceWithResourceVersion has read.  The
\* model's manifests name no allocations themselves, and keep the names of their ports.
PortOf == IF seen.port # 0 THEN seen.port ELSE got.port
IpOf   == IF seen.ip # 0 THEN seen.ip ELSE got.ip

\* Mutations of Body: the nodePort is not preserved, or the resourceVersion not set.
BodyWithoutPort == [got EXCEPT !.ip = IpOf, !.port = 0]
BodyUnbound == [got EXCEPT !.ver = 0, !.ip = IpOf, !.port = PortOf]

\* The version and the allocations that the body of a PUT or PATCH carries.
Body == [got EXCEPT !.ip = IpOf, !.port = PortOf]

\* The request that the attempt makes now.
RequestNow ==
    [verb |-> CASE pc = "create" -> "POST"
                [] pc = "delete" -> "DELETE"
                [] pc = "write" -> IF op = "apply" /\ name \notin Claims THEN "PUT" ELSE "PATCH",
     name |-> name, task |-> tasks, op |-> op,
     read |-> IF pc = "write" THEN Body ELSE Nothing]

\* The nodePort of a Service after a PUT: a new one when the body names none.
PortAfter(m) == IF m.name \in Services /\ m.read.port = 0 THEN rev + 1 ELSE m.read.port

\* What a PUT or PATCH makes of the object: a merge patch keeps what it does not
\* name (an apply patches a claim's labels and storage).
Updated(m) ==
    LET now == [api[m.name] EXCEPT !.ver = rev + 1] IN
    CASE m.op = "apply" /\ m.verb = "PUT" ->
             [now EXCEPT !.own = TRUE, !.content = m.task, !.patched = 0, !.port = PortAfter(m)]
      [] m.op = "apply" /\ m.verb = "PATCH" -> [now EXCEPT !.own = TRUE, !.content = m.task]
      [] m.op \in {"scale", "restart"} -> [now EXCEPT !.patched = m.task]

\* The answer to a request, and its effect.
Answer(m) ==
    LET present == api[m.name].present
        update  == m.verb \in {"PUT", "PATCH"}
    IN CASE m.verb = "POST" /\ present -> "exists"
         [] m.verb # "POST" /\ ~present -> "notfound"
         [] update /\ present /\ ~VersionMatches(m) -> "conflict"
         [] m.verb = "PUT" /\ VersionMatches(m) /\ m.read.ip # api[m.name].ip -> "invalid"
         [] OTHER -> "ok"

Perform(m) ==
    IF Answer(m) # "ok" THEN UNCHANGED apiVars
    ELSE CASE m.verb = "POST" -> Store(m.name, Fresh(m.name, m.task, TRUE))
           [] m.verb = "DELETE" -> Erase(m.name)
           [] m.verb \in {"PUT", "PATCH"} -> Store(m.name, Updated(m))

-----------------------------------------------------------------------------
(* Attempts.                                                               *)

Faulty == faults < MaxFaults /\ faults' = faults + 1

At(step, o) == pc' = step /\ name' = o

\* executeClusterTask returns.
Finish(result) ==
    /\ outcome' = result
    /\ At("idle", "none") /\ todo' = <<>> /\ kind' = 0 /\ batch' = {}
    /\ attempt' = 0 /\ seen' = Nothing /\ got' = Nothing
    /\ UNCHANGED <<tasks, op>>

\* An attempt at a task of type o starts; scale and restart look their Deployment
\* up by its label, unless the payload names it.
Start(o) ==
    /\ pc = "idle"
    /\ outcome' = "none" /\ op' = o /\ done' = {} /\ meddled' = {}
    /\ todo' = IF o = "apply" THEN Manifests ELSE <<>>
    /\ kind' = IF o = "delete" THEN 1 ELSE 0
    /\ \/ o = "apply" /\ At("get", Head(Manifests))
       \/ o = "delete" /\ At("list", "none")
       \/ o \in {"scale", "restart"} /\ At("resolve", "none")
       \/ o \in {"scale", "restart"} /\ \E d \in Deployments : At("read", d)
    /\ UNCHANGED <<apiVars, batch, attempt, seen, got, late, edits, faults>>

Begin(o) == tasks < MaxTasks /\ tasks' = tasks + 1 /\ Start(o)

\* The control plane hands a retryable failure out again (or does not).
Retry == outcome = "retry" /\ tasks' = tasks /\ Start(op)

Quiet == UNCHANGED <<late, done, meddled, edits, faults>>

\* The request is executed; ok says whether the attempt has what it wants.
Send(ok) ==
    /\ Perform(RequestNow)
    /\ IF ok THEN done' = done \union {name} /\ meddled' = meddled \ {name}
       ELSE UNCHANGED <<done, meddled>>
    /\ UNCHANGED <<late, edits, faults>>

-----------------------------------------------------------------------------
(* applyRuntime.                                                           *)

NextManifest ==
    IF Tail(todo) = <<>> THEN Finish("success")
    ELSE /\ todo' = Tail(todo)
         /\ At("get", Head(Tail(todo)))
         /\ attempt' = 0 /\ seen' = Nothing /\ got' = Nothing
         /\ UNCHANGED <<taskVars, kind, batch>>

\* The object is there or not; what a Service has been allocated is noted.
Get ==
    /\ pc = "get"
    /\ At(IF api[name].present THEN "read" ELSE "create", name)
    /\ seen' = [Nothing EXCEPT !.ip = api[name].ip, !.port = api[name].port]
    /\ UNCHANGED <<apiVars, taskVars, todo, kind, batch, attempt, got>> /\ Quiet

Post ==
    /\ pc = "create"
    /\ Send(Answer(RequestNow) = "ok")
    /\ IF Answer(RequestNow) = "ok" THEN NextManifest ELSE Finish("failed")

-----------------------------------------------------------------------------
(* replaceWithResourceVersion and patchWithResourceVersion: read, write    *)
(* under the version read, three times at most.                            *)

\* An object that is gone fails the task: for a replacement it is worth a retry.
Read ==
    /\ pc = "read"
    /\ IF api[name].present
         THEN /\ got' = AllocationsOf(name)
              /\ At("write", name)
              /\ UNCHANGED <<taskVars, todo, kind, batch, attempt, seen>>
         ELSE Finish(IF op = "apply" /\ name \notin Claims THEN "retry" ELSE "failed")
    /\ UNCHANGED apiVars /\ Quiet

WriteDone == IF op = "apply" THEN NextManifest ELSE Finish("success")

\* Mutations of Conflict: the third conflict is forgotten, or the loop is endless.
ConflictForgotten ==
    IF attempt = 2 THEN WriteDone
    ELSE /\ attempt' = attempt + 1
         /\ At("read", name) /\ got' = Nothing
         /\ UNCHANGED <<taskVars, todo, kind, batch, seen>>

ConflictEndless ==
    /\ attempt' = attempt + 1
    /\ At("read", name) /\ got' = Nothing
    /\ UNCHANGED <<taskVars, todo, kind, batch, seen>>

\* Another attempt after 100 and 200 ms, then a retryable error.
Conflict ==
    IF attempt = 2 THEN Finish("retry")
    ELSE /\ attempt' = attempt + 1
         /\ At("read", name) /\ got' = Nothing
         /\ UNCHANGED <<taskVars, todo, kind, batch, seen>>

Write ==
    /\ pc = "write"
    /\ Send(Answer(RequestNow) = "ok")
    /\ CASE Answer(RequestNow) = "ok" -> WriteDone
         [] Answer(RequestNow) = "conflict" -> Conflict
         [] Answer(RequestNow) \in {"notfound", "invalid"} -> Finish("failed")

-----------------------------------------------------------------------------
(* resolveRuntimeDeployment and deleteRuntime.                             *)

\* Mutation of Labelled: the label selector is left out.
LabelledAny(names) == {o \in names : api[o].present}

\* list with the runtime's label as selector; its cap of 2000 items is out of reach.
Labelled(names) == {o \in names : api[o].present /\ api[o].own}

Resolve ==
    /\ pc = "resolve"
    /\ LET found == Labelled(Deployments) IN
       IF Cardinality(found) # 1 THEN Finish("failed")
       ELSE /\ \E d \in found : At("read", d)
            /\ UNCHANGED <<taskVars, todo, kind, batch, attempt, seen, got>>
    /\ UNCHANGED apiVars /\ Quiet

\* The names left of this kind are next, then the next kind.
GoOn(names) ==
    IF names # {}
      THEN /\ batch' = names
           /\ \E o \in names : At("delete", o)
           /\ UNCHANGED <<taskVars, todo, kind, attempt, seen, got>>
      ELSE IF kind = Len(Kinds) THEN Finish("success")
      ELSE /\ kind' = kind + 1 /\ batch' = {}
           /\ At("list", "none")
           /\ UNCHANGED <<taskVars, todo, attempt, seen, got>>

List ==
    /\ pc = "list"
    /\ GoOn(Labelled(Kinds[kind]))
    /\ UNCHANGED apiVars /\ Quiet

\* By name, whatever has become of the object since it was listed.
Delete ==
    /\ pc = "delete"
    /\ Send(Answer(RequestNow) = "ok")
    /\ GoOn(batch \ {name})

-----------------------------------------------------------------------------
(* Errors.  The agent's death or a lost lease ends an attempt in the same  *)
(* way: the task is handed out again.                                      *)

\* A read is not answered, answered with an error, or cancelled.
ReadFails ==
    /\ pc \in {"get", "read", "resolve", "list"}
    /\ Faulty
    /\ \E result \in {"retry", "failed"} : Finish(result)
    /\ UNCHANGED <<apiVars, late, done, meddled, edits>>

\* A write likewise; without an answer it may still be executed.
WriteFails ==
    /\ pc \in {"create", "write", "delete"}
    /\ Faulty
    /\ \E result \in {"retry", "failed"} : Finish(result)
    /\ late' \in {late, late \union {RequestNow}}
    /\ UNCHANGED <<apiVars, done, meddled, edits>>

Meddle(o) == meddled' = meddled \union {o} /\ UNCHANGED done

\* A request the agent gave up on is executed.
DeliverLate(m) ==
    /\ late' = late \ {m}
    /\ Perform(m)
    /\ Meddle(m.name)
    /\ UNCHANGED <<taskVars, stepVars, edits, faults>>

-----------------------------------------------------------------------------
(* Other writers (external).                                               *)

Edited(o) ==
    /\ edits < MaxEdits /\ edits' = edits + 1
    /\ Meddle(o)
    /\ UNCHANGED <<taskVars, stepVars, late, faults>>

\* A controller writes a status, or a user changes the object or a nodePort.
Edit(o) ==
    /\ api[o].present /\ Edited(o)
    /\ \E content \in {0, api[o].content} :
       \E port \in IF o \in Services THEN {api[o].port, rev + 1} ELSE {0} :
           Store(o, [api[o] EXCEPT !.ver = rev + 1, !.content = content, !.port = port])

Remove(o) == api[o].present /\ ~api[o].terminating /\ Edited(o) /\ Erase(o)

Create(o) ==
    /\ ~api[o].present /\ Edited(o)
    /\ \E own \in BOOLEAN : Store(o, Fresh(o, 0, own))

\* Nothing uses a claim marked for deletion any more.
Vanish(o) ==
    /\ api[o].terminating
    /\ Store(o, Absent)
    /\ Meddle(o)
    /\ UNCHANGED <<taskVars, stepVars, late, edits, faults>>

Operations == {"apply", "scale", "restart", "delete"}

Attempt == Get \/ Post \/ Read \/ Write \/ Resolve \/ List \/ Delete

Next ==
    \/ \E o \in Operations : Begin(o)
    \/ Retry
    \/ Attempt \/ ReadFails \/ WriteFails
    \/ \E m \in late : DeliverLate(m)
    \/ \E o \in Objects : Edit(o) \/ Remove(o) \/ Create(o) \/ Vanish(o)

Spec == Init /\ [][Next]_vars
-----------------------------------------------------------------------------
(* Properties.                                                             *)

\* The agent's requests, in time or late, as opposed to other writers.
ByAgent == edits' = edits

\* What an update of the agent overwrites it has read: the version before is the one
\* that the attempt, or the late request, has read.
VersionWasRead(o) ==
    \/ o = name /\ got.ver = api[o].ver
    \/ \E m \in late \ late' : m.name = o /\ m.read.ver = api[o].ver

\* Updates lose nothing of others: the agent overwrites no change it has not read,
\* and a Service stays at a nodePort that was allocated to it.  Ports and IPs are
\* numbered by the write that allocated them, so a port above rev is a new one, and
\* one below the clusterIP belonged to a Service of this name that is gone: the
\* allocations copied from two reads, with a Service deleted and created again
\* between them, are never mixed.
EditsAreSeen ==
    [][ByAgent => \A o \in Objects :
        api[o].present /\ api'[o].present =>
            /\ api'[o] # api[o] /\ api'[o].terminating = api[o].terminating => VersionWasRead(o)
            /\ o \in Services => api[o].ip <= api'[o].port /\ api'[o].port <= rev]_vars

\* "nodePort was not preserved": an apply leaves a Service the nodePort it has.
PortsStand ==
    [][ByAgent => \A o \in Services :
          api[o].present /\ api'[o].present => api'[o].port = api[o].port]_vars

\* A task that reports success has done all of what it reports, however often it
\* was interrupted and whatever the attempts before it left behind; only what
\* somebody else changed after the last attempt wrote it may be different (and,
\* for a delete, a claim may be on its way out).
SuccessMeansDone ==
    pc = "idle" /\ outcome = "success" =>
        /\ op = "apply" =>
               \A i \in 1..Len(Manifests) :
                   LET object == api[Manifests[i]] IN
                   /\ Manifests[i] \in done
                   /\ \/ Manifests[i] \in meddled
                      \/ object.present /\ object.own /\ object.content = tasks
        /\ op \in {"scale", "restart"} =>
               \E d \in done \intersect Deployments :
                   d \in meddled \/ (api[d].present /\ api[d].patched = tasks)
        /\ op = "delete" =>
               \A o \in Objects :
                   o \in meddled \/ api[o].terminating \/ ~(api[o].present /\ api[o].own)

\* A delete never takes an object of somebody else, except one that was put in
\* the place of the runtime's own during the attempt.
OthersAreSpared ==
    [][pc = "delete" /\ ByAgent /\ late' = late => \A o \in Objects \ meddled :
          api[o].present /\ ~api[o].own /\ ~api[o].terminating
              => api'[o] = api[o]]_vars

=============================================================================
