------------------------ MODULE ClusterRuntimeProofs ------------------------
(***************************************************************************)
(* Theorems about the runtime tasks of a cluster agent (ClusterRuntime),   *)
(* for any objects, manifests, number of tasks, other writers and faults.  *)
(***************************************************************************)
EXTENDS ClusterRuntime, SequenceTheorems, TLAPS

-----------------------------------------------------------------------------
(***************************************************************************)
(* The inductive invariant.                                                *)

\* The API server, and what may still reach it.  Only updates carry a nodePort, and
\* only one that the API server has allocated.
Bound(m) == /\ m.verb = "PUT" => m.op = "apply"
            /\ m.verb = "PATCH" => m.op # "delete"
            /\ m.read.port <= rev

ServerOK ==
    /\ api \in [Objects -> Object] /\ rev \in Nat
    /\ \A o \in Objects : api[o].port <= rev
    /\ late \subseteq Request /\ \A m \in late : Bound(m)
    /\ done \subseteq Objects /\ meddled \subseteq Objects
    /\ edits \in 0..MaxEdits /\ faults \in 0..MaxFaults

StepTypes ==
    /\ tasks \in 0..MaxTasks
    /\ op \in {"none", "apply", "scale", "restart", "delete"}
    /\ outcome \in {"none", "success", "retry", "failed"}
    /\ pc \in {"idle", "get", "create", "read", "write", "resolve", "list", "delete"}
    /\ todo \in Seq(Objects)
    /\ name \in Objects \union {"none"}
    /\ kind \in 0..4
    /\ batch \subseteq Objects
    /\ attempt \in 0..2
    /\ seen \in Allocations /\ got \in Allocations

\* Which request an attempt of which type makes, and of what.
Control ==
    /\ pc # "idle" => op # "none" /\ outcome = "none" /\ tasks # 0
    /\ outcome # "none" => op # "none" /\ tasks # 0
    /\ pc \in {"get", "create"} => op = "apply"
    /\ pc \in {"read", "write"} => op # "delete"
    /\ pc = "resolve" => op \in {"scale", "restart"}
    /\ pc \in {"list", "delete"} => op = "delete" /\ kind # 0
    /\ pc \in {"get", "create", "read", "write", "delete"} => name \in Objects
    /\ pc # "idle" /\ op = "apply" => todo # <<>> /\ name = Head(todo)
    /\ pc \in {"read", "write"} /\ op # "apply" => name \in Deployments
    /\ pc = "delete" => name \in batch

StepOK == StepTypes /\ Control /\ seen.port <= rev /\ got.port <= rev

\* What an apply has applied stands, unless somebody else changed it.
Applied(o) == /\ o \in done
              /\ o \in meddled \/ (api[o].present /\ api[o].own /\ api[o].content = tasks)

Before == Len(Manifests) - Len(todo)

AppliedSoFar ==
    pc # "idle" /\ op = "apply" =>
        /\ Len(todo) <= Len(Manifests)
        /\ \A k \in 1..Len(todo) : todo[k] = Manifests[Before + k]
        /\ \A i \in 1..Before : Applied(Manifests[i])

\* What a delete has listed is the runtime's own; the rest is gone, or not its own.
Deleted(o) == o \in meddled \/ api[o].terminating \/ ~(api[o].present /\ api[o].own)

DeletedSoFar ==
    /\ pc \in {"list", "delete"} => \A k \in 1..(kind - 1) : \A o \in Kinds[k] : Deleted(o)
    /\ pc = "delete" => \A o \in Kinds[kind] \ batch : Deleted(o)

ListedAreOwn == pc = "delete" => \A o \in batch : o \in meddled \/ api[o].own

Progress == AppliedSoFar /\ DeletedSoFar /\ ListedAreOwn /\ SuccessMeansDone

ClusterInv == ServerOK /\ StepOK /\ Progress

-----------------------------------------------------------------------------
(* Requests and what they do.                                              *)

LEMMA KindsOfObjects ==
    /\ Len(Kinds) = 4
    /\ \A k \in 1..4 : Kinds[k] \subseteq Objects
    /\ \A o \in Objects : \E k \in 1..4 : o \in Kinds[k]
  <1>1. /\ Len(Kinds) = 4 /\ Kinds[1] = Deployments /\ Kinds[2] = Services
        /\ Kinds[3] = Secrets /\ Kinds[4] = Claims
    BY DEF Kinds
  <1>2. \A k \in 1..4 : k = 1 \/ k = 2 \/ k = 3 \/ k = 4
    OBVIOUS
  <1>3. 1 \in 1..4 /\ 2 \in 1..4 /\ 3 \in 1..4 /\ 4 \in 1..4
    OBVIOUS
  <1>4. QED
    BY <1>1, <1>2, <1>3 DEF Objects

\* The request of an attempt.
LEMMA RequestShape ==
    ASSUME ServerOK, StepOK, pc \in {"create", "write", "delete"}
    PROVE  /\ RequestNow \in Request /\ Bound(RequestNow)
           /\ RequestNow.name = name /\ RequestNow.task = tasks /\ RequestNow.op = op
           /\ pc = "create" => RequestNow.verb = "POST"
           /\ pc = "delete" => RequestNow.verb = "DELETE"
           /\ pc = "write" => /\ RequestNow.verb \in {"PUT", "PATCH"}
                              /\ RequestNow.read.ver = got.ver
  <1> USE DEF StepOK, StepTypes
  <1> DEFINE verb == CASE pc = "create" -> "POST"
                       [] pc = "delete" -> "DELETE"
                       [] pc = "write" -> IF op = "apply" /\ name \notin Claims THEN "PUT" ELSE "PATCH"
             read == IF pc = "write" THEN Body ELSE Nothing
  <1>1. RequestNow = [verb |-> verb, name |-> name, task |-> tasks, op |-> op, read |-> read]
    BY DEF RequestNow
  <1>2. /\ verb \in {"POST", "PUT", "PATCH", "DELETE"}
        /\ pc = "create" => verb = "POST"
        /\ pc = "delete" => verb = "DELETE"
        /\ pc = "write" => verb \in {"PUT", "PATCH"}
        /\ verb = "PUT" => op = "apply"
        /\ verb = "PATCH" => pc = "write"
    OBVIOUS
  <1>3. /\ read \in Allocations /\ read.port <= rev
        /\ pc = "write" => read.ver = got.ver
    <2>1. IpOf \in Nat /\ PortOf \in Nat /\ PortOf <= rev
      BY DEF IpOf, PortOf, Allocations
    <2>2. CASE pc = "write"
      BY <2>1, <2>2 DEF Allocations, Body
    <2>3. CASE pc # "write"
      <3>1. read = Nothing
        BY <2>3
      <3>2. Nothing \in Allocations /\ Nothing.port <= rev
        BY DEF Nothing, Allocations, ServerOK
      <3>3. QED
        BY <2>3, <3>1, <3>2
    <2>4. QED
      BY <2>2, <2>3
  <1>4. name \in Objects /\ op # "none" /\ tasks \in 1..MaxTasks /\ (pc = "write" => op # "delete")
    BY ClusterAssumption DEF Control
  <1> HIDE DEF verb, read
  <1>5. RequestNow \in Request
    BY <1>1, <1>2, <1>3, <1>4 DEF Request
  <1>6. Bound(RequestNow)
    BY <1>1, <1>2, <1>3, <1>4 DEF Bound
  <1>7. QED
    BY <1>1, <1>2, <1>3, <1>5, <1>6

LEMMA AnswerCases ==
    ASSUME NEW m \in Request
    PROVE  /\ Answer(m) \in {"ok", "exists", "notfound", "conflict", "invalid"}
           /\ m.verb = "POST" /\ Answer(m) = "ok" => ~api[m.name].present
           /\ m.verb # "POST" /\ Answer(m) = "ok" => api[m.name].present
           /\ m.verb \in {"PUT", "PATCH"} /\ Answer(m) = "ok" => VersionMatches(m)
           /\ m.verb \in {"PUT", "PATCH"} => Answer(m) # "exists"
           /\ m.verb = "DELETE" => Answer(m) = IF api[m.name].present THEN "ok" ELSE "notfound"
  BY DEF Answer, Request

\* Objects with some of their fields changed.
LEMMA ChangedObjects ==
    ASSUME NEW object \in Object, NEW n \in Nat, NEW own \in BOOLEAN, NEW content \in 0..MaxTasks
    PROVE  /\ [object EXCEPT !.present = TRUE, !.ver = n, !.own = own] \in Object
           /\ [object EXCEPT !.content = content, !.ip = n, !.port = n] \in Object
           /\ [object EXCEPT !.own = TRUE, !.content = content] \in Object
           /\ [object EXCEPT !.patched = 0, !.port = n] \in Object
  <1>1. [object EXCEPT !.present = TRUE, !.ver = n, !.own = own] \in Object
    BY DEF Object
  <1>2. [object EXCEPT !.content = content, !.ip = n, !.port = n] \in Object
    BY DEF Object
  <1>3. [object EXCEPT !.own = TRUE, !.content = content] \in Object
    BY DEF Object
  <1>4. [object EXCEPT !.patched = 0, !.port = n] \in Object
    <2>1. 0 \in 0..MaxTasks
      BY ClusterAssumption
    <2>2. QED
      BY <2>1 DEF Object
  <1>5. QED
    BY <1>1, <1>2, <1>3, <1>4

LEMMA MarkedObject ==
    ASSUME NEW object \in Object, NEW ver \in Nat
    PROVE  LET marked == [object EXCEPT !.terminating = TRUE, !.ver = ver]
           IN marked \in Object /\ marked.terminating = TRUE /\ marked.port = object.port
  <1>1. [object EXCEPT !.terminating = TRUE, !.ver = ver] \in Object
    BY DEF Object
  <1>2. QED
    BY <1>1 DEF Object

\* Objects as they are made and changed.
LEMMA ObjectShapes ==
    ASSUME ServerOK, NEW o \in Objects
    PROVE  /\ Absent \in Object /\ ~Absent.present /\ Absent.port = 0 /\ ~Absent.terminating
           /\ \A content \in 0..MaxTasks, own \in BOOLEAN :
                 /\ Fresh(o, content, own) \in Object
                 /\ Fresh(o, content, own).present /\ Fresh(o, content, own).own = own
                 /\ Fresh(o, content, own).content = content
                 /\ Fresh(o, content, own).port <= rev + 1
  <1>1. Absent \in Object /\ ~Absent.present /\ Absent.port = 0 /\ ~Absent.terminating
    BY ClusterAssumption DEF Absent, Object
  <1>2. rev \in Nat
    BY DEF ServerOK
  <1>3. ASSUME NEW content \in 0..MaxTasks, NEW own \in BOOLEAN
        PROVE /\ Fresh(o, content, own) \in Object
              /\ Fresh(o, content, own).present /\ Fresh(o, content, own).own = own
              /\ Fresh(o, content, own).content = content
              /\ Fresh(o, content, own).port <= rev + 1
    <2> DEFINE ip == IF o \in Services THEN rev + 1 ELSE 0
               new == [Absent EXCEPT !.present = TRUE, !.ver = rev + 1, !.own = own,
                          !.content = content, !.ip = ip, !.port = ip]
    <2>1. ip \in Nat /\ ip <= rev + 1
      BY <1>2
    <2>2. Fresh(o, content, own) = new
      BY DEF Fresh
    <2> HIDE DEF ip
    <2>3. new \in Object
      <3> DEFINE half == [Absent EXCEPT !.present = TRUE, !.ver = rev + 1, !.own = own]
      <3>1. half \in Object
        <4>1. rev + 1 \in Nat
          BY <1>2
        <4>2. QED
          BY <1>1, <4>1, ChangedObjects
      <3> HIDE DEF half
      <3>2. [half EXCEPT !.content = content, !.ip = ip, !.port = ip] \in Object
        BY <2>1, <3>1, ChangedObjects
      <3>3. QED
        BY <3>2 DEF half
    <2>4. new.present = TRUE /\ new.own = own
      BY <1>1 DEF Object
    <2>5. new.content = content /\ new.port = ip
      BY <1>1 DEF Object
    <2> HIDE DEF new
    <2>6. QED
      BY <2>1, <2>2, <2>3, <2>4, <2>5
  <1>4. QED
    BY <1>1, <1>3

LEMMA UpdatedShape ==
    ASSUME ServerOK, NEW m \in Request, Bound(m), m.verb \in {"PUT", "PATCH"}
    PROVE  LET old == api[m.name]
               new == Updated(m)
           IN /\ new \in Object /\ new.present = old.present /\ new.terminating = old.terminating
              /\ new.port <= rev + 1
              /\ m.op = "apply" => new.own /\ new.content = m.task
              /\ m.op \in {"scale", "restart"} => new.patched = m.task
  <1> DEFINE old == api[m.name]
             now == [old EXCEPT !.ver = rev + 1]
  <1>1. /\ old \in Object /\ rev \in Nat /\ old.port <= rev /\ old.port <= rev + 1
        /\ m.task \in 0..MaxTasks
        /\ m.op \in {"apply", "scale", "restart"}
        /\ PortAfter(m) \in Nat /\ PortAfter(m) <= rev + 1
    <2>1. /\ old \in Object /\ rev \in Nat /\ old.port <= rev
          /\ m.task \in 0..MaxTasks /\ m.read.port \in Nat /\ m.read.port <= rev
          /\ m.op \in {"apply", "scale", "restart"}
      BY ClusterAssumption DEF ServerOK, Request, Bound, Allocations
    <2>2. \A n \in Nat : n <= rev => n <= rev + 1
      BY <2>1
    <2>3. old.port \in Nat
      BY <2>1 DEF Object
    <2>4. PortAfter(m) = rev + 1 \/ PortAfter(m) = m.read.port
      BY DEF PortAfter
    <2>5. QED
      BY <2>1, <2>2, <2>3, <2>4
  <1>2. /\ now \in Object /\ now.present = old.present /\ now.terminating = old.terminating
        /\ now.port = old.port
    BY <1>1 DEF Object
  <1>3. /\ m.op = "apply" /\ m.verb = "PUT" =>
              Updated(m) = [now EXCEPT !.own = TRUE, !.content = m.task, !.patched = 0, !.port = PortAfter(m)]
        /\ m.op = "apply" /\ m.verb = "PATCH" => Updated(m) = [now EXCEPT !.own = TRUE, !.content = m.task]
        /\ m.op \in {"scale", "restart"} => Updated(m) = [now EXCEPT !.patched = m.task]
    BY DEF Updated
  <1> HIDE DEF now, old
  <1> DEFINE new == Updated(m)
             put == [now EXCEPT !.own = TRUE, !.content = m.task, !.patched = 0, !.port = PortAfter(m)]
             patch == [now EXCEPT !.own = TRUE, !.content = m.task]
             scaled == [now EXCEPT !.patched = m.task]
  <1>4. /\ put \in Object /\ put.present = now.present /\ put.terminating = now.terminating
        /\ put.port = PortAfter(m) /\ put.own = TRUE /\ put.content = m.task
    <2>1. put \in Object
      <3> DEFINE half == [now EXCEPT !.own = TRUE, !.content = m.task]
      <3>1. half \in Object
        BY <1>1, <1>2, ChangedObjects
      <3> HIDE DEF half
      <3>2. [half EXCEPT !.patched = 0, !.port = PortAfter(m)] \in Object
        BY <1>1, <3>1, ChangedObjects
      <3>3. QED
        BY <3>2 DEF half
    <2>2. put.present = now.present /\ put.terminating = now.terminating
      BY <1>2 DEF Object
    <2>3. put.port = PortAfter(m) /\ put.own = TRUE /\ put.content = m.task
      BY <1>2 DEF Object
    <2>4. QED
      BY <2>1, <2>2, <2>3
  <1>5. /\ patch \in Object /\ patch.present = now.present /\ patch.terminating = now.terminating
        /\ patch.port = now.port /\ patch.own = TRUE /\ patch.content = m.task
    BY <1>1, <1>2 DEF Object
  <1>6. /\ scaled \in Object /\ scaled.present = now.present /\ scaled.terminating = now.terminating
        /\ scaled.port = now.port /\ scaled.patched = m.task
    BY <1>1, <1>2 DEF Object
  <1>7. \/ m.op = "apply" /\ new = put
        \/ m.op = "apply" /\ new = patch
        \/ m.op \in {"scale", "restart"} /\ new = scaled
    BY <1>1, <1>3
  <1> HIDE DEF new, put, patch, scaled
  <1>8. /\ new \in Object /\ new.present = old.present /\ new.terminating = old.terminating
        /\ new.port <= rev + 1
        /\ m.op = "apply" => new.own /\ new.content = m.task
        /\ m.op \in {"scale", "restart"} => new.patched = m.task
    BY <1>1, <1>2, <1>4, <1>5, <1>6, <1>7
  <1>9. QED
    BY <1>8 DEF old, new

LEMMA StoreShape ==
    ASSUME ServerOK, NEW n \in Objects, NEW object \in Object, object.port <= rev + 1,
           Store(n, object)
    PROVE  /\ api' \in [Objects -> Object] /\ rev' \in Nat /\ rev <= rev'
           /\ \A o \in Objects : api'[o].port <= rev'
           /\ \A o \in Objects : o # n => api'[o] = api[o]
           /\ api'[n] = object
  <1>1. api' = [api EXCEPT ![n] = object] /\ rev' = rev + 1
    BY DEF Store
  <1>2. api \in [Objects -> Object] /\ rev \in Nat /\ \A o \in Objects : api[o].port <= rev
    BY DEF ServerOK
  <1>3. api' \in [Objects -> Object] /\ api'[n] = object /\ \A o \in Objects : o # n => api'[o] = api[o]
    BY <1>1, <1>2
  <1>4. \A o \in Objects : api[o].port \in Nat
    BY <1>2 DEF Object
  <1>5. \A o \in Objects : api'[o].port <= rev'
    BY <1>1, <1>2, <1>3, <1>4
  <1>6. QED
    BY <1>1, <1>2, <1>3, <1>5

LEMMA EraseShape ==
    ASSUME ServerOK, NEW n \in Objects, Erase(n)
    PROVE  /\ api' \in [Objects -> Object] /\ rev' \in Nat /\ rev <= rev'
           /\ \A o \in Objects : api'[o].port <= rev'
           /\ \A o \in Objects : o # n => api'[o] = api[o]
           /\ api'[n] = api[n] \/ ~api'[n].present \/ (api'[n].terminating /\ ~api[n].terminating)
           /\ ~api'[n].present \/ api'[n].terminating
           /\ api'[n].port <= rev
  <1> DEFINE old == api[n]
  <1>1. old \in Object /\ rev \in Nat /\ old.port \in Nat /\ old.port <= rev
    BY DEF ServerOK, Object
  <1>2. CASE ~old.terminating /\ Store(n, Absent)
    <2>1. Absent \in Object /\ ~Absent.present /\ Absent.port = 0
      BY ObjectShapes
    <2>2. Absent.port <= rev + 1 /\ Absent.port <= rev
      BY <1>1, <2>1
    <2>3. QED
      BY <1>2, <2>1, <2>2, StoreShape
  <1>3. CASE ~old.terminating /\ Store(n, [old EXCEPT !.terminating = TRUE, !.ver = rev + 1])
    <2> DEFINE marked == [old EXCEPT !.terminating = TRUE, !.ver = rev + 1]
    <2>1. rev + 1 \in Nat
      BY <1>1
    <2>2. marked \in Object /\ marked.terminating = TRUE /\ marked.port = old.port
      BY <1>1, <2>1, MarkedObject
    <2>3. Store(n, marked)
      BY <1>3
    <2> HIDE DEF marked
    <2>4. marked.port <= rev + 1 /\ marked.port <= rev
      BY <1>1, <2>2
    <2>5. QED
      BY <1>3, <2>2, <2>3, <2>4, StoreShape
  <1>4. CASE old.terminating /\ UNCHANGED apiVars
    BY <1>1, <1>4 DEF apiVars, ServerOK
  <1>5. QED
    BY <1>2, <1>3, <1>4 DEF Erase

\* The effect of a request on the object it names; nothing else changes.
LEMMA PerformShape ==
    ASSUME ServerOK, NEW m \in Request, Bound(m), Perform(m)
    PROVE  LET old == api[m.name]
               new == api'[m.name]
           IN /\ api' \in [Objects -> Object] /\ rev' \in Nat /\ rev <= rev'
              /\ \A o \in Objects : api'[o].port <= rev'
              /\ \A o \in Objects : o # m.name => api'[o] = api[o]
              /\ Answer(m) # "ok" => api' = api
              /\ m.verb = "POST" /\ Answer(m) = "ok" =>
                     ~old.present /\ new.present /\ new.own /\ new.content = m.task
              /\ m.verb \in {"PUT", "PATCH"} /\ Answer(m) = "ok" =>
                     /\ new.present /\ VersionMatches(m) /\ new = Updated(m)
                     /\ m.op = "apply" => new.own /\ new.content = m.task
                     /\ m.op \in {"scale", "restart"} => new.patched = m.task
              /\ m.verb = "DELETE" => new = old \/ ~new.present \/ (new.terminating /\ ~old.terminating)
              /\ m.verb = "DELETE" => ~new.present \/ new.terminating
              /\ m.verb = "DELETE" /\ new.present => new.port <= rev
  <1> DEFINE old == api[m.name]
             new == api'[m.name]
  <1>1. /\ m.name \in Objects /\ m.task \in 0..MaxTasks
        /\ m.verb \in {"POST", "PUT", "PATCH", "DELETE"}
        /\ api \in [Objects -> Object] /\ rev \in Nat /\ \A o \in Objects : api[o].port <= rev
    BY DEF ServerOK, Request
  <1>2. ASSUME NEW object \in Object, object.port <= rev + 1, Store(m.name, object)
        PROVE  /\ api' \in [Objects -> Object] /\ rev' \in Nat /\ rev <= rev'
               /\ \A o \in Objects : api'[o].port <= rev'
               /\ \A o \in Objects : o # m.name => api'[o] = api[o]
               /\ new = object
    BY <1>1, <1>2, StoreShape
  <1>3. CASE Answer(m) # "ok"
    <2>1. api' = api /\ rev' = rev
      BY <1>3 DEF Perform, apiVars
    <2>2. new = old
      BY <2>1
    <2>3. m.verb = "DELETE" => ~new.present
      BY <1>3, <2>2, AnswerCases
    <2>4. /\ api' \in [Objects -> Object] /\ rev' \in Nat /\ rev <= rev'
          /\ \A o \in Objects : api'[o].port <= rev'
          /\ \A o \in Objects : o # m.name => api'[o] = api[o]
      BY <1>1, <2>1
    <2>5. Answer(m) # "ok" => api' = api
      BY <2>1
    <2>6. QED
      BY <1>3, <2>2, <2>3, <2>4, <2>5
  <1>4. CASE Answer(m) = "ok" /\ m.verb = "POST"
    <2>1. Store(m.name, Fresh(m.name, m.task, TRUE))
      BY <1>4 DEF Perform
    <2> DEFINE fresh == Fresh(m.name, m.task, TRUE)
    <2>2. /\ fresh \in Object /\ fresh.present /\ fresh.own = TRUE /\ fresh.content = m.task
          /\ fresh.port <= rev + 1
      BY <1>1, ObjectShapes
    <2>3. Store(m.name, fresh)
      BY <2>1
    <2> HIDE DEF fresh
    <2>4. ~old.present
      BY <1>4, AnswerCases
    <2>5. QED
      BY <1>2, <1>4, <2>2, <2>3, <2>4
  <1>5. CASE Answer(m) = "ok" /\ m.verb \in {"PUT", "PATCH"}
    <2>1. Store(m.name, Updated(m))
      BY <1>5 DEF Perform
    <2> DEFINE updated == Updated(m)
    <2>2. /\ updated \in Object /\ updated.present = old.present /\ updated.port <= rev + 1
          /\ m.op = "apply" => updated.own /\ updated.content = m.task
          /\ m.op \in {"scale", "restart"} => updated.patched = m.task
      BY <1>5, UpdatedShape
    <2>3. Store(m.name, updated)
      BY <2>1
    <2> HIDE DEF updated
    <2>4. old.present /\ VersionMatches(m)
      BY <1>5, AnswerCases
    <2>5. new = updated
      BY <1>2, <2>2, <2>3
    <2>6. QED
      BY <1>2, <1>5, <2>2, <2>3, <2>4, <2>5 DEF updated
  <1>6. CASE Answer(m) = "ok" /\ m.verb = "DELETE"
    <2>1. Erase(m.name)
      BY <1>6 DEF Perform
    <2>2. QED
      BY <1>1, <1>6, <2>1, EraseShape
  <1>7. QED
    BY <1>1, <1>3, <1>4, <1>5, <1>6

-----------------------------------------------------------------------------
(* Where an attempt is after a step.                                       *)

LEMMA IdleShape ==
    ASSUME StepOK, NEW result \in {"success", "retry", "failed"}, Finish(result),
           op # "none", tasks # 0, rev' \in Nat
    PROVE  StepOK' /\ pc' = "idle" /\ outcome' = result /\ tasks' = tasks /\ op' = op
  <1> USE DEF StepOK, StepTypes
  <1>1. /\ outcome' = result /\ pc' = "idle" /\ name' = "none" /\ todo' = <<>> /\ kind' = 0
        /\ batch' = {} /\ attempt' = 0 /\ seen' = Nothing /\ got' = Nothing
        /\ tasks' = tasks /\ op' = op
    BY DEF Finish, At
  <1>2. Nothing \in Allocations /\ Nothing.port = 0
    BY DEF Nothing, Allocations
  <1>3. StepTypes'
    <2>1. <<>> \in Seq(Objects)
      OBVIOUS
    <2>2. QED
      BY <1>1, <1>2, <2>1
  <1>4. Control'
    BY <1>1 DEF Control
  <1>5. seen'.port <= rev' /\ got'.port <= rev'
    BY <1>1, <1>2
  <1>6. QED
    BY <1>1, <1>3, <1>4, <1>5

\* A step that leaves the task, its type and its verdict alone.
LEMMA StepShape ==
    ASSUME StepOK, pc # "idle", UNCHANGED taskVars, rev \in Nat, rev' \in Nat, rev <= rev',
           pc' \in {"get", "create", "read", "write", "resolve", "list", "delete"},
           todo' \in Seq(Objects), name' \in Objects \union {"none"}, kind' \in 0..4,
           batch' \subseteq Objects, attempt' \in 0..2,
           seen' \in Allocations, seen'.port <= rev', got' \in Allocations, got'.port <= rev',
           pc' \in {"get", "create"} => op = "apply",
           pc' \in {"read", "write"} => op # "delete",
           pc' = "resolve" => op \in {"scale", "restart"},
           pc' \in {"list", "delete"} => op = "delete" /\ kind' # 0,
           pc' \in {"get", "create", "read", "write", "delete"} => name' \in Objects,
           op = "apply" => todo' # <<>> /\ name' = Head(todo'),
           pc' \in {"read", "write"} /\ op # "apply" => name' \in Deployments,
           pc' = "delete" => name' \in batch'
    PROVE  StepOK' /\ pc' # "idle" /\ tasks' = tasks /\ op' = op /\ outcome' = "none"
  <1>1. /\ tasks' = tasks /\ op' = op /\ outcome' = outcome /\ outcome = "none"
        /\ op # "none" /\ tasks # 0
    BY DEF taskVars, StepOK, Control
  <1>2. StepTypes'
    BY <1>1 DEF StepOK, StepTypes
  <1>3. Control'
    BY <1>1 DEF StepOK, Control
  <1>4. QED
    BY <1>1, <1>2, <1>3 DEF StepOK

LEMMA NextManifestShape ==
    ASSUME ServerOK, StepOK, pc # "idle", op = "apply", NextManifest, rev' \in Nat, rev <= rev'
    PROVE  /\ StepOK'
           /\ tasks' = tasks /\ op' = op
           /\ Len(todo) \in Nat \ {0} /\ name = todo[1]
           /\ IF Len(todo) = 1 THEN pc' = "idle" /\ outcome' = "success"
              ELSE /\ pc' = "get" /\ outcome' = "none" /\ Len(todo') = Len(todo) - 1
                   /\ \A k \in 1..Len(todo') : todo'[k] = todo[k + 1]
  <1>1. todo \in Seq(Objects) /\ todo # <<>> /\ name = Head(todo) /\ op # "none" /\ tasks # 0
    BY DEF StepOK, StepTypes, Control
  <1>2. /\ Len(todo) \in Nat \ {0} /\ Head(todo) = todo[1]
        /\ Tail(todo) \in Seq(Objects) /\ Len(Tail(todo)) = Len(todo) - 1
        /\ \A k \in 1..Len(Tail(todo)) : Tail(todo)[k] = todo[k + 1]
    BY <1>1, HeadTailProperties, EmptySeq
  <1>3. Tail(todo) = <<>> <=> Len(todo) = 1
    <2>1. Tail(todo) = <<>> <=> Len(Tail(todo)) = 0
      BY <1>2, EmptySeq
    <2>2. QED
      BY <1>2, <2>1
  <1>4. CASE Tail(todo) = <<>>
    <2>1. Finish("success")
      BY <1>4 DEF NextManifest
    <2>2. StepOK' /\ pc' = "idle" /\ outcome' = "success" /\ tasks' = tasks /\ op' = op
      BY <1>1, <2>1, IdleShape
    <2>3. QED
      BY <1>1, <1>2, <1>3, <1>4, <2>2
  <1>5. CASE Tail(todo) # <<>>
    <2>1. /\ todo' = Tail(todo) /\ pc' = "get" /\ name' = Head(Tail(todo))
          /\ attempt' = 0 /\ seen' = Nothing /\ got' = Nothing
          /\ UNCHANGED taskVars /\ kind' = kind /\ batch' = batch
      BY <1>5 DEF NextManifest, At
    <2>2. Head(Tail(todo)) \in Objects
      BY <1>2, <1>5, HeadTailProperties
    <2>3. Nothing \in Allocations /\ Nothing.port = 0
      BY DEF Nothing, Allocations
    <2>4. kind \in 0..4 /\ batch \subseteq Objects
      BY DEF StepOK, StepTypes
    <2>5. StepOK' /\ tasks' = tasks /\ op' = op /\ outcome' = "none"
      <3>1. todo' \in Seq(Objects) /\ todo' # <<>> /\ name' = Head(todo') /\ name' \in Objects
        BY <1>2, <1>5, <2>1, <2>2
      <3>2. seen' \in Allocations /\ got' \in Allocations /\ seen'.port <= rev' /\ got'.port <= rev'
        BY <2>1, <2>3
      <3>3. rev \in Nat
        BY DEF ServerOK
      <3>4. QED
        BY <2>1, <2>4, <3>1, <3>2, <3>3, StepShape
    <2>6. QED
      BY <1>1, <1>2, <1>3, <1>5, <2>1, <2>5
  <1>6. QED
    BY <1>4, <1>5

LEMMA GoOnShape ==
    ASSUME ServerOK, StepOK, pc \in {"list", "delete"}, NEW names \in SUBSET Objects, GoOn(names),
           rev' \in Nat, rev <= rev'
    PROVE  /\ StepOK' /\ tasks' = tasks /\ op' = op
           /\ \/ /\ names # {} /\ pc' = "delete" /\ outcome' = "none"
                 /\ batch' = names /\ kind' = kind
              \/ /\ names = {} /\ kind # 4 /\ pc' = "list" /\ outcome' = "none"
                 /\ kind' = kind + 1
              \/ names = {} /\ kind = 4 /\ pc' = "idle" /\ outcome' = "success"
  <1>1. /\ op = "delete" /\ tasks # 0 /\ kind \in 1..4 /\ rev \in Nat
        /\ todo \in Seq(Objects) /\ attempt \in 0..2
        /\ seen \in Allocations /\ got \in Allocations /\ seen.port <= rev /\ got.port <= rev
    BY DEF StepOK, StepTypes, Control, ServerOK
  <1>2. seen.port <= rev' /\ got.port <= rev'
    BY <1>1 DEF Allocations
  <1>3. CASE names # {}
    <2>1. /\ batch' = names /\ pc' = "delete" /\ name' \in names
          /\ UNCHANGED taskVars
          /\ todo' = todo /\ kind' = kind /\ attempt' = attempt /\ seen' = seen /\ got' = got
      BY <1>3 DEF GoOn, At
    <2>2. StepOK' /\ tasks' = tasks /\ op' = op /\ outcome' = "none"
      BY <1>1, <1>2, <2>1, StepShape
    <2>3. QED
      BY <1>3, <2>1, <2>2
  <1>4. CASE names = {} /\ kind = 4
    <2>1. Finish("success")
      BY <1>4, KindsOfObjects DEF GoOn
    <2>2. QED
      BY <1>1, <1>4, <2>1, IdleShape
  <1>5. CASE names = {} /\ kind # 4
    <2>1. /\ batch' = {} /\ pc' = "list" /\ name' = "none" /\ kind' = kind + 1
          /\ UNCHANGED taskVars
          /\ todo' = todo /\ attempt' = attempt /\ seen' = seen /\ got' = got
      BY <1>5, KindsOfObjects DEF GoOn, At
    <2>2. kind' \in 0..4 /\ kind' # 0
      BY <1>1, <1>5, <2>1
    <2>3. StepOK' /\ tasks' = tasks /\ op' = op /\ outcome' = "none"
      BY <1>1, <1>2, <2>1, <2>2, StepShape
    <2>4. QED
      BY <1>5, <2>1, <2>3
  <1>6. QED
    BY <1>3, <1>4, <1>5

-----------------------------------------------------------------------------
(* What a step leaves of what has been done.                               *)

\* A failed attempt claims nothing.
LEMMA FailureClaimsNothing ==
    ASSUME pc' = "idle", outcome' # "success"
    PROVE  Progress'
  BY DEF Progress, AppliedSoFar, DeletedSoFar, ListedAreOwn, SuccessMeansDone

\* Somebody else's changes are noted.
LEMMA ChangesAreNoted ==
    ASSUME StepOK, Progress, UNCHANGED <<taskVars, stepVars, done>>, meddled \subseteq meddled',
           \A o \in Objects : api'[o] = api[o] \/ o \in meddled'
    PROVE  Progress'
  <1> USE DEF taskVars, stepVars
  <1>1. \A o \in Objects : (Applied(o) => Applied(o)') /\ (Deleted(o) => Deleted(o)')
    BY DEF Applied, Deleted
  <1>2. Manifests \in Seq(Objects) /\ Len(Manifests) \in Nat
    BY ClusterAssumption
  <1>3. \A i \in 1..Len(Manifests) : Manifests[i] \in Objects
    BY <1>2
  <1>4. AppliedSoFar'
    BY <1>1, <1>3 DEF Progress, AppliedSoFar, Before
  <1>5. DeletedSoFar'
    <2>1. pc \in {"list", "delete"} => kind \in 1..4
      BY DEF StepOK, StepTypes, Control
    <2>2. pc \in {"list", "delete"} => \A k \in 1..(kind - 1) : Kinds[k] \subseteq Objects
      BY <2>1, KindsOfObjects
    <2>3. pc \in {"list", "delete"} => Kinds[kind] \subseteq Objects
      BY <2>1, KindsOfObjects
    <2>4. QED
      BY <1>1, <2>2, <2>3 DEF Progress, DeletedSoFar
  <1>6. ListedAreOwn'
    BY DEF Progress, ListedAreOwn, StepOK, StepTypes
  <1>7. SuccessMeansDone'
    <2> SUFFICES ASSUME pc = "idle", outcome = "success" PROVE SuccessMeansDone'
      BY DEF SuccessMeansDone
    <2>1. SuccessMeansDone
      BY DEF Progress
    <2>2. op = "apply" => \A i \in 1..Len(Manifests) : Applied(Manifests[i])
      BY <2>1 DEF SuccessMeansDone, Applied
    <2>3. op = "apply" => \A i \in 1..Len(Manifests) : Applied(Manifests[i])'
      BY <1>1, <1>3, <2>2
    <2>4. op \in {"scale", "restart"} =>
               \E d \in done \intersect Deployments :
                   d \in meddled' \/ (api'[d].present /\ api'[d].patched = tasks)
      BY <2>1 DEF SuccessMeansDone, Objects
    <2>5. op = "delete" => \A o \in Objects : Deleted(o)'
      BY <1>1, <2>1 DEF SuccessMeansDone, Deleted
    <2>6. QED
      BY <2>3, <2>4, <2>5 DEF SuccessMeansDone, Applied, Deleted
  <1>8. QED
    BY <1>4, <1>5, <1>6, <1>7 DEF Progress

\* A read changes nothing that has been done.
LEMMA ReadingChangesNothing ==
    ASSUME Progress, pc # "idle", pc' \notin {"idle", "list", "delete"},
           UNCHANGED <<api, done, meddled, tasks, op, todo>>
    PROVE  Progress'
  <1>1. AppliedSoFar'
    BY DEF Progress, AppliedSoFar, Before, Applied
  <1>2. QED
    BY <1>1 DEF Progress, DeletedSoFar, ListedAreOwn, SuccessMeansDone

\* The API server after a step that sends it nothing.
LEMMA NothingSent ==
    ASSUME ServerOK, UNCHANGED <<apiVars, late, done, meddled>>,
           edits' \in 0..MaxEdits, faults' \in 0..MaxFaults
    PROVE  ServerOK' /\ rev' \in Nat /\ rev <= rev' /\ api' = api
  BY DEF ServerOK, apiVars, Bound

\* A request of the attempt, in time.
LEMMA SendShape ==
    ASSUME ServerOK, StepOK, pc \in {"create", "write", "delete"},
           Send(Answer(RequestNow) = "ok")
    PROVE  /\ ServerOK' /\ rev' \in Nat /\ rev <= rev'
           /\ \A o \in Objects : o # name => /\ api'[o] = api[o]
                                             /\ o \in done => o \in done'
                                             /\ o \in meddled => o \in meddled'
           /\ Answer(RequestNow) # "ok" => api' = api /\ done' = done /\ meddled' = meddled
           /\ Answer(RequestNow) = "ok" /\ op = "apply" /\ pc # "delete" =>
                 name \in done' /\ api'[name].present /\ api'[name].own /\ api'[name].content = tasks
           /\ Answer(RequestNow) = "ok" /\ op \in {"scale", "restart"} /\ pc = "write" =>
                 name \in done' /\ api'[name].present /\ api'[name].patched = tasks
           /\ pc = "delete" => ~api'[name].present \/ api'[name].terminating
  <1> DEFINE m == RequestNow
  <1>1. /\ m \in Request /\ Bound(m)
        /\ m.name = name /\ m.task = tasks /\ m.op = op
        /\ pc = "create" => m.verb = "POST"
        /\ pc = "delete" => m.verb = "DELETE"
        /\ pc = "write" => m.verb \in {"PUT", "PATCH"}
    BY RequestShape
  <1>2. /\ Perform(m) /\ UNCHANGED <<late, edits, faults>>
        /\ Answer(m) = "ok" => done' = done \union {name} /\ meddled' = meddled \ {name}
        /\ Answer(m) # "ok" => done' = done /\ meddled' = meddled
    BY DEF Send
  <1> HIDE DEF m
  <1>3. /\ api' \in [Objects -> Object] /\ rev' \in Nat /\ rev <= rev'
        /\ \A o \in Objects : api'[o].port <= rev'
        /\ \A o \in Objects : o # name => api'[o] = api[o]
        /\ Answer(m) # "ok" => api' = api
    BY <1>1, <1>2, PerformShape
  <1>4. /\ Answer(m) = "ok" /\ op = "apply" /\ pc # "delete" =>
               api'[name].present /\ api'[name].own /\ api'[name].content = tasks
        /\ Answer(m) = "ok" /\ op \in {"scale", "restart"} /\ pc = "write" =>
               api'[name].present /\ api'[name].patched = tasks
        /\ pc = "delete" => ~api'[name].present \/ api'[name].terminating
    BY <1>1, <1>2, PerformShape
  <1>5. name \in Objects
    BY DEF StepOK, Control
  <1>6. ServerOK'
    <2>1. \A q \in late : Bound(q)'
      <3> SUFFICES ASSUME NEW q \in late PROVE Bound(q)'
        OBVIOUS
      <3>1. q.read.port \in Nat /\ q.read.port <= rev /\ rev \in Nat
        BY DEF ServerOK, Request, Allocations, Bound
      <3>2. q.read.port <= rev'
        BY <1>3, <3>1
      <3>3. QED
        BY <3>2 DEF ServerOK, Bound
    <2>2. done' \subseteq Objects /\ meddled' \subseteq Objects
      BY <1>2, <1>5 DEF ServerOK
    <2>3. QED
      BY <1>2, <1>3, <2>1, <2>2 DEF ServerOK
  <1>7. QED
    BY <1>2, <1>3, <1>4, <1>5, <1>6 DEF m

-----------------------------------------------------------------------------
(* The steps of an attempt.                                                *)

LEMMA GetKeeps == ClusterInv /\ Get => ClusterInv'
  <1> SUFFICES ASSUME ClusterInv, Get PROVE ClusterInv'
    OBVIOUS
  <1> USE DEF ClusterInv
  <1>1. /\ pc = "get" /\ pc' \in {"read", "create"} /\ name' = name
        /\ seen' = [Nothing EXCEPT !.ip = api[name].ip, !.port = api[name].port]
        /\ UNCHANGED <<apiVars, taskVars, todo, kind, batch, attempt, got, late, done, meddled,
                       edits, faults>>
    BY DEF Get, At, Quiet
  <1>2. ServerOK' /\ rev' \in Nat /\ rev <= rev' /\ api' = api /\ rev \in Nat /\ rev' = rev
    BY <1>1, NothingSent DEF ServerOK, apiVars
  <1>3. /\ op = "apply" /\ name \in Objects /\ todo # <<>> /\ name = Head(todo)
        /\ StepTypes /\ got.port <= rev
    BY <1>1 DEF StepOK, Control
  <1>4. seen' \in Allocations /\ seen'.port <= rev'
    <2>1. api[name].ip \in Nat /\ api[name].port \in Nat /\ api[name].port <= rev
      BY <1>3 DEF ServerOK, Object
    <2>2. seen' = [ver |-> 0, ip |-> api[name].ip, port |-> api[name].port]
      BY <1>1 DEF Nothing
    <2>3. QED
      BY <1>2, <2>1, <2>2 DEF Allocations
  <1>5. StepOK' /\ tasks' = tasks /\ op' = op
    BY <1>1, <1>2, <1>3, <1>4, StepShape DEF StepTypes
  <1>6. Progress'
    BY <1>1, <1>2, <1>5, ReadingChangesNothing
  <1>7. QED
    BY <1>2, <1>5, <1>6

LEMMA ReadKeeps == ClusterInv /\ Read => ClusterInv'
  <1> SUFFICES ASSUME ClusterInv, Read PROVE ClusterInv'
    OBVIOUS
  <1> USE DEF ClusterInv
  <1>1. pc = "read" /\ UNCHANGED <<apiVars, late, done, meddled, edits, faults>>
    BY DEF Read, Quiet
  <1>2. ServerOK' /\ rev' \in Nat /\ rev <= rev' /\ api' = api /\ rev \in Nat /\ rev' = rev
    BY <1>1, NothingSent DEF ServerOK, apiVars
  <1>3. name \in Objects /\ op # "none" /\ op # "delete" /\ tasks # 0 /\ StepTypes /\ Control /\ seen.port <= rev
    BY <1>1 DEF StepOK, Control
  <1>4. CASE api[name].present
    <2>1. /\ got' = AllocationsOf(name) /\ pc' = "write" /\ name' = name
          /\ UNCHANGED <<taskVars, todo, kind, batch, attempt, seen>>
      BY <1>4 DEF Read, At
    <2>2. got' \in Allocations /\ got'.port <= rev'
      <3>1. /\ api[name].ver \in Nat /\ api[name].ip \in Nat /\ api[name].port \in Nat
            /\ api[name].port <= rev
        BY <1>3 DEF ServerOK, Object
      <3>2. QED
        BY <1>2, <2>1, <3>1 DEF AllocationsOf, Allocations
    <2>3. StepOK' /\ tasks' = tasks /\ op' = op
      BY <1>1, <1>2, <1>3, <2>1, <2>2, StepShape DEF StepTypes, Control
    <2>4. Progress'
      BY <1>1, <1>2, <2>1, <2>3, ReadingChangesNothing
    <2>5. QED
      BY <1>2, <2>3, <2>4
  <1>5. CASE ~api[name].present
    <2>1. PICK result \in {"retry", "failed"} : Finish(result)
      BY <1>5 DEF Read
    <2>2. StepOK' /\ pc' = "idle" /\ outcome' = result
      BY <1>2, <1>3, <2>1, IdleShape
    <2>3. QED
      BY <1>2, <2>2, FailureClaimsNothing
  <1>6. QED
    BY <1>4, <1>5

LEMMA ResolveKeeps == ClusterInv /\ Resolve => ClusterInv'
  <1> SUFFICES ASSUME ClusterInv, Resolve PROVE ClusterInv'
    OBVIOUS
  <1> USE DEF ClusterInv
  <1>1. pc = "resolve" /\ UNCHANGED <<apiVars, late, done, meddled, edits, faults>>
    BY DEF Resolve, Quiet
  <1>2. ServerOK' /\ rev' \in Nat /\ rev <= rev' /\ api' = api /\ rev \in Nat /\ rev' = rev
    BY <1>1, NothingSent DEF ServerOK, apiVars
  <1>3. /\ op \in {"scale", "restart"} /\ tasks # 0 /\ StepTypes
        /\ seen.port <= rev /\ got.port <= rev
    BY <1>1 DEF StepOK, Control
  <1>4. CASE Finish("failed")
    <2>1. StepOK' /\ pc' = "idle" /\ outcome' = "failed"
      BY <1>2, <1>3, <1>4, IdleShape
    <2>2. QED
      BY <1>2, <2>1, FailureClaimsNothing
  <1>5. CASE ~Finish("failed")
    <2>1. /\ pc' = "read" /\ name' \in Deployments
          /\ UNCHANGED <<taskVars, todo, kind, batch, attempt, seen, got>>
      BY <1>5 DEF Resolve, At, Labelled
    <2>2. name' \in Objects
      BY <2>1 DEF Objects
    <2>3. StepOK' /\ tasks' = tasks /\ op' = op
      BY <1>1, <1>2, <1>3, <2>1, <2>2, StepShape DEF StepTypes
    <2>4. Progress'
      BY <1>1, <1>2, <2>1, <2>3, ReadingChangesNothing
    <2>5. QED
      BY <1>2, <2>3, <2>4
  <1>6. QED
    BY <1>4, <1>5

\* One more manifest has been applied, or the last.
LEMMA ManifestApplied ==
    ASSUME ServerOK, StepOK, Progress, pc # "idle", op = "apply", NextManifest,
           rev' \in Nat, rev <= rev',
           \A o \in Objects : Applied(o) \/ o = name => Applied(o)'
    PROVE  StepOK' /\ Progress'
  <1>1. /\ StepOK' /\ tasks' = tasks /\ op' = op
        /\ Len(todo) \in Nat \ {0} /\ name = todo[1]
        /\ IF Len(todo) = 1 THEN pc' = "idle" /\ outcome' = "success"
           ELSE /\ pc' = "get" /\ outcome' = "none" /\ Len(todo') = Len(todo) - 1
                /\ \A k \in 1..Len(todo') : todo'[k] = todo[k + 1]
    BY NextManifestShape
  <1>2. /\ Len(todo) <= Len(Manifests)
        /\ \A k \in 1..Len(todo) : todo[k] = Manifests[Before + k]
        /\ \A i \in 1..Before : Applied(Manifests[i])
    BY DEF Progress, AppliedSoFar
  <1>3. /\ Len(Manifests) \in Nat /\ Before \in Nat
        /\ \A i \in 1..Len(Manifests) : Manifests[i] \in Objects
    BY <1>1, <1>2, ClusterAssumption DEF Before
  <1>4. Manifests[Before + 1] = name
    BY <1>1, <1>2
  <1>5. \A i \in 1..(Before + 1) : Applied(Manifests[i])'
    <2> SUFFICES ASSUME NEW i \in 1..(Before + 1) PROVE Applied(Manifests[i])'
      OBVIOUS
    <2>1. i \in Nat /\ i >= 1 /\ i <= Before + 1
      BY <1>3
    <2>2. Before + 1 <= Len(Manifests)
      BY <1>1, <1>3 DEF Before
    <2>3. i \in 1..Len(Manifests) /\ (i # Before + 1 => i \in 1..Before)
      BY <1>3, <2>1, <2>2
    <2>4. Manifests[i] \in Objects /\ (Applied(Manifests[i]) \/ Manifests[i] = name)
      BY <1>2, <1>3, <1>4, <2>3
    <2>5. QED
      BY <2>4
  <1>6. CASE Len(todo) = 1
    <2>1. Before + 1 = Len(Manifests)
      BY <1>2, <1>3, <1>6 DEF Before
    <2>2. \A i \in 1..Len(Manifests) : Applied(Manifests[i])'
      BY <1>5, <2>1
    <2>3. SuccessMeansDone'
      BY <1>1, <2>2 DEF SuccessMeansDone, Applied
    <2>4. QED
      BY <1>1, <1>6, <2>3 DEF Progress, AppliedSoFar, DeletedSoFar, ListedAreOwn
  <1>7. CASE Len(todo) # 1
    <2>1. /\ Len(todo') = Len(todo) - 1 /\ Before' = Before + 1 /\ pc' = "get"
          /\ Len(todo') \in Nat
      <3>1. Len(todo') = Len(todo) - 1 /\ pc' = "get"
        BY <1>1, <1>7
      <3>2. Len(todo') \in Nat
        BY <1>1, <1>7, <3>1
      <3>3. Before' = Before + 1
        BY <1>1, <1>3, <3>1 DEF Before
      <3>4. QED
        BY <3>1, <3>2, <3>3
    <2>2. \A k \in 1..Len(todo') : todo'[k] = Manifests[Before' + k]
      <3> SUFFICES ASSUME NEW k \in 1..Len(todo') PROVE todo'[k] = Manifests[Before' + k]
        OBVIOUS
      <3>1. todo'[k] = todo[k + 1] /\ k + 1 \in 1..Len(todo)
        BY <1>1, <1>7, <2>1
      <3>2. todo[k + 1] = Manifests[Before + (k + 1)]
        BY <1>2, <3>1
      <3>3. Before + (k + 1) = Before' + k
        BY <1>3, <2>1
      <3>4. QED
        BY <3>1, <3>2, <3>3
    <2>3. \A i \in 1..Before' : Applied(Manifests[i])'
      BY <1>5, <2>1
    <2>4. AppliedSoFar'
      <3>1. Len(todo') <= Len(Manifests)
        BY <1>1, <1>2, <1>3, <2>1
      <3>2. QED
        BY <2>2, <2>3, <3>1 DEF AppliedSoFar
    <2>5. QED
      BY <1>1, <2>1, <2>4 DEF Progress, DeletedSoFar, ListedAreOwn, SuccessMeansDone
  <1>8. QED
    BY <1>1, <1>6, <1>7

LEMMA PostKeeps == ClusterInv /\ Post => ClusterInv'
  <1> SUFFICES ASSUME ClusterInv, Post PROVE ClusterInv'
    OBVIOUS
  <1> USE DEF ClusterInv
  <1>1. pc = "create" /\ Send(Answer(RequestNow) = "ok")
    BY DEF Post
  <1>2. /\ op = "apply" /\ op # "none" /\ tasks # 0 /\ name \in Objects
    BY <1>1 DEF StepOK, Control
  <1>3. /\ ServerOK' /\ rev' \in Nat /\ rev <= rev'
        /\ \A o \in Objects : o # name => /\ api'[o] = api[o]
                                          /\ o \in done => o \in done'
                                          /\ o \in meddled => o \in meddled'
        /\ Answer(RequestNow) = "ok" =>
               name \in done' /\ api'[name].present /\ api'[name].own /\ api'[name].content = tasks
    BY <1>1, <1>2, SendShape
  <1>4. CASE Answer(RequestNow) = "ok"
    <2>1. NextManifest
      BY <1>4 DEF Post
    <2>2. tasks' = tasks
      BY <1>1, <1>2, <1>3, <2>1, NextManifestShape
    <2>3. \A o \in Objects : Applied(o) \/ o = name => Applied(o)'
      BY <1>3, <1>4, <2>2 DEF Applied
    <2>4. QED
      BY <1>1, <1>2, <1>3, <2>1, <2>3, ManifestApplied
  <1>5. CASE Answer(RequestNow) # "ok"
    <2>1. Finish("failed")
      BY <1>5 DEF Post
    <2>2. StepOK' /\ pc' = "idle" /\ outcome' = "failed"
      BY <1>2, <1>3, <2>1, IdleShape
    <2>3. QED
      BY <1>3, <2>2, FailureClaimsNothing
  <1>6. QED
    BY <1>4, <1>5

LEMMA WriteKeeps == ClusterInv /\ Write => ClusterInv'
  <1> SUFFICES ASSUME ClusterInv, Write PROVE ClusterInv'
    OBVIOUS
  <1> USE DEF ClusterInv
  <1>1. pc = "write" /\ Send(Answer(RequestNow) = "ok")
    BY DEF Write
  <1>2. /\ op \in {"apply", "scale", "restart"} /\ op # "none" /\ tasks # 0 /\ name \in Objects
        /\ op # "apply" => name \in Deployments
        /\ StepTypes /\ Control /\ seen.port <= rev /\ rev \in Nat
    BY <1>1 DEF StepOK, StepTypes, Control, ServerOK
  <1>3. /\ ServerOK' /\ rev' \in Nat /\ rev <= rev'
        /\ \A o \in Objects : o # name => /\ api'[o] = api[o]
                                          /\ o \in done => o \in done'
                                          /\ o \in meddled => o \in meddled'
        /\ Answer(RequestNow) # "ok" => api' = api /\ done' = done /\ meddled' = meddled
        /\ Answer(RequestNow) = "ok" /\ op = "apply" =>
               name \in done' /\ api'[name].present /\ api'[name].own /\ api'[name].content = tasks
        /\ Answer(RequestNow) = "ok" /\ op \in {"scale", "restart"} =>
               name \in done' /\ api'[name].present /\ api'[name].patched = tasks
    BY <1>1, SendShape
  <1>4. Answer(RequestNow) \in {"ok", "conflict", "notfound", "invalid"}
    <2>1. RequestNow \in Request /\ RequestNow.verb \in {"PUT", "PATCH"}
      BY <1>1, RequestShape
    <2>2. QED
      BY <2>1, AnswerCases
  <1>5. CASE Answer(RequestNow) = "ok" /\ op = "apply"
    <2>1. NextManifest
      BY <1>5 DEF Write, WriteDone
    <2>2. tasks' = tasks
      BY <1>1, <1>3, <1>5, <2>1, NextManifestShape
    <2>3. \A o \in Objects : Applied(o) \/ o = name => Applied(o)'
      BY <1>3, <1>5, <2>2 DEF Applied
    <2>4. QED
      BY <1>1, <1>3, <1>5, <2>1, <2>3, ManifestApplied
  <1>6. CASE Answer(RequestNow) = "ok" /\ op # "apply"
    <2>1. Finish("success")
      BY <1>6 DEF Write, WriteDone
    <2>2. StepOK' /\ pc' = "idle" /\ outcome' = "success" /\ tasks' = tasks /\ op' = op
      BY <1>2, <1>3, <2>1, IdleShape
    <2>3. /\ op' # "apply" /\ op' # "delete"
          /\ name \in done' \intersect Deployments /\ api'[name].present /\ api'[name].patched = tasks'
      BY <1>2, <1>3, <1>6, <2>2
    <2>4. \E d \in done' \intersect Deployments :
             d \in meddled' \/ (api'[d].present /\ api'[d].patched = tasks')
      BY <2>3
    <2>5. SuccessMeansDone'
      BY <2>3, <2>4 DEF SuccessMeansDone
    <2>6. QED
      BY <1>3, <2>2, <2>5 DEF Progress, AppliedSoFar, DeletedSoFar, ListedAreOwn
  <1>7. ASSUME NEW result \in {"retry", "failed"}, Finish(result) PROVE ClusterInv'
    <2>1. StepOK' /\ pc' = "idle" /\ outcome' = result
      BY <1>2, <1>3, <1>7, IdleShape
    <2>2. QED
      BY <1>3, <1>7, <2>1, FailureClaimsNothing
  <1>8. CASE Answer(RequestNow) = "conflict" /\ attempt # 2
    <2>1. /\ attempt' = attempt + 1 /\ pc' = "read" /\ name' = name /\ got' = Nothing
          /\ UNCHANGED <<taskVars, todo, kind, batch, seen>>
      BY <1>8 DEF Write, Conflict, At
    <2>2. Nothing \in Allocations /\ Nothing.port = 0 /\ seen.port \in Nat
      BY <1>2 DEF Nothing, Allocations, StepTypes
    <2>3. attempt' \in 0..2 /\ seen'.port <= rev' /\ got'.port <= rev'
      BY <1>2, <1>3, <1>8, <2>1, <2>2 DEF StepTypes
    <2>4. StepOK' /\ tasks' = tasks /\ op' = op
      BY <1>1, <1>2, <1>3, <2>1, <2>2, <2>3, StepShape DEF StepTypes, Control
    <2>5. Progress'
      BY <1>1, <1>3, <1>8, <2>1, <2>4, ReadingChangesNothing
    <2>6. QED
      BY <1>3, <2>4, <2>5
  <1>9. CASE Answer(RequestNow) = "conflict" /\ attempt = 2
    <2>1. Finish("retry")
      BY <1>9 DEF Write, Conflict
    <2>2. QED
      BY <1>7, <2>1
  <1>10. CASE Answer(RequestNow) \in {"notfound", "invalid"}
    <2>1. Finish("failed")
      BY <1>10 DEF Write
    <2>2. QED
      BY <1>7, <2>1
  <1>11. QED
    BY <1>4, <1>5, <1>6, <1>8, <1>9, <1>10

\* A delete goes on to the names left, the next kind, or its end.
LEMMA DeletionGoesOn ==
    ASSUME ServerOK, StepOK, pc \in {"list", "delete"}, NEW names \in SUBSET Objects, GoOn(names),
           rev' \in Nat, rev <= rev',
           \A k \in 1..(kind - 1) : \A o \in Kinds[k] : Deleted(o)',
           \A o \in Kinds[kind] : o \in names \/ Deleted(o)',
           \A o \in names : o \in meddled' \/ api'[o].own
    PROVE  StepOK' /\ Progress'
  <1>1. /\ StepOK' /\ tasks' = tasks /\ op' = op
        /\ \/ /\ names # {} /\ pc' = "delete" /\ outcome' = "none"
              /\ batch' = names /\ kind' = kind
           \/ /\ names = {} /\ kind # 4 /\ pc' = "list" /\ outcome' = "none"
              /\ kind' = kind + 1
           \/ names = {} /\ kind = 4 /\ pc' = "idle" /\ outcome' = "success"
    BY GoOnShape
  <1>2. op = "delete" /\ kind \in 1..4
    BY DEF StepOK, StepTypes, Control
  <1>3. AppliedSoFar'
    BY <1>1, <1>2 DEF AppliedSoFar
  <1>4. ListedAreOwn'
    BY <1>1 DEF ListedAreOwn
  <1>5. DeletedSoFar' /\ SuccessMeansDone'
    <2>1. CASE names # {}
      <3>1. pc' = "delete" /\ kind' = kind /\ batch' = names
        BY <1>1, <2>1
      <3>2. /\ \A k \in 1..(kind' - 1) : \A o \in Kinds[k] : Deleted(o)'
            /\ \A o \in Kinds[kind'] \ batch' : Deleted(o)'
        BY <3>1
      <3>3. QED
        BY <3>1, <3>2 DEF DeletedSoFar, SuccessMeansDone
    <2>2. ASSUME names = {} PROVE \A k \in 1..kind : \A o \in Kinds[k] : Deleted(o)'
      <3> SUFFICES ASSUME NEW k \in 1..kind, NEW o \in Kinds[k] PROVE Deleted(o)'
        OBVIOUS
      <3>1. k = kind \/ k \in 1..(kind - 1)
        BY <1>2
      <3>2. QED
        BY <2>2, <3>1
    <2>3. CASE names = {} /\ kind # 4
      <3>1. pc' = "list" /\ kind' - 1 = kind
        BY <1>1, <1>2, <2>3
      <3>2. \A k \in 1..(kind' - 1) : \A o \in Kinds[k] : Deleted(o)'
        BY <2>2, <2>3, <3>1
      <3>3. QED
        BY <3>1, <3>2 DEF DeletedSoFar, SuccessMeansDone
    <2>4. CASE names = {} /\ kind = 4
      <3>1. pc' = "idle" /\ op' = "delete"
        BY <1>1, <1>2, <2>4
      <3>2. \A o \in Objects : Deleted(o)'
        BY <2>2, <2>4, KindsOfObjects
      <3>3. QED
        BY <3>1, <3>2 DEF DeletedSoFar, SuccessMeansDone, Deleted
    <2>5. QED
      BY <2>1, <2>3, <2>4
  <1>6. QED
    BY <1>1, <1>3, <1>4, <1>5 DEF Progress

LEMMA ListKeeps == ClusterInv /\ List => ClusterInv'
  <1> SUFFICES ASSUME ClusterInv, List PROVE ClusterInv'
    OBVIOUS
  <1> USE DEF ClusterInv
  <1> DEFINE names == Labelled(Kinds[kind])
  <1>1. /\ pc = "list" /\ GoOn(names)
        /\ UNCHANGED <<apiVars, late, done, meddled, edits, faults>>
    BY DEF List, Quiet
  <1>2. ServerOK' /\ rev' \in Nat /\ rev <= rev' /\ api' = api
    BY <1>1, NothingSent DEF ServerOK
  <1>3. kind \in 1..4 /\ Kinds[kind] \subseteq Objects
    BY <1>1, KindsOfObjects DEF StepOK, StepTypes, Control
  <1>4. /\ names \subseteq Objects
        /\ \A o \in names : api'[o].own
        /\ \A o \in Kinds[kind] : o \in names \/ Deleted(o)'
    BY <1>2, <1>3 DEF Labelled, Deleted
  <1> HIDE DEF names
  <1>5. \A k \in 1..(kind - 1) : \A o \in Kinds[k] : Deleted(o)'
    BY <1>1, <1>2 DEF Progress, DeletedSoFar, Deleted
  <1>6. QED
    BY <1>1, <1>2, <1>4, <1>5, DeletionGoesOn

LEMMA DeleteKeeps == ClusterInv /\ Delete => ClusterInv'
  <1> SUFFICES ASSUME ClusterInv, Delete PROVE ClusterInv'
    OBVIOUS
  <1> USE DEF ClusterInv
  <1> DEFINE names == batch \ {name}
  <1>1. pc = "delete" /\ Send(Answer(RequestNow) = "ok") /\ GoOn(names)
    BY DEF Delete
  <1>2. /\ ServerOK' /\ rev' \in Nat /\ rev <= rev'
        /\ \A o \in Objects : o # name => /\ api'[o] = api[o]
                                          /\ o \in meddled => o \in meddled'
        /\ ~api'[name].present \/ api'[name].terminating
    BY <1>1, SendShape
  <1>3. names \subseteq Objects /\ kind \in 1..4 /\ Kinds[kind] \subseteq Objects
    BY <1>1, KindsOfObjects DEF StepOK, StepTypes, Control
  <1>4. \A o \in Objects : Deleted(o) \/ o = name => Deleted(o)'
    BY <1>2 DEF Deleted
  <1>5. \A k \in 1..(kind - 1) : \A o \in Kinds[k] : Deleted(o)'
    <2>1. \A k \in 1..(kind - 1) : Kinds[k] \subseteq Objects
      BY <1>3, KindsOfObjects
    <2>2. QED
      BY <1>1, <1>4, <2>1 DEF Progress, DeletedSoFar
  <1>6. \A o \in Kinds[kind] : o \in names \/ Deleted(o)'
    BY <1>1, <1>3, <1>4 DEF Progress, DeletedSoFar
  <1>7. \A o \in names : o \in meddled' \/ api'[o].own
    BY <1>1, <1>2, <1>3 DEF Progress, ListedAreOwn
  <1> HIDE DEF names
  <1>8. QED
    BY <1>1, <1>2, <1>3, <1>5, <1>6, <1>7, DeletionGoesOn

\* An attempt starts at its first request.
LEMMA StartKeeps ==
    ASSUME ClusterInv, NEW o \in Operations, Start(o), tasks' \in 0..MaxTasks, tasks' # 0
    PROVE  ClusterInv'
  <1> USE DEF ClusterInv
  <1>1. /\ outcome' = "none" /\ op' = o /\ done' = {} /\ meddled' = {}
        /\ todo' = IF o = "apply" THEN Manifests ELSE <<>>
        /\ kind' = IF o = "delete" THEN 1 ELSE 0
        /\ UNCHANGED <<apiVars, batch, attempt, seen, got, late, edits, faults>>
    BY DEF Start
  <1>2. /\ Manifests \in Seq(Objects) /\ Manifests # <<>> /\ Len(Manifests) \in Nat
        /\ Head(Manifests) \in Objects
    BY ClusterAssumption, HeadTailProperties
  <1>3. \/ o = "apply" /\ pc' = "get" /\ name' = Head(Manifests)
        \/ o = "delete" /\ pc' = "list" /\ name' = "none"
        \/ o \in {"scale", "restart"} /\ pc' = "resolve" /\ name' = "none"
        \/ o \in {"scale", "restart"} /\ pc' = "read" /\ name' \in Deployments
    BY DEF Start, At
  <1>4. ServerOK'
    BY <1>1 DEF ServerOK, apiVars, Bound
  <1>5. StepTypes'
    <2>1. todo' \in Seq(Objects) /\ kind' \in 0..4 /\ op' \in Operations
      BY <1>1, <1>2
    <2>2. name' \in Objects \union {"none"}
      BY <1>2, <1>3 DEF Objects
    <2>3. pc' \in {"get", "list", "resolve", "read"}
      BY <1>3
    <2>4. QED
      BY <1>1, <2>1, <2>2, <2>3 DEF StepOK, StepTypes, Operations
  <1>6. Control'
    <2>1. name' \in Deployments => name' \in Objects
      BY DEF Objects
    <2>2. op' # "none"
      BY <1>1 DEF Operations
    <2>3. QED
      BY <1>1, <1>2, <1>3, <2>1, <2>2 DEF Control
  <1>7. seen'.port <= rev' /\ got'.port <= rev'
    BY <1>1 DEF StepOK, apiVars
  <1>8. AppliedSoFar'
    <2> SUFFICES ASSUME op' = "apply" PROVE AppliedSoFar'
      BY DEF AppliedSoFar
    <2>1. todo' = Manifests /\ Before' = 0
      BY <1>1, <1>2 DEF Before
    <2>2. QED
      BY <1>2, <2>1 DEF AppliedSoFar
  <1>9. DeletedSoFar'
    BY <1>1, <1>3 DEF DeletedSoFar
  <1>10. ListedAreOwn' /\ SuccessMeansDone'
    BY <1>3 DEF ListedAreOwn, SuccessMeansDone
  <1>11. QED
    BY <1>4, <1>5, <1>6, <1>7, <1>8, <1>9, <1>10 DEF StepOK, Progress

LEMMA BeginKeeps ==
    ASSUME ClusterInv, NEW o \in Operations, Begin(o)
    PROVE  ClusterInv'
  <1>1. Start(o) /\ tasks' \in 0..MaxTasks /\ tasks' # 0
    BY ClusterAssumption DEF Begin, ClusterInv, StepOK, StepTypes
  <1>2. QED
    BY <1>1, StartKeeps

LEMMA RetryKeeps == ClusterInv /\ Retry => ClusterInv'
  <1> SUFFICES ASSUME ClusterInv, Retry PROVE ClusterInv'
    OBVIOUS
  <1>1. op \in Operations /\ Start(op) /\ tasks' \in 0..MaxTasks /\ tasks' # 0
    BY DEF Retry, ClusterInv, StepOK, StepTypes, Control, Operations
  <1>2. QED
    BY <1>1, StartKeeps

LEMMA FailsKeeps == ClusterInv /\ (ReadFails \/ WriteFails) => ClusterInv'
  <1> SUFFICES ASSUME ClusterInv, ReadFails \/ WriteFails PROVE ClusterInv'
    OBVIOUS
  <1> USE DEF ClusterInv
  <1>1. PICK result \in {"retry", "failed"} : Finish(result)
    BY DEF ReadFails, WriteFails
  <1>2. /\ pc # "idle" /\ Faulty /\ UNCHANGED <<apiVars, done, meddled, edits>>
        /\ late' = late \/ (pc \in {"create", "write", "delete"} /\ late' = late \union {RequestNow})
    BY DEF ReadFails, WriteFails
  <1>3. faults' \in 0..MaxFaults
    BY <1>2, ClusterAssumption DEF Faulty, ServerOK
  <1>4. late' \subseteq Request /\ \A m \in late' : Bound(m)
    BY <1>2, RequestShape DEF ServerOK
  <1>5. ServerOK'
    BY <1>2, <1>3, <1>4 DEF ServerOK, apiVars, Bound
  <1>6. op # "none" /\ tasks # 0 /\ rev' \in Nat
    BY <1>2, <1>5 DEF StepOK, Control, ServerOK
  <1>7. StepOK' /\ pc' = "idle" /\ outcome' = result
    BY <1>1, <1>6, IdleShape
  <1>8. QED
    BY <1>5, <1>7, FailureClaimsNothing

-----------------------------------------------------------------------------
(* What happens meanwhile.                                                 *)

\* One object changes, by somebody else or a late request.
LEMMA MeanwhileKeeps ==
    ASSUME ClusterInv, NEW n \in Objects, UNCHANGED <<taskVars, stepVars>>, Meddle(n),
           late' \subseteq late, edits' \in 0..MaxEdits, faults' \in 0..MaxFaults,
           api' \in [Objects -> Object], rev' \in Nat, rev <= rev',
           \A o \in Objects : api'[o].port <= rev',
           \A o \in Objects : o # n => api'[o] = api[o]
    PROVE  ClusterInv'
  <1> USE DEF ClusterInv
  <1>1. rev \in Nat /\ done' = done /\ meddled' = meddled \union {n}
    BY DEF ServerOK, Meddle
  <1>2. \A m \in late' : Bound(m)'
    <2> SUFFICES ASSUME NEW m \in late' PROVE Bound(m)'
      OBVIOUS
    <2>1. m.read.port \in Nat /\ m.read.port <= rev
      BY DEF ServerOK, Request, Allocations, Bound
    <2>2. m.read.port <= rev'
      BY <1>1, <2>1
    <2>3. QED
      BY <2>2 DEF ServerOK, Bound
  <1>3. ServerOK'
    BY <1>1, <1>2 DEF ServerOK
  <1>4. StepOK'
    <2>1. StepTypes' /\ Control'
      BY DEF StepOK, StepTypes, Control, taskVars, stepVars
    <2>2. seen' = seen /\ got' = got /\ seen.port \in Nat /\ got.port \in Nat
      BY DEF stepVars, StepOK, StepTypes, Allocations
    <2>3. seen'.port <= rev' /\ got'.port <= rev'
      BY <1>1, <2>2 DEF StepOK
    <2>4. QED
      BY <2>1, <2>3 DEF StepOK
  <1>5. Progress'
    BY <1>1, ChangesAreNoted
  <1>6. QED
    BY <1>3, <1>4, <1>5

LEMMA DeliverLateKeeps ==
    ASSUME ClusterInv, NEW m \in late, DeliverLate(m)
    PROVE  ClusterInv'
  <1> USE DEF ClusterInv
  <1>1. m \in Request /\ Bound(m) /\ m.name \in Objects
    BY DEF ServerOK, Request
  <1>2. /\ late' \subseteq late /\ Perform(m) /\ Meddle(m.name)
        /\ UNCHANGED <<taskVars, stepVars, edits, faults>>
    BY DEF DeliverLate
  <1>3. /\ api' \in [Objects -> Object] /\ rev' \in Nat /\ rev <= rev'
        /\ \A o \in Objects : api'[o].port <= rev'
        /\ \A o \in Objects : o # m.name => api'[o] = api[o]
    BY <1>1, <1>2, PerformShape
  <1>4. edits' \in 0..MaxEdits /\ faults' \in 0..MaxFaults
    BY <1>2 DEF ServerOK
  <1>5. QED
    BY <1>1, <1>2, <1>3, <1>4, MeanwhileKeeps

LEMMA OthersKeep ==
    ASSUME ClusterInv, NEW n \in Objects, Edit(n) \/ Remove(n) \/ Create(n) \/ Vanish(n)
    PROVE  ClusterInv'
  <1> USE DEF ClusterInv
  <1>1. /\ Meddle(n) /\ UNCHANGED <<taskVars, stepVars, late, faults>>
        /\ edits' = edits \/ (edits < MaxEdits /\ edits' = edits + 1)
    BY DEF Edit, Remove, Create, Vanish, Edited
  <1>2. edits' \in 0..MaxEdits /\ faults' \in 0..MaxFaults
    BY <1>1, ClusterAssumption DEF ServerOK
  <1>3. api[n] \in Object /\ rev \in Nat /\ api[n].port \in Nat /\ api[n].port <= rev
    BY DEF ServerOK, Object
  <1> DEFINE Kept == /\ api' \in [Objects -> Object] /\ rev' \in Nat /\ rev <= rev'
                     /\ \A o \in Objects : api'[o].port <= rev'
                     /\ \A o \in Objects : o # n => api'[o] = api[o]
  <1>4. CASE Edit(n)
    <2>1. PICK content \in {0, api[n].content},
               port \in IF n \in Services THEN {api[n].port, rev + 1} ELSE {0} :
             Store(n, [api[n] EXCEPT !.ver = rev + 1, !.content = content, !.port = port])
      BY <1>4 DEF Edit
    <2> DEFINE object == [api[n] EXCEPT !.ver = rev + 1, !.content = content, !.port = port]
    <2>2. content \in 0..MaxTasks /\ port \in Nat /\ port <= rev + 1 /\ rev + 1 \in Nat
      <3>1. api[n].content \in 0..MaxTasks
        BY <1>3 DEF Object
      <3>2. QED
        BY <1>3, <3>1, ClusterAssumption
    <2>3. object \in Object /\ object.port = port
      BY <1>3, <2>2 DEF Object
    <2>4. Store(n, object)
      BY <2>1
    <2> HIDE DEF object
    <2>5. Kept
      BY <2>2, <2>3, <2>4, StoreShape
    <2>6. QED
      BY <1>1, <1>2, <2>5, MeanwhileKeeps
  <1>5. CASE Remove(n)
    <2>1. Kept
      BY <1>5, EraseShape DEF Remove
    <2>2. QED
      BY <1>1, <1>2, <2>1, MeanwhileKeeps
  <1>6. CASE Create(n)
    <2>1. PICK own \in BOOLEAN : Store(n, Fresh(n, 0, own))
      BY <1>6 DEF Create
    <2> DEFINE object == Fresh(n, 0, own)
    <2>2. object \in Object /\ object.port <= rev + 1
      <3>1. 0 \in 0..MaxTasks
        BY ClusterAssumption
      <3>2. QED
        BY <3>1, ObjectShapes
    <2>3. Store(n, object)
      BY <2>1
    <2> HIDE DEF object
    <2>4. Kept
      BY <2>2, <2>3, StoreShape
    <2>5. QED
      BY <1>1, <1>2, <2>4, MeanwhileKeeps
  <1>7. CASE Vanish(n)
    <2>1. Absent \in Object /\ Absent.port <= rev + 1
      BY <1>3, ObjectShapes
    <2>2. Kept
      BY <1>7, <2>1, StoreShape DEF Vanish
    <2>3. QED
      BY <1>1, <1>2, <2>2, MeanwhileKeeps
  <1>8. QED
    BY <1>4, <1>5, <1>6, <1>7

-----------------------------------------------------------------------------
(* The theorems.                                                           *)

LEMMA InitCluster == Init => ClusterInv
  <1> SUFFICES ASSUME Init PROVE ClusterInv
    OBVIOUS
  <1> USE DEF Init
  <1>1. Absent \in Object /\ Absent.port = 0
    BY ClusterAssumption DEF Absent, Object
  <1>2. ServerOK
    BY <1>1, ClusterAssumption DEF ServerOK, Request
  <1>3. Nothing \in Allocations /\ Nothing.port = 0
    BY DEF Nothing, Allocations
  <1>4. StepTypes
    <2>1. todo \in Seq(Objects)
      OBVIOUS
    <2>2. QED
      BY <1>3, <2>1, ClusterAssumption DEF StepTypes
  <1>5. Control
    BY DEF Control
  <1>6. Progress
    BY DEF Progress, AppliedSoFar, DeletedSoFar, ListedAreOwn, SuccessMeansDone
  <1>7. QED
    BY <1>2, <1>3, <1>4, <1>5, <1>6 DEF ClusterInv, StepOK

LEMMA ClusterStep == ClusterInv /\ [Next]_vars => ClusterInv'
  <1> SUFFICES ASSUME ClusterInv, [Next]_vars PROVE ClusterInv'
    OBVIOUS
  <1>1. ASSUME NEW o \in Operations, Begin(o) PROVE ClusterInv'
    BY <1>1, BeginKeeps
  <1>2. CASE Retry
    BY <1>2, RetryKeeps
  <1>3. CASE Attempt
    BY <1>3, GetKeeps, PostKeeps, ReadKeeps, WriteKeeps, ResolveKeeps, ListKeeps, DeleteKeeps
    DEF Attempt
  <1>4. CASE ReadFails \/ WriteFails
    BY <1>4, FailsKeeps
  <1>5. ASSUME NEW m \in late, DeliverLate(m) PROVE ClusterInv'
    BY <1>5, DeliverLateKeeps
  <1>6. ASSUME NEW o \in Objects, Edit(o) \/ Remove(o) \/ Create(o) \/ Vanish(o) PROVE ClusterInv'
    BY <1>6, OthersKeep
  <1>7. CASE UNCHANGED vars
    <2> USE <1>7 DEF vars, apiVars, taskVars, stepVars
    <2>1. ServerOK'
      BY DEF ClusterInv, ServerOK, Bound
    <2>2. StepOK'
      BY DEF ClusterInv, StepOK, StepTypes, Control
    <2>3. Progress'
      BY DEF ClusterInv, Progress, AppliedSoFar, Before, Applied, DeletedSoFar, Deleted,
             ListedAreOwn, SuccessMeansDone
    <2>4. QED
      BY <2>1, <2>2, <2>3 DEF ClusterInv
  <1>8. QED
    BY <1>1, <1>2, <1>3, <1>4, <1>5, <1>6, <1>7 DEF Next

\* The inductive invariant: what the attempt under way has applied stands, what it has
\* deleted is gone, and no request carries a nodePort that was never allocated.
THEOREM ClusterInvariant == Spec => []ClusterInv
  BY InitCluster, ClusterStep, PTL DEF Spec

\* Types, for any objects, manifests and number of tasks, edits and faults.
THEOREM ClusterTypes == Spec => []TypeOK
  <1>1. ClusterInv => TypeOK
    BY KindsOfObjects DEF ClusterInv, ServerOK, StepOK, StepTypes, TypeOK
  <1>2. QED
    BY <1>1, ClusterInvariant, PTL

\* A task of a cluster agent that reports success has done all of it, whatever other
\* writers, conflicts, lost answers and earlier attempts did (applyRuntime,
\* deleteRuntime, replaceWithResourceVersion, patchWithResourceVersion).
THEOREM SuccessIsDone == Spec => []SuccessMeansDone
  <1>1. ClusterInv => SuccessMeansDone
    BY DEF ClusterInv, Progress
  <1>2. QED
    BY <1>1, ClusterInvariant, PTL

-----------------------------------------------------------------------------
(* Versions and allocations.                                               *)

\* A Service has a clusterIP and a nodePort, which is not older.
Allocated(o, a) == o \in Services => a.ip # 0 /\ a.port # 0 /\ a.ip <= a.port

ObjectsOK == \A o \in Objects : api[o].present => api[o].ver # 0 /\ Allocated(o, api[o])

\* An update names the version it has read, and for a Service the allocations.
Carries(m) == /\ m.verb \in {"PUT", "PATCH"} => m.read.ver # 0
              /\ m.verb = "PUT" => Allocated(m.name, m.read)

\* What the attempt at hand, and those that were given up, have read.
ReadOK == /\ pc = "write" => got.ver # 0
          /\ pc \in {"read", "write"} /\ op = "apply" => Allocated(name, seen)
          /\ \A m \in late : Carries(m)

AllocInv == ClusterInv /\ ObjectsOK /\ ReadOK

LEMMA RequestCarries ==
    ASSUME AllocInv, pc \in {"create", "write", "delete"}
    PROVE  Carries(RequestNow)
  <1> USE DEF AllocInv, ClusterInv
  <1>1. /\ RequestNow.name = name /\ RequestNow.op = op /\ Bound(RequestNow)
        /\ RequestNow.verb \in {"PUT", "PATCH"} => pc = "write"
        /\ RequestNow.verb = "PUT" => op = "apply"
        /\ pc = "write" => RequestNow.read.ver = got.ver
    BY RequestShape DEF Bound
  <1>2. got \in Allocations /\ seen \in Allocations
    BY DEF StepOK, StepTypes
  <1>3. pc = "write" => RequestNow.read = [got EXCEPT !.ip = IpOf, !.port = PortOf]
    BY DEF RequestNow, Body
  <1>4. pc = "write" => RequestNow.read.ip = IpOf /\ RequestNow.read.port = PortOf
    BY <1>2, <1>3 DEF Allocations
  <1>5. pc = "write" /\ op = "apply" => Allocated(name, seen)
    BY DEF ReadOK
  <1>6. pc = "write" /\ op = "apply" /\ name \in Services => IpOf = seen.ip /\ PortOf = seen.port
    BY <1>5 DEF Allocated, IpOf, PortOf
  <1>7. pc = "write" => got.ver # 0
    BY DEF ReadOK
  <1>8. QED
    BY <1>1, <1>4, <1>5, <1>6, <1>7 DEF Carries, Allocated

LEMMA FreshIsAllocated ==
    ASSUME rev \in Nat, NEW o, NEW content, NEW own
    PROVE  Fresh(o, content, own).ver # 0 /\ Allocated(o, Fresh(o, content, own))
  <1>1. rev + 1 # 0 /\ rev + 1 <= rev + 1
    OBVIOUS
  <1>2. /\ Fresh(o, content, own).ver = rev + 1
        /\ o \in Services => /\ Fresh(o, content, own).ip = rev + 1
                             /\ Fresh(o, content, own).port = rev + 1
    BY DEF Fresh, Absent
  <1>3. QED
    BY <1>1, <1>2 DEF Allocated

LEMMA StoreAllocates ==
    ASSUME ServerOK, ObjectsOK, NEW n \in Objects, NEW object, Store(n, object),
           object.present => object.ver # 0 /\ Allocated(n, object)
    PROVE  ObjectsOK'
  BY DEF Store, ServerOK, ObjectsOK, Allocated

\* What an update makes of the object it names.
LEMMA UpdateAllocates ==
    ASSUME ServerOK, ObjectsOK, NEW m \in Request, Bound(m), Carries(m),
           m.verb \in {"PUT", "PATCH"}, Answer(m) = "ok"
    PROVE  LET old == api[m.name]
               new == Updated(m)
           IN /\ old.ver = m.read.ver /\ new.ver # 0 /\ Allocated(m.name, new)
              /\ m.name \in Services => old.ip <= new.port /\ new.port <= rev
  <1> DEFINE old == api[m.name]
             new == Updated(m)
             now == [old EXCEPT !.ver = rev + 1]
  <1>1. /\ old \in Object /\ old.present /\ rev \in Nat /\ old.port <= rev
        /\ m.op \in {"apply", "scale", "restart"} /\ m.read.port <= rev
        /\ m.verb = "PUT" => m.op = "apply"
    BY AnswerCases DEF ServerOK, Request, Bound
  <1>2. old.ver = m.read.ver
    BY AnswerCases DEF VersionMatches, Carries
  <1>3. Allocated(m.name, old)
    BY <1>1 DEF ObjectsOK, Request
  <1>4. m.verb = "PUT" => /\ m.read.ip = old.ip
                          /\ m.name \in Services => m.read.port # 0 /\ m.read.ip <= m.read.port
    <2>1. m.verb = "PUT" => VersionMatches(m)
      BY AnswerCases
    <2>2. m.verb = "PUT" => m.read.ip = old.ip
      BY <2>1 DEF Answer, VersionMatches
    <2>3. QED
      BY <2>2 DEF Carries, Allocated
  <1>5. now.ver = rev + 1 /\ now.ip = old.ip /\ now.port = old.port /\ now \in Object
    BY <1>1 DEF Object
  <1>6. /\ new.ver = now.ver /\ new.ip = now.ip
        /\ new.port = IF m.verb = "PUT" THEN PortAfter(m) ELSE now.port
    <2>1. CASE m.op = "apply" /\ m.verb = "PUT"
      <3>1. new = [now EXCEPT !.own = TRUE, !.content = m.task, !.patched = 0, !.port = PortAfter(m)]
        BY <2>1 DEF Updated
      <3> HIDE DEF new, now
      <3>2. QED
        BY <1>5, <2>1, <3>1 DEF Object
    <2>2. CASE m.op = "apply" /\ m.verb = "PATCH"
      <3>1. new = [now EXCEPT !.own = TRUE, !.content = m.task]
        BY <2>2 DEF Updated
      <3> HIDE DEF new, now
      <3>2. QED
        BY <1>5, <2>2, <3>1 DEF Object
    <2>3. CASE m.op \in {"scale", "restart"}
      <3>1. new = [now EXCEPT !.patched = m.task]
        BY <2>3 DEF Updated
      <3> HIDE DEF new, now
      <3>2. m.verb = "PATCH"
        BY <1>1, <2>3
      <3>3. QED
        BY <1>5, <3>1, <3>2 DEF Object
    <2>4. QED
      BY <1>1, <2>1, <2>2, <2>3
  <1> HIDE DEF now, new, old
  <1>7. m.name \in Services => old.ip <= new.port /\ new.port <= rev /\ new.port # 0
    BY <1>1, <1>3, <1>4, <1>5, <1>6 DEF PortAfter, Allocated
  <1>8. new.ver # 0 /\ Allocated(m.name, new)
    <2>1. new.ip = old.ip /\ new.ver = rev + 1 /\ rev + 1 # 0
      BY <1>1, <1>5, <1>6
    <2>2. QED
      BY <1>3, <1>7, <2>1 DEF Allocated
  <1>9. QED
    BY <1>2, <1>7, <1>8 DEF old, new

LEMMA EraseAllocates ==
    ASSUME ServerOK, ObjectsOK, NEW n \in Objects, Erase(n)
    PROVE  ObjectsOK'
  <1>1. rev \in Nat /\ rev + 1 # 0 /\ api[n] \in Object
    BY DEF ServerOK
  <1>2. CASE Store(n, Absent)
    BY <1>2, StoreAllocates DEF Absent
  <1>3. CASE Store(n, [api[n] EXCEPT !.terminating = TRUE, !.ver = rev + 1])
    <2> DEFINE marked == [api[n] EXCEPT !.terminating = TRUE, !.ver = rev + 1]
    <2>1. /\ marked.present = api[n].present /\ marked.ver = rev + 1
          /\ marked.ip = api[n].ip /\ marked.port = api[n].port
      BY <1>1 DEF Object
    <2>2. Store(n, marked)
      BY <1>3
    <2> HIDE DEF marked
    <2>3. marked.present => marked.ver # 0 /\ Allocated(n, marked)
      BY <1>1, <2>1 DEF ObjectsOK, Allocated
    <2>4. QED
      BY <2>2, <2>3, StoreAllocates
  <1>4. CASE UNCHANGED apiVars
    BY <1>4 DEF apiVars, ObjectsOK, Allocated
  <1>5. QED
    BY <1>2, <1>3, <1>4 DEF Erase

\* Requests by the agent: none but updates change an object that stays, those only in
\* the version they have read, and a Service keeps a nodePort it has had.
LEMMA PerformAllocates ==
    ASSUME ServerOK, ObjectsOK, NEW m \in Request, Bound(m), Carries(m), Perform(m)
    PROVE  /\ ObjectsOK'
           /\ \A o \in Objects : api[o].present /\ api'[o].present =>
                /\ api'[o] # api[o] /\ api'[o].terminating = api[o].terminating
                      => m.name = o /\ m.verb \in {"PUT", "PATCH"} /\ m.read.ver = api[o].ver
                /\ o \in Services => api[o].ip <= api'[o].port /\ api'[o].port <= rev
  <1> DEFINE n == m.name
             Kept(o) == /\ api'[o] # api[o] /\ api'[o].terminating = api[o].terminating
                             => n = o /\ m.verb \in {"PUT", "PATCH"} /\ m.read.ver = api[o].ver
                        /\ o \in Services => api[o].ip <= api'[o].port /\ api'[o].port <= rev
  <1>1. /\ m.verb \in {"POST", "PUT", "PATCH", "DELETE"} /\ n \in Objects /\ rev \in Nat
        /\ api \in [Objects -> Object] /\ \A o \in Objects : api[o].port <= rev
    BY DEF ServerOK, Request
  <1>2. ASSUME NEW o \in Objects, api[o].present, api'[o] = api[o] PROVE Kept(o)
    BY <1>1, <1>2 DEF ObjectsOK, Allocated
  <1>3. \A o \in Objects : o # n => api'[o] = api[o]
    BY PerformShape
  <1>4. ASSUME api[n].present, api'[n].present PROVE Kept(n)
    <2>1. CASE Answer(m) # "ok"
      <3>1. api' = api
        BY <2>1, PerformShape
      <3>2. QED
        BY <1>1, <1>2, <1>4, <3>1
    <2>2. CASE Answer(m) = "ok" /\ m.verb = "POST"
      BY <1>4, <2>2, PerformShape
    <2>3. CASE Answer(m) = "ok" /\ m.verb \in {"PUT", "PATCH"}
      <3>1. api'[n] = Updated(m)
        BY <2>3, PerformShape
      <3>2. api[n].ver = m.read.ver
        BY <2>3, UpdateAllocates
      <3>3. n \in Services => api[n].ip <= Updated(m).port /\ Updated(m).port <= rev
        BY <2>3, UpdateAllocates
      <3>4. QED
        BY <2>3, <3>1, <3>2, <3>3
    <2>4. CASE Answer(m) = "ok" /\ m.verb = "DELETE"
      <3>1. api'[n] = api[n] \/ (api'[n].terminating /\ ~api[n].terminating)
        BY <1>4, <2>4, PerformShape
      <3>2. CASE api'[n] = api[n]
        BY <1>1, <1>2, <1>4, <3>2
      <3>3. CASE api'[n].terminating /\ ~api[n].terminating
        <4>1. Store(n, [api[n] EXCEPT !.terminating = TRUE, !.ver = rev + 1])
          BY <1>1, <1>4, <2>4, <3>3 DEF Perform, Erase, Store, apiVars, Absent
        <4>2. api'[n] = [api[n] EXCEPT !.terminating = TRUE, !.ver = rev + 1]
          BY <1>1, <4>1 DEF Store
        <4>3. api'[n].port = api[n].port
          BY <1>1, <4>2 DEF Object
        <4>4. QED
          BY <1>1, <1>4, <3>3, <4>3 DEF ObjectsOK, Allocated
      <3>4. QED
        BY <3>1, <3>2, <3>3
    <2>5. QED
      BY <1>1, <2>1, <2>2, <2>3, <2>4
  <1>5. ObjectsOK'
    <2>1. CASE Answer(m) # "ok"
      BY <2>1, PerformShape DEF ObjectsOK, Allocated
    <2>2. CASE Answer(m) = "ok" /\ m.verb = "POST"
      <3>1. Store(n, Fresh(n, m.task, TRUE))
        BY <2>2 DEF Perform
      <3>2. QED
        BY <1>1, <3>1, FreshIsAllocated, StoreAllocates
    <2>3. CASE Answer(m) = "ok" /\ m.verb \in {"PUT", "PATCH"}
      <3>1. Store(n, Updated(m))
        BY <2>3 DEF Perform
      <3>2. Updated(m).ver # 0 /\ Allocated(n, Updated(m))
        BY <2>3, UpdateAllocates
      <3>3. QED
        BY <1>1, <3>1, <3>2, StoreAllocates
    <2>4. CASE Answer(m) = "ok" /\ m.verb = "DELETE"
      <3>1. Erase(n)
        BY <2>4 DEF Perform
      <3>2. QED
        BY <1>1, <3>1, EraseAllocates
    <2>5. QED
      BY <1>1, <2>1, <2>2, <2>3, <2>4
  <1>6. QED
    BY <1>2, <1>3, <1>4, <1>5

\* Other writers allocate what they leave without.
LEMMA OthersAllocate ==
    ASSUME AllocInv, NEW n \in Objects, Edit(n) \/ Remove(n) \/ Create(n) \/ Vanish(n)
    PROVE  ObjectsOK'
  <1> USE DEF AllocInv, ClusterInv
  <1>1. rev \in Nat /\ api[n] \in Object /\ api[n].port <= rev
    BY DEF ServerOK
  <1>2. CASE Edit(n)
    <2>1. PICK content \in {0, api[n].content},
               port \in IF n \in Services THEN {api[n].port, rev + 1} ELSE {0} :
             Store(n, [api[n] EXCEPT !.ver = rev + 1, !.content = content, !.port = port])
      BY <1>2 DEF Edit
    <2> DEFINE object == [api[n] EXCEPT !.ver = rev + 1, !.content = content, !.port = port]
    <2>2. object.ver = rev + 1 /\ object.ip = api[n].ip /\ object.port = port
      BY <1>1 DEF Object
    <2>3. n \in Services => port = api[n].port \/ port = rev + 1
      BY <2>1
    <2>4. n \in Services => api[n].ip # 0 /\ api[n].port # 0 /\ api[n].ip <= api[n].port
      BY <1>2 DEF Edit, ObjectsOK, Allocated
    <2>5. n \in Services => api[n].ip <= rev + 1
      BY <1>1, <2>4 DEF Object
    <2>6. rev + 1 # 0
      BY <1>1
    <2>7. Store(n, object)
      BY <2>1
    <2> HIDE DEF object
    <2>8. object.ver # 0 /\ Allocated(n, object)
      BY <2>2, <2>3, <2>4, <2>5, <2>6 DEF Allocated
    <2>9. QED
      BY <2>7, <2>8, StoreAllocates
  <1>3. CASE Remove(n)
    BY <1>3, EraseAllocates DEF Remove
  <1>4. CASE Create(n)
    <2>1. PICK own \in BOOLEAN : Store(n, Fresh(n, 0, own))
      BY <1>4 DEF Create
    <2>2. QED
      BY <1>1, <2>1, FreshIsAllocated, StoreAllocates
  <1>5. CASE Vanish(n)
    BY <1>5, StoreAllocates DEF Vanish, Absent
  <1>6. QED
    BY <1>2, <1>3, <1>4, <1>5

\* The step of an attempt after a read or a request.
LEMMA FinishReadsNothing ==
    ASSUME AllocInv, NEW result, Finish(result), late' \subseteq late PROVE ReadOK'
  BY DEF Finish, At, AllocInv, ReadOK, Carries, Allocated

LEMMA AttemptReads == AllocInv /\ Attempt => ReadOK'
  <1> SUFFICES ASSUME AllocInv, Attempt PROVE ReadOK'
    OBVIOUS
  <1> USE DEF AllocInv, ClusterInv
  <1>1. late' = late
    BY DEF Attempt, Get, Post, Read, Write, Resolve, List, Delete, Send, Quiet
  <1>2. \A m \in late' : Carries(m)'
    BY <1>1 DEF ReadOK, Carries, Allocated
  <1>3. ASSUME NEW result, Finish(result) PROVE ReadOK'
    BY <1>1, <1>3, FinishReadsNothing
  <1>4. ASSUME NextManifest PROVE ReadOK'
    BY <1>2, <1>3, <1>4 DEF NextManifest, At, ReadOK
  <1>5. CASE Get
    <2>1. /\ pc' = (IF api[name].present THEN "read" ELSE "create") /\ name' = name
          /\ seen' = [Nothing EXCEPT !.ip = api[name].ip, !.port = api[name].port]
          /\ name \in Objects
      BY <1>5 DEF Get, At, StepOK, Control
    <2>2. seen'.ip = api[name].ip /\ seen'.port = api[name].port
      BY <2>1 DEF Nothing
    <2>3. pc' = "read" => Allocated(name, seen)'
      BY <2>1, <2>2 DEF ObjectsOK, Allocated
    <2>4. QED
      BY <1>2, <2>1, <2>3 DEF ReadOK
  <1>6. CASE Post
    BY <1>3, <1>4, <1>6 DEF Post
  <1>7. CASE Read
    <2>1. CASE api[name].present
      <3>1. /\ pc = "read" /\ name \in Objects /\ got' = AllocationsOf(name)
            /\ pc' = "write" /\ name' = name /\ seen' = seen /\ op' = op
        BY <1>7, <2>1 DEF Read, At, StepOK, Control, taskVars
      <3>2. got'.ver # 0
        BY <2>1, <3>1 DEF AllocationsOf, ObjectsOK
      <3>3. QED
        BY <1>2, <3>1, <3>2 DEF ReadOK, Allocated
    <2>2. CASE ~api[name].present
      BY <1>3, <1>7, <2>2 DEF Read
    <2>3. QED
      BY <2>1, <2>2
  <1>8. CASE Write
    <2>1. pc = "write" /\ (WriteDone \/ Conflict \/ Finish("failed"))
      <3>1. Answer(RequestNow) \in {"ok", "conflict", "notfound", "invalid"}
        <4>1. pc = "write"
          BY <1>8 DEF Write
        <4>2. RequestNow \in Request /\ RequestNow.verb \in {"PUT", "PATCH"}
          BY <4>1, RequestShape
        <4>3. QED
          BY <4>2, AnswerCases
      <3>2. QED
        BY <1>8, <3>1 DEF Write
    <2>2. CASE WriteDone
      BY <1>3, <1>4, <2>2 DEF WriteDone
    <2>3. CASE Conflict
      <3>1. CASE attempt = 2
        BY <1>3, <2>3, <3>1 DEF Conflict
      <3>2. CASE attempt # 2
        <4>1. pc' = "read" /\ name' = name /\ seen' = seen /\ op' = op
          BY <2>3, <3>2 DEF Conflict, At, taskVars
        <4>2. QED
          BY <1>2, <2>1, <4>1 DEF ReadOK, Allocated
      <3>3. QED
        BY <3>1, <3>2
    <2>4. QED
      BY <1>3, <2>1, <2>2, <2>3
  <1>9. CASE Resolve
    <2>1. CASE Finish("failed")
      BY <1>3, <2>1
    <2>2. CASE ~Finish("failed")
      <3>1. pc = "resolve" /\ pc' = "read" /\ op' = op
        BY <1>9, <2>2 DEF Resolve, At, taskVars
      <3>2. op # "apply"
        BY <3>1 DEF StepOK, Control
      <3>3. QED
        BY <1>2, <3>1, <3>2 DEF ReadOK
    <2>3. QED
      BY <2>1, <2>2
  <1>10. CASE List \/ Delete
    <2>1. PICK names : GoOn(names)
      BY <1>10 DEF List, Delete
    <2>2. Finish("success") \/ pc' \in {"delete", "list"}
      BY <2>1 DEF GoOn, At
    <2>3. QED
      BY <1>2, <1>3, <2>2 DEF ReadOK
  <1>11. QED
    BY <1>5, <1>6, <1>7, <1>8, <1>9, <1>10 DEF Attempt

\* Any step of the agent but a new attempt sends its request, a late one, or none.
LEMMA Requests ==
    ASSUME AllocInv, Next, ByAgent
    PROVE  \/ api' = api
           \/ pc \in {"create", "write", "delete"} /\ Perform(RequestNow)
           \/ \E m \in late : m \in late \ late' /\ Perform(m)
           \/ \E n \in Objects : Vanish(n)
  <1>1. CASE Attempt
    BY <1>1 DEF Attempt, Get, Post, Read, Write, Resolve, List, Delete, Send, apiVars
  <1>2. ASSUME NEW m \in late, DeliverLate(m) PROVE m \in late \ late' /\ Perform(m)
    BY <1>2 DEF DeliverLate
  <1>3. ASSUME NEW n \in Objects, Edit(n) \/ Remove(n) \/ Create(n) PROVE FALSE
    <2>1. edits' = edits + 1
      BY <1>3 DEF Edit, Remove, Create, Edited
    <2>2. edits \in Nat
      BY ClusterAssumption DEF AllocInv, ClusterInv, ServerOK
    <2>3. QED
      BY <2>1, <2>2 DEF ByAgent
  <1>4. CASE (\E o \in Operations : Begin(o)) \/ Retry \/ ReadFails \/ WriteFails
    BY <1>4 DEF Begin, Retry, Start, ReadFails, WriteFails, apiVars
  <1>5. QED
    BY <1>1, <1>2, <1>3, <1>4 DEF Next

LEMMA AllocStep == AllocInv /\ [Next]_vars => AllocInv'
  <1> SUFFICES ASSUME AllocInv, [Next]_vars PROVE AllocInv'
    OBVIOUS
  <1> USE DEF AllocInv
  <1>1. ClusterInv'
    BY ClusterStep
  <1>2. ObjectsOK /\ api' = api => ObjectsOK'
    BY DEF ObjectsOK, Allocated
  <1>3. ObjectsOK'
    <2>1. CASE pc \in {"create", "write", "delete"} /\ Perform(RequestNow)
      BY <2>1, RequestShape, RequestCarries, PerformAllocates DEF ClusterInv
    <2>2. ASSUME NEW m \in late, Perform(m) PROVE ObjectsOK'
      <3>1. m \in Request /\ Bound(m) /\ Carries(m)
        BY DEF ClusterInv, ServerOK, ReadOK
      <3>2. QED
        BY <2>2, <3>1, PerformAllocates DEF ClusterInv
    <2>3. ASSUME NEW n \in Objects, Edit(n) \/ Remove(n) \/ Create(n) \/ Vanish(n) PROVE ObjectsOK'
      BY <2>3, OthersAllocate
    <2>4. CASE Next /\ ByAgent
      BY <1>2, <2>1, <2>2, <2>3, <2>4, Requests
    <2>5. CASE Next /\ ~ByAgent
      <3>1. \E n \in Objects : Edit(n) \/ Remove(n) \/ Create(n)
        BY <2>5 DEF Next, ByAgent, Begin, Retry, Start, Attempt, Get, Post, Read, Write, Resolve,
                    List, Delete, Send, Quiet, ReadFails, WriteFails, DeliverLate, Vanish
      <3>2. QED
        BY <2>3, <3>1
    <2>6. CASE UNCHANGED vars
      BY <1>2, <2>6 DEF vars, apiVars
    <2>7. QED
      BY <2>4, <2>5, <2>6
  <1>4. ReadOK'
    <2>1. ASSUME UNCHANGED <<taskVars, stepVars>>, late' \subseteq late PROVE ReadOK'
      BY <2>1 DEF taskVars, stepVars, ReadOK, Carries, Allocated
    <2>2. CASE (\E o \in Operations : Begin(o)) \/ Retry
      <3>1. PICK o : Start(o)
        BY <2>2 DEF Begin, Retry
      <3>2. late' = late /\ op' = o /\ (pc' \in {"read", "write"} => op' # "apply")
            /\ pc' # "write"
        BY <3>1 DEF Start, At
      <3>3. QED
        BY <3>2 DEF ReadOK, Carries, Allocated
    <2>3. CASE ReadFails \/ WriteFails
      <3>1. PICK result \in {"retry", "failed"} : Finish(result)
        BY <2>3 DEF ReadFails, WriteFails
      <3>2. \A m \in late' : Carries(m)
        BY <2>3, RequestCarries DEF ReadFails, WriteFails, ReadOK
      <3>3. QED
        BY <3>1, <3>2 DEF Finish, At, ReadOK, Carries, Allocated
    <2>4. CASE Attempt
      BY <2>4, AttemptReads
    <2>5. ASSUME NEW m \in late, DeliverLate(m) PROVE ReadOK'
      BY <2>1, <2>5 DEF DeliverLate
    <2>6. ASSUME NEW n \in Objects, Edit(n) \/ Remove(n) \/ Create(n) \/ Vanish(n) PROVE ReadOK'
      BY <2>1, <2>6 DEF Edit, Remove, Create, Vanish, Edited
    <2>7. CASE UNCHANGED vars
      BY <2>1, <2>7 DEF vars
    <2>8. QED
      BY <2>2, <2>3, <2>4, <2>5, <2>6, <2>7 DEF Next
  <1>5. QED
    BY <1>1, <1>3, <1>4

\* Every Service of the API server has allocations, and every update that the agent
\* has made or still has in the network carries a version and those it has read.
THEOREM AllocationsCarried == Spec => []AllocInv
  <1>1. Init => AllocInv
    <2>1. Init => ObjectsOK /\ ReadOK
      BY DEF Init, ObjectsOK, ReadOK, Absent
    <2>2. QED
      BY <2>1, InitCluster DEF AllocInv
  <1>2. QED
    BY <1>1, AllocStep, PTL DEF Spec

\* The agent overwrites no change it has not read, in time or late, and a Service stays
\* at a nodePort that was allocated to it, not to one of its name before it
\* (preserveServiceAllocations, replaceWithResourceVersion, patchWithResourceVersion).
THEOREM EditsSeen == Spec => EditsAreSeen
  <1> DEFINE Seen == ByAgent => \A o \in Objects :
                 api[o].present /\ api'[o].present =>
                    /\ api'[o] # api[o] /\ api'[o].terminating = api[o].terminating
                          => VersionWasRead(o)
                    /\ o \in Services => api[o].ip <= api'[o].port /\ api'[o].port <= rev
  <1>1. ASSUME AllocInv, Next PROVE Seen
    <2> USE <1>1 DEF AllocInv, ClusterInv
    <2>1. ASSUME NEW o \in Objects, api[o].present, api'[o] = api[o]
          PROVE  o \in Services => api[o].ip <= api'[o].port /\ api'[o].port <= rev
      BY <2>1 DEF ServerOK, ObjectsOK, Allocated
    <2>2. CASE api' = api
      BY <2>1, <2>2
    <2>3. CASE pc \in {"create", "write", "delete"} /\ Perform(RequestNow)
      <3>1. /\ RequestNow \in Request /\ Bound(RequestNow) /\ RequestNow.name = name
            /\ RequestNow.verb \in {"PUT", "PATCH"} => RequestNow.read.ver = got.ver
        BY <2>3, RequestShape
      <3> DEFINE m == RequestNow
      <3>2. /\ m \in Request /\ Bound(m) /\ Carries(m) /\ Perform(m) /\ m.name = name
            /\ m.verb \in {"PUT", "PATCH"} => m.read.ver = got.ver
        BY <2>3, <3>1, RequestCarries
      <3> HIDE DEF m
      <3>3. QED
        BY <3>2, PerformAllocates DEF VersionWasRead
    <2>4. ASSUME NEW m \in late, m \in late \ late', Perform(m) PROVE Seen
      <3>1. m \in Request /\ Bound(m) /\ Carries(m)
        BY DEF ServerOK, ReadOK
      <3>2. QED
        BY <2>4, <3>1, PerformAllocates DEF VersionWasRead
    <2>5. ASSUME NEW n \in Objects, Vanish(n) PROVE Seen
      <3>1. Store(n, Absent) /\ ~Absent.present
        BY <2>5 DEF Vanish, Absent
      <3>2. ~api'[n].present /\ \A o \in Objects : o # n => api'[o] = api[o]
        BY <3>1 DEF Store, ServerOK
      <3>3. QED
        BY <2>1, <3>2
    <2>6. QED
      BY <1>1, <2>2, <2>3, <2>4, <2>5, Requests
  <1>2. AllocInv /\ [Next]_vars => [Seen]_vars
    BY <1>1
  <1>3. QED
    BY <1>2, AllocationsCarried, PTL DEF Spec, EditsAreSeen

\* A delete takes only what it has listed as its own, or what somebody put in its place
\* since (deleteRuntime).
THEOREM OthersSpared == Spec => OthersAreSpared
  <1> DEFINE Spared == pc = "delete" /\ ByAgent /\ late' = late => \A o \in Objects \ meddled :
                 api[o].present /\ ~api[o].own /\ ~api[o].terminating => api'[o] = api[o]
  <1>1. ASSUME ClusterInv, Next PROVE Spared
    <2> SUFFICES ASSUME pc = "delete", edits' = edits, late' = late,
                        NEW o \in Objects \ meddled, ~api[o].own, ~api[o].terminating
                 PROVE  api'[o] = api[o]
      BY DEF ByAgent
    <2> USE <1>1 DEF ClusterInv
    <2>1. CASE Delete
      <3>1. /\ RequestNow \in Request /\ Bound(RequestNow) /\ RequestNow.name = name
            /\ Perform(RequestNow)
        BY <2>1, RequestShape DEF Delete, Send
      <3>2. o # name
        BY DEF StepOK, Control, Progress, ListedAreOwn
      <3>3. QED
        BY <3>1, <3>2, PerformShape
    <2>2. CASE ReadFails \/ WriteFails
      BY <2>2 DEF ReadFails, WriteFails, apiVars
    <2>3. ASSUME NEW m \in late, DeliverLate(m) PROVE FALSE
      BY <2>3 DEF DeliverLate
    <2>4. ASSUME NEW n \in Objects, Edit(n) \/ Remove(n) \/ Create(n) PROVE FALSE
      <3>1. edits' = edits + 1
        BY <2>4 DEF Edit, Remove, Create, Edited
      <3>2. edits \in Nat
        BY ClusterAssumption DEF ServerOK
      <3>3. QED
        BY <3>1, <3>2
    <2>5. ASSUME NEW n \in Objects, Vanish(n) PROVE api'[o] = api[o]
      <3>1. o # n /\ Store(n, Absent)
        BY <2>5 DEF Vanish
      <3>2. QED
        BY <3>1 DEF Store, ServerOK
    <2>6. ~(\E p \in Operations : Begin(p)) /\ ~Retry
      BY DEF Begin, Retry, Start
    <2>7. CASE Attempt
      BY <2>1, <2>7 DEF Attempt, Get, Post, Read, Write, Resolve, List
    <2>8. QED
      BY <1>1, <2>2, <2>3, <2>4, <2>5, <2>6, <2>7 DEF Next
  <1>2. ClusterInv /\ [Next]_vars => [Spared]_vars
    BY <1>1
  <1>3. QED
    BY <1>2, ClusterInvariant, PTL DEF Spec, OthersAreSpared
=============================================================================
