---------------------------- MODULE PlanExecution ----------------------------
(***************************************************************************)
(* Plans: the list of actions that the control plane hands to the agent in *)
(* the answer to a heartbeat.  executePlan of internal/agent/runner.go     *)
(* works through it with executeAction (executor.go, host_service.go),     *)
(* posts an event for every action and a completion at the end.  Nothing   *)
(* is kept on disk: any error sends the whole plan back to the next        *)
(* heartbeat, where it starts again from its first action.                 *)
(*                                                                         *)
(* The control plane (not in the repository) answers a heartbeat with the  *)
(* plan until it has received a completion, and marks it completed then.   *)
(***************************************************************************)
EXTENDS Naturals, Sequences, FiniteSets

CONSTANTS MaxActions, \* bound: actions in the plan
          MaxFaults   \* bound: posts without an answer and deaths of the agent

ASSUME PlanAssumption == MaxActions \in Nat /\ MaxFaults \in Nat

\* Action types by what they may do: "inspect" (agent.register, inspect, noop),
\* "preflight" (k3s, hami), "install" (k3s, hami), "update" (agent.update and
\* agent.upgrade), "apply" (k8s.apply-runtime), "show" (host.service.inspect),
\* "service" (the other host.service operations), "ownservice" (stop, restart or
\* disable of the agent's own unit) and "unsupported" (any other type).
Kinds == {"inspect", "preflight", "install", "update", "apply", "show",
          "service", "ownservice", "unsupported"}

VARIABLES
    plan,       \* the plan's actions, by kind
    opted,      \* AllowInstall and not DryRun
    host,       \* the agent runs in host mode
    \* the control plane (external)
    planStatus, \* ready or completed
    announced,  \* the actions it has received an event of
    reported,   \* the actions a completion it has received lists
    \* the heartbeat goroutine
    pc,         \* where executePlan is
    results,    \* the list each action of this attempt was put in
    artifacts,  \* whose results the completion will carry
    restartDue, \* an update has left "sleep 2; systemctl restart" running
    \* the host and the network
    effects,    \* how often each action changed the host or the cluster
    late,       \* posts the agent gave up on that may still be delivered
    faults

planVars   == <<plan, opted, host>>
serverVars == <<planStatus, announced, reported>>
vars == <<planVars, serverVars, pc, results, artifacts, restartDue, effects, late, faults>>

Actions == 1..Len(plan)
Plans == UNION {[1..n -> Kinds] : n \in 0..MaxActions}
\* Results of services and of applied runtimes, by the place of their actions.
Artifacts == [services : Seq(Nat), runtimes : Seq(Nat)]
NoArtifacts == [services |-> <<>>, runtimes |-> <<>>]

Lists == {"completed", "planned", "failed"}

\* An event post names its action, a completion the number of actions it lists.
Posts == [post : {"event", "complete"}, action : 1..MaxActions]

TypeOK ==
    /\ plan \in Seq(Kinds) /\ Len(plan) <= MaxActions
    /\ opted \in BOOLEAN /\ host \in BOOLEAN
    /\ planStatus \in {"ready", "completed"}
    /\ announced \subseteq Actions /\ reported \subseteq Actions
    /\ pc \in {"idle", "started", "execute", "event", "complete"}
    /\ results \in Seq(Lists) /\ Len(results) <= Len(plan)
    /\ artifacts \in Artifacts
    /\ restartDue \in BOOLEAN
    /\ effects \in [Actions -> Nat]
    /\ late \subseteq Posts
    /\ faults \in 0..MaxFaults

Init ==
    /\ plan \in Plans
    /\ opted \in BOOLEAN /\ host \in BOOLEAN
    /\ planStatus = "ready" /\ announced = {} /\ reported = {}
    /\ pc = "idle" /\ results = <<>> /\ artifacts = NoArtifacts
    /\ restartDue = FALSE
    /\ effects = [i \in Actions |-> 0]
    /\ late = {} /\ faults = 0

-----------------------------------------------------------------------------
Faulty == faults < MaxFaults /\ faults' = faults + 1

\* executePlan returns: what it knew of the attempt is gone.
Return == pc' = "idle" /\ results' = <<>> /\ artifacts' = NoArtifacts

Current == Len(results) + 1  \* the action being executed
Done    == Len(results)      \* the action whose event is due

\* The plan arrives in the answer to a heartbeat.
ReceivePlan ==
    /\ pc = "idle"
    /\ planStatus # "completed"
    /\ plan # <<>>
    /\ pc' = "started"
    /\ UNCHANGED <<planVars, serverVars, results, artifacts, restartDue, effects, late, faults>>

\* There is nothing to do: no plan, a completed one, or one without actions (for
\* which "node.plan.noop" is posted).
NothingToDo ==
    /\ pc = "idle"
    /\ planStatus = "completed" \/ plan = <<>>
    /\ UNCHANGED vars

\* "node.plan.started" is posted.
PostStarted ==
    /\ pc = "started"
    /\ pc' = "execute"
    /\ UNCHANGED <<planVars, serverVars, results, artifacts, restartDue, effects, late, faults>>

StartedUnanswered ==
    /\ pc = "started"
    /\ Faulty
    /\ Return
    /\ UNCHANGED <<planVars, serverVars, restartDue, effects, late>>

-----------------------------------------------------------------------------
(* executeAction.                                                          *)

Gated    == {"install", "update", "apply", "service"}
HostOnly == {"show", "service"}

Refused(kind)  == kind \in {"ownservice", "unsupported"} \/ (kind \in HostOnly /\ ~host)

\* The action is carried out and not merely prepared.
Performs(kind) == kind \in Gated /\ opted

\* Mutation of ListOf: a list of its own for what was executed.
ListOfExecuted(kind) == IF Performs(kind) THEN "executed" ELSE "completed"

\* Which list executePlan puts an action in.  An install, an update or an apply
\* that was carried out still has Planned set, so it is listed as planned.
ListOf(kind) == IF kind = "service" /\ opted THEN "completed"
                ELSE IF kind \in Gated THEN "planned" ELSE "completed"

\* Mutation of Collect: the results of a service replace those of another.
CollectLast(kind) ==
    [artifacts EXCEPT !.services = IF kind = "show" \/ (kind = "service" /\ opted)
                                     THEN <<Current>> ELSE @,
                      !.runtimes = IF kind = "apply" /\ opted THEN <<Current>> ELSE @]

\* What an action that has succeeded brings along: a service adds its result to
\* those of others, an applied runtime replaces them.
Collect(kind) ==
    [artifacts EXCEPT !.services = IF kind = "show" \/ (kind = "service" /\ opted)
                                     THEN Append(@, Current) ELSE @,
                      !.runtimes = IF kind = "apply" /\ opted THEN <<Current>> ELSE @]

\* A runtime that could not be applied is added to the results.
CollectFailed(kind) ==
    [artifacts EXCEPT !.runtimes = IF kind = "apply" THEN Append(@, Current) ELSE @]

\* The action succeeds, or is only prepared.
Execute ==
    LET kind == plan[Current] IN
    /\ pc = "execute"
    /\ ~Refused(kind)
    /\ results' = Append(results, ListOf(kind))
    /\ artifacts' = Collect(kind)
    /\ effects' = IF Performs(kind) THEN [effects EXCEPT ![Current] = @ + 1] ELSE effects
    /\ restartDue' \in IF Performs(kind) /\ kind = "update" THEN {TRUE, restartDue}
                       ELSE {restartDue}
    /\ pc' = "event"
    /\ UNCHANGED <<planVars, serverVars, late, faults>>

\* It fails: refused, ill-formed, without the tools it needs, or half-way, when
\* a command or the inspection after it fails.
ExecuteFails ==
    LET kind == plan[Current] IN
    /\ pc = "execute"
    /\ kind # "inspect"
    /\ results' = Append(results, "failed")
    /\ artifacts' = CollectFailed(kind)
    /\ \/ UNCHANGED effects
       \/ Performs(kind) /\ ~Refused(kind) /\ effects' = [effects EXCEPT ![Current] = @ + 1]
    /\ pc' = "event"
    /\ UNCHANGED <<planVars, serverVars, restartDue, late, faults>>

-----------------------------------------------------------------------------
(* Events and the completion.                                              *)

\* The loop ends with the last action or the first failure.
AfterEvent ==
    IF Done = Len(plan) \/ results[Done] = "failed" THEN "complete" ELSE "execute"

\* Mutation of PostEvent: only failures are announced.
PostEventOfFailure ==
    /\ pc = "event"
    /\ announced' = IF results[Done] = "failed" THEN announced \union {Done} ELSE announced
    /\ pc' = AfterEvent
    /\ UNCHANGED <<planVars, planStatus, reported, results, artifacts, restartDue, effects, late, faults>>

PostEvent ==
    /\ pc = "event"
    /\ announced' = announced \union {Done}
    /\ pc' = AfterEvent
    /\ UNCHANGED <<planVars, planStatus, reported, results, artifacts, restartDue, effects, late, faults>>

\* Mutation of EventUnanswered: the error of the post is ignored.
EventUnansweredIgnored ==
    /\ pc = "event"
    /\ Faulty
    /\ pc' = AfterEvent
    /\ UNCHANGED <<planVars, serverVars, results, artifacts, restartDue, effects, late>>

\* Without an answer to the event the attempt ends.
EventUnanswered ==
    /\ pc = "event"
    /\ Faulty
    /\ late' = late \union {[post |-> "event", action |-> Done]}
    /\ Return
    /\ UNCHANGED <<planVars, serverVars, restartDue, effects>>

\* Mutation of PostComplete: the plan keeps its status.
PostCompleteUnsent ==
    /\ pc = "complete"
    /\ Return
    /\ UNCHANGED <<planVars, serverVars, restartDue, effects, late, faults>>

PostComplete ==
    /\ pc = "complete"
    /\ planStatus' = "completed"
    /\ reported' = reported \union 1..Done
    /\ Return
    /\ UNCHANGED <<planVars, announced, restartDue, effects, late, faults>>

CompleteUnanswered ==
    /\ pc = "complete"
    /\ Faulty
    /\ late' = late \union {[post |-> "complete", action |-> Done]}
    /\ Return
    /\ UNCHANGED <<planVars, serverVars, restartDue, effects>>

\* A post the agent gave up on reaches the control plane.
DeliverLate(m) ==
    /\ late' = late \ {m}
    /\ IF m.post = "event"
         THEN announced' = announced \union {m.action} /\ UNCHANGED <<planStatus, reported>>
         ELSE /\ planStatus' = "completed"
              /\ reported' = reported \union 1..m.action
              /\ UNCHANGED announced
    /\ UNCHANGED <<planVars, pc, results, artifacts, restartDue, effects, faults>>

-----------------------------------------------------------------------------
\* The agent is killed or stopped and started again.
Crash ==
    /\ pc # "idle"
    /\ Faulty
    /\ Return
    /\ restartDue' \in {restartDue, FALSE}
    /\ UNCHANGED <<planVars, serverVars, effects, late>>

\* The restart an update has scheduled: harmless between two plans, a fault when
\* the posts of the plan have taken longer than its two seconds.
ScheduledRestart ==
    /\ restartDue
    /\ IF pc = "idle" THEN UNCHANGED faults ELSE Faulty
    /\ restartDue' = FALSE
    /\ Return
    /\ UNCHANGED <<planVars, serverVars, effects, late>>

Step ==
    \/ ReceivePlan \/ PostStarted
    \/ Execute \/ ExecuteFails
    \/ PostEvent \/ PostComplete

Fault ==
    \/ StartedUnanswered \/ EventUnanswered \/ CompleteUnanswered
    \/ Crash \/ ScheduledRestart

Next == Step \/ Fault \/ NothingToDo \/ \E m \in late : DeliverLate(m)

Spec == Init /\ [][Next]_vars

\* runShellCommand and runCommandWithEnv have no time-out, and no context but the
\* agent's: an install, an update or a kubectl apply may run for ever.  (systemctl and
\* the commands of a preflight have a limit.)
Hanging ==
    /\ pc = "execute"
    /\ Performs(plan[Current]) /\ plan[Current] \in {"install", "update", "apply"}

\* Heartbeats go on, and so does executePlan, except in a command that may hang.
FairSpec == Spec /\ WF_vars(Step /\ ~Hanging)

-----------------------------------------------------------------------------
(* Properties.                                                             *)

\* "Install execution remains opt-in": whatever was executed, in however many
\* attempts, nothing changed a host that did not opt in, and no service changed
\* outside host mode or by a plan against the agent's own unit.
EffectsOptedIn ==
    \A i \in Actions :
        effects[i] > 0 => opted /\ plan[i] \in Gated /\ (plan[i] = "service" => host)

\* A plan starts over only for a reason: an action is carried out once, and once
\* more for each lost post or death of the agent.
RepeatsArePaidFor == \A i \in Actions : effects[i] <= 1 + faults

\* The completion never runs ahead of the events: the control plane has an event
\* for every action that a completion lists.
ReportedWasAnnounced == reported \subseteq announced

\* Effects the control plane never hears of.  A failure ends the next attempt
\* before it reaches what an earlier attempt has done, so there can be some, but
\* only one for every fault.
Silent == {i \in Actions : effects[i] > 0 /\ i \notin announced}
SilentEffectsArePaidFor ==
    planStatus = "completed" /\ pc = "idle" => Cardinality(Silent) <= faults

\* The completion carries the result of every service that was shown or changed in
\* this attempt, in order; of the runtimes it carries the one that failed and the
\* last that was applied, and the others' are in their events only.
Shown == {i \in 1..Done : plan[i] = "show" \/ (plan[i] = "service" /\ opted)}
Applied == {i \in 1..Done : plan[i] = "apply" /\ opted}
Failed == {i \in 1..Done : results[i] = "failed"}
ResultsAreCarried ==
    /\ {artifacts.services[k] : k \in DOMAIN artifacts.services} = Shown \ Failed
    /\ \A k, l \in DOMAIN artifacts.services : k < l => artifacts.services[k] < artifacts.services[l]
    /\ {artifacts.runtimes[k] : k \in DOMAIN artifacts.runtimes} =
         {i \in Applied \ Failed : \A j \in Applied \ Failed : j <= i}
           \union {i \in Failed : plan[i] = "apply"}

\* A plan is completed once the faults stop, whatever restarts it causes itself, unless
\* a command without a time-out hangs for ever.
PlanCompletes == <>[]Hanging \/ (plan # <<>> ~> planStatus = "completed")
=============================================================================
