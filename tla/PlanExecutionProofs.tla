------------------------ MODULE PlanExecutionProofs ------------------------
(***************************************************************************)
(* What PlanExecution guarantees for a plan of any length and any number   *)
(* of faults.  PlanInv is inductive: it says, for every step of an         *)
(* attempt, what the attempts before it have left behind.                  *)
(***************************************************************************)
EXTENDS PlanExecution, FiniteSetTheorems, TLAPS

\* Where an attempt is determines how far its list has come.
AttemptShape ==
    /\ pc = "idle" => results = <<>>
    /\ pc # "idle" => plan # <<>>
    /\ pc = "started" => results = <<>>
    /\ pc = "execute" => Len(results) < Len(plan)
    /\ pc \in {"event", "complete"} => Len(results) > 0

\* What is still on its way names actions of the plan.
LateShape == \A m \in late : m.action \in Actions

\* The current attempt has spent its one free execution of the actions before
\* Current; a plan still to be completed has paid for all the earlier ones.
Spent(i) ==
    IF pc = "idle" THEN planStatus = "completed" ELSE i <= Len(results)
EffectsBounded ==
    \A i \in Actions : effects[i] <= IF Spent(i) THEN faults + 1 ELSE faults

\* The actions whose event this attempt has posted.
Posted == IF pc = "event" THEN 1..(Len(results) - 1) ELSE 1..Len(results)
AnnouncedInOrder ==
    /\ Posted \subseteq announced
    /\ \A m \in late : m.post = "complete" => 1..m.action \subseteq announced
    /\ reported \subseteq announced

\* What was lost is silent; what is about to be announced is not lost.
Lost == {i \in Actions : /\ effects[i] > 0
                         /\ i \notin announced
                         /\ ~(pc = "event" /\ i = Len(results))}
LostArePaidFor == Cardinality(Lost) <= faults

\* Within one attempt nothing is executed after a failure, and the completion
\* stands for the whole plan or ends with the failure.
FailureIsLast ==
    /\ \A i \in 1..Len(results) : results[i] = "failed" => i = Len(results)
    /\ pc = "execute" /\ results # <<>> => results[Done] # "failed"
    /\ pc = "complete" => Done = Len(plan) \/ results[Done] = "failed"

PlanInv ==
    /\ TypeOK
    /\ AttemptShape
    /\ LateShape
    /\ EffectsBounded
    /\ AnnouncedInOrder
    /\ LostArePaidFor
    /\ EffectsOptedIn
    /\ FailureIsLast
    /\ ResultsAreCarried

-----------------------------------------------------------------------------
(* The parts that hold at the start.                                       *)

LEMMA InitInv == Init => PlanInv
  <1> SUFFICES ASSUME Init PROVE PlanInv
    OBVIOUS
  <1> USE PlanAssumption
  <1>1. plan \in Seq(Kinds) /\ Len(plan) \in Nat /\ Len(plan) <= MaxActions
    <2>1. PICK n \in 0..MaxActions : plan \in [1..n -> Kinds]
      BY DEF Init, Plans
    <2>2. QED
      BY <2>1
  <1>2. opted \in BOOLEAN /\ host \in BOOLEAN
    BY Zenon DEF Init
  <1>3. TypeOK
    <2>1. restartDue \in BOOLEAN
      BY Zenon DEF Init
    <2>2. artifacts \in Artifacts
      BY DEF Init, NoArtifacts, Artifacts
    <2>3. QED
      BY <1>1, <1>2, <2>1, <2>2 DEF Init, TypeOK, Actions, Posts
  <1>4. AttemptShape /\ LateShape /\ EffectsOptedIn /\ FailureIsLast
    BY DEF Init, AttemptShape, LateShape, EffectsOptedIn, FailureIsLast, Actions
  <1>5. EffectsBounded /\ AnnouncedInOrder
    BY DEF Init, EffectsBounded, Spent, AnnouncedInOrder, Posted
  <1>6. LostArePaidFor
    <2>1. Lost = {}
      BY DEF Init, Lost
    <2>2. QED
      BY <2>1, FS_EmptySet DEF Init, LostArePaidFor
  <1>7. ResultsAreCarried
    BY DEF Init, NoArtifacts, ResultsAreCarried, Shown, Applied, Failed, Done
  <1>8. QED
    BY <1>3, <1>4, <1>5, <1>6, <1>7 DEF PlanInv

-----------------------------------------------------------------------------
(* Every step preserves every part.                                        *)

\* The plan and the configuration never change.
LEMMA PlanStays == [Next]_vars => UNCHANGED planVars /\ Actions' = Actions
  <1>1. [Next]_vars => UNCHANGED planVars
    BY Zenon DEF Next, Step, Fault, ReceivePlan, PostStarted, Execute, ExecuteFails,
        PostEvent, PostComplete, StartedUnanswered, EventUnanswered,
        CompleteUnanswered, Crash, ScheduledRestart, NothingToDo, DeliverLate,
        vars, planVars
  <1>2. UNCHANGED planVars => Actions' = Actions
    BY DEF planVars, Actions
  <1>3. QED
    BY <1>1, <1>2

\* Whatever happens to the scheduled restart, it is scheduled or it is not.
LEMMA RestartStep == TypeOK /\ [Next]_vars => restartDue' \in BOOLEAN
  BY Zenon DEF TypeOK, Next, Step, Fault, ReceivePlan, PostStarted, Execute,
      ExecuteFails, PostEvent, PostComplete, StartedUnanswered, EventUnanswered,
      CompleteUnanswered, Crash, ScheduledRestart, NothingToDo, DeliverLate, vars

\* What is collected are the places of actions.
LEMMA ArtifactStep == TypeOK /\ [Next]_vars => artifacts' \in Artifacts
  <1> SUFFICES ASSUME TypeOK, [Next]_vars PROVE artifacts' \in Artifacts
    OBVIOUS
  <1>1. artifacts \in Artifacts /\ Current \in Nat
    BY DEF TypeOK, Current
  <1>2. NoArtifacts \in Artifacts
    BY DEF Artifacts, NoArtifacts
  <1>3. \A kind : Collect(kind) \in Artifacts /\ CollectFailed(kind) \in Artifacts
    <2>1. <<Current>> \in Seq(Nat)
      BY <1>1
    <2>2. /\ artifacts.services \in Seq(Nat) /\ Append(artifacts.services, Current) \in Seq(Nat)
          /\ artifacts.runtimes \in Seq(Nat) /\ Append(artifacts.runtimes, Current) \in Seq(Nat)
      BY <1>1 DEF Artifacts
    <2>3. QED
      BY <1>1, <2>1, <2>2 DEF Artifacts, Collect, CollectFailed
  <1>4. \/ UNCHANGED artifacts \/ artifacts' = NoArtifacts
        \/ \E kind : artifacts' = Collect(kind) \/ artifacts' = CollectFailed(kind)
    BY Zenon DEF Next, Step, Fault, ReceivePlan, PostStarted, Execute, ExecuteFails, PostEvent,
        PostComplete, StartedUnanswered, EventUnanswered, CompleteUnanswered, Crash,
        ScheduledRestart, NothingToDo, DeliverLate, Return, vars
  <1>5. QED
    BY <1>1, <1>2, <1>3, <1>4

\* The action being executed is one of the plan, and its list extends results.
LEMMA CurrentFacts ==
    ASSUME TypeOK, AttemptShape, pc = "execute",
           NEW list \in Lists, results' = Append(results, list)
    PROVE  /\ Current \in Actions
           /\ results' \in Seq(Lists)
           /\ Len(results') = Current
           /\ results'[Current] = list
           /\ \A i \in 1..Len(results) : results'[i] = results[i]
  BY DEF TypeOK, AttemptShape, Current, Actions

\* The list an action goes in is one of the three.
LEMMA ListOfType == \A kind : ListOf(kind) \in Lists
  BY DEF ListOf, Lists

\* Executing an action keeps the types, whatever list it goes in.
LEMMA ExecuteShape ==
    ASSUME TypeOK, AttemptShape, LateShape, [Next]_vars, pc = "execute",
           NEW list \in Lists, results' = Append(results, list), pc' = "event",
           \/ UNCHANGED effects
           \/ effects' = [effects EXCEPT ![Current] = @ + 1],
           UNCHANGED <<serverVars, late, faults>>
    PROVE  TypeOK' /\ AttemptShape' /\ LateShape'
  <1> USE PlanStays, RestartStep, ArtifactStep DEF planVars, serverVars
  <1>1. Current \in Actions /\ results' \in Seq(Lists) /\ Len(results') = Current
    BY CurrentFacts
  <1>2. Len(results') <= Len(plan) /\ Len(results') > 0 /\ plan # <<>>
    BY <1>1 DEF Actions, TypeOK, AttemptShape
  <1>3. effects' \in [Actions -> Nat]
    BY <1>1 DEF TypeOK
  <1>4. opted' \in BOOLEAN /\ host' \in BOOLEAN
    BY Zenon DEF TypeOK
  <1>5. TypeOK'
    BY <1>1, <1>2, <1>3, <1>4 DEF TypeOK, Posts
  <1>6. AttemptShape' /\ LateShape'
    BY <1>1, <1>2 DEF AttemptShape, LateShape
  <1>7. QED
    BY <1>5, <1>6

\* Types, the shape of an attempt and of what is on its way.
LEMMA ShapeStep ==
    TypeOK /\ AttemptShape /\ LateShape /\ [Next]_vars
        => TypeOK' /\ AttemptShape' /\ LateShape'
  <1> SUFFICES ASSUME TypeOK, AttemptShape, LateShape, [Next]_vars
               PROVE  TypeOK' /\ AttemptShape' /\ LateShape'
    OBVIOUS
  <1> USE PlanAssumption DEF planVars, serverVars
  <1>0. /\ UNCHANGED planVars
        /\ Actions' = Actions
        /\ opted' \in BOOLEAN /\ host' \in BOOLEAN /\ restartDue' \in BOOLEAN
        /\ artifacts' \in Artifacts
    BY Zenon, PlanStays, RestartStep, ArtifactStep DEF TypeOK
  <1>1. CASE ReceivePlan
    BY <1>0, <1>1 DEF ReceivePlan, Posts, TypeOK, AttemptShape, LateShape
  <1>2. CASE PostStarted
    <2>1. results' = <<>> /\ Len(results') < Len(plan)
      BY <1>2 DEF PostStarted, TypeOK, AttemptShape
    <2>2. QED
      BY <1>0, <1>2, <2>1 DEF PostStarted, Posts, TypeOK, AttemptShape, LateShape
  <1>3. CASE Execute
    <2>1. PICK kind : results' = Append(results, ListOf(kind))
      BY <1>3 DEF Execute
    <2>2. \/ UNCHANGED effects
          \/ effects' = [effects EXCEPT ![Current] = @ + 1]
      BY <1>3, Zenon DEF Execute
    <2>3. pc = "execute" /\ pc' = "event" /\ UNCHANGED <<serverVars, late, faults>>
      BY <1>3 DEF Execute
    <2>4. QED
      BY <2>1, <2>2, <2>3, ListOfType, ExecuteShape
  <1>4. CASE ExecuteFails
    <2>1. \/ UNCHANGED effects
          \/ effects' = [effects EXCEPT ![Current] = @ + 1]
      BY <1>4, Zenon DEF ExecuteFails
    <2>2. /\ pc = "execute" /\ pc' = "event" /\ UNCHANGED <<serverVars, late, faults>>
          /\ results' = Append(results, "failed") /\ "failed" \in Lists
      BY <1>4 DEF ExecuteFails, Lists
    <2>3. QED
      BY <2>1, <2>2, ExecuteShape
  <1>5. CASE PostEvent
    <2>1. Done \in Actions
      BY <1>5 DEF PostEvent, Done, Actions, TypeOK, AttemptShape
    <2>2. pc' = "execute" => Len(results') < Len(plan)
      BY <1>5, <2>1 DEF PostEvent, AfterEvent, Done, Actions, TypeOK
    <2>3. pc' \in {"execute", "complete"} /\ pc = "event"
      BY <1>5 DEF PostEvent, AfterEvent
    <2>4. QED
      BY <1>0, <1>5, <2>1, <2>2, <2>3
      DEF PostEvent, Posts, TypeOK, AttemptShape, LateShape
  <1>6. CASE PostComplete
    <2>1. 1..Done \subseteq Actions
      BY DEF Done, Actions, TypeOK
    <2>2. reported' \subseteq Actions
      BY <1>6, <2>1 DEF PostComplete, TypeOK
    <2>3. QED
      BY <1>0, <1>6, <2>2
      DEF PostComplete, Return, Posts, TypeOK, AttemptShape, LateShape
  <1>7. CASE StartedUnanswered
    BY <1>0, <1>7
    DEF StartedUnanswered, Return, Faulty, Posts, TypeOK, AttemptShape, LateShape
  <1>8. CASE EventUnanswered \/ CompleteUnanswered
    <2>1. PICK post \in {"event", "complete"} :
             late' = late \union {[post |-> post, action |-> Done]}
      BY <1>8 DEF EventUnanswered, CompleteUnanswered
    <2>2. Done \in Actions /\ Done \in 1..MaxActions
      BY <1>8
      DEF EventUnanswered, CompleteUnanswered, Done, Actions, TypeOK, AttemptShape
    <2>3. late' \subseteq Posts /\ LateShape'
      BY <1>0, <2>1, <2>2 DEF Posts, TypeOK, LateShape
    <2>4. Return /\ Faulty /\ UNCHANGED <<serverVars, effects>>
      BY <1>8 DEF EventUnanswered, CompleteUnanswered
    <2>5. QED
      BY <1>0, <2>3, <2>4 DEF Return, Faulty, TypeOK, AttemptShape
  <1>9. CASE Crash
    BY <1>0, <1>9 DEF Crash, Return, Faulty, Posts, TypeOK, AttemptShape, LateShape
  <1>10. CASE ScheduledRestart
    BY <1>0, <1>10
    DEF ScheduledRestart, Return, Faulty, Posts, TypeOK, AttemptShape, LateShape
  <1>11. CASE NothingToDo
    BY <1>0, <1>11 DEF NothingToDo, vars, Posts, TypeOK, AttemptShape, LateShape
  <1>12. ASSUME NEW m \in late, DeliverLate(m)
         PROVE  TypeOK' /\ AttemptShape' /\ LateShape'
    <2>1. m.action \in Actions /\ 1..m.action \subseteq Actions
      BY DEF LateShape, Actions, TypeOK
    <2>2. QED
      BY <1>0, <1>12, <2>1 DEF DeliverLate, Posts, TypeOK, AttemptShape, LateShape
  <1>13. CASE UNCHANGED vars
    BY <1>0, <1>13 DEF vars, Posts, TypeOK, AttemptShape, LateShape
  <1>14. QED
    BY <1>1, <1>2, <1>3, <1>4, <1>5, <1>6, <1>7, <1>8, <1>9, <1>10, <1>11, <1>12,
       <1>13 DEF Next, Step, Fault

\* A gated action changes the host only where the configuration allows it.
LEMMA OptInStep ==
    TypeOK /\ AttemptShape /\ EffectsOptedIn /\ [Next]_vars => EffectsOptedIn'
  <1> SUFFICES ASSUME TypeOK, AttemptShape, EffectsOptedIn, [Next]_vars,
                      NEW i \in Actions, effects'[i] > 0
               PROVE  opted /\ plan[i] \in Gated /\ (plan[i] = "service" => host)
    BY PlanStays DEF EffectsOptedIn, planVars
  <1>1. CASE effects'[i] = effects[i]
    BY <1>1 DEF EffectsOptedIn
  <1>2. CASE effects'[i] # effects[i]
    <2>1. /\ Execute \/ ExecuteFails
          /\ i = Current /\ Performs(plan[i]) /\ ~Refused(plan[i])
      <3>1. Execute \/ ExecuteFails
        BY <1>2 DEF Next, Step, Fault, ReceivePlan, PostStarted, PostEvent,
            PostComplete, StartedUnanswered, EventUnanswered, CompleteUnanswered,
            Crash, ScheduledRestart, NothingToDo, DeliverLate, vars
      <3>2. i = Current
        BY <1>2, <3>1, CurrentFacts DEF Execute, ExecuteFails, TypeOK
      <3>3. Performs(plan[i]) /\ ~Refused(plan[i])
        BY <1>2, <3>1, <3>2 DEF Execute, ExecuteFails
      <3>4. QED
        BY <3>1, <3>2, <3>3
    <2>2. plan[i] \in Gated /\ opted
      BY <2>1 DEF Performs
    <2>3. plan[i] = "service" => host
      BY <2>1, Zenon DEF Refused, HostOnly
    <2>4. QED
      BY <2>2, <2>3
  <1>3. QED
    BY <1>1, <1>2

\* An action is carried out at most once in an attempt, and an attempt that ends
\* without a completion has cost a fault.
LEMMA EffectsStep ==
    TypeOK /\ AttemptShape /\ EffectsBounded /\ [Next]_vars => EffectsBounded'
  <1> SUFFICES ASSUME TypeOK, AttemptShape, EffectsBounded, [Next]_vars,
                      NEW i \in Actions
               PROVE  effects'[i] <= IF Spent(i)' THEN faults' + 1 ELSE faults'
    BY PlanStays DEF EffectsBounded, Spent
  <1>1. /\ faults \in Nat /\ effects[i] \in Nat /\ Len(results) \in Nat
        /\ effects[i] <= IF Spent(i) THEN faults + 1 ELSE faults
    BY DEF TypeOK, EffectsBounded
  <1>2. CASE Execute \/ ExecuteFails
    <2>1. PICK list \in Lists : results' = Append(results, list)
      BY <1>2, ListOfType DEF Execute, ExecuteFails, Lists
    <2>2. pc = "execute" /\ pc' = "event" /\ UNCHANGED faults
      BY <1>2 DEF Execute, ExecuteFails
    <2>3. Len(results') = Len(results) + 1 /\ Current \in Actions
      BY <2>1, <2>2, CurrentFacts DEF Current
    <2>4. CASE i = Current
      <3>1. \/ UNCHANGED effects
            \/ effects' = [effects EXCEPT ![Current] = @ + 1]
        BY <1>2, Zenon DEF Execute, ExecuteFails
      <3>2. effects'[i] \in {effects[i], effects[i] + 1}
        BY <2>4, <3>1 DEF TypeOK
      <3>3. ~Spent(i) /\ Spent(i)'
        BY <2>2, <2>3, <2>4, <1>1 DEF Spent, Current
      <3>4. QED
        BY <1>1, <2>2, <3>2, <3>3
    <2>5. CASE i # Current
      <3>1. effects'[i] = effects[i]
        BY <1>2, <2>5 DEF Execute, ExecuteFails, TypeOK
      <3>2. Spent(i) => Spent(i)'
        BY <2>2, <2>3, <1>1 DEF Spent, Actions
      <3>3. QED
        BY <1>1, <2>2, <3>1, <3>2
    <2>6. QED
      BY <2>4, <2>5
  <1>3. CASE ~(Execute \/ ExecuteFails)
    <2>1. UNCHANGED effects
      BY <1>3 DEF Next, Step, Fault, ReceivePlan, PostStarted, PostEvent,
          PostComplete, StartedUnanswered, EventUnanswered, CompleteUnanswered,
          Crash, ScheduledRestart, NothingToDo, DeliverLate, vars
    <2>2. \/ Faulty
          \/ UNCHANGED faults /\ (Spent(i) => Spent(i)')
      <3>1. CASE ReceivePlan
        BY <3>1 DEF ReceivePlan, Spent, TypeOK
      <3>2. CASE PostStarted \/ PostEvent
        BY <3>2 DEF PostStarted, PostEvent, AfterEvent, Spent
      <3>3. CASE PostComplete
        BY <3>3 DEF PostComplete, Return, Spent
      <3>4. CASE StartedUnanswered \/ EventUnanswered \/ CompleteUnanswered \/ Crash
        BY <3>4 DEF StartedUnanswered, EventUnanswered, CompleteUnanswered, Crash
      <3>5. CASE ScheduledRestart
        BY <3>5 DEF ScheduledRestart, Return, Spent, serverVars
      <3>6. ASSUME NEW m \in late, DeliverLate(m)
            PROVE  UNCHANGED faults /\ (Spent(i) => Spent(i)')
        BY <3>6 DEF DeliverLate, Spent
      <3>7. CASE NothingToDo \/ UNCHANGED vars
        BY <3>7 DEF NothingToDo, vars, Spent, serverVars
      <3>8. QED
        BY <1>3, <3>1, <3>2, <3>3, <3>4, <3>5, <3>6, <3>7 DEF Next, Step, Fault
    <2>3. QED
      BY <1>1, <2>1, <2>2 DEF Faulty
  <1>4. QED
    BY <1>2, <1>3

\* Events go out in the order of the actions and before the completion.
LEMMA AnnounceStep ==
    TypeOK /\ AttemptShape /\ AnnouncedInOrder /\ [Next]_vars => AnnouncedInOrder'
  <1> SUFFICES ASSUME TypeOK, AttemptShape, AnnouncedInOrder, [Next]_vars
               PROVE  AnnouncedInOrder'
    OBVIOUS
  <1> USE DEF AnnouncedInOrder, serverVars
  <1>1. Len(results) \in Nat
    BY DEF TypeOK
  <1>2. CASE ReceivePlan \/ PostStarted
    BY <1>2 DEF ReceivePlan, PostStarted, Posted
  <1>3. CASE Execute \/ ExecuteFails
    <2>1. PICK list \in Lists : results' = Append(results, list)
      BY <1>3, ListOfType DEF Execute, ExecuteFails, Lists
    <2>2. pc = "execute" /\ pc' = "event" /\ UNCHANGED <<serverVars, late>>
      BY <1>3 DEF Execute, ExecuteFails
    <2>3. Len(results') = Len(results) + 1
      BY <2>1, <2>2, CurrentFacts DEF Current
    <2>4. Posted' = Posted
      BY <1>1, <2>2, <2>3 DEF Posted
    <2>5. QED
      BY <2>2, <2>4
  <1>4. CASE PostEvent
    <2>1. Posted' \subseteq announced'
      BY <1>1, <1>4 DEF PostEvent, AfterEvent, Posted, Done
    <2>2. QED
      BY <1>4, <2>1 DEF PostEvent
  <1>5. CASE PostComplete
    <2>1. 1..Done \subseteq announced
      BY <1>5 DEF PostComplete, Posted, Done
    <2>2. QED
      BY <1>5, <2>1 DEF PostComplete, Return, Posted
  <1>6. CASE StartedUnanswered \/ Crash \/ ScheduledRestart
    <2>1. Return /\ UNCHANGED <<serverVars, late>>
      BY <1>6 DEF StartedUnanswered, Crash, ScheduledRestart
    <2>2. QED
      BY <2>1 DEF Return, Posted
  <1>7. CASE EventUnanswered
    BY <1>7 DEF EventUnanswered, Return, Posted
  <1>8. CASE CompleteUnanswered
    <2>1. 1..Done \subseteq announced
      BY <1>8 DEF CompleteUnanswered, Posted, Done
    <2>2. QED
      BY <1>8, <2>1 DEF CompleteUnanswered, Return, Posted
  <1>9. ASSUME NEW m \in late, DeliverLate(m) PROVE AnnouncedInOrder'
    <2>1. UNCHANGED <<pc, results>> /\ late' \subseteq late /\ announced \subseteq announced'
      BY <1>9 DEF DeliverLate
    <2>2. reported' \subseteq announced'
      BY <1>9 DEF DeliverLate, TypeOK, Posts
    <2>3. QED
      BY <2>1, <2>2 DEF Posted
  <1>10. CASE NothingToDo \/ UNCHANGED vars
    BY <1>10 DEF NothingToDo, vars, Posted
  <1>11. QED
    BY <1>2, <1>3, <1>4, <1>5, <1>6, <1>7, <1>8, <1>9, <1>10 DEF Next, Step, Fault

\* A failure ends the attempt.
LEMMA FailureStep ==
    TypeOK /\ AttemptShape /\ FailureIsLast /\ [Next]_vars => FailureIsLast'
  <1> SUFFICES ASSUME TypeOK, AttemptShape, FailureIsLast, [Next]_vars
               PROVE  FailureIsLast'
    OBVIOUS
  <1> USE DEF FailureIsLast, Done
  <1>1. UNCHANGED plan /\ Len(results) \in Nat
    BY PlanStays DEF planVars, TypeOK
  <1>2. CASE ReceivePlan \/ PostStarted
    BY <1>2 DEF ReceivePlan, PostStarted, AttemptShape
  <1>3. CASE Execute \/ ExecuteFails
    <2>1. PICK list \in Lists : results' = Append(results, list)
      BY <1>3, ListOfType DEF Execute, ExecuteFails, Lists
    <2>2. pc = "execute" /\ pc' = "event"
      BY <1>3 DEF Execute, ExecuteFails
    <2>3. \A i \in 1..Len(results) : results[i] # "failed"
      BY <1>1, <2>2 DEF TypeOK
    <2>4. /\ Len(results') = Len(results) + 1
          /\ \A i \in 1..Len(results) : results'[i] = results[i]
      BY <2>1, <2>2, CurrentFacts DEF Current
    <2>5. QED
      BY <1>1, <2>2, <2>3, <2>4
  <1>4. CASE PostEvent
    BY <1>1, <1>4 DEF PostEvent, AfterEvent
  <1>5. CASE PostComplete \/ StartedUnanswered \/ EventUnanswered
             \/ CompleteUnanswered \/ Crash \/ ScheduledRestart
    <2>1. pc' = "idle" /\ results' = <<>>
      BY <1>5 DEF PostComplete, StartedUnanswered, EventUnanswered,
          CompleteUnanswered, Crash, ScheduledRestart, Return
    <2>2. QED
      BY <2>1
  <1>6. CASE (\E m \in late : DeliverLate(m)) \/ NothingToDo \/ UNCHANGED vars
    BY <1>1, <1>6 DEF DeliverLate, NothingToDo, vars
  <1>7. QED
    BY <1>2, <1>3, <1>4, <1>5, <1>6 DEF Next, Step, Fault

\* What Append adds to the elements of a list of places.
LEMMA AppendedPlace ==
    ASSUME NEW s \in Seq(Nat), NEW x \in Nat,
           \A k, l \in DOMAIN s : k < l => s[k] < s[l],
           \A k \in DOMAIN s : s[k] < x
    PROVE  /\ {Append(s, x)[k] : k \in DOMAIN Append(s, x)} = {s[k] : k \in DOMAIN s} \union {x}
           /\ \A k, l \in DOMAIN Append(s, x) : k < l => Append(s, x)[k] < Append(s, x)[l]
  <1> DEFINE a == Append(s, x)
  <1>1. /\ DOMAIN s = 1..Len(s) /\ DOMAIN a = 1..Len(s) + 1 /\ Len(s) \in Nat
        /\ \A k \in 1..Len(s) : a[k] = s[k]
        /\ a[Len(s) + 1] = x
    OBVIOUS
  <1>2. \A k \in DOMAIN a : k \in DOMAIN s \/ k = Len(s) + 1
    BY <1>1
  <1>3. \A k, l \in DOMAIN a : k < l => a[k] < a[l]
    <2> SUFFICES ASSUME NEW k \in DOMAIN a, NEW l \in DOMAIN a, k < l PROVE a[k] < a[l]
      OBVIOUS
    <2>1. k \in DOMAIN s /\ a[k] = s[k]
      BY <1>1
    <2>2. CASE l \in DOMAIN s
      BY <1>1, <2>1, <2>2
    <2>3. CASE l = Len(s) + 1
      BY <1>1, <2>1, <2>3
    <2>4. QED
      BY <1>2, <2>2, <2>3
  <1>4. \A k \in DOMAIN s : k \in DOMAIN a /\ a[k] = s[k]
    BY <1>1
  <1>5. Len(s) + 1 \in DOMAIN a
    BY <1>1
  <1>6. {a[k] : k \in DOMAIN a} = {s[k] : k \in DOMAIN s} \union {x}
    BY <1>1, <1>2, <1>4, <1>5
  <1>7. QED
    BY <1>3, <1>6

\* Nothing has failed before the action that is executed.
LEMMA NoneFailed ==
    ASSUME TypeOK, FailureIsLast, pc = "execute"
    PROVE  Failed = {}
  <1>1. \A i \in 1..Len(results) : results[i] # "failed"
    BY DEF FailureIsLast, TypeOK, Done
  <1>2. QED
    BY <1>1 DEF Failed, Done

\* Each action adds its own results to those of the actions before it.
LEMMA CarriedStep ==
    TypeOK /\ AttemptShape /\ FailureIsLast /\ ResultsAreCarried /\ [Next]_vars
        => ResultsAreCarried'
  <1> SUFFICES ASSUME TypeOK, AttemptShape, FailureIsLast, ResultsAreCarried, [Next]_vars
               PROVE  ResultsAreCarried'
    OBVIOUS
  <1> DEFINE ss == artifacts.services
             rs == artifacts.runtimes
  <1>1. /\ UNCHANGED planVars /\ Len(results) \in Nat
        /\ artifacts \in Artifacts /\ ss \in Seq(Nat) /\ rs \in Seq(Nat)
    BY PlanStays DEF TypeOK, Artifacts
  <1>2. CASE UNCHANGED <<results, artifacts>>
    <2>1. Shown' = Shown /\ Applied' = Applied /\ Failed' = Failed
      BY <1>1, <1>2 DEF planVars, Shown, Applied, Failed, Done
    <2>2. plan' = plan /\ artifacts' = artifacts
      BY <1>1, <1>2 DEF planVars
    <2>3. QED
      BY <2>1, <2>2 DEF ResultsAreCarried
  <1>3. CASE results' = <<>> /\ artifacts' = NoArtifacts
    BY <1>3 DEF NoArtifacts, ResultsAreCarried, Shown, Applied, Failed, Done
  <1>4. ASSUME pc = "execute", NEW list \in Lists, results' = Append(results, list)
        PROVE  /\ Failed = {} /\ Done' = Current /\ 1..Done' = 1..Done \union {Current}
               /\ Current \in Nat /\ \A i \in 1..Done : i < Current /\ results'[i] = results[i]
               /\ Shown' = Shown \union {i \in {Current} :
                      plan[i] = "show" \/ (plan[i] = "service" /\ opted)}
               /\ Applied' = Applied \union {i \in {Current} : plan[i] = "apply" /\ opted}
               /\ Failed' = {i \in {Current} : list = "failed"}
               /\ Shown \subseteq 1..Done /\ Applied \subseteq 1..Done
    <2>1. Failed = {}
      BY <1>4, NoneFailed
    <2>2. /\ Len(results') = Len(results) + 1 /\ results'[Len(results) + 1] = list
          /\ \A i \in 1..Len(results) : results'[i] = results[i]
      BY <1>4, CurrentFacts DEF Current
    <2>3. Done' = Current /\ Current \in Nat /\ 1..Done' = 1..Done \union {Current}
      BY <1>1, <2>2 DEF Done, Current
    <2>4. \A i \in 1..Done : i < Current /\ results'[i] = results[i]
      BY <1>1, <2>2 DEF Done, Current
    <2>5. /\ Shown' = Shown \union {i \in {Current} :
                 plan[i] = "show" \/ (plan[i] = "service" /\ opted)}
          /\ Applied' = Applied \union {i \in {Current} : plan[i] = "apply" /\ opted}
      BY <1>1, <2>3 DEF planVars, Shown, Applied
    <2>6. Failed' = {i \in {Current} : list = "failed"}
      <3>1. \A i \in 1..Done : results'[i] # "failed"
        BY <2>1, <2>4 DEF Failed
      <3>2. results'[Current] = list
        BY <2>2 DEF Current
      <3>3. QED
        BY <2>3, <3>1, <3>2 DEF Failed
    <2>7. QED
      BY <2>1, <2>3, <2>4, <2>5, <2>6 DEF Shown, Applied
  <1>5. ASSUME Failed = {}
        PROVE  /\ {ss[k] : k \in DOMAIN ss} = Shown
               /\ \A k, l \in DOMAIN ss : k < l => ss[k] < ss[l]
               /\ {rs[k] : k \in DOMAIN rs} = {i \in Applied : \A j \in Applied : j <= i}
    BY <1>5 DEF ResultsAreCarried
  <1>6. ASSUME Failed = {}, Current \in Nat, Shown \subseteq 1..Done, Applied \subseteq 1..Done,
               \A i \in 1..Done : i < Current
        PROVE  /\ {Append(ss, Current)[k] : k \in DOMAIN Append(ss, Current)} =
                     Shown \union {Current}
               /\ \A k, l \in DOMAIN Append(ss, Current) :
                     k < l => Append(ss, Current)[k] < Append(ss, Current)[l]
    <2>1. \A k \in DOMAIN ss : ss[k] < Current
      BY <1>5, <1>6
    <2>2. QED
      BY <1>1, <1>5, <1>6, <2>1, AppendedPlace
  <1>7. CASE Execute
    <2> DEFINE kind == plan[Current]
               shows == kind = "show" \/ (kind = "service" /\ opted)
    <2>1. pc = "execute" /\ results' = Append(results, ListOf(kind)) /\ ListOf(kind) \in Lists
      BY <1>7, ListOfType DEF Execute
    <2>2. /\ artifacts'.services = IF shows THEN Append(ss, Current) ELSE ss
          /\ artifacts'.runtimes = IF kind = "apply" /\ opted THEN <<Current>> ELSE rs
      BY <1>1, <1>7 DEF Execute, Collect, Artifacts
    <2>3. /\ Failed = {} /\ Failed' = {} /\ Current \in Nat
          /\ Shown' = IF shows THEN Shown \union {Current} ELSE Shown
          /\ Applied' = IF kind = "apply" /\ opted THEN Applied \union {Current} ELSE Applied
          /\ \A i \in Applied : i < Current /\ i \in Nat
      <3>1. /\ Failed = {} /\ Current \in Nat /\ Applied \subseteq 1..Done
            /\ \A i \in 1..Done : i < Current
            /\ Shown' = Shown \union {i \in {Current} : shows}
            /\ Applied' = Applied \union {i \in {Current} : kind = "apply" /\ opted}
            /\ Failed' = {i \in {Current} : ListOf(kind) = "failed"}
        BY <1>4, <2>1
      <3>2. ListOf(kind) # "failed"
        BY DEF ListOf
      <3>3. QED
        BY <1>1, <3>1, <3>2 DEF Done
    <2>4. /\ {artifacts'.services[k] : k \in DOMAIN artifacts'.services} = Shown'
          /\ \A k, l \in DOMAIN artifacts'.services :
                k < l => artifacts'.services[k] < artifacts'.services[l]
      <3>1. Shown \subseteq 1..Done /\ Applied \subseteq 1..Done /\ \A i \in 1..Done : i < Current
        BY <1>4, <2>1
      <3>2. CASE shows
        <4>1. artifacts'.services = Append(ss, Current) /\ Shown' = Shown \union {Current}
          BY <2>2, <2>3, <3>2
        <4>2. QED
          BY <1>6, <2>3, <3>1, <4>1
      <3>3. CASE ~shows
        BY <1>5, <2>2, <2>3, <3>3
      <3>4. QED
        BY <3>2, <3>3
    <2>5. {artifacts'.runtimes[k] : k \in DOMAIN artifacts'.runtimes} =
            {i \in Applied' : \A j \in Applied' : j <= i}
      <3>1. CASE kind = "apply" /\ opted
        <4>1. {artifacts'.runtimes[k] : k \in DOMAIN artifacts'.runtimes} = {Current}
          BY <2>2, <3>1
        <4>2. {i \in Applied' : \A j \in Applied' : j <= i} = {Current}
          BY <2>3, <3>1
        <4>3. QED
          BY <4>1, <4>2
      <3>2. CASE ~(kind = "apply" /\ opted)
        BY <1>5, <2>2, <2>3, <3>2
      <3>3. QED
        BY <3>1, <3>2
    <2>6. QED
      BY <2>3, <2>4, <2>5 DEF ResultsAreCarried
  <1>8. CASE ExecuteFails
    <2> DEFINE kind == plan[Current]
    <2>1. pc = "execute" /\ results' = Append(results, "failed") /\ "failed" \in Lists
      BY <1>8 DEF ExecuteFails, Lists
    <2>2. /\ artifacts'.services = ss
          /\ artifacts'.runtimes = IF kind = "apply" THEN Append(rs, Current) ELSE rs
      BY <1>1, <1>8 DEF ExecuteFails, CollectFailed, Artifacts
    <2>3. /\ Failed = {} /\ Failed' = {Current} /\ Current \in Nat
          /\ Shown' \ Failed' = Shown /\ Applied' \ Failed' = Applied
          /\ \A i \in Applied : i < Current
      BY <1>1, <1>4, <2>1 DEF Done
    <2>4. {i \in Failed' : plan'[i] = "apply"} = IF kind = "apply" THEN {Current} ELSE {}
      BY <1>1, <2>3 DEF planVars
    <2>5. {artifacts'.runtimes[k] : k \in DOMAIN artifacts'.runtimes} =
            {rs[k] : k \in DOMAIN rs} \union (IF kind = "apply" THEN {Current} ELSE {})
      <3>1. {Append(rs, Current)[k] : k \in DOMAIN Append(rs, Current)} =
              {rs[k] : k \in DOMAIN rs} \union {Current}
        <4> DEFINE a == Append(rs, Current)
        <4>1. /\ DOMAIN rs = 1..Len(rs) /\ DOMAIN a = 1..Len(rs) + 1 /\ Len(rs) \in Nat
              /\ \A k \in 1..Len(rs) : a[k] = rs[k]
              /\ a[Len(rs) + 1] = Current
          BY <1>1, <2>3
        <4>2. /\ \A k \in DOMAIN a : k \in DOMAIN rs \/ k = Len(rs) + 1
              /\ \A k \in DOMAIN rs : k \in DOMAIN a /\ a[k] = rs[k]
              /\ Len(rs) + 1 \in DOMAIN a
          BY <4>1
        <4>3. QED
          BY <4>1, <4>2
      <3>2. QED
        BY <2>2, <3>1
    <2>6. QED
      <3>1. /\ {artifacts'.services[k] : k \in DOMAIN artifacts'.services} = Shown' \ Failed'
            /\ \A k, l \in DOMAIN artifacts'.services :
                  k < l => artifacts'.services[k] < artifacts'.services[l]
        BY <1>5, <2>2, <2>3
      <3>2. {artifacts'.runtimes[k] : k \in DOMAIN artifacts'.runtimes} =
              {i \in Applied' \ Failed' : \A j \in Applied' \ Failed' : j <= i}
                \union {i \in Failed' : plan'[i] = "apply"}
        BY <1>5, <2>3, <2>4, <2>5
      <3>3. QED
        BY <3>1, <3>2 DEF ResultsAreCarried
  <1>9. \/ UNCHANGED <<results, artifacts>>
        \/ results' = <<>> /\ artifacts' = NoArtifacts
        \/ Execute \/ ExecuteFails
    BY Zenon DEF Next, Step, Fault, ReceivePlan, PostStarted, PostEvent,
        PostComplete, StartedUnanswered, EventUnanswered, CompleteUnanswered, Crash,
        ScheduledRestart, NothingToDo, DeliverLate, Return, vars
  <1>10. QED
    BY <1>2, <1>3, <1>7, <1>8, <1>9

\* A fault loses at most the event that was due.
LEMMA LostStep ==
    TypeOK /\ AttemptShape /\ LostArePaidFor /\ [Next]_vars => LostArePaidFor'
  <1> SUFFICES ASSUME TypeOK, AttemptShape, LostArePaidFor, [Next]_vars
               PROVE  LostArePaidFor'
    OBVIOUS
  <1>1. /\ IsFiniteSet(Lost) /\ Cardinality(Lost) \in Nat
        /\ faults \in Nat /\ Len(results) \in Nat
    <2>1. IsFiniteSet(Actions)
      BY FS_Interval DEF Actions, TypeOK
    <2>2. IsFiniteSet(Lost)
      BY <2>1, FS_Subset DEF Lost
    <2>3. QED
      BY <2>2, FS_CardinalityType DEF TypeOK
  <1>2. ASSUME Lost' \subseteq Lost, UNCHANGED faults PROVE LostArePaidFor'
    <2>1. Cardinality(Lost') <= Cardinality(Lost) /\ Cardinality(Lost') \in Nat
      BY <1>1, <1>2, FS_Subset, FS_CardinalityType
    <2>2. QED
      BY <1>1, <1>2, <2>1 DEF LostArePaidFor
  <1>3. ASSUME Lost' \subseteq Lost \union {Len(results)}, Faulty PROVE LostArePaidFor'
    <2>1. /\ IsFiniteSet(Lost \union {Len(results)})
          /\ Cardinality(Lost \union {Len(results)}) <= Cardinality(Lost) + 1
          /\ Cardinality(Lost \union {Len(results)}) \in Nat
      <3>1. /\ IsFiniteSet(Lost \union {Len(results)})
            /\ \/ Cardinality(Lost \union {Len(results)}) = Cardinality(Lost)
               \/ Cardinality(Lost \union {Len(results)}) = Cardinality(Lost) + 1
        BY <1>1, FS_AddElement, Zenon
      <3>2. QED
        BY <1>1, <3>1
    <2>2. Cardinality(Lost') <= Cardinality(Lost \union {Len(results)})
          /\ Cardinality(Lost') \in Nat
      BY <1>3, <2>1, FS_Subset, FS_CardinalityType
    <2>3. QED
      BY <1>1, <1>3, <2>1, <2>2 DEF Faulty, LostArePaidFor
  <1>4. CASE Execute \/ ExecuteFails
    <2>1. PICK list \in Lists : results' = Append(results, list)
      BY <1>4, ListOfType DEF Execute, ExecuteFails, Lists
    <2>2. pc = "execute" /\ pc' = "event" /\ UNCHANGED <<announced, faults>>
      BY <1>4 DEF Execute, ExecuteFails, serverVars
    <2>3. Len(results') = Current
      BY <2>1, <2>2, CurrentFacts
    <2>4. \A i \in Actions : i # Current => effects'[i] = effects[i]
      BY <1>4 DEF Execute, ExecuteFails, TypeOK
    <2>5. Lost' \subseteq Lost
      BY <2>2, <2>3, <2>4, PlanStays DEF Lost
    <2>6. QED
      BY <1>2, <2>2, <2>5
  <1>5. CASE PostEvent
    <2>1. Lost' \subseteq Lost
      BY <1>5, PlanStays DEF PostEvent, AfterEvent, Done, Lost
    <2>2. QED
      BY <1>2, <1>5, <2>1 DEF PostEvent
  <1>6. CASE ReceivePlan \/ PostStarted \/ PostComplete
    <2>1. /\ UNCHANGED <<announced, effects, faults>>
          /\ pc # "event" /\ pc' # "event"
      BY <1>6 DEF ReceivePlan, PostStarted, PostComplete, Return, serverVars
    <2>2. Lost' \subseteq Lost
      BY <2>1, PlanStays DEF Lost
    <2>3. QED
      BY <1>2, <2>1, <2>2
  <1>7. CASE StartedUnanswered \/ EventUnanswered \/ CompleteUnanswered \/ Crash
    <2>1. UNCHANGED <<announced, effects>> /\ Faulty
      BY <1>7 DEF StartedUnanswered, EventUnanswered, CompleteUnanswered, Crash,
          serverVars
    <2>2. Lost' \subseteq Lost \union {Len(results)}
      BY <2>1, PlanStays DEF Lost
    <2>3. QED
      BY <1>3, <2>1, <2>2
  <1>8. CASE ScheduledRestart
    <2>1. UNCHANGED <<announced, effects>> /\ pc' = "idle"
      BY <1>8 DEF ScheduledRestart, Return, serverVars
    <2>2. Lost' \subseteq Lost \union {Len(results)}
      BY <2>1, PlanStays DEF Lost
    <2>3. pc = "idle" => Lost' \subseteq Lost
      BY <2>1, PlanStays DEF Lost
    <2>4. QED
      BY <1>2, <1>3, <1>8, <2>2, <2>3 DEF ScheduledRestart
  <1>9. ASSUME NEW m \in late, DeliverLate(m) PROVE LostArePaidFor'
    <2>1. UNCHANGED <<effects, faults, pc, results>> /\ announced \subseteq announced'
      BY <1>9 DEF DeliverLate
    <2>2. Lost' \subseteq Lost
      BY <2>1, PlanStays DEF Lost
    <2>3. QED
      BY <1>2, <2>1, <2>2
  <1>10. CASE NothingToDo \/ UNCHANGED vars
    <2>1. UNCHANGED <<announced, effects, faults, pc, results>>
      BY <1>10 DEF NothingToDo, vars, serverVars
    <2>2. Lost' \subseteq Lost
      BY <2>1, PlanStays DEF Lost
    <2>3. QED
      BY <1>2, <2>1, <2>2
  <1>11. QED
    BY <1>4, <1>5, <1>6, <1>7, <1>8, <1>9, <1>10 DEF Next, Step, Fault

-----------------------------------------------------------------------------
(* The theorems.                                                           *)

\* PlanInv holds throughout: what every step of executePlan may rely on.
THEOREM PlanInvariant == Spec => []PlanInv
  <1>1. PlanInv /\ [Next]_vars => PlanInv'
    BY ShapeStep, OptInStep, EffectsStep, AnnounceStep, FailureStep, CarriedStep, LostStep
    DEF PlanInv
  <1>2. QED
    BY <1>1, InitInv, PTL DEF Spec

\* The variables of executePlan and of the control plane keep their types.
THEOREM PlanTypes == Spec => []TypeOK
  <1>1. PlanInv => TypeOK
    BY DEF PlanInv
  <1>2. QED
    BY <1>1, PlanInvariant, PTL

\* Executing a plan stays opt-in (the gates of executeAction), however often the
\* plan is started over.
THEOREM OptIn == Spec => []EffectsOptedIn
  <1>1. PlanInv => EffectsOptedIn
    BY DEF PlanInv
  <1>2. QED
    BY <1>1, PlanInvariant, PTL

\* executePlan carries an action out once, and once more for each fault that cut
\* an attempt off.
THEOREM RepeatsBounded == Spec => []RepeatsArePaidFor
  <1>1. PlanInv => RepeatsArePaidFor
    <2> SUFFICES ASSUME PlanInv, NEW i \in Actions PROVE effects[i] <= 1 + faults
      BY DEF RepeatsArePaidFor
    <2>1. effects[i] <= IF Spent(i) THEN faults + 1 ELSE faults
      BY DEF PlanInv, EffectsBounded
    <2>2. faults \in Nat /\ effects[i] \in Nat
      BY DEF PlanInv, TypeOK
    <2>3. QED
      BY <2>1, <2>2
  <1>2. QED
    BY <1>1, PlanInvariant, PTL

\* The completion that executePlan posts never runs ahead of its events, not even
\* when it, or an event, arrives after executePlan has given up on it.
THEOREM CompletionFollowsEvents == Spec => []ReportedWasAnnounced
  <1>1. PlanInv => ReportedWasAnnounced
    BY DEF PlanInv, AnnouncedInOrder, ReportedWasAnnounced
  <1>2. QED
    BY <1>1, PlanInvariant, PTL

\* executePlan leaves at most one effect unannounced for each fault.
THEOREM SilenceBounded == Spec => []SilentEffectsArePaidFor
  <1>1. PlanInv => SilentEffectsArePaidFor
    <2> SUFFICES ASSUME PlanInv, pc = "idle" PROVE Cardinality(Silent) <= faults
      BY DEF SilentEffectsArePaidFor
    <2>1. Silent = Lost
      BY DEF Silent, Lost
    <2>2. QED
      BY <2>1 DEF PlanInv, LostArePaidFor
  <1>2. QED
    BY <1>1, PlanInvariant, PTL

\* The loop of executePlan stops at the first failure.
THEOREM StopsAtFailure == Spec => []FailureIsLast
  <1>1. PlanInv => FailureIsLast
    BY DEF PlanInv
  <1>2. QED
    BY <1>1, PlanInvariant, PTL

\* The completion of executePlan carries the result of every service, and of the
\* runtimes the one that failed and the last that was applied.
THEOREM ArtifactsCarried == Spec => []ResultsAreCarried
  <1>1. PlanInv => ResultsAreCarried
    BY DEF PlanInv
  <1>2. QED
    BY <1>1, PlanInvariant, PTL

=============================================================================
