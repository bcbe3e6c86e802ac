-------------------------- MODULE TaskRunnerProofs --------------------------
(***************************************************************************)
(* What TaskRunner guarantees for any set of tasks, any cache limit and    *)
(* any number of faults.  RunnerInv is inductive; the properties that the  *)
(* runs check follow from it, and with it each step maps to a step of the  *)
(* ledger or to none.                                                      *)
(***************************************************************************)
EXTENDS TaskRunner, TLAPS

-----------------------------------------------------------------------------
(* Type correctness.                                                       *)

\* The handler's variables are well typed however it returns.
LEMMA ReturnTypes == Return => AgentTypeOK'
  <1>1. Return => leaseLost' \in BOOLEAN
    BY Zenon DEF Return
  <1>2. Return => /\ pc' \in Steps /\ task' \in Tasks \union {NoTask}
                  /\ pc' = "idle" /\ lease' \in Nat
                  /\ outcome' \in Outcomes \union {"none"}
                  /\ wait' \in Waits
                  /\ reply' \in {"none", "ok", "conflict", "error"}
    BY DEF Return, Steps, Waits, Outcomes
  <1>3. QED
    BY <1>1, <1>2 DEF AgentTypeOK

\* Every step preserves the types.
LEMMA TypeStep == TypeOK /\ [Next]_vars => TypeOK'
  <1> SUFFICES ASSUME TypeOK, [Next]_vars PROVE TypeOK'
    OBVIOUS
  <1> USE RunnerAssumption
      DEF Outcomes, Statuses, Steps, Waits, vars, serverVars, diskVars, agentVars, ghostVars
  <1>1. CASE ReportCached
    BY <1>1 DEF ReportCached, TypeOK, AgentTypeOK
  <1>2. ASSUME NEW w \in Waits, StartExecution(w) PROVE TypeOK'
    BY <1>2 DEF StartExecution, RemoveOutcome, TypeOK, AgentTypeOK
  <1>3. ASSUME NEW o \in Outcomes, FinishExecution(o) PROVE TypeOK'
    BY <1>3 DEF FinishExecution, Faulty, TypeOK, AgentTypeOK
  <1>4. CASE DropResult
    BY <1>4, ReturnTypes DEF DropResult, TypeOK
  <1>5. CASE RecordOutcome
    BY <1>5 DEF RecordOutcome, PutOutcome, TypeOK, AgentTypeOK
  <1>6. CASE ReportAccepted
    BY <1>6 DEF ReportAccepted, Holds, Verdict, TypeOK, AgentTypeOK
  <1>7. CASE ReportRejected
    BY <1>7 DEF ReportRejected, Holds, TypeOK, AgentTypeOK
  <1>8. CASE ReportCancelled
    BY <1>8 DEF ReportCancelled, TypeOK, AgentTypeOK
  <1>9. CASE HandleReply
    BY <1>9, ReturnTypes DEF HandleReply, RemoveOutcome, ForgetsAfter, TypeOK
  <1>10. CASE Restart
    BY <1>10 DEF Restart, TypeOK, AgentTypeOK
  <1>11. CASE LookupFails
    BY <1>11, ReturnTypes DEF LookupFails, Faulty, TypeOK
  <1>12. CASE RecordFails
    BY <1>12, ReturnTypes DEF RecordFails, Faulty, TypeOK
  <1>13. CASE ReportUnanswered
    BY <1>13 DEF ReportUnanswered, Faulty, Reports, TypeOK, AgentTypeOK
  <1>14. CASE HandleReplyKeepsOutcome
    BY <1>14, ReturnTypes DEF HandleReplyKeepsOutcome, Faulty, ForgetsAfter, TypeOK
  <1>15. CASE HeartbeatRejected
    BY <1>15 DEF HeartbeatRejected, Holds, TypeOK, AgentTypeOK
  <1>16. CASE Shutdown
    BY <1>16 DEF Shutdown, Faulty, TypeOK, AgentTypeOK
  <1>17. CASE Crash
    <2>1. stopping' \in BOOLEAN
      BY <1>17, Zenon DEF Crash
    <2>2. QED
      BY <1>17, <2>1, ReturnTypes DEF Crash, Faulty, TypeOK
  <1>18. ASSUME NEW t \in Tasks, Claim(t) PROVE TypeOK'
    BY <1>18 DEF Claim, TypeOK, AgentTypeOK
  <1>19. ASSUME NEW t \in Tasks, ClaimAnswerLost(t) PROVE TypeOK'
    BY <1>19 DEF ClaimAnswerLost, Faulty, TypeOK, AgentTypeOK
  <1>20. ASSUME NEW t \in Tasks, ExpireLease(t) PROVE TypeOK'
    BY <1>20 DEF ExpireLease, Faulty, Attended, TypeOK, AgentTypeOK
  <1>21. ASSUME NEW t \in Tasks, Cancel(t) PROVE TypeOK'
    BY <1>21 DEF Cancel, TypeOK, AgentTypeOK
  <1>22. ASSUME NEW m \in late, DeliverLate(m) PROVE TypeOK'
    BY <1>22 DEF DeliverLate, Holds, Verdict, Reports, TypeOK, AgentTypeOK
  <1>23. CASE PollInVain
    BY <1>23 DEF PollInVain, TypeOK, AgentTypeOK
  <1>24. CASE UNCHANGED vars
    BY <1>24 DEF TypeOK, AgentTypeOK
  <1>25. QED
    BY <1>1, <1>2, <1>3, <1>4, <1>5, <1>6, <1>7, <1>8, <1>9, <1>10, <1>11, <1>12,
       <1>13, <1>14, <1>15, <1>16, <1>17, <1>18, <1>19, <1>20, <1>21, <1>22,
       <1>23, <1>24 DEF Next, AgentStep, AgentFault, ServerStep

-----------------------------------------------------------------------------
(* The inductive invariant, one conjunct at a time.                        *)

\* No step puts an outcome on disk, in memory or in the network that the task's
\* executions did not produce: an execution adds to produced, and a claim only
\* raises the lease number.
LEMMA EarnedStep == RunnerInv /\ [Next]_vars => OutcomesEarned'
  <1> SUFFICES ASSUME RunnerInv, [Next]_vars PROVE OutcomesEarned'
    OBVIOUS
  <1> USE RunnerAssumption
      DEF vars, serverVars, diskVars, agentVars, ghostVars, Outcomes
  <1>1. CASE ReportCached
    BY <1>1 DEF ReportCached, RunnerInv, TypeOK, AgentTypeOK, OutcomesEarned,
       LeaseCurrent, CacheInStep, Survivors
  <1>2. ASSUME NEW w \in Waits, StartExecution(w) PROVE OutcomesEarned'
    BY <1>2 DEF StartExecution, RemoveOutcome, RunnerInv, TypeOK, AgentTypeOK,
       OutcomesEarned, LeaseCurrent, CacheInStep, Survivors
  <1>3. ASSUME NEW o \in Outcomes, FinishExecution(o) PROVE OutcomesEarned'
    BY <1>3 DEF FinishExecution, Faulty, RunnerInv, TypeOK, AgentTypeOK,
       OutcomesEarned, LeaseCurrent, CacheInStep, Survivors
  <1>4. CASE DropResult
    BY <1>4 DEF DropResult, Return, RunnerInv, TypeOK, AgentTypeOK,
       OutcomesEarned, LeaseCurrent, CacheInStep, Survivors
  <1>5. CASE RecordOutcome
    BY <1>5 DEF RecordOutcome, PutOutcome, RunnerInv, TypeOK, AgentTypeOK,
       OutcomesEarned, LeaseCurrent, CacheInStep, Survivors
  <1>6. CASE ReportAccepted
    BY <1>6 DEF ReportAccepted, Holds, Verdict, RunnerInv, TypeOK, AgentTypeOK,
       OutcomesEarned, LeaseCurrent, CacheInStep, Survivors
  <1>7. CASE ReportRejected
    BY <1>7 DEF ReportRejected, Holds, RunnerInv, TypeOK, AgentTypeOK,
       OutcomesEarned, LeaseCurrent, CacheInStep, Survivors
  <1>8. CASE ReportCancelled
    BY <1>8 DEF ReportCancelled, RunnerInv, TypeOK, AgentTypeOK, OutcomesEarned,
       LeaseCurrent, CacheInStep, Survivors
  <1>9. CASE HandleReply
    BY <1>9 DEF HandleReply, Return, RemoveOutcome, ForgetsAfter, RunnerInv,
       TypeOK, AgentTypeOK, OutcomesEarned, LeaseCurrent, CacheInStep, Survivors
  <1>10. CASE Restart
    BY <1>10 DEF Restart, RunnerInv, TypeOK, AgentTypeOK, OutcomesEarned,
       LeaseCurrent, CacheInStep, Survivors
  <1>11. CASE LookupFails
    BY <1>11 DEF LookupFails, Faulty, Return, RunnerInv, TypeOK, AgentTypeOK,
       OutcomesEarned, LeaseCurrent, CacheInStep, Survivors
  <1>12. CASE RecordFails
    BY <1>12 DEF RecordFails, Faulty, Return, RunnerInv, TypeOK, AgentTypeOK,
       OutcomesEarned, LeaseCurrent, CacheInStep, Survivors
  <1>13. CASE ReportUnanswered
    BY <1>13 DEF ReportUnanswered, Faulty, Reports, RunnerInv, TypeOK,
       AgentTypeOK, OutcomesEarned, LeaseCurrent, CacheInStep, Survivors
  <1>14. CASE HandleReplyKeepsOutcome
    BY <1>14 DEF HandleReplyKeepsOutcome, Faulty, Return, ForgetsAfter, RunnerInv,
       TypeOK, AgentTypeOK, OutcomesEarned, LeaseCurrent, CacheInStep, Survivors
  <1>15. CASE HeartbeatRejected
    BY <1>15 DEF HeartbeatRejected, Holds, RunnerInv, TypeOK, AgentTypeOK,
       OutcomesEarned, LeaseCurrent, CacheInStep, Survivors
  <1>16. CASE Shutdown
    BY <1>16 DEF Shutdown, Faulty, RunnerInv, TypeOK, AgentTypeOK, OutcomesEarned,
       LeaseCurrent, CacheInStep, Survivors
  <1>17. CASE Crash
    BY <1>17 DEF Crash, Faulty, Return, RunnerInv, TypeOK, AgentTypeOK,
       OutcomesEarned, LeaseCurrent, CacheInStep, Survivors
  <1>18. ASSUME NEW t \in Tasks, Claim(t) PROVE OutcomesEarned'
    <2>1. \A m \in late : owner[m.task] <= owner'[m.task]
      BY <1>18 DEF Claim, RunnerInv, TypeOK, Reports
    <2>2. \A m \in late : m.outcome \in produced[m.task] /\ m.lease <=
       owner'[m.task]
      BY <1>18, <2>1 DEF Claim, RunnerInv, TypeOK, Reports, OutcomesEarned
    <2>3. QED
      BY <1>18, <2>2 DEF Claim, RunnerInv, OutcomesEarned
  <1>19. ASSUME NEW t \in Tasks, ClaimAnswerLost(t) PROVE OutcomesEarned'
    <2>1. \A m \in late : owner[m.task] <= owner'[m.task]
      BY <1>19 DEF ClaimAnswerLost, RunnerInv, TypeOK, Reports
    <2>2. \A m \in late : m.outcome \in produced[m.task] /\ m.lease <=
       owner'[m.task]
      BY <1>19, <2>1 DEF ClaimAnswerLost, RunnerInv, TypeOK, Reports, OutcomesEarned
    <2>3. QED
      BY <1>19, <2>2 DEF ClaimAnswerLost, RunnerInv, OutcomesEarned
  <1>20. ASSUME NEW t \in Tasks, ExpireLease(t) PROVE OutcomesEarned'
    BY <1>20 DEF ExpireLease, Faulty, Attended, RunnerInv, TypeOK, AgentTypeOK,
       OutcomesEarned, LeaseCurrent, CacheInStep, Survivors
  <1>21. ASSUME NEW t \in Tasks, Cancel(t) PROVE OutcomesEarned'
    BY <1>21 DEF Cancel, RunnerInv, TypeOK, AgentTypeOK, OutcomesEarned,
       LeaseCurrent, CacheInStep, Survivors
  <1>22. ASSUME NEW m \in late, DeliverLate(m) PROVE OutcomesEarned'
    BY <1>22 DEF DeliverLate, Holds, Verdict, Reports, RunnerInv, TypeOK,
       AgentTypeOK, OutcomesEarned, LeaseCurrent, CacheInStep, Survivors
  <1>23. CASE PollInVain
    BY <1>23 DEF PollInVain, RunnerInv, TypeOK, AgentTypeOK, OutcomesEarned,
       LeaseCurrent, CacheInStep, Survivors
  <1>24. CASE UNCHANGED vars
    BY <1>24 DEF RunnerInv, TypeOK, AgentTypeOK, OutcomesEarned, LeaseCurrent,
       CacheInStep, Survivors
  <1>25. QED
    BY <1>1, <1>2, <1>3, <1>4, <1>5, <1>6, <1>7, <1>8, <1>9, <1>10, <1>11, <1>12,
       <1>13, <1>14, <1>15, <1>16, <1>17, <1>18, <1>19, <1>20, <1>21, <1>22,
       <1>23, <1>24 DEF Next, AgentStep, AgentFault, ServerStep

\* The handler keeps working under the last lease granted, because only its own
\* claim raises it, and it has no report of that lease in the network before it
\* reports.
LEMMA LeaseStep == RunnerInv /\ [Next]_vars => LeaseCurrent'
  <1> SUFFICES ASSUME RunnerInv, [Next]_vars PROVE LeaseCurrent'
    OBVIOUS
  <1> USE RunnerAssumption
      DEF vars, serverVars, diskVars, agentVars, ghostVars, Outcomes
  <1>1. CASE ReportCached
    BY <1>1 DEF ReportCached, RunnerInv, TypeOK, AgentTypeOK, LeaseCurrent,
       OutcomesEarned
  <1>2. ASSUME NEW w \in Waits, StartExecution(w) PROVE LeaseCurrent'
    BY <1>2 DEF StartExecution, RemoveOutcome, RunnerInv, TypeOK, AgentTypeOK,
       LeaseCurrent, OutcomesEarned
  <1>3. ASSUME NEW o \in Outcomes, FinishExecution(o) PROVE LeaseCurrent'
    BY <1>3 DEF FinishExecution, Faulty, RunnerInv, TypeOK, AgentTypeOK,
       LeaseCurrent, OutcomesEarned
  <1>4. CASE DropResult
    BY <1>4 DEF DropResult, Return, RunnerInv, TypeOK, AgentTypeOK, LeaseCurrent,
       OutcomesEarned
  <1>5. CASE RecordOutcome
    BY <1>5 DEF RecordOutcome, PutOutcome, RunnerInv, TypeOK, AgentTypeOK,
       LeaseCurrent, OutcomesEarned
  <1>6. CASE ReportAccepted
    BY <1>6 DEF ReportAccepted, Holds, Verdict, RunnerInv, TypeOK, AgentTypeOK,
       LeaseCurrent, OutcomesEarned
  <1>7. CASE ReportRejected
    BY <1>7 DEF ReportRejected, Holds, RunnerInv, TypeOK, AgentTypeOK,
       LeaseCurrent, OutcomesEarned
  <1>8. CASE ReportCancelled
    BY <1>8 DEF ReportCancelled, RunnerInv, TypeOK, AgentTypeOK, LeaseCurrent,
       OutcomesEarned
  <1>9. CASE HandleReply
    BY <1>9 DEF HandleReply, Return, RemoveOutcome, ForgetsAfter, RunnerInv,
       TypeOK, AgentTypeOK, LeaseCurrent, OutcomesEarned
  <1>10. CASE Restart
    BY <1>10 DEF Restart, RunnerInv, TypeOK, AgentTypeOK, LeaseCurrent,
       OutcomesEarned
  <1>11. CASE LookupFails
    BY <1>11 DEF LookupFails, Faulty, Return, RunnerInv, TypeOK, AgentTypeOK,
       LeaseCurrent, OutcomesEarned
  <1>12. CASE RecordFails
    BY <1>12 DEF RecordFails, Faulty, Return, RunnerInv, TypeOK, AgentTypeOK,
       LeaseCurrent, OutcomesEarned
  <1>13. CASE ReportUnanswered
    BY <1>13 DEF ReportUnanswered, Faulty, Reports, RunnerInv, TypeOK,
       AgentTypeOK, LeaseCurrent, OutcomesEarned
  <1>14. CASE HandleReplyKeepsOutcome
    BY <1>14 DEF HandleReplyKeepsOutcome, Faulty, Return, ForgetsAfter, RunnerInv,
       TypeOK, AgentTypeOK, LeaseCurrent, OutcomesEarned
  <1>15. CASE HeartbeatRejected
    BY <1>15 DEF HeartbeatRejected, Holds, RunnerInv, TypeOK, AgentTypeOK,
       LeaseCurrent, OutcomesEarned
  <1>16. CASE Shutdown
    BY <1>16 DEF Shutdown, Faulty, RunnerInv, TypeOK, AgentTypeOK, LeaseCurrent,
       OutcomesEarned
  <1>17. CASE Crash
    BY <1>17 DEF Crash, Faulty, Return, RunnerInv, TypeOK, AgentTypeOK,
       LeaseCurrent, OutcomesEarned
  <1>18. ASSUME NEW t \in Tasks, Claim(t) PROVE LeaseCurrent'
    <2>1. lease' = owner'[task'] /\ status'[task'] = "leased"
      BY <1>18 DEF Claim, RunnerInv, TypeOK
    <2>2. \A m \in late : m.task = t => m.lease < owner[t] + 1
      BY <1>18 DEF RunnerInv, TypeOK, Reports, OutcomesEarned
    <2>3. QED
      BY <1>18, <2>1, <2>2 DEF Claim, LeaseCurrent
  <1>19. ASSUME NEW t \in Tasks, ClaimAnswerLost(t) PROVE LeaseCurrent'
    BY <1>19 DEF ClaimAnswerLost, Faulty, RunnerInv, TypeOK, AgentTypeOK,
       LeaseCurrent, OutcomesEarned
  <1>20. ASSUME NEW t \in Tasks, ExpireLease(t) PROVE LeaseCurrent'
    BY <1>20 DEF ExpireLease, Faulty, Attended, RunnerInv, TypeOK, AgentTypeOK,
       LeaseCurrent, OutcomesEarned
  <1>21. ASSUME NEW t \in Tasks, Cancel(t) PROVE LeaseCurrent'
    BY <1>21 DEF Cancel, RunnerInv, TypeOK, AgentTypeOK, LeaseCurrent,
       OutcomesEarned
  <1>22. ASSUME NEW m \in late, DeliverLate(m) PROVE LeaseCurrent'
    BY <1>22 DEF DeliverLate, Holds, Verdict, Reports, RunnerInv, TypeOK,
       AgentTypeOK, LeaseCurrent, OutcomesEarned
  <1>23. CASE PollInVain
    BY <1>23 DEF PollInVain, RunnerInv, TypeOK, AgentTypeOK, LeaseCurrent,
       OutcomesEarned
  <1>24. CASE UNCHANGED vars
    BY <1>24 DEF RunnerInv, TypeOK, AgentTypeOK, LeaseCurrent, OutcomesEarned
  <1>25. QED
    BY <1>1, <1>2, <1>3, <1>4, <1>5, <1>6, <1>7, <1>8, <1>9, <1>10, <1>11, <1>12,
       <1>13, <1>14, <1>15, <1>16, <1>17, <1>18, <1>19, <1>20, <1>21, <1>22,
       <1>23, <1>24 DEF Next, AgentStep, AgentFault, ServerStep

\* The cache entry of the task at hand: removed before it executes, equal to the
\* outcome being reported after it is recorded, unless it was pruned.
LEMMA CacheStep == RunnerInv /\ [Next]_vars => CacheInStep'
  <1> SUFFICES ASSUME RunnerInv, [Next]_vars PROVE CacheInStep'
    OBVIOUS
  <1> USE RunnerAssumption
      DEF vars, serverVars, diskVars, agentVars, ghostVars, Outcomes
  <1>1. CASE ReportCached
    BY <1>1 DEF ReportCached, RunnerInv, TypeOK, AgentTypeOK, CacheInStep,
       LeaseCurrent
  <1>2. ASSUME NEW w \in Waits, StartExecution(w) PROVE CacheInStep'
    BY <1>2 DEF StartExecution, RemoveOutcome, RunnerInv, TypeOK, AgentTypeOK,
       CacheInStep, LeaseCurrent
  <1>3. ASSUME NEW o \in Outcomes, FinishExecution(o) PROVE CacheInStep'
    BY <1>3 DEF FinishExecution, Faulty, RunnerInv, TypeOK, AgentTypeOK,
       CacheInStep, LeaseCurrent
  <1>4. CASE DropResult
    BY <1>4 DEF DropResult, Return, RunnerInv, TypeOK, AgentTypeOK, CacheInStep,
       LeaseCurrent
  <1>5. CASE RecordOutcome
    BY <1>5 DEF RecordOutcome, PutOutcome, RunnerInv, TypeOK, AgentTypeOK,
       CacheInStep, LeaseCurrent
  <1>6. CASE ReportAccepted
    BY <1>6 DEF ReportAccepted, Holds, Verdict, RunnerInv, TypeOK, AgentTypeOK,
       CacheInStep, LeaseCurrent
  <1>7. CASE ReportRejected
    BY <1>7 DEF ReportRejected, Holds, RunnerInv, TypeOK, AgentTypeOK,
       CacheInStep, LeaseCurrent
  <1>8. CASE ReportCancelled
    BY <1>8 DEF ReportCancelled, RunnerInv, TypeOK, AgentTypeOK, CacheInStep,
       LeaseCurrent
  <1>9. CASE HandleReply
    BY <1>9 DEF HandleReply, Return, RemoveOutcome, ForgetsAfter, RunnerInv,
       TypeOK, AgentTypeOK, CacheInStep, LeaseCurrent
  <1>10. CASE Restart
    BY <1>10 DEF Restart, RunnerInv, TypeOK, AgentTypeOK, CacheInStep, LeaseCurrent
  <1>11. CASE LookupFails
    BY <1>11 DEF LookupFails, Faulty, Return, RunnerInv, TypeOK, AgentTypeOK,
       CacheInStep, LeaseCurrent
  <1>12. CASE RecordFails
    BY <1>12 DEF RecordFails, Faulty, Return, RunnerInv, TypeOK, AgentTypeOK,
       CacheInStep, LeaseCurrent
  <1>13. CASE ReportUnanswered
    BY <1>13 DEF ReportUnanswered, Faulty, Reports, RunnerInv, TypeOK,
       AgentTypeOK, CacheInStep, LeaseCurrent
  <1>14. CASE HandleReplyKeepsOutcome
    BY <1>14 DEF HandleReplyKeepsOutcome, Faulty, Return, ForgetsAfter, RunnerInv,
       TypeOK, AgentTypeOK, CacheInStep, LeaseCurrent
  <1>15. CASE HeartbeatRejected
    BY <1>15 DEF HeartbeatRejected, Holds, RunnerInv, TypeOK, AgentTypeOK,
       CacheInStep, LeaseCurrent
  <1>16. CASE Shutdown
    BY <1>16 DEF Shutdown, Faulty, RunnerInv, TypeOK, AgentTypeOK, CacheInStep,
       LeaseCurrent
  <1>17. CASE Crash
    BY <1>17 DEF Crash, Faulty, Return, RunnerInv, TypeOK, AgentTypeOK,
       CacheInStep, LeaseCurrent
  <1>18. ASSUME NEW t \in Tasks, Claim(t) PROVE CacheInStep'
    BY <1>18 DEF Claim, RunnerInv, TypeOK, AgentTypeOK, CacheInStep, LeaseCurrent
  <1>19. ASSUME NEW t \in Tasks, ClaimAnswerLost(t) PROVE CacheInStep'
    BY <1>19 DEF ClaimAnswerLost, Faulty, RunnerInv, TypeOK, AgentTypeOK,
       CacheInStep, LeaseCurrent
  <1>20. ASSUME NEW t \in Tasks, ExpireLease(t) PROVE CacheInStep'
    BY <1>20 DEF ExpireLease, Faulty, Attended, RunnerInv, TypeOK, AgentTypeOK,
       CacheInStep, LeaseCurrent
  <1>21. ASSUME NEW t \in Tasks, Cancel(t) PROVE CacheInStep'
    BY <1>21 DEF Cancel, RunnerInv, TypeOK, AgentTypeOK, CacheInStep, LeaseCurrent
  <1>22. ASSUME NEW m \in late, DeliverLate(m) PROVE CacheInStep'
    BY <1>22 DEF DeliverLate, Holds, Verdict, Reports, RunnerInv, TypeOK,
       AgentTypeOK, CacheInStep, LeaseCurrent
  <1>23. CASE PollInVain
    BY <1>23 DEF PollInVain, RunnerInv, TypeOK, AgentTypeOK, CacheInStep,
       LeaseCurrent
  <1>24. CASE UNCHANGED vars
    BY <1>24 DEF RunnerInv, TypeOK, AgentTypeOK, CacheInStep, LeaseCurrent
  <1>25. QED
    BY <1>1, <1>2, <1>3, <1>4, <1>5, <1>6, <1>7, <1>8, <1>9, <1>10, <1>11, <1>12,
       <1>13, <1>14, <1>15, <1>16, <1>17, <1>18, <1>19, <1>20, <1>21, <1>22,
       <1>23, <1>24 DEF Next, AgentStep, AgentFault, ServerStep

\* A success leaves the cache only by pruning, and while it is cached no failure
\* report can take effect: the ones in the network belong to older leases.
LEMMA SuccessStep == RunnerInv /\ [Next]_vars => SuccessAccounted'
  <1> SUFFICES ASSUME RunnerInv, [Next]_vars PROVE SuccessAccounted'
    OBVIOUS
  <1> USE RunnerAssumption
      DEF vars, serverVars, diskVars, agentVars, ghostVars, Outcomes
  <1>1. CASE ReportCached
    BY <1>1 DEF ReportCached, RunnerInv, TypeOK, AgentTypeOK, SuccessAccounted,
       CacheInStep, LeaseCurrent, OutcomesEarned
  <1>2. ASSUME NEW w \in Waits, StartExecution(w) PROVE SuccessAccounted'
    BY <1>2 DEF StartExecution, RemoveOutcome, RunnerInv, TypeOK, AgentTypeOK,
       SuccessAccounted, CacheInStep, LeaseCurrent, OutcomesEarned
  <1>3. ASSUME NEW o \in Outcomes, FinishExecution(o) PROVE SuccessAccounted'
    BY <1>3 DEF FinishExecution, Faulty, RunnerInv, TypeOK, AgentTypeOK,
       SuccessAccounted, CacheInStep, LeaseCurrent, OutcomesEarned
  <1>4. CASE DropResult
    BY <1>4 DEF DropResult, Return, RunnerInv, TypeOK, AgentTypeOK,
       SuccessAccounted, CacheInStep, LeaseCurrent, OutcomesEarned
  <1>5. CASE RecordOutcome
    BY <1>5 DEF RecordOutcome, PutOutcome, RunnerInv, TypeOK, AgentTypeOK,
       SuccessAccounted, CacheInStep, LeaseCurrent, OutcomesEarned
  <1>6. CASE ReportAccepted
    BY <1>6 DEF ReportAccepted, Holds, Verdict, RunnerInv, TypeOK, AgentTypeOK,
       SuccessAccounted, CacheInStep, LeaseCurrent, OutcomesEarned
  <1>7. CASE ReportRejected
    BY <1>7 DEF ReportRejected, Holds, RunnerInv, TypeOK, AgentTypeOK,
       SuccessAccounted, CacheInStep, LeaseCurrent, OutcomesEarned
  <1>8. CASE ReportCancelled
    BY <1>8 DEF ReportCancelled, RunnerInv, TypeOK, AgentTypeOK, SuccessAccounted,
       CacheInStep, LeaseCurrent, OutcomesEarned
  <1>9. CASE HandleReply
    BY <1>9 DEF HandleReply, Return, RemoveOutcome, ForgetsAfter, RunnerInv,
       TypeOK, AgentTypeOK, SuccessAccounted, CacheInStep, LeaseCurrent,
       OutcomesEarned
  <1>10. CASE Restart
    BY <1>10 DEF Restart, RunnerInv, TypeOK, AgentTypeOK, SuccessAccounted,
       CacheInStep, LeaseCurrent, OutcomesEarned
  <1>11. CASE LookupFails
    BY <1>11 DEF LookupFails, Faulty, Return, RunnerInv, TypeOK, AgentTypeOK,
       SuccessAccounted, CacheInStep, LeaseCurrent, OutcomesEarned
  <1>12. CASE RecordFails
    BY <1>12 DEF RecordFails, Faulty, Return, RunnerInv, TypeOK, AgentTypeOK,
       SuccessAccounted, CacheInStep, LeaseCurrent, OutcomesEarned
  <1>13. CASE ReportUnanswered
    BY <1>13 DEF ReportUnanswered, Faulty, Reports, RunnerInv, TypeOK,
       AgentTypeOK, SuccessAccounted, CacheInStep, LeaseCurrent, OutcomesEarned
  <1>14. CASE HandleReplyKeepsOutcome
    BY <1>14 DEF HandleReplyKeepsOutcome, Faulty, Return, ForgetsAfter, RunnerInv,
       TypeOK, AgentTypeOK, SuccessAccounted, CacheInStep, LeaseCurrent,
       OutcomesEarned
  <1>15. CASE HeartbeatRejected
    BY <1>15 DEF HeartbeatRejected, Holds, RunnerInv, TypeOK, AgentTypeOK,
       SuccessAccounted, CacheInStep, LeaseCurrent, OutcomesEarned
  <1>16. CASE Shutdown
    BY <1>16 DEF Shutdown, Faulty, RunnerInv, TypeOK, AgentTypeOK,
       SuccessAccounted, CacheInStep, LeaseCurrent, OutcomesEarned
  <1>17. CASE Crash
    BY <1>17 DEF Crash, Faulty, Return, RunnerInv, TypeOK, AgentTypeOK,
       SuccessAccounted, CacheInStep, LeaseCurrent, OutcomesEarned
  <1>18. ASSUME NEW t \in Tasks, Claim(t) PROVE SuccessAccounted'
    BY <1>18 DEF Claim, RunnerInv, TypeOK, AgentTypeOK, SuccessAccounted,
       CacheInStep, LeaseCurrent, OutcomesEarned
  <1>19. ASSUME NEW t \in Tasks, ClaimAnswerLost(t) PROVE SuccessAccounted'
    BY <1>19 DEF ClaimAnswerLost, Faulty, RunnerInv, TypeOK, AgentTypeOK,
       SuccessAccounted, CacheInStep, LeaseCurrent, OutcomesEarned
  <1>20. ASSUME NEW t \in Tasks, ExpireLease(t) PROVE SuccessAccounted'
    BY <1>20 DEF ExpireLease, Faulty, Attended, RunnerInv, TypeOK, AgentTypeOK,
       SuccessAccounted, CacheInStep, LeaseCurrent, OutcomesEarned
  <1>21. ASSUME NEW t \in Tasks, Cancel(t) PROVE SuccessAccounted'
    BY <1>21 DEF Cancel, RunnerInv, TypeOK, AgentTypeOK, SuccessAccounted,
       CacheInStep, LeaseCurrent, OutcomesEarned
  <1>22. ASSUME NEW m \in late, DeliverLate(m) PROVE SuccessAccounted'
    BY <1>22 DEF DeliverLate, Holds, Verdict, Reports, RunnerInv, TypeOK,
       AgentTypeOK, SuccessAccounted, CacheInStep, LeaseCurrent, OutcomesEarned
  <1>23. CASE PollInVain
    BY <1>23 DEF PollInVain, RunnerInv, TypeOK, AgentTypeOK, SuccessAccounted,
       CacheInStep, LeaseCurrent, OutcomesEarned
  <1>24. CASE UNCHANGED vars
    BY <1>24 DEF RunnerInv, TypeOK, AgentTypeOK, SuccessAccounted, CacheInStep,
       LeaseCurrent, OutcomesEarned
  <1>25. QED
    BY <1>1, <1>2, <1>3, <1>4, <1>5, <1>6, <1>7, <1>8, <1>9, <1>10, <1>11, <1>12,
       <1>13, <1>14, <1>15, <1>16, <1>17, <1>18, <1>19, <1>20, <1>21, <1>22,
       <1>23, <1>24 DEF Next, AgentStep, AgentFault, ServerStep

\* A retryable failure reaches the report step only from the execution that ran
\* under the current lease.
LEMMA RetryStep == RunnerInv /\ [Next]_vars => RetryableReportIsFresh'
  <1> SUFFICES ASSUME RunnerInv, [Next]_vars PROVE RetryableReportIsFresh'
    OBVIOUS
  <1> USE RunnerAssumption
      DEF vars, serverVars, diskVars, agentVars, ghostVars, Outcomes
  <1>1. CASE ReportCached
    BY <1>1 DEF ReportCached, RunnerInv, TypeOK, AgentTypeOK,
       RetryableReportIsFresh, CacheInStep, LeaseCurrent
  <1>2. ASSUME NEW w \in Waits, StartExecution(w) PROVE RetryableReportIsFresh'
    BY <1>2 DEF StartExecution, RemoveOutcome, RunnerInv, TypeOK, AgentTypeOK,
       RetryableReportIsFresh, CacheInStep, LeaseCurrent
  <1>3. ASSUME NEW o \in Outcomes, FinishExecution(o) PROVE RetryableReportIsFresh'
    BY <1>3 DEF FinishExecution, Faulty, RunnerInv, TypeOK, AgentTypeOK,
       RetryableReportIsFresh, CacheInStep, LeaseCurrent
  <1>4. CASE DropResult
    BY <1>4 DEF DropResult, Return, RunnerInv, TypeOK, AgentTypeOK,
       RetryableReportIsFresh, CacheInStep, LeaseCurrent
  <1>5. CASE RecordOutcome
    BY <1>5 DEF RecordOutcome, PutOutcome, RunnerInv, TypeOK, AgentTypeOK,
       RetryableReportIsFresh, CacheInStep, LeaseCurrent
  <1>6. CASE ReportAccepted
    BY <1>6 DEF ReportAccepted, Holds, Verdict, RunnerInv, TypeOK, AgentTypeOK,
       RetryableReportIsFresh, CacheInStep, LeaseCurrent
  <1>7. CASE ReportRejected
    BY <1>7 DEF ReportRejected, Holds, RunnerInv, TypeOK, AgentTypeOK,
       RetryableReportIsFresh, CacheInStep, LeaseCurrent
  <1>8. CASE ReportCancelled
    BY <1>8 DEF ReportCancelled, RunnerInv, TypeOK, AgentTypeOK,
       RetryableReportIsFresh, CacheInStep, LeaseCurrent
  <1>9. CASE HandleReply
    BY <1>9 DEF HandleReply, Return, RemoveOutcome, ForgetsAfter, RunnerInv,
       TypeOK, AgentTypeOK, RetryableReportIsFresh, CacheInStep, LeaseCurrent
  <1>10. CASE Restart
    BY <1>10 DEF Restart, RunnerInv, TypeOK, AgentTypeOK, RetryableReportIsFresh,
       CacheInStep, LeaseCurrent
  <1>11. CASE LookupFails
    BY <1>11 DEF LookupFails, Faulty, Return, RunnerInv, TypeOK, AgentTypeOK,
       RetryableReportIsFresh, CacheInStep, LeaseCurrent
  <1>12. CASE RecordFails
    BY <1>12 DEF RecordFails, Faulty, Return, RunnerInv, TypeOK, AgentTypeOK,
       RetryableReportIsFresh, CacheInStep, LeaseCurrent
  <1>13. CASE ReportUnanswered
    BY <1>13 DEF ReportUnanswered, Faulty, Reports, RunnerInv, TypeOK,
       AgentTypeOK, RetryableReportIsFresh, CacheInStep, LeaseCurrent
  <1>14. CASE HandleReplyKeepsOutcome
    BY <1>14 DEF HandleReplyKeepsOutcome, Faulty, Return, ForgetsAfter, RunnerInv,
       TypeOK, AgentTypeOK, RetryableReportIsFresh, CacheInStep, LeaseCurrent
  <1>15. CASE HeartbeatRejected
    BY <1>15 DEF HeartbeatRejected, Holds, RunnerInv, TypeOK, AgentTypeOK,
       RetryableReportIsFresh, CacheInStep, LeaseCurrent
  <1>16. CASE Shutdown
    BY <1>16 DEF Shutdown, Faulty, RunnerInv, TypeOK, AgentTypeOK,
       RetryableReportIsFresh, CacheInStep, LeaseCurrent
  <1>17. CASE Crash
    BY <1>17 DEF Crash, Faulty, Return, RunnerInv, TypeOK, AgentTypeOK,
       RetryableReportIsFresh, CacheInStep, LeaseCurrent
  <1>18. ASSUME NEW t \in Tasks, Claim(t) PROVE RetryableReportIsFresh'
    BY <1>18 DEF Claim, RunnerInv, TypeOK, AgentTypeOK, RetryableReportIsFresh,
       CacheInStep, LeaseCurrent
  <1>19. ASSUME NEW t \in Tasks, ClaimAnswerLost(t) PROVE RetryableReportIsFresh'
    BY <1>19 DEF ClaimAnswerLost, Faulty, RunnerInv, TypeOK, AgentTypeOK,
       RetryableReportIsFresh, CacheInStep, LeaseCurrent
  <1>20. ASSUME NEW t \in Tasks, ExpireLease(t) PROVE RetryableReportIsFresh'
    BY <1>20 DEF ExpireLease, Faulty, Attended, RunnerInv, TypeOK, AgentTypeOK,
       RetryableReportIsFresh, CacheInStep, LeaseCurrent
  <1>21. ASSUME NEW t \in Tasks, Cancel(t) PROVE RetryableReportIsFresh'
    BY <1>21 DEF Cancel, RunnerInv, TypeOK, AgentTypeOK, RetryableReportIsFresh,
       CacheInStep, LeaseCurrent
  <1>22. ASSUME NEW m \in late, DeliverLate(m) PROVE RetryableReportIsFresh'
    BY <1>22 DEF DeliverLate, Holds, Verdict, Reports, RunnerInv, TypeOK,
       AgentTypeOK, RetryableReportIsFresh, CacheInStep, LeaseCurrent
  <1>23. CASE PollInVain
    BY <1>23 DEF PollInVain, RunnerInv, TypeOK, AgentTypeOK,
       RetryableReportIsFresh, CacheInStep, LeaseCurrent
  <1>24. CASE UNCHANGED vars
    BY <1>24 DEF RunnerInv, TypeOK, AgentTypeOK, RetryableReportIsFresh,
       CacheInStep, LeaseCurrent
  <1>25. QED
    BY <1>1, <1>2, <1>3, <1>4, <1>5, <1>6, <1>7, <1>8, <1>9, <1>10, <1>11, <1>12,
       <1>13, <1>14, <1>15, <1>16, <1>17, <1>18, <1>19, <1>20, <1>21, <1>22,
       <1>23, <1>24 DEF Next, AgentStep, AgentFault, ServerStep

-----------------------------------------------------------------------------
(* The theorems.                                                           *)

\* The variables of the runner stay well typed: the type invariant TLC checks,
\* for every set of tasks and every bound.
THEOREM TypeCorrect == Spec => []TypeOK
  <1>1. Init => TypeOK
    <2>1. Init => leaseLost \in BOOLEAN /\ stopping \in BOOLEAN
      BY Zenon DEF Init
    <2>2. QED
      BY <2>1 DEF Init, TypeOK, AgentTypeOK, Outcomes, Statuses, Steps, Waits, Reports
  <1>2. QED
    BY <1>1, TypeStep, PTL DEF Spec

\* RunnerInv holds in every state: the agent only holds and reports outcomes its
\* executions produced, under the last lease, and never loses a success except
\* by pruning.
THEOREM RunnerInvariant == Spec => []RunnerInv
  <1>1. Init /\ TypeOK => RunnerInv
    BY DEF Init, RunnerInv, OutcomesEarned, LeaseCurrent, CacheInStep,
           SuccessAccounted, RetryableReportIsFresh
  <1>2. RunnerInv /\ [Next]_vars => RunnerInv'
    <2>1. RunnerInv => TypeOK
      BY DEF RunnerInv
    <2>2. QED
      BY <2>1, TypeStep, EarnedStep, LeaseStep, CacheStep, SuccessStep, RetryStep
         DEF RunnerInv
  <1>3. QED
    BY <1>1, <1>2, TypeCorrect, PTL DEF Spec

\* A task whose success was recorded is not executed to success again, across
\* crashes, restarts, lost reports and expired leases, unless its outcome was
\* pruned (executeClaimedTask's lookup, acknowledgeTaskOutcome's removal rule).
THEOREM SuccessOnce == Spec => []SuccessRecordedOnce
  <1>1. RunnerInv => SuccessRecordedOnce
    BY DEF RunnerInv, TypeOK, SuccessAccounted, SuccessRecordedOnce
  <1>2. QED
    BY <1>1, RunnerInvariant, PTL

\* A success on disk is never turned into a failure at the control plane, not
\* even by an older report of the task that is delivered late.
THEOREM SuccessStands == Spec => []SuccessNeverReportedFailed
  <1>1. RunnerInv => SuccessNeverReportedFailed
    BY DEF RunnerInv, TypeOK, SuccessAccounted, SuccessNeverReportedFailed
  <1>2. QED
    BY <1>1, RunnerInvariant, PTL

\* A retryable failure is only reported by the execution of the current lease:
\* one found in the cache is executed again (comment in executeClaimedTask).
THEOREM RetryFresh == Spec => []RetryableReportIsFresh
  <1>1. RunnerInv => RetryableReportIsFresh
    BY DEF RunnerInv
  <1>2. QED
    BY <1>1, RunnerInvariant, PTL

-----------------------------------------------------------------------------
(* Refinement.                                                             *)

\* A verdict given to a leased task by an outcome it produced is a conclusion of
\* the ledger; a retryable failure that is queued again is no step of it.
LEMMA VerdictConcludes ==
  ASSUME NEW t \in Tasks, NEW o \in Outcomes, TypeOK,
         status[t] = "leased", o \in produced[t],
         Verdict(t, o), UNCHANGED produced
  PROVE  [Ledger!LedgerNext]_(Ledger!ledgerVars)
  <1>1. CASE status' = [status EXCEPT ![t] = "queued"]
    BY <1>1 DEF Ledger!ledgerVars, TypeOK, Settled
  <1>2. CASE /\ status' # [status EXCEPT ![t] = "queued"]
    <2>1. Ledger!Conclude(t, o)
      BY <1>2 DEF Verdict, Ledger!Conclude, TypeOK, Settled, Outcomes
    <2>2. QED
      BY <2>1 DEF Ledger!LedgerNext, Ledger!Outcomes, Outcomes
  <1>3. QED
    BY <1>1, <1>2

\* Every step of the runner is a step of the ledger or leaves it unchanged.
LEMMA LedgerStep ==
  RunnerInv /\ [Next]_vars => [Ledger!LedgerNext]_(Ledger!ledgerVars)
  <1> SUFFICES ASSUME RunnerInv, [Next]_vars
               PROVE  [Ledger!LedgerNext]_(Ledger!ledgerVars)
    OBVIOUS
  <1> USE DEF vars, serverVars, diskVars, agentVars, ghostVars
  <1>1. CASE ReportCached
    BY <1>1 DEF ReportCached, Ledger!ledgerVars
  <1>2. ASSUME NEW w \in Waits, StartExecution(w)
         PROVE [Ledger!LedgerNext]_(Ledger!ledgerVars)
    BY <1>2 DEF StartExecution, Ledger!ledgerVars
  <1>3. ASSUME NEW o \in Outcomes, FinishExecution(o)
         PROVE [Ledger!LedgerNext]_(Ledger!ledgerVars)
    <2>1. task \in Tasks /\ status[task] \notin {"completed", "failed"}
      BY <1>3 DEF FinishExecution, RunnerInv, TypeOK, AgentTypeOK, LeaseCurrent
    <2>2. Ledger!Execute(task, o)
      BY <1>3, <2>1 DEF FinishExecution, Ledger!Execute, RunnerInv, TypeOK, Settled
    <2>3. QED
      BY <1>3, <2>1, <2>2 DEF Ledger!LedgerNext, Ledger!Outcomes, Outcomes
  <1>4. CASE DropResult
    BY <1>4 DEF DropResult, Ledger!ledgerVars
  <1>5. CASE RecordOutcome
    BY <1>5 DEF RecordOutcome, Ledger!ledgerVars
  <1>6. CASE ReportAccepted
    <2>1. /\ task \in Tasks /\ outcome \in Outcomes /\ outcome \in produced[task]
          /\ status[task] = "leased"
    BY <1>6 DEF ReportAccepted, Holds, RunnerInv, TypeOK, AgentTypeOK,
       OutcomesEarned
    <2>2. QED
      BY <1>6, <2>1, VerdictConcludes DEF ReportAccepted, RunnerInv
  <1>7. CASE ReportRejected
    BY <1>7 DEF ReportRejected, Ledger!ledgerVars
  <1>8. CASE ReportCancelled
    BY <1>8 DEF ReportCancelled, Ledger!ledgerVars
  <1>9. CASE HandleReply
    BY <1>9 DEF HandleReply, Ledger!ledgerVars
  <1>10. CASE Restart
    BY <1>10 DEF Restart, Ledger!ledgerVars
  <1>11. CASE LookupFails
    BY <1>11 DEF LookupFails, Ledger!ledgerVars
  <1>12. CASE RecordFails
    BY <1>12 DEF RecordFails, Ledger!ledgerVars
  <1>13. CASE ReportUnanswered
    BY <1>13 DEF ReportUnanswered, Ledger!ledgerVars
  <1>14. CASE HandleReplyKeepsOutcome
    BY <1>14 DEF HandleReplyKeepsOutcome, Ledger!ledgerVars
  <1>15. CASE HeartbeatRejected
    BY <1>15 DEF HeartbeatRejected, Ledger!ledgerVars
  <1>16. CASE Shutdown
    BY <1>16 DEF Shutdown, Ledger!ledgerVars
  <1>17. CASE Crash
    BY <1>17 DEF Crash, Ledger!ledgerVars
  <1>18. ASSUME NEW t \in Tasks, Claim(t)
         PROVE [Ledger!LedgerNext]_(Ledger!ledgerVars)
    BY <1>18 DEF Claim, Ledger!ledgerVars, RunnerInv, TypeOK, Settled
  <1>19. ASSUME NEW t \in Tasks, ClaimAnswerLost(t)
         PROVE [Ledger!LedgerNext]_(Ledger!ledgerVars)
    BY <1>19 DEF ClaimAnswerLost, Ledger!ledgerVars, RunnerInv, TypeOK, Settled
  <1>20. ASSUME NEW t \in Tasks, ExpireLease(t)
         PROVE [Ledger!LedgerNext]_(Ledger!ledgerVars)
    BY <1>20 DEF ExpireLease, Ledger!ledgerVars, RunnerInv, TypeOK, Settled
  <1>21. ASSUME NEW t \in Tasks, Cancel(t)
         PROVE [Ledger!LedgerNext]_(Ledger!ledgerVars)
    <2>1. Ledger!CancelTask(t)
      BY <1>21 DEF Cancel, Ledger!CancelTask, RunnerInv, TypeOK, Settled
    <2>2. QED
      BY <2>1 DEF Ledger!LedgerNext
  <1>22. ASSUME NEW m \in late, DeliverLate(m)
         PROVE [Ledger!LedgerNext]_(Ledger!ledgerVars)
    <2>1. m.task \in Tasks /\ m.outcome \in Outcomes /\ m.outcome \in
       produced[m.task]
      BY DEF RunnerInv, TypeOK, Reports, OutcomesEarned
    <2>2. CASE Holds(m.task, m.lease)
      BY <1>22, <2>1, <2>2, VerdictConcludes DEF DeliverLate, Holds, RunnerInv
    <2>3. CASE ~Holds(m.task, m.lease)
      BY <1>22, <2>3 DEF DeliverLate, Ledger!ledgerVars
    <2>4. QED
      BY <2>2, <2>3
  <1>23. CASE PollInVain
    BY <1>23 DEF PollInVain, Ledger!ledgerVars
  <1>24. CASE UNCHANGED vars
    BY <1>24 DEF Ledger!ledgerVars
  <1>25. QED
    BY <1>1, <1>2, <1>3, <1>4, <1>5, <1>6, <1>7, <1>8, <1>9, <1>10, <1>11, <1>12,
       <1>13, <1>14, <1>15, <1>16, <1>17, <1>18, <1>19, <1>20, <1>21, <1>22,
       <1>23, <1>24 DEF Next, AgentStep, AgentFault, ServerStep

\* The runner implements the ledger: a verdict repeats an outcome that some
\* execution of the task produced, it never changes, and a task that has it is
\* not executed again.
THEOREM RefinesLedger == Spec => ImplementsLedger
  <1>1. Init => Ledger!LedgerInit
    BY DEF Init, Ledger!LedgerInit, Settled
  <1>2. Spec => Ledger!LedgerSpec
    BY <1>1, LedgerStep, RunnerInvariant, PTL DEF Spec, Ledger!LedgerSpec
  <1>3. QED
    BY <1>2, PTL DEF ImplementsLedger
=============================================================================
