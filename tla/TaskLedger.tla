----------------------------- MODULE TaskLedger -----------------------------
(***************************************************************************)
(* What the task runner promises the control plane, with no lease, cache,  *)
(* message or crash in it: a task has a verdict only when some execution   *)
(* of it produced that verdict's outcome, the verdict never changes once   *)
(* it is final, and a task that has its verdict is not executed again.     *)
(***************************************************************************)
CONSTANT Tasks

VARIABLES produced,  \* the outcomes that executions of each task have produced
          verdict    \* what the control plane holds about each task

ledgerVars == <<produced, verdict>>

\* "completed" and "failed" as the agent reports them; "retryable" is a failure
\* the agent marks retryable.
Outcomes == {"completed", "failed", "retryable"}
Verdicts == {"open", "completed", "failed", "cancelled"}

LedgerTypeOK ==
    /\ produced \in [Tasks -> SUBSET Outcomes]
    /\ verdict \in [Tasks -> Verdicts]

LedgerInit ==
    /\ produced = [t \in Tasks |-> {}]
    /\ verdict = [t \in Tasks |-> "open"]

\* A task without a verdict may be executed, any number of times; a cancelled
\* one may still be running.
Execute(t, o) ==
    /\ verdict[t] \in {"open", "cancelled"}
    /\ produced' = [produced EXCEPT ![t] = @ \union {o}]
    /\ UNCHANGED verdict

\* A verdict repeats an outcome that was produced.
Conclude(t, o) ==
    /\ verdict[t] = "open"
    /\ o \in produced[t]
    /\ verdict' = [verdict EXCEPT ![t] = IF o = "completed" THEN "completed" ELSE "failed"]
    /\ UNCHANGED produced

CancelTask(t) ==
    /\ verdict[t] = "open"
    /\ verdict' = [verdict EXCEPT ![t] = "cancelled"]
    /\ UNCHANGED produced

LedgerNext ==
    \E t \in Tasks :
        \/ \E o \in Outcomes : Execute(t, o) \/ Conclude(t, o)
        \/ CancelTask(t)

LedgerSpec == LedgerInit /\ [][LedgerNext]_ledgerVars
=============================================================================
