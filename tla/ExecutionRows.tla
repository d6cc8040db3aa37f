---------------------------- MODULE ExecutionRows ----------------------------
(***************************************************************************)
(* The rows an execution job reads and writes (Execution, ExecutionTask,   *)
(* Job) reduced to the columns that decide what the handlers do, and the   *)
(* pure derivations of ExecutionService on them.  A task's result_payload  *)
(* is reduced to the last runner status persisted in it.                   *)
(***************************************************************************)
EXTENDS Naturals

CONSTANT NTasks     \* bound: ExecutionTask rows a plan can have

ASSUME NTasksAssumption == NTasks \in Nat

\* ids of ExecutionTask rows, in the order (priority, created_at)
TaskIds == 1..NTasks

\* TaskStatus; "analyzing" is declared in the code and never assigned
TaskStatus == {"queued", "running", "completed", "failed", "cancelled"}
JobStatus  == {"queued", "running", "completed", "failed", "cancelled"}
\* stages a committed row can have: OBSERVE is always left before the commit
Stage      == {"PREPARE", "EXECUTE", "ANALYZE", "NORMALIZE", "GATE"}

Terminal(status) == status \in {"completed", "failed", "cancelled"}

\* result_payload.runnerStatus of a task; "none": no runner result persisted
RunnerStatus == {"none", "completed", "failed", "failed_unsafe", "cancelled"}

ExecutionRow == [status : TaskStatus, stage : Stage]

(***************************************************************************)
(* What one call of the task's runner can end in.  "finding" is a          *)
(* completed run that reported a blocking finding, "failed_unsafe" a       *)
(* failed one whose tool status is not safe to retry, "manual" a manual    *)
(* simulation and "blocked" the visual grounding refusal; those two settle *)
(* the task without any runner result.                                     *)
(***************************************************************************)
AllOutcomes ==
  {"completed", "finding", "failed", "failed_unsafe", "cancelled", "manual", "blocked"}

DeriveTaskStatus(outcome) ==
  CASE outcome \in {"completed", "manual"} -> "completed"
    [] outcome = "cancelled"               -> "cancelled"
    [] OTHER                               -> "failed"

PersistRunnerResult(old, outcome) ==
  CASE outcome = "finding"               -> "completed"
    [] outcome \in {"manual", "blocked"} -> old
    [] OTHER                             -> outcome

RunnerFailed(payload, t) == payload[t] \in {"failed", "failed_unsafe"}

ExecutionTerminalStatus(task, payload) ==
  IF \E t \in DOMAIN task : task[t] = "cancelled"
    THEN "cancelled"
    ELSE IF \E t \in DOMAIN task : RunnerFailed(payload, t) \/ ~Terminal(task[t])
           THEN "failed"
           ELSE "completed"

\* normalize_execution leaves the stage NORMALIZE
Reduced(status) == [status |-> status, stage |-> "NORMALIZE"]

\* TaskStatus and JobStatus share the value of every terminal status
FailureReportedCompleted(status) == IF status = "cancelled" THEN status ELSE "completed"

JobStatusForExecution(status) ==
  IF status \in {"cancelled", "failed"} THEN status ELSE "completed"

FailNonterminalTasks(task) ==
  [t \in DOMAIN task |-> IF Terminal(task[t]) THEN task[t] ELSE "failed"]

PrepareTasks(task) == [t \in DOMAIN task |-> "queued"]

=============================================================================
