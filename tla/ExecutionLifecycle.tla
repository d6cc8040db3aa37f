-------------------------- MODULE ExecutionLifecycle --------------------------
(***************************************************************************)
(* One execution over its whole life in the default mode, where a single   *)
(* worker runs all tasks of a job in one transaction: the first run, the   *)
(* retries, healing and the gate, each a job of its own with its own       *)
(* message, together with the API requests that create those jobs, cancel  *)
(* the execution or update one of its findings.                            *)
(*                                                                         *)
(* A handler loads its rows, and from its first flush to its commit holds  *)
(* the row locks of what it has written; an UPDATE is issued only for a    *)
(* column whose value differs from the one loaded, so a handler that       *)
(* changes nothing in a row does not lock it.  The variables are the       *)
(* committed rows.  The two selects that load the job and the execution    *)
(* are one step.                                                           *)
(***************************************************************************)
EXTENDS ExecutionRows, FiniteSetsExt

CONSTANTS
  Workers,          \* Celery worker processes
  RunJob,           \* the job of the first run
  GateJob,          \* the job of every gate request: its idempotency key is the execution
  FailedRetries,    \* retry jobs of scope "failed_only"
  FullRetries,      \* retry jobs of scope "all"
  HealJobs,         \* heal jobs
  Cancels,          \* cancel requests
  Outcomes,         \* runner outcomes considered
  Reviews,          \* finding updates
  MaxGates,         \* bound: gate requests
  MaxFaults,        \* bound, per kind: the environment's faults
  MaxFaultsInAll    \* bound: faults of all kinds together

RetryJobs == FailedRetries \cup FullRetries
TestJobs  == {RunJob} \cup RetryJobs
Jobs      == TestJobs \cup HealJobs \cup {GateJob}
NoJob     == "no job"

FaultKinds == {"publish", "redeliver", "crash", "raise", "block"}

ASSUME LifecycleAssumption ==
  /\ Outcomes \subseteq {"completed", "finding", "failed", "failed_unsafe", "cancelled"}
  /\ TestJobs \cap (HealJobs \cup {GateJob}) = {} /\ RunJob \notin RetryJobs
  /\ MaxGates \in Nat
  /\ MaxFaults \in [FaultKinds -> Nat] /\ MaxFaultsInAll \in Nat

VARIABLES
  exec,       \* the Execution row
  job,        \* status of each Job row; "absent": not created
  task,       \* status of each ExecutionTask row
  payload,    \* result_payload.runnerStatus of each task
  attempts,   \* result_payload.attempts of each task: the jobs that recorded one
  decision,   \* the GateDecision row: none, or whether the gate that made it held the
              \* execution's row ("exclusive") or had nothing to write there ("alongside")
  api,        \* per job: the request that creates and dispatches it, rows it loaded
  cancel,     \* per cancel request: program point and tasks it loaded
  update,     \* per finding update: what its DELETE of the decision found
  worker,     \* per worker: program point, job, loaded rows
  ready,      \* messages waiting in the broker, named by their job
  gates,      \* gate requests so far
  faults      \* faults of the environment so far

rows == <<exec, job, task, payload, attempts, decision>>
vars == <<exec, job, task, payload, attempts, decision,
          api, cancel, update, worker, ready, gates, faults>>

Running(stage) == [status |-> "running", stage |-> stage]

IdleWorker == [pc |-> "idle", job |-> NoJob, jobSeen |-> "queued",
               execSeen |-> [status |-> "queued", stage |-> "PREPARE"],
               tasks |-> {}, queued |-> {}, attempts |-> [t \in TaskIds |-> {}],
               reset |-> "not_yet", decides |-> FALSE]

IdleRequest == [pc |-> "idle", tasks |-> {}, execSeen |-> "queued", jobSeen |-> "queued"]

Init ==
  /\ exec = [status |-> "queued", stage |-> "PREPARE"]
  /\ job = [j \in Jobs |-> IF j = RunJob THEN "queued" ELSE "absent"]
  /\ task = [t \in TaskIds |-> "queued"]
  /\ payload = [t \in TaskIds |-> "none"]
  /\ attempts = [t \in TaskIds |-> {}]
  /\ decision = "none"
  /\ api = [j \in Jobs |-> [IdleRequest EXCEPT !.pc = IF j = RunJob THEN "publish" ELSE @]]
  /\ cancel = [r \in Cancels |-> [pc |-> "idle", tasks |-> {}]]
  /\ update = [r \in Reviews |-> "idle"]
  /\ worker = [w \in Workers |-> IdleWorker]
  /\ ready = {}
  /\ gates = 0
  /\ faults = [k \in FaultKinds |-> 0]

Count(kind) ==
  /\ faults[kind] < MaxFaults[kind]
  /\ MapThenSumSet(LAMBDA k : faults[k], FaultKinds) < MaxFaultsInAll
  /\ faults' = [faults EXCEPT ![kind] = @ + 1]

At(w, pc)   == worker[w].pc = pc
Goto(w, pc) == worker' = [worker EXCEPT ![w].pc = pc]

\* a transaction's end forgets what it loaded, but original_stage of a heal job
KeptStage(w) == IF worker[w].job \in HealJobs THEN worker[w].execSeen.stage ELSE "PREPARE"
Forget(w, pc) ==
  worker' = [worker EXCEPT ![w] =
    [IdleWorker EXCEPT !.pc = pc, !.job = worker[w].job,
                       !.execSeen = [status |-> "queued", stage |-> KeptStage(w)]]]
Done(w) == Forget(w, "ack")

Nonterminal == {t \in TaskIds : ~Terminal(task[t])}

-----------------------------------------------------------------------------
(* Row locks; whoever writes task rows writes the execution row as well    *)

\* the first flush of a run or a retry writes the execution unless it was loaded
\* as RUNNING, PREPARE; then the flush of the stage EXECUTE is the first to do so
FirstFlushWritesExec(w) == worker[w].execSeen # Running("PREPARE")
\* the first flush of a heal job writes the stage ANALYZE
HealWritesExec(w) == worker[w].execSeen.stage # "ANALYZE"

\* mutated: the stages of a run are only written by its commit
FlushedAtCommit(w) == At(w, "healing") /\ HealWritesExec(w)
HoldsExec(w) ==
  \/ At(w, "executing")
  \/ At(w, "healing") /\ HealWritesExec(w)
HoldsJob(w, j) ==
  /\ worker[w].job = j
  /\ \/ worker[w].pc \in {"executing", "healing", "gating"}
     \/ At(w, "loaded") /\ worker[w].reset # "not_yet"

ExecFree        == \A w \in Workers : ~HoldsExec(w)
JobFree(j)      == \A w \in Workers : ~HoldsJob(w, j)
\* "gate-evaluation" advisory lock
GateLockFree    == \A w \in Workers : ~At(w, "gating")

\* nobody has deleted the decision without having committed yet; a DELETE that
\* finds no row locks nothing
DecisionRowFree ==
  /\ \A r \in Reviews : update[r] # "found"
  /\ \A w \in Workers : worker[w].reset # "found"

\* what a DELETE of the decision finds among the committed rows
Deletion == IF decision = "none" THEN "missed" ELSE "found"

-----------------------------------------------------------------------------
(* API requests that create a job, and their dispatch                      *)

\* execute_approved_retry: the execution is queued again, whatever its status
RequestRetry(j) ==
  /\ j \in RetryJobs /\ job[j] = "absent"
  /\ exec = [status |-> "queued", stage |-> "PREPARE"] \/ ExecFree
  /\ exec' = [status |-> "queued", stage |-> "PREPARE"]
  /\ job' = [job EXCEPT ![j] = "queued"]
  /\ api' = [api EXCEPT ![j].pc = "publish"]
  /\ UNCHANGED <<task, payload, attempts, decision, cancel, update, worker, ready,
                 gates, faults>>

RequestHeal(j) ==
  /\ j \in HealJobs /\ job[j] = "absent"
  /\ job' = [job EXCEPT ![j] = "queued"]
  /\ api' = [api EXCEPT ![j].pc = "publish"]
  /\ UNCHANGED <<exec, task, payload, attempts, decision, cancel, update, worker,
                 ready, gates, faults>>

\* gate and prepare_gate_job: one job for all gate requests of the execution
RequestGate ==
  /\ gates < MaxGates
  /\ decision = "none"
  /\ api[GateJob].pc \in {"idle", "done"}
  /\ gates' = gates + 1
  /\ job' = [job EXCEPT ![GateJob] = IF @ = "absent" THEN "queued" ELSE @]
  /\ api' = [api EXCEPT ![GateJob].pc = "publish"]
  /\ UNCHANGED <<exec, task, payload, attempts, decision, cancel, update, worker,
                 ready, faults>>

Publish(j) ==
  /\ api[j].pc = "publish"
  /\ api' = [api EXCEPT ![j].pc = "done"]
  /\ ready' = ready \cup {j}
  /\ UNCHANGED <<rows, cancel, update, worker, gates, faults>>

\* rejected by the broker, or accepted all the same; then
\* _record_queue_dispatch_failure loads the rows, and later writes them
PublishRaises(j) ==
  /\ api[j].pc = "publish"
  /\ Count("publish")
  /\ ready' \in {ready, ready \cup {j}}
  /\ api' = [api EXCEPT ![j].pc = "rolled_back"]
  /\ UNCHANGED <<rows, cancel, update, worker, gates>>

DispatchFailureLoad(j) ==
  /\ api[j].pc = "rolled_back"
  /\ api' = [api EXCEPT ![j] = [pc |-> "failing", tasks |-> Nonterminal,
                                execSeen |-> exec.status, jobSeen |-> job[j]]]
  /\ UNCHANGED <<rows, cancel, update, worker, ready, gates, faults>>

\* a column whose value is the one loaded is not written
Write(seen, value, now) == IF seen = value THEN now ELSE value
Fail(seen, now)         == Write(seen, "failed", now)

KeepTasks(S) == task' = task
FailTasks(S) == task' = [t \in TaskIds |-> IF t \in S THEN "failed" ELSE task[t]]

DispatchFailureCommit(j) ==
  /\ api[j].pc = "failing"
  /\ ExecFree /\ JobFree(j)
  /\ exec' = [exec EXCEPT !.status = Fail(api[j].execSeen, @)]
  /\ job' = [job EXCEPT ![j] = Fail(api[j].jobSeen, @)]
  /\ FailTasks(api[j].tasks)
  /\ api' = [api EXCEPT ![j] = [IdleRequest EXCEPT !.pc = "done"]]
  /\ UNCHANGED <<payload, attempts, decision, cancel, update, worker, ready, gates, faults>>

-----------------------------------------------------------------------------
(* cancel and execute_approved_finding_update                              *)

CancelRead(r) ==
  /\ cancel[r].pc = "idle"
  /\ ~Terminal(exec.status)
  /\ cancel' = [cancel EXCEPT ![r].pc = "admitted"]
  /\ UNCHANGED <<rows, api, update, worker, ready, gates, faults>>

CancelLoadTasks(r) ==
  /\ cancel[r].pc = "admitted"
  /\ cancel' = [cancel EXCEPT ![r] = [pc |-> "loaded", tasks |-> Nonterminal]]
  /\ UNCHANGED <<rows, api, update, worker, ready, gates, faults>>

CancelCommit(r) ==
  /\ cancel[r].pc = "loaded"
  /\ ExecFree
  /\ exec' = [exec EXCEPT !.status = "cancelled"]
  /\ task' = [t \in TaskIds |-> IF t \in cancel[r].tasks THEN "cancelled" ELSE task[t]]
  /\ cancel' = [cancel EXCEPT ![r] = [pc |-> "done", tasks |-> {}]]
  /\ UNCHANGED <<job, payload, attempts, decision, api, update, worker, ready, gates, faults>>

\* the DELETE of _invalidate_gate_decision, under no lock but that of the row it
\* finds; a gate that has not committed yet is not seen.  Findings exist once
\* results do
UpdateFinding(r) ==
  /\ update[r] = "idle"
  /\ \E t \in TaskIds : attempts[t] # {}
  /\ DecisionRowFree
  /\ update' = [update EXCEPT ![r] = Deletion]
  /\ UNCHANGED <<rows, api, cancel, worker, ready, gates, faults>>

\* the commit, or a rollback
UpdateEnds(r) ==
  /\ update[r] \in {"found", "missed"}
  /\ decision' \in {decision, IF update[r] = "found" THEN "none" ELSE decision}
  /\ update' = [update EXCEPT ![r] = "done"]
  /\ UNCHANGED <<exec, job, task, payload, attempts, api, cancel, worker, ready, gates, faults>>

-----------------------------------------------------------------------------
(* Loading a job's rows                                                    *)

TakeMessage(w) ==
  /\ At(w, "idle")
  /\ \E j \in ready :
       /\ ready' = ready \ {j}
       /\ worker' = [worker EXCEPT ![w] = [IdleWorker EXCEPT !.pc = "taken", !.job = j]]
  /\ UNCHANGED <<rows, api, cancel, update, gates, faults>>

FailedAndSafe(t) == task[t] = "failed" /\ payload[t] # "failed_unsafe"

\* _tasks_for_retry_scope
TasksForRetryScope(j) == IF j \in FailedRetries THEN {t \in TaskIds : FailedAndSafe(t)} ELSE TaskIds

LoadAt(w, pc, tasks) ==
  worker' = [worker EXCEPT ![w] =
    [@ EXCEPT !.pc = pc, !.execSeen = exec, !.jobSeen = job[worker[w].job], !.tasks = tasks,
              !.queued = {t \in tasks : task[t] = "queued"},
              !.attempts = [t \in TaskIds |-> IF t \in tasks THEN attempts[t] ELSE {}]]]

LoadDeduplicated(w) ==
  /\ At(w, "taken")
  /\ job[worker[w].job] = "completed"
  /\ Done(w)
  /\ UNCHANGED <<rows, api, cancel, update, ready, gates, faults>>

LoadRun(w) ==
  /\ At(w, "taken") /\ worker[w].job = RunJob
  /\ job[RunJob] # "completed"
  /\ LoadAt(w, IF exec.status = "cancelled" THEN "cancelled" ELSE "loaded", TaskIds)
  /\ UNCHANGED <<rows, api, cancel, update, ready, gates, faults>>

RunCancelled(w) ==
  /\ At(w, "cancelled")
  /\ JobFree(RunJob)
  /\ job' = [job EXCEPT ![RunJob] = "cancelled"]
  /\ Done(w)
  /\ UNCHANGED <<exec, task, payload, attempts, decision, api, cancel, update, ready,
                 gates, faults>>

LoadRetry(w) ==
  /\ At(w, "taken") /\ worker[w].job \in RetryJobs
  /\ job[worker[w].job] # "completed"
  /\ TasksForRetryScope(worker[w].job) # {}
  /\ LoadAt(w, "loaded", TasksForRetryScope(worker[w].job))
  /\ UNCHANGED <<rows, api, cancel, update, ready, gates, faults>>

\* "no tasks matched retry scope": raised outside the try block
RetryUnmatched(w) ==
  /\ At(w, "taken") /\ worker[w].job \in RetryJobs
  /\ job[worker[w].job] # "completed"
  /\ TasksForRetryScope(worker[w].job) = {}
  /\ Done(w)
  /\ UNCHANGED <<rows, api, cancel, update, ready, gates, faults>>

-----------------------------------------------------------------------------
(* run_execution_job and run_retry_job                                     *)

\* a retry whose first flush leaves the execution alone resets its outputs before
\* it has the execution's row
ResetFirst(w) ==
  /\ At(w, "loaded") /\ worker[w].job \in RetryJobs
  /\ ~FirstFlushWritesExec(w)
  /\ worker[w].reset = "not_yet"
  /\ JobFree(worker[w].job) /\ DecisionRowFree
  /\ worker' = [worker EXCEPT ![w].reset = Deletion]
  /\ UNCHANGED <<rows, api, cancel, update, ready, gates, faults>>

\* the flushes before the runners; a run loads its tasks after the first one, a
\* retry keeps those it has and resets its outputs now, if it has not yet
BeginRun(w) ==
  /\ worker[w].job = RunJob
  /\ JobFree(RunJob)
  /\ worker' = [worker EXCEPT ![w] =
       IF FirstFlushWritesExec(w)
         THEN [@ EXCEPT !.pc = "executing", !.attempts = attempts,
                        !.queued = {t \in TaskIds : task[t] = "queued"}]
         ELSE [@ EXCEPT !.pc = "executing"]]

BeginRetry(w) ==
  /\ worker[w].job \in RetryJobs
  /\ FirstFlushWritesExec(w) => JobFree(worker[w].job) /\ DecisionRowFree
  /\ ~FirstFlushWritesExec(w) => worker[w].reset # "not_yet"
  /\ worker' = [worker EXCEPT ![w] =
       [@ EXCEPT !.pc = "executing",
                 !.reset = IF FirstFlushWritesExec(w) THEN Deletion ELSE worker[w].reset]]

Begin(w) ==
  /\ At(w, "loaded")
  /\ ExecFree
  /\ BeginRun(w) \/ BeginRetry(w)
  /\ UNCHANGED <<rows, api, cancel, update, ready, gates, faults>>

\* results of the tasks in S: status, runner status and one more attempt; the
\* others are QUEUED again
Record(w, S) ==
  \E outcome \in [S -> Outcomes] :
    /\ task' = [t \in TaskIds |->
         IF t \in S THEN DeriveTaskStatus(outcome[t])
         ELSE IF t \in worker[w].tasks \ worker[w].queued THEN "queued" ELSE task[t]]
    /\ payload' = [t \in TaskIds |->
         IF t \in S THEN PersistRunnerResult(payload[t], outcome[t]) ELSE payload[t]]
    /\ attempts' = [t \in TaskIds |->
         IF t \in S THEN worker[w].attempts[t] \cup {worker[w].job} ELSE attempts[t]]

\* _reset_retry_outputs
ResetRetryOutputs(w) == IF worker[w].reset = "found" THEN "none" ELSE decision

Commit(w) ==
  /\ At(w, "executing")
  /\ Record(w, worker[w].tasks)
  /\ exec' = Reduced(ExecutionTerminalStatus(task', payload'))
  /\ job' = [job EXCEPT ![worker[w].job] = JobStatusForExecution(exec'.status)]
  /\ decision' = ResetRetryOutputs(w)
  /\ Done(w)
  /\ UNCHANGED <<api, cancel, update, ready, gates, faults>>

\* an exception in the try block, before the commit or (the connection fails
\* once the server has accepted COMMIT) after it
Raise(w) ==
  /\ \/ HoldsJob(w, worker[w].job)
     \/ At(w, "ack") /\ job[worker[w].job] = "completed"
  /\ Count("raise")
  /\ Forget(w, "rolled_back")
  /\ UNCHANGED <<rows, api, cancel, update, ready, gates>>

JobRunning(w) == job' = [job EXCEPT ![worker[w].job] = Write(worker[w].jobSeen, "running", @)]

\* a guardrail that blocks an agent commits the transaction as it stands, and
\* then raises: before a task is run, or during the analysis of all of them
GuardrailBlock(w) ==
  /\ At(w, "executing")
  /\ Count("block")
  /\ \E done \in SUBSET worker[w].tasks :
       /\ Record(w, done)
       /\ exec' = [status |-> Write(worker[w].execSeen.status, "running", exec.status),
                   stage  |-> IF done = worker[w].tasks THEN "ANALYZE" ELSE "EXECUTE"]
  /\ JobRunning(w)
  /\ decision' = ResetRetryOutputs(w)
  /\ Forget(w, "rolled_back")
  /\ UNCHANGED <<api, cancel, update, ready, gates>>

\* a gate writes only its job, and a heal job whose stage is the one loaded too
FailsJobOnly(w) ==
  \/ worker[w].job = GateJob
  \/ worker[w].job \in HealJobs /\ exec.stage = worker[w].execSeen.stage

\* _recover_committed_job, else load the rows the compensation writes
Recover(w) ==
  /\ At(w, "rolled_back")
  /\ IF job[worker[w].job] = "completed" THEN Done(w)
     ELSE worker' = [worker EXCEPT ![w] =
            [@ EXCEPT !.pc = IF FailsJobOnly(w) THEN "failing_job" ELSE "failing",
                      !.jobSeen = job[worker[w].job],
                      !.execSeen.status = exec.status, !.tasks = Nonterminal]]
  /\ UNCHANGED <<rows, api, cancel, update, ready, gates, faults>>

FailJob(w)       == job' = [job EXCEPT ![worker[w].job] = Fail(worker[w].jobSeen, @)]
KeepExecution(w) == exec
FailExecution(w) == [exec EXCEPT !.status = Fail(worker[w].execSeen.status, @)]

FailJobCommit(w) ==
  /\ At(w, "failing_job")
  /\ JobFree(worker[w].job)
  /\ FailJob(w)
  /\ Done(w)
  /\ UNCHANGED <<exec, task, payload, attempts, decision, api, cancel, update, ready,
                 gates, faults>>

FailCommit(w) ==
  /\ At(w, "failing") /\ worker[w].job \in TestJobs
  /\ ExecFree /\ JobFree(worker[w].job)
  /\ exec' = FailExecution(w)
  /\ FailJob(w)
  /\ FailTasks(worker[w].tasks)
  /\ Done(w)
  /\ UNCHANGED <<payload, attempts, decision, api, cancel, update, ready, gates, faults>>

-----------------------------------------------------------------------------
(* run_heal_job                                                            *)

LoadHeal(w) ==
  /\ At(w, "taken") /\ worker[w].job \in HealJobs
  /\ job[worker[w].job] # "completed"
  /\ LoadAt(w, "load_heal", {})
  /\ UNCHANGED <<rows, api, cancel, update, ready, gates, faults>>

HealBegin(w) ==
  /\ At(w, "load_heal")
  /\ JobFree(worker[w].job)
  /\ HealWritesExec(w) => ExecFree
  /\ Goto(w, "healing")
  /\ UNCHANGED <<rows, api, cancel, update, ready, gates, faults>>

\* back to the stage loaded at the start
RestoreStage(w) == [exec EXCEPT !.stage = worker[w].execSeen.stage]

HealCommit(w) ==
  /\ At(w, "healing")
  /\ exec' = IF HealWritesExec(w) THEN RestoreStage(w) ELSE exec
  /\ job' = [job EXCEPT ![worker[w].job] = "completed"]
  /\ Done(w)
  /\ UNCHANGED <<task, payload, attempts, decision, api, cancel, update, ready, gates, faults>>

\* a guardrail that blocks the healing agent commits what was flushed
HealBlock(w) ==
  /\ At(w, "healing")
  /\ Count("block")
  /\ exec' = IF HealWritesExec(w) THEN [exec EXCEPT !.stage = "ANALYZE"] ELSE exec
  /\ JobRunning(w)
  /\ Forget(w, "rolled_back")
  /\ UNCHANGED <<task, payload, attempts, decision, api, cancel, update, ready, gates>>

HealFailCommit(w) ==
  /\ At(w, "failing") /\ worker[w].job \in HealJobs
  /\ ExecFree /\ JobFree(worker[w].job)
  /\ exec' = RestoreStage(w)
  /\ FailJob(w)
  /\ Done(w)
  /\ UNCHANGED <<task, payload, attempts, decision, api, cancel, update, ready, gates, faults>>

-----------------------------------------------------------------------------
(* run_gate_job                                                            *)

LoadGate(w) ==
  /\ At(w, "taken") /\ worker[w].job = GateJob
  /\ job[GateJob] # "completed"
  /\ LoadAt(w, "load_gate", {})
  /\ UNCHANGED <<rows, api, cancel, update, ready, gates, faults>>

\* under the advisory lock: look for a decision, collect the gate's inputs
GateBegin(w) ==
  /\ At(w, "load_gate")
  /\ GateLockFree
  /\ worker' = [worker EXCEPT ![w] = [@ EXCEPT !.pc = "gating", !.decides = decision = "none"]]
  /\ UNCHANGED <<rows, api, cancel, update, ready, gates, faults>>

\* a gate that loaded the execution as completed at GATE writes nothing there,
\* and waits for nobody
GateWritesExec(w) == worker[w].execSeen # [status |-> "completed", stage |-> "GATE"]

\* mutated: the stage GATE is not flushed before the decision
WaitsForNobody(w) == TRUE
GateWaits(w) == GateWritesExec(w) => ExecFree

\* a new decision completes the execution, whatever its status was
GateDecides(w) ==
  /\ GateWaits(w)
  /\ exec' = [status |-> Write(worker[w].execSeen.status, "completed", exec.status),
              stage  |-> Write(worker[w].execSeen.stage, "GATE", exec.stage)]
  /\ decision' = IF GateWritesExec(w) THEN "exclusive" ELSE "alongside"

GateCommit(w) ==
  /\ At(w, "gating")
  /\ IF worker[w].decides THEN GateDecides(w) ELSE UNCHANGED <<exec, decision>>
  /\ job' = [job EXCEPT ![GateJob] = "completed"]
  /\ Done(w)
  /\ UNCHANGED <<task, payload, attempts, api, cancel, update, ready, gates, faults>>

-----------------------------------------------------------------------------
(* broker and worker processes                                             *)

Ack(w) ==
  /\ At(w, "ack")
  /\ worker' = [worker EXCEPT ![w] = IdleWorker]
  /\ UNCHANGED <<rows, api, cancel, update, ready, gates, faults>>

\* task_acks_late, task_reject_on_worker_lost
AckedEarly(w) == {}
Unacked(w)    == {worker[w].job}

Crash(w) ==
  /\ ~At(w, "idle")
  /\ Count("crash")
  /\ ready' = ready \cup Unacked(w)
  /\ worker' = [worker EXCEPT ![w] = IdleWorker]
  /\ UNCHANGED <<rows, api, cancel, update, gates>>

Redeliver(w) ==
  /\ ~At(w, "idle")
  /\ worker[w].job \notin ready
  /\ Count("redeliver")
  /\ ready' = ready \cup Unacked(w)
  /\ UNCHANGED <<rows, api, cancel, update, worker, gates>>

Request ==
  \/ \E j \in Jobs : RequestRetry(j) \/ RequestHeal(j)
  \/ RequestGate
Dispatch(j) == Publish(j) \/ DispatchFailureLoad(j) \/ DispatchFailureCommit(j)
Cancel(r)   == CancelRead(r) \/ CancelLoadTasks(r) \/ CancelCommit(r)
Update(r)   == UpdateFinding(r) \/ UpdateEnds(r)
Load(w)     == LoadDeduplicated(w) \/ LoadRun(w) \/ RunCancelled(w) \/ LoadRetry(w)
                 \/ RetryUnmatched(w) \/ LoadHeal(w) \/ LoadGate(w)
RunTests(w) == ResetFirst(w) \/ Begin(w) \/ Commit(w) \/ Recover(w) \/ FailJobCommit(w) \/ FailCommit(w)
Heal(w)     == HealBegin(w) \/ HealCommit(w) \/ HealFailCommit(w)
Gate(w)     == GateBegin(w) \/ GateCommit(w)
WorkerStep(w) == TakeMessage(w) \/ Load(w) \/ RunTests(w) \/ Heal(w) \/ Gate(w) \/ Ack(w)
Fault(w)    == Raise(w) \/ GuardrailBlock(w) \/ HealBlock(w) \/ Crash(w) \/ Redeliver(w)

Next ==
  \/ Request
  \/ \E j \in Jobs : Dispatch(j) \/ PublishRaises(j)
  \/ \E r \in Cancels : Cancel(r)
  \/ \E r \in Reviews : Update(r)
  \/ \E w \in Workers : WorkerStep(w) \/ Fault(w)

Fairness ==
  /\ \A j \in Jobs : WF_vars(Dispatch(j))
  /\ \A r \in Reviews : WF_vars(UpdateEnds(r))
  /\ \A w \in Workers : WF_vars(WorkerStep(w))

Spec     == Init /\ [][Next]_vars
FairSpec == Spec /\ Fairness

-----------------------------------------------------------------------------
(* Properties                                                              *)

WorkerPC == {"idle", "taken", "cancelled", "loaded", "executing", "rolled_back", "failing_job", "failing",
             "load_heal", "healing", "load_gate", "gating", "ack"}

Decision == {"none", "exclusive", "alongside"}

RequestState == [pc : {"idle", "publish", "rolled_back", "failing", "done"},
                 tasks : SUBSET TaskIds, execSeen : TaskStatus, jobSeen : JobStatus]
CancelState  == [pc : {"idle", "admitted", "loaded", "done"}, tasks : SUBSET TaskIds]
WorkerState  == [pc : WorkerPC, job : Jobs \cup {NoJob}, jobSeen : JobStatus,
                 execSeen : ExecutionRow, tasks : SUBSET TaskIds, queued : SUBSET TaskIds,
                 attempts : [TaskIds -> SUBSET TestJobs],
                 reset : {"not_yet", "found", "missed"}, decides : BOOLEAN]

(* Every variable stays in its domain. *)
TypeOK ==
  /\ exec \in ExecutionRow
  /\ job \in [Jobs -> JobStatus \cup {"absent"}]
  /\ task \in [TaskIds -> TaskStatus]
  /\ payload \in [TaskIds -> RunnerStatus]
  /\ attempts \in [TaskIds -> SUBSET TestJobs]
  /\ decision \in Decision
  /\ api \in [Jobs -> RequestState]
  /\ cancel \in [Cancels -> CancelState]
  /\ update \in [Reviews -> {"idle", "found", "missed", "done"}]
  /\ worker \in [Workers -> WorkerState]
  /\ ready \subseteq Jobs
  /\ gates \in 0..MaxGates
  /\ faults \in [FaultKinds -> Nat] /\ \A k \in FaultKinds : faults[k] <= MaxFaults[k]

(* While a worker runs the tasks of an execution nobody else writes the     *)
(* execution or its tasks, whatever jobs, requests and compensations are    *)
(* under way: no second run, no cancel, no gate and no dispatch failure.    *)
RunUndisturbed ==
  [][\A w \in Workers : At(w, "executing") /\ At(w, "executing")' =>
       UNCHANGED <<exec, task, payload, attempts>>]_vars

(* A failed or cancelled execution has no task that is still queued or      *)
(* running, unless a guardrail committed a half-done transaction.  (A       *)
(* completed execution may have such tasks: the gate completes it without   *)
(* looking at them.)                                                        *)
StoppedHasNoLiveTask ==
  exec.status \in {"failed", "cancelled"} /\ faults.block = 0 => Nonterminal = {}

(* What makes the three properties above inductive.                        *)

\* a message, and whoever works on it, names a job that exists
JobsExist ==
  /\ \A j \in ready : job[j] # "absent"
  /\ \A j \in Jobs : api[j].pc # "idle" => job[j] # "absent"
  /\ \A w \in Workers :
       /\ ~At(w, "idle") => worker[w].job \in Jobs /\ job[worker[w].job] # "absent"
       /\ worker[w].pc \in {"loaded", "executing"} => worker[w].job \in TestJobs

\* one transaction at a time has written the execution and not yet committed
OneWriter == \A w, v \in Workers : HoldsExec(w) /\ HoldsExec(v) => w = v

\* without guardrail blocks tasks settle together, and never go back: whoever
\* has loaded the live tasks has at least those that are live still
TasksSettleTogether ==
  faults.block = 0 =>
    /\ Nonterminal \in {{}, TaskIds}
    /\ \A j \in Jobs : api[j].pc = "failing" => Nonterminal \subseteq api[j].tasks
    /\ \A r \in Cancels : cancel[r].pc = "loaded" => Nonterminal \subseteq cancel[r].tasks
    /\ \A w \in Workers :
         worker[w].pc \in {"loaded", "executing", "failing"} =>
           Nonterminal \subseteq worker[w].tasks

\* a retry that has the execution's row has deleted what it found, or there was
\* nothing to find and no gate that writes there has decided since
ResetUnderLock ==
  \A w \in Workers :
    At(w, "executing") /\ worker[w].job \in RetryJobs /\ FirstFlushWritesExec(w) =>
      worker[w].reset = "found" \/ decision # "exclusive"

LifecycleInv ==
  /\ TypeOK /\ JobsExist /\ OneWriter
  /\ TasksSettleTogether /\ StoppedHasNoLiveTask /\ ResetUnderLock

\* whatever still works on job j has not loaded a status that it would leave alone
Live(j)   == job[j] \in {"queued", "running"}
Settler(j) ==
  /\ Live(j)
  /\ api[j].pc = "failing" => api[j].execSeen # "failed"
  /\ \A w \in Workers : worker[w].job = j =>
       /\ ~At(w, "cancelled")
       /\ At(w, "failing") => worker[w].execSeen.status # "failed"

\* which kinds of jobs get to the program points that settle one
JobOfPC ==
  \A w \in Workers :
    /\ At(w, "cancelled") => worker[w].job = RunJob
    /\ worker[w].pc \in {"load_heal", "healing"} => worker[w].job \in HealJobs
    /\ At(w, "failing_job") => worker[w].job \notin TestJobs

SettlementInv ==
  /\ LifecycleInv /\ JobOfPC
  /\ faults.block = 0 /\ ~Terminal(exec.status) => \E j \in TestJobs : Settler(j)

(* An execution whose jobs are all settled is settled too, unless a         *)
(* guardrail committed a half-done transaction: a handler that loaded its   *)
(* execution as FAILED before a retry or a block made it live again will    *)
(* not fail it once more.                                                   *)
SettledJobsSettleExecution ==
  faults.block = 0 /\ (\A j \in Jobs : Terminal(job[j]) \/ job[j] = "absent") =>
    Terminal(exec.status)

(* The results of a retry leave no gate decision behind, although the old   *)
(* one is deleted long before they are committed and a gate may decide in   *)
(* between: the gate waits for the execution's row.  The exceptions are a   *)
(* retry that deletes before it has that row, and a gate that has nothing   *)
(* to write there.                                                          *)
RetryDropsDecision ==
  [][\A w \in Workers :
       At(w, "executing") /\ At(w, "ack")' /\ worker[w].job \in RetryJobs
         /\ FirstFlushWritesExec(w) => decision' # "exclusive"]_vars

\* a retry that matches no task raises outside its try block
MayMatchNothing == {j \in RetryJobs : j \in FailedRetries \/ TaskIds = {}}

\* a worker that is going to settle job j, and has not loaded it as failed and
\* would leave it as it is
Settles(w, j) ==
  /\ worker[w].job = j /\ worker[w].pc \notin {"idle", "ack"}
  /\ worker[w].pc \in {"failing", "failing_job"} => worker[w].jobSeen # "failed"

\* the dispatch of job j, its message, or a worker
UnderWay(j) ==
  \/ api[j].pc \in {"publish", "rolled_back"}
  \/ api[j].pc = "failing" /\ api[j].jobSeen # "failed"
  \/ j \in ready
  \/ \E w \in Workers : Settles(w, j)

(* No live job is left to itself, whatever crashes, raises, is blocked by   *)
(* a guardrail or delivered twice, and although a block makes a job that    *)
(* another delivery had failed live again.                                  *)
LiveJobsAreUnderWay == \A j \in Jobs \ MayMatchNothing : Live(j) => UnderWay(j)

GateOfPC == \A w \in Workers : worker[w].pc \in {"load_gate", "gating"} => worker[w].job = GateJob

ProgressInv == SettlementInv /\ GateOfPC /\ LiveJobsAreUnderWay

(* Every job settles; a retry of scope "failed_only" may match no task.     *)
JobsSettle ==
  \A j \in Jobs \ MayMatchNothing : job[j] = "queued" ~> Terminal(job[j])

(* No recorded attempt of a task is ever lost.                              *)
AttemptsAppendOnly ==
  [][\A t \in TaskIds : attempts[t] \subseteq attempts'[t]]_vars
=============================================================================
