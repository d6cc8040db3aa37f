# TLA+ models of TRUTHWARD

TRUTHWARD is a testing platform: a FastAPI application and Celery workers over
PostgreSQL and Redis that turn requirements into test plans, execute them with
external runners, analyse what came out and decide a release gate. This
directory holds TLA+ models of its concurrent core, the configurations that
check them with TLC, and proofs checked by TLAPS. `execution_service.py` below
means `backend/src/agentic_qa/services/execution_service.py`, `queue.py` means
`backend/src/agentic_qa/infra/queue.py`; line numbers are those of the commit
the models were written from.

Run from this directory, for example, `tlc -config FanoutSafety.cfg
MCExecutionFanout` and `tlapm ExecutionFanout_proofs.tla`; `PROJECT.json` names
the module and the cfg of every run. The four models:

- the fan-out of an execution over Celery (`ExecutionFanout`),
- the whole life of an execution in the default mode (`ExecutionLifecycle`),
- the managed invocation of a skill (`SkillReliability`),
- the governance of a gate policy and its approvals (`GatePolicyGovernance`).

## 1. Inventory

All state of the backend is in PostgreSQL rows; Redis is the Celery broker, its
result backend and the home of a few counters and locks. What the processes keep
in memory between two statements of a request is the SQLAlchemy session: the
objects it loaded, *as they were when it loaded them*. Sessions run at READ
COMMITTED with autoflush off (`db/session.py:33`), and a flush writes only the
columns whose value differs from the one loaded. Most hard behaviour of the
system follows from these three facts.

| Component | State | Operations | Interacts with | Hard behaviour | Correct when |
|---|---|---|---|---|---|
| **Execution fan-out** (`execution_service.py` 2477-2794, `queue.py` 354-455) | execution, job and task rows; frozen task list in the job's payload; chord counters | prepare, run one task, finalize; compensation of each | Celery chain of groups; cancel requests; runners | redelivered messages, several chains, lost workers, compensation after an ambiguous commit | batches run in order within the parallelism, each task in one worker, one reduction, the job settles, no success is rewritten |
| **Whole-run lifecycle** (2168-2475, 2885-3247, 3397-3567) | the same rows, `result_payload.attempts`, the gate decision, findings | run, retry, heal, gate, cancel, finding update, dispatch | one Celery message per job; approvals; analysis; guardrails | concurrent jobs on one execution, row locks taken by the first flush, stale loads, blocks that commit | one run at a time, stopped executions have no live task, no gate decides behind a retry's back, attempts are never lost |
| **Approvals** (`approval_service.py`) | approval rows | request, expire, approve, reject, cancel | executes retry, heal, finding, policy and plan actions | action and decision in one transaction or several; status read before the lock; expiry without a lock | an action runs only when approved; a decision is made once; what is approved is what was requested |
| **Skill execution policy** (`skill_execution_policy.py`, `skill_service.py` 2140-3262) | circuit breakers and counters of a process, leases in Redis, invocation rows, idempotency locks | acquire, admit, dispatch, retry, fall back, release, reconcile | adapters of skills, PostgreSQL, Redis | late results, lost replies, lapsing leases, half-open probes, a commit in the middle | quota never exceeded, counters exact, unsafe calls once, one invocation per key, every call ends |
| **Quality harness** (`runtime/qa_harness/`) | context: turns, calls used, deadline | turn, validate, invoke, consume, stop | skills, model gateway | check before and consumption after a step | budgets bound the work; each run ends with one stop reason |
| **Gate evaluation and policy governance** (`gate_*.py`) | policy versions, bindings with their time windows, approvals, simulation runs | draft, validate, submit, decide, freeze, activate, roll back, resolve, shadow | gate job, approvals | checks before locks, two transactions for a rejection, time stamps taken before the commit | exactly one enforced version, approved with its content and against the version it replaced; old executions keep theirs |
| **Requirement intake** (`requirement_intake_service.py`) | documents, requirements, pipeline runs | ingest, parse, generate, re-run | Celery chain under a Redis lock | lock expiry, partial stages | one pipeline per document; stages in order |
| **Plans and core loop** (`plan_service.py`, `core_loop_service.py`, `orchestrator_service.py`) | plans, workflow runs | plan, orchestrate | executions, graphs | many commits in one request | a workflow reaches one terminal state |
| **Analysis and healing** (`analysis_service.py`, agents) | triage results, suggestions | analyse, triage, heal | model gateway, guardrails | calls that raise or are blocked in the middle of a transaction | results belong to the latest run |
| **Skills** (`skill_service.py`, ...) | manifests, activations | register, activate, invoke | policy, approvals | provenance checks | only activated skills run |
| **Admission and CI writeback** (`admission_service.py`, `ci_writeback_service.py`) | admission runs, writeback attempts | webhook, admit, write back | GitHub, GitLab, executions | duplicate webhooks, retries | one admission per head commit |
| **Graphs** (`execution_graph_*.py`, `graph_*.py`) | graph versions, candidates | validate, promote, cover, detect staleness | plans, admission | version check at promotion | one canonical version |
| **Corrections, change sets** | reviews | propose, decide, apply | graphs, approvals | check then act | decided once |
| **Exploratory sessions, replay** | sessions, recorded evidence | record, query, export | artifact storage | partial files | evidence is complete or marked incomplete |
| **Runners and tools** (`tools/`) | none of their own | run a command, collect evidence | external processes | timeouts | every result has a status |
| **Observability, traces, audit, timelines** | append-only records | append, project | everything | none that feeds back | nothing decides on them |
| **Guardrails** (`guardrails/`) | rule results | evaluate, block | every agent call | the block commits the caller's transaction | the blocked action is not done |
| **Access, settings, infrastructure, API, frontend** | configuration | check, serve | everything | none of their own | |

`PROJECT.json` lists every component with its sources and status, and every
hazard at the line where it bites, covered or not.

## 2. The modules

| Module | Models |
|---|---|
| `ExecutionRows` | the columns of the execution, task and job rows that decide what the handlers do, and the pure derivations on them (task status of a runner outcome, verdict of an execution, status of its job) |
| `ExecutionFanout` | one execution in fan-out mode: API request, cancel requests, Celery messages, workers |
| `FanoutReduction` | abstract: tasks settle, never back; the reducer commits once, after all of them |
| `MCExecutionFanout` | symmetry for the instances of `ExecutionFanout` |
| `ExecutionFanout_proofs` | the theorems about `ExecutionFanout`, and that it implements `FanoutReduction` |
| `FanoutProgress_proofs` | no message is lost on which a live job of `ExecutionFanout` depends |
| `ExecutionLifecycle` | one execution over its whole life in whole-run mode (the default, `settings.py:58`): run, retry, heal and gate jobs, cancel, finding updates |
| `MCExecutionLifecycle` | fault bounds and symmetry for the instances of `ExecutionLifecycle` |
| `ExecutionLifecycle_proofs` | the theorems about `ExecutionLifecycle` |
| `LifecycleProgress_proofs` | no live job of `ExecutionLifecycle` is left to itself |
| `SkillReliability` | managed calls of skills in several worker processes: idempotency row, frozen policy, quota lease, breaker, attempts, fallback, end of the caller's transaction |
| `KeyedInvocation` | abstract: one call owns an idempotency key and alone reaches adapters; once it is on record it answers all others |
| `MCSkillReliability` | three calls with their profiles, adapters, scopes and keys |
| `SkillReliability_proofs` | the theorems about `SkillReliability` |
| `SkillRefinement_proofs` | `SkillReliability` implements `KeyedInvocation` |
| `GatePolicyGovernance` | one gate policy: drafts, review, lifecycle, frozen candidates, approvals and their decisions, bindings of the enforced version |
| `EnforcedVersion` | abstract: a register with a past, changed by requests that name the state they replace |
| `MCGatePolicy` | symmetry for the instances of `GatePolicyGovernance` |
| `GatePolicyGovernance_proofs` | the theorems about `GatePolicyGovernance` |
| `GatePolicyRefinement_proofs` | `GatePolicyGovernance` implements `EnforcedVersion` |

### ExecutionRows

A task's `result_payload` is reduced to the runner status last persisted in it,
since `_execution_terminal_status` reads nothing else of it; a runner call is
reduced to the outcomes which that derivation, `_derive_task_status` and
`_tasks_for_retry_scope` tell apart. `Stage` holds the stages a committed row
can have.

### ExecutionFanout

| Model | Code |
|---|---|
| `PublishRun`, `PublishRunRaises`, `DispatchFailureLoad/Commit` | `create_execution` 154-187 after its commit; `_record_queue_dispatch_failure` 7347-7388 |
| `CancelRead`, `CancelLoadTasks`, `CancelCommit` | `cancel` 2168-2195: load and admission, load of the tasks, write |
| `PrepareBegin`, `PrepareCancelled`, `PrepareCommit`, `PublishChain` | `prepare_parallel_execution_job` 2477-2558, then `self.replace(chain(...))` in `queue.py` 377-419 |
| `TaskDeduplicated`, `TaskCancelled`, `TaskBegin`, `TaskCommit`, `TaskRaises`, `TaskFailLoad`, `TaskFailCommit`, `TaskReturn` | `run_parallel_execution_task_job` 2560-2648 and the return of its result to the chord |
| `FinalizeBegin`, `FinalizeCancelled`, `FinalizeCommit`, `FinalizeRaises`, `RecoverCommittedJob`, `FinalizeFailCommit` | `finalize_parallel_execution_job` 2650-2794 |
| `Ack`, `Crash`, `Redeliver`, `UnhandledRaise` | `task_acks_late`, `task_reject_on_worker_lost`, visibility timeout (`queue.py` 93-109) |
| `worker[w].jobSeen`, `execSeen` | the values the session loaded: a later write of an equal value is not issued |

From its first flush to its commit a handler holds the row locks of what it
wrote, so nobody else writes those rows in between: flush and commit are one step,
and what can interleave is everything between load and flush. A fan-out task is
the exception: it selects its row FOR UPDATE and holds it while the runner
works, which is the program point "executing". Advisory locks are held from the
begin step to the end of the transaction. Celery's own mechanics (chain, chord
counter, redelivery) are not in the repository; they are modelled from how
`queue.py` configures and uses them and marked external.

### ExecutionLifecycle

| Model | Code |
|---|---|
| `RequestRetry`, `RequestHeal`, `RequestGate`, `Publish`, `PublishRaises`, `DispatchFailure...` | `execute_approved_retry` 3397-3472, `execute_approved_heal` 3474-3533, `gate` and `prepare_gate_job` 2227-2319, and the failure of their dispatch |
| `Load...`, `RunCancelled`, `RetryUnmatched` | the loads and early returns of the four handlers |
| `Begin` (`BeginRun`, `BeginRetry`), `ResetFirst`, `Commit`, `Raise`, `Recover`, `FailCommit` | `run_execution_job` 2321-2475 and `run_retry_job` 2885-3023 from the first flush on, with `_reset_retry_outputs` 6793-6862 |
| `GuardrailBlock`, `HealBlock` | `enforce` (`guardrails/runtime/audit.py` 52-57) commits before it raises |
| `HealBegin`, `HealCommit`, `HealFailCommit` | `run_heal_job` 3025-3098 |
| `GateBegin`, `GateDecides`, `GateCommit`, `FailJobCommit` | `run_gate_job` 3100-3247 |
| `UpdateFinding`, `UpdateEnds` | `execute_approved_finding_update` 3535-3567: the DELETE of the decision (3548, 6860-6862), and the commit or rollback |

Here the row locks *are* the synchronisation: a run works on its tasks for
minutes between first flush and commit, and only the row lock of the execution
keeps a second job out. The model therefore has program points for "has
flushed, not committed" (`executing`, `healing`, `gating`) and `HoldsExec` says who has written the
execution by then. A run or retry always has before it calls a runner: its first
flush writes status and stage, unless it loaded the execution as RUNNING,
PREPARE (`FirstFlushWritesExec` is then false, no column changes), and the flush
of the stage EXECUTE a few statements later does in any case. The two flushes
are one step, `Begin`; what depends on which of them took the lock is when a run
selects its tasks: after the first. A heal job writes the execution unless it is
in ANALYZE already. `Write(seen, value, now)` is the ORM's rule for every later
column: what equals the loaded value is not written, and the row keeps what it
has. Whoever writes task rows writes the execution row as well, so task row
locks need no guard of their own. The two selects that load job and execution
are one step.

Attempts are sets of jobs (which job recorded one). The gate decision is one row
that gates insert, and retries and finding updates delete. A DELETE sees
committed rows only: it locks the row it finds (`DecisionRowFree`) and takes it away
with its transaction's commit, and when it finds none it locks nothing, so that
a decision committed afterwards stays. `update` and `reset` keep what the DELETE
of a finding update or a retry found. A retry deletes after its first flush:
under the execution's row, or, when that flush does not write it, before it has
the row (`ResetFirst`). The flush of the stage GATE in front of a decision waits for
that row as well, unless the gate loaded the execution as COMPLETED at GATE
(`GateWaits`). The model remembers of a decision which of the two it was:
"exclusive" or "alongside" whatever else was under way.

### SkillReliability

`SEP` is `skill_execution_policy.py`, `SS` is `skill_service.py`.

| Model | Code |
|---|---|
| `BuildPolicy`, `Replayable`, `MaxAttempts`, `FallbackAllowed` | `build_policy` SEP 573-660: limits, retry and fallback frozen at the start, the deadline before any lock is waited for |
| `Deduplicate`, `Start`, `LockFree`, `ReleaseLock` | `start_managed_invocation` SS 2431-2721 with its advisory lock per idempotency key |
| `Acquire`, `Blocked`, `AcquireFails`, `Release`, `ReleaseFails` | `lease` SEP 844-922: the Lua script in Redis or the counters of the process |
| `Dispatch`, `Ask`, `Return`, `SettleReturned`, `SettleRetry`, `SettleFailure`, `Resume` | the attempt loop SS 2757-3010 with `before_adapter`, `adapter_succeeded`, `adapter_failed` (SEP 924-975) and `wait_for_retry` |
| `DispatchFallback`, `SettleFallback` | `_execute_governed_fallback` SS 3016-3159 |
| `Accept`, `Commit`, `Rollback` | `invoke_extension` SS 2255-2326, `complete_`/`fail_managed_invocation`, `reconcile_extension_failures_after_rollback` SS 2409-2429 |
| `circuit`, `active` | `_LocalReliabilityState` of one process, under its lock (released between two uses) |
| `expiry` | the member of the call in its Redis sorted sets, which lapses by itself |
| `row`, `holder` | what other sessions see: the invocation row after a commit, the transaction that holds the key's lock |
| `Persist` | a guardrail that blocks, in an adapter or in the acceptor of the domain service (`plan_service.py:1221`), commits the caller's session: the row becomes visible as running and the key's lock is gone |

A call runs inside its caller's transaction, so its row is invisible until the
caller commits; that is why the key needs the lock, and why a block in the
middle is interesting. The limits of a scope (project, tenant, binding, adapter)
are one number per key; the kill switch, the approval check and the size limit
of the input are the one "refused" outcome of `Start`; a cancellation may be
seen at any checkpoint; a backoff lasts a tick. A deduplicated call gives its
lock back at once, since it writes nothing. One tick is the
smallest time between a deadline, a lease's end and a recovery, and the workers
and Redis share the clock, as the code assumes by comparing their times.

### GatePolicyGovernance

`GOV`, `DEP` and `SIM` are `gate_policy_governance_service.py`,
`gate_policy_deployment_service.py` and `gate_policy_simulation_service.py`, `AP`
is `approval_service.py`.

| Model | Code |
|---|---|
| `CreateDraft`, `UpdateDraft`, `ValidateDraft`, `SubmitReview`, `RequestLifecycle` | GOV 235-649 and 730-851, each one transaction |
| `Request` | `_get_or_create_pending_approval` AP 743-800 |
| `Freeze` | `_freeze_simulation_candidate` SIM 810-905, called by `create_simulation` |
| `RequestActivation`, `RequestRollback` | DEP 223-352 and 384-491, with the binding they expect |
| `BeginApprove`, `ApproveVersion`, `Decide` | `approve`, `reject`, `cancel` AP 597-724 |
| `ApproveChange`, `Switch` | `_execute_approved_change` DEP 493-668, as far as its time stamp and from there to the commit |
| `BeginReview`, `ReviewApprove`, `ReviewReject`, `RecordRejection` | `decide_review` GOV 651-728: read under the locks of policy and version, decision by the approval service, and after a rejection a second transaction |
| `Blocked` | a guardrail that blocks the approved action commits the decision without its effect |
| `Effective`, `Resolved` | `_is_effective` (`gate_policy_resolver.py` 659-668) at the time the execution was created (`gate_input_assembler.py` 388-392) |

Who holds which lock follows from where each session is, so locks have no
variable: `PolicyFree`, `VersionFree`, `DecisionFree` and `EnforceFree` say who
has to wait. The approval service locks the approval first and policy and
version later, `decide_review` the other way round: a deadlock, which PostgreSQL
ends by aborting one of the two (`Abort`). The clock advances when a change takes
its time stamp; between two stamps nothing tells instants apart. `Seen` is
READ COMMITTED: a request that waited for the row lock of a binding which a
change has just closed still finds it effective at the time it computed before
the wait.

One policy of one project; the optimistic `expectedVersion` and `lock_version`
are left out, since under the policy's and the version's row locks they only
refuse more; a request repeated with its idempotency key is a stutter.

## 3. What the runs check

Fan-out instances use two workers. `FanoutSafety` has up to three tasks
in batches of two, so that there is a full batch, a partial one and a
barrier between them, and two chains, the fewest that can overtake each other.
Two workers are the fewest that can collide. Each
fault is bounded by a constant in the cfg; a second fault of a kind adds
interleavings of the same handlers, and the theorems of section 4 hold for all bounds.

| Run | Question | Result |
|---|---|---|
| `fanout_safety` | Do exclusion, batch order and single reduction survive two chains, a redelivery, an exception inside and one outside a try block, and an ambiguous publication? `ProgressInv` is the inductive invariant of the proofs, type correctness and the promise that no message is lost included; `ImplementsReduction` the refinement of `FanoutReduction`. | holds |
| `fanout_liveness` | With two cancel requests racing everything, an exception, and a worker lost at any point: is the parallelism kept, does a settled job leave no work that could still start, do job and execution agree, is no message lost on which a live job depends, and does the job settle? | holds |
| `fanout_success_rewritten` | `_recover_committed_job` says a committed success is not rewritten. | violated: it is a plain read after the rollback has released the lock |
| `fanout_lost_handler` | `queue.py:95` says that handlers recover on redelivery. | violated: an exception outside the try blocks is acknowledged and never redelivered |
| `fanout_silent_failure` | The repository's README says a failure must stay visible. | violated: a task that raised has no runner status, and the execution is COMPLETED |
| `lifecycle_safety` | First run, failed-only retry and gate, a cancel, a finding update and two faults out of redelivery, exception and block: nothing disturbs a run, no live task in a stopped execution, settled jobs settle the execution, no gate decides between a retry's deletion of the decision and its results (`RetryDropsDecision`). `ProgressInv` is the inductive invariant of the proofs, type correctness and the promise that no live job is left to itself included. | holds |
| `lifecycle_liveness` | Run, full retry and heal compete for the execution row with one fault out of rejected or ambiguous dispatch, lost worker, exception and block: do all jobs settle, and is at no point one of them left without its dispatch, its message or a worker? | holds |
| `lifecycle_lost_attempt` | A comment says that attempt evidence is append-only. | violated: a retry that loaded its tasks before it waited for a lock writes an old attempts list back |
| `skill_safety` | Three calls in one process, with two adapters that are each other's fallback, two scopes of one slot each, one shared key, both coordination modes and a lost Redis reply: are quota, local counters, breakers and budgets kept? | holds |
| `skill_liveness` | Two calls in two processes, all eight adapter outcomes, a lost reply and a crash: does every call and every lease end, does anybody wait for what does not come (`WaitsAreBounded`), is a row left running, and do the calls of one key behave as one invocation (`ImplementsKeyedInvocation`, the refinement of `KeyedInvocation`)? | holds |
| `policy_safety` | A draft with its candidate, two published versions, two approvals of any kind and two sessions that decide, with a guardrail block and aborted transactions: one version in force, approved, active and reviewed, old executions keep theirs, no grant is revoked (`DecisionStands`), and (`ImplementsEnforcement`) the bindings are the register `EnforcedVersion` describes? | holds |
| `policy_decision_overturned` | An approval that is not pending is refused, says `approval_service.py:1071`. | violated: `decide_review` decides on the status it read before it had the approval's lock |

The lifecycle instances have a single task: the jobs, not the tasks, are the actors
there, and a whole-run job treats its tasks in one transaction. `GuardrailBlock`
chooses which tasks were done when it struck, which a single task reduces to
"none" and "all".

`CHECK_DEADLOCK FALSE` in every cfg: when the job has settled and all messages
are acknowledged the system rests.

In `skill_safety` `c1` may retry and fall back on the adapter `c3` resolves to,
`c2` is an external write through `c1`'s adapter, `c1` and `c3` share a key, `c2`
and `c3` a scope: every pair of calls shares something, and a third call is what
it takes for a scope to have a holder, a waiter and a lapsed lease at once. A
threshold of one failure, a timeout of two ticks and a grace and recovery of one
let every outcome arrive before and after the deadline and let a breaker open,
probe and close within the horizon. `skill_liveness` has all outcomes and two
processes, and no symmetry. In `policy_safety` two approvals are the
fewest that can compete for one binding or one version, two sessions the fewest
that can decide them together, two time stamps let a second change supersede a
first; the theorems of section 4 hold for any number.

**Fairness.** `FairSpec` assumes weak fairness of each worker's steps (a Celery
worker that holds a message goes on with its handler, an idle one fetches a
message when there is one, a lost one is replaced) and of the API
process: a dispatch follows its commit, and a finding update ends. Nothing is
assumed of faults, cancel requests or new requests. Without the assumption on the API process a process lost
between commit and dispatch leaves a queued job that nothing delivers; there is
no outbox in the code, and the liveness properties say nothing of that case.
`SkillReliability` assumes weak fairness of the clock and of each call that has
begun: its thread is scheduled, an adapter returns or raises (the runners and
the HTTP client have timeouts of their own), and the caller ends its
transaction. Nothing is assumed of a call's start, of Redis or of crashes.
`GatePolicyGovernance` has no liveness property: it moves when people decide.

**Conditions in the properties, and why.**
- `StoppedHasNoLiveTask` excludes runs with a guardrail block: a block commits
  tasks as QUEUED with an execution in EXECUTE, and a cancel or a crash after it
  can leave them so.
- It speaks of failed and cancelled executions only: the gate completes an
  execution whatever state its tasks are in (`execution_service.py:3153`).
- `SettledJobsSettleExecution` excludes runs with a guardrail block. With one, an
  ambiguous publication and a lost worker, TLC finds an execution that stays
  RUNNING with every job settled: the request for a failed-only retry raises
  although the broker took its message, and its compensation loads the
  execution as FAILED; the retry is delivered, and a block commits its RUNNING;
  the compensation then leaves the execution alone, as it loaded it FAILED, and
  fails the job only; the worker is lost, and the retry delivered again matches
  no task.
- `SettledJob` speaks of jobs before which not two cancel requests came. With two,
  TLC finds a settled job with tasks still queued: the first request cancels, the
  second loads an execution without tasks, prepare resets them, the second
  request writes the execution as cancelled, the worker dies before it publishes,
  and the prepare delivered again settles the job as cancelled.
- It also needs a publication that either fails or succeeds. If the dispatch
  raises although the broker took the message, TLC finds tasks queued under a
  failed job: a cancel request has loaded all tasks, prepare begins and waits,
  the cancel commits, the compensation of the request then finds no live task,
  prepare resets the tasks to queued, and the compensation fails the job.
- `fanout_liveness` has runners that end in failure only, so that two requests, a
  lost worker and an exception fit one run; completed verdicts still come from
  plans without tasks, and `fanout_safety` has both outcomes.
- `ProbeOwned` says that a half-open flag has an owner, not that one call probes
  at a time: an uncounted failure of another call clears the flag
  (SEP 965-968), and a half-open breaker without a flag lets everybody in.
- `WithinQuota` counts, with Redis, the calls within their deadline and grace: a
  lease is taken for that long, and a call whose adapter does not return by
  then goes on without one.
- `ReconciledRow` speaks of callers that reconcile after a rollback
  (`plan_service.py:543` is one); after another caller's rollback a row that a
  guardrail had committed stays running.
- `StableResolution` lets executions created at or after a change's time stamp
  change their version when the change commits; it says that no earlier one
  does.
- `JobsSettle` and `LiveJobsAreUnderWay` leave out a retry that may match no task
  (`MayMatchNothing`: a failed-only one, or any of an execution without tasks): it
  raises before its try block (2896-2898) and its job stays queued
  (`RetryUnmatched`).
- `LiveJobIsUnderWay` of the fan-out speaks of runs without an exception outside a
  try block, which `fanout_lost_handler` shows to lose the message.
- `KeyedInvocation` lets an owner that is not on record give its key up, with what
  it has reached: a caller that rolls back leaves nothing of the call, and the next
  one of the key starts afresh. The code promises one invocation per key, not one
  effect.
- `EnforcedVersion` lets a request name any earlier state of the register and says
  that only one that names the present state changes it; a request that comes too
  late is withdrawn. That approvals decide the requests, and that a decision is
  final, is not part of it (`policy_decision_overturned`).
- `RetryDropsDecision` speaks of retries that delete the decision under the
  execution's row and of decisions made under it. A retry that loads RUNNING,
  PREPARE, which takes a block and a heal job, deletes first and then waits for
  the row, and whoever holds it may be a gate. A gate that loads COMPLETED at
  GATE and finds no decision writes the decision alone and waits for nobody:
  after one gate, a finding update and a second request it may decide while a
  retry runs. One gate request fits the bounds of `lifecycle_safety`, so there the
  second exception is never met; the theorem covers it.
- It says nothing of finding updates. They take no lock but that of the row they
  delete, and a gate that is about to commit is not seen by the DELETE: its
  decision, made on the finding as it was, then outlives the update's commit.
  Both orders are behaviours of the model, and no test or document of the
  repository says which decision should be left.
- `DecisionStands` lets a `decide_review` under way overturn a rejection or a
  cancellation that was committed after it had read the approval: that is the
  finding of `policy_decision_overturned`, and the property says it is all there is.

Every property of a passing run has a mutant in `PROJECT.json`: an
operator defined beside the mapped one (`AnyReturned`, `EveryDelivery`,
`FlushedAtCommit`, `WaitsForNobody`, ...) that stands for a plausible bug and
breaks the property.

## 4. What is proved

`ExecutionFanout_proofs` proves, for every number of workers, tasks, cancel
requests, chains and faults and every parallelism:

| Theorem | States |
|---|---|
| `FanoutInvariant` | `FanoutInv` holds in every reachable state |
| `TypeCorrect` | every variable stays in its domain |
| `OneExecutorAtATime` | no task runs in two workers |
| `BatchesRunInOrder` | a task runs only when all earlier batches are settled |
| `ReducerRunsLast` | the reducer works on settled tasks only |
| `ReducesOnce` | the reducer commits at most once |
| `FinishedWorkIsKept` | once a chain is published no settled task becomes live again |
| `ParallelismIsKept` | at most `Parallelism` runners are at work |
| `JobAndExecutionAgree` | a settled job has a settled execution, without a cancel of the same status |
| `SettledJobsLeaveNoWork` | a settled job leaves no live task and no runner (under the conditions of `SettledJob`) |
| `FanoutImplementsReduction` | the fan-out implements `FanoutReduction` |
| `ProgressInvariant` | `ProgressInv`, the invariant that also follows the messages (`FanoutProgress_proofs`) |
| `LiveJobsAreUnderWay` | no message is lost on which a live job depends (`FanoutProgress_proofs`) |

Assumptions: `NTasksAssumption` (a natural number) and `FanoutAssumption`
(parallelism is positive, bounds are naturals).

The argument: none of the properties is inductive alone. That tasks run in
batch order depends on what a *message* promises: `BatchesInOrder` says that a
task message in flight (in the broker or in a worker's hands) implies that all
earlier batches are settled, a finalize message that all tasks are, and a result
counted by the chord that its task is. These promises are made once and must
never be broken, so no settled task may become live: only the reset in
`PrepareCommit` could do that, and `ResetOnlyUnprepared` says that while a reset is
possible (the job is still queued, or a worker prepares having seen it so) there
is no message, no result and no worker beyond preparation. `JobLocks` (the two
advisory locks) makes that stable when prepare is delivered twice,
`ChainComesFirst` closes the case of the empty plan, where prepare goes straight
to the reducer, and `ReducedOnce` ties the number of reductions to the job's
status under the finalize lock. The proof has one step per action and, under it,
one per conjunct that the action can disturb. The refinement maps a task to
"settled" once a chain exists and its status is terminal; before that the rows
may be reset and nothing counts.

`SettlementInv` adds what the last three theorems need. `ExecutingIsLive`: a runner
at work has a live task, so by `BatchesInOrder` all runners are in one batch,
an interval of at most `Parallelism` tasks, and by `OneExecutor` each has a task of
its own: an injection into that interval bounds them. `JobFollowsExecution`: a
handler writes from what it loaded, and what it loaded of job and execution
stays true enough until it writes. `StoppedTogether`: a cancel request or a failed
dispatch stops the tasks it loaded as live, and these are all that are live
when it writes; two such writers, or a message that a failed dispatch left
behind (`UndispatchedIsIdle` excludes it), would break this.

`LiveJobsAreUnderWay` is the safety half of `JobSettles`: liveness is out of the
prover's reach, but what makes a job hang is a message that is gone while the job
still waits for it, and that is an invariant. A message is `ToHandle` while the
broker has it or a worker has not come to the end of its handler, so a crash
hands it back and a second delivery adds one. The proof follows each message to
the end of its handler, which either has settled the job, or has published a
chain (`prepare`), or gives its result to a chord (a task), and by then releases
the next batch or the reducer. Two things make that inductive. `ReturnedInOrder`: a
chord has all results of the batches before the one it released, so the batch it
waits for is one whose messages are all still to be handled, and the last result
is followed by the reducer. `LeavesSettled`: whoever ends a handler without
settling anything, because it is not the first delivery or because it loaded a
job that a compensation would leave alone, has found the job settled.

`ExecutionLifecycle_proofs` proves, for every number of workers, tasks, retries,
heal jobs, gate and cancel requests, finding updates and faults:

| Theorem | States |
|---|---|
| `LifecycleInvariant` | `LifecycleInv` holds in every reachable state |
| `LifecycleTypeCorrect` | every variable stays in its domain |
| `StoppedExecutionsAreSettled` | a failed or cancelled execution has no live task, without guardrail blocks |
| `RunsAreUndisturbed` | while a worker runs the tasks, nobody else writes the execution or its tasks |
| `RetriesDropDecisions` | no gate decides under the execution's row between a retry's deletion of the decision there and the commit of its results |
| `JobsSettleTheirExecution` | when all jobs have settled so has the execution, without guardrail blocks |
| `LifecycleProgress` | `ProgressInv`, the invariant that also follows the jobs (`LifecycleProgress_proofs`) |
| `JobsAreUnderWay` | every live job has its dispatch, its message or a worker that will settle it, guardrail blocks included (`LifecycleProgress_proofs`) |

Assumptions: `NTasksAssumption` and `LifecycleAssumption` (the outcomes are those
a runner can end in, the bounds are naturals, and the kinds of jobs are disjoint).

The argument: `LifecycleInv` has three strengthenings. `OneWriter` says that at most
one worker has written the execution and not committed; every step that begins
to write needs the row free, and a commit, a rollback and a crash let it go, so
it is inductive, and any write by anybody else while a worker is executing
would need a second holder (`WritersHoldExec`, then `RunsAreUndisturbed`).
`TasksSettleTogether` is why compensations and cancels, which write the tasks they
*loaded* some time ago, leave none behind: without a block the committed tasks
are either all live or all settled, never live again, and whoever has loaded
the live tasks has loaded all that are live now. `ResetUnderLock` follows a retry
from its DELETE to its commit: if it deleted under the execution's row and found no
decision, none that was made under that row is there, because a gate that inserts one
needs the row free (`ExclusiveDecision`) and the retry still has it; if it found one,
its commit takes it away. `JobsExist` ties messages and
program points to job rows and gives the record types their values.
For `JobsSettleTheirExecution` the strengthening names a witness: while the
execution is live there is a `Settler`, a queued or running first run or retry
such that nobody working on it has loaded a status that would make it settle
the job and leave the execution alone. A request that makes the execution live
again creates one, and a step that settles the last one settles the execution in
the same transaction.
`JobsAreUnderWay` is the safety half of `JobsSettle`. A worker counts only if it will
settle its job: a compensation that loaded the job as failed writes nothing to
it (`Settles`), which would be harmless if a failed job stayed failed. It does not: a
guardrail block commits the RUNNING of a handler that loaded the job before another
delivery failed it, and so makes it live again. What saves it is that the block
raises into the same handler, whose compensation loads the status the block has
just committed; `Recovers` states this, and it is why the
property holds with blocks while `SettledJobsSettleExecution` does not. `GateOfPC`
says that only the gate's job is at the gate's program points, so the job that the
gate's commit completes is the one its worker has.

`SkillReliability_proofs` proves, for every number of calls, processes, adapters,
scopes and keys, every policy, limit and timing:

| Theorem | States |
|---|---|
| `SkillInvariant` | `SkillInv`, the inductive invariant |
| `SkillTypeCorrect` | every variable stays in its domain, no counter goes below zero |
| `QuotaIsKept` | no scope has more calls under way than its limit |
| `LocalCountsAreExact` | a process's counter is the number of its threads inside the lease |
| `ProbesAreOwned`, `BreakersCount` | a half-open flag has an owner; a breaker is closed exactly below its threshold |
| `BudgetIsKept`, `UnsafeCallsRunOnce`, `UnknownWritesAreReported` | dispatches stay in the budget, unsafe calls reach an adapter once, interrupted writes are reported as unknown |
| `KeysAreExclusive`, `KeysRunOnce` | one key, one call under way without a row; no dispatch under a key that is taken |
| `RowsAreReconciled` | a caller that reconciles leaves no row running |
| `NobodyWaitsInVain` | a key's lock is held by a call under way that waits for none, backoffs and leases have an end |
| `SkillImplementsKeyedInvocation` | the calls of a key implement `KeyedInvocation` (`SkillRefinement_proofs`) |

Assumption: `ReliabilityAssumption` (the parameters of each call, limits and
thresholds positive). The argument: what a call may do next depends only on its
own program point, attempts, dispatches and row, so most of the
invariant is a statement per call that no other call disturbs (`StillLocal`,
`OthersStill`). Three parts are about several calls: under a key, its lock is
held by the one call without a committed row; a scope's local counter equals the
cardinality of its holders, and its Redis lease covers the calls that count
against its limit; a breaker's probe flag is tied to a call that was admitted
half-open and has not reported. `CircuitCounts` is inductive alone because every
operation on a breaker preserves it, whatever state it meets.
`NobodyWaitsInVain` is the safety half of `CallsEnd` and `LeasesEnd`. Its invariant
`LocksHeld` is the converse of `Keyed`: not only does a call without a row hold its
key, a key that is held is held by such a call, which has passed the only wait for a lock
there is. Commit, rollback, a guardrail's commit and a crash all let go of
it (`LockMoves`), and no other step takes a call out of `Handling`.
`KeysAreExclusive` and `KeysRunOnce` follow from the refinement as well, and no run
checks them on their own.

The refinement maps a key's owners to its calls that are between lookup and end
or have a row, and the record to the calls with a committed row. A step of a call is, for
its key, one of six things (`CallMoves`): it takes the key, reaches an adapter,
commits its row, leaves, answers, or is not seen. `SoleOwner` does most of the
work: a call under way without a row holds the lock, so it is the only owner,
which is what reaching, committing and leaving need of the abstract state; `FreeKey`
is its converse for `Start`. An early commit by a guardrail is the step
`Record` in the middle of a call, and no adapter is reached after it because a
blocked outcome is neither retried nor given to the fallback (`Recorded`), and a
block in the acceptor comes after the last one. The
budget of an abstract owner is that of `BudgetIsKept` and `UnsafeCallsRunOnce`.

`GatePolicyGovernance_proofs` proves, for every number of drafts, versions,
contents, executions, sessions, approvals and blocks:

| Theorem | States |
|---|---|
| `GovernanceInvariant` | `GovernanceInv`, the inductive invariant |
| `GovernanceTypeCorrect` | every variable stays in its domain |
| `OneBindingInForce` | from the first binding on exactly one is effective at every time up to the present |
| `ChangesAreApproved` | each change has an approval of its own, for the binding it replaced |
| `PendingApprovalsCurrent` | what is pending names the content its version has |
| `PublishedVersionsReviewed` | every candidate has the content of an approved review |
| `ActiveWhenBound` | a version comes into force only while it is active |
| `ResolutionIsStable` | no change reaches executions created before its time stamp |
| `DecisionsStand` | only a `decide_review` under way decides an approval again; no grant is revoked, a decision on a change is final |
| `GovernanceImplementsEnforcement` | the bindings implement `EnforcedVersion` (`GatePolicyRefinement_proofs`) |

Assumption: `GovernanceAssumption` (the kinds of version ids are disjoint, the
bounds are naturals). The argument: `Windows` says that bindings follow each other
in time and that the last one is open; with it the binding that
`_current_binding` finds is the last one. `StampedChange` carries a change from
its checks to its commit: it holds the enforce lock and the lock of its version
(`LocksExclusive`), so the version is still active and the expected binding still
the last. Its approval is pending until then (`SessionTasks`), so no binding has
it yet. For what is reviewed, `PendingIsCurrent` ties an approval to the
content of its version, which no edit changes while it is pending, and `DraftsReviewed` says that a draft
stored as approved has an approval with its content; `Freeze` copies that.
`decide_review` may approve what was rejected meanwhile, and this is why
`SessionTasks` claims only that nobody *approves* under its locks: enough for
all of these theorems, and not for `DecisionIsFinal`, which fails. `DecisionsStand` says
how far it fails: whoever decides holds the approval's lock and a pending approval, or is a
`decide_review` that read one under the locks of policy and version, and those keep a
grant from happening in between (`StatusChanges`).

The refinement maps the register to the function from times to the bindings in
force at each (`InForce`) and its requests to the pending activations and
rollbacks. A session carries an approved change from its checks to its commit in
several steps of the model and one of the register: the request waits
until `Switch` closes the last binding and appends the new one. By `Windows` this
replaces what is in force from the present on and nothing before it, and by
`StampedChange` the request names the number of changes made so far. An
approved change whose action a guardrail blocks is a request withdrawn. Reviews and
lifecycle changes, which share the approvals table, leave the register as it is.

Only model-checked: `JobSettles`, `JobsSettle`, `LeasesEnd` and `CallsEnd`, as
liveness under fairness is outside the prover's reach; the safety half of each
is proved. Every safety property, action property and
refinement that a passing run checks is stated by a theorem.

## 5. Not modelled

- Celery, Redis and PostgreSQL themselves: locks, chains and redelivery as the
  code uses them, no loss of a committed row or of an acknowledged publication.
- Inline mode, where a task runs in the API process, and SQLite, where
  advisory locks are process-local.
- A commit whose outcome is unknown is `Raise` at "ack": the row was written and
  the handler's except branch runs.
- Traces, audit rows, artifacts, progress and messages: no modelled decision
  reads them.
- The visual action review, retries by test domain, the admission-triggered
  execution, the orchestrator's deferred normalisation and the shadow
  evaluation after a gate.
- Of skills: registration, activation and the manifests; in the calls, the
  content of inputs and outputs, costs and metrics. A late result never counts
  toward the breaker and a fallback is charged to the skill calls only, as in
  the code.
- Of gate policies: observe and shadow bindings, simulation results and their
  thresholds, validity periods of imported policies, the evaluation of rules.
- Of approvals: the expiry sweep (a gate policy approval has no `expiresAt`) and
  approved actions that commit on their own.
- The other components of section 1, for the reasons in `PROJECT.json`: most are
  data transformation, projections or input and output. Three have a concurrent
  core that a further module could take: canonical graph promotion and rollback
  (`graph_promotion_service.py`: advisory locks per proposal and per graph, an
  expected base version, a budget of automatic promotions), correction reviews,
  and the requirement pipeline under its Redis lock.

## 6. What was planned and what is left

Done, in this order: `ExecutionRows`, `ExecutionFanout` and `FanoutReduction` with
their proofs and refinement; `ExecutionLifecycle` with its proofs;
`SkillReliability`; `GatePolicyGovernance` with approvals; then the progress
invariants of both execution models, and the refinements of `EnforcedVersion` and
`KeyedInvocation` with their proofs. Planned and left out:
the harness loop, whose budgets are checked and used by one thread in sequence,
so that a model would restate its guards.

Nothing is left to prove of the properties the runs check but liveness, which stays
with TLC. Worth stating next: that the whole-run lifecycle implements an abstract
execution whose jobs take turns, which `RunsAreUndisturbed` says of its steps only.

Left without a property, each with its reason in `PROJECT.json`: the basis of a
gate decision, a gate request that decides nothing, a cancel over a terminal
execution, the targets of a failed-only retry, the expiry sweep. The repository
says of none of them what should happen. So it is with the decision that outlives a
finding update (section 3).
