--------------------------- MODULE ExecutionFanout ---------------------------
(***************************************************************************)
(* One execution run in the fan-out mode of QUEUE_MODE=celery: the worker  *)
(* that receives execution.run freezes the fan-out and publishes a Celery  *)
(* chain of task batches, the batches run one task per message, and the    *)
(* last message runs the single OBSERVE/ANALYZE/NORMALIZE reducer.         *)
(*                                                                         *)
(* Transactions.  Sessions run at READ COMMITTED with autoflush off.  A    *)
(* handler loads its rows (and keeps the loaded values), and later flushes *)
(* and commits.  From its first flush to its commit it holds the row locks *)
(* of what it writes, so nobody else writes those rows in between: flush   *)
(* and commit are one step here, and what can interleave is everything     *)
(* between the load and that step.  A fan-out task is the exception: it    *)
(* selects its row FOR UPDATE and holds it while the runner works.         *)
(* Advisory locks are held from the begin step to the end of the           *)
(* transaction.                                                            *)
(*                                                                         *)
(* Broker.  Workers acknowledge late.  A message whose worker dies, or     *)
(* whose visibility timeout expires while it is worked on, is delivered    *)
(* again.                                                                  *)
(***************************************************************************)
EXTENDS ExecutionRows, FiniteSets

CONSTANTS
  Workers,            \* Celery worker processes
  Requests,           \* cancel requests
  Parallelism,        \* options.parallelism of the execution
  Outcomes,           \* runner outcomes considered
  MaxChains,          \* bound: chains published for the execution
  MaxCrashes,         \* bound: worker processes lost
  MaxRedeliveries,    \* bound: visibility timeouts
  MaxRaises,          \* bound: exceptions raised inside a handler's try block
  MaxUnhandled,       \* bound: exceptions that leave a handler
  AmbiguousPublish    \* may a publication raise after the broker accepted it?

ASSUME FanoutAssumption ==
  /\ Parallelism \in Nat \ {0}
  /\ Outcomes \subseteq AllOutcomes
  /\ {MaxChains, MaxCrashes, MaxRedeliveries, MaxRaises, MaxUnhandled} \subseteq Nat
  /\ AmbiguousPublish \in BOOLEAN

Chains == 1..MaxChains

\* task_ids[index:index + parallelism]
Batch(t) == ((t - 1) \div Parallelism) + 1

RunMessage           == [kind |-> "run", chain |-> 0, task |-> 0]
TaskMessage(c, t)    == [kind |-> "task", chain |-> c, task |-> t]
FinalizeMessage(c)   == [kind |-> "finalize", chain |-> c, task |-> 0]
NoMessage            == [kind |-> "none", chain |-> 0, task |-> 0]

TaskMessages     == {TaskMessage(c, t) : c \in Chains, t \in TaskIds}
FinalizeMessages == {FinalizeMessage(c) : c \in Chains}
Messages         == {RunMessage} \cup TaskMessages \cup FinalizeMessages

VARIABLES
  exec,       \* the Execution row
  job,        \* status of the Job row
  task,       \* status of each ExecutionTask row; its domain is the set of rows
  payload,    \* result_payload.runnerStatus of each ExecutionTask row
  create,     \* the API request that creates the execution and its job
  cancel,     \* per request that cancels it: program point and tasks to cancel
  worker,     \* per worker: program point, message, loaded job and exec status
  ready,      \* messages waiting in the broker
  nchains,    \* chains published so far
  returned,   \* per chain: tasks whose result reached the chord
  reductions, \* commits of the finalize reducer
  faults      \* bounded counters of the environment's faults and requests

rows    == <<exec, job, task, payload>>
broker  == <<ready, nchains, returned>>
vars    == <<exec, job, task, payload, create, cancel, worker, ready, nchains,
             returned, reductions, faults>>

IdleWorker == [pc |-> "idle", msg |-> NoMessage, jobSeen |-> "queued", execSeen |-> "queued"]

Tasks       == DOMAIN task
Nonterminal == {t \in Tasks : ~Terminal(task[t])}

Init ==
  /\ exec = [status |-> "queued", stage |-> "PREPARE"]
  /\ job = "queued"
  /\ \E n \in 0..NTasks : task = [t \in 1..n |-> "queued"]
  /\ payload = [t \in Tasks |-> "none"]
  /\ create = [pc |-> "publish", tasks |-> {}]
  /\ cancel = [r \in Requests |-> [pc |-> "idle", tasks |-> {}]]
  /\ worker = [w \in Workers |-> IdleWorker]
  /\ ready = {}
  /\ nchains = 0
  /\ returned = [c \in Chains |-> {}]
  /\ reductions = 0
  /\ faults = [crash |-> 0, redeliver |-> 0, raise |-> 0, unhandled |-> 0]

Count(kind) == faults' = [faults EXCEPT ![kind] = @ + 1]

At(w, pc)   == worker[w].pc = pc
Goto(w, pc) == worker' = [worker EXCEPT ![w].pc = pc]

\* load the job and the execution
LoadRows(w, pc) ==
  worker' = [worker EXCEPT ![w] = [@ EXCEPT !.pc = pc, !.jobSeen = job, !.execSeen = exec.status]]

Executing(w, t) == At(w, "executing") /\ worker[w].msg.task = t

\* "execution-parallel-task" advisory lock and the FOR UPDATE row lock
RowNotLocked(t) == TRUE
TaskRowFree(t)  == \A w \in Workers : ~Executing(w, t)
\* "execution-parallel-prepare" and "execution-parallel-finalize" advisory locks
PrepareLockFree  == \A w \in Workers : ~At(w, "preparing")
FinalizeLockFree == \A w \in Workers : ~At(w, "finalizing")

-----------------------------------------------------------------------------
(* create_execution, after the commit of the queued rows                   *)

PublishRun ==
  /\ create.pc = "publish"
  /\ create' = [create EXCEPT !.pc = "done"]
  /\ ready' = ready \cup {RunMessage}
  /\ UNCHANGED <<rows, cancel, worker, nchains, returned, reductions, faults>>

\* apply_async raised: rejected by the broker, or accepted all the same
PublishRunRaises ==
  /\ create.pc = "publish"
  /\ faults.raise < MaxRaises
  /\ Count("raise")
  /\ create' = [create EXCEPT !.pc = "rolled_back"]
  /\ \/ UNCHANGED ready
     \/ AmbiguousPublish /\ ready' = ready \cup {RunMessage}
  /\ UNCHANGED <<rows, cancel, worker, nchains, returned, reductions>>

\* _record_queue_dispatch_failure loads the rows it fails, then writes them
DispatchFailureLoad ==
  /\ create.pc = "rolled_back"
  /\ create' = [pc |-> "failing", tasks |-> Nonterminal]
  /\ UNCHANGED <<rows, cancel, worker, broker, reductions, faults>>

DispatchFailureCommit ==
  /\ create.pc = "failing"
  /\ \A t \in create.tasks : TaskRowFree(t)
  /\ create' = [pc |-> "done", tasks |-> {}]
  /\ exec' = [exec EXCEPT !.status = "failed"]
  /\ job' = "failed"
  /\ task' = [t \in Tasks |-> IF t \in create.tasks THEN "failed" ELSE task[t]]
  /\ UNCHANGED <<payload, cancel, worker, broker, reductions, faults>>

-----------------------------------------------------------------------------
(* cancel: load the execution, then its tasks, then write them             *)

CancelRead(r) ==
  /\ cancel[r].pc = "idle"
  /\ ~Terminal(exec.status)
  /\ cancel' = [cancel EXCEPT ![r].pc = "admitted"]
  /\ UNCHANGED <<rows, create, worker, broker, reductions, faults>>

CancelLoadTasks(r) ==
  /\ cancel[r].pc = "admitted"
  /\ cancel' = [cancel EXCEPT ![r] = [pc |-> "loaded", tasks |-> Nonterminal]]
  /\ UNCHANGED <<rows, create, worker, broker, reductions, faults>>

CancelExecutionOnly(r) ==
  /\ cancel[r].pc = "loaded"
  /\ exec' = [exec EXCEPT !.status = "cancelled"]
  /\ cancel' = [cancel EXCEPT ![r] = [pc |-> "done", tasks |-> {}]]
  /\ UNCHANGED <<job, task, payload, create, worker, broker, reductions, faults>>

CancelCommit(r) ==
  /\ cancel[r].pc = "loaded"
  /\ \A t \in cancel[r].tasks : TaskRowFree(t)
  /\ exec' = [exec EXCEPT !.status = "cancelled"]
  /\ task' = [t \in Tasks |-> IF t \in cancel[r].tasks THEN "cancelled" ELSE task[t]]
  /\ cancel' = [cancel EXCEPT ![r] = [pc |-> "done", tasks |-> {}]]
  /\ UNCHANGED <<job, payload, create, worker, broker, reductions, faults>>

-----------------------------------------------------------------------------
(* execution.run: prepare_parallel_execution_job, then publish the chain   *)

TakeMessage(w) ==
  /\ At(w, "idle")
  /\ \E m \in ready :
       /\ ready' = ready \ {m}
       /\ worker' = [worker EXCEPT ![w] = [IdleWorker EXCEPT !.pc = "taken", !.msg = m]]
  /\ UNCHANGED <<rows, create, cancel, nchains, returned, reductions, faults>>

\* load job and execution under the advisory lock; a terminal job is done with
PrepareBegin(w) ==
  /\ At(w, "taken") /\ worker[w].msg = RunMessage
  /\ PrepareLockFree
  /\ LoadRows(w, IF Terminal(job) THEN "ack" ELSE "preparing")
  /\ UNCHANGED <<rows, create, cancel, broker, reductions, faults>>

PrepareCancelled(w) ==
  /\ At(w, "preparing")
  /\ worker[w].execSeen = "cancelled"
  /\ job' = "cancelled"
  /\ Goto(w, "ack")
  /\ UNCHANGED <<exec, task, payload, create, cancel, broker, reductions, faults>>

\* only the delivery that loaded a queued job resets the rows; a later one
\* rewrites the columns with the values they have
EveryDelivery(w) == TRUE
FirstDelivery(w) == worker[w].jobSeen = "queued"

PrepareCommit(w) ==
  /\ At(w, "preparing")
  /\ worker[w].execSeen # "cancelled"
  /\ IF FirstDelivery(w)
       THEN /\ \A t \in Tasks : TaskRowFree(t)
            /\ job' = "running"
            /\ exec' = [status |-> "running", stage |-> "EXECUTE"]
            /\ task' = PrepareTasks(task)
       ELSE UNCHANGED <<exec, job, task>>
  /\ Goto(w, IF Tasks # {} THEN "publish"
             ELSE IF job' = "running" THEN "taken_finalize" ELSE "ack")
  /\ UNCHANGED <<payload, create, cancel, broker, reductions, faults>>

AllBatches(c, k)    == {TaskMessage(c, t) : t \in Tasks}
BatchMessages(c, k) == {TaskMessage(c, t) : t \in {u \in Tasks : Batch(u) = k}}

\* self.replace(chain(...)): the first group goes to the broker
PublishChain(w) ==
  /\ At(w, "publish")
  /\ nchains < MaxChains
  /\ nchains' = nchains + 1
  /\ ready' = ready \cup BatchMessages(nchains + 1, 1)
  /\ Goto(w, "ack")
  /\ UNCHANGED <<rows, create, cancel, returned, reductions, faults>>

-----------------------------------------------------------------------------
(* execution.run_task: run_parallel_execution_task_job                     *)

TaskDeduplicated(w) ==
  /\ At(w, "taken") /\ worker[w].msg.kind = "task"
  /\ TaskRowFree(worker[w].msg.task)
  /\ Terminal(task[worker[w].msg.task])
  /\ Goto(w, "return")
  /\ UNCHANGED <<rows, create, cancel, broker, reductions, faults>>

TaskCancelled(w) ==
  /\ At(w, "taken") /\ worker[w].msg.kind = "task"
  /\ TaskRowFree(worker[w].msg.task)
  /\ ~Terminal(task[worker[w].msg.task])
  /\ job = "cancelled" \/ exec.status = "cancelled"
  /\ task' = [task EXCEPT ![worker[w].msg.task] = "cancelled"]
  /\ Goto(w, "return")
  /\ UNCHANGED <<exec, job, payload, create, cancel, broker, reductions, faults>>

TaskBegin(w) ==
  /\ At(w, "taken") /\ worker[w].msg.kind = "task"
  /\ TaskRowFree(worker[w].msg.task)
  /\ ~Terminal(task[worker[w].msg.task])
  /\ job # "cancelled" /\ exec.status # "cancelled"
  /\ Goto(w, "executing")
  /\ UNCHANGED <<rows, create, cancel, broker, reductions, faults>>

TaskCommit(w) ==
  /\ At(w, "executing")
  /\ \E outcome \in Outcomes :
       /\ task' = [task EXCEPT ![worker[w].msg.task] = DeriveTaskStatus(outcome)]
       /\ payload' = [payload EXCEPT ![worker[w].msg.task] = PersistRunnerResult(@, outcome)]
  /\ Goto(w, "return")
  /\ UNCHANGED <<exec, job, create, cancel, broker, reductions, faults>>

\* the exception rolls the transaction back, which frees the task's locks
TaskRaises(w) ==
  /\ At(w, "executing")
  /\ faults.raise < MaxRaises
  /\ Count("raise")
  /\ Goto(w, "task_rolled_back")
  /\ UNCHANGED <<rows, create, cancel, broker, reductions>>

\* this second load takes no lock
TaskFailLoad(w) ==
  /\ At(w, "task_rolled_back")
  /\ Goto(w, IF Terminal(task[worker[w].msg.task]) THEN "return" ELSE "task_failing")
  /\ UNCHANGED <<rows, create, cancel, broker, reductions, faults>>

TaskFailCommit(w) ==
  /\ At(w, "task_failing")
  /\ TaskRowFree(worker[w].msg.task)
  /\ task' = [task EXCEPT ![worker[w].msg.task] = "failed"]
  /\ Goto(w, "return")
  /\ UNCHANGED <<exec, job, payload, create, cancel, broker, reductions, faults>>

\* the chord counts a task once; the last task of a batch releases the next
\* group of the chain, the last batch releases the reducer
ReducerWithLastBatch(c, k) ==
  BatchMessages(c, k + 1) \cup
    (IF \E u \in Tasks : Batch(u) = k + 2 THEN {} ELSE {FinalizeMessage(c)})

NextStep(c, k) ==
  IF \E u \in Tasks : Batch(u) = k + 1 THEN BatchMessages(c, k + 1) ELSE {FinalizeMessage(c)}

AnyReturned(k, tasks) == \E u \in tasks : Batch(u) = k
AllReturned(k, tasks) == \A u \in Tasks : Batch(u) = k => u \in tasks

TaskReturn(w) ==
  LET c == worker[w].msg.chain
      t == worker[w].msg.task
      all == returned[c] \cup {t}
  IN /\ At(w, "return")
     /\ returned' = [returned EXCEPT ![c] = all]
     /\ ready' = ready \cup
          (IF AllReturned(Batch(t), all) /\ t \notin returned[c] THEN NextStep(c, Batch(t)) ELSE {})
     /\ Goto(w, "ack")
     /\ UNCHANGED <<rows, create, cancel, nchains, reductions, faults>>

-----------------------------------------------------------------------------
(* execution.finalize: finalize_parallel_execution_job                     *)

FinalizeWithoutDedupe(w) ==
  /\ At(w, "taken") /\ worker[w].msg.kind = "finalize"
  /\ FinalizeLockFree
  /\ LoadRows(w, "finalizing")
  /\ UNCHANGED <<rows, create, cancel, broker, reductions, faults>>

FinalizeBegin(w) ==
  /\ \/ At(w, "taken") /\ worker[w].msg.kind = "finalize"
     \/ At(w, "taken_finalize")
  /\ FinalizeLockFree
  /\ LoadRows(w, IF Terminal(job) THEN "ack" ELSE "finalizing")
  /\ UNCHANGED <<rows, create, cancel, broker, reductions, faults>>

FinalizeCancelled(w) ==
  /\ At(w, "finalizing")
  /\ worker[w].execSeen = "cancelled"
  /\ job' = "cancelled"
  /\ Goto(w, "ack")
  /\ UNCHANGED <<exec, task, payload, create, cancel, broker, reductions, faults>>

FinalizeCommit(w) ==
  /\ At(w, "finalizing")
  /\ worker[w].execSeen # "cancelled"
  /\ \A t \in Tasks : ~Terminal(task[t]) => TaskRowFree(t)
  /\ task' = FailNonterminalTasks(task)
  /\ exec' = Reduced(ExecutionTerminalStatus(task', payload))
  /\ job' = JobStatusForExecution(exec'.status)
  /\ reductions' = reductions + 1
  /\ Goto(w, "reduced")
  /\ UNCHANGED <<payload, create, cancel, broker, faults>>

\* before the commit, or after it: the connection fails once the server has
\* accepted COMMIT, or while the community analysis is stored in the job.  A
\* guardrail that blocks an analysis agent commits the transaction as it stands
\* and only then raises.
FinalizeRaises(w) ==
  /\ \/ At(w, "finalizing") /\ worker[w].execSeen # "cancelled"
     \/ At(w, "reduced")
  /\ faults.raise < MaxRaises
  /\ Count("raise")
  /\ \/ UNCHANGED <<exec, task>>
     \/ /\ At(w, "finalizing")
        /\ \A t \in Tasks : ~Terminal(task[t]) => TaskRowFree(t)
        /\ task' = FailNonterminalTasks(task)
        /\ exec' = [exec EXCEPT !.stage = "ANALYZE"]
  /\ Goto(w, "rolled_back")
  /\ UNCHANGED <<job, payload, create, cancel, broker, reductions>>

\* after the rollback: _recover_committed_job, else load the rows to fail them
RecoverCommittedJob(w) ==
  /\ At(w, "rolled_back")
  /\ LoadRows(w, IF job = "completed" THEN "ack" ELSE "failing")
  /\ UNCHANGED <<rows, create, cancel, broker, reductions, faults>>

\* a column is written only when it differs from the value loaded
FinalizeFailCommit(w) ==
  /\ At(w, "failing")
  /\ \A t \in Tasks : ~Terminal(task[t]) => TaskRowFree(t)
  /\ exec' = [exec EXCEPT !.status = IF worker[w].execSeen = "failed" THEN @ ELSE "failed"]
  /\ job' = IF worker[w].jobSeen = "failed" THEN job ELSE "failed"
  /\ task' = FailNonterminalTasks(task)
  /\ Goto(w, "ack")
  /\ UNCHANGED <<payload, create, cancel, broker, reductions, faults>>

-----------------------------------------------------------------------------
(* broker and worker processes                                             *)

Ack(w) ==
  /\ worker[w].pc \in {"ack", "reduced"}
  /\ worker' = [worker EXCEPT ![w] = IdleWorker]
  /\ UNCHANGED <<rows, create, cancel, broker, reductions, faults>>

\* task_acks_late, task_reject_on_worker_lost
AckedEarly(w) == {}
Unacked(w)    == {worker[w].msg}

\* the process dies: its transaction rolls back and the message is delivered again
Crash(w) ==
  /\ ~At(w, "idle")
  /\ faults.crash < MaxCrashes
  /\ Count("crash")
  /\ ready' = ready \cup Unacked(w)
  /\ worker' = [worker EXCEPT ![w] = IdleWorker]
  /\ UNCHANGED <<rows, create, cancel, nchains, returned, reductions>>

\* the visibility timeout of a message that is still being worked on expires
Redeliver(w) ==
  /\ ~At(w, "idle")
  /\ worker[w].msg \notin ready
  /\ faults.redeliver < MaxRedeliveries
  /\ Count("redeliver")
  /\ ready' = ready \cup Unacked(w)
  /\ UNCHANGED <<rows, create, cancel, worker, nchains, returned, reductions>>

\* an exception outside every try block, in the load or in the compensation:
\* the transaction rolls back, and Celery acknowledges the failed message
UnhandledRaise(w) ==
  /\ worker[w].pc \in {"taken", "preparing", "publish", "task_rolled_back", "task_failing",
                       "taken_finalize", "rolled_back", "failing"}
  /\ faults.unhandled < MaxUnhandled
  /\ Count("unhandled")
  /\ worker' = [worker EXCEPT ![w] = IdleWorker]
  /\ UNCHANGED <<rows, create, cancel, broker, reductions>>

Prepare(w)  == PrepareBegin(w) \/ PrepareCancelled(w) \/ PrepareCommit(w) \/ PublishChain(w)
RunTask(w)  == TaskDeduplicated(w) \/ TaskCancelled(w) \/ TaskBegin(w) \/ TaskCommit(w)
                 \/ TaskFailLoad(w) \/ TaskFailCommit(w) \/ TaskReturn(w)
Finalize(w) == FinalizeBegin(w) \/ FinalizeCancelled(w) \/ FinalizeCommit(w)
                 \/ RecoverCommittedJob(w) \/ FinalizeFailCommit(w)
WorkerStep(w) == TakeMessage(w) \/ Prepare(w) \/ RunTask(w) \/ Finalize(w) \/ Ack(w)
Fault(w)      == TaskRaises(w) \/ FinalizeRaises(w) \/ UnhandledRaise(w) \/ Crash(w) \/ Redeliver(w)
Cancel(r)     == CancelRead(r) \/ CancelLoadTasks(r) \/ CancelCommit(r)
Create        == PublishRun \/ DispatchFailureLoad \/ DispatchFailureCommit

Next ==
  \/ Create \/ PublishRunRaises
  \/ \E r \in Requests : Cancel(r)
  \/ \E w \in Workers : WorkerStep(w) \/ Fault(w)

Fairness == WF_vars(Create) /\ \A w \in Workers : WF_vars(WorkerStep(w))

Spec     == Init /\ [][Next]_vars
FairSpec == Spec /\ Fairness

-----------------------------------------------------------------------------
(* Properties                                                              *)

WorkerPC == {"idle", "taken", "preparing", "publish", "executing", "task_rolled_back",
             "task_failing", "return", "taken_finalize", "finalizing", "reduced",
             "rolled_back", "failing", "ack"}

WorkerState == [pc : WorkerPC, msg : Messages \cup {NoMessage},
                jobSeen : JobStatus, execSeen : TaskStatus]

(* Every variable stays in its domain. *)
TypeOK ==
  /\ exec \in ExecutionRow
  /\ job \in JobStatus
  /\ \E n \in 0..NTasks : task \in [1..n -> TaskStatus]
  /\ payload \in [Tasks -> RunnerStatus]
  /\ create \in [pc : {"publish", "rolled_back", "failing", "done"}, tasks : SUBSET TaskIds]
  /\ cancel \in [Requests -> [pc : {"idle", "admitted", "loaded", "done"},
                              tasks : SUBSET TaskIds]]
  /\ worker \in [Workers -> WorkerState]
  /\ ready \subseteq Messages
  /\ nchains \in 0..MaxChains
  /\ returned \in [Chains -> SUBSET TaskIds]
  /\ reductions \in Nat
  /\ faults \in [{"crash", "redeliver", "raise", "unhandled"} -> Nat]

(* The runner of a task is never at work in two workers at once, whatever  *)
(* is delivered twice.                                                     *)
OneExecutor ==
  \A w, v \in Workers : At(w, "executing") /\ Executing(v, worker[w].msg.task) => w = v

(* A task starts only when every task of the earlier batches is settled,   *)
(* also when two chains for the same execution are under way.              *)
BatchBarrier ==
  \A w \in Workers, t, u \in Tasks :
    Executing(w, t) /\ Batch(u) < Batch(t) => Terminal(task[u])

(* No more runners of the execution work at a time than its parallelism.   *)
BoundedParallelism ==
  Cardinality({w \in Workers : At(w, "executing")}) <= Parallelism

(* The reducer works only on settled tasks.                                *)
ReducerAfterTasks ==
  \A w \in Workers, t \in Tasks : At(w, "finalizing") => Terminal(task[t])

(* The reducer commits at most once for the execution.                     *)
SingleReducer == reductions <= 1

NoCancel  == \A r \in Requests : cancel[r].pc = "idle"
OneCancel == \A r, s \in Requests : cancel[r].pc # "idle" /\ cancel[s].pc # "idle" => r = s

(* Once the job is settled every task is, and no runner is still at work:  *)
(* so long as at most one cancel request came before, and a dispatch that  *)
(* failed left no message with the broker.                                 *)
SettledJob ==
  Terminal(job) /\ OneCancel /\ ~AmbiguousPublish =>
    /\ \A t \in Tasks : Terminal(task[t])
    /\ \A w \in Workers : ~At(w, "executing")

(* A settled job never leaves its execution live, and without a cancel     *)
(* request the two settle with the same status.                            *)
JobExecutionAgree ==
  Terminal(job) => /\ Terminal(exec.status)
                   /\ NoCancel => exec.status = job

(* What makes the safety invariants inductive, whatever the number of      *)
(* workers, tasks, chains and faults.                                      *)

InFlight == ready \cup {worker[w].msg : w \in Workers}

(* Task messages name rows, and each program point has its kind of message. *)
MessageOfPC ==
  /\ \A m \in InFlight : m.kind = "task" => m.task \in Tasks
  /\ \A w \in Workers :
       /\ At(w, "idle") \/ worker[w].msg \in Messages
       /\ worker[w].pc \in {"executing", "task_rolled_back", "task_failing", "return"} =>
            worker[w].msg.kind = "task"
       /\ worker[w].pc \in {"preparing", "publish", "taken_finalize"} =>
            worker[w].msg = RunMessage

(* The two job-wide advisory locks. *)
JobLocks ==
  \A w, v \in Workers, pc \in {"preparing", "finalizing"} : At(w, pc) /\ At(v, pc) => w = v

(* Nothing of the fan-out exists yet: the rows may still be reset. *)
Unprepared ==
  /\ nchains = 0 /\ reductions = 0
  /\ InFlight \subseteq {RunMessage, NoMessage}
  /\ \A c \in Chains : returned[c] = {}
  /\ \A w \in Workers :
       /\ worker[w].pc \in {"idle", "taken", "preparing", "ack"}
       /\ At(w, "preparing") => FirstDelivery(w)

MayReset == job = "queued" \/ \E w \in Workers : At(w, "preparing") /\ FirstDelivery(w)

ResetOnlyUnprepared == MayReset => Unprepared

(* What a message in flight, a worker or the chord says of the tasks. *)
BatchesInOrder ==
  /\ \A m \in InFlight, u \in Tasks :
       /\ m.kind = "task" /\ Batch(u) < Batch(m.task) => Terminal(task[u])
       /\ m.kind = "finalize" => Terminal(task[u])
  /\ \A w \in Workers :
       /\ At(w, "return") => Terminal(task[worker[w].msg.task])
       /\ At(w, "taken_finalize") => Tasks = {}
  /\ \A c \in Chains : \A u \in returned[c] \cap Tasks : Terminal(task[u])

ReducedOnce ==
  /\ reductions > 0 => reductions = 1 /\ Terminal(job)
  /\ \A w \in Workers : At(w, "finalizing") => reductions = 0

(* Before a chain is published the reducer can only run for an empty plan. *)
ChainComesFirst ==
  nchains = 0 => /\ InFlight \subseteq {RunMessage, NoMessage}
                 /\ \A w \in Workers : At(w, "finalizing") => Tasks = {}

FanoutInv ==
  /\ TypeOK /\ MessageOfPC /\ JobLocks /\ OneExecutor
  /\ ResetOnlyUnprepared /\ BatchesInOrder /\ ReducerAfterTasks /\ ReducedOnce
  /\ ChainComesFirst

(* The row lock: a task whose runner works keeps its live status. *)
ExecutingIsLive == \A w \in Workers : At(w, "executing") => ~Terminal(task[worker[w].msg.task])

(* A handler that loaded a settled execution finds it settled when it      *)
(* writes; without a cancel request job and execution move together.       *)
WritesWhatItLoaded == {"preparing", "finalizing", "failing"}

JobFollowsExecution ==
  /\ Terminal(job) => Terminal(exec.status)
  /\ \A w \in Workers :
       /\ worker[w].pc \in WritesWhatItLoaded /\ Terminal(worker[w].execSeen) => Terminal(exec.status)
       /\ worker[w].pc \in {"preparing", "finalizing"} => ~Terminal(worker[w].jobSeen)
  /\ NoCancel => /\ exec.status = job
                 /\ \A w \in Workers :
                      worker[w].pc \in WritesWhatItLoaded => worker[w].execSeen = worker[w].jobSeen

(* Nothing is under way for an execution whose dispatch failed. *)
UndispatchedIsIdle ==
  create.pc = "publish" \/ (create.pc \in {"rolled_back", "failing"} /\ ~AmbiguousPublish) =>
    ready = {} /\ \A w \in Workers : At(w, "idle")

(* One cancel request, or a dispatch failure, that has loaded the live     *)
(* tasks has all that are live when it writes, and so no settled execution *)
(* has a live task.                                                        *)
StoppedTogether ==
  OneCancel /\ ~AmbiguousPublish =>
    /\ Terminal(exec.status) => Nonterminal = {}
    /\ \A r \in Requests : cancel[r].pc = "loaded" => Nonterminal \subseteq cancel[r].tasks
    /\ create.pc = "failing" => Nonterminal \subseteq create.tasks
    /\ MayReset /\ (\A r \in Requests : cancel[r].pc # "done") => Nonterminal = Tasks

SettlementInv ==
  FanoutInv /\ ExecutingIsLive /\ JobFollowsExecution /\ UndispatchedIsIdle /\ StoppedTogether

(* A message is still to be handled while it waits, or a worker has not    *)
(* come to the end of its handler.                                         *)
ToHandle(m) ==
  m \in ready \/ \E w \in Workers : worker[w].msg = m /\ worker[w].pc \notin {"idle", "ack", "reduced"}

(* A chain has its reducer to call, or a batch whose results all come.     *)
ChainGoesOn(c) ==
  \/ ToHandle(FinalizeMessage(c))
  \/ \E t \in Tasks \ returned[c] : \A u \in Tasks \ returned[c] :
       Batch(u) = Batch(t) => ToHandle(TaskMessage(c, u))

(* No message is lost on which a live job depends, whatever crashes, is    *)
(* delivered twice or raises inside a handler: its dispatch or preparation *)
(* is under way, and then every chain goes on to its reducer.              *)
LiveJobIsUnderWay ==
  ~Terminal(job) /\ faults.unhandled = 0 =>
    /\ nchains = 0 => create.pc # "done" \/ ToHandle(RunMessage)
    /\ \A c \in 1..nchains : ChainGoesOn(c)

(* A chord has the results of all batches before the one it released.      *)
ReturnedInOrder ==
  \A c \in Chains :
    /\ \A t, u \in Tasks :
         Batch(u) < Batch(t) /\ (TaskMessage(c, t) \in InFlight \/ t \in returned[c]) => u \in returned[c]
    /\ nchains < c => returned[c] = {} /\ \A m \in InFlight : m.chain # c

(* Who may end a handler without settling the job has found it settled.    *)
LeavesSettled ==
  \A w \in Workers :
    /\ At(w, "publish") => Tasks # {}
    /\ At(w, "preparing") /\ ~FirstDelivery(w) => job # "queued"
    /\ At(w, "failing") /\ worker[w].jobSeen = "failed" => Terminal(job)

ProgressInv == SettlementInv /\ ReturnedInOrder /\ LeavesSettled /\ LiveJobIsUnderWay

(* From the moment the fan-out is published no task leaves a terminal      *)
(* status for a live one: finished work is never put back in the queue.    *)
FinishedStaysFinished ==
  [][\A t \in Tasks : nchains > 0 /\ Terminal(task[t]) => Terminal(task'[t])]_vars

(* The fan-out implements FanoutReduction.  Before the first chain is       *)
(* published the rows may still be reset, so nothing counts as settled.    *)
Fanned == IF nchains = 0 THEN {} ELSE {t \in Tasks : Terminal(task[t])}

Reduction ==
  INSTANCE FanoutReduction
    WITH Ids <- TaskIds, members <- Tasks, settled <- Fanned, reduced <- (reductions > 0)

ImplementsReduction == Reduction!Spec

(* A job that committed success keeps it.                                  *)
CommittedSuccessKept == [][job = "completed" => job' = "completed"]_vars

(* In a completed execution the only failed tasks are those whose runner   *)
(* completed and reported a blocking finding.                              *)
CompletedHidesNoFailure ==
  exec.status = "completed" => \A t \in Tasks : task[t] = "failed" => payload[t] = "completed"

(* The job settles, whatever crashes, redeliveries and exceptions happened. *)
JobSettles == <>Terminal(job)
=============================================================================
