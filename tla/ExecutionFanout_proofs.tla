------------------------ MODULE ExecutionFanout_proofs ------------------------
(***************************************************************************)
(* Theorems about ExecutionFanout, for any number of workers, cancel       *)
(* requests, tasks, chains and faults and any parallelism.  FanoutInv is   *)
(* inductive; five invariants, the action property and the refinement of   *)
(* FanoutReduction follow from it.  Its strengthening SettlementInv, at    *)
(* the end, gives what holds of a settled job and of the runners at work.  *)
(***************************************************************************)
EXTENDS ExecutionFanout, FiniteSetTheorems, TLAPS

-----------------------------------------------------------------------------
(* Batches                                                                 *)

(* Batches are numbered from one. *)
LEMMA BatchIsPositive ==
  ASSUME NEW t \in Nat \ {0}
  PROVE  Batch(t) \in Nat \ {0}
BY FanoutAssumption DEF Batch

(* There is no gap in the numbering of the batches. *)
LEMMA NoBatchGap ==
  ASSUME NEW k \in Nat \ {0}, NEW u \in Nat \ {0}, Batch(u) > k
  PROVE  \E v \in 1..u : Batch(v) = k + 1
<1>1. Parallelism \in Nat \ {0}
  BY FanoutAssumption
<1> DEFINE v == k * Parallelism + 1
<1>2. /\ v \in Nat \ {0}
      /\ (v - 1) \div Parallelism = k
  BY <1>1
<1>3. v <= u
  BY <1>1 DEF Batch
<1> QED
  BY <1>2, <1>3 DEF Batch

-----------------------------------------------------------------------------
(* The worker records                                                      *)

(* Moving a worker to another program point keeps the records well formed. *)
LEMMA GotoType ==
  ASSUME worker \in [Workers -> WorkerState], NEW w \in Workers, NEW pc \in WorkerPC,
         Goto(w, pc)
  PROVE  worker' \in [Workers -> WorkerState]
BY DEF Goto, WorkerState

(* So does loading the job and the execution on the way. *)
LEMMA LoadType ==
  ASSUME TypeOK, NEW w \in Workers, NEW pc \in WorkerPC,
         LoadRows(w, pc)
  PROVE  worker' \in [Workers -> WorkerState]
<1>1. /\ worker[w] \in WorkerState
      /\ job \in JobStatus /\ exec.status \in TaskStatus
  BY DEF TypeOK, ExecutionRow
<1>2. [worker[w] EXCEPT !.pc = pc, !.jobSeen = job, !.execSeen = exec.status] \in WorkerState
  BY <1>1 DEF WorkerState
<1> QED
  BY <1>2 DEF LoadRows, TypeOK

(* And going back to idle. *)
LEMMA IdleType ==
  ASSUME worker \in [Workers -> WorkerState], NEW w \in Workers,
         worker' = [worker EXCEPT ![w] = IdleWorker]
  PROVE  worker' \in [Workers -> WorkerState]
<1>1. IdleWorker \in WorkerState
  BY DEF IdleWorker, WorkerState, WorkerPC, JobStatus, TaskStatus
<1> QED
  BY <1>1

(* The task rows are numbered from one. *)
LEMMA TasksInterval ==
  ASSUME TypeOK
  PROVE  /\ \E n \in Nat : Tasks = 1..n
         /\ Tasks \subseteq Nat \ {0}
<1>1. PICK n \in 0..NTasks : task \in [1..n -> TaskStatus]
  BY DEF TypeOK
<1>2. Tasks = 1..n /\ n \in Nat
  BY <1>1, NTasksAssumption DEF Tasks
<1> QED
  BY <1>2

(* No message is the empty one. *)
LEMMA MessagesExist == NoMessage \notin Messages
<1>1. \A m \in Messages : m.kind \in {"run", "task", "finalize"}
  BY DEF Messages, RunMessage, TaskMessages, TaskMessage, FinalizeMessages, FinalizeMessage
<1>2. NoMessage.kind = "none"
  BY DEF NoMessage
<1> QED
  BY <1>1, <1>2

(* The messages of one batch are messages of the execution. *)
LEMMA BatchMessagesType ==
  ASSUME TypeOK, NEW c \in Chains, NEW k
  PROVE  BatchMessages(c, k) \subseteq Messages
<1>1. Tasks \subseteq TaskIds
  BY NTasksAssumption DEF TypeOK, Tasks, TaskIds
<1> QED
  BY <1>1 DEF BatchMessages, Messages, TaskMessages

-----------------------------------------------------------------------------
(* The rows of a step                                                      *)

(* A step neither adds nor removes a task row. *)
LEMMA TasksConstant ==
  ASSUME TypeOK, [Next]_vars
  PROVE  Tasks' = Tasks
<1> USE DEF Tasks
<1>1. CASE UNCHANGED task
  BY <1>1
<1>2. ASSUME NEW w \in Workers, WorkerStep(w), task' # task
      PROVE  DOMAIN task' = DOMAIN task
  <2>1. CASE PrepareCommit(w)
    BY <2>1, <1>2 DEF PrepareCommit, PrepareTasks
  <2>2. CASE TaskCancelled(w) \/ TaskFailCommit(w) \/ TaskCommit(w)
    BY <2>2 DEF TaskCancelled, TaskFailCommit, TaskCommit
  <2>3. CASE FinalizeCommit(w) \/ FinalizeFailCommit(w)
    BY <2>3 DEF FinalizeCommit, FinalizeFailCommit, FailNonterminalTasks
  <2> QED
    BY <1>2, <2>1, <2>2, <2>3
    DEF WorkerStep, Prepare, RunTask, Finalize, TakeMessage, PrepareBegin, PrepareCancelled,
        PublishChain, TaskDeduplicated, TaskBegin, TaskFailLoad, TaskReturn, FinalizeBegin,
        FinalizeCancelled, RecoverCommittedJob, Ack, rows
<1>3. CASE Create \/ PublishRunRaises
  BY <1>3 DEF Create, PublishRun, PublishRunRaises, DispatchFailureLoad, DispatchFailureCommit, rows
<1>4. ASSUME NEW r \in Requests, Cancel(r)
      PROVE  DOMAIN task' = DOMAIN task
  BY <1>4 DEF Cancel, CancelRead, CancelLoadTasks, CancelCommit, rows
<1>5. ASSUME NEW w \in Workers, Fault(w)
      PROVE  DOMAIN task' = DOMAIN task
  <2>1. CASE FinalizeRaises(w)
    BY <2>1 DEF FinalizeRaises, FailNonterminalTasks
  <2> QED
    BY <1>5, <2>1 DEF Fault, TaskRaises, UnhandledRaise, Crash, Redeliver, rows
<1> QED
  BY <1>1, <1>2, <1>3, <1>4, <1>5 DEF Next, vars

-----------------------------------------------------------------------------
(* Type correctness                                                        *)

LEMMA RowsType ==
  ASSUME TypeOK, [Next]_vars
  PROVE  /\ exec' \in ExecutionRow
         /\ job' \in JobStatus
         /\ task' \in [Tasks -> TaskStatus]
         /\ payload' \in [Tasks -> RunnerStatus]
<1> DEFINE Typed == /\ exec' \in ExecutionRow
                    /\ job' \in JobStatus
                    /\ task' \in [Tasks -> TaskStatus]
                    /\ payload' \in [Tasks -> RunnerStatus]
<1>1. /\ exec \in ExecutionRow
      /\ job \in JobStatus
      /\ task \in [Tasks -> TaskStatus]
      /\ payload \in [Tasks -> RunnerStatus]
  BY DEF TypeOK, Tasks
<1> USE DEF ExecutionRow, JobStatus, TaskStatus, Stage
<1>2. CASE UNCHANGED rows
  BY <1>1, <1>2 DEF rows
<1>3. CASE DispatchFailureCommit
  BY <1>1, <1>3 DEF DispatchFailureCommit
<1>4. ASSUME NEW r \in Requests, CancelCommit(r)
      PROVE  Typed
  BY <1>1, <1>4 DEF CancelCommit
<1>5. ASSUME NEW w \in Workers, PrepareCancelled(w) \/ FinalizeCancelled(w)
      PROVE  Typed
  BY <1>1, <1>5 DEF PrepareCancelled, FinalizeCancelled
<1>6. ASSUME NEW w \in Workers, PrepareCommit(w)
      PROVE  Typed
  BY <1>1, <1>6 DEF PrepareCommit, PrepareTasks, Tasks
<1>7. ASSUME NEW w \in Workers, TaskCancelled(w) \/ TaskFailCommit(w)
      PROVE  Typed
  BY <1>1, <1>7 DEF TaskCancelled, TaskFailCommit
<1>8. ASSUME NEW w \in Workers, TaskCommit(w)
      PROVE  Typed
  <2>1. \A outcome \in Outcomes : DeriveTaskStatus(outcome) \in TaskStatus
    BY DEF DeriveTaskStatus
  <2>2. \A old \in RunnerStatus, outcome \in Outcomes :
          PersistRunnerResult(old, outcome) \in RunnerStatus
    BY FanoutAssumption DEF PersistRunnerResult, RunnerStatus, AllOutcomes
  <2> DEFINE t == worker[w].msg.task
  <2>3. PICK outcome \in Outcomes :
          /\ task' = [task EXCEPT ![t] = DeriveTaskStatus(outcome)]
          /\ payload' = [payload EXCEPT ![t] = PersistRunnerResult(payload[t], outcome)]
    BY <1>8 DEF TaskCommit
  <2>4. task' \in [Tasks -> TaskStatus]
    BY <1>1, <2>1, <2>3
  <2>5. payload' \in [Tasks -> RunnerStatus]
    BY <1>1, <2>2, <2>3
  <2> QED
    BY <1>1, <1>8, <2>4, <2>5 DEF TaskCommit
<1>9. ASSUME NEW w \in Workers, FinalizeRaises(w)
      PROVE  Typed
  <2>1. CASE UNCHANGED <<exec, task>>
    BY <1>1, <1>9, <2>1 DEF FinalizeRaises
  <2>2. CASE task' = FailNonterminalTasks(task) /\ exec' = [exec EXCEPT !.stage = "ANALYZE"]
    BY <1>1, <1>9, <2>2 DEF FinalizeRaises, FailNonterminalTasks, Tasks
  <2> QED
    BY <1>9, <2>1, <2>2 DEF FinalizeRaises
<1>10. ASSUME NEW w \in Workers, FinalizeCommit(w) \/ FinalizeFailCommit(w)
      PROVE  Typed
  <2>1. task' = FailNonterminalTasks(task) /\ UNCHANGED payload
    BY <1>10 DEF FinalizeCommit, FinalizeFailCommit
  <2>2. task' \in [Tasks -> TaskStatus]
    BY <1>1, <2>1 DEF FailNonterminalTasks, Tasks
  <2>3. exec' \in ExecutionRow /\ job' \in JobStatus
    BY <1>1, <1>10 DEF FinalizeCommit, FinalizeFailCommit, Reduced, ExecutionTerminalStatus,
                      JobStatusForExecution
  <2> QED
    BY <1>1, <2>1, <2>2, <2>3
<1> QED
  BY <1>2, <1>3, <1>4, <1>5, <1>6, <1>7, <1>8, <1>9, <1>10
  DEF Next, vars, Create, PublishRun, PublishRunRaises, DispatchFailureLoad, Cancel, CancelRead,
      CancelLoadTasks, WorkerStep, TakeMessage, Prepare, PrepareBegin, PublishChain, RunTask,
      TaskDeduplicated, TaskBegin, TaskFailLoad, TaskReturn, Finalize, FinalizeBegin,
      RecoverCommittedJob, Ack, Fault, TaskRaises, UnhandledRaise, Crash,
      Redeliver, rows

LEMMA WorkersType ==
  ASSUME TypeOK, MessageOfPC, [Next]_vars
  PROVE  worker' \in [Workers -> WorkerState]
<1>1. worker \in [Workers -> WorkerState]
  BY DEF TypeOK
<1>2. ASSUME NEW w \in Workers, NEW pc \in WorkerPC, Goto(w, pc) \/ LoadRows(w, pc)
      PROVE  worker' \in [Workers -> WorkerState]
  BY <1>1, <1>2, GotoType, LoadType
<1>3. ASSUME NEW w \in Workers, worker' = [worker EXCEPT ![w] = IdleWorker]
      PROVE  worker' \in [Workers -> WorkerState]
  BY <1>1, <1>3, IdleType
<1>4. ASSUME NEW w \in Workers, TakeMessage(w)
      PROVE  worker' \in [Workers -> WorkerState]
  <2>1. PICK m \in ready : worker' = [worker EXCEPT ![w] =
                             [IdleWorker EXCEPT !.pc = "taken", !.msg = m]]
    BY <1>4 DEF TakeMessage
  <2>2. m \in Messages
    BY DEF TypeOK
  <2>3. [IdleWorker EXCEPT !.pc = "taken", !.msg = m] \in WorkerState
    BY <2>2 DEF IdleWorker, WorkerState, WorkerPC, JobStatus, TaskStatus
  <2> QED
    BY <1>1, <2>1, <2>3
<1>5. CASE UNCHANGED worker
  BY <1>1, <1>5
<1>6. ASSUME NEW w \in Workers, Prepare(w)
      PROVE  worker' \in [Workers -> WorkerState]
  BY <1>2, <1>6 DEF Prepare, PrepareBegin, PrepareCancelled, PrepareCommit, PublishChain, WorkerPC
<1>7. ASSUME NEW w \in Workers, RunTask(w)
      PROVE  worker' \in [Workers -> WorkerState]
  BY <1>2, <1>7 DEF RunTask, TaskDeduplicated, TaskCancelled, TaskBegin, TaskCommit, TaskFailLoad,
                    TaskFailCommit, TaskReturn, WorkerPC
<1>8. ASSUME NEW w \in Workers, Finalize(w)
      PROVE  worker' \in [Workers -> WorkerState]
  BY <1>2, <1>8 DEF Finalize, FinalizeBegin, FinalizeCancelled, FinalizeCommit,
                    RecoverCommittedJob, FinalizeFailCommit, WorkerPC
<1>9. ASSUME NEW w \in Workers, Fault(w)
      PROVE  worker' \in [Workers -> WorkerState]
  BY <1>1, <1>2, <1>3, <1>9 DEF Fault, TaskRaises, FinalizeRaises, UnhandledRaise, Crash, Redeliver,
                           WorkerPC
<1> QED
  BY <1>3, <1>4, <1>5, <1>6, <1>7, <1>8, <1>9
  DEF Next, vars, Create, PublishRun, PublishRunRaises, DispatchFailureLoad, DispatchFailureCommit,
      Cancel, CancelRead, CancelLoadTasks, CancelCommit, WorkerStep, Ack

LEMMA BrokerType ==
  ASSUME TypeOK, MessageOfPC, [Next]_vars
  PROVE  /\ ready' \subseteq Messages
         /\ nchains' \in 0..MaxChains
         /\ returned' \in [Chains -> SUBSET TaskIds]
<1> DEFINE Typed == /\ ready' \subseteq Messages
                    /\ nchains' \in 0..MaxChains
                    /\ returned' \in [Chains -> SUBSET TaskIds]
<1>1. /\ ready \subseteq Messages
      /\ nchains \in 0..MaxChains
      /\ returned \in [Chains -> SUBSET TaskIds]
      /\ MaxChains \in Nat
  BY FanoutAssumption DEF TypeOK
<1>2. CASE UNCHANGED broker
  BY <1>1, <1>2 DEF broker
<1>3. CASE PublishRun \/ PublishRunRaises
  BY <1>1, <1>3 DEF PublishRun, PublishRunRaises, Messages
<1>4. ASSUME NEW w \in Workers, TakeMessage(w)
      PROVE  Typed
  BY <1>1, <1>4 DEF TakeMessage
<1>5. ASSUME NEW w \in Workers, Crash(w) \/ Redeliver(w)
      PROVE  Typed
  <2>1. worker[w].msg \in Messages
    BY <1>5 DEF Crash, Redeliver, MessageOfPC
  <2> QED
    BY <1>1, <1>5, <2>1 DEF Crash, Redeliver, Unacked
<1>6. ASSUME NEW w \in Workers, PublishChain(w)
      PROVE  Typed
  <2>1. nchains + 1 \in Chains
    BY <1>1, <1>6 DEF PublishChain, Chains
  <2>2. BatchMessages(nchains + 1, 1) \subseteq Messages
    BY <2>1, BatchMessagesType
  <2> QED
    BY <1>1, <1>6, <2>1, <2>2 DEF PublishChain, Chains
<1>7. ASSUME NEW w \in Workers, TaskReturn(w)
      PROVE  Typed
  <2> DEFINE m == worker[w].msg
  <2>1. m.kind = "task" /\ m \in Messages
    BY <1>7 DEF TaskReturn, MessageOfPC, At
  <2>2. m.chain \in Chains /\ m.task \in TaskIds
    BY <2>1 DEF Messages, RunMessage, TaskMessages, TaskMessage, FinalizeMessages, FinalizeMessage
  <2>3. NextStep(m.chain, Batch(m.task)) \subseteq Messages
    BY <2>2, BatchMessagesType DEF NextStep, Messages, FinalizeMessages
  <2>4. ready' \subseteq Messages
    BY <1>1, <1>7, <2>3 DEF TaskReturn
  <2>5. returned' \in [Chains -> SUBSET TaskIds]
    BY <1>1, <1>7, <2>2 DEF TaskReturn
  <2> QED
    BY <1>1, <1>7, <2>4, <2>5 DEF TaskReturn
<1> QED
  BY <1>2, <1>3, <1>4, <1>5, <1>6, <1>7
  DEF Next, vars, Create, DispatchFailureLoad, DispatchFailureCommit, Cancel, CancelRead,
      CancelLoadTasks, CancelCommit, WorkerStep, Prepare, PrepareBegin, PrepareCancelled,
      PrepareCommit, RunTask, TaskDeduplicated, TaskCancelled, TaskBegin, TaskCommit, TaskFailLoad,
      TaskFailCommit, Finalize, FinalizeBegin, FinalizeCancelled, FinalizeCommit,
      RecoverCommittedJob, FinalizeFailCommit, Ack, Fault, TaskRaises, FinalizeRaises,
      UnhandledRaise, broker

LEMMA ClientsType ==
  ASSUME TypeOK, [Next]_vars
  PROVE  /\ create' \in [pc : {"publish", "rolled_back", "failing", "done"},
                         tasks : SUBSET TaskIds]
         /\ cancel' \in [Requests -> [pc : {"idle", "admitted", "loaded", "done"},
                                      tasks : SUBSET TaskIds]]
         /\ reductions' \in Nat
         /\ faults' \in [{"crash", "redeliver", "raise", "unhandled"} -> Nat]
<1> DEFINE CreateState == [pc : {"publish", "rolled_back", "failing", "done"},
                           tasks : SUBSET TaskIds]
           CancelState == [pc : {"idle", "admitted", "loaded", "done"}, tasks : SUBSET TaskIds]
           Typed == /\ create' \in CreateState
                    /\ cancel' \in [Requests -> CancelState]
                    /\ reductions' \in Nat
                    /\ faults' \in [{"crash", "redeliver", "raise", "unhandled"} -> Nat]
<1>1. /\ create \in CreateState
      /\ cancel \in [Requests -> CancelState]
      /\ reductions \in Nat
      /\ faults \in [{"crash", "redeliver", "raise", "unhandled"} -> Nat]
  BY DEF TypeOK
<1>2. Nonterminal \subseteq TaskIds
  BY NTasksAssumption DEF TypeOK, Nonterminal, Tasks, TaskIds
<1>3. CASE UNCHANGED <<create, cancel, reductions, faults>>
  BY <1>1, <1>3
<1>4. CASE Create \/ PublishRunRaises
  BY <1>1, <1>2, <1>4 DEF Create, PublishRun, DispatchFailureLoad, DispatchFailureCommit,
                          PublishRunRaises, Count
<1>5. ASSUME NEW r \in Requests, Cancel(r)
      PROVE  Typed
  <2>1. cancel[r] \in CancelState
    BY <1>1
  <2>2. [cancel[r] EXCEPT !.pc = "admitted"] \in CancelState
    BY <2>1
  <2> QED
    BY <1>1, <1>2, <1>5, <2>2 DEF Cancel, CancelRead, CancelLoadTasks, CancelCommit
<1>6. ASSUME NEW w \in Workers, FinalizeCommit(w)
      PROVE  Typed
  BY <1>1, <1>6 DEF FinalizeCommit
<1>7. ASSUME NEW w \in Workers, Fault(w)
      PROVE  Typed
  BY <1>1, <1>7 DEF Fault, TaskRaises, FinalizeRaises, UnhandledRaise, Crash, Redeliver, Count
<1> QED
  BY <1>3, <1>4, <1>5, <1>6, <1>7
  DEF Next, vars, WorkerStep, TakeMessage, Prepare, PrepareBegin, PrepareCancelled, PrepareCommit,
      PublishChain, RunTask, TaskDeduplicated, TaskCancelled, TaskBegin, TaskCommit, TaskFailLoad,
      TaskFailCommit, TaskReturn, Finalize, FinalizeBegin, FinalizeCancelled, RecoverCommittedJob,
      FinalizeFailCommit, Ack

LEMMA TypeStep ==
  ASSUME TypeOK, MessageOfPC, [Next]_vars
  PROVE  TypeOK'
<1>1. PICK n \in 0..NTasks : task \in [1..n -> TaskStatus]
  BY DEF TypeOK
<1>2. Tasks = 1..n
  BY <1>1 DEF Tasks
<1> QED
  BY <1>1, <1>2, TasksConstant, RowsType, WorkersType, BrokerType, ClientsType DEF TypeOK

-----------------------------------------------------------------------------
(* What a step does to a worker, to the messages in flight and to the tasks *)

LEMMA Moves ==
  ASSUME TypeOK, NEW w \in Workers, NEW pc, Goto(w, pc) \/ LoadRows(w, pc)
  PROVE  /\ worker'[w].pc = pc
         /\ worker'[w].msg = worker[w].msg
         /\ LoadRows(w, pc) => worker'[w].jobSeen = job
         /\ \A v \in Workers \ {w} : worker'[v] = worker[v]
<1>1. worker \in [Workers -> WorkerState] /\ worker[w] \in WorkerState
  BY DEF TypeOK
<1>2. CASE Goto(w, pc)
  <2>1. worker' = [worker EXCEPT ![w] = [worker[w] EXCEPT !.pc = pc]]
    BY <1>2 DEF Goto
  <2>2. worker'[w] = [worker[w] EXCEPT !.pc = pc]
    BY <1>1, <2>1
  <2>3. worker'[w].pc = pc /\ worker'[w].msg = worker[w].msg
    BY <1>1, <2>2 DEF WorkerState
  <2>4. LoadRows(w, pc) => worker'[w].jobSeen = job
    BY <1>1 DEF LoadRows, WorkerState
  <2> QED
    BY <1>1, <2>1, <2>3, <2>4
<1>3. CASE LoadRows(w, pc)
  BY <1>1, <1>3 DEF LoadRows, WorkerState
<1> QED
  BY <1>2, <1>3

LEMMA Takes ==
  ASSUME TypeOK, NEW w \in Workers, TakeMessage(w)
  PROVE  \E m \in ready : /\ worker'[w] = [IdleWorker EXCEPT !.pc = "taken", !.msg = m]
                          /\ worker'[w].pc = "taken" /\ worker'[w].msg = m
                          /\ ready' = ready \ {m}
                          /\ \A v \in Workers \ {w} : worker'[v] = worker[v]
<1>1. PICK m \in ready : /\ ready' = ready \ {m}
                         /\ worker' = [worker EXCEPT ![w] = [IdleWorker EXCEPT !.pc = "taken",
                                                                               !.msg = m]]
  BY DEF TakeMessage
<1>2. worker'[w] = [IdleWorker EXCEPT !.pc = "taken", !.msg = m]
  BY <1>1 DEF TypeOK
<1>3. worker'[w].pc = "taken" /\ worker'[w].msg = m
  BY <1>2 DEF IdleWorker
<1>4. \A v \in Workers \ {w} : worker'[v] = worker[v]
  BY <1>1 DEF TypeOK
<1> QED
  BY <1>1, <1>2, <1>3, <1>4

LEMMA GoesIdle ==
  ASSUME TypeOK, NEW w \in Workers, worker' = [worker EXCEPT ![w] = IdleWorker]
  PROVE  /\ worker'[w] = IdleWorker
         /\ worker'[w].pc = "idle" /\ worker'[w].msg = NoMessage
         /\ \A v \in Workers \ {w} : worker'[v] = worker[v]
BY DEF TypeOK, IdleWorker

(* The record of a worker changes only by a step of that worker. *)
LEMMA OnlyOwnSteps ==
  ASSUME TypeOK, [Next]_vars, NEW w \in Workers
  PROVE  \/ worker'[w] = worker[w]
         \/ worker' = [worker EXCEPT ![w] = IdleWorker]
         \/ TakeMessage(w) \/ Prepare(w) \/ RunTask(w) \/ Finalize(w)
         \/ TaskRaises(w) \/ FinalizeRaises(w)
<1>1. ASSUME NEW v \in Workers, v # w, WorkerStep(v) \/ Fault(v)
      PROVE  worker'[w] = worker[w]
  <2>1. ASSUME NEW pc, Goto(v, pc) \/ LoadRows(v, pc)
        PROVE  worker'[w] = worker[w]
    BY <1>1, <2>1, Moves
  <2>2. CASE TakeMessage(v)
    BY <1>1, <2>2, Takes
  <2>3. CASE worker' = [worker EXCEPT ![v] = IdleWorker]
    BY <1>1, <2>3, GoesIdle
  <2> QED
    BY <1>1, <2>1, <2>2, <2>3
    DEF WorkerStep, Prepare, PrepareBegin, PrepareCancelled, PrepareCommit, PublishChain, RunTask,
        TaskDeduplicated, TaskCancelled, TaskBegin, TaskCommit, TaskFailLoad, TaskFailCommit,
        TaskReturn, Finalize, FinalizeBegin, FinalizeCancelled, FinalizeCommit,
        RecoverCommittedJob, FinalizeFailCommit, Ack, Fault, TaskRaises, FinalizeRaises,
        UnhandledRaise, Crash, Redeliver
<1>2. CASE WorkerStep(w) \/ Fault(w)
  BY <1>2 DEF WorkerStep, Ack, Fault, UnhandledRaise, Crash, Redeliver
<1>3. CASE UNCHANGED worker
  BY <1>3
<1> QED
  BY <1>1, <1>2, <1>3
  DEF Next, vars, Create, PublishRun, PublishRunRaises, DispatchFailureLoad, DispatchFailureCommit,
      Cancel, CancelRead, CancelLoadTasks, CancelCommit

(* How a worker gets to the program points that hold a lock. *)
LEMMA EntersPreparing ==
  ASSUME TypeOK, [Next]_vars, NEW w \in Workers, worker'[w].pc = "preparing"
  PROVE  \/ worker'[w] = worker[w]
         \/ PrepareBegin(w) /\ ~Terminal(job) /\ worker'[w].jobSeen = job
<1>1. CASE Prepare(w)
  BY <1>1, Moves DEF Prepare, PrepareBegin, PrepareCancelled, PrepareCommit, PublishChain
<1>2. CASE RunTask(w)
  BY <1>2, Moves DEF RunTask, TaskDeduplicated, TaskCancelled, TaskBegin, TaskCommit, TaskFailLoad,
                     TaskFailCommit, TaskReturn
<1>3. CASE Finalize(w)
  BY <1>3, Moves DEF Finalize, FinalizeBegin, FinalizeCancelled, FinalizeCommit,
                     RecoverCommittedJob, FinalizeFailCommit
<1>4. CASE TakeMessage(w) \/ TaskRaises(w) \/ FinalizeRaises(w)
  <2>1. TakeMessage(w) => worker'[w].pc = "taken"
    BY Takes
  <2>2. TaskRaises(w) => worker'[w].pc = "task_rolled_back"
    BY Moves DEF TaskRaises
  <2>3. FinalizeRaises(w) => worker'[w].pc = "rolled_back"
    BY Moves DEF FinalizeRaises
  <2> QED
    BY <1>4, <2>1, <2>2, <2>3
<1> QED
  BY <1>1, <1>2, <1>3, <1>4, OnlyOwnSteps, GoesIdle

LEMMA EntersFinalizing ==
  ASSUME TypeOK, [Next]_vars, NEW w \in Workers, worker'[w].pc = "finalizing"
  PROVE  \/ worker'[w] = worker[w]
         \/ FinalizeBegin(w) /\ ~Terminal(job)
<1>1. CASE Prepare(w)
  BY <1>1, Moves DEF Prepare, PrepareBegin, PrepareCancelled, PrepareCommit, PublishChain
<1>2. CASE RunTask(w)
  BY <1>2, Moves DEF RunTask, TaskDeduplicated, TaskCancelled, TaskBegin, TaskCommit, TaskFailLoad,
                     TaskFailCommit, TaskReturn
<1>3. CASE Finalize(w)
  BY <1>3, Moves DEF Finalize, FinalizeBegin, FinalizeCancelled, FinalizeCommit,
                     RecoverCommittedJob, FinalizeFailCommit
<1>4. CASE TakeMessage(w) \/ TaskRaises(w) \/ FinalizeRaises(w)
  <2>1. TakeMessage(w) => worker'[w].pc = "taken"
    BY Takes
  <2>2. TaskRaises(w) => worker'[w].pc = "task_rolled_back"
    BY Moves DEF TaskRaises
  <2>3. FinalizeRaises(w) => worker'[w].pc = "rolled_back"
    BY Moves DEF FinalizeRaises
  <2> QED
    BY <1>4, <2>1, <2>2, <2>3
<1> QED
  BY <1>1, <1>2, <1>3, <1>4, OnlyOwnSteps, GoesIdle

LEMMA EntersExecuting ==
  ASSUME TypeOK, [Next]_vars, NEW w \in Workers, worker'[w].pc = "executing"
  PROVE  \/ worker'[w] = worker[w]
         \/ TaskBegin(w) /\ worker'[w].msg = worker[w].msg
<1>1. CASE Prepare(w)
  BY <1>1, Moves DEF Prepare, PrepareBegin, PrepareCancelled, PrepareCommit, PublishChain
<1>2. CASE RunTask(w)
  BY <1>2, Moves DEF RunTask, TaskDeduplicated, TaskCancelled, TaskBegin, TaskCommit, TaskFailLoad,
                     TaskFailCommit, TaskReturn
<1>3. CASE Finalize(w)
  BY <1>3, Moves DEF Finalize, FinalizeBegin, FinalizeCancelled, FinalizeCommit,
                     RecoverCommittedJob, FinalizeFailCommit
<1>4. CASE TakeMessage(w) \/ TaskRaises(w) \/ FinalizeRaises(w)
  <2>1. TakeMessage(w) => worker'[w].pc = "taken"
    BY Takes
  <2>2. TaskRaises(w) => worker'[w].pc = "task_rolled_back"
    BY Moves DEF TaskRaises
  <2>3. FinalizeRaises(w) => worker'[w].pc = "rolled_back"
    BY Moves DEF FinalizeRaises
  <2> QED
    BY <1>4, <2>1, <2>2, <2>3
<1> QED
  BY <1>1, <1>2, <1>3, <1>4, OnlyOwnSteps, GoesIdle

(* How a message gets in flight. *)
LEMMA InFlightStep ==
  ASSUME TypeOK, [Next]_vars, NEW m \in InFlight'
  PROVE  \/ m \in InFlight \cup {NoMessage, RunMessage}
         \/ \E w \in Workers : PublishChain(w) /\ m \in BatchMessages(nchains + 1, 1)
         \/ \E w \in Workers : /\ TaskReturn(w)
                               /\ AllReturned(Batch(worker[w].msg.task),
                                              returned[worker[w].msg.chain] \cup {worker[w].msg.task})
                               /\ m \in NextStep(worker[w].msg.chain, Batch(worker[w].msg.task))
<1>1. CASE m \in ready'
  <2>1. ASSUME NEW w \in Workers, WorkerStep(w) \/ Fault(w)
        PROVE  \/ m \in InFlight
               \/ PublishChain(w) /\ m \in BatchMessages(nchains + 1, 1)
               \/ /\ TaskReturn(w)
                  /\ AllReturned(Batch(worker[w].msg.task),
                                 returned[worker[w].msg.chain] \cup {worker[w].msg.task})
                  /\ m \in NextStep(worker[w].msg.chain, Batch(worker[w].msg.task))
    <3>1. CASE UNCHANGED ready \/ TakeMessage(w)
      BY <1>1, <3>1 DEF TakeMessage, InFlight
    <3>2. CASE PublishChain(w)
      BY <1>1, <3>2 DEF PublishChain, InFlight
    <3>3. CASE TaskReturn(w)
      BY <1>1, <3>3 DEF TaskReturn, InFlight
    <3>4. CASE Crash(w) \/ Redeliver(w)
      BY <1>1, <3>4 DEF Crash, Redeliver, Unacked, InFlight
    <3> QED
      BY <2>1, <3>1, <3>2, <3>3, <3>4
      DEF WorkerStep, Prepare, PrepareBegin, PrepareCancelled, PrepareCommit, RunTask,
          TaskDeduplicated, TaskCancelled, TaskBegin, TaskCommit, TaskFailLoad, TaskFailCommit,
          Finalize, FinalizeBegin, FinalizeCancelled, FinalizeCommit, RecoverCommittedJob,
          FinalizeFailCommit, Ack, Fault, TaskRaises, FinalizeRaises, UnhandledRaise, broker
  <2>2. CASE Create \/ PublishRunRaises
    BY <1>1, <2>2 DEF Create, PublishRun, PublishRunRaises, DispatchFailureLoad,
                      DispatchFailureCommit, InFlight, broker
  <2>3. ASSUME NEW r \in Requests, Cancel(r)
        PROVE  m \in InFlight
    BY <1>1, <2>3 DEF Cancel, CancelRead, CancelLoadTasks, CancelCommit, InFlight, broker
  <2>4. CASE UNCHANGED vars
    BY <1>1, <2>4 DEF vars, InFlight
  <2> QED
    BY <2>1, <2>2, <2>3, <2>4 DEF Next
<1>2. ASSUME NEW w \in Workers, m = worker'[w].msg
      PROVE  m \in InFlight \cup {NoMessage}
  <2>1. ASSUME NEW pc, Goto(w, pc) \/ LoadRows(w, pc)
        PROVE  m \in InFlight
    BY <1>2, <2>1, Moves DEF InFlight
  <2>2. CASE TakeMessage(w)
    BY <1>2, <2>2, Takes DEF InFlight
  <2>3. CASE Prepare(w)
    BY <2>1, <2>3 DEF Prepare, PrepareBegin, PrepareCancelled, PrepareCommit, PublishChain
  <2>4. CASE RunTask(w)
    BY <2>1, <2>4 DEF RunTask, TaskDeduplicated, TaskCancelled, TaskBegin, TaskCommit,
                      TaskFailLoad, TaskFailCommit, TaskReturn
  <2>5. CASE Finalize(w)
    BY <2>1, <2>5 DEF Finalize, FinalizeBegin, FinalizeCancelled, FinalizeCommit,
                      RecoverCommittedJob, FinalizeFailCommit
  <2>6. CASE TaskRaises(w) \/ FinalizeRaises(w)
    BY <2>1, <2>6 DEF TaskRaises, FinalizeRaises
  <2>7. CASE worker'[w] = worker[w]
    BY <1>2, <2>7 DEF InFlight
  <2> QED
    BY <1>2, <2>2, <2>3, <2>4, <2>5, <2>6, <2>7, OnlyOwnSteps, GoesIdle
<1> QED
  BY <1>1, <1>2 DEF InFlight

(* Only the first preparation of the job puts a settled task back. *)
LEMMA TasksStaySettled ==
  ASSUME TypeOK, [Next]_vars, NEW u \in Tasks, Terminal(task[u])
  PROVE  \/ Terminal(task'[u])
         \/ \E w \in Workers : PrepareCommit(w) /\ FirstDelivery(w)
<1>1. task \in [Tasks -> TaskStatus]
  BY DEF TypeOK, Tasks
<1>2. CASE UNCHANGED task
  BY <1>2
<1>3. CASE DispatchFailureCommit
  BY <1>1, <1>3 DEF DispatchFailureCommit, Terminal
<1>4. ASSUME NEW r \in Requests, CancelCommit(r)
      PROVE  Terminal(task'[u])
  BY <1>1, <1>4 DEF CancelCommit, Terminal
<1>5. ASSUME NEW w \in Workers, PrepareCommit(w), ~FirstDelivery(w)
      PROVE  Terminal(task'[u])
  BY <1>5 DEF PrepareCommit
<1>6. ASSUME NEW w \in Workers, TaskCancelled(w) \/ TaskFailCommit(w) \/ TaskCommit(w)
      PROVE  Terminal(task'[u])
  BY <1>1, <1>6 DEF TaskCancelled, TaskFailCommit, TaskCommit, DeriveTaskStatus, Terminal
<1>7. ASSUME NEW w \in Workers, FinalizeCommit(w) \/ FinalizeFailCommit(w) \/ FinalizeRaises(w)
      PROVE  Terminal(task'[u])
  BY <1>1, <1>7 DEF FinalizeCommit, FinalizeFailCommit, FinalizeRaises, FailNonterminalTasks, Tasks
<1> QED
  BY <1>2, <1>3, <1>4, <1>5, <1>6, <1>7
  DEF Next, vars, rows, Create, PublishRun, PublishRunRaises, DispatchFailureLoad, Cancel,
      CancelRead, CancelLoadTasks, WorkerStep, TakeMessage, Prepare, PrepareBegin,
      PrepareCancelled, PublishChain, RunTask, TaskDeduplicated, TaskBegin, TaskFailLoad,
      TaskReturn, Finalize, FinalizeBegin, FinalizeCancelled, RecoverCommittedJob, Ack, Fault,
      TaskRaises, FinalizeRaises, UnhandledRaise, Crash, Redeliver

-----------------------------------------------------------------------------
(* Locks and messages                                                      *)

LEMMA LocksStep ==
  ASSUME TypeOK, JobLocks, OneExecutor, [Next]_vars
  PROVE  JobLocks' /\ OneExecutor'
<1>1. ASSUME NEW w \in Workers, NEW v \in Workers, w # v,
             worker'[w].pc = "preparing", worker'[v].pc = "preparing"
      PROVE  FALSE
  <2>1. ASSUME NEW x \in Workers, NEW y \in Workers, x # y, PrepareBegin(x),
               worker'[y].pc = "preparing"
        PROVE  FALSE
    <3>1. worker'[y] = worker[y]
      BY <2>1, Moves DEF PrepareBegin
    <3> QED
      BY <2>1, <3>1 DEF PrepareBegin, PrepareLockFree, At
  <2> QED
    BY <1>1, <2>1, EntersPreparing DEF JobLocks, At
<1>2. ASSUME NEW w \in Workers, NEW v \in Workers, w # v,
             worker'[w].pc = "finalizing", worker'[v].pc = "finalizing"
      PROVE  FALSE
  <2>1. ASSUME NEW x \in Workers, NEW y \in Workers, x # y, FinalizeBegin(x),
               worker'[y].pc = "finalizing"
        PROVE  FALSE
    <3>1. worker'[y] = worker[y]
      BY <2>1, Moves DEF FinalizeBegin
    <3> QED
      BY <2>1, <3>1 DEF FinalizeBegin, FinalizeLockFree, At
  <2> QED
    BY <1>2, <2>1, EntersFinalizing DEF JobLocks, At
<1>3. ASSUME NEW w \in Workers, NEW v \in Workers, w # v,
             worker'[w].pc = "executing", worker'[v].pc = "executing",
             worker'[w].msg.task = worker'[v].msg.task
      PROVE  FALSE
  <2>1. ASSUME NEW x \in Workers, NEW y \in Workers, x # y, TaskBegin(x),
               worker'[x].msg = worker[x].msg, worker'[y].pc = "executing",
               worker'[x].msg.task = worker'[y].msg.task
        PROVE  FALSE
    <3>1. worker'[y] = worker[y]
      BY <2>1, Moves DEF TaskBegin
    <3> QED
      BY <2>1, <3>1 DEF TaskBegin, TaskRowFree, Executing, At
  <2> QED
    BY <1>3, <2>1, EntersExecuting DEF OneExecutor, Executing, At
<1> QED
  BY <1>1, <1>2, <1>3 DEF JobLocks, OneExecutor, Executing, At

LEMMA MessagesStep ==
  ASSUME TypeOK, MessageOfPC, [Next]_vars
  PROVE  MessageOfPC'
<1>1. Tasks' = Tasks
  BY TasksConstant
<1>2. ASSUME NEW m \in InFlight', m.kind = "task"
      PROVE  m.task \in Tasks
  <2>1. CASE m \in InFlight \cup {NoMessage, RunMessage}
    BY <1>2, <2>1 DEF MessageOfPC, NoMessage, RunMessage
  <2>2. ASSUME NEW c, NEW k, m \in BatchMessages(c, k)
        PROVE  m.task \in Tasks
    BY <2>2 DEF BatchMessages, TaskMessage
  <2>3. ASSUME NEW c, NEW k, m \in NextStep(c, k)
        PROVE  m.task \in Tasks
    BY <1>2, <2>2, <2>3 DEF NextStep, FinalizeMessage
  <2> QED
    BY <2>1, <2>2, <2>3, InFlightStep
<1>3. ASSUME NEW w \in Workers
      PROVE  /\ worker'[w].pc = "idle" \/ worker'[w].msg \in Messages
             /\ worker'[w].pc \in {"executing", "task_rolled_back", "task_failing", "return"} =>
                  worker'[w].msg.kind = "task"
             /\ worker'[w].pc \in {"preparing", "publish", "taken_finalize"} =>
                  worker'[w].msg = RunMessage
  <2>1. CASE worker'[w] = worker[w]
    BY <2>1 DEF MessageOfPC, At
  <2>2. CASE worker' = [worker EXCEPT ![w] = IdleWorker]
    BY <2>2, GoesIdle
  <2>3. CASE TakeMessage(w)
    BY <2>3, Takes DEF TypeOK
  <2>4. CASE Prepare(w)
    BY <2>4, Moves DEF Prepare, PrepareBegin, PrepareCancelled, PrepareCommit, PublishChain,
                       MessageOfPC, At
  <2>5. CASE RunTask(w)
    BY <2>5, Moves DEF RunTask, TaskDeduplicated, TaskCancelled, TaskBegin, TaskCommit,
                       TaskFailLoad, TaskFailCommit, TaskReturn, MessageOfPC, At
  <2>6. CASE Finalize(w)
    BY <2>6, Moves DEF Finalize, FinalizeBegin, FinalizeCancelled, FinalizeCommit,
                       RecoverCommittedJob, FinalizeFailCommit, MessageOfPC, At
  <2>7. CASE TaskRaises(w) \/ FinalizeRaises(w)
    BY <2>7, Moves DEF TaskRaises, FinalizeRaises, MessageOfPC, At
  <2> QED
    BY <2>1, <2>2, <2>3, <2>4, <2>5, <2>6, <2>7, OnlyOwnSteps
<1> QED
  BY <1>1, <1>2, <1>3 DEF MessageOfPC, At

-----------------------------------------------------------------------------
(* The rows are reset only before anything of the fan-out exists           *)

LEMMA JobNeverRequeued ==
  ASSUME [Next]_vars, job' = "queued"
  PROVE  job = "queued"
<1>1. CASE UNCHANGED job
  BY <1>1
<1>2. ASSUME NEW w \in Workers, FinalizeCommit(w)
      PROVE  FALSE
  BY <1>2 DEF FinalizeCommit, JobStatusForExecution
<1>3. ASSUME NEW w \in Workers, Finalize(w)
      PROVE  job = "queued"
  BY <1>2, <1>3 DEF Finalize, FinalizeBegin, FinalizeCancelled, RecoverCommittedJob,
                    FinalizeFailCommit, rows
<1> QED
  BY <1>1, <1>3
  DEF Next, vars, rows, Create, PublishRun, PublishRunRaises, DispatchFailureLoad,
      DispatchFailureCommit, Cancel, CancelRead, CancelLoadTasks, CancelCommit, WorkerStep,
      TakeMessage, Prepare, PrepareBegin, PrepareCancelled, PrepareCommit, PublishChain, RunTask,
      TaskDeduplicated, TaskCancelled, TaskBegin, TaskCommit, TaskFailLoad, TaskFailCommit,
      TaskReturn, Ack, Fault, TaskRaises, FinalizeRaises, UnhandledRaise, Crash, Redeliver

LEMMA ResetStep ==
  ASSUME TypeOK, MessageOfPC, JobLocks, ResetOnlyUnprepared, [Next]_vars
  PROVE  ResetOnlyUnprepared'
<1> SUFFICES ASSUME MayReset' PROVE Unprepared'
  BY DEF ResetOnlyUnprepared
<1>1. MayReset
  <2>1. CASE job' = "queued"
    BY <2>1, JobNeverRequeued DEF MayReset
  <2>2. ASSUME NEW w \in Workers, worker'[w].pc = "preparing", worker'[w].jobSeen = "queued"
        PROVE  MayReset
    BY <2>2, EntersPreparing DEF MayReset, At, FirstDelivery
  <2> QED
    BY <2>1, <2>2 DEF MayReset, At, FirstDelivery
<1>2. Unprepared
  BY <1>1 DEF ResetOnlyUnprepared
<1>3. \A w \in Workers : worker[w].pc \in {"idle", "taken", "preparing", "ack"}
  BY <1>2 DEF Unprepared
<1>4. ASSUME NEW w \in Workers, worker[w].pc # "idle"
      PROVE  worker[w].msg = RunMessage
  <2>1. worker[w].msg \in Messages
    BY <1>4 DEF MessageOfPC, At
  <2>2. worker[w].msg \in {RunMessage, NoMessage}
    BY <1>2 DEF Unprepared, InFlight
  <2> QED
    BY <2>1, <2>2, MessagesExist
<1>5. ASSUME NEW w \in Workers, RunTask(w) \/ Finalize(w) \/ PublishChain(w)
                                  \/ TaskRaises(w) \/ FinalizeRaises(w)
      PROVE  FALSE
  <2>1. worker[w].pc \in {"idle", "taken", "preparing", "ack"}
    BY <1>3
  <2>2. worker[w].pc = "taken" => worker[w].msg.kind = "run"
    BY <1>4 DEF RunMessage
  <2> QED
    BY <1>5, <2>1, <2>2
    DEF RunTask, TaskDeduplicated, TaskCancelled, TaskBegin, TaskCommit, TaskFailLoad,
        TaskFailCommit, TaskReturn, Finalize, FinalizeBegin, FinalizeCancelled, FinalizeCommit,
        RecoverCommittedJob, FinalizeFailCommit, PublishChain, TaskRaises, FinalizeRaises, At
<1>6. ASSUME NEW w \in Workers, PrepareCommit(w)
      PROVE  FALSE
  <2>1. job' = "running"
    <3>1. FirstDelivery(w)
      BY <1>2, <1>6 DEF Unprepared, PrepareCommit
    <3> QED
      BY <1>6, <3>1 DEF PrepareCommit
  <2>2. PICK v \in Workers : worker'[v].pc = "preparing"
    BY <2>1 DEF MayReset, At
  <2>3. w # v
    BY <1>6, <2>2, Moves DEF PrepareCommit
  <2>4. worker'[v] = worker[v]
    BY <1>6, <2>3, Moves DEF PrepareCommit
  <2> QED
    BY <1>6, <2>2, <2>3, <2>4 DEF PrepareCommit, JobLocks, At
<1>7. /\ nchains' = 0 /\ reductions' = 0
      /\ \A c \in Chains : returned'[c] = {}
  BY <1>2, <1>5, <1>6
  DEF Unprepared, Next, vars, broker, Create, PublishRun, PublishRunRaises, DispatchFailureLoad,
      DispatchFailureCommit, Cancel, CancelRead, CancelLoadTasks, CancelCommit, WorkerStep,
      TakeMessage, Prepare, PrepareBegin, PrepareCancelled, Ack, Fault, UnhandledRaise, Crash,
      Redeliver
<1>8. InFlight' \subseteq {RunMessage, NoMessage}
  <2>1. \A w \in Workers : ~PublishChain(w) /\ ~TaskReturn(w)
    BY <1>5 DEF RunTask
  <2> QED
    BY <1>2, <2>1, InFlightStep DEF Unprepared
<1>9. ASSUME NEW w \in Workers
      PROVE  /\ worker'[w].pc \in {"idle", "taken", "preparing", "ack"}
             /\ worker'[w].pc = "preparing" => worker'[w].jobSeen = "queued"
  <2>1. CASE worker'[w] = worker[w]
    BY <1>2, <2>1 DEF Unprepared, At, FirstDelivery
  <2>2. CASE TakeMessage(w) \/ worker' = [worker EXCEPT ![w] = IdleWorker]
    BY <2>2, Takes, GoesIdle
  <2>3. CASE PrepareBegin(w)
    <3>1. job = "queued"
      BY <1>1, <2>3 DEF MayReset, PrepareBegin, PrepareLockFree
    <3> QED
      BY <2>3, <3>1, Moves DEF PrepareBegin
  <2>4. CASE PrepareCancelled(w)
    BY <2>4, Moves DEF PrepareCancelled
  <2>5. /\ ~RunTask(w) /\ ~Finalize(w) /\ ~PublishChain(w) /\ ~PrepareCommit(w)
        /\ ~TaskRaises(w) /\ ~FinalizeRaises(w)
    BY <1>5, <1>6
  <2>6. Prepare(w) => PrepareBegin(w) \/ PrepareCancelled(w)
    BY <2>5 DEF Prepare
  <2> QED
    BY <2>1, <2>2, <2>3, <2>4, <2>5, <2>6, OnlyOwnSteps
<1> QED
  BY <1>7, <1>8, <1>9 DEF Unprepared, At, FirstDelivery

-----------------------------------------------------------------------------
(* The batches are delivered in order, and the reducer after them          *)

LEMMA OrderStep ==
  ASSUME TypeOK, MessageOfPC, JobLocks, ResetOnlyUnprepared, BatchesInOrder, ReducerAfterTasks,
         [Next]_vars
  PROVE  BatchesInOrder' /\ ReducerAfterTasks'
<1>1. Tasks' = Tasks /\ Tasks \subseteq Nat \ {0}
  BY TasksConstant, TasksInterval
<1>2. \/ \A u \in Tasks : Terminal(task[u]) => Terminal(task'[u])
      \/ Unprepared /\ \E w \in Workers : PrepareCommit(w) /\ FirstDelivery(w)
  BY TasksStaySettled DEF ResetOnlyUnprepared, MayReset, PrepareCommit
<1>3. CASE Unprepared /\ \E w \in Workers : PrepareCommit(w) /\ FirstDelivery(w)
  <2>1. PICK w \in Workers : PrepareCommit(w) /\ FirstDelivery(w)
    BY <1>3
  <2>2. ASSUME NEW v \in Workers
        PROVE  ~PublishChain(v) /\ ~TaskReturn(v)
    <3>1. worker[v].pc \in {"idle", "taken", "preparing", "ack"}
      BY <1>3 DEF Unprepared
    <3> QED
      BY <3>1 DEF PublishChain, TaskReturn, At
  <2>3. InFlight' \subseteq {RunMessage, NoMessage}
    BY <1>3, <2>2, InFlightStep DEF Unprepared
  <2>4. ASSUME NEW v \in Workers
        PROVE  /\ worker'[v].pc \notin {"return", "finalizing"}
               /\ worker'[v].pc = "taken_finalize" => Tasks = {}
    <3>1. PICK pc \in {"publish", "taken_finalize", "ack"} :
            Goto(w, pc) /\ (pc = "taken_finalize" => Tasks = {})
      BY <2>1 DEF PrepareCommit
    <3>2. CASE v = w
      BY <3>1, <3>2, Moves
    <3>3. CASE v # w
      <4>1. worker'[v] = worker[v]
        BY <3>1, <3>3, Moves
      <4>2. worker[v].pc \in {"idle", "taken", "preparing", "ack"}
        BY <1>3 DEF Unprepared
      <4> QED
        BY <4>1, <4>2
    <3> QED
      BY <3>2, <3>3
  <2>5. \A c \in Chains : returned'[c] = {}
    BY <1>3, <2>1 DEF Unprepared, PrepareCommit, broker
  <2> QED
    BY <1>1, <2>3, <2>4, <2>5 DEF BatchesInOrder, ReducerAfterTasks, At, RunMessage, NoMessage
<1>4. CASE \A u \in Tasks : Terminal(task[u]) => Terminal(task'[u])
  <2>1. ASSUME NEW m \in InFlight', NEW u \in Tasks,
               \/ m.kind = "task" /\ Batch(u) < Batch(m.task)
               \/ m.kind = "finalize"
        PROVE  Terminal(task[u])
    <3>1. CASE m \in InFlight \cup {NoMessage, RunMessage}
      BY <2>1, <3>1 DEF BatchesInOrder, NoMessage, RunMessage
    <3>2. CASE m \in BatchMessages(nchains + 1, 1)
      <4>1. m.kind = "task" /\ Batch(m.task) = 1
        BY <3>2 DEF BatchMessages, TaskMessage
      <4>2. Batch(u) \in Nat \ {0}
        BY <1>1, BatchIsPositive
      <4> QED
        BY <2>1, <4>1, <4>2
    <3>3. ASSUME NEW w \in Workers, TaskReturn(w),
                 AllReturned(Batch(worker[w].msg.task),
                             returned[worker[w].msg.chain] \cup {worker[w].msg.task}),
                 m \in NextStep(worker[w].msg.chain, Batch(worker[w].msg.task))
          PROVE  Terminal(task[u])
      <4> DEFINE c == worker[w].msg.chain
                 t == worker[w].msg.task
                 k == Batch(t)
      <4>1. /\ worker[w].msg \in InFlight /\ worker[w].msg.kind = "task"
            /\ t \in Tasks /\ c \in Chains /\ Terminal(task[t])
        <5>1. worker[w].msg \in Messages /\ worker[w].msg.kind = "task"
          BY <3>3 DEF TaskReturn, MessageOfPC, At
        <5>2. c \in Chains
          BY <5>1 DEF Messages, RunMessage, TaskMessages, TaskMessage, FinalizeMessages,
                      FinalizeMessage
        <5> QED
          BY <3>3, <5>1, <5>2 DEF TaskReturn, MessageOfPC, BatchesInOrder, InFlight, At
      <4>2. k \in Nat \ {0} /\ Batch(u) \in Nat \ {0}
        BY <1>1, <4>1, BatchIsPositive
      <4>3. Batch(u) <= k => Terminal(task[u])
        <5>1. CASE Batch(u) < k
          BY <4>1, <5>1 DEF BatchesInOrder
        <5>2. CASE Batch(u) = k
          <6>1. u \in returned[c] \cup {t}
            BY <3>3, <5>2 DEF AllReturned
          <6> QED
            BY <4>1, <6>1 DEF BatchesInOrder
        <5> QED
          BY <4>2, <5>1, <5>2
      <4>4. CASE \E v \in Tasks : Batch(v) = k + 1
        <5>1. m.kind = "task" /\ Batch(m.task) = k + 1
          BY <3>3, <4>4 DEF NextStep, BatchMessages, TaskMessage
        <5> QED
          BY <2>1, <4>2, <4>3, <5>1
      <4>5. CASE ~ \E v \in Tasks : Batch(v) = k + 1
        <5>1. ASSUME Batch(u) > k
              PROVE  FALSE
          <6>1. PICK v \in 1..u : Batch(v) = k + 1
            BY <1>1, <4>2, <5>1, NoBatchGap
          <6>2. PICK n \in Nat : Tasks = 1..n
            BY TasksInterval
          <6> QED
            BY <4>5, <6>1, <6>2
        <5> QED
          BY <4>2, <4>3, <5>1
      <4> QED
        BY <4>4, <4>5
    <3> QED
      BY <3>1, <3>2, <3>3, InFlightStep
  <2>2. ASSUME NEW w \in Workers, worker'[w].pc = "return"
        PROVE  Terminal(task'[worker'[w].msg.task])
    <3>1. CASE worker'[w] = worker[w]
      <4>1. worker[w].pc = "return" /\ worker[w].msg.task \in Tasks
        BY <2>2, <3>1 DEF MessageOfPC, InFlight
      <4> QED
        BY <1>4, <3>1, <4>1 DEF BatchesInOrder, At
    <3>2. CASE RunTask(w)
      <4>1. /\ worker[w].msg.task \in Tasks
            /\ worker'[w].msg = worker[w].msg
            /\ task \in [Tasks -> TaskStatus]
        BY <2>2, <3>2, Moves DEF RunTask, TaskDeduplicated, TaskCancelled, TaskBegin, TaskCommit,
             TaskFailLoad, TaskFailCommit, TaskReturn, MessageOfPC, InFlight, At, TypeOK, Tasks
      <4>2. CASE TaskDeduplicated(w) \/ TaskFailLoad(w)
        BY <2>2, <4>1, <4>2, Moves DEF TaskDeduplicated, TaskFailLoad, rows
      <4>3. CASE TaskCancelled(w) \/ TaskCommit(w) \/ TaskFailCommit(w)
        BY <4>1, <4>3 DEF TaskCancelled, TaskCommit, TaskFailCommit, DeriveTaskStatus, Terminal
      <4>4. CASE TaskBegin(w) \/ TaskReturn(w)
        BY <2>2, <4>4, Moves DEF TaskBegin, TaskReturn
      <4> QED
        BY <3>2, <4>2, <4>3, <4>4 DEF RunTask
    <3>3. CASE Prepare(w)
      BY <2>2, <3>3, Moves DEF Prepare, PrepareBegin, PrepareCancelled, PrepareCommit, PublishChain
    <3>4. CASE Finalize(w)
      BY <2>2, <3>4, Moves DEF Finalize, FinalizeBegin, FinalizeCancelled, FinalizeCommit,
                               RecoverCommittedJob, FinalizeFailCommit
    <3>5. CASE TaskRaises(w) \/ FinalizeRaises(w)
      BY <2>2, <3>5, Moves DEF TaskRaises, FinalizeRaises
    <3> QED
      BY <2>2, <3>1, <3>2, <3>3, <3>4, <3>5, OnlyOwnSteps, Takes, GoesIdle
  <2>3. ASSUME NEW w \in Workers, worker'[w].pc = "taken_finalize"
        PROVE  Tasks = {}
    <3>1. CASE worker'[w] = worker[w]
      BY <2>3, <3>1 DEF BatchesInOrder, At
    <3>2. CASE Prepare(w)
      BY <2>3, <3>2, Moves DEF Prepare, PrepareBegin, PrepareCancelled, PrepareCommit, PublishChain
    <3>3. CASE RunTask(w)
      BY <2>3, <3>3, Moves DEF RunTask, TaskDeduplicated, TaskCancelled, TaskBegin, TaskCommit,
                               TaskFailLoad, TaskFailCommit, TaskReturn
    <3>4. CASE Finalize(w)
      BY <2>3, <3>4, Moves DEF Finalize, FinalizeBegin, FinalizeCancelled, FinalizeCommit,
                               RecoverCommittedJob, FinalizeFailCommit
    <3>5. CASE TaskRaises(w) \/ FinalizeRaises(w)
      BY <2>3, <3>5, Moves DEF TaskRaises, FinalizeRaises
    <3> QED
      BY <2>3, <3>1, <3>2, <3>3, <3>4, <3>5, OnlyOwnSteps, Takes, GoesIdle
  <2>4. ASSUME NEW c \in Chains, NEW u \in returned'[c] \cap Tasks
        PROVE  Terminal(task[u])
    <3>1. CASE returned' = returned
      BY <2>4, <3>1 DEF BatchesInOrder
    <3>2. ASSUME NEW w \in Workers, TaskReturn(w)
          PROVE  Terminal(task[u])
      <4>1. u \in returned[c] \cup {worker[w].msg.task}
        BY <2>4, <3>2 DEF TaskReturn, TypeOK
      <4> QED
        BY <2>4, <3>2, <4>1 DEF TaskReturn, BatchesInOrder
    <3> QED
      BY <3>1, <3>2
      DEF Next, vars, broker, Create, PublishRun, PublishRunRaises, DispatchFailureLoad,
          DispatchFailureCommit, Cancel, CancelRead, CancelLoadTasks, CancelCommit, WorkerStep,
          TakeMessage, Prepare, PrepareBegin, PrepareCancelled, PrepareCommit, PublishChain,
          RunTask, TaskDeduplicated, TaskCancelled, TaskBegin, TaskCommit, TaskFailLoad,
          TaskFailCommit, Finalize, FinalizeBegin, FinalizeCancelled, FinalizeCommit,
          RecoverCommittedJob, FinalizeFailCommit, Ack, Fault, TaskRaises, FinalizeRaises,
          UnhandledRaise, Crash, Redeliver
  <2>5. ASSUME NEW w \in Workers, worker'[w].pc = "finalizing", NEW u \in Tasks
        PROVE  Terminal(task[u])
    <3>1. CASE worker'[w] = worker[w]
      BY <2>5, <3>1 DEF ReducerAfterTasks, At
    <3>2. CASE FinalizeBegin(w)
      BY <2>5, <3>2 DEF FinalizeBegin, BatchesInOrder, InFlight, At
    <3> QED
      BY <2>5, <3>1, <3>2, EntersFinalizing
  <2> QED
    BY <1>1, <1>4, <2>1, <2>2, <2>3, <2>4, <2>5 DEF BatchesInOrder, ReducerAfterTasks, At
<1> QED
  BY <1>2, <1>3, <1>4

-----------------------------------------------------------------------------
(* The reducer commits once, and settles the job with it                   *)

(* A settled job is made live again only by the delivery that prepares it. *)
LEMMA JobStaysSettled ==
  ASSUME [Next]_vars, Terminal(job)
  PROVE  \/ Terminal(job')
         \/ \E w \in Workers : PrepareCommit(w) /\ FirstDelivery(w)
<1> USE DEF Terminal
<1>1. CASE UNCHANGED job
  BY <1>1
<1>2. ASSUME NEW w \in Workers, FinalizeCommit(w)
      PROVE  Terminal(job')
  BY <1>2 DEF FinalizeCommit, JobStatusForExecution
<1>3. ASSUME NEW w \in Workers, Finalize(w)
      PROVE  Terminal(job')
  BY <1>2, <1>3 DEF Finalize, FinalizeBegin, FinalizeCancelled, RecoverCommittedJob,
                    FinalizeFailCommit, rows
<1>4. ASSUME NEW w \in Workers, Prepare(w)
      PROVE  Terminal(job') \/ (PrepareCommit(w) /\ FirstDelivery(w))
  BY <1>4 DEF Prepare, PrepareBegin, PrepareCancelled, PrepareCommit, PublishChain, rows
<1> QED
  BY <1>1, <1>3, <1>4
  DEF Next, vars, rows, Create, PublishRun, PublishRunRaises, DispatchFailureLoad,
      DispatchFailureCommit, Cancel, CancelRead, CancelLoadTasks, CancelCommit, WorkerStep,
      TakeMessage, RunTask, TaskDeduplicated, TaskCancelled, TaskBegin, TaskCommit, TaskFailLoad,
      TaskFailCommit, TaskReturn, Ack, Fault, TaskRaises, FinalizeRaises, UnhandledRaise, Crash,
      Redeliver

(* Only the reducer's commit counts a reduction. *)
LEMMA OnlyFinalizeReduces ==
  ASSUME [Next]_vars
  PROVE  UNCHANGED reductions \/ \E w \in Workers : FinalizeCommit(w)
BY DEF Next, vars, broker, Create, PublishRun, PublishRunRaises, DispatchFailureLoad,
       DispatchFailureCommit, Cancel, CancelRead, CancelLoadTasks, CancelCommit, WorkerStep,
       TakeMessage, Prepare, PrepareBegin, PrepareCancelled, PrepareCommit, PublishChain, RunTask,
       TaskDeduplicated, TaskCancelled, TaskBegin, TaskCommit, TaskFailLoad, TaskFailCommit,
       TaskReturn, Finalize, FinalizeBegin, FinalizeCancelled, RecoverCommittedJob,
       FinalizeFailCommit, Ack, Fault, TaskRaises, FinalizeRaises, UnhandledRaise, Crash, Redeliver

LEMMA ReducedStep ==
  ASSUME TypeOK, JobLocks, ResetOnlyUnprepared, ReducedOnce, [Next]_vars
  PROVE  ReducedOnce'
<1>1. CASE UNCHANGED reductions
  <2>1. reductions > 0 => Terminal(job')
    BY JobStaysSettled
    DEF ReducedOnce, ResetOnlyUnprepared, MayReset, Unprepared, PrepareCommit
  <2>2. ASSUME NEW w \in Workers, worker'[w].pc = "finalizing"
        PROVE  reductions = 0
    <3>1. CASE worker'[w] = worker[w]
      BY <2>2, <3>1 DEF ReducedOnce, At
    <3>2. CASE ~Terminal(job)
      BY <3>2 DEF ReducedOnce, TypeOK
    <3> QED
      BY <2>2, <3>1, <3>2, EntersFinalizing
  <2> QED
    BY <1>1, <2>1, <2>2 DEF ReducedOnce, At
<1>2. ASSUME NEW w \in Workers, FinalizeCommit(w)
      PROVE  ReducedOnce'
  <2>1. reductions = 0 /\ reductions' = 1
    BY <1>2 DEF FinalizeCommit, ReducedOnce
  <2>2. Terminal(job')
    BY <1>2 DEF FinalizeCommit, JobStatusForExecution, Terminal
  <2>3. ASSUME NEW v \in Workers, worker'[v].pc = "finalizing"
        PROVE  FALSE
    <3>1. CASE v = w
      BY <1>2, <2>3, <3>1, Moves DEF FinalizeCommit
    <3>2. CASE v # w
      <4>1. worker'[v] = worker[v]
        BY <1>2, <3>2, Moves DEF FinalizeCommit
      <4> QED
        BY <1>2, <2>3, <3>2, <4>1 DEF FinalizeCommit, JobLocks, At
    <3> QED
      BY <3>1, <3>2
  <2> QED
    BY <2>1, <2>2, <2>3 DEF ReducedOnce, At
<1> QED
  BY <1>1, <1>2, OnlyFinalizeReduces

-----------------------------------------------------------------------------
(* Nothing of a chain exists before it is published                        *)

(* Chains are only ever added, one at a time, and not by the reducer. *)
LEMMA ChainsGrow ==
  ASSUME TypeOK, [Next]_vars
  PROVE  \/ nchains' = nchains
         \/ nchains' = nchains + 1 /\ \E w \in Workers : PublishChain(w)
BY DEF Next, vars, broker, Create, PublishRun, PublishRunRaises, DispatchFailureLoad,
       DispatchFailureCommit, Cancel, CancelRead, CancelLoadTasks, CancelCommit, WorkerStep,
       TakeMessage, Prepare, PrepareBegin, PrepareCancelled, PrepareCommit, PublishChain, RunTask,
       TaskDeduplicated, TaskCancelled, TaskBegin, TaskCommit, TaskFailLoad, TaskFailCommit,
       TaskReturn, Finalize, FinalizeBegin, FinalizeCancelled, FinalizeCommit,
       RecoverCommittedJob, FinalizeFailCommit, Ack, Fault, TaskRaises, FinalizeRaises,
       UnhandledRaise, Crash, Redeliver

LEMMA ChainStep ==
  ASSUME TypeOK, MessageOfPC, BatchesInOrder, ChainComesFirst, [Next]_vars
  PROVE  ChainComesFirst'
<1> SUFFICES ASSUME nchains' = 0
             PROVE  /\ InFlight' \subseteq {RunMessage, NoMessage}
                    /\ \A w \in Workers : worker'[w].pc = "finalizing" => Tasks' = {}
  BY DEF ChainComesFirst, At
<1>1. nchains = 0 /\ \A w \in Workers : ~PublishChain(w)
  BY ChainsGrow DEF TypeOK, PublishChain
<1>2. InFlight \subseteq {RunMessage, NoMessage}
  BY <1>1 DEF ChainComesFirst
<1>3. \A w \in Workers : worker[w].msg.kind \in {"run", "none"}
  BY <1>2 DEF InFlight, RunMessage, NoMessage
<1>4. \A w \in Workers : ~TaskReturn(w)
  BY <1>3 DEF TaskReturn, MessageOfPC, At
<1>5. ASSUME NEW w \in Workers, worker'[w].pc = "finalizing"
      PROVE  Tasks = {}
  <2>1. CASE worker'[w] = worker[w]
    BY <1>1, <1>5, <2>1 DEF ChainComesFirst, At
  <2>2. CASE FinalizeBegin(w)
    BY <1>3, <2>2 DEF FinalizeBegin, BatchesInOrder
  <2> QED
    BY <1>5, <2>1, <2>2, EntersFinalizing
<1> QED
  BY <1>1, <1>2, <1>4, <1>5, InFlightStep, TasksConstant

-----------------------------------------------------------------------------
(* FanoutInv is an inductive invariant                                     *)

LEMMA InitType ==
  ASSUME Init
  PROVE  TypeOK
<1>1. PICK n \in 0..NTasks : task = [t \in 1..n |-> "queued"]
  BY DEF Init
<1>2. exec \in ExecutionRow /\ job \in JobStatus
  BY DEF Init, ExecutionRow, TaskStatus, JobStatus, Stage
<1>3. task \in [1..n -> TaskStatus] /\ payload \in [Tasks -> RunnerStatus]
  BY <1>1 DEF Init, TaskStatus, RunnerStatus
<1>4. worker \in [Workers -> WorkerState]
  BY DEF Init, IdleWorker, WorkerState, WorkerPC, JobStatus, TaskStatus
<1>5. /\ create \in [pc : {"publish", "rolled_back", "failing", "done"}, tasks : SUBSET TaskIds]
      /\ cancel \in [Requests -> [pc : {"idle", "admitted", "loaded", "done"},
                                  tasks : SUBSET TaskIds]]
  BY DEF Init
<1>6. /\ ready \subseteq Messages /\ nchains \in 0..MaxChains
      /\ returned \in [Chains -> SUBSET TaskIds] /\ reductions \in Nat
  BY FanoutAssumption DEF Init
<1>7. faults \in [{"crash", "redeliver", "raise", "unhandled"} -> Nat]
  BY DEF Init
<1> QED
  BY <1>1, <1>2, <1>3, <1>4, <1>5, <1>6, <1>7 DEF TypeOK

LEMMA InitInv ==
  ASSUME Init
  PROVE  FanoutInv
<1>1. TypeOK
  BY InitType
<1>2. \A w \in Workers : worker[w].pc = "idle" /\ worker[w].msg = NoMessage
  BY DEF Init, IdleWorker
<1>3. \A m \in InFlight : m.kind = "none" /\ m = NoMessage
  BY <1>2 DEF InFlight, Init, NoMessage
<1>4. MessageOfPC /\ JobLocks /\ OneExecutor
  BY <1>2, <1>3 DEF MessageOfPC, JobLocks, OneExecutor, At
<1>5. Unprepared
  BY <1>2, <1>3 DEF Unprepared, Init, At
<1>6. BatchesInOrder /\ ReducerAfterTasks
  BY <1>2, <1>3 DEF BatchesInOrder, ReducerAfterTasks, Init, At
<1>7. ReducedOnce /\ ChainComesFirst
  BY <1>2, <1>3 DEF ReducedOnce, ChainComesFirst, Init, At
<1> QED
  BY <1>1, <1>4, <1>5, <1>6, <1>7 DEF FanoutInv, ResetOnlyUnprepared

LEMMA StepInv ==
  ASSUME FanoutInv, [Next]_vars
  PROVE  FanoutInv'
BY TypeStep, MessagesStep, LocksStep, ResetStep, OrderStep, ReducedStep, ChainStep DEF FanoutInv

(* In every reachable state of the fan-out the locks exclude each other,   *)
(* rows are reset only while nothing of the fan-out exists, a message in   *)
(* flight implies that the batches before it are settled, and the reducer  *)
(* has committed at most once.                                             *)
THEOREM FanoutInvariant == Spec => []FanoutInv
<1>1. Init => FanoutInv
  BY InitInv
<1>2. FanoutInv /\ [Next]_vars => FanoutInv'
  BY StepInv
<1> QED
  BY <1>1, <1>2, PTL DEF Spec

-----------------------------------------------------------------------------
(* What follows from it                                                    *)

(* Every row, message and program point of the fan-out stays in its domain. *)
THEOREM TypeCorrect == Spec => []TypeOK
<1>1. FanoutInv => TypeOK
  BY DEF FanoutInv
<1> QED
  BY <1>1, FanoutInvariant, PTL

(* The locks of run_parallel_execution_task_job keep two deliveries of a   *)
(* task from running it at the same time.                                  *)
THEOREM OneExecutorAtATime == Spec => []OneExecutor
<1>1. FanoutInv => OneExecutor
  BY DEF FanoutInv
<1> QED
  BY <1>1, FanoutInvariant, PTL

(* The chain of groups published by execution.run runs its batches one     *)
(* after the other, and a chain published twice does not break that.       *)
THEOREM BatchesRunInOrder == Spec => []BatchBarrier
<1>1. FanoutInv => BatchBarrier
  <2> SUFFICES ASSUME FanoutInv, NEW w \in Workers, NEW t \in Tasks, NEW u \in Tasks,
                      Executing(w, t), Batch(u) < Batch(t)
               PROVE  Terminal(task[u])
    BY DEF BatchBarrier
  <2>1. worker[w].msg.kind = "task" /\ worker[w].msg.task = t
    BY DEF FanoutInv, MessageOfPC, Executing, At
  <2>2. worker[w].msg \in InFlight
    BY DEF InFlight
  <2> QED
    BY <2>1, <2>2 DEF FanoutInv, BatchesInOrder
<1> QED
  BY <1>1, FanoutInvariant, PTL

(* execution.finalize reduces an execution whose tasks are all settled.    *)
THEOREM ReducerRunsLast == Spec => []ReducerAfterTasks
<1>1. FanoutInv => ReducerAfterTasks
  BY DEF FanoutInv
<1> QED
  BY <1>1, FanoutInvariant, PTL

(* finalize_parallel_execution_job commits its reduction at most once,     *)
(* however often the message, the batches or the whole chain come twice.   *)
THEOREM ReducesOnce == Spec => []SingleReducer
<1>1. FanoutInv => SingleReducer
  BY DEF FanoutInv, ReducedOnce, SingleReducer, TypeOK
<1> QED
  BY <1>1, FanoutInvariant, PTL

(* Once the chain is published no step puts a settled task back to work.   *)
THEOREM FinishedWorkIsKept == Spec => FinishedStaysFinished
<1> DEFINE Kept == \A t \in Tasks : nchains > 0 /\ Terminal(task[t]) => Terminal(task'[t])
<1>1. FanoutInv /\ [Next]_vars => [Kept]_vars
  <2> SUFFICES ASSUME FanoutInv, [Next]_vars, NEW t \in Tasks, nchains > 0, Terminal(task[t])
               PROVE  Terminal(task'[t])
    OBVIOUS
  <2>1. ASSUME NEW w \in Workers, PrepareCommit(w), FirstDelivery(w)
        PROVE  FALSE
    BY <2>1 DEF FanoutInv, ResetOnlyUnprepared, MayReset, Unprepared, PrepareCommit
  <2> QED
    BY <2>1, TasksStaySettled DEF FanoutInv
<1> QED
  BY <1>1, FanoutInvariant, PTL DEF Spec, FinishedStaysFinished

-----------------------------------------------------------------------------
(* The fan-out implements its abstract specification                       *)

(* Once a chain is published a settled task stays settled. *)
LEMMA SettledAfterPublish ==
  ASSUME FanoutInv, [Next]_vars, NEW t \in Tasks, nchains > 0, Terminal(task[t])
  PROVE  Terminal(task'[t])
<1>1. ASSUME NEW w \in Workers, PrepareCommit(w), FirstDelivery(w)
      PROVE  FALSE
  BY <1>1 DEF FanoutInv, ResetOnlyUnprepared, MayReset, Unprepared, PrepareCommit
<1> QED
  BY <1>1, TasksStaySettled DEF FanoutInv

LEMMA FannedGrows ==
  ASSUME FanoutInv, [Next]_vars
  PROVE  Fanned \subseteq Fanned' /\ Fanned' \subseteq Tasks
<1>1. Tasks' = Tasks /\ nchains \in Nat
  BY TasksConstant DEF FanoutInv, TypeOK
<1>2. Fanned' \subseteq Tasks
  BY <1>1 DEF Fanned
<1>3. CASE nchains = 0
  BY <1>2, <1>3 DEF Fanned
<1>4. CASE nchains > 0
  <2>1. nchains' > 0
    BY <1>1, <1>4, ChainsGrow DEF FanoutInv
  <2>2. \A t \in Tasks : Terminal(task[t]) => Terminal(task'[t])
    BY <1>4, SettledAfterPublish
  <2>3. Fanned = {t \in Tasks : Terminal(task[t])}
    BY <1>4 DEF Fanned
  <2>4. Fanned' = {t \in Tasks : Terminal(task'[t])}
    BY <1>1, <2>1 DEF Fanned
  <2> QED
    BY <1>2, <2>2, <2>3, <2>4
<1> QED
  BY <1>1, <1>3, <1>4

(* The reducer's commit is the abstract one. *)
LEMMA ReducerReduces ==
  ASSUME FanoutInv, [Next]_vars, NEW w \in Workers, FinalizeCommit(w)
  PROVE  Reduction!Reduce
<1>1. reductions = 0 /\ reductions' = 1
  BY DEF FanoutInv, ReducedOnce, FinalizeCommit
<1>2. Tasks' = Tasks
  BY TasksConstant DEF FanoutInv
<1>3. Fanned = Tasks
  <2>1. \A t \in Tasks : Terminal(task[t])
    BY DEF FanoutInv, ReducerAfterTasks, FinalizeCommit
  <2>2. nchains = 0 => Tasks = {}
    BY DEF FanoutInv, ChainComesFirst, FinalizeCommit
  <2> QED
    BY <2>1, <2>2 DEF Fanned
<1>4. Fanned' = Fanned
  BY <1>3, FannedGrows
<1> QED
  BY <1>1, <1>2, <1>3, <1>4 DEF Reduction!Reduce

(* Every behaviour of the fan-out, with its duplicated, lost and reordered *)
(* messages, is one in which the tasks settle for good and the reducer     *)
(* then commits at most once.                                              *)
THEOREM FanoutImplementsReduction == Spec => ImplementsReduction
<1>1. Init => Reduction!Init
  <2> SUFFICES ASSUME Init PROVE Reduction!Init
    OBVIOUS
  <2>1. TypeOK
    BY InitType
  <2>2. Tasks \subseteq TaskIds
    BY <2>1, NTasksAssumption DEF TypeOK, Tasks, TaskIds
  <2>3. Fanned = {} /\ (reductions > 0) = FALSE
    BY DEF Init, Fanned
  <2> QED
    BY <2>2, <2>3 DEF Reduction!Init
<1>2. FanoutInv /\ [Next]_vars => [Reduction!Next]_<<Tasks, Fanned, (reductions > 0)>>
  <2> SUFFICES ASSUME FanoutInv, [Next]_vars
               PROVE  Reduction!Next
    OBVIOUS
  <2>1. CASE UNCHANGED reductions
    <3>1. Tasks' = Tasks /\ Fanned \subseteq Fanned' /\ Fanned' \in SUBSET Tasks
      BY TasksConstant, FannedGrows DEF FanoutInv
    <3> QED
      BY <2>1, <3>1 DEF Reduction!Next, Reduction!Settle
  <2>2. CASE \E w \in Workers : FinalizeCommit(w)
    BY <2>2, ReducerReduces DEF Reduction!Next
  <2> QED
    BY <2>1, <2>2, OnlyFinalizeReduces
<1> QED
  BY <1>1, <1>2, FanoutInvariant, PTL DEF Spec, ImplementsReduction, Reduction!Spec

-----------------------------------------------------------------------------
(* Runners at work                                                         *)

(* A step that leaves a runner at work leaves the live status of its task. *)
LEMMA ExecutingRowKept ==
  ASSUME TypeOK, MessageOfPC, OneExecutor, [Next]_vars, NEW w \in Workers,
         At(w, "executing"), worker'[w] = worker[w], ~Terminal(task[worker[w].msg.task])
  PROVE  ~Terminal(task'[worker[w].msg.task])
<1> DEFINE t == worker[w].msg.task
<1>1. task \in [Tasks -> TaskStatus] /\ t \in Tasks /\ ~TaskRowFree(t)
  <2>1. worker[w].msg \in InFlight /\ worker[w].msg.kind = "task"
    BY DEF MessageOfPC, InFlight, At
  <2>2. t \in Tasks
    BY <2>1 DEF MessageOfPC
  <2>3. ~TaskRowFree(t)
    BY DEF TaskRowFree, Executing
  <2> QED
    BY <2>2, <2>3 DEF TypeOK, Tasks
<1>2. CASE UNCHANGED task
  BY <1>2
<1>3. CASE DispatchFailureCommit
  BY <1>1, <1>3 DEF DispatchFailureCommit
<1>4. ASSUME NEW r \in Requests, CancelCommit(r)
      PROVE  ~Terminal(task'[t])
  BY <1>1, <1>4 DEF CancelCommit
<1>5. ASSUME NEW v \in Workers, PrepareCommit(v)
      PROVE  ~Terminal(task'[t])
  BY <1>1, <1>5 DEF PrepareCommit
<1>6. ASSUME NEW v \in Workers, TaskCancelled(v) \/ TaskFailCommit(v)
      PROVE  ~Terminal(task'[t])
  BY <1>1, <1>6 DEF TaskCancelled, TaskFailCommit
<1>7. ASSUME NEW v \in Workers, TaskCommit(v)
      PROVE  ~Terminal(task'[t])
  <2>1. v # w
    BY <1>7, Moves DEF TaskCommit, At
  <2>2. worker[v].msg.task # t
    BY <1>7, <2>1 DEF TaskCommit, OneExecutor, Executing
  <2> QED
    BY <1>1, <1>7, <2>2 DEF TaskCommit
<1>8. ASSUME NEW v \in Workers, FinalizeCommit(v) \/ FinalizeFailCommit(v) \/ FinalizeRaises(v)
      PROVE  ~Terminal(task'[t])
  BY <1>1, <1>2, <1>8 DEF FinalizeCommit, FinalizeFailCommit, FinalizeRaises
<1> QED
  BY <1>2, <1>3, <1>4, <1>5, <1>6, <1>7, <1>8
  DEF Next, vars, rows, Create, PublishRun, PublishRunRaises, DispatchFailureLoad, Cancel,
      CancelRead, CancelLoadTasks, WorkerStep, TakeMessage, Prepare, PrepareBegin,
      PrepareCancelled, PublishChain, RunTask, TaskDeduplicated, TaskBegin, TaskFailLoad,
      TaskReturn, Finalize, FinalizeBegin, FinalizeCancelled, RecoverCommittedJob, Ack, Fault,
      TaskRaises, UnhandledRaise, Crash, Redeliver

LEMMA ExecutingStep ==
  ASSUME TypeOK, MessageOfPC, OneExecutor, ExecutingIsLive, [Next]_vars
  PROVE  ExecutingIsLive'
<1> SUFFICES ASSUME NEW w \in Workers, worker'[w].pc = "executing"
             PROVE  ~Terminal(task'[worker'[w].msg.task])
  BY DEF ExecutingIsLive, At
<1>1. CASE worker'[w] = worker[w]
  BY <1>1, ExecutingRowKept DEF ExecutingIsLive, At
<1>2. CASE TaskBegin(w) /\ worker'[w].msg = worker[w].msg
  BY <1>2 DEF TaskBegin, rows
<1> QED
  BY <1>1, <1>2, EntersExecuting

(* Two runners at work are at two tasks of one batch. *)
LEMMA RunnersShareBatch ==
  ASSUME FanoutInv, ExecutingIsLive, NEW w \in Workers, NEW v \in Workers,
         At(w, "executing"), At(v, "executing")
  PROVE  Batch(worker[w].msg.task) = Batch(worker[v].msg.task)
<1>1. ASSUME NEW x \in Workers, At(x, "executing")
      PROVE  /\ worker[x].msg \in InFlight /\ worker[x].msg.kind = "task"
             /\ worker[x].msg.task \in Tasks /\ ~Terminal(task[worker[x].msg.task])
             /\ Batch(worker[x].msg.task) \in Nat
  <2>1. worker[x].msg \in InFlight /\ worker[x].msg.kind = "task"
    BY <1>1 DEF InFlight, FanoutInv, MessageOfPC, At
  <2>2. worker[x].msg.task \in Tasks /\ ~Terminal(task[worker[x].msg.task])
    BY <1>1, <2>1 DEF FanoutInv, MessageOfPC, ExecutingIsLive
  <2> QED
    BY <2>1, <2>2, TasksInterval, BatchIsPositive DEF FanoutInv
<1>2. ASSUME NEW x \in Workers, NEW y \in Workers, At(x, "executing"), At(y, "executing")
      PROVE  ~(Batch(worker[x].msg.task) < Batch(worker[y].msg.task))
  BY <1>1, <1>2 DEF FanoutInv, BatchesInOrder
<1> QED
  BY <1>1, <1>2

(* The tasks of one batch are an interval as long as the parallelism. *)
LEMMA BatchInterval ==
  ASSUME NEW k \in Nat \ {0}, NEW t \in Nat \ {0}, Batch(t) = k
  PROVE  t \in ((k - 1) * Parallelism + 1)..(k * Parallelism)
<1>1. Parallelism \in Nat \ {0}
  BY FanoutAssumption
<1> DEFINE q == (t - 1) \div Parallelism
<1>2. q = k - 1
  BY <1>1 DEF Batch
<1>3. q * Parallelism <= t - 1 /\ t - 1 < (q + 1) * Parallelism
  BY <1>1
<1>4. (k - 1) * Parallelism <= t - 1 /\ t - 1 < k * Parallelism
  BY <1>2, <1>3
<1> DEFINE a == (k - 1) * Parallelism
           b == k * Parallelism
<1>5. a \in Int /\ b \in Int
  BY <1>1
<1> HIDE DEF a, b
<1>6. a <= t - 1 /\ t - 1 < b
  BY <1>4 DEF a, b
<1>7. t \in (a + 1)..b
  BY <1>5, <1>6
<1> QED
  BY <1>7 DEF a, b

LEMMA RunnersBounded ==
  ASSUME FanoutInv, ExecutingIsLive
  PROVE  BoundedParallelism
<1> DEFINE S == {w \in Workers : At(w, "executing")}
<1>1. CASE S = {}
  BY <1>1, FS_EmptySet, FanoutAssumption DEF BoundedParallelism
<1>2. ASSUME NEW v \in S
      PROVE  Cardinality(S) <= Parallelism
  <2> DEFINE k == Batch(worker[v].msg.task)
             f == [w \in S |-> worker[w].msg.task]
             a == (k - 1) * Parallelism + 1
             b == k * Parallelism
  <2>1. \A w \in S : worker[w].msg.task \in Nat \ {0}
    BY TasksInterval DEF FanoutInv, MessageOfPC, InFlight, At
  <2>2. k \in Nat \ {0}
    BY <2>1, BatchIsPositive
  <2>3. \A w \in S : Batch(worker[w].msg.task) = k
    BY RunnersShareBatch
  <2>4. Parallelism \in Nat \ {0}
    BY FanoutAssumption
  <2> HIDE DEF k
  <2>5. a \in Int /\ b \in Int /\ b - a + 1 = Parallelism /\ ~(a > b)
    BY <2>2, <2>4
  <2>6. \A w \in S : worker[w].msg.task \in a..b
    BY <2>1, <2>2, <2>3, BatchInterval
  <2> HIDE DEF a, b
  <2>7. f \in [S -> a..b]
    BY <2>6
  <2>8. \A x, y \in S : f[x] = f[y] => x = y
    BY DEF FanoutInv, OneExecutor, Executing
  <2>9. f \in Injection(S, a..b)
    BY <2>7, <2>8 DEF Injection, IsInjective
  <2>10. IsFiniteSet(a..b) /\ Cardinality(a..b) = Parallelism
    BY <2>5, FS_Interval
  <2> QED
    BY <2>9, <2>10, FS_Injection
<1> QED
  BY <1>1, <1>2 DEF BoundedParallelism

-----------------------------------------------------------------------------
(* The job and its execution settle together                               *)

(* A handler that is going to write what depends on the rows it loaded has *)
(* just loaded them, or stays where it is.                                 *)
LEMMA EntersLoaded ==
  ASSUME TypeOK, [Next]_vars, NEW w \in Workers, worker'[w].pc \in WritesWhatItLoaded
  PROVE  \/ worker'[w] = worker[w]
         \/ /\ worker'[w].execSeen = exec.status /\ worker'[w].jobSeen = job
            /\ worker'[w].pc # "failing" => ~Terminal(job)
            /\ UNCHANGED <<exec, job>>
<1>1. ASSUME NEW pc, LoadRows(w, pc)
      PROVE  worker'[w].execSeen = exec.status /\ worker'[w].jobSeen = job
  <2>1. worker[w] \in WorkerState /\ worker \in [Workers -> WorkerState]
    BY DEF TypeOK
  <2> QED
    BY <1>1, <2>1 DEF LoadRows, WorkerState
<1>2. CASE worker'[w].pc = "preparing"
  BY <1>1, <1>2, EntersPreparing DEF PrepareBegin, rows
<1>3. CASE worker'[w].pc = "finalizing"
  BY <1>1, <1>3, EntersFinalizing DEF FinalizeBegin, rows
<1>4. CASE worker'[w].pc = "failing"
  <2>1. ~Prepare(w)
    BY <1>4, Moves DEF Prepare, PrepareBegin, PrepareCancelled, PrepareCommit, PublishChain
  <2>2. ~RunTask(w)
    BY <1>4, Moves DEF RunTask, TaskDeduplicated, TaskCancelled, TaskBegin, TaskCommit,
                       TaskFailLoad, TaskFailCommit, TaskReturn
  <2>3. Finalize(w) => RecoverCommittedJob(w)
    BY <1>4, Moves DEF Finalize, FinalizeBegin, FinalizeCancelled, FinalizeCommit,
                       FinalizeFailCommit
  <2>4. ~TakeMessage(w) /\ ~TaskRaises(w) /\ ~FinalizeRaises(w)
    <3>1. ~TakeMessage(w)
      BY <1>4, Takes
    <3>2. ~TaskRaises(w)
      BY <1>4, Moves DEF TaskRaises
    <3>3. ~FinalizeRaises(w)
      BY <1>4, Moves DEF FinalizeRaises
    <3> QED
      BY <3>1, <3>2, <3>3
  <2>5. worker' # [worker EXCEPT ![w] = IdleWorker]
    BY <1>4, GoesIdle
  <2>6. worker'[w] = worker[w] \/ RecoverCommittedJob(w)
    BY <2>1, <2>2, <2>3, <2>4, <2>5, OnlyOwnSteps
  <2> QED
    BY <1>1, <1>4, <2>6 DEF RecoverCommittedJob, rows
<1> QED
  BY <1>2, <1>3, <1>4 DEF WritesWhatItLoaded

(* The first preparation resets the rows while nobody else has loaded any. *)
LEMMA ResetAlone ==
  ASSUME FanoutInv, [Next]_vars, NEW w \in Workers, PrepareCommit(w), FirstDelivery(w)
  PROVE  /\ exec' = [status |-> "running", stage |-> "EXECUTE"]
         /\ job' = "running" /\ task' = PrepareTasks(task) /\ UNCHANGED <<create, cancel>>
         /\ \A v \in Workers : worker'[v].pc \notin WritesWhatItLoaded
<1>1. At(w, "preparing") /\ Unprepared
  BY DEF FanoutInv, ResetOnlyUnprepared, MayReset, PrepareCommit
<1>2. worker'[w].pc \notin WritesWhatItLoaded
  <2>1. worker'[w].pc \in {"publish", "taken_finalize", "ack"}
    BY Moves DEF PrepareCommit, FanoutInv
  <2> QED
    BY <2>1 DEF WritesWhatItLoaded
<1>3. ASSUME NEW v \in Workers, v # w
      PROVE  worker'[v].pc \notin WritesWhatItLoaded
  <2>1. worker'[v] = worker[v]
    BY <1>3, Moves DEF PrepareCommit, FanoutInv
  <2>2. worker[v].pc \in {"idle", "taken", "preparing", "ack"}
    BY <1>1 DEF Unprepared
  <2>3. worker[v].pc # "preparing"
    BY <1>1, <1>3 DEF FanoutInv, JobLocks, At
  <2> QED
    BY <2>1, <2>2, <2>3 DEF WritesWhatItLoaded
<1> QED
  BY <1>2, <1>3 DEF PrepareCommit

(* A request that has begun to cancel is not forgotten. *)
LEMMA CancelsGoOn ==
  ASSUME TypeOK, [Next]_vars
  PROVE  /\ \A r \in Requests : cancel'[r].pc = "idle" => cancel[r].pc = "idle"
         /\ NoCancel' => NoCancel
<1>1. ASSUME NEW r \in Requests, Cancel(r)
      PROVE  /\ cancel'[r].pc # "idle"
             /\ \A s \in Requests \ {r} : cancel'[s] = cancel[s]
  <2>1. cancel \in [Requests -> [pc : {"idle", "admitted", "loaded", "done"},
                                tasks : SUBSET TaskIds]]
    BY DEF TypeOK
  <2> QED
    BY <1>1, <2>1 DEF Cancel, CancelRead, CancelLoadTasks, CancelCommit
<1>2. UNCHANGED cancel \/ \E r \in Requests : Cancel(r)
  BY DEF Next, vars, rows, Create, PublishRun, PublishRunRaises, DispatchFailureLoad,
         DispatchFailureCommit, WorkerStep, TakeMessage, Prepare, PrepareBegin, PrepareCancelled,
         PrepareCommit, PublishChain, RunTask, TaskDeduplicated, TaskCancelled, TaskBegin,
         TaskCommit, TaskFailLoad, TaskFailCommit, TaskReturn, Finalize, FinalizeBegin,
         FinalizeCancelled, FinalizeCommit, RecoverCommittedJob, FinalizeFailCommit, Ack, Fault,
         TaskRaises, FinalizeRaises, UnhandledRaise, Crash, Redeliver
<1>3. \A r \in Requests : cancel'[r].pc = "idle" => cancel[r].pc = "idle"
  BY <1>1, <1>2
<1> QED
  BY <1>3 DEF NoCancel

(* Otherwise the execution and its job change as one, and a settled one    *)
(* stays settled.                                                          *)
LEMMA StatusStep ==
  ASSUME FanoutInv, JobFollowsExecution, [Next]_vars,
         ~(\E w \in Workers : PrepareCommit(w) /\ FirstDelivery(w))
  PROVE  /\ Terminal(exec.status) => Terminal(exec'.status)
         /\ Terminal(job') => Terminal(exec'.status)
         /\ NoCancel' => exec'.status = job'
<1> DEFINE Goal == /\ Terminal(exec.status) => Terminal(exec'.status)
                   /\ Terminal(job') => Terminal(exec'.status)
                   /\ NoCancel' => exec'.status = job'
<1>1. exec \in ExecutionRow /\ (Terminal(job) => Terminal(exec.status))
  BY DEF FanoutInv, TypeOK, JobFollowsExecution
<1>2. NoCancel' => NoCancel
  BY CancelsGoOn DEF FanoutInv
<1>3. NoCancel => exec.status = job
  BY DEF JobFollowsExecution
<1>4. CASE UNCHANGED <<exec, job>>
  BY <1>1, <1>2, <1>3, <1>4
<1>5. CASE DispatchFailureCommit
  <2>1. exec'.status = "failed" /\ job' = "failed"
    BY <1>1, <1>5 DEF DispatchFailureCommit, ExecutionRow
  <2> QED
    BY <2>1 DEF Terminal
<1>6. ASSUME NEW r \in Requests, CancelCommit(r)
      PROVE  Goal
  <2>1. exec'.status = "cancelled"
    BY <1>1, <1>6 DEF CancelCommit, ExecutionRow
  <2>2. ~NoCancel
    BY <1>6 DEF CancelCommit, NoCancel
  <2> QED
    BY <1>2, <2>1, <2>2 DEF Terminal
<1>7. ASSUME NEW w \in Workers, PrepareCancelled(w) \/ FinalizeCancelled(w)
      PROVE  Goal
  <2>1. /\ worker[w].pc \in {"preparing", "finalizing"} /\ worker[w].pc \in WritesWhatItLoaded
        /\ Terminal(worker[w].execSeen) /\ UNCHANGED exec
    BY <1>7 DEF PrepareCancelled, FinalizeCancelled, At, WritesWhatItLoaded, Terminal
  <2>2. Terminal(exec.status)
    BY <2>1 DEF JobFollowsExecution
  <2>3. ~NoCancel
    BY <2>1 DEF JobFollowsExecution
  <2> QED
    BY <1>2, <2>1, <2>2, <2>3
<1>8. ASSUME NEW w \in Workers, PrepareCommit(w)
      PROVE  Goal
  BY <1>1, <1>2, <1>3, <1>8 DEF PrepareCommit
<1>9. ASSUME NEW w \in Workers, FinalizeCommit(w)
      PROVE  Goal
  <2> DEFINE status == ExecutionTerminalStatus(task', payload)
  <2>1. status \in {"cancelled", "failed", "completed"}
    BY DEF ExecutionTerminalStatus
  <2>2. exec'.status = status /\ job' = JobStatusForExecution(status)
    BY <1>9 DEF FinalizeCommit, Reduced
  <2> HIDE DEF status
  <2>3. JobStatusForExecution(status) = status
    BY <2>1 DEF JobStatusForExecution
  <2> QED
    BY <2>1, <2>2, <2>3 DEF Terminal
<1>10. ASSUME NEW w \in Workers, FinalizeRaises(w)
      PROVE  Goal
  <2>1. exec'.status = exec.status /\ job' = job
    BY <1>1, <1>10 DEF FinalizeRaises, ExecutionRow
  <2> QED
    BY <1>1, <1>2, <1>3, <2>1
<1>11. ASSUME NEW w \in Workers, FinalizeFailCommit(w)
      PROVE  Goal
  <2>1. worker[w].pc \in WritesWhatItLoaded
    BY <1>11 DEF FinalizeFailCommit, At, WritesWhatItLoaded
  <2>2. worker[w].execSeen = "failed" => Terminal(exec.status)
    BY <2>1 DEF JobFollowsExecution, Terminal
  <2>3. NoCancel => worker[w].execSeen = worker[w].jobSeen
    BY <2>1 DEF JobFollowsExecution
  <2>4. exec'.status = IF worker[w].execSeen = "failed" THEN exec.status ELSE "failed"
    BY <1>1, <1>11 DEF FinalizeFailCommit, ExecutionRow
  <2>5. job' = IF worker[w].jobSeen = "failed" THEN job ELSE "failed"
    BY <1>11 DEF FinalizeFailCommit
  <2>6. Terminal("failed")
    BY DEF Terminal
  <2> QED
    BY <1>2, <1>3, <2>2, <2>3, <2>4, <2>5, <2>6
<1> QED
  BY <1>4, <1>5, <1>6, <1>7, <1>8, <1>9, <1>10, <1>11
  DEF Next, vars, rows, Create, PublishRun, PublishRunRaises, DispatchFailureLoad, Cancel,
      CancelRead, CancelLoadTasks, WorkerStep, TakeMessage, Prepare, PrepareBegin, PublishChain,
      RunTask, TaskDeduplicated, TaskCancelled, TaskBegin, TaskCommit, TaskFailLoad,
      TaskFailCommit, TaskReturn, Finalize, FinalizeBegin, RecoverCommittedJob, Ack, Fault,
      TaskRaises, UnhandledRaise, Crash, Redeliver

LEMMA JobFollowsStep ==
  ASSUME FanoutInv, JobFollowsExecution, [Next]_vars
  PROVE  JobFollowsExecution'
<1>1. ASSUME NEW w \in Workers, PrepareCommit(w), FirstDelivery(w)
      PROVE  JobFollowsExecution'
  BY <1>1, ResetAlone DEF JobFollowsExecution, Terminal, WritesWhatItLoaded
<1>2. CASE ~(\E w \in Workers : PrepareCommit(w) /\ FirstDelivery(w))
  <2>1. /\ Terminal(exec.status) => Terminal(exec'.status)
        /\ Terminal(job') => Terminal(exec'.status)
        /\ NoCancel' => exec'.status = job'
    BY <1>2, StatusStep
  <2>2. ASSUME NEW w \in Workers, worker'[w].pc \in WritesWhatItLoaded
        PROVE  /\ Terminal(worker'[w].execSeen) => Terminal(exec'.status)
               /\ worker'[w].pc \in {"preparing", "finalizing"} => ~Terminal(worker'[w].jobSeen)
               /\ NoCancel' => worker'[w].execSeen = worker'[w].jobSeen
    <3>1. CASE worker'[w] = worker[w]
      <4>1. NoCancel' => NoCancel
        BY CancelsGoOn DEF FanoutInv
      <4> QED
        BY <2>1, <2>2, <3>1, <4>1 DEF JobFollowsExecution
    <3>2. CASE /\ worker'[w].execSeen = exec.status /\ worker'[w].jobSeen = job
               /\ worker'[w].pc # "failing" => ~Terminal(job)
               /\ UNCHANGED <<exec, job>>
      BY <2>1, <2>2, <3>2
    <3> QED
      BY <2>2, <3>1, <3>2, EntersLoaded DEF FanoutInv
  <2> QED
    BY <2>1, <2>2 DEF JobFollowsExecution, WritesWhatItLoaded
<1> QED
  BY <1>1, <1>2

-----------------------------------------------------------------------------
(* Whoever stops the execution settles all of its tasks                    *)

LEMMA IdleStep ==
  ASSUME FanoutInv, UndispatchedIsIdle, [Next]_vars
  PROVE  UndispatchedIsIdle'
<1> DEFINE Undispatched == \/ create.pc = "publish"
                           \/ create.pc \in {"rolled_back", "failing"} /\ ~AmbiguousPublish
<1> SUFFICES ASSUME Undispatched'
             PROVE  ready' = {} /\ \A w \in Workers : worker'[w].pc = "idle"
  BY DEF UndispatchedIsIdle, At
<1>1. create \in [pc : {"publish", "rolled_back", "failing", "done"}, tasks : SUBSET TaskIds]
  BY DEF FanoutInv, TypeOK
<1>2. UNCHANGED <<ready, worker>> /\ Undispatched
  <2>1. CASE Create \/ PublishRunRaises
    BY <1>1, <2>1 DEF Create, PublishRun, PublishRunRaises, DispatchFailureLoad,
                      DispatchFailureCommit, broker
  <2>2. ASSUME NEW w \in Workers, WorkerStep(w) \/ Fault(w)
        PROVE  FALSE
    <3>1. UNCHANGED create
      BY <2>2
      DEF WorkerStep, TakeMessage, Prepare, PrepareBegin, PrepareCancelled, PrepareCommit,
          PublishChain, RunTask, TaskDeduplicated, TaskCancelled, TaskBegin, TaskCommit,
          TaskFailLoad, TaskFailCommit, TaskReturn, Finalize, FinalizeBegin, FinalizeCancelled,
          FinalizeCommit, RecoverCommittedJob, FinalizeFailCommit, Ack, Fault, TaskRaises,
          FinalizeRaises, UnhandledRaise, Crash, Redeliver
    <3>2. ready = {} /\ At(w, "idle")
      BY <3>1 DEF UndispatchedIsIdle
    <3> QED
      BY <2>2, <3>2
      DEF WorkerStep, TakeMessage, Prepare, PrepareBegin, PrepareCancelled, PrepareCommit,
          PublishChain, RunTask, TaskDeduplicated, TaskCancelled, TaskBegin, TaskCommit,
          TaskFailLoad, TaskFailCommit, TaskReturn, Finalize, FinalizeBegin, FinalizeCancelled,
          FinalizeCommit, RecoverCommittedJob, FinalizeFailCommit, Ack, Fault, TaskRaises,
          FinalizeRaises, UnhandledRaise, Crash, Redeliver, At
  <2>3. ASSUME NEW r \in Requests, Cancel(r)
        PROVE  UNCHANGED <<create, ready, worker>> /\ Undispatched
    BY <2>3 DEF Cancel, CancelRead, CancelLoadTasks, CancelCommit, broker
  <2>4. CASE UNCHANGED vars
    BY <2>4 DEF vars
  <2> QED
    BY <2>1, <2>2, <2>3, <2>4 DEF Next
<1> QED
  BY <1>2 DEF UndispatchedIsIdle, At

(* No step but the first preparation makes a settled task live. *)
LEMMA LiveTasksShrink ==
  ASSUME FanoutInv, [Next]_vars, ~(\E w \in Workers : PrepareCommit(w) /\ FirstDelivery(w))
  PROVE  Nonterminal' \subseteq Nonterminal
BY TasksConstant, TasksStaySettled DEF FanoutInv, Nonterminal

(* Before it, tasks settle only by a cancel or a dispatch failure. *)
LEMMA UnpreparedTasks ==
  ASSUME FanoutInv, MayReset, [Next]_vars,
         ~(\E w \in Workers : PrepareCommit(w) /\ FirstDelivery(w))
  PROVE  UNCHANGED task \/ DispatchFailureCommit \/ \E r \in Requests : CancelCommit(r)
<1>1. Unprepared
  BY DEF FanoutInv, ResetOnlyUnprepared
<1>2. ASSUME NEW w \in Workers, WorkerStep(w) \/ Fault(w)
      PROVE  UNCHANGED task
  <2>1. worker[w].pc \in {"idle", "taken", "preparing", "ack"}
    BY <1>1 DEF Unprepared
  <2>2. worker[w].msg.kind # "task"
    BY <1>1 DEF Unprepared, InFlight, RunMessage, NoMessage
  <2>3. CASE PrepareCommit(w)
    BY <1>2, <2>3 DEF PrepareCommit
  <2> QED
    BY <1>2, <2>1, <2>2, <2>3
    DEF WorkerStep, TakeMessage, Prepare, PrepareBegin, PrepareCancelled, PublishChain, RunTask,
        TaskDeduplicated, TaskCancelled, TaskBegin, TaskCommit, TaskFailLoad, TaskFailCommit,
        TaskReturn, Finalize, FinalizeBegin, FinalizeCancelled, FinalizeCommit,
        RecoverCommittedJob, FinalizeFailCommit, Ack, Fault, TaskRaises, FinalizeRaises,
        UnhandledRaise, Crash, Redeliver, At, rows
<1> QED
  BY <1>2 DEF Next, vars, rows, Create, PublishRun, PublishRunRaises, DispatchFailureLoad, Cancel,
              CancelRead, CancelLoadTasks

(* Who settles an execution settles its tasks. *)
LEMMA SettlersSettleAll ==
  ASSUME FanoutInv, [Next]_vars, ~Terminal(exec.status), Terminal(exec'.status),
         create.pc = "failing" => Nonterminal \subseteq create.tasks,
         \A r \in Requests : cancel[r].pc = "loaded" => Nonterminal \subseteq cancel[r].tasks
  PROVE  Nonterminal' = {}
<1>1. /\ exec \in ExecutionRow /\ task \in [Tasks -> TaskStatus]
      /\ Tasks' = Tasks
  BY TasksConstant DEF FanoutInv, TypeOK, Tasks
<1>2. SUFFICES \A t \in Tasks : Terminal(task'[t])
  BY <1>1 DEF Nonterminal
<1>3. CASE DispatchFailureCommit
  BY <1>1, <1>3 DEF DispatchFailureCommit, Nonterminal, Terminal
<1>4. ASSUME NEW r \in Requests, CancelCommit(r)
      PROVE  \A t \in Tasks : Terminal(task'[t])
  BY <1>1, <1>4 DEF CancelCommit, Nonterminal, Terminal
<1>5. ASSUME NEW w \in Workers, FinalizeCommit(w) \/ FinalizeFailCommit(w)
      PROVE  \A t \in Tasks : Terminal(task'[t])
  BY <1>1, <1>5 DEF FinalizeCommit, FinalizeFailCommit, FailNonterminalTasks, Tasks, Terminal
<1>6. ASSUME NEW w \in Workers, FinalizeRaises(w)
      PROVE  exec'.status = exec.status
  BY <1>1, <1>6 DEF FinalizeRaises, ExecutionRow
<1>7. ASSUME NEW w \in Workers, PrepareCommit(w)
      PROVE  exec'.status = exec.status \/ exec'.status = "running"
  BY <1>7 DEF PrepareCommit
<1>8. ~Terminal("running")
  BY DEF Terminal
<1> QED
  BY <1>3, <1>4, <1>5, <1>6, <1>7, <1>8
  DEF Next, vars, rows, Create, PublishRun, PublishRunRaises, DispatchFailureLoad, Cancel,
      CancelRead, CancelLoadTasks, WorkerStep, TakeMessage, Prepare, PrepareBegin,
      PrepareCancelled, PublishChain, RunTask, TaskDeduplicated, TaskCancelled, TaskBegin,
      TaskCommit, TaskFailLoad, TaskFailCommit, TaskReturn, Finalize, FinalizeBegin,
      FinalizeCancelled, RecoverCommittedJob, Ack, Fault, TaskRaises, UnhandledRaise, Crash,
      Redeliver

(* Who has loaded the live tasks has still loaded all that are live. *)
LEMMA LoadedTasksStep ==
  ASSUME FanoutInv, [Next]_vars, Nonterminal' \subseteq Nonterminal,
         create.pc = "failing" => Nonterminal \subseteq create.tasks,
         \A r \in Requests : cancel[r].pc = "loaded" => Nonterminal \subseteq cancel[r].tasks
  PROVE  /\ create'.pc = "failing" => Nonterminal' \subseteq create'.tasks
         /\ \A r \in Requests : cancel'[r].pc = "loaded" => Nonterminal' \subseteq cancel'[r].tasks
<1>1. /\ create \in [pc : {"publish", "rolled_back", "failing", "done"}, tasks : SUBSET TaskIds]
      /\ cancel \in [Requests -> [pc : {"idle", "admitted", "loaded", "done"},
                                  tasks : SUBSET TaskIds]]
  BY DEF FanoutInv, TypeOK
<1>2. CASE UNCHANGED <<create, cancel>>
  BY <1>2
<1>3. CASE Create \/ PublishRunRaises
  BY <1>1, <1>3 DEF Create, PublishRun, PublishRunRaises, DispatchFailureLoad,
                    DispatchFailureCommit
<1>4. ASSUME NEW r \in Requests, Cancel(r)
      PROVE  /\ UNCHANGED create
             /\ cancel'[r].pc = "loaded" => Nonterminal' \subseteq cancel'[r].tasks
             /\ \A s \in Requests \ {r} : cancel'[s] = cancel[s]
  BY <1>1, <1>4 DEF Cancel, CancelRead, CancelLoadTasks, CancelCommit
<1> QED
  BY <1>2, <1>3, <1>4
  DEF Next, vars, rows, WorkerStep, TakeMessage, Prepare, PrepareBegin, PrepareCancelled,
      PrepareCommit, PublishChain, RunTask, TaskDeduplicated, TaskCancelled, TaskBegin,
      TaskCommit, TaskFailLoad, TaskFailCommit, TaskReturn, Finalize, FinalizeBegin,
      FinalizeCancelled, FinalizeCommit, RecoverCommittedJob, FinalizeFailCommit, Ack, Fault,
      TaskRaises, FinalizeRaises, UnhandledRaise, Crash, Redeliver

LEMMA DoneStaysDone ==
  ASSUME TypeOK, [Next]_vars, NEW r \in Requests, cancel[r].pc = "done"
  PROVE  cancel'[r].pc = "done"
<1>1. ASSUME NEW s \in Requests, Cancel(s)
      PROVE  cancel'[r] = cancel[r]
  BY <1>1 DEF TypeOK, Cancel, CancelRead, CancelLoadTasks, CancelCommit
<1> QED
  BY <1>1
  DEF Next, vars, rows, Create, PublishRun, PublishRunRaises, DispatchFailureLoad,
      DispatchFailureCommit, WorkerStep, TakeMessage, Prepare, PrepareBegin, PrepareCancelled,
      PrepareCommit, PublishChain, RunTask, TaskDeduplicated, TaskCancelled, TaskBegin,
      TaskCommit, TaskFailLoad, TaskFailCommit, TaskReturn, Finalize, FinalizeBegin,
      FinalizeCancelled, FinalizeCommit, RecoverCommittedJob, FinalizeFailCommit, Ack, Fault,
      TaskRaises, FinalizeRaises, UnhandledRaise, Crash, Redeliver

(* No step makes a reset possible again. *)
LEMMA MayResetBefore ==
  ASSUME TypeOK, [Next]_vars, MayReset'
  PROVE  MayReset
<1>1. CASE job' = "queued"
  BY <1>1, JobNeverRequeued DEF MayReset
<1>2. ASSUME NEW w \in Workers, worker'[w].pc = "preparing", worker'[w].jobSeen = "queued"
      PROVE  MayReset
  BY <1>2, EntersPreparing DEF MayReset, At, FirstDelivery
<1> QED
  BY <1>1, <1>2 DEF MayReset, At, FirstDelivery

LEMMA StoppedStep ==
  ASSUME FanoutInv, UndispatchedIsIdle, StoppedTogether, [Next]_vars
  PROVE  StoppedTogether'
<1> SUFFICES ASSUME OneCancel', ~AmbiguousPublish
             PROVE  /\ Terminal(exec'.status) => Nonterminal' = {}
                    /\ \A r \in Requests :
                         cancel'[r].pc = "loaded" => Nonterminal' \subseteq cancel'[r].tasks
                    /\ create'.pc = "failing" => Nonterminal' \subseteq create'.tasks
                    /\ MayReset' /\ (\A r \in Requests : cancel'[r].pc # "done") =>
                         Nonterminal' = Tasks'
  BY DEF StoppedTogether
<1>1. OneCancel
  BY CancelsGoOn DEF FanoutInv, OneCancel
<1>2. /\ Terminal(exec.status) => Nonterminal = {}
      /\ \A r \in Requests : cancel[r].pc = "loaded" => Nonterminal \subseteq cancel[r].tasks
      /\ create.pc = "failing" => Nonterminal \subseteq create.tasks
      /\ MayReset /\ (\A r \in Requests : cancel[r].pc # "done") => Nonterminal = Tasks
  BY <1>1 DEF StoppedTogether
<1>3. Tasks' = Tasks
  BY TasksConstant DEF FanoutInv
<1>4. ASSUME NEW w \in Workers, PrepareCommit(w), FirstDelivery(w)
      PROVE  /\ ~Terminal(exec'.status) /\ Nonterminal' = Tasks'
             /\ create'.pc # "failing"
             /\ \A r \in Requests :
                  cancel'[r].pc = "loaded" => Nonterminal' \subseteq cancel'[r].tasks
  <2>1. /\ exec'.status = "running" /\ task' = PrepareTasks(task)
        /\ UNCHANGED <<create, cancel>>
    BY <1>4, ResetAlone
  <2>2. Nonterminal' = Tasks'
    BY <2>1 DEF Nonterminal, PrepareTasks, Terminal, Tasks
  <2>3. At(w, "preparing") /\ MayReset
    BY <1>4 DEF PrepareCommit, MayReset
  <2>4. create.pc # "failing"
    BY <2>3 DEF UndispatchedIsIdle, At
  <2>5. ASSUME NEW r \in Requests, cancel[r].pc = "loaded"
        PROVE  Tasks \subseteq cancel[r].tasks
    BY <1>1, <1>2, <2>3, <2>5 DEF OneCancel
  <2> QED
    BY <1>3, <2>1, <2>2, <2>4, <2>5 DEF Terminal
<1>5. ASSUME ~(\E w \in Workers : PrepareCommit(w) /\ FirstDelivery(w))
      PROVE  /\ Terminal(exec'.status) => Nonterminal' = {}
             /\ \A r \in Requests :
                  cancel'[r].pc = "loaded" => Nonterminal' \subseteq cancel'[r].tasks
             /\ create'.pc = "failing" => Nonterminal' \subseteq create'.tasks
             /\ MayReset' /\ (\A r \in Requests : cancel'[r].pc # "done") =>
                  Nonterminal' = Tasks'
  <2>1. Nonterminal' \subseteq Nonterminal
    BY <1>5, LiveTasksShrink
  <2>2. Terminal(exec'.status) => Nonterminal' = {}
    BY <1>2, <2>1, SettlersSettleAll
  <2>3. ASSUME MayReset', \A r \in Requests : cancel'[r].pc # "done"
        PROVE  Nonterminal' = Tasks'
    <3>1. MayReset
      BY <2>3, MayResetBefore DEF FanoutInv
    <3>2. ~DispatchFailureCommit
      <4>1. ASSUME DispatchFailureCommit
            PROVE  FALSE
        <5>1. \A w \in Workers : At(w, "idle") /\ worker' = worker
          BY <4>1 DEF DispatchFailureCommit, UndispatchedIsIdle
        <5>2. job' # "queued"
          BY <4>1 DEF DispatchFailureCommit
        <5> QED
          BY <2>3, <5>1, <5>2 DEF MayReset, At
      <4> QED
        BY <4>1
    <3>3. ASSUME NEW r \in Requests, CancelCommit(r)
          PROVE  FALSE
      BY <2>3, <3>3 DEF CancelCommit, FanoutInv, TypeOK
    <3>4. UNCHANGED task
      BY <1>5, <3>1, <3>2, <3>3, UnpreparedTasks
    <3>5. \A r \in Requests : cancel[r].pc # "done"
      BY <2>3, DoneStaysDone DEF FanoutInv
    <3> QED
      BY <1>2, <3>1, <3>4, <3>5 DEF Nonterminal, Tasks
  <2> QED
    BY <1>2, <2>1, <2>2, <2>3, LoadedTasksStep
<1> QED
  BY <1>4, <1>5

-----------------------------------------------------------------------------
(* SettlementInv is an inductive invariant                                 *)

LEMMA InitSettlement ==
  ASSUME Init
  PROVE  SettlementInv
<1>1. \A w \in Workers : worker[w].pc = "idle"
  BY DEF Init, IdleWorker
<1>2. FanoutInv
  BY InitInv
<1>3. ExecutingIsLive
  BY <1>1 DEF ExecutingIsLive, At
<1>4. JobFollowsExecution
  BY <1>1 DEF JobFollowsExecution, WritesWhatItLoaded, Terminal, Init
<1>5. UndispatchedIsIdle
  BY <1>1 DEF UndispatchedIsIdle, At, Init
<1>6. Nonterminal = Tasks
  BY DEF Nonterminal, Tasks, Init, Terminal
<1>7. ~Terminal(exec.status) /\ create.pc # "failing" /\ \A r \in Requests : cancel[r].pc = "idle"
  BY DEF Init, Terminal
<1>8. StoppedTogether
  BY <1>6, <1>7 DEF StoppedTogether
<1> QED
  BY <1>2, <1>3, <1>4, <1>5, <1>8 DEF SettlementInv

LEMMA SettlementStep ==
  ASSUME SettlementInv, [Next]_vars
  PROVE  SettlementInv'
<1>1. FanoutInv'
  BY StepInv DEF SettlementInv
<1>2. ExecutingIsLive'
  BY ExecutingStep DEF SettlementInv, FanoutInv
<1>3. JobFollowsExecution' /\ UndispatchedIsIdle' /\ StoppedTogether'
  BY JobFollowsStep, IdleStep, StoppedStep DEF SettlementInv
<1> QED
  BY <1>1, <1>2, <1>3 DEF SettlementInv

(* In every reachable state a runner at work has a live task, a handler    *)
(* that loaded a settled execution finds it settled, and who has loaded    *)
(* the live tasks to stop them has loaded all of them.                     *)
THEOREM SettlementInvariant == Spec => []SettlementInv
<1>1. Init => SettlementInv
  BY InitSettlement
<1>2. SettlementInv /\ [Next]_vars => SettlementInv'
  BY SettlementStep
<1> QED
  BY <1>1, <1>2, PTL DEF Spec

(* The batches of the chain bound the runners at work by the parallelism,  *)
(* also with several chains and redelivered messages.                      *)
THEOREM ParallelismIsKept == Spec => []BoundedParallelism
<1>1. SettlementInv => BoundedParallelism
  BY RunnersBounded DEF SettlementInv
<1> QED
  BY <1>1, SettlementInvariant, PTL

(* Whichever handler settles the job settles the execution with it, and    *)
(* without a cancel request with the same status.                          *)
THEOREM JobAndExecutionAgree == Spec => []JobExecutionAgree
<1>1. SettlementInv => JobExecutionAgree
  BY DEF SettlementInv, JobFollowsExecution, JobExecutionAgree
<1> QED
  BY <1>1, SettlementInvariant, PTL

(* A settled job leaves no live task and no runner at work: reducer,       *)
(* compensations and one cancel request settle all tasks with it.          *)
THEOREM SettledJobsLeaveNoWork == Spec => []SettledJob
<1>1. SettlementInv => SettledJob
  <2> SUFFICES ASSUME SettlementInv, Terminal(job), OneCancel, ~AmbiguousPublish
               PROVE  /\ \A t \in Tasks : Terminal(task[t])
                      /\ \A w \in Workers : ~At(w, "executing")
    BY DEF SettledJob
  <2>1. Nonterminal = {}
    BY DEF SettlementInv, JobFollowsExecution, StoppedTogether
  <2>2. \A t \in Tasks : Terminal(task[t])
    BY <2>1 DEF Nonterminal
  <2>3. ASSUME NEW w \in Workers, At(w, "executing")
        PROVE  FALSE
    <3>1. worker[w].msg \in InFlight /\ worker[w].msg.kind = "task"
      BY <2>3 DEF SettlementInv, FanoutInv, MessageOfPC, InFlight, At
    <3>2. worker[w].msg.task \in Tasks
      BY <3>1 DEF SettlementInv, FanoutInv, MessageOfPC
    <3> QED
      BY <2>2, <2>3, <3>2 DEF SettlementInv, ExecutingIsLive
  <2> QED
    BY <2>2, <2>3
<1> QED
  BY <1>1, SettlementInvariant, PTL

=============================================================================
