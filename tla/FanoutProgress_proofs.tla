------------------------- MODULE FanoutProgress_proofs -------------------------
(***************************************************************************)
(* No message is lost on which a live job of ExecutionFanout depends: the  *)
(* safety half of the liveness property JobSettles, for any number of      *)
(* workers, cancel requests, tasks, chains and faults.  The argument       *)
(* follows each message to the end of its handler, which has then settled  *)
(* the job, published a chain or given its result to a chord.              *)
(***************************************************************************)
EXTENDS ExecutionFanout_proofs

-----------------------------------------------------------------------------
(* Messages stay until their handler ends                                  *)

(* A step of another worker, or one inside a handler, loses no message. *)
LEMMA KeptByOthers ==
  ASSUME NEW m, ToHandle(m), ready \subseteq ready', NEW w \in Workers,
         \A v \in Workers \ {w} : worker'[v] = worker[v],
         \/ worker[w].msg # m \/ worker[w].pc \in {"idle", "ack", "reduced"}
         \/ worker'[w].msg = m /\ worker'[w].pc \notin {"idle", "ack", "reduced"}
         \/ m \in ready'
  PROVE  ToHandle(m)'
BY DEF ToHandle

(* So does a step that no worker takes. *)
LEMMA KeptWithoutWorkers ==
  ASSUME NEW m, ToHandle(m), ready \subseteq ready', UNCHANGED worker
  PROVE  ToHandle(m)'
BY DEF ToHandle

LEMMA KeptByTaking ==
  ASSUME TypeOK, NEW m, ToHandle(m), NEW w \in Workers, TakeMessage(w)
  PROVE  ToHandle(m)'
<1>1. PICK n \in ready : /\ worker'[w].pc = "taken" /\ worker'[w].msg = n
                         /\ ready' = ready \ {n}
                         /\ \A v \in Workers \ {w} : worker'[v] = worker[v]
  BY Takes
<1>2. worker[w].pc = "idle"
  BY DEF TakeMessage, At
<1> QED
  BY <1>1, <1>2 DEF ToHandle

(* A handler that ends settles the job, publishes a chain or returns a     *)
(* result, unless it raises out of its try block.                          *)
LEMMA HandledStep ==
  ASSUME TypeOK, MessageOfPC, LeavesSettled, [Next]_vars, faults'.unhandled = 0,
         NEW m, ToHandle(m)
  PROVE  \/ ToHandle(m)'
         \/ Terminal(job')
         \/ \E w \in Workers : worker[w].msg = m /\ (PublishChain(w) \/ TaskReturn(w))
<1> DEFINE Goal == \/ ToHandle(m)' \/ Terminal(job')
                   \/ \E w \in Workers : worker[w].msg = m /\ (PublishChain(w) \/ TaskReturn(w))
<1>1. ASSUME NEW w \in Workers, ready \subseteq ready',
             NEW pc \in WorkerPC \ {"idle", "ack", "reduced"}, Goto(w, pc) \/ LoadRows(w, pc)
      PROVE  ToHandle(m)'
  BY <1>1, Moves, KeptByOthers
<1>2. ASSUME NEW w \in Workers, Prepare(w)
      PROVE  Goal
  <2>1. CASE PrepareBegin(w)
    BY <1>1, <2>1 DEF PrepareBegin, broker, rows, WorkerPC
  <2>2. CASE PrepareCancelled(w)
    BY <2>2 DEF PrepareCancelled, Terminal
  <2>3. CASE PrepareCommit(w)
    <3>1. CASE Tasks # {}
      BY <1>1, <2>3, <3>1 DEF PrepareCommit, broker, WorkerPC
    <3>2. CASE Tasks = {} /\ job' = "running"
      BY <1>1, <2>3, <3>2 DEF PrepareCommit, broker, WorkerPC
    <3>3. CASE job' # "running"
      <4>1. ~FirstDelivery(w) /\ job' = job /\ At(w, "preparing")
        BY <2>3, <3>3 DEF PrepareCommit
      <4>2. job # "queued" /\ job \in JobStatus
        BY <4>1 DEF LeavesSettled, TypeOK
      <4> QED
        BY <3>3, <4>1, <4>2 DEF JobStatus, Terminal
    <3> QED
      BY <3>1, <3>2, <3>3
  <2>4. CASE PublishChain(w)
    <3>1. CASE worker[w].msg = m
      BY <2>4, <3>1
    <3>2. CASE worker[w].msg # m
      BY <2>4, <3>2, Moves, KeptByOthers DEF PublishChain
    <3> QED
      BY <3>1, <3>2
  <2> QED
    BY <1>2, <2>1, <2>2, <2>3, <2>4 DEF Prepare
<1>3. ASSUME NEW w \in Workers, RunTask(w)
      PROVE  Goal
  <2>1. CASE TaskReturn(w)
    <3>1. CASE worker[w].msg = m
      BY <2>1, <3>1
    <3>2. CASE worker[w].msg # m
      BY <2>1, <3>2, Moves, KeptByOthers DEF TaskReturn
    <3> QED
      BY <3>1, <3>2
  <2>2. CASE TaskDeduplicated(w) \/ TaskCancelled(w) \/ TaskBegin(w) \/ TaskCommit(w)
               \/ TaskFailLoad(w) \/ TaskFailCommit(w)
    BY <1>1, <2>2 DEF TaskDeduplicated, TaskCancelled, TaskBegin, TaskCommit, TaskFailLoad,
                      TaskFailCommit, broker, WorkerPC
  <2> QED
    BY <1>3, <2>1, <2>2 DEF RunTask
<1>4. ASSUME NEW w \in Workers, Finalize(w)
      PROVE  Goal
  <2>1. CASE FinalizeBegin(w)
    BY <1>1, <2>1 DEF FinalizeBegin, broker, rows, WorkerPC
  <2>2. CASE FinalizeCancelled(w)
    BY <2>2 DEF FinalizeCancelled, Terminal
  <2>3. CASE FinalizeCommit(w)
    BY <2>3 DEF FinalizeCommit, JobStatusForExecution, Terminal
  <2>4. CASE RecoverCommittedJob(w)
    BY <1>1, <2>4 DEF RecoverCommittedJob, broker, rows, WorkerPC, Terminal
  <2>5. CASE FinalizeFailCommit(w)
    BY <2>5 DEF FinalizeFailCommit, LeavesSettled, Terminal
  <2> QED
    BY <1>4, <2>1, <2>2, <2>3, <2>4, <2>5 DEF Finalize
<1>5. ASSUME NEW w \in Workers, Fault(w)
      PROVE  Goal
  <2>1. CASE TaskRaises(w) \/ FinalizeRaises(w)
    BY <1>1, <2>1 DEF TaskRaises, FinalizeRaises, broker, WorkerPC
  <2>2. CASE UnhandledRaise(w)
    BY <2>2 DEF UnhandledRaise, Count, TypeOK
  <2>3. CASE Crash(w)
    BY <2>3, GoesIdle, KeptByOthers DEF Crash, Unacked
  <2>4. CASE Redeliver(w)
    BY <2>4, KeptWithoutWorkers DEF Redeliver
  <2> QED
    BY <1>5, <2>1, <2>2, <2>3, <2>4 DEF Fault
<1>6. ASSUME NEW w \in Workers, Ack(w)
      PROVE  Goal
  BY <1>6, GoesIdle, KeptByOthers DEF Ack, broker
<1>7. CASE Create \/ PublishRunRaises
  BY <1>7, KeptWithoutWorkers DEF Create, PublishRun, PublishRunRaises, DispatchFailureLoad,
                                  DispatchFailureCommit, broker
<1>8. ASSUME NEW r \in Requests, Cancel(r)
      PROVE  Goal
  BY <1>8, KeptWithoutWorkers DEF Cancel, CancelRead, CancelLoadTasks, CancelCommit, broker
<1>9. CASE UNCHANGED vars
  BY <1>9, KeptWithoutWorkers DEF vars
<1> QED
  BY <1>2, <1>3, <1>4, <1>5, <1>6, <1>7, <1>8, <1>9, KeptByTaking DEF Next, WorkerStep

-----------------------------------------------------------------------------
(* Who leaves a handler without settling the job has found it settled      *)

LEMMA EntersPublish ==
  ASSUME TypeOK, [Next]_vars, NEW w \in Workers, worker'[w].pc = "publish"
  PROVE  worker'[w] = worker[w] \/ Tasks # {}
<1>1. CASE Prepare(w)
  BY <1>1, Moves DEF Prepare, PrepareBegin, PrepareCancelled, PrepareCommit, PublishChain
<1>2. CASE RunTask(w)
  BY <1>2, Moves DEF RunTask, TaskDeduplicated, TaskCancelled, TaskBegin, TaskCommit, TaskFailLoad,
                     TaskFailCommit, TaskReturn
<1>3. CASE Finalize(w)
  BY <1>3, Moves DEF Finalize, FinalizeBegin, FinalizeCancelled, FinalizeCommit,
                     RecoverCommittedJob, FinalizeFailCommit
<1>4. CASE TaskRaises(w) \/ FinalizeRaises(w)
  BY <1>4, Moves DEF TaskRaises, FinalizeRaises
<1> QED
  BY <1>1, <1>2, <1>3, <1>4, OnlyOwnSteps, Takes, GoesIdle

LEMMA LeavesSettledStep ==
  ASSUME FanoutInv, LeavesSettled, [Next]_vars
  PROVE  LeavesSettled'
<1> USE DEF FanoutInv
<1>1. ASSUME NEW w \in Workers, worker'[w].pc = "publish"
      PROVE  Tasks' # {}
  BY <1>1, EntersPublish, TasksConstant DEF LeavesSettled, At
<1>2. ASSUME NEW w \in Workers, worker'[w].pc = "preparing", worker'[w].jobSeen # "queued"
      PROVE  job' # "queued"
  <2>1. CASE worker'[w] = worker[w]
    BY <1>2, <2>1, JobNeverRequeued DEF LeavesSettled, FirstDelivery, At
  <2>2. CASE worker'[w].jobSeen = job
    BY <1>2, <2>2, JobNeverRequeued
  <2> QED
    BY <1>2, <2>1, <2>2, EntersPreparing
<1>3. ASSUME NEW w \in Workers, worker'[w].pc = "failing", worker'[w].jobSeen = "failed"
      PROVE  Terminal(job')
  <2>1. CASE worker'[w] = worker[w]
    <3>1. At(w, "failing") /\ Terminal(job)
      BY <1>3, <2>1 DEF LeavesSettled, At
    <3>2. ~Unprepared
      BY <3>1 DEF Unprepared, At
    <3>3. ~ \E v \in Workers : PrepareCommit(v) /\ FirstDelivery(v)
      BY <3>2 DEF ResetOnlyUnprepared, MayReset, PrepareCommit
    <3> QED
      BY <3>1, <3>3, JobStaysSettled
  <2>2. CASE worker'[w].jobSeen = job /\ UNCHANGED job
    BY <1>3, <2>2 DEF Terminal
  <2> QED
    BY <1>3, <2>1, <2>2, EntersLoaded DEF WritesWhatItLoaded
<1> QED
  BY <1>1, <1>2, <1>3 DEF LeavesSettled, FirstDelivery, At

-----------------------------------------------------------------------------
(* The results come in the order of the batches                            *)

(* A worker that works on a task knows its chain and its task. *)
LEMMA TaskAtWork ==
  ASSUME TypeOK, MessageOfPC, NEW w \in Workers, At(w, "return")
  PROVE  /\ worker[w].msg.chain \in Chains /\ worker[w].msg.task \in Tasks
         /\ worker[w].msg = TaskMessage(worker[w].msg.chain, worker[w].msg.task)
         /\ worker[w].msg \in InFlight
<1>1. worker[w].msg \in Messages /\ worker[w].msg.kind = "task" /\ worker[w].msg \in InFlight
  BY DEF MessageOfPC, InFlight, At
<1>2. PICK c \in Chains, t \in TaskIds : worker[w].msg = TaskMessage(c, t)
  BY <1>1 DEF Messages, RunMessage, TaskMessages, FinalizeMessages, FinalizeMessage
<1>3. worker[w].msg.chain = c /\ worker[w].msg.task = t
  BY <1>2 DEF TaskMessage
<1> QED
  BY <1>1, <1>2, <1>3 DEF MessageOfPC

(* Only the return of a task adds a result to a chord, and just its own. *)
LEMMA ReturnsStep ==
  ASSUME TypeOK, MessageOfPC, [Next]_vars, NEW c \in Chains
  PROVE  /\ \/ returned'[c] = returned[c]
            \/ \E w \in Workers : TaskReturn(w) /\ worker[w].msg.chain = c
         /\ \A w \in Workers : TaskReturn(w) /\ worker[w].msg.chain = c =>
              returned'[c] = returned[c] \cup {worker[w].msg.task}
<1>1. ASSUME NEW w \in Workers, TaskReturn(w)
      PROVE  returned'[c] = IF worker[w].msg.chain = c
                              THEN returned[c] \cup {worker[w].msg.task} ELSE returned[c]
  BY <1>1 DEF TaskReturn, TypeOK
<1>2. UNCHANGED returned \/ \E w \in Workers : TaskReturn(w)
  BY DEF Next, vars, broker, Create, PublishRun, PublishRunRaises, DispatchFailureLoad,
         DispatchFailureCommit, Cancel, CancelRead, CancelLoadTasks, CancelCommit, WorkerStep,
         TakeMessage, Prepare, PrepareBegin, PrepareCancelled, PrepareCommit, PublishChain,
         RunTask, TaskDeduplicated, TaskCancelled, TaskBegin, TaskCommit, TaskFailLoad,
         TaskFailCommit, Finalize, FinalizeBegin, FinalizeCancelled, FinalizeCommit,
         RecoverCommittedJob, FinalizeFailCommit, Ack, Fault, TaskRaises, FinalizeRaises,
         UnhandledRaise, Crash, Redeliver
<1> QED
  BY <1>1, <1>2

(* The messages a chord releases are its chain's: the next batch, or the   *)
(* reducer.                                                                *)
LEMMA Releases ==
  ASSUME NEW c, NEW k, NEW m \in NextStep(c, k)
  PROVE  m.chain = c /\ (m.kind = "task" => m.task \in Tasks /\ Batch(m.task) = k + 1)
BY DEF NextStep, BatchMessages, TaskMessage, FinalizeMessage

LEMMA ReturnedStep ==
  ASSUME FanoutInv, ReturnedInOrder, [Next]_vars
  PROVE  ReturnedInOrder'
<1> USE DEF FanoutInv
<1>1. Tasks' = Tasks /\ Tasks \subseteq Nat \ {0} /\ nchains \in Nat
  BY TasksConstant, TasksInterval DEF TypeOK
<1>2. ASSUME NEW c \in Chains, NEW t \in Tasks, NEW u \in Tasks, Batch(u) < Batch(t),
             TaskMessage(c, t) \in InFlight' \/ t \in returned'[c]
      PROVE  u \in returned'[c]
  <2>1. returned[c] \subseteq returned'[c]
    BY ReturnsStep
  <2>2. CASE TaskMessage(c, t) \in InFlight \/ t \in returned[c]
    BY <1>2, <2>1, <2>2 DEF ReturnedInOrder
  <2>3. ASSUME t \in returned'[c] \ returned[c]
        PROVE  TaskMessage(c, t) \in InFlight
    <3>1. PICK w \in Workers : TaskReturn(w) /\ worker[w].msg.chain = c
      BY <2>3, ReturnsStep
    <3>2. worker[w].msg.task = t
      BY <2>3, <3>1, ReturnsStep
    <3> QED
      BY <3>1, <3>2, TaskAtWork DEF TaskReturn
  <2>4. CASE TaskMessage(c, t) \in InFlight' \ InFlight
    <3>1. TaskMessage(c, t).kind = "task" /\ TaskMessage(c, t).chain = c /\ TaskMessage(c, t).task = t
      BY DEF TaskMessage
    <3>2. TaskMessage(c, t) \notin {NoMessage, RunMessage}
      BY <3>1 DEF NoMessage, RunMessage
    <3>3. TaskMessage(c, t) \notin BatchMessages(nchains + 1, 1)
      <4>1. Batch(u) \in Nat \ {0} /\ Batch(t) # 1
        BY <1>1, <1>2, BatchIsPositive
      <4> QED
        BY <4>1 DEF BatchMessages, TaskMessage
    <3>4. PICK w \in Workers :
            /\ TaskReturn(w)
            /\ AllReturned(Batch(worker[w].msg.task),
                           returned[worker[w].msg.chain] \cup {worker[w].msg.task})
            /\ TaskMessage(c, t) \in NextStep(worker[w].msg.chain, Batch(worker[w].msg.task))
      BY <2>4, <3>2, <3>3, InFlightStep
    <3> DEFINE v == worker[w].msg.task
    <3>5. worker[w].msg.chain = c /\ Batch(t) = Batch(v) + 1
      BY <3>1, <3>4, Releases
    <3>6. v \in Tasks /\ TaskMessage(c, v) \in InFlight
      BY <3>4, <3>5, TaskAtWork DEF TaskReturn
    <3>7. returned'[c] = returned[c] \cup {v}
      BY <3>4, <3>5, ReturnsStep
    <3>8. Batch(u) \in Nat /\ Batch(v) \in Nat
      BY <1>1, <3>6, BatchIsPositive
    <3>9. CASE Batch(u) = Batch(v)
      BY <3>4, <3>5, <3>7, <3>9 DEF AllReturned
    <3>10. CASE Batch(u) < Batch(v)
      BY <3>6, <3>7, <3>10 DEF ReturnedInOrder
    <3> QED
      BY <1>2, <3>5, <3>8, <3>9, <3>10
  <2> QED
    BY <1>2, <2>2, <2>3, <2>4
<1>3. ASSUME NEW c \in Chains, nchains' < c
      PROVE  returned'[c] = {} /\ \A m \in InFlight' : m.chain # c
  <2>1. /\ nchains < c /\ returned[c] = {} /\ \A m \in InFlight : m.chain # c
        /\ \A w \in Workers : PublishChain(w) => nchains + 1 # c
    BY <1>1, <1>3, ChainsGrow DEF ReturnedInOrder, Chains, PublishChain
  <2>2. ASSUME NEW w \in Workers, TaskReturn(w)
        PROVE  worker[w].msg.chain # c
    BY <2>1, <2>2, TaskAtWork DEF TaskReturn
  <2>3. returned'[c] = {}
    BY <2>1, <2>2, ReturnsStep
  <2>4. ASSUME NEW m \in InFlight'
        PROVE  m.chain # c
    <3>1. NoMessage.chain # c /\ RunMessage.chain # c
      BY DEF NoMessage, RunMessage, Chains
    <3>2. m \in BatchMessages(nchains + 1, 1) => m.chain = nchains + 1
      BY DEF BatchMessages, TaskMessage
    <3>3. ASSUME NEW w \in Workers, TaskReturn(w),
                 m \in NextStep(worker[w].msg.chain, Batch(worker[w].msg.task))
          PROVE  m.chain # c
      BY <2>2, <3>3, Releases
    <3> QED
      BY <2>1, <2>4, <3>1, <3>2, <3>3, InFlightStep
  <2> QED
    BY <2>3, <2>4
<1> QED
  BY <1>1, <1>2, <1>3 DEF ReturnedInOrder, TaskMessage

-----------------------------------------------------------------------------
(* A live job is under way                                                 *)

(* Exceptions that left a handler are not forgotten. *)
LEMMA UnhandledStays ==
  ASSUME TypeOK, [Next]_vars, faults'.unhandled = 0
  PROVE  faults.unhandled = 0
<1>1. faults \in [{"crash", "redeliver", "raise", "unhandled"} -> Nat]
  BY DEF TypeOK
<1>2. ASSUME Count("unhandled")
      PROVE  FALSE
  BY <1>1, <1>2 DEF Count
<1>3. ASSUME NEW kind \in {"crash", "redeliver", "raise"}, Count(kind)
      PROVE  faults.unhandled = 0
  BY <1>1, <1>3 DEF Count
<1> QED
  BY <1>2, <1>3
  DEF Next, vars, broker, Create, PublishRun, PublishRunRaises, DispatchFailureLoad,
      DispatchFailureCommit, Cancel, CancelRead, CancelLoadTasks, CancelCommit, WorkerStep,
      TakeMessage, Prepare, PrepareBegin, PrepareCancelled, PrepareCommit, PublishChain, RunTask,
      TaskDeduplicated, TaskCancelled, TaskBegin, TaskCommit, TaskFailLoad, TaskFailCommit,
      TaskReturn, Finalize, FinalizeBegin, FinalizeCancelled, FinalizeCommit,
      RecoverCommittedJob, FinalizeFailCommit, Ack, Fault, TaskRaises, FinalizeRaises,
      UnhandledRaise, Crash, Redeliver

(* A request that leaves its dispatch published the run or failed the job. *)
LEMMA DispatchEnds ==
  ASSUME TypeOK, [Next]_vars, create.pc # "done", create'.pc = "done"
  PROVE  RunMessage \in ready' \/ Terminal(job')
<1>1. CASE Create \/ PublishRunRaises
  BY <1>1 DEF TypeOK, Create, PublishRun, PublishRunRaises, DispatchFailureLoad,
              DispatchFailureCommit, Terminal
<1>2. UNCHANGED create \/ Create \/ PublishRunRaises
  BY DEF Next, vars, Cancel, CancelRead, CancelLoadTasks, CancelCommit, WorkerStep, TakeMessage,
         Prepare, PrepareBegin, PrepareCancelled, PrepareCommit, PublishChain, RunTask,
         TaskDeduplicated, TaskCancelled, TaskBegin, TaskCommit, TaskFailLoad, TaskFailCommit,
         TaskReturn, Finalize, FinalizeBegin, FinalizeCancelled, FinalizeCommit,
         RecoverCommittedJob, FinalizeFailCommit, Ack, Fault, TaskRaises, FinalizeRaises,
         UnhandledRaise, Crash, Redeliver
<1> QED
  BY <1>1, <1>2

(* What a live job depends on is still to be handled after a step, but for *)
(* the result of a task that reaches its chord in the step.                *)
LEMMA ChainsKept ==
  ASSUME FanoutInv, LeavesSettled, [Next]_vars, ~Terminal(job'), faults'.unhandled = 0,
         NEW c \in Chains
  PROVE  /\ ToHandle(FinalizeMessage(c)) => ToHandle(FinalizeMessage(c))'
         /\ \A u \in Tasks \ returned'[c] :
              ToHandle(TaskMessage(c, u)) => ToHandle(TaskMessage(c, u))'
<1> USE DEF FanoutInv
<1>1. ASSUME NEW w \in Workers, PublishChain(w)
      PROVE  worker[w].msg = RunMessage
  BY <1>1 DEF PublishChain, MessageOfPC, At
<1>2. ASSUME NEW w \in Workers, TaskReturn(w)
      PROVE  worker[w].msg.kind = "task"
  BY <1>2 DEF TaskReturn, MessageOfPC, At
<1>3. ASSUME ToHandle(FinalizeMessage(c))
      PROVE  ToHandle(FinalizeMessage(c))'
  <2>1. FinalizeMessage(c).kind = "finalize" /\ RunMessage.kind = "run"
    BY DEF FinalizeMessage, RunMessage
  <2> QED
    BY <1>1, <1>2, <1>3, <2>1, HandledStep
<1>4. ASSUME NEW u \in Tasks, u \notin returned'[c], ToHandle(TaskMessage(c, u))
      PROVE  ToHandle(TaskMessage(c, u))'
  <2>1. /\ TaskMessage(c, u).kind = "task" /\ TaskMessage(c, u).chain = c
        /\ TaskMessage(c, u).task = u /\ RunMessage.kind = "run"
    BY DEF TaskMessage, RunMessage
  <2>2. ASSUME NEW w \in Workers, TaskReturn(w), worker[w].msg = TaskMessage(c, u)
        PROVE  FALSE
    BY <1>4, <2>1, <2>2, ReturnsStep
  <2> QED
    BY <1>1, <1>4, <2>1, <2>2, HandledStep
<1> QED
  BY <1>3, <1>4

(* A chain that goes on keeps going on: the last result of a batch is      *)
(* followed by the next batch or by the reducer.                           *)
LEMMA ChainStepsOn ==
  ASSUME FanoutInv, LeavesSettled, ReturnedInOrder, [Next]_vars, ~Terminal(job'),
         faults'.unhandled = 0, NEW c \in Chains, ChainGoesOn(c)
  PROVE  ChainGoesOn(c)'
<1> USE DEF FanoutInv
<1>1. Tasks' = Tasks /\ Tasks \subseteq Nat \ {0}
  BY TasksConstant, TasksInterval
<1>2. SUFFICES \/ ToHandle(FinalizeMessage(c))'
               \/ \E t \in Tasks \ returned'[c] : \A u \in Tasks \ returned'[c] :
                    Batch(u) = Batch(t) => ToHandle(TaskMessage(c, u))'
  BY <1>1 DEF ChainGoesOn, FinalizeMessage, TaskMessage, Batch
<1>3. CASE ToHandle(FinalizeMessage(c))
  BY <1>3, ChainsKept
<1>4. ASSUME NEW t \in Tasks \ returned[c],
             \A u \in Tasks \ returned[c] : Batch(u) = Batch(t) => ToHandle(TaskMessage(c, u))
      PROVE  \/ ToHandle(FinalizeMessage(c))'
             \/ \E v \in Tasks \ returned'[c] : \A u \in Tasks \ returned'[c] :
                  Batch(u) = Batch(v) => ToHandle(TaskMessage(c, u))'
  <2>1. returned[c] \subseteq returned'[c]
    BY ReturnsStep
  <2>2. \A u \in Tasks \ returned'[c] : Batch(u) = Batch(t) => ToHandle(TaskMessage(c, u))'
    BY <1>4, <2>1, ChainsKept
  <2>3. CASE \E v \in Tasks \ returned'[c] : Batch(v) = Batch(t)
    <3>1. PICK v \in Tasks \ returned'[c] : Batch(v) = Batch(t)
      BY <2>3
    <3>2. \A u \in Tasks \ returned'[c] : Batch(u) = Batch(v) => ToHandle(TaskMessage(c, u))'
      BY <2>2, <3>1
    <3> QED
      BY <3>2
  <2>4. CASE ~ \E v \in Tasks \ returned'[c] : Batch(v) = Batch(t)
    <3>1. t \in returned'[c] \ returned[c]
      BY <1>4, <2>4
    <3>2. PICK w \in Workers : TaskReturn(w) /\ worker[w].msg.chain = c
      BY <3>1, ReturnsStep
    <3>3. returned'[c] = returned[c] \cup {worker[w].msg.task} /\ worker[w].msg.task = t
      BY <3>1, <3>2, ReturnsStep
    <3>4. AllReturned(Batch(t), returned[c] \cup {t})
      BY <2>4, <3>3 DEF AllReturned
    <3>5. NextStep(c, Batch(t)) \subseteq ready'
      BY <1>4, <3>2, <3>3, <3>4 DEF TaskReturn
    <3>6. CASE ~ \E v \in Tasks : Batch(v) = Batch(t) + 1
      BY <3>5, <3>6 DEF NextStep, ToHandle
    <3>7. ASSUME NEW v \in Tasks, Batch(v) = Batch(t) + 1
          PROVE  \E x \in Tasks \ returned'[c] : \A u \in Tasks \ returned'[c] :
                   Batch(u) = Batch(x) => ToHandle(TaskMessage(c, u))'
      <4>1. Batch(t) \in Nat
        BY <1>1, BatchIsPositive
      <4>2. v \notin returned[c]
        BY <1>4, <3>7, <4>1 DEF ReturnedInOrder
      <4>3. v \notin returned'[c]
        BY <3>3, <3>7, <4>1, <4>2
      <4>4. \A u \in Tasks : Batch(u) = Batch(v) => TaskMessage(c, u) \in ready'
        BY <3>5, <3>7 DEF NextStep, BatchMessages
      <4>5. \A u \in Tasks : Batch(u) = Batch(v) => ToHandle(TaskMessage(c, u))'
        BY <4>4 DEF ToHandle
      <4> QED
        BY <4>3, <4>5
    <3> QED
      BY <3>6, <3>7
  <2> QED
    BY <2>3, <2>4
<1> QED
  BY <1>3, <1>4 DEF ChainGoesOn

(* A new chain starts with its first batch. *)
LEMMA ChainStarts ==
  ASSUME FanoutInv, LeavesSettled, ReturnedInOrder, [Next]_vars, NEW w \in Workers,
         PublishChain(w), NEW c \in Chains, c = nchains + 1
  PROVE  ChainGoesOn(c)'
<1>1. PICK n \in Nat : Tasks = 1..n
  BY TasksInterval DEF FanoutInv
<1>2. Tasks # {}
  BY DEF LeavesSettled, PublishChain
<1>3. 1 \in Tasks /\ Batch(1) = 1
  BY <1>1, <1>2, FanoutAssumption DEF Batch
<1>4. nchains \in Nat /\ Tasks' = Tasks /\ returned' = returned
  BY TasksConstant DEF FanoutInv, TypeOK, PublishChain
<1>5. 1 \in Tasks' \ returned'[c]
  BY <1>3, <1>4 DEF ReturnedInOrder
<1>6. \A u \in Tasks' \ returned'[c] : Batch(u) = Batch(1) => TaskMessage(c, u) \in ready'
  BY <1>3, <1>4 DEF PublishChain, BatchMessages
<1> QED
  BY <1>5, <1>6 DEF ChainGoesOn, ToHandle

LEMMA LiveStep ==
  ASSUME FanoutInv, LeavesSettled, ReturnedInOrder, LiveJobIsUnderWay, [Next]_vars
  PROVE  LiveJobIsUnderWay'
<1> USE DEF FanoutInv
<1> SUFFICES ASSUME ~Terminal(job'), faults'.unhandled = 0
             PROVE  /\ nchains' = 0 => create'.pc # "done" \/ ToHandle(RunMessage)'
                    /\ \A c \in 1..nchains' : ChainGoesOn(c)'
  BY DEF LiveJobIsUnderWay
<1>1. nchains \in Nat /\ nchains' \in 0..MaxChains /\ MaxChains \in Nat
  BY TypeStep, FanoutAssumption DEF TypeOK
<1>2. CASE \E w \in Workers : PrepareCommit(w) /\ FirstDelivery(w)
  <2>1. PICK w \in Workers : PrepareCommit(w) /\ FirstDelivery(w)
    BY <1>2
  <2>2. nchains' = 0
    BY <2>1 DEF ResetOnlyUnprepared, MayReset, Unprepared, PrepareCommit, broker
  <2>3. Goto(w, "publish") \/ Goto(w, "taken_finalize")
    BY <2>1 DEF PrepareCommit
  <2>4. worker'[w].msg = RunMessage /\ worker'[w].pc \in {"publish", "taken_finalize"}
    BY <2>1, <2>3, Moves DEF PrepareCommit, MessageOfPC, At
  <2> QED
    BY <2>2, <2>4 DEF ToHandle
<1>3. CASE ~ \E w \in Workers : PrepareCommit(w) /\ FirstDelivery(w)
  <2>1. ~Terminal(job) /\ faults.unhandled = 0
    BY <1>3, JobStaysSettled, UnhandledStays
  <2>2. ASSUME nchains' = 0, create'.pc = "done"
        PROVE  ToHandle(RunMessage)'
    <3>1. nchains = 0 /\ \A w \in Workers : ~PublishChain(w)
      BY <1>1, <2>2, ChainsGrow DEF PublishChain
    <3>2. CASE create.pc # "done"
      BY <2>2, <3>2, DispatchEnds DEF ToHandle
    <3>3. CASE ToHandle(RunMessage)
      <4>1. \A w \in Workers : TaskReturn(w) => worker[w].msg # RunMessage
        BY DEF TaskReturn, MessageOfPC, RunMessage, At
      <4> QED
        BY <3>1, <3>3, <4>1, HandledStep
    <3> QED
      BY <2>1, <3>1, <3>2, <3>3 DEF LiveJobIsUnderWay
  <2>3. ASSUME NEW c \in 1..nchains'
        PROVE  ChainGoesOn(c)'
    <3>1. c \in Chains
      BY <1>1, <2>3 DEF Chains
    <3>2. CASE c \in 1..nchains
      BY <2>1, <3>1, <3>2, ChainStepsOn DEF LiveJobIsUnderWay
    <3>3. CASE c \notin 1..nchains
      <4>1. c = nchains + 1 /\ \E w \in Workers : PublishChain(w)
        BY <1>1, <2>3, <3>3, ChainsGrow
      <4> QED
        BY <3>1, <4>1, ChainStarts
    <3> QED
      BY <3>2, <3>3
  <2> QED
    BY <2>2, <2>3
<1> QED
  BY <1>2, <1>3

(* At the start nothing was published, and nothing is to be handled.       *)
LEMMA InitProgress ==
  ASSUME Init
  PROVE  ProgressInv
<1>1. \A w \in Workers : worker[w].pc = "idle" /\ worker[w].msg = NoMessage
  BY DEF Init, IdleWorker
<1>2. InFlight \subseteq {NoMessage}
  BY <1>1 DEF Init, InFlight
<1>3. ReturnedInOrder
  <2>1. \A c \in Chains : NoMessage.chain # c
    BY DEF NoMessage, Chains
  <2>2. \A c \in Chains, t \in Tasks : TaskMessage(c, t) # NoMessage
    BY <2>1 DEF TaskMessage
  <2> QED
    BY <1>2, <2>1, <2>2 DEF Init, ReturnedInOrder
<1>4. LeavesSettled
  BY <1>1 DEF LeavesSettled, At
<1>5. LiveJobIsUnderWay
  <2>1. nchains = 0 /\ create.pc # "done"
    BY DEF Init
  <2> QED
    BY <2>1 DEF LiveJobIsUnderWay
<1> QED
  BY <1>3, <1>4, <1>5, InitSettlement DEF ProgressInv

(* The progress invariant is inductive, for every value of the constants. *)
THEOREM ProgressInvariant == Spec => []ProgressInv
<1>1. Init => ProgressInv
  BY InitProgress
<1>2. ProgressInv /\ [Next]_vars => ProgressInv'
  <2> SUFFICES ASSUME ProgressInv, [Next]_vars PROVE ProgressInv'
    OBVIOUS
  <2>1. FanoutInv /\ SettlementInv'
    BY SettlementStep DEF ProgressInv, SettlementInv
  <2> QED
    BY <2>1, ReturnedStep, LeavesSettledStep, LiveStep DEF ProgressInv
<1> QED
  BY <1>1, <1>2, PTL DEF Spec

(* No message is lost on which a live job depends: its dispatch or its     *)
(* preparation is under way, or each of its chains has its reducer or a    *)
(* whole batch of results still to come.                                   *)
THEOREM LiveJobsAreUnderWay == Spec => []LiveJobIsUnderWay
<1>1. ProgressInv => LiveJobIsUnderWay
  BY DEF ProgressInv
<1> QED
  BY <1>1, ProgressInvariant, PTL

=============================================================================
