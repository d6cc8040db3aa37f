------------------------ MODULE LifecycleProgress_proofs ------------------------
(***************************************************************************)
(* No live job of ExecutionLifecycle is left to itself: the safety half of *)
(* the liveness property JobsSettle, for any number of workers, tasks,     *)
(* jobs, requests and faults.  The argument follows each job to the end of *)
(* the transaction that works on it, which then settles it, or has found   *)
(* it settled, or hands its message back to the broker.                    *)
(***************************************************************************)
EXTENDS ExecutionLifecycle_proofs

-----------------------------------------------------------------------------
(* What the steps of a worker leave in its record                          *)

LEMMA Loads ==
  ASSUME worker \in [Workers -> WorkerState], NEW w \in Workers, NEW pc, NEW S, LoadAt(w, pc, S)
  PROVE  worker'[w].pc = pc /\ worker'[w].job = worker[w].job
<1> DEFINE q == {t \in S : task[t] = "queued"}
           a == [t \in TaskIds |-> IF t \in S THEN attempts[t] ELSE {}]
           n == [worker[w] EXCEPT !.pc = pc, !.execSeen = exec, !.jobSeen = job[worker[w].job],
                                  !.tasks = S, !.queued = q, !.attempts = a]
<1>1. worker' = [worker EXCEPT ![w] = n]
  BY DEF LoadAt
<1>2. worker'[w] = n
  BY <1>1
<1> HIDE DEF q, a
<1>3. n.pc = pc /\ n.job = worker[w].job
  BY DEF WorkerState
<1> QED
  BY <1>2, <1>3

(* A compensation has loaded the status its job has, unless it found the   *)
(* work committed.                                                         *)
LEMMA Recovers ==
  ASSUME worker \in [Workers -> WorkerState], NEW w \in Workers, Recover(w)
  PROVE  \/ Done(w) /\ job[worker[w].job] = "completed"
         \/ /\ worker'[w].pc \in {"failing_job", "failing"} /\ worker'[w].job = worker[w].job
            /\ worker'[w].jobSeen = job[worker[w].job]
<1> SUFFICES ASSUME job[worker[w].job] # "completed"
             PROVE  /\ worker'[w].pc \in {"failing_job", "failing"}
                    /\ worker'[w].job = worker[w].job /\ worker'[w].jobSeen = job[worker[w].job]
  BY DEF Recover
<1> DEFINE pc == IF FailsJobOnly(w) THEN "failing_job" ELSE "failing"
           n  == [worker[w] EXCEPT !.pc = pc, !.jobSeen = job[worker[w].job],
                                   !.execSeen.status = exec.status, !.tasks = Nonterminal]
<1>1. worker' = [worker EXCEPT ![w] = n]
  BY DEF Recover
<1>2. worker'[w] = n
  BY <1>1
<1>3. n.pc \in {"failing_job", "failing"} /\ n.job = worker[w].job /\ n.jobSeen = job[worker[w].job]
  BY DEF WorkerState
<1> QED
  BY <1>2, <1>3

LEMMA TakesOrDrops ==
  ASSUME worker \in [Workers -> WorkerState], NEW w \in Workers, TakeMessage(w) \/ Ack(w) \/ Crash(w)
  PROVE  /\ worker'[w].pc \in {"taken", "idle"}
         /\ TakeMessage(w) => worker'[w].pc = "taken" /\ ready' = ready \ {worker'[w].job}
<1>1. worker' = [worker EXCEPT ![w] = IdleWorker] => worker'[w].pc = "idle"
  BY IdleIsTyped DEF IdleFacts
<1>2. ASSUME NEW j, ready' = ready \ {j},
             worker' = [worker EXCEPT ![w] = [IdleWorker EXCEPT !.pc = "taken", !.job = j]]
      PROVE  worker'[w].pc = "taken" /\ ready' = ready \ {worker'[w].job}
  <2>1. worker'[w] = [IdleWorker EXCEPT !.pc = "taken", !.job = j]
    BY <1>2
  <2>2. worker'[w].pc = "taken" /\ worker'[w].job = j
    BY <2>1, IdleIsTyped DEF IdleFacts, WorkerState
  <2> QED
    BY <1>2, <2>2
<1>3. CASE TakeMessage(w)
  BY <1>2, <1>3 DEF TakeMessage
<1>4. ~(TakeMessage(w) /\ worker'[w].pc = "idle")
  BY <1>2 DEF TakeMessage
<1> QED
  BY <1>1, <1>3, <1>4 DEF Ack, Crash

-----------------------------------------------------------------------------
(* The gate's program points belong to the gate's job                      *)

LEMMA EntersGate ==
  ASSUME TypedJobs, NEW w \in Workers, WorkerStep(w) \/ Fault(w),
         worker'[w].pc \in {"load_gate", "gating"}
  PROVE  \/ worker'[w] = worker[w]
         \/ LoadGate(w) /\ worker'[w].job = GateJob
         \/ GateBegin(w) /\ worker'[w].job = worker[w].job
<1>1. worker \in [Workers -> WorkerState]
  BY DEF TypedJobs, TypeOK
<1>2. ASSUME NEW pc \in WorkerPC \ {"load_gate", "gating"}
      PROVE  ~Forget(w, pc) /\ ~Goto(w, pc)
  BY <1>1, <1>2, ForgetWorker, GotoWorker
<1>3. ASSUME NEW pc, NEW S, LoadAt(w, pc, S)
      PROVE  pc \in {"load_gate", "gating"}
  BY <1>1, <1>3, Loads
<1>4. ~TakeMessage(w) /\ ~Ack(w) /\ ~Crash(w)
  BY <1>1, TakesOrDrops
<1>5. ~ResetFirst(w) /\ ~Begin(w)
  BY <1>1, BeginWorker DEF TypedJobs, TypeOK
<1>6. ~Recover(w)
  BY <1>1, <1>2, Recovers DEF Done, WorkerPC
<1>7. ~LoadDeduplicated(w) /\ ~LoadRun(w) /\ ~RunCancelled(w) /\ ~LoadRetry(w) /\ ~RetryUnmatched(w)
      /\ ~LoadHeal(w)
  BY <1>2, <1>3 DEF LoadDeduplicated, LoadRun, RunCancelled, LoadRetry, RetryUnmatched, LoadHeal,
                    Done, WorkerPC
<1>8. ~Commit(w) /\ ~FailJobCommit(w) /\ ~FailCommit(w) /\ ~Heal(w) /\ ~GateCommit(w)
  BY <1>2 DEF Commit, FailJobCommit, FailCommit, Heal, HealBegin, HealCommit, HealFailCommit,
              GateCommit, Done, WorkerPC
<1>9. ~Raise(w) /\ ~GuardrailBlock(w) /\ ~HealBlock(w)
  BY <1>2 DEF Raise, GuardrailBlock, HealBlock, WorkerPC
<1>10. LoadGate(w) => worker'[w].job = GateJob
  BY <1>1, Loads DEF LoadGate
<1>11. GateBegin(w) => worker'[w].job = worker[w].job
  BY <1>1, GateWorker
<1> QED
  BY <1>4, <1>5, <1>6, <1>7, <1>8, <1>9, <1>10, <1>11
  DEF WorkerStep, Load, RunTests, Gate, Fault, Redeliver

LEMMA StepKeepsGateOfPC ==
  ASSUME TypedJobs, GateOfPC, [Next]_vars
  PROVE  GateOfPC'
<1>1. CASE worker' = worker
  BY <1>1 DEF GateOfPC
<1>2. ASSUME NEW w \in Workers, WorkerStep(w) \/ Fault(w)
      PROVE  GateOfPC'
  <2>1. \A v \in Workers : v # w => worker'[v] = worker[v]
    BY <1>2, WorkerSteps
  <2>2. worker'[w].pc \in {"load_gate", "gating"} => worker'[w].job = GateJob
    BY <1>2, EntersGate DEF GateOfPC, GateBegin, At
  <2> QED
    BY <2>1, <2>2 DEF GateOfPC
<1> QED
  BY <1>1, <1>2, OthersMoveNoWorker DEF Next

-----------------------------------------------------------------------------
(* A worker settles its job, goes on, or gives its message back            *)

(* What the step of a worker does to its own job and to the others.        *)
Answered(w) ==
  \A j \in Jobs : worker[w].job = j =>
    \/ Settles(w, j)'
    \/ j \in ready'
    \/ ~Live(j)'
    \/ j \in MayMatchNothing
    \/ ~Settles(w, j) /\ job'[j] = job[j]

OthersKept(w) ==
  /\ \A i \in Jobs : i # worker[w].job => job'[i] = job[i]
  /\ ready \subseteq ready'
  /\ UNCHANGED api

LEMMA GoesOn ==
  ASSUME NEW w \in Workers, worker'[w].job = worker[w].job,
         worker'[w].pc \notin {"idle", "ack", "failing", "failing_job"}
  PROVE  Answered(w)
BY DEF Answered, Settles

LEMMA SettlesItsJob ==
  ASSUME TypedJobs, NEW w \in Workers, worker[w].job \in Jobs,
         NEW status \in {"completed", "failed", "cancelled"},
         job' = [job EXCEPT ![worker[w].job] = status]
  PROVE  Answered(w) /\ \A i \in Jobs : i # worker[w].job => job'[i] = job[i]
<1>1. job'[worker[w].job] = status /\ \A i \in Jobs : i # worker[w].job => job'[i] = job[i]
  BY DEF TypedJobs, TypeOK
<1>2. ~(job'[worker[w].job] \in {"queued", "running"})
  BY <1>1
<1> QED
  BY <1>1, <1>2 DEF Answered, Live

(* A compensation that writes nothing was not going to settle the job.     *)
LEMMA FailsItsJob ==
  ASSUME TypedJobs, NEW w \in Workers, worker[w].job \in Jobs,
         worker[w].pc \in {"failing", "failing_job"}, FailJob(w)
  PROVE  Answered(w) /\ \A i \in Jobs : i # worker[w].job => job'[i] = job[i]
<1>1. CASE worker[w].jobSeen = "failed"
  BY <1>1 DEF FailJob, Fail, Write, Answered, Settles, TypedJobs, TypeOK
<1>2. CASE worker[w].jobSeen # "failed"
  BY <1>2, SettlesItsJob DEF FailJob, Fail, Write
<1> QED
  BY <1>1, <1>2

LEMMA LoadsAnswer ==
  ASSUME TypedJobs, JobOfPC, NEW w \in Workers, Load(w)
  PROVE  Answered(w) /\ OthersKept(w)
<1>1. worker \in [Workers -> WorkerState] /\ ready \subseteq ready' /\ UNCHANGED api
  BY DEF TypedJobs, TypeOK, Load, LoadDeduplicated, LoadRun, RunCancelled, LoadRetry,
         RetryUnmatched, LoadHeal, LoadGate
<1>2. CASE LoadDeduplicated(w)
  BY <1>1, <1>2 DEF LoadDeduplicated, Answered, OthersKept, Live, rows
<1>3. CASE LoadRun(w) \/ LoadRetry(w) \/ LoadHeal(w) \/ LoadGate(w)
  <2>1. \E pc \in {"cancelled", "loaded", "load_heal", "load_gate"} : \E S : LoadAt(w, pc, S)
    <3>1. LoadRun(w) => LoadAt(w, "cancelled", TaskIds) \/ LoadAt(w, "loaded", TaskIds)
      BY DEF LoadRun
    <3> QED
      BY <1>3, <3>1 DEF LoadRetry, LoadHeal, LoadGate
  <2>2. worker'[w].job = worker[w].job /\ worker'[w].pc \in {"cancelled", "loaded", "load_heal", "load_gate"}
    BY <1>1, <2>1, Loads
  <2>3. UNCHANGED job
    BY <1>3 DEF LoadRun, LoadRetry, LoadHeal, LoadGate, rows
  <2> QED
    BY <1>1, <2>2, <2>3, GoesOn DEF OthersKept
<1>4. CASE RunCancelled(w)
  BY <1>1, <1>4, SettlesItsJob DEF RunCancelled, JobOfPC, OthersKept, Jobs, TestJobs
<1>5. CASE RetryUnmatched(w)
  <2>1. worker[w].job \in MayMatchNothing
    BY <1>5 DEF RetryUnmatched, TasksForRetryScope, MayMatchNothing
  <2> QED
    BY <1>1, <1>5, <2>1 DEF RetryUnmatched, Answered, OthersKept, rows
<1> QED
  BY <1>2, <1>3, <1>4, <1>5 DEF Load

LEMMA RunTestsAnswer ==
  ASSUME TypedJobs, NEW w \in Workers, RunTests(w)
  PROVE  Answered(w) /\ OthersKept(w)
<1>1. /\ worker \in [Workers -> WorkerState] /\ ready \subseteq ready' /\ UNCHANGED api
      /\ worker[w].job \in Jobs
  BY AtWork DEF TypedJobs, TypeOK, RunTests, ResetFirst, Begin, Commit, Recover,
                  FailJobCommit, FailCommit, At
<1>2. CASE ResetFirst(w) \/ Begin(w)
  <2>1. attempts \in [TaskIds -> SUBSET TestJobs]
    BY DEF TypedJobs, TypeOK
  <2> QED
    BY <1>1, <1>2, <2>1, BeginWorker, GoesOn DEF ResetFirst, Begin, OthersKept, rows
<1>3. CASE Commit(w)
  <2>1. JobStatusForExecution(exec'.status) \in {"completed", "failed", "cancelled"}
    BY DEF JobStatusForExecution
  <2> QED
    BY <1>1, <1>3, <2>1, SettlesItsJob DEF Commit, OthersKept
<1>4. CASE Recover(w)
  <2>1. UNCHANGED job
    BY <1>4 DEF Recover, rows
  <2>2. job[worker[w].job] \in {"completed", "failed"} => Answered(w)
    BY <2>1 DEF Answered, Live
  <2>3. CASE Done(w) /\ job[worker[w].job] = "completed"
    BY <1>1, <2>1, <2>2, <2>3 DEF OthersKept
  <2>4. ASSUME worker'[w].pc \in {"failing_job", "failing"}, worker'[w].job = worker[w].job,
               worker'[w].jobSeen = job[worker[w].job], job[worker[w].job] # "failed"
        PROVE  Answered(w)
    BY <2>4 DEF Answered, Settles
  <2> QED
    BY <1>1, <1>4, <2>1, <2>2, <2>3, <2>4, Recovers DEF OthersKept
<1>5. CASE FailJobCommit(w) \/ FailCommit(w)
  BY <1>1, <1>5, FailsItsJob DEF FailJobCommit, FailCommit, OthersKept, At
<1> QED
  BY <1>2, <1>3, <1>4, <1>5 DEF RunTests

LEMMA HealsAnswer ==
  ASSUME TypedJobs, NEW w \in Workers, Heal(w)
  PROVE  Answered(w) /\ OthersKept(w)
<1>1. /\ worker \in [Workers -> WorkerState] /\ ready \subseteq ready' /\ UNCHANGED api
      /\ worker[w].job \in Jobs
  BY AtWork DEF TypedJobs, TypeOK, Heal, HealBegin, HealCommit, HealFailCommit, At
<1>2. CASE HealBegin(w)
  BY <1>1, <1>2, GotoWorker, GoesOn DEF HealBegin, OthersKept, rows, WorkerPC
<1>3. CASE HealCommit(w)
  BY <1>1, <1>3, SettlesItsJob DEF HealCommit, OthersKept
<1>4. CASE HealFailCommit(w)
  BY <1>1, <1>4, FailsItsJob DEF HealFailCommit, OthersKept, At
<1> QED
  BY <1>2, <1>3, <1>4 DEF Heal

LEMMA GatesAnswer ==
  ASSUME TypedJobs, GateOfPC, NEW w \in Workers, Gate(w)
  PROVE  Answered(w) /\ OthersKept(w)
<1>1. /\ worker \in [Workers -> WorkerState] /\ ready \subseteq ready' /\ UNCHANGED api
      /\ worker[w].job \in Jobs
  BY AtWork DEF TypedJobs, TypeOK, Gate, GateBegin, GateCommit, At
<1>2. CASE GateBegin(w)
  <2>1. worker'[w].job = worker[w].job /\ worker'[w].pc = "gating"
    BY <1>1, <1>2, GateWorker
  <2> QED
    BY <1>1, <1>2, <2>1, GoesOn DEF GateBegin, OthersKept, rows
<1>3. CASE GateCommit(w)
  BY <1>1, <1>3, SettlesItsJob DEF GateCommit, GateOfPC, OthersKept, At
<1> QED
  BY <1>2, <1>3 DEF Gate

(* A guardrail block makes its job live again, and goes on to fail it.     *)
LEMMA FaultsAnswer ==
  ASSUME TypedJobs, NEW w \in Workers, Ack(w) \/ Fault(w)
  PROVE  Answered(w) /\ OthersKept(w)
<1>1. /\ worker \in [Workers -> WorkerState] /\ ready \subseteq ready' /\ UNCHANGED api
      /\ worker[w].job \in Jobs /\ ~At(w, "idle")
  BY AtWork DEF TypedJobs, TypeOK, Ack, Fault, Raise, HoldsJob, GuardrailBlock, HealBlock, Crash,
                  Redeliver, At
<1>2. CASE Ack(w)
  BY <1>1, <1>2 DEF Ack, Answered, Settles, OthersKept, rows, At
<1>3. CASE Raise(w) \/ GuardrailBlock(w) \/ HealBlock(w)
  <2>1. worker'[w].job = worker[w].job /\ worker'[w].pc = "rolled_back"
    BY <1>1, <1>3, ForgetWorker DEF Raise, GuardrailBlock, HealBlock, WorkerPC
  <2>2. \A i \in Jobs : i # worker[w].job => job'[i] = job[i]
    BY <1>3 DEF Raise, GuardrailBlock, HealBlock, JobRunning, rows, TypedJobs, TypeOK
  <2> QED
    BY <1>1, <2>1, <2>2, GoesOn DEF OthersKept
<1>4. CASE Crash(w) \/ Redeliver(w)
  BY <1>1, <1>4 DEF Crash, Redeliver, Unacked, Answered, OthersKept, rows
<1> QED
  BY <1>2, <1>3, <1>4 DEF Fault

(* So no step of a worker leaves a live job to itself.                     *)
LEMMA WorkerStepsAnswer ==
  ASSUME TypedJobs, JobOfPC, GateOfPC, NEW w \in Workers, WorkerStep(w) \/ Fault(w),
         NEW j \in Jobs \ MayMatchNothing, Live(j) => UnderWay(j), Live(j)'
  PROVE  UnderWay(j)'
<1>1. /\ worker \in [Workers -> WorkerState]
      /\ \A v \in Workers : v # w => worker'[v] = worker[v]
  BY WorkerSteps DEF TypedJobs, TypeOK
<1>2. CASE TakeMessage(w)
  <2>1. UnderWay(j) /\ UNCHANGED api
    BY <1>2 DEF TakeMessage, Live, rows
  <2>2. ~Settles(w, j)
    BY <1>2 DEF TakeMessage, Settles, At
  <2>3. worker'[w].pc = "taken" /\ ready' = ready \ {worker'[w].job}
    BY <1>1, <1>2, TakesOrDrops
  <2>4. j \in ready => j \in ready' \/ Settles(w, j)'
    BY <2>3 DEF Settles
  <2>5. \A v \in Workers : Settles(v, j) => Settles(v, j)'
    BY <1>1, <2>2 DEF Settles
  <2> QED
    BY <2>1, <2>4, <2>5 DEF UnderWay
<1>3. CASE ~TakeMessage(w)
  <2>1. Answered(w) /\ OthersKept(w)
    BY <1>3, LoadsAnswer, RunTestsAnswer, HealsAnswer, GatesAnswer, FaultsAnswer DEF WorkerStep
  <2>2. \A v \in Workers \ {w} : Settles(v, j) => Settles(v, j)'
    BY <1>1 DEF Settles
  <2>3. ASSUME job'[j] = job[j], ~Settles(w, j)
        PROVE  UnderWay(j)'
    <3>1. UnderWay(j)
      BY <2>3 DEF Live
    <3> QED
      BY <2>1, <2>2, <2>3, <3>1 DEF UnderWay, OthersKept
  <2>4. CASE worker[w].job # j
    BY <2>1, <2>3, <2>4 DEF OthersKept, Settles
  <2>5. CASE worker[w].job = j
    BY <2>1, <2>3, <2>5 DEF Answered, UnderWay
  <2> QED
    BY <2>4, <2>5
<1> QED
  BY <1>2, <1>3

(* Nor does a request, a dispatch, its failure, a cancel, or an update.    *)
LEMMA OthersAnswer ==
  ASSUME TypedJobs, NEW j \in Jobs, Live(j) => UnderWay(j), Live(j)',
         Request \/ (\E i \in Jobs : Dispatch(i) \/ PublishRaises(i))
           \/ (\E r \in Cancels : Cancel(r)) \/ (\E r \in Reviews : Update(r)) \/ UNCHANGED vars
  PROVE  UnderWay(j)'
<1>1. api \in [Jobs -> RequestState] /\ job \in [Jobs -> JobStatus \cup {"absent"}]
  BY DEF TypedJobs, TypeOK
<1>2. worker' = worker
  BY OthersMoveNoWorker
<1>3. ASSUME job'[j] = job[j], ready \subseteq ready', api'[j] = api[j]
      PROVE  UnderWay(j)'
  <2>1. UnderWay(j)
    BY <1>3 DEF Live
  <2> QED
    BY <1>2, <1>3, <2>1 DEF UnderWay, Settles
<1>4. ASSUME NEW i \in Jobs, api' = [api EXCEPT ![i].pc = "publish"], UNCHANGED ready,
             \A k \in Jobs : k # i => job'[k] = job[k]
      PROVE  UnderWay(j)'
  <2>1. CASE j = i
    <3>1. api'[i].pc = "publish"
      BY <1>1, <1>4 DEF RequestState
    <3> QED
      BY <2>1, <3>1 DEF UnderWay
  <2>2. CASE j # i
    BY <1>1, <1>3, <1>4, <2>2
  <2> QED
    BY <2>1, <2>2
<1>5. CASE Request
  <2>1. CASE \E i \in Jobs : RequestRetry(i) \/ RequestHeal(i)
    BY <1>1, <1>4, <2>1 DEF RequestRetry, RequestHeal
  <2>2. CASE RequestGate
    BY <1>1, <1>4, <2>2 DEF RequestGate, Jobs
  <2> QED
    BY <1>5, <2>1, <2>2 DEF Request
<1>6. ASSUME NEW i \in Jobs, Dispatch(i) \/ PublishRaises(i)
      PROVE  UnderWay(j)'
  <2>1. ready \subseteq ready' /\ \A k \in Jobs : k # i => api'[k] = api[k] /\ job'[k] = job[k]
    BY <1>1, <1>6 DEF Dispatch, Publish, PublishRaises, DispatchFailureLoad, DispatchFailureCommit,
                      rows
  <2>2. CASE j # i
    BY <1>3, <2>1, <2>2
  <2>3. ASSUME j = i PROVE UnderWay(j)'
    <3>1. Publish(i) => i \in ready'
      BY DEF Publish
    <3>2. PublishRaises(i) => api'[i].pc = "rolled_back"
      BY <1>1 DEF PublishRaises, RequestState
    <3>3. DispatchFailureLoad(i) => api'[i].pc = "failing" /\ api'[i].jobSeen # "failed"
      BY <1>1, <2>3 DEF DispatchFailureLoad, Live, rows
    <3>4. ASSUME DispatchFailureCommit(i) PROVE UnderWay(j)'
      <4>1. job'[i] = Fail(api[i].jobSeen, job[i]) /\ ready' = ready /\ api[i].pc = "failing"
        BY <1>1, <3>4 DEF DispatchFailureCommit
      <4>2. api[i].jobSeen = "failed" /\ job'[i] = job[i]
        BY <2>3, <4>1 DEF Fail, Write, Live
      <4> QED
        BY <1>2, <2>3, <4>1, <4>2 DEF UnderWay, Settles, Live
    <3> QED
      BY <1>6, <2>3, <3>1, <3>2, <3>3, <3>4 DEF Dispatch, UnderWay
  <2> QED
    BY <2>2, <2>3
<1>7. CASE \E r \in Cancels : Cancel(r)
  BY <1>3, <1>7 DEF Cancel, CancelRead, CancelLoadTasks, CancelCommit, rows
<1>8. CASE \E r \in Reviews : Update(r)
  BY <1>3, <1>8, UpdatesKeepRows
<1>9. CASE UNCHANGED vars
  BY <1>3, <1>9 DEF vars
<1> QED
  BY <1>5, <1>6, <1>7, <1>8, <1>9

-----------------------------------------------------------------------------

(* Every step of the program keeps it.                                     *)
LEMMA StepKeepsProgress == ProgressInv /\ [Next]_vars => ProgressInv'
<1> SUFFICES ASSUME ProgressInv, [Next]_vars PROVE ProgressInv'
  OBVIOUS
<1>1. SettlementInv /\ TypedJobs /\ JobOfPC /\ GateOfPC /\ LiveJobsAreUnderWay
  BY DEF ProgressInv, SettlementInv, LifecycleInv, TypedJobs
<1>2. SettlementInv'
  BY <1>1, StepKeepsSettlement
<1>3. GateOfPC'
  BY <1>1, StepKeepsGateOfPC
<1>4. LiveJobsAreUnderWay'
  <2> SUFFICES ASSUME NEW j \in Jobs \ MayMatchNothing, Live(j)' PROVE UnderWay(j)'
    BY DEF LiveJobsAreUnderWay
  <2>1. Live(j) => UnderWay(j)
    BY <1>1 DEF LiveJobsAreUnderWay
  <2> QED
    BY <1>1, <2>1, WorkerStepsAnswer, OthersAnswer DEF Next
<1> QED
  BY <1>2, <1>3, <1>4 DEF ProgressInv

(* The inductive invariant behind JobsSettle: what SettlementInv says of   *)
(* the execution, that only the gate's job is at the gate, and that every  *)
(* live job still has its dispatch, its message or a worker.               *)
THEOREM LifecycleProgress == Spec => []ProgressInv
<1>1. Init => ProgressInv
  <2> SUFFICES ASSUME Init PROVE ProgressInv
    OBVIOUS
  <2>1. SettlementInv
    BY InitKeepsSettlement
  <2>2. GateOfPC
    BY IdleIsTyped DEF Init, IdleFacts, GateOfPC
  <2>3. LiveJobsAreUnderWay
    BY DEF Init, LiveJobsAreUnderWay, Live, UnderWay, IdleRequest, Jobs
  <2> QED
    BY <2>1, <2>2, <2>3 DEF ProgressInv
<1>2. ProgressInv /\ [Next]_vars => ProgressInv'
  BY StepKeepsProgress
<1> QED
  BY <1>1, <1>2, PTL DEF Spec

(* A queued or running job is never left to itself: its dispatch is under  *)
(* way, its message waits in the broker, or a worker has it and will       *)
(* settle it; whatever crashes, raises, is blocked or delivered twice.     *)
THEOREM JobsAreUnderWay == Spec => []LiveJobsAreUnderWay
<1>1. ProgressInv => LiveJobsAreUnderWay
  BY DEF ProgressInv
<1> QED
  BY <1>1, LifecycleProgress, PTL

=============================================================================
