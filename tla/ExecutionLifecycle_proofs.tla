---------------------- MODULE ExecutionLifecycle_proofs ----------------------
(***************************************************************************)
(* Theorems about ExecutionLifecycle, for any number of workers, tasks,    *)
(* retries, heal jobs, gate and cancel requests, finding updates and       *)
(* faults.  LifecycleInv is inductive; the properties at the end follow    *)
(* from it.                                                                *)
(***************************************************************************)
EXTENDS ExecutionLifecycle, TLAPS

-----------------------------------------------------------------------------
(* The pure derivations                                                    *)

(* A runner outcome settles its task. *)
LEMMA DerivedStatus ==
  ASSUME NEW outcome \in Outcomes
  PROVE  DeriveTaskStatus(outcome) \in TaskStatus /\ Terminal(DeriveTaskStatus(outcome))
BY LifecycleAssumption DEF DeriveTaskStatus, TaskStatus, Terminal

(* What is persisted of a runner result is a runner status. *)
LEMMA PersistedStatus ==
  ASSUME NEW old \in RunnerStatus, NEW outcome \in Outcomes
  PROVE  PersistRunnerResult(old, outcome) \in RunnerStatus
BY LifecycleAssumption DEF PersistRunnerResult, RunnerStatus

(* The verdict of an execution is terminal, whatever its tasks are. *)
LEMMA VerdictIsTerminal ==
  ASSUME NEW tasks, NEW payloads
  PROVE  ExecutionTerminalStatus(tasks, payloads) \in {"completed", "failed", "cancelled"}
BY DEF ExecutionTerminalStatus

(* A column that a flush may skip has its old value or the new one. *)
LEMMA WriteChoice ==
  ASSUME NEW seen, NEW value, NEW now
  PROVE  Write(seen, value, now) \in {value, now}
BY DEF Write

-----------------------------------------------------------------------------
(* The worker records                                                      *)

IdleFacts ==
  /\ IdleWorker \in WorkerState
  /\ IdleWorker.pc = "idle" /\ IdleWorker.job = NoJob /\ IdleWorker.tasks = {}

(* An idle worker has nothing loaded. *)
LEMMA IdleIsTyped == IdleFacts
BY DEF IdleFacts, IdleWorker, WorkerState, WorkerPC, JobStatus, TaskStatus, Stage, ExecutionRow, Decision

(* The end of a transaction keeps the message and drops the loaded rows. *)
LEMMA ForgetWorker ==
  ASSUME worker \in [Workers -> WorkerState], NEW w \in Workers, NEW pc \in WorkerPC,
         Forget(w, pc)
  PROVE  /\ worker' \in [Workers -> WorkerState]
         /\ worker'[w].pc = pc /\ worker'[w].job = worker[w].job /\ worker'[w].tasks = {}
         /\ \A v \in Workers : v # w => worker'[v] = worker[v]
<1> DEFINE kept == [status |-> "queued", stage |-> KeptStage(w)]
           new  == [IdleWorker EXCEPT !.pc = pc, !.job = worker[w].job, !.execSeen = kept]
<1>1. worker[w] \in WorkerState
  OBVIOUS
<1>2. kept \in ExecutionRow
  BY <1>1 DEF WorkerState, ExecutionRow, Stage, TaskStatus, KeptStage
<1>3. new \in WorkerState /\ new.pc = pc /\ new.job = worker[w].job /\ new.tasks = {}
  BY <1>1, <1>2, IdleIsTyped DEF IdleFacts, WorkerState
<1>4. worker' = [worker EXCEPT ![w] = new]
  BY DEF Forget
<1> QED
  BY <1>3, <1>4

(* Moving a worker to another program point changes nothing else of it. *)
LEMMA GotoWorker ==
  ASSUME worker \in [Workers -> WorkerState], NEW w \in Workers, NEW pc \in WorkerPC,
         Goto(w, pc)
  PROVE  /\ worker' \in [Workers -> WorkerState]
         /\ worker'[w] = [worker[w] EXCEPT !.pc = pc]
         /\ worker'[w].pc = pc /\ worker'[w].job = worker[w].job
         /\ worker'[w].tasks = worker[w].tasks /\ worker'[w].execSeen = worker[w].execSeen
         /\ \A v \in Workers : v # w => worker'[v] = worker[v]
BY DEF Goto, WorkerState

(* Loading the rows of the job a worker holds. *)
LEMMA LoadWorker ==
  ASSUME TypeOK, NEW w \in Workers, NEW pc \in WorkerPC, NEW tasks \in SUBSET TaskIds,
         worker[w].job \in Jobs, job[worker[w].job] # "absent",
         LoadAt(w, pc, tasks)
  PROVE  /\ worker' \in [Workers -> WorkerState]
         /\ worker'[w].pc = pc /\ worker'[w].job = worker[w].job /\ worker'[w].tasks = tasks
         /\ \A v \in Workers : v # w => worker'[v] = worker[v]
<1> DEFINE new == [worker[w] EXCEPT !.pc = pc, !.execSeen = exec, !.jobSeen = job[worker[w].job],
                     !.tasks = tasks, !.queued = {t \in tasks : task[t] = "queued"},
                     !.attempts = [t \in TaskIds |-> IF t \in tasks THEN attempts[t] ELSE {}]]
<1>1. worker[w] \in WorkerState /\ exec \in ExecutionRow /\ job[worker[w].job] \in JobStatus
  BY DEF TypeOK
<1>2. [t \in TaskIds |-> IF t \in tasks THEN attempts[t] ELSE {}] \in [TaskIds -> SUBSET TestJobs]
  BY DEF TypeOK
<1>3. new \in WorkerState /\ new.pc = pc /\ new.job = worker[w].job /\ new.tasks = tasks
  BY <1>1, <1>2 DEF WorkerState
<1>4. worker' = [worker EXCEPT ![w] = new]
  BY DEF LoadAt
<1> QED
  BY <1>3, <1>4 DEF TypeOK

(* The flushes and the DELETE before the runners keep what a worker loaded. *)
LEMMA BeginWorker ==
  ASSUME worker \in [Workers -> WorkerState], attempts \in [TaskIds -> SUBSET TestJobs],
         NEW w \in Workers, ResetFirst(w) \/ Begin(w)
  PROVE  /\ worker' \in [Workers -> WorkerState]
         /\ ResetFirst(w) => worker'[w].pc = "loaded"
         /\ Begin(w) => worker'[w].pc = "executing"
         /\ worker'[w].job = worker[w].job /\ worker'[w].tasks = worker[w].tasks
         /\ worker'[w].execSeen = worker[w].execSeen /\ worker'[w].jobSeen = worker[w].jobSeen
         /\ \A v \in Workers : v # w => worker'[v] = worker[v]
<1> DEFINE old    == worker[w]
           queued == {t \in TaskIds : task[t] = "queued"}
           Same(new) == /\ new \in WorkerState
                        /\ new.job = old.job /\ new.tasks = old.tasks
                        /\ new.execSeen = old.execSeen /\ new.jobSeen = old.jobSeen
<1>1. old \in WorkerState /\ queued \in SUBSET TaskIds
  OBVIOUS
<1>2. CASE ResetFirst(w)
  <2> DEFINE new == [old EXCEPT !.reset = Deletion]
  <2>1. worker' = [worker EXCEPT ![w] = new] /\ At(w, "loaded")
    BY <1>2 DEF ResetFirst
  <2>2. Same(new) /\ new.pc = old.pc
    BY <1>1 DEF WorkerState, Deletion
  <2> HIDE DEF new
  <2>3. /\ worker' \in [Workers -> WorkerState] /\ worker'[w] = new
        /\ \A v \in Workers : v # w => worker'[v] = worker[v]
    BY <2>1, <2>2
  <2>4. ~Begin(w) \/ worker'[w].pc = "executing"
    <3>1. Begin(w) => ~FirstFlushWritesExec(w) /\ old.reset = "not_yet" /\ old.job \in RetryJobs
      BY <1>2 DEF ResetFirst
    <3> QED
      BY <3>1, LifecycleAssumption DEF Begin, BeginRun, BeginRetry
  <2> QED
    BY <2>1, <2>2, <2>3, <2>4 DEF At
<1>3. CASE Begin(w)
  <2> DEFINE fresh == [old EXCEPT !.pc = "executing", !.attempts = attempts, !.queued = queued]
             kept  == [old EXCEPT !.pc = "executing"]
             reset == [old EXCEPT !.pc = "executing",
                                  !.reset = IF FirstFlushWritesExec(w) THEN Deletion ELSE old.reset]
  <2>1. \/ worker' = [worker EXCEPT ![w] = fresh]
        \/ worker' = [worker EXCEPT ![w] = kept]
        \/ worker' = [worker EXCEPT ![w] = reset]
    <3>1. CASE BeginRun(w) /\ FirstFlushWritesExec(w)
      BY <3>1 DEF BeginRun
    <3>2. CASE BeginRun(w) /\ ~FirstFlushWritesExec(w)
      BY <3>2 DEF BeginRun
    <3>3. CASE BeginRetry(w)
      BY <3>3 DEF BeginRetry
    <3> QED
      BY <1>3, <3>1, <3>2, <3>3 DEF Begin
  <2>2. Same(fresh) /\ fresh.pc = "executing"
    <3> HIDE DEF queued
    <3> QED
      BY <1>1 DEF WorkerState, WorkerPC
  <2>3. Same(kept) /\ kept.pc = "executing" /\ Same(reset) /\ reset.pc = "executing"
    BY <1>1 DEF WorkerState, WorkerPC, Deletion
  <2> HIDE DEF fresh, kept, reset
  <2>4. PICK new : Same(new) /\ new.pc = "executing" /\ worker' = [worker EXCEPT ![w] = new]
    BY <2>1, <2>2, <2>3
  <2>5. ~ResetFirst(w)
    <3>1. ResetFirst(w) => worker'[w] = [old EXCEPT !.reset = Deletion] /\ old.pc = "loaded"
      BY DEF ResetFirst, At
    <3>2. [old EXCEPT !.reset = Deletion].pc = old.pc
      BY <1>1 DEF WorkerState
    <3> QED
      BY <2>4, <3>1, <3>2
  <2> QED
    BY <2>4, <2>5
<1> QED
  BY <1>2, <1>3

(* The gate's lock, and what it finds under it.                            *)
LEMMA GateWorker ==
  ASSUME worker \in [Workers -> WorkerState], NEW w \in Workers, GateBegin(w)
  PROVE  /\ worker' \in [Workers -> WorkerState]
         /\ worker'[w].pc = "gating" /\ worker'[w].job = worker[w].job
         /\ \A v \in Workers : v # w => worker'[v] = worker[v]
<1> DEFINE none == decision = "none"
           new  == [worker[w] EXCEPT !.pc = "gating", !.decides = none]
<1>1. worker' = [worker EXCEPT ![w] = new]
  BY DEF GateBegin
<1>2. none \in BOOLEAN
  BY Zenon
<1>3. new \in WorkerState /\ new.pc = "gating" /\ new.job = worker[w].job
  <2> HIDE DEF none
  <2> QED
    BY <1>2 DEF WorkerState, WorkerPC
<1> HIDE DEF new
<1> QED
  BY <1>1, <1>3

-----------------------------------------------------------------------------
(* The rows                                                                *)

(* What a job records of the tasks in S, and of the others it has.         *)
LEMMA RecordRows ==
  ASSUME TypeOK, NEW w \in Workers, worker[w].job \in TestJobs,
         NEW S \in SUBSET worker[w].tasks, Record(w, S)
  PROVE  /\ task' \in [TaskIds -> TaskStatus]
         /\ payload' \in [TaskIds -> RunnerStatus]
         /\ attempts' \in [TaskIds -> SUBSET TestJobs]
         /\ \A t \in S : Terminal(task'[t])
         /\ \A t \in TaskIds \ worker[w].tasks : task'[t] = task[t]
<1>1. PICK outcome \in [S -> Outcomes] :
        /\ task' = [t \in TaskIds |->
             IF t \in S THEN DeriveTaskStatus(outcome[t])
             ELSE IF t \in worker[w].tasks \ worker[w].queued THEN "queued" ELSE task[t]]
        /\ payload' = [t \in TaskIds |->
             IF t \in S THEN PersistRunnerResult(payload[t], outcome[t]) ELSE payload[t]]
        /\ attempts' = [t \in TaskIds |->
             IF t \in S THEN worker[w].attempts[t] \cup {worker[w].job} ELSE attempts[t]]
  BY DEF Record
<1>2. worker[w] \in WorkerState /\ S \subseteq TaskIds
  BY DEF TypeOK, WorkerState
<1>3. /\ task \in [TaskIds -> TaskStatus] /\ payload \in [TaskIds -> RunnerStatus]
      /\ attempts \in [TaskIds -> SUBSET TestJobs]
      /\ worker[w].attempts \in [TaskIds -> SUBSET TestJobs]
  BY <1>2 DEF TypeOK, WorkerState
<1>4. \A t \in S : /\ DeriveTaskStatus(outcome[t]) \in TaskStatus
                   /\ Terminal(DeriveTaskStatus(outcome[t]))
  BY <1>1, DerivedStatus
<1>5. \A t \in S : PersistRunnerResult(payload[t], outcome[t]) \in RunnerStatus
  BY <1>1, <1>2, <1>3, PersistedStatus
<1>6. task' \in [TaskIds -> TaskStatus]
  BY <1>1, <1>3, <1>4 DEF TaskStatus
<1>7. payload' \in [TaskIds -> RunnerStatus]
  BY <1>1, <1>3, <1>5
<1>8. attempts' \in [TaskIds -> SUBSET TestJobs]
  BY <1>1, <1>3
<1>9. \A t \in S : Terminal(task'[t])
  BY <1>1, <1>2, <1>4
<1>10. \A t \in TaskIds \ worker[w].tasks : task'[t] = task[t]
  BY <1>1
<1> QED
  BY <1>6, <1>7, <1>8, <1>9, <1>10

(* A compensation settles the tasks it loaded and touches no other. *)
LEMMA FailedTasks ==
  ASSUME TypeOK, NEW S \in SUBSET TaskIds, FailTasks(S)
  PROVE  /\ task' \in [TaskIds -> TaskStatus]
         /\ \A t \in S : task'[t] = "failed"
         /\ \A t \in TaskIds \ S : task'[t] = task[t]
BY DEF FailTasks, TypeOK, TaskStatus

(* Writing a status into one job's row keeps the rows well formed. *)
LEMMA JobWrite ==
  ASSUME TypeOK, NEW j \in Jobs, job[j] # "absent", NEW status \in JobStatus,
         NEW seen, job' = [job EXCEPT ![j] = Write(seen, status, job[j])]
  PROVE  /\ job' \in [Jobs -> JobStatus \cup {"absent"}]
         /\ \A i \in Jobs : job[i] # "absent" => job'[i] # "absent"
<1>1. job \in [Jobs -> JobStatus \cup {"absent"}]
  BY DEF TypeOK
<1>2. Write(seen, status, job[j]) \in JobStatus
  BY <1>1, WriteChoice
<1> QED
  BY <1>1, <1>2 DEF JobStatus

(* The same without a column left out. *)
LEMMA JobSet ==
  ASSUME TypeOK, NEW j \in Jobs, NEW status \in JobStatus,
         job' = [job EXCEPT ![j] = status]
  PROVE  /\ job' \in [Jobs -> JobStatus \cup {"absent"}]
         /\ \A i \in Jobs : job[i] # "absent" => job'[i] # "absent"
         /\ job'[j] # "absent"
BY DEF TypeOK, JobStatus

(* A fault is counted within its bound. *)
LEMMA Counted ==
  ASSUME TypeOK, NEW kind \in FaultKinds, Count(kind)
  PROVE  /\ faults' \in [FaultKinds -> Nat]
         /\ \A k \in FaultKinds : faults'[k] <= MaxFaults[k]
         /\ faults'[kind] > 0
<1>1. /\ faults \in [FaultKinds -> Nat] /\ MaxFaults \in [FaultKinds -> Nat]
      /\ \A k \in FaultKinds : faults[k] <= MaxFaults[k]
  BY LifecycleAssumption DEF TypeOK
<1>2. faults[kind] < MaxFaults[kind] /\ faults' = [faults EXCEPT ![kind] = faults[kind] + 1]
  BY DEF Count
<1> QED
  BY <1>1, <1>2

-----------------------------------------------------------------------------
(* Jobs exist                                                              *)

(* A step of a worker keeps JobsExist if no job disappears. *)
LEMMA WorkerKeepsJobs ==
  ASSUME JobsExist, NEW w \in Workers,
         \A v \in Workers : v # w => worker'[v] = worker[v],
         worker'[w].pc # "idle" =>
           worker'[w].job \in Jobs /\ job[worker'[w].job] # "absent",
         worker'[w].pc \in {"loaded", "executing"} => worker'[w].job \in TestJobs,
         \A i \in Jobs : job[i] # "absent" => job'[i] # "absent",
         ready \subseteq Jobs, ready' \subseteq ready \cup {j \in Jobs : job[j] # "absent"},
         api' = api
  PROVE  JobsExist'
<1>1. \A v \in Workers :
        /\ ~At(v, "idle")' => worker'[v].job \in Jobs /\ job[worker'[v].job] # "absent"
        /\ worker'[v].pc \in {"loaded", "executing"} => worker'[v].job \in TestJobs
  <2> TAKE v \in Workers
  <2>1. CASE v = w
    BY <2>1 DEF At
  <2>2. CASE v # w
    BY <2>2 DEF JobsExist, At
  <2> QED
    BY <2>1, <2>2
<1>2. \A j \in ready' : j \in Jobs /\ job[j] # "absent"
  BY DEF JobsExist
<1> QED
  BY <1>1, <1>2 DEF JobsExist

(* And so does a step that moves no worker. *)
LEMMA RequestKeepsJobs ==
  ASSUME JobsExist, worker' = worker,
         \A i \in Jobs : job[i] # "absent" => job'[i] # "absent",
         ready \subseteq Jobs,
         \A j \in ready' : j \in ready \/ job'[j] # "absent",
         \A j \in Jobs : api'[j].pc # "idle" => job'[j] # "absent"
  PROVE  JobsExist'
BY DEF JobsExist, At

-----------------------------------------------------------------------------
(* TypeOK and JobsExist: requests                                          *)

TypedJobs == TypeOK /\ JobsExist

(* The first state. *)
LEMMA InitTyped == Init => TypedJobs
<1> SUFFICES ASSUME Init PROVE TypedJobs
  OBVIOUS
<1>1. exec \in ExecutionRow /\ job \in [Jobs -> JobStatus \cup {"absent"}]
  BY DEF Init, ExecutionRow, TaskStatus, Stage, JobStatus
<1>2. /\ task \in [TaskIds -> TaskStatus] /\ payload \in [TaskIds -> RunnerStatus]
      /\ attempts \in [TaskIds -> SUBSET TestJobs]
      /\ decision \in Decision /\ update \in [Reviews -> {"idle", "found", "missed", "done"}]
  BY DEF Init, TaskStatus, RunnerStatus, Decision
<1>3. api \in [Jobs -> RequestState] /\ \A j \in Jobs : api[j].pc # "idle" => job[j] # "absent"
  <2> DEFINE request(j) == [IdleRequest EXCEPT !.pc = IF j = RunJob THEN "publish" ELSE "idle"]
  <2>1. \A j \in Jobs : request(j) \in RequestState /\ (j # RunJob => request(j).pc = "idle")
    BY DEF IdleRequest, RequestState, TaskStatus, JobStatus
  <2>2. api = [j \in Jobs |-> request(j)]
    BY DEF Init, IdleRequest
  <2> HIDE DEF request
  <2> QED
    BY <2>1, <2>2 DEF Init
<1>4. cancel \in [Cancels -> CancelState]
  BY DEF Init, CancelState
<1>5. worker \in [Workers -> WorkerState] /\ \A w \in Workers : At(w, "idle")
  BY IdleIsTyped DEF Init, IdleFacts, At
<1>6. ready \subseteq Jobs /\ ready = {} /\ gates \in 0..MaxGates
  BY LifecycleAssumption DEF Init
<1>7. faults \in [FaultKinds -> Nat] /\ \A k \in FaultKinds : faults[k] <= MaxFaults[k]
  BY LifecycleAssumption DEF Init
<1> QED
  BY <1>1, <1>2, <1>3, <1>4, <1>5, <1>6, <1>7 DEF TypedJobs, TypeOK, JobsExist, At

(* Creating and dispatching jobs. *)
LEMMA RequestsTyped ==
  ASSUME TypedJobs,
         NEW j \in Jobs,
         RequestRetry(j) \/ RequestHeal(j) \/ RequestGate \/ Dispatch(j) \/ PublishRaises(j)
  PROVE  TypedJobs'
<1>1. /\ TypeOK /\ JobsExist /\ GateJob \in Jobs
      /\ exec \in ExecutionRow /\ job \in [Jobs -> JobStatus \cup {"absent"}]
      /\ api \in [Jobs -> RequestState] /\ ready \subseteq Jobs
      /\ \A i \in Jobs : api[i].pc # "idle" => job[i] # "absent"
  BY DEF TypedJobs, TypeOK, Jobs, JobsExist
<1>2. CASE RequestRetry(j)
  <2>1. /\ job' = [job EXCEPT ![j] = "queued"] /\ api' = [api EXCEPT ![j].pc = "publish"]
        /\ exec' \in ExecutionRow
    BY <1>2 DEF RequestRetry, ExecutionRow, TaskStatus, Stage
  <2>2. /\ job' \in [Jobs -> JobStatus \cup {"absent"}] /\ job'[j] # "absent"
        /\ \A i \in Jobs : job[i] # "absent" => job'[i] # "absent"
    BY <1>1, <2>1, JobSet DEF JobStatus
  <2>3. api' \in [Jobs -> RequestState] /\ \A i \in Jobs : i # j => api'[i].pc = api[i].pc
    BY <1>1, <2>1 DEF RequestState
  <2>4. TypeOK'
    BY <1>1, <1>2, <2>1, <2>2, <2>3 DEF TypeOK, RequestRetry
  <2> QED
    BY <1>1, <1>2, <2>2, <2>3, <2>4, RequestKeepsJobs DEF TypedJobs, RequestRetry
<1>3. CASE RequestHeal(j)
  <2>1. job' = [job EXCEPT ![j] = "queued"] /\ api' = [api EXCEPT ![j].pc = "publish"]
    BY <1>3 DEF RequestHeal
  <2>2. /\ job' \in [Jobs -> JobStatus \cup {"absent"}] /\ job'[j] # "absent"
        /\ \A i \in Jobs : job[i] # "absent" => job'[i] # "absent"
    BY <1>1, <2>1, JobSet DEF JobStatus
  <2>3. api' \in [Jobs -> RequestState] /\ \A i \in Jobs : i # j => api'[i].pc = api[i].pc
    BY <1>1, <2>1 DEF RequestState
  <2>4. TypeOK'
    BY <1>1, <1>3, <2>1, <2>2, <2>3 DEF TypeOK, RequestHeal
  <2> QED
    BY <1>1, <1>3, <2>2, <2>3, <2>4, RequestKeepsJobs DEF TypedJobs, RequestHeal
<1>4. CASE RequestGate
  <2>1. /\ job' = [job EXCEPT ![GateJob] = IF job[GateJob] = "absent" THEN "queued" ELSE job[GateJob]]
        /\ api' = [api EXCEPT ![GateJob].pc = "publish"]
        /\ gates' = gates + 1 /\ gates < MaxGates
    BY <1>4 DEF RequestGate
  <2>2. /\ job' \in [Jobs -> JobStatus \cup {"absent"}] /\ job'[GateJob] # "absent"
        /\ \A i \in Jobs : job[i] # "absent" => job'[i] # "absent"
    BY <1>1, <2>1 DEF JobStatus
  <2>3. /\ api' \in [Jobs -> RequestState]
        /\ \A i \in Jobs : i # GateJob => api'[i].pc = api[i].pc
    BY <1>1, <2>1 DEF RequestState
  <2>4. gates' \in 0..MaxGates
    BY <1>1, <2>1, LifecycleAssumption DEF TypeOK
  <2>5. TypeOK'
    BY <1>1, <1>4, <2>2, <2>3, <2>4 DEF TypeOK, RequestGate
  <2> QED
    BY <1>1, <1>4, <2>2, <2>3, <2>5, RequestKeepsJobs DEF TypedJobs, RequestGate
<1>5. CASE Publish(j) \/ PublishRaises(j)
  <2>1. /\ \E pc \in {"done", "rolled_back"} : api' = [api EXCEPT ![j].pc = pc]
        /\ ready' \subseteq ready \cup {j} /\ job[j] # "absent"
        /\ UNCHANGED <<rows, cancel, update, worker, gates>>
    BY <1>1, <1>5 DEF Publish, PublishRaises
  <2>2. api' \in [Jobs -> RequestState] /\ \A i \in Jobs : i # j => api'[i].pc = api[i].pc
    BY <1>1, <2>1 DEF RequestState
  <2>3. faults' \in [FaultKinds -> Nat] /\ \A k \in FaultKinds : faults'[k] <= MaxFaults[k]
    BY <1>1, <1>5, Counted DEF Publish, PublishRaises, TypeOK, FaultKinds
  <2>4. TypeOK'
    BY <1>1, <2>1, <2>2, <2>3 DEF TypeOK, rows
  <2> QED
    BY <1>1, <2>1, <2>2, <2>4, RequestKeepsJobs DEF TypedJobs, rows
<1>6. CASE DispatchFailureLoad(j)
  <2> DEFINE loaded == [pc |-> "failing", tasks |-> Nonterminal,
                        execSeen |-> exec.status, jobSeen |-> job[j]]
  <2>1. api' = [api EXCEPT ![j] = loaded] /\ job[j] # "absent"
        /\ UNCHANGED <<rows, cancel, update, worker, ready, gates, faults>>
    BY <1>1, <1>6 DEF DispatchFailureLoad
  <2>2. loaded \in RequestState
    BY <1>1, <2>1 DEF RequestState, ExecutionRow, Nonterminal
  <2>3. api' \in [Jobs -> RequestState] /\ \A i \in Jobs : i # j => api'[i] = api[i]
    BY <1>1, <2>1, <2>2
  <2>4. TypeOK'
    BY <1>1, <2>1, <2>3 DEF TypeOK, rows
  <2> QED
    BY <1>1, <2>1, <2>3, <2>4, RequestKeepsJobs DEF TypedJobs, rows
<1>7. CASE DispatchFailureCommit(j)
  <2>1. /\ api[j] \in RequestState /\ job[j] # "absent" /\ FailTasks(api[j].tasks)
        /\ exec' = [exec EXCEPT !.status = Write(api[j].execSeen, "failed", exec.status)]
        /\ job' = [job EXCEPT ![j] = Write(api[j].jobSeen, "failed", job[j])]
        /\ api' = [api EXCEPT ![j] = [IdleRequest EXCEPT !.pc = "done"]]
    BY <1>1, <1>7 DEF DispatchFailureCommit, Fail
  <2>2. exec' \in ExecutionRow
    BY <1>1, <2>1, WriteChoice DEF ExecutionRow, TaskStatus
  <2>3. /\ job' \in [Jobs -> JobStatus \cup {"absent"}]
        /\ \A i \in Jobs : job[i] # "absent" => job'[i] # "absent"
    BY <1>1, <2>1, JobWrite DEF JobStatus
  <2>4. task' \in [TaskIds -> TaskStatus]
    BY <1>1, <2>1, FailedTasks DEF RequestState
  <2>5. [IdleRequest EXCEPT !.pc = "done"] \in RequestState
    BY DEF IdleRequest, RequestState, TaskStatus, JobStatus
  <2>6. api' \in [Jobs -> RequestState] /\ \A i \in Jobs : i # j => api'[i] = api[i]
    BY <1>1, <2>1, <2>5
  <2>7. TypeOK'
    BY <1>1, <1>7, <2>2, <2>3, <2>4, <2>6 DEF TypeOK, DispatchFailureCommit
  <2> QED
    BY <1>1, <1>7, <2>1, <2>3, <2>6, <2>7, RequestKeepsJobs DEF TypedJobs, DispatchFailureCommit
<1> QED
  BY <1>2, <1>3, <1>4, <1>5, <1>6, <1>7 DEF Dispatch

(* The update of a finding writes no row but the decision. *)
LEMMA UpdatesKeepRows ==
  ASSUME NEW r \in Reviews, Update(r)
  PROVE  UNCHANGED <<exec, job, task, payload, attempts, api, cancel, worker, ready, gates, faults>>
BY DEF Update, UpdateFinding, UpdateEnds, rows

(* Cancelling, and updating a finding. *)
LEMMA CancelsTyped ==
  ASSUME TypedJobs, (\E r \in Reviews : Update(r)) \/ \E r \in Cancels : Cancel(r)
  PROVE  TypedJobs'
<1>1. TypeOK /\ JobsExist /\ exec \in ExecutionRow /\ cancel \in [Cancels -> CancelState]
  BY DEF TypedJobs, TypeOK
<1>2. ASSUME NEW r \in Reviews, Update(r)
      PROVE  TypedJobs'
  <2>1. update' \in [Reviews -> {"idle", "found", "missed", "done"}] /\ decision' \in Decision
    BY <1>1, <1>2 DEF Update, UpdateFinding, UpdateEnds, Deletion, TypeOK, Decision, rows
  <2> QED
    BY <1>1, <1>2, <2>1, UpdatesKeepRows DEF TypedJobs, TypeOK, JobsExist, At
<1>3. ASSUME NEW r \in Cancels, CancelRead(r) \/ CancelLoadTasks(r) \/ CancelCommit(r)
      PROVE  TypedJobs'
  <2>1. cancel' \in [Cancels -> CancelState]
    BY <1>1, <1>3 DEF CancelRead, CancelLoadTasks, CancelCommit, CancelState, Nonterminal
  <2>2. exec' \in ExecutionRow /\ task' \in [TaskIds -> TaskStatus]
    BY <1>1, <1>3 DEF CancelRead, CancelLoadTasks, CancelCommit, rows, ExecutionRow,
                      TaskStatus, TypeOK
  <2>3. UNCHANGED <<job, payload, attempts, decision, api, update, worker, ready, gates, faults>>
    BY <1>3 DEF CancelRead, CancelLoadTasks, CancelCommit, rows
  <2> QED
    BY <1>1, <2>1, <2>2, <2>3 DEF TypedJobs, TypeOK, JobsExist, At
<1> QED
  BY <1>2, <1>3 DEF Cancel

-----------------------------------------------------------------------------
(* TypeOK and JobsExist: workers                                           *)

RowsTyped ==
  /\ exec \in ExecutionRow /\ job \in [Jobs -> JobStatus \cup {"absent"}]
  /\ task \in [TaskIds -> TaskStatus] /\ payload \in [TaskIds -> RunnerStatus]
  /\ attempts \in [TaskIds -> SUBSET TestJobs]
  /\ decision \in Decision

\* worker w moves to a well-formed record that names an existing job
WorkerMoves(w) ==
  /\ worker' \in [Workers -> WorkerState]
  /\ \A v \in Workers : v # w => worker'[v] = worker[v]
  /\ worker'[w].pc # "idle" => worker'[w].job \in Jobs /\ job[worker'[w].job] # "absent"
  /\ worker'[w].pc \in {"loaded", "executing"} => worker'[w].job \in TestJobs

FaultsTyped == faults \in [FaultKinds -> Nat] /\ \A k \in FaultKinds : faults[k] <= MaxFaults[k]

(* What a worker's step has to show. *)
LEMMA StepTyped ==
  ASSUME TypedJobs, NEW w \in Workers, WorkerMoves(w), RowsTyped', FaultsTyped',
         \A i \in Jobs : job[i] # "absent" => job'[i] # "absent",
         ready' \subseteq ready \cup {j \in Jobs : job[j] # "absent"},
         UNCHANGED <<api, cancel, update, gates>>
  PROVE  TypedJobs'
<1>1. TypeOK /\ JobsExist /\ ready \subseteq Jobs
  BY DEF TypedJobs, TypeOK
<1>2. JobsExist'
  BY <1>1, WorkerKeepsJobs DEF WorkerMoves
<1>3. TypeOK'
  BY <1>1 DEF TypeOK, RowsTyped, FaultsTyped, WorkerMoves
<1> QED
  BY <1>2, <1>3 DEF TypedJobs

(* The rows of a reachable state are typed, and so are they when unchanged. *)
LEMMA RowsAreTyped ==
  ASSUME TypedJobs
  PROVE  /\ RowsTyped /\ (UNCHANGED rows => RowsTyped')
         /\ FaultsTyped /\ (UNCHANGED faults => FaultsTyped')
         /\ \A kind \in FaultKinds : Count(kind) => FaultsTyped'
<1>1. TypeOK
  BY DEF TypedJobs
<1>2. \A kind \in FaultKinds : Count(kind) => FaultsTyped'
  BY <1>1, Counted DEF FaultsTyped
<1> QED
  BY <1>1, <1>2 DEF TypeOK, RowsTyped, FaultsTyped, rows

(* A transaction that ends keeps the worker's job. *)
LEMMA ForgetMoves ==
  ASSUME TypedJobs, NEW w \in Workers, ~At(w, "idle"),
         NEW pc \in WorkerPC \ {"loaded", "executing"}, Forget(w, pc)
  PROVE  WorkerMoves(w)
BY ForgetWorker DEF WorkerMoves, TypedJobs, TypeOK, JobsExist, At

(* Taking a message and loading the rows of its job. *)
LEMMA LoadsTyped ==
  ASSUME TypedJobs, NEW w \in Workers, TakeMessage(w) \/ Load(w)
  PROVE  TypedJobs'
<1>1. /\ TypeOK /\ JobsExist /\ worker \in [Workers -> WorkerState]
      /\ ready \subseteq Jobs /\ RowsTyped /\ FaultsTyped
      /\ (UNCHANGED rows => RowsTyped') /\ (UNCHANGED faults => FaultsTyped')
      /\ \A kind \in FaultKinds : Count(kind) => FaultsTyped'
  BY RowsAreTyped DEF TypedJobs, TypeOK
<1>2. CASE TakeMessage(w)
  <2>1. PICK j \in ready :
          /\ ready' = ready \ {j}
          /\ worker' = [worker EXCEPT ![w] = [IdleWorker EXCEPT !.pc = "taken", !.job = j]]
    BY <1>2 DEF TakeMessage
  <2> DEFINE new == [IdleWorker EXCEPT !.pc = "taken", !.job = j]
  <2>2. new \in WorkerState /\ new.pc = "taken" /\ new.job = j /\ j \in Jobs /\ job[j] # "absent"
    BY <1>1, <2>1, IdleIsTyped DEF IdleFacts, WorkerState, WorkerPC, JobsExist
  <2>3. WorkerMoves(w)
    BY <1>1, <2>1, <2>2 DEF WorkerMoves
  <2> QED
    BY <1>1, <1>2, <2>1, <2>3, StepTyped DEF TakeMessage, rows
<1>3. ASSUME At(w, "taken")
      PROVE  ~At(w, "idle") /\ worker[w].job \in Jobs /\ job[worker[w].job] # "absent"
  BY <1>1, <1>3 DEF JobsExist, At
<1>4. CASE LoadDeduplicated(w) \/ RetryUnmatched(w)
  <2>1. Forget(w, "ack") /\ At(w, "taken") /\ UNCHANGED <<rows, api, cancel, update, ready, gates, faults>>
    BY <1>4 DEF LoadDeduplicated, RetryUnmatched, Done
  <2>2. WorkerMoves(w)
    BY <1>3, <2>1, ForgetMoves DEF WorkerPC
  <2> QED
    BY <1>1, <2>1, <2>2, StepTyped DEF rows
<1>5. CASE LoadRun(w) \/ LoadRetry(w) \/ LoadHeal(w) \/ LoadGate(w)
  <2>1. /\ At(w, "taken") /\ UNCHANGED <<rows, api, cancel, update, ready, gates, faults>>
        /\ \E pc \in WorkerPC \ {"idle"}, S \in SUBSET TaskIds :
             /\ LoadAt(w, pc, S)
             /\ pc \in {"loaded", "executing"} => worker[w].job \in TestJobs
    BY <1>5 DEF LoadRun, LoadRetry, LoadHeal, LoadGate, WorkerPC, TestJobs, TasksForRetryScope
  <2>2. PICK pc \in WorkerPC \ {"idle"}, S \in SUBSET TaskIds :
          /\ LoadAt(w, pc, S)
          /\ pc \in {"loaded", "executing"} => worker[w].job \in TestJobs
    BY <2>1
  <2>3. WorkerMoves(w)
    BY <1>1, <1>3, <2>1, <2>2, LoadWorker DEF WorkerMoves
  <2> QED
    BY <1>1, <2>1, <2>3, StepTyped DEF rows
<1>6. CASE RunCancelled(w)
  <2>1. /\ job' = [job EXCEPT ![RunJob] = "cancelled"] /\ Forget(w, "ack") /\ At(w, "cancelled")
        /\ RunJob \in Jobs
    BY <1>6 DEF RunCancelled, Done, Jobs, TestJobs
  <2>2. /\ job' \in [Jobs -> JobStatus \cup {"absent"}]
        /\ \A i \in Jobs : job[i] # "absent" => job'[i] # "absent"
    BY <1>1, <2>1, JobSet DEF JobStatus
  <2>3. WorkerMoves(w)
    BY <2>1, ForgetMoves DEF WorkerPC, At
  <2>4. RowsTyped'
    BY <1>1, <1>6, <2>2 DEF RowsTyped, RunCancelled
  <2> QED
    BY <1>1, <1>6, <2>2, <2>3, <2>4, StepTyped DEF RunCancelled
<1> QED
  BY <1>2, <1>4, <1>5, <1>6 DEF Load

(* What every step of a worker on its job starts from. *)
LEMMA AtWork ==
  ASSUME TypedJobs, NEW w \in Workers, ~At(w, "idle")
  PROVE  /\ TypeOK /\ RowsTyped /\ FaultsTyped /\ worker[w] \in WorkerState
         /\ worker[w].job \in Jobs /\ job[worker[w].job] # "absent"
         /\ job[worker[w].job] \in JobStatus
         /\ At(w, "loaded") \/ At(w, "executing") => worker[w].job \in TestJobs
BY RowsAreTyped DEF TypedJobs, TypeOK, JobsExist, At

(* run_execution_job and run_retry_job. *)
LEMMA RunTestsTyped ==
  ASSUME TypedJobs, NEW w \in Workers, RunTests(w)
  PROVE  TypedJobs'
<1>1. ~At(w, "idle")
  BY DEF RunTests, ResetFirst, Begin, Commit, Recover, FailJobCommit, FailCommit, At
<1>2. /\ TypeOK /\ RowsTyped /\ FaultsTyped /\ worker[w] \in WorkerState
      /\ worker[w].job \in Jobs /\ job[worker[w].job] # "absent"
      /\ job[worker[w].job] \in JobStatus
      /\ At(w, "loaded") \/ At(w, "executing") => worker[w].job \in TestJobs
      /\ (UNCHANGED rows => RowsTyped') /\ (UNCHANGED faults => FaultsTyped')
      /\ worker \in [Workers -> WorkerState]
  BY <1>1, AtWork, RowsAreTyped DEF TypeOK
<1>3. Done(w) => WorkerMoves(w)
  BY <1>1, ForgetMoves DEF Done, WorkerPC
<1>4. CASE ResetFirst(w) \/ Begin(w)
  <2>1. At(w, "loaded") /\ UNCHANGED <<rows, api, cancel, update, ready, gates, faults>>
    BY <1>4 DEF ResetFirst, Begin
  <2>2. WorkerMoves(w)
    BY <1>2, <1>4, <2>1, BeginWorker DEF WorkerMoves, RowsTyped
  <2> QED
    BY <1>2, <2>1, <2>2, StepTyped DEF rows
<1>5. CASE Commit(w)
  <2>1. /\ At(w, "executing") /\ Record(w, worker[w].tasks)
        /\ exec' = Reduced(ExecutionTerminalStatus(task', payload'))
        /\ job' = [job EXCEPT ![worker[w].job] = JobStatusForExecution(exec'.status)]
        /\ decision' = ResetRetryOutputs(w)
        /\ Done(w) /\ UNCHANGED <<api, cancel, update, ready, gates, faults>>
    BY <1>5 DEF Commit
  <2>2. exec' \in ExecutionRow /\ exec'.status \in {"completed", "failed", "cancelled"}
    BY <2>1, VerdictIsTerminal DEF Reduced, ExecutionRow, TaskStatus, Stage
  <2>3. /\ job' \in [Jobs -> JobStatus \cup {"absent"}]
        /\ \A i \in Jobs : job[i] # "absent" => job'[i] # "absent"
    <3>1. JobStatusForExecution(exec'.status) \in JobStatus
      BY <2>2 DEF JobStatusForExecution, JobStatus
    <3> QED
      BY <1>2, <2>1, <3>1, JobSet
  <2>4. /\ task' \in [TaskIds -> TaskStatus] /\ payload' \in [TaskIds -> RunnerStatus]
        /\ attempts' \in [TaskIds -> SUBSET TestJobs]
    BY <1>2, <2>1, RecordRows
  <2>5. decision' \in Decision
    BY <1>2, <2>1 DEF ResetRetryOutputs, RowsTyped, Decision
  <2>6. RowsTyped'
    BY <2>2, <2>3, <2>4, <2>5 DEF RowsTyped
  <2> QED
    BY <1>2, <1>3, <2>1, <2>3, <2>6, StepTyped
<1>6. CASE Recover(w)
  <2>1. At(w, "rolled_back") /\ UNCHANGED <<rows, api, cancel, update, ready, gates, faults>>
    BY <1>6 DEF Recover
  <2>2. CASE Done(w)
    BY <1>2, <1>3, <2>1, <2>2, StepTyped DEF rows
  <2>3. CASE ~Done(w)
    <3> DEFINE loaded(pc) == [worker[w] EXCEPT !.pc = pc, !.jobSeen = job[worker[w].job],
                                !.execSeen.status = exec.status, !.tasks = Nonterminal]
    <3>1. PICK pc \in {"failing_job", "failing"} : worker' = [worker EXCEPT ![w] = loaded(pc)]
      BY <1>6, <2>3 DEF Recover
    <3>2. loaded(pc) \in WorkerState /\ loaded(pc).pc = pc /\ loaded(pc).job = worker[w].job
      BY <1>2 DEF WorkerState, WorkerPC, RowsTyped, ExecutionRow, Nonterminal
    <3>3. WorkerMoves(w)
      BY <1>2, <3>1, <3>2 DEF WorkerMoves
    <3> QED
      BY <1>2, <2>1, <3>3, StepTyped DEF rows
  <2> QED
    BY <2>2, <2>3
<1>7. ASSUME FailJob(w)
      PROVE  /\ job' \in [Jobs -> JobStatus \cup {"absent"}]
             /\ \A i \in Jobs : job[i] # "absent" => job'[i] # "absent"
  BY <1>2, <1>7, JobWrite DEF FailJob, Fail, JobStatus
<1>8. CASE FailJobCommit(w)
  <2>1. RowsTyped'
    BY <1>2, <1>7, <1>8 DEF FailJobCommit, RowsTyped
  <2> QED
    BY <1>2, <1>3, <1>7, <1>8, <2>1, StepTyped DEF FailJobCommit
<1>9. CASE FailCommit(w)
  <2>1. exec' \in ExecutionRow
    BY <1>2, <1>9, WriteChoice DEF FailCommit, FailExecution, Fail, RowsTyped, ExecutionRow, TaskStatus
  <2>2. task' \in [TaskIds -> TaskStatus]
    BY <1>2, <1>9, FailedTasks DEF FailCommit, WorkerState
  <2>3. RowsTyped'
    BY <1>2, <1>7, <1>9, <2>1, <2>2 DEF FailCommit, RowsTyped
  <2> QED
    BY <1>2, <1>3, <1>7, <1>9, <2>3, StepTyped DEF FailCommit
<1> QED
  BY <1>4, <1>5, <1>6, <1>8, <1>9 DEF RunTests

(* run_heal_job. *)
LEMMA HealTyped ==
  ASSUME TypedJobs, NEW w \in Workers, Heal(w)
  PROVE  TypedJobs'
<1>1. ~At(w, "idle")
  BY DEF Heal, HealBegin, HealCommit, HealFailCommit, At
<1>2. /\ TypeOK /\ RowsTyped /\ FaultsTyped /\ worker[w] \in WorkerState
      /\ worker[w].job \in Jobs /\ job[worker[w].job] # "absent"
      /\ (UNCHANGED rows => RowsTyped') /\ (UNCHANGED faults => FaultsTyped')
      /\ worker \in [Workers -> WorkerState]
  BY <1>1, AtWork, RowsAreTyped DEF TypeOK
<1>3. Done(w) => WorkerMoves(w)
  BY <1>1, ForgetMoves DEF Done, WorkerPC
<1>4. RestoreStage(w) \in ExecutionRow
  BY <1>2 DEF RestoreStage, RowsTyped, ExecutionRow, WorkerState
<1>5. CASE HealBegin(w)
  <2>1. WorkerMoves(w)
    BY <1>2, <1>5, GotoWorker DEF HealBegin, WorkerMoves, WorkerPC
  <2> QED
    BY <1>2, <1>5, <2>1, StepTyped DEF HealBegin, rows
<1>6. CASE HealCommit(w)
  <2>1. /\ job' \in [Jobs -> JobStatus \cup {"absent"}]
        /\ \A i \in Jobs : job[i] # "absent" => job'[i] # "absent"
    BY <1>2, <1>6, JobSet DEF HealCommit, JobStatus
  <2>2. RowsTyped'
    BY <1>2, <1>4, <1>6, <2>1 DEF HealCommit, RowsTyped
  <2> QED
    BY <1>2, <1>3, <1>6, <2>1, <2>2, StepTyped DEF HealCommit
<1>7. CASE HealFailCommit(w)
  <2>1. /\ job' \in [Jobs -> JobStatus \cup {"absent"}]
        /\ \A i \in Jobs : job[i] # "absent" => job'[i] # "absent"
    BY <1>2, <1>7, JobWrite DEF HealFailCommit, FailJob, Fail, JobStatus
  <2>2. RowsTyped'
    BY <1>2, <1>4, <1>7, <2>1 DEF HealFailCommit, RowsTyped
  <2> QED
    BY <1>2, <1>3, <1>7, <2>1, <2>2, StepTyped DEF HealFailCommit
<1> QED
  BY <1>5, <1>6, <1>7 DEF Heal

(* run_gate_job. *)
LEMMA GateTyped ==
  ASSUME TypedJobs, NEW w \in Workers, Gate(w)
  PROVE  TypedJobs'
<1>1. ~At(w, "idle")
  BY DEF Gate, GateBegin, GateCommit, At
<1>2. /\ TypeOK /\ RowsTyped /\ FaultsTyped /\ worker[w] \in WorkerState
      /\ worker[w].job \in Jobs /\ job[worker[w].job] # "absent" /\ GateJob \in Jobs
      /\ (UNCHANGED rows => RowsTyped') /\ (UNCHANGED faults => FaultsTyped')
      /\ worker \in [Workers -> WorkerState]
  BY <1>1, AtWork, RowsAreTyped DEF TypeOK, Jobs
<1>3. CASE GateBegin(w)
  <2>1. UNCHANGED <<rows, api, cancel, update, ready, gates, faults>>
    BY <1>3 DEF GateBegin
  <2>2. WorkerMoves(w)
    BY <1>2, <1>3, GateWorker DEF WorkerMoves
  <2> QED
    BY <1>2, <2>1, <2>2, StepTyped DEF rows
<1>4. CASE GateCommit(w)
  <2>1. /\ job' \in [Jobs -> JobStatus \cup {"absent"}]
        /\ \A i \in Jobs : job[i] # "absent" => job'[i] # "absent"
    BY <1>2, <1>4, JobSet DEF GateCommit, JobStatus
  <2>2. decision' \in Decision
    BY <1>2, <1>4 DEF GateCommit, GateDecides, RowsTyped, Decision
  <2>3. exec' \in ExecutionRow
    BY <1>2, <1>4, WriteChoice DEF GateCommit, GateDecides, RowsTyped, ExecutionRow, TaskStatus, Stage
  <2>4. RowsTyped'
    BY <1>2, <1>4, <2>1, <2>2, <2>3 DEF GateCommit, RowsTyped
  <2>5. WorkerMoves(w)
    BY <1>1, <1>4, ForgetMoves DEF GateCommit, Done, WorkerPC
  <2> QED
    BY <1>2, <1>4, <2>1, <2>4, <2>5, StepTyped DEF GateCommit
<1> QED
  BY <1>3, <1>4 DEF Gate

(* Faults, and the acknowledgement of a message. *)
LEMMA FaultsAndAckTyped ==
  ASSUME TypedJobs, NEW w \in Workers, Ack(w) \/ Fault(w)
  PROVE  TypedJobs'
<1>1. ~At(w, "idle")
  BY DEF Ack, Fault, Raise, HoldsJob, GuardrailBlock, HealBlock, Crash, Redeliver, At
<1>2. /\ TypeOK /\ RowsTyped /\ FaultsTyped /\ worker[w] \in WorkerState
      /\ worker[w].job \in Jobs /\ job[worker[w].job] # "absent"
      /\ job[worker[w].job] \in JobStatus
      /\ At(w, "executing") => worker[w].job \in TestJobs
      /\ (UNCHANGED rows => RowsTyped') /\ (UNCHANGED faults => FaultsTyped')
      /\ \A kind \in FaultKinds : Count(kind) => FaultsTyped'
      /\ worker \in [Workers -> WorkerState]
  BY <1>1, AtWork, RowsAreTyped DEF TypeOK
<1>3. Forget(w, "rolled_back") => WorkerMoves(w)
  BY <1>1, ForgetMoves DEF WorkerPC
<1>4. ASSUME worker' = [worker EXCEPT ![w] = IdleWorker]
      PROVE  WorkerMoves(w)
  BY <1>2, <1>4, IdleIsTyped DEF IdleFacts, WorkerMoves
<1>5. ASSUME JobRunning(w)
      PROVE  /\ job' \in [Jobs -> JobStatus \cup {"absent"}]
             /\ \A i \in Jobs : job[i] # "absent" => job'[i] # "absent"
  BY <1>2, <1>5, JobWrite DEF JobRunning, JobStatus
<1>6. CASE Ack(w)
  BY <1>2, <1>4, <1>6, StepTyped DEF Ack, rows
<1>7. CASE Raise(w)
  BY <1>2, <1>3, <1>7, StepTyped DEF Raise, rows, FaultKinds
<1>8. CASE Crash(w)
  BY <1>2, <1>4, <1>8, StepTyped DEF Crash, Unacked, rows, FaultKinds
<1>9. CASE Redeliver(w)
  <2>1. WorkerMoves(w)
    BY <1>1, <1>2, <1>9 DEF Redeliver, WorkerMoves, At, TypedJobs, JobsExist
  <2> QED
    BY <1>2, <1>9, <2>1, StepTyped DEF Redeliver, Unacked, rows, FaultKinds
<1>10. CASE GuardrailBlock(w)
  <2>1. PICK done \in SUBSET worker[w].tasks :
          /\ Record(w, done)
          /\ exec' = [status |-> Write(worker[w].execSeen.status, "running", exec.status),
                      stage  |-> IF done = worker[w].tasks THEN "ANALYZE" ELSE "EXECUTE"]
    BY <1>10 DEF GuardrailBlock
  <2>2. /\ At(w, "executing") /\ Count("block") /\ JobRunning(w) /\ decision' = ResetRetryOutputs(w)
        /\ Forget(w, "rolled_back") /\ UNCHANGED <<api, cancel, update, ready, gates>>
    BY <1>10 DEF GuardrailBlock
  <2>3. exec' \in ExecutionRow
    BY <1>2, <2>1, WriteChoice DEF RowsTyped, ExecutionRow, TaskStatus, Stage
  <2>4. /\ task' \in [TaskIds -> TaskStatus] /\ payload' \in [TaskIds -> RunnerStatus]
        /\ attempts' \in [TaskIds -> SUBSET TestJobs]
    BY <1>2, <2>1, <2>2, RecordRows
  <2>5. decision' \in Decision
    BY <1>2, <2>1, <2>2 DEF ResetRetryOutputs, RowsTyped, Decision
  <2>6. RowsTyped'
    BY <1>5, <2>2, <2>3, <2>4, <2>5 DEF RowsTyped
  <2> QED
    BY <1>2, <1>3, <1>5, <2>2, <2>6, StepTyped DEF FaultKinds
<1>11. CASE HealBlock(w)
  <2>1. exec' \in ExecutionRow
    BY <1>2, <1>11 DEF HealBlock, RowsTyped, ExecutionRow, Stage
  <2>2. RowsTyped'
    BY <1>2, <1>5, <1>11, <2>1 DEF HealBlock, RowsTyped
  <2> QED
    BY <1>2, <1>3, <1>5, <1>11, <2>2, StepTyped DEF HealBlock, FaultKinds
<1> QED
  BY <1>6, <1>7, <1>8, <1>9, <1>10, <1>11 DEF Fault

(* Every step. *)
LEMMA StepKeepsTypes == TypedJobs /\ [Next]_vars => TypedJobs'
<1> SUFFICES ASSUME TypedJobs, [Next]_vars PROVE TypedJobs'
  OBVIOUS
<1>1. CASE Request
  BY <1>1, RequestsTyped DEF Request, Jobs
<1>2. CASE \E j \in Jobs : Dispatch(j) \/ PublishRaises(j)
  BY <1>2, RequestsTyped
<1>3. CASE (\E r \in Cancels : Cancel(r)) \/ \E r \in Reviews : Update(r)
  BY <1>3, CancelsTyped
<1>4. CASE \E w \in Workers : WorkerStep(w) \/ Fault(w)
  BY <1>4, LoadsTyped, RunTestsTyped, HealTyped, GateTyped, FaultsAndAckTyped DEF WorkerStep
<1>5. CASE UNCHANGED vars
  BY <1>5 DEF vars, TypedJobs, TypeOK, JobsExist, At
<1> QED
  BY <1>1, <1>2, <1>3, <1>4, <1>5 DEF Next

-----------------------------------------------------------------------------
(* OneWriter and TasksSettleTogether                                       *)

\* what a worker that has loaded tasks still knows of the live ones
KnowsLiveTasks(w) ==
  worker[w].pc \in {"loaded", "executing", "failing"} => Nonterminal \subseteq worker[w].tasks

(* A step of a worker leaves the others alone, takes the execution only    *)
(* when it is free, and loads every live task or some that have settled.   *)
LEMMA WorkerSteps ==
  ASSUME TypedJobs, NEW w \in Workers, WorkerStep(w) \/ Fault(w)
  PROVE  /\ \A v \in Workers : v # w => worker'[v] = worker[v]
         /\ HoldsExec(w)' => HoldsExec(w) \/ ExecFree
         /\ worker'[w].pc \in {"loaded", "executing", "failing"} =>
              /\ task' = task
              /\ \/ Nonterminal \subseteq worker'[w].tasks
                 \/ \E t \in TaskIds : Terminal(task[t])
                 \/ /\ worker[w].pc \in {"loaded", "executing", "failing"}
                    /\ worker'[w].tasks = worker[w].tasks
         /\ At(w, "executing")' => Begin(w) \/ worker'[w] = worker[w]
<1> DEFINE Claim ==
      /\ \A v \in Workers : v # w => worker'[v] = worker[v]
      /\ HoldsExec(w)' => HoldsExec(w) \/ ExecFree
      /\ worker'[w].pc \in {"loaded", "executing", "failing"} =>
           /\ task' = task
           /\ \/ Nonterminal \subseteq worker'[w].tasks
              \/ \E t \in TaskIds : Terminal(task[t])
              \/ /\ worker[w].pc \in {"loaded", "executing", "failing"}
                 /\ worker'[w].tasks = worker[w].tasks
      /\ At(w, "executing")' => Begin(w) \/ worker'[w] = worker[w]
<1>1. /\ TypeOK /\ worker \in [Workers -> WorkerState] /\ worker[w] \in WorkerState
      /\ task \in [TaskIds -> TaskStatus]
  BY DEF TypedJobs, TypeOK
<1>2. ASSUME NEW pc \in {"ack", "rolled_back"}, Forget(w, pc)
      PROVE  Claim
  BY <1>1, <1>2, ForgetWorker DEF WorkerPC, HoldsExec, At
<1>3. ASSUME NEW new \in WorkerState, worker' = [worker EXCEPT ![w] = new],
             new.pc \in {"idle", "taken", "gating"}
      PROVE  Claim
  BY <1>1, <1>3 DEF HoldsExec, At
<1>4. ASSUME ~At(w, "idle")
      PROVE  worker[w].job \in Jobs /\ job[worker[w].job] # "absent"
  BY <1>4, AtWork
<1>5. ASSUME NEW pc \in WorkerPC, NEW S \in SUBSET TaskIds, At(w, "taken"), LoadAt(w, pc, S),
             pc \notin {"executing", "healing"}, task' = task,
             pc = "loaded" => S = TaskIds \/ \E t \in TaskIds : Terminal(task[t]),
             pc # "failing"
      PROVE  Claim
  <2>1. ~At(w, "idle")
    BY <1>5 DEF At
  <2>2. /\ worker'[w].pc = pc /\ worker'[w].tasks = S
        /\ \A v \in Workers : v # w => worker'[v] = worker[v]
    BY <1>1, <1>4, <1>5, <2>1, LoadWorker
  <2> QED
    BY <1>5, <2>2 DEF HoldsExec, At, Nonterminal
<1>6. CASE TakeMessage(w)
  <2>1. PICK j \in ready : worker' = [worker EXCEPT ![w] = [IdleWorker EXCEPT !.pc = "taken", !.job = j]]
    BY <1>6 DEF TakeMessage
  <2>2. [IdleWorker EXCEPT !.pc = "taken", !.job = j] \in WorkerState
    BY <1>1, <2>1, IdleIsTyped DEF IdleFacts, WorkerState, WorkerPC, TypeOK
  <2> QED
    BY <1>3, <2>1, <2>2, IdleIsTyped DEF IdleFacts, WorkerState
<1>7. CASE LoadDeduplicated(w) \/ RetryUnmatched(w) \/ RunCancelled(w)
  BY <1>2, <1>7 DEF LoadDeduplicated, RetryUnmatched, RunCancelled, Done
<1>8. CASE LoadRun(w)
  BY <1>5, <1>8 DEF LoadRun, WorkerPC, rows
<1>9. CASE LoadRetry(w)
  <2> DEFINE S == TasksForRetryScope(worker[w].job)
  <2>1. /\ S \in SUBSET TaskIds /\ S # {}
        /\ S = TaskIds \/ \E t \in TaskIds : task[t] = "failed"
    BY <1>9 DEF LoadRetry, TasksForRetryScope, FailedAndSafe
  <2>2. At(w, "taken") /\ LoadAt(w, "loaded", S) /\ task' = task
    BY <1>9 DEF LoadRetry, rows
  <2> HIDE DEF S
  <2> QED
    BY <1>5, <2>1, <2>2 DEF WorkerPC, Terminal
<1>10. CASE LoadHeal(w) \/ LoadGate(w)
  BY <1>5, <1>10 DEF LoadHeal, LoadGate, WorkerPC, rows
<1>11. CASE ResetFirst(w) \/ Begin(w)
  <2>1. At(w, "loaded") /\ task' = task /\ (Begin(w) => ExecFree)
    BY <1>11 DEF ResetFirst, Begin, rows
  <2> QED
    BY <1>1, <1>11, <2>1, BeginWorker DEF At, HoldsExec, TypeOK
<1>12. CASE Commit(w) \/ FailJobCommit(w) \/ FailCommit(w) \/ HealCommit(w) \/ HealFailCommit(w)
              \/ GateCommit(w)
  BY <1>2, <1>12 DEF Commit, FailJobCommit, FailCommit, HealCommit, HealFailCommit, GateCommit, Done
<1>13. CASE Recover(w)
  <2>1. CASE Done(w)
    BY <1>2, <2>1 DEF Done
  <2>2. CASE ~Done(w)
    <3> DEFINE loaded(pc) == [worker[w] EXCEPT !.pc = pc, !.jobSeen = job[worker[w].job],
                                !.execSeen.status = exec.status, !.tasks = Nonterminal]
    <3>1. PICK pc \in {"failing_job", "failing"} :
            worker' = [worker EXCEPT ![w] = loaded(pc)] /\ task' = task
      BY <1>13, <2>2 DEF Recover, rows
    <3>2. loaded(pc).pc = pc /\ loaded(pc).tasks = Nonterminal
      BY <1>1 DEF WorkerState
    <3>3. /\ worker'[w].pc = pc /\ worker'[w].tasks = Nonterminal
          /\ \A v \in Workers : v # w => worker'[v] = worker[v]
      <4> HIDE DEF loaded
      <4> QED
        BY <1>1, <3>1, <3>2
    <3> QED
      BY <3>1, <3>3 DEF HoldsExec, At
  <2> QED
    BY <2>1, <2>2
<1>14. CASE HealBegin(w)
  <2>1. /\ Goto(w, "healing") /\ (HealWritesExec(w) => ExecFree)
    BY <1>14 DEF HealBegin
  <2>2. /\ worker'[w].pc = "healing" /\ worker'[w].execSeen = worker[w].execSeen
        /\ \A v \in Workers : v # w => worker'[v] = worker[v]
    BY <1>1, <2>1, GotoWorker DEF WorkerPC
  <2> QED
    BY <2>1, <2>2 DEF HoldsExec, HealWritesExec, At
<1>15. CASE GateBegin(w)
  BY <1>1, <1>15, GateWorker DEF HoldsExec, At
<1>16. CASE Ack(w) \/ Crash(w)
  BY <1>3, <1>16, IdleIsTyped DEF Ack, Crash, IdleFacts
<1>17. CASE Raise(w) \/ GuardrailBlock(w) \/ HealBlock(w)
  BY <1>2, <1>17 DEF Raise, GuardrailBlock, HealBlock
<1>18. CASE Redeliver(w)
  BY <1>18 DEF Redeliver, HoldsExec, HealWritesExec, At, rows
<1> QED
  BY <1>6, <1>7, <1>8, <1>9, <1>10, <1>11, <1>12, <1>13, <1>14, <1>15, <1>16, <1>17, <1>18
  DEF WorkerStep, Load, RunTests, Heal, Gate, Fault

(* No other step moves a worker. *)
LEMMA OthersMoveNoWorker ==
  ASSUME Request \/ (\E j \in Jobs : Dispatch(j) \/ PublishRaises(j))
           \/ (\E r \in Cancels : Cancel(r)) \/ (\E r \in Reviews : Update(r)) \/ UNCHANGED vars
  PROVE  worker' = worker
BY UpdatesKeepRows DEF Request, RequestRetry, RequestHeal, RequestGate, Dispatch, Publish,
       DispatchFailureLoad, DispatchFailureCommit, PublishRaises, Cancel, CancelRead,
       CancelLoadTasks, CancelCommit, vars

(* One writer at a time. *)
LEMMA StepKeepsOneWriter == TypedJobs /\ OneWriter /\ [Next]_vars => OneWriter'
<1> SUFFICES ASSUME TypedJobs, OneWriter, [Next]_vars PROVE OneWriter'
  OBVIOUS
<1>1. CASE worker' = worker
  BY <1>1 DEF OneWriter, HoldsExec, HealWritesExec, At
<1>2. CASE \E w \in Workers : WorkerStep(w) \/ Fault(w)
  <2>1. PICK w \in Workers :
          /\ \A v \in Workers : v # w => worker'[v] = worker[v]
          /\ HoldsExec(w)' => HoldsExec(w) \/ ExecFree
    BY <1>2, WorkerSteps
  <2>2. \A v \in Workers : v # w /\ HoldsExec(v)' => HoldsExec(v)
    BY <2>1 DEF HoldsExec, HealWritesExec, At
  <2> QED
    BY <2>1, <2>2 DEF OneWriter, ExecFree
<1> QED
  BY <1>1, <1>2, OthersMoveNoWorker DEF Next

(* Without guardrail blocks a step settles every task, or changes none and *)
(* does not stop the execution.                                            *)
LEMMA SettlesOrKeeps ==
  ASSUME TypedJobs, TasksSettleTogether, [Next]_vars, faults'.block = 0
  PROVE  /\ faults.block = 0
         /\ \/ Nonterminal' = {}
            \/ /\ task' = task
               /\ exec'.status = exec.status \/ exec'.status \in {"queued", "completed"}
<1> DEFINE Claim == \/ Nonterminal' = {}
                    \/ /\ task' = task
                       /\ exec'.status = exec.status \/ exec'.status \in {"queued", "completed"}
<1>1. /\ TypeOK /\ exec \in ExecutionRow /\ task \in [TaskIds -> TaskStatus]
      /\ worker \in [Workers -> WorkerState] /\ api \in [Jobs -> RequestState]
      /\ cancel \in [Cancels -> CancelState]
      /\ faults \in [FaultKinds -> Nat] /\ "block" \in FaultKinds
  BY DEF TypedJobs, TypeOK, FaultKinds
<1>2. faults' = faults \/ \E kind \in FaultKinds : Count(kind)
  BY UpdatesKeepRows DEF Next, Request, RequestRetry, RequestHeal, RequestGate, Dispatch, Publish,
         DispatchFailureLoad, DispatchFailureCommit, PublishRaises, Cancel, CancelRead,
         CancelLoadTasks, CancelCommit, WorkerStep, TakeMessage, Load, LoadDeduplicated, LoadRun,
         RunCancelled, LoadRetry, RetryUnmatched, LoadHeal, LoadGate, RunTests, ResetFirst, Begin, Commit,
         Recover, FailJobCommit, FailCommit, Heal, HealBegin, HealCommit, HealFailCommit, Gate,
         GateBegin, GateCommit, Ack, Fault, Raise, GuardrailBlock, HealBlock, Crash, Redeliver,
         FaultKinds, vars
<1>3. faults.block = 0
  <2>1. faults' = faults \/ \E kind \in FaultKinds : faults' = [faults EXCEPT ![kind] = faults[kind] + 1]
    BY <1>2 DEF Count
  <2> QED
    BY <1>1, <2>1
<1>4. /\ \A j \in Jobs : api[j].pc = "failing" => Nonterminal \subseteq api[j].tasks
      /\ \A r \in Cancels : cancel[r].pc = "loaded" => Nonterminal \subseteq cancel[r].tasks
      /\ \A w \in Workers : KnowsLiveTasks(w)
  BY <1>3 DEF TasksSettleTogether, KnowsLiveTasks
<1>5. ASSUME NEW S \in SUBSET TaskIds, Nonterminal \subseteq S, FailTasks(S)
      PROVE  Nonterminal' = {}
  BY <1>1, <1>5, FailedTasks DEF Nonterminal, Terminal
<1>6. ASSUME UNCHANGED <<exec, task>>
      PROVE  Claim
  BY <1>6
<1>7. ASSUME NEW j \in Jobs, Request \/ Dispatch(j) \/ PublishRaises(j)
      PROVE  Claim
  <2>1. CASE DispatchFailureCommit(j)
    BY <1>1, <1>4, <1>5, <2>1 DEF DispatchFailureCommit, RequestState
  <2> QED
    BY <1>7, <2>1 DEF Request, RequestRetry, RequestHeal, RequestGate, Dispatch,
                      Publish, DispatchFailureLoad, PublishRaises, rows
<1>8. ASSUME NEW r \in Cancels, Cancel(r)
      PROVE  Claim
  <2>1. CASE CancelCommit(r)
    BY <1>1, <1>4, <2>1 DEF CancelCommit, Nonterminal, Terminal
  <2> QED
    BY <1>8, <2>1 DEF Cancel, CancelRead, CancelLoadTasks, rows
<1>9. ASSUME NEW w \in Workers, WorkerStep(w) \/ Fault(w)
      PROVE  Claim
  <2>1. worker[w] \in WorkerState /\ worker[w].tasks \in SUBSET TaskIds
    BY <1>1 DEF WorkerState
  <2>2. CASE Commit(w)
    <3>1. worker[w].job \in TestJobs /\ Record(w, worker[w].tasks) /\ At(w, "executing")
      BY <2>2 DEF Commit, TypedJobs, JobsExist, At
    <3>2. \A t \in worker[w].tasks : Terminal(task'[t])
      BY <1>1, <2>1, <3>1, RecordRows
    <3>3. \A t \in TaskIds \ worker[w].tasks : task'[t] = task[t] /\ t \notin Nonterminal
      BY <1>1, <1>4, <2>1, <3>1, RecordRows DEF KnowsLiveTasks, At
    <3> QED
      BY <3>2, <3>3 DEF Nonterminal
  <2>3. CASE FailCommit(w)
    BY <1>4, <1>5, <2>1, <2>3 DEF FailCommit, KnowsLiveTasks, At
  <2>4. CASE GuardrailBlock(w)
    BY <1>1, <1>3, <2>4 DEF GuardrailBlock, Count
  <2>5. CASE HealCommit(w) \/ HealBlock(w) \/ HealFailCommit(w)
    BY <1>1, <2>5 DEF HealCommit, HealBlock, HealFailCommit, RestoreStage, ExecutionRow
  <2>6. CASE GateCommit(w)
    BY <1>1, <2>6, WriteChoice DEF GateCommit, GateDecides, ExecutionRow
  <2> QED
    BY <1>9, <2>2, <2>3, <2>4, <2>5, <2>6
    DEF WorkerStep, TakeMessage, Load, LoadDeduplicated, LoadRun, RunCancelled, LoadRetry,
        RetryUnmatched, LoadHeal, LoadGate, RunTests, ResetFirst, Begin, Recover, FailJobCommit, Heal,
        HealBegin, Gate, GateBegin, Ack, Fault, Raise, Crash, Redeliver, rows
<1>10. Claim
  <2>1. GateJob \in Jobs
    BY DEF Jobs
  <2> HIDE DEF Claim
  <2>2. CASE UNCHANGED vars
    BY <1>6, <2>2 DEF vars, Claim
  <2>3. CASE \E r \in Reviews : Update(r)
    BY <1>6, <2>3, UpdatesKeepRows DEF Claim
  <2> QED
    BY <1>7, <1>8, <1>9, <2>1, <2>2, <2>3 DEF Next
<1> QED
  BY <1>3, <1>10

(* Tasks settle together. *)
LEMMA StepKeepsSettling ==
  TypedJobs /\ TasksSettleTogether /\ [Next]_vars => TasksSettleTogether'
<1> SUFFICES ASSUME TypedJobs, TasksSettleTogether, [Next]_vars, faults'.block = 0
             PROVE  /\ Nonterminal' \in {{}, TaskIds}
                    /\ \A j \in Jobs : api'[j].pc = "failing" => Nonterminal' \subseteq api'[j].tasks
                    /\ \A r \in Cancels :
                         cancel'[r].pc = "loaded" => Nonterminal' \subseteq cancel'[r].tasks
                    /\ \A w \in Workers : KnowsLiveTasks(w)'
  BY DEF TasksSettleTogether, KnowsLiveTasks
<1>1. faults.block = 0
  BY SettlesOrKeeps
<1>2. CASE Nonterminal' = {}
  BY <1>2 DEF KnowsLiveTasks
<1>3. CASE task' = task /\ Nonterminal' # {}
  <2>1. /\ Nonterminal' = Nonterminal /\ Nonterminal = TaskIds
        /\ \A t \in TaskIds : ~Terminal(task[t])
    BY <1>1, <1>3 DEF TasksSettleTogether, Nonterminal
  <2>2. /\ \A j \in Jobs : api[j].pc = "failing" => Nonterminal \subseteq api[j].tasks
        /\ \A r \in Cancels : cancel[r].pc = "loaded" => Nonterminal \subseteq cancel[r].tasks
        /\ \A w \in Workers : KnowsLiveTasks(w)
        /\ api \in [Jobs -> RequestState] /\ cancel \in [Cancels -> CancelState]
    BY <1>1 DEF TasksSettleTogether, KnowsLiveTasks, TypedJobs, TypeOK
  <2>3. \A j \in Jobs : api'[j].pc = "failing" => Nonterminal \subseteq api'[j].tasks
    <3>1. CASE api' = api
      BY <2>2, <3>1
    <3>2. ASSUME NEW j \in Jobs, NEW pc \in {"publish", "done", "rolled_back"},
                 \/ api' = [api EXCEPT ![j].pc = pc]
                 \/ api' = [api EXCEPT ![j] = [IdleRequest EXCEPT !.pc = pc]]
          PROVE  \A i \in Jobs : api'[i].pc = "failing" => Nonterminal \subseteq api'[i].tasks
      <4> DEFINE moved == [api[j] EXCEPT !.pc = pc]
                 reset == [IdleRequest EXCEPT !.pc = pc]
      <4>1. moved.pc = pc /\ reset.pc = pc
        BY <2>2 DEF RequestState, IdleRequest
      <4>2. api' = [api EXCEPT ![j] = moved] \/ api' = [api EXCEPT ![j] = reset]
        BY <3>2
      <4> HIDE DEF moved, reset
      <4> QED
        BY <2>2, <4>1, <4>2
    <3>3. ASSUME NEW j \in Jobs, DispatchFailureLoad(j)
          PROVE  \A i \in Jobs : api'[i].pc = "failing" => Nonterminal \subseteq api'[i].tasks
      BY <2>2, <3>3 DEF DispatchFailureLoad
    <3>4. GateJob \in Jobs
      BY DEF Jobs
    <3>5. CASE Request \/ \E j \in Jobs : Dispatch(j) \/ PublishRaises(j)
      BY <3>1, <3>2, <3>3, <3>4, <3>5
      DEF Request, RequestRetry, RequestHeal, RequestGate, Dispatch, Publish,
          DispatchFailureCommit, PublishRaises
    <3>6. CASE (\E r \in Cancels : Cancel(r)) \/ (\E w \in Workers : WorkerStep(w) \/ Fault(w))
                 \/ (\E r \in Reviews : Update(r)) \/ UNCHANGED vars
      <4>1. api' = api
        BY <3>6, UpdatesKeepRows DEF Cancel, CancelRead, CancelLoadTasks, CancelCommit,
             WorkerStep, TakeMessage, Load, LoadDeduplicated, LoadRun,
             RunCancelled, LoadRetry, RetryUnmatched, LoadHeal, LoadGate, RunTests, ResetFirst, Begin, Commit,
             Recover, FailJobCommit, FailCommit, Heal, HealBegin, HealCommit, HealFailCommit, Gate,
             GateBegin, GateCommit, Ack, Fault, Raise, GuardrailBlock, HealBlock, Crash, Redeliver,
             vars
      <4> QED
        BY <3>1, <4>1
    <3> QED
      BY <3>5, <3>6 DEF Next
  <2>4. \A r \in Cancels : cancel'[r].pc = "loaded" => Nonterminal \subseteq cancel'[r].tasks
    <3>1. ASSUME NEW q \in Cancels, Cancel(q)
          PROVE  \A r \in Cancels : cancel'[r].pc = "loaded" => Nonterminal \subseteq cancel'[r].tasks
      BY <2>2, <3>1 DEF Cancel, CancelRead, CancelLoadTasks, CancelCommit, CancelState
    <3>2. CASE cancel' = cancel
      BY <2>2, <3>2
    <3>3. CASE Request \/ (\E j \in Jobs : Dispatch(j) \/ PublishRaises(j))
                 \/ (\E w \in Workers : WorkerStep(w) \/ Fault(w)) \/ (\E r \in Reviews : Update(r)) \/ UNCHANGED vars
      <4>1. cancel' = cancel
        BY <3>3, UpdatesKeepRows DEF Request, RequestRetry, RequestHeal, RequestGate, Dispatch,
             Publish, DispatchFailureLoad, DispatchFailureCommit, PublishRaises,
             WorkerStep, TakeMessage, Load, LoadDeduplicated, LoadRun,
             RunCancelled, LoadRetry, RetryUnmatched, LoadHeal, LoadGate, RunTests, ResetFirst, Begin, Commit,
             Recover, FailJobCommit, FailCommit, Heal, HealBegin, HealCommit, HealFailCommit, Gate,
             GateBegin, GateCommit, Ack, Fault, Raise, GuardrailBlock, HealBlock, Crash, Redeliver,
             vars
      <4> QED
        BY <3>2, <4>1
    <3> QED
      BY <3>1, <3>3 DEF Next
  <2>5. \A w \in Workers : worker'[w].pc \in {"loaded", "executing", "failing"} =>
          Nonterminal \subseteq worker'[w].tasks
    <3>1. CASE worker' = worker
      BY <2>2, <3>1 DEF KnowsLiveTasks
    <3>2. ASSUME NEW w \in Workers, WorkerStep(w) \/ Fault(w)
          PROVE  \A v \in Workers : worker'[v].pc \in {"loaded", "executing", "failing"} =>
                   Nonterminal \subseteq worker'[v].tasks
      BY <2>1, <2>2, <3>2, WorkerSteps DEF KnowsLiveTasks
    <3> QED
      BY <3>1, <3>2, OthersMoveNoWorker DEF Next
  <2> QED
    BY <2>1, <2>3, <2>4, <2>5 DEF KnowsLiveTasks
<1> QED
  BY <1>2, <1>3, SettlesOrKeeps

(* A stopped execution stays settled. *)
LEMMA StepKeepsStopped ==
  TypedJobs /\ TasksSettleTogether /\ StoppedHasNoLiveTask /\ [Next]_vars => StoppedHasNoLiveTask'
<1> SUFFICES ASSUME TypedJobs, TasksSettleTogether, StoppedHasNoLiveTask, [Next]_vars,
                    exec'.status \in {"failed", "cancelled"}, faults'.block = 0, Nonterminal' # {}
             PROVE  FALSE
  BY DEF StoppedHasNoLiveTask
<1>1. faults.block = 0 /\ task' = task /\ exec'.status = exec.status
  BY SettlesOrKeeps
<1> QED
  BY <1>1 DEF StoppedHasNoLiveTask, Nonterminal

-----------------------------------------------------------------------------
(* Who writes                                                              *)

(* A gate that does not find the execution's row free has nothing to write *)
(* there.                                                                  *)
LEMMA GateWrites ==
  ASSUME TypedJobs, NEW w \in Workers, GateCommit(w)
  PROVE  UNCHANGED <<exec, task, payload, attempts>> \/ ExecFree
<1>1. CASE worker[w].decides /\ ~GateWritesExec(w)
  <2>1. /\ worker[w].execSeen = [status |-> "completed", stage |-> "GATE"]
        /\ exec' = [status |-> Write(worker[w].execSeen.status, "completed", exec.status),
                    stage  |-> Write(worker[w].execSeen.stage, "GATE", exec.stage)]
        /\ UNCHANGED <<task, payload, attempts>>
    BY <1>1 DEF GateCommit, GateDecides, GateWritesExec
  <2>2. exec' = [status |-> exec.status, stage |-> exec.stage]
    BY <2>1 DEF Write
  <2>3. exec \in ExecutionRow
    BY DEF TypedJobs, TypeOK
  <2> QED
    BY <2>1, <2>2, <2>3 DEF ExecutionRow
<1>2. CASE ~(worker[w].decides /\ ~GateWritesExec(w))
  BY <1>2 DEF GateCommit, GateDecides, GateWaits
<1> QED
  BY <1>1, <1>2

(* Whoever writes the execution, its tasks or their results, either holds  *)
(* the execution's row lock and ends its transaction, or finds it free.    *)
LEMMA WritersHoldExec ==
  ASSUME TypedJobs, [Next]_vars
  PROVE  \/ UNCHANGED <<exec, task, payload, attempts>>
         \/ ExecFree
         \/ \E w \in Workers : HoldsExec(w) /\ ~At(w, "executing")'
<1> DEFINE Claim == \/ UNCHANGED <<exec, task, payload, attempts>>
                    \/ ExecFree
                    \/ \E w \in Workers : HoldsExec(w) /\ ~At(w, "executing")'
<1>1. worker \in [Workers -> WorkerState]
  BY DEF TypedJobs, TypeOK
<1>2. ASSUME NEW j \in Jobs, Request \/ Dispatch(j) \/ PublishRaises(j)
      PROVE  Claim
  BY <1>2 DEF Request, RequestRetry, RequestHeal, RequestGate, Dispatch,
              Publish, DispatchFailureLoad, DispatchFailureCommit, PublishRaises, rows
<1>3. ASSUME NEW r \in Cancels, Cancel(r)
      PROVE  Claim
  BY <1>3 DEF Cancel, CancelRead, CancelLoadTasks, CancelCommit, rows
<1>4. ASSUME NEW w \in Workers, WorkerStep(w) \/ Fault(w)
      PROVE  Claim
  <2>1. ASSUME NEW pc \in {"ack", "rolled_back"}, HoldsExec(w), Forget(w, pc)
        PROVE  Claim
    <3>1. worker'[w].pc = pc
      BY <1>1, <2>1, ForgetWorker DEF WorkerPC
    <3> QED
      BY <2>1, <3>1 DEF At
  <2>2. CASE Commit(w) \/ GuardrailBlock(w)
    BY <2>1, <2>2 DEF Commit, GuardrailBlock, HoldsExec, Done
  <2>3. CASE HealCommit(w) \/ HealBlock(w)
    <3>1. CASE HealWritesExec(w)
      BY <2>1, <2>3, <3>1 DEF HealCommit, HealBlock, HoldsExec, Done
    <3>2. CASE ~HealWritesExec(w)
      BY <2>3, <3>2 DEF HealCommit, HealBlock
    <3> QED
      BY <3>1, <3>2
  <2>4. CASE FailCommit(w) \/ HealFailCommit(w)
    BY <2>4 DEF FailCommit, HealFailCommit
  <2>5. CASE GateCommit(w)
    BY <2>5, GateWrites
  <2> QED
    BY <1>4, <2>2, <2>3, <2>4, <2>5
    DEF WorkerStep, TakeMessage, Load, LoadDeduplicated, LoadRun, RunCancelled, LoadRetry,
        RetryUnmatched, LoadHeal, LoadGate, RunTests, ResetFirst, Begin, Recover, FailJobCommit, Heal,
        HealBegin, Gate, GateBegin, Ack, Fault, Raise, Crash, Redeliver, rows
<1>5. GateJob \in Jobs
  BY DEF Jobs
<1>6. ASSUME UNCHANGED vars
      PROVE  Claim
  BY <1>6 DEF vars
<1>7. ASSUME NEW r \in Reviews, Update(r)
      PROVE  Claim
  BY <1>7, UpdatesKeepRows
<1>8. Claim
  <2> HIDE DEF Claim
  <2> QED
    BY <1>2, <1>3, <1>4, <1>5, <1>6, <1>7 DEF Next
<1> QED
  BY <1>8

(* A gate that writes the execution decides only when its row is free.     *)
LEMMA ExclusiveDecision ==
  ASSUME [Next]_vars, decision' = "exclusive"
  PROVE  decision = "exclusive" \/ ExecFree
<1>1. ASSUME NEW w \in Workers, GateCommit(w)
      PROVE  decision = "exclusive" \/ ExecFree
  BY <1>1 DEF GateCommit, GateDecides, GateWaits
<1>2. ASSUME NEW r \in Reviews, Update(r)
      PROVE  decision = "exclusive"
  BY <1>2 DEF Update, UpdateFinding, UpdateEnds, rows
<1>3. ASSUME NEW w \in Workers, Commit(w) \/ GuardrailBlock(w)
      PROVE  decision = "exclusive"
  BY <1>3 DEF Commit, GuardrailBlock, ResetRetryOutputs
<1>4. \/ decision' = decision
      \/ \E r \in Reviews : Update(r)
      \/ \E w \in Workers : GateCommit(w) \/ Commit(w) \/ GuardrailBlock(w)
  BY DEF Next, Request, RequestRetry, RequestHeal, RequestGate, Dispatch, Publish,
         DispatchFailureLoad, DispatchFailureCommit, PublishRaises, Cancel, CancelRead,
         CancelLoadTasks, CancelCommit, WorkerStep, TakeMessage, Load, LoadDeduplicated, LoadRun,
         RunCancelled, LoadRetry, RetryUnmatched, LoadHeal, LoadGate, RunTests, ResetFirst, Begin,
         Recover, FailJobCommit, FailCommit, Heal, HealBegin, HealCommit, HealFailCommit, Gate,
         GateBegin, Ack, Fault, Raise, HealBlock, Crash, Redeliver, rows, vars
<1> QED
  BY <1>1, <1>2, <1>3, <1>4

(* A worker that runs tasks gets to its acknowledgement by its commit.     *)
LEMMA EndsInAck ==
  ASSUME TypedJobs, [Next]_vars, NEW w \in Workers, At(w, "executing"), At(w, "ack")'
  PROVE  Commit(w)
<1>1. worker \in [Workers -> WorkerState]
  BY DEF TypedJobs, TypeOK
<1>2. WorkerStep(w) \/ Fault(w)
  <2>1. worker' # worker /\ worker'[w] # worker[w]
    BY DEF At
  <2>2. PICK v \in Workers : WorkerStep(v) \/ Fault(v)
    BY <2>1, OthersMoveNoWorker DEF Next
  <2> QED
    BY <2>1, <2>2, WorkerSteps
<1>3. Commit(w) \/ GuardrailBlock(w) \/ Raise(w) \/ Crash(w) \/ Redeliver(w)
  BY <1>2 DEF At, WorkerStep, TakeMessage, Load, LoadDeduplicated, LoadRun, RunCancelled, LoadRetry,
              RetryUnmatched, LoadHeal, LoadGate, RunTests, ResetFirst, Begin, Recover,
              FailJobCommit, FailCommit, Heal, HealBegin, HealCommit, HealFailCommit, Gate,
              GateBegin, GateCommit, Ack, Fault, HealBlock
<1>4. ~Forget(w, "rolled_back")
  BY <1>1, ForgetWorker DEF WorkerPC, At
<1>5. ~Crash(w) /\ ~Redeliver(w)
  BY <1>1, IdleIsTyped DEF Crash, Redeliver, IdleFacts, At
<1> QED
  BY <1>3, <1>4, <1>5 DEF GuardrailBlock, Raise

(* While a retry has the execution's row no gate decides that writes       *)
(* there, and it has deleted the decision it found.                        *)
LEMMA StepKeepsReset ==
  ASSUME TypedJobs, ResetUnderLock, [Next]_vars
  PROVE  ResetUnderLock'
<1> SUFFICES ASSUME NEW w \in Workers, At(w, "executing")', worker'[w].job \in RetryJobs,
                    FirstFlushWritesExec(w)', decision' = "exclusive"
             PROVE  worker'[w].reset = "found"
  BY DEF ResetUnderLock
<1>1. CASE worker'[w] = worker[w]
  <2>1. At(w, "executing") /\ worker[w].job \in RetryJobs /\ FirstFlushWritesExec(w)
    BY <1>1 DEF At, FirstFlushWritesExec
  <2>2. ~ExecFree
    BY <2>1 DEF ExecFree, HoldsExec
  <2>3. decision = "exclusive"
    BY <2>2, ExclusiveDecision
  <2> QED
    BY <1>1, <2>1, <2>3 DEF ResetUnderLock
<1>2. CASE Begin(w)
  <2>1. /\ worker'[w].job = worker[w].job /\ worker'[w].execSeen = worker[w].execSeen
        /\ worker[w] \in WorkerState /\ worker \in [Workers -> WorkerState]
    BY <1>2, BeginWorker DEF TypedJobs, TypeOK
  <2>2. worker[w].job # RunJob /\ FirstFlushWritesExec(w) /\ decision' = decision
    BY <1>2, <2>1, LifecycleAssumption DEF FirstFlushWritesExec, Begin, rows
  <2>3. worker' = [worker EXCEPT ![w] = [worker[w] EXCEPT !.pc = "executing", !.reset = Deletion]]
    BY <1>2, <2>2 DEF Begin, BeginRun, BeginRetry
  <2>4. [worker[w] EXCEPT !.pc = "executing", !.reset = Deletion].reset = Deletion
    BY <2>1 DEF WorkerState
  <2>5. worker'[w].reset = Deletion
    BY <2>1, <2>3, <2>4
  <2> QED
    BY <2>2, <2>5 DEF Deletion
<1>3. CASE worker'[w] # worker[w]
  <2>1. PICK v \in Workers : WorkerStep(v) \/ Fault(v)
    BY <1>3, OthersMoveNoWorker DEF Next
  <2>2. v = w /\ Begin(w)
    BY <1>3, <2>1, WorkerSteps
  <2> QED
    BY <1>2, <2>2
<1> QED
  BY <1>1, <1>3

-----------------------------------------------------------------------------
(* Settled jobs settle the execution                                       *)

(* What a worker goes to the program points with that settle a job.        *)
LEMMA WorkerLoadsStatus ==
  ASSUME TypedJobs, JobOfPC, NEW w \in Workers, WorkerStep(w) \/ Fault(w),
         worker'[w] # worker[w]
  PROVE  /\ worker'[w].pc = "cancelled" => worker'[w].job = RunJob /\ exec.status = "cancelled"
         /\ worker'[w].pc = "failing" => worker'[w].execSeen.status = exec.status
         /\ worker'[w].pc \in {"load_heal", "healing"} => worker'[w].job \in HealJobs
         /\ worker'[w].pc = "failing_job" => worker'[w].job \notin TestJobs
<1> DEFINE Claim ==
      /\ worker'[w].pc = "cancelled" => worker'[w].job = RunJob /\ exec.status = "cancelled"
      /\ worker'[w].pc = "failing" => worker'[w].execSeen.status = exec.status
      /\ worker'[w].pc \in {"load_heal", "healing"} => worker'[w].job \in HealJobs
      /\ worker'[w].pc = "failing_job" => worker'[w].job \notin TestJobs
      Elsewhere == {"idle", "taken", "loaded", "executing", "rolled_back", "load_gate", "gating", "ack"}
<1>1. /\ TypeOK /\ worker \in [Workers -> WorkerState] /\ worker[w] \in WorkerState
      /\ exec \in ExecutionRow
  BY DEF TypedJobs, TypeOK
<1>2. ASSUME worker'[w].pc \in Elsewhere
      PROVE  Claim
  BY <1>2
<1>3. ASSUME NEW pc \in {"ack", "rolled_back"}, Forget(w, pc)
      PROVE  Claim
  BY <1>1, <1>2, <1>3, ForgetWorker DEF WorkerPC
<1>4. ASSUME NEW new \in WorkerState, worker' = [worker EXCEPT ![w] = new], new.pc \in Elsewhere
      PROVE  Claim
  BY <1>1, <1>2, <1>4
<1>5. ASSUME NEW pc \in WorkerPC \ {"failing", "healing", "failing_job"},
             NEW S \in SUBSET TaskIds, At(w, "taken"), LoadAt(w, pc, S),
             pc = "cancelled" => worker[w].job = RunJob /\ exec.status = "cancelled",
             pc = "load_heal" => worker[w].job \in HealJobs
      PROVE  Claim
  <2>1. worker[w].job \in Jobs /\ job[worker[w].job] # "absent"
    BY <1>5, AtWork DEF At
  <2>2. worker'[w].pc = pc /\ worker'[w].job = worker[w].job
    BY <1>1, <1>5, <2>1, LoadWorker
  <2> QED
    BY <1>5, <2>2
<1>6. CASE TakeMessage(w)
  <2>1. PICK j \in ready : worker' = [worker EXCEPT ![w] = [IdleWorker EXCEPT !.pc = "taken", !.job = j]]
    BY <1>6 DEF TakeMessage
  <2>2. /\ [IdleWorker EXCEPT !.pc = "taken", !.job = j] \in WorkerState
        /\ [IdleWorker EXCEPT !.pc = "taken", !.job = j].pc = "taken"
    BY <1>1, <2>1, IdleIsTyped DEF IdleFacts, WorkerState, WorkerPC, TypeOK
  <2> QED
    BY <1>4, <2>1, <2>2
<1>7. CASE LoadDeduplicated(w) \/ RetryUnmatched(w) \/ RunCancelled(w)
  BY <1>3, <1>7 DEF LoadDeduplicated, RetryUnmatched, RunCancelled, Done
<1>8. CASE LoadRun(w)
  <2>1. CASE exec.status = "cancelled"
    BY <1>5, <1>8, <2>1 DEF LoadRun, WorkerPC
  <2>2. CASE exec.status # "cancelled"
    BY <1>5, <1>8, <2>2 DEF LoadRun, WorkerPC
  <2> QED
    BY <2>1, <2>2
<1>9. CASE LoadRetry(w)
  <2>1. TasksForRetryScope(worker[w].job) \in SUBSET TaskIds
    BY DEF TasksForRetryScope
  <2> QED
    BY <1>5, <1>9, <2>1 DEF LoadRetry, WorkerPC
<1>10. CASE LoadHeal(w) \/ LoadGate(w)
  BY <1>5, <1>10 DEF LoadHeal, LoadGate, WorkerPC
<1>11. CASE ResetFirst(w) \/ Begin(w)
  BY <1>1, <1>2, <1>11, BeginWorker DEF TypeOK
<1>12. CASE Commit(w) \/ FailJobCommit(w) \/ FailCommit(w) \/ HealCommit(w) \/ HealFailCommit(w)
              \/ GateCommit(w)
  BY <1>3, <1>12 DEF Commit, FailJobCommit, FailCommit, HealCommit, HealFailCommit, GateCommit, Done
<1>13. CASE Recover(w)
  <2>1. CASE Done(w)
    BY <1>3, <2>1 DEF Done
  <2>2. CASE ~Done(w)
    <3> DEFINE pc     == IF FailsJobOnly(w) THEN "failing_job" ELSE "failing"
               loaded == [worker[w] EXCEPT !.pc = pc, !.jobSeen = job[worker[w].job],
                            !.execSeen.status = exec.status, !.tasks = Nonterminal]
    <3>1. worker' = [worker EXCEPT ![w] = loaded]
      BY <1>13, <2>2 DEF Recover
    <3>2. /\ loaded.pc = pc /\ loaded.job = worker[w].job /\ loaded.execSeen.status = exec.status
      BY <1>1 DEF WorkerState, ExecutionRow
    <3>3. worker'[w] = loaded
      <4> HIDE DEF loaded
      <4> QED
        BY <1>1, <3>1
    <3>4. FailsJobOnly(w) => worker[w].job \notin TestJobs
      BY LifecycleAssumption DEF FailsJobOnly
    <3> HIDE DEF loaded
    <3> QED
      BY <3>2, <3>3, <3>4
  <2> QED
    BY <2>1, <2>2
<1>14. CASE HealBegin(w)
  <2>1. worker'[w].pc = "healing" /\ worker'[w].job = worker[w].job
    BY <1>1, <1>14, GotoWorker DEF HealBegin, WorkerPC
  <2>2. worker[w].job \in HealJobs
    BY <1>14 DEF HealBegin, JobOfPC, At
  <2> QED
    BY <2>1, <2>2
<1>15. CASE GateBegin(w)
  BY <1>1, <1>2, <1>15, GateWorker
<1>16. CASE Ack(w) \/ Crash(w)
  BY <1>4, <1>16, IdleIsTyped DEF Ack, Crash, IdleFacts
<1>17. CASE Raise(w) \/ GuardrailBlock(w) \/ HealBlock(w)
  BY <1>3, <1>17 DEF Raise, GuardrailBlock, HealBlock
<1>18. CASE Redeliver(w)
  BY <1>18 DEF Redeliver
<1> QED
  BY <1>6, <1>7, <1>8, <1>9, <1>10, <1>11, <1>12, <1>13, <1>14, <1>15, <1>16, <1>17, <1>18
  DEF WorkerStep, Load, RunTests, Heal, Gate, Fault

LEMMA StepKeepsJobOfPC ==
  ASSUME TypedJobs, JobOfPC, [Next]_vars
  PROVE  JobOfPC'
<1>1. CASE worker' = worker
  BY <1>1 DEF JobOfPC, At
<1>2. ASSUME NEW w \in Workers, WorkerStep(w) \/ Fault(w)
      PROVE  JobOfPC'
  <2>1. \A v \in Workers : v # w => worker'[v] = worker[v]
    BY <1>2, WorkerSteps
  <2>2. CASE worker'[w] = worker[w]
    BY <2>1, <2>2 DEF JobOfPC, At
  <2>3. CASE worker'[w] # worker[w]
    <3>1. /\ worker'[w].pc = "cancelled" => worker'[w].job = RunJob
          /\ worker'[w].pc \in {"load_heal", "healing"} => worker'[w].job \in HealJobs
          /\ worker'[w].pc = "failing_job" => worker'[w].job \notin TestJobs
      BY <1>2, <2>3, WorkerLoadsStatus
    <3> QED
      BY <2>1, <3>1 DEF JobOfPC, At
  <2> QED
    BY <2>2, <2>3
<1> QED
  BY <1>1, <1>2, OthersMoveNoWorker DEF Next

(* A worker that leaves the execution live has found it live, and settles  *)
(* no job that is to settle it.                                            *)
LEMMA WorkerKeepsSettlers ==
  ASSUME TypedJobs, JobOfPC, NEW w \in Workers, WorkerStep(w) \/ Fault(w),
         faults'.block = 0, ~Terminal(exec'.status)
  PROVE  /\ ~Terminal(exec.status)
         /\ \A j \in TestJobs : Settler(j) => job'[j] = job[j]
         /\ UNCHANGED api
<1> DEFINE Claim == /\ ~Terminal(exec.status)
                    /\ \A j \in TestJobs : Settler(j) => job'[j] = job[j]
                    /\ UNCHANGED api
<1>1. /\ TypeOK /\ exec \in ExecutionRow /\ job \in [Jobs -> JobStatus \cup {"absent"}]
      /\ worker[w] \in WorkerState
  BY DEF TypedJobs, TypeOK
<1>2. CASE UNCHANGED <<exec, job, api>>
  BY <1>2
<1>3. ASSUME NEW k, k \notin TestJobs, NEW status, job' = [job EXCEPT ![k] = status]
      PROVE  \A j \in TestJobs : job'[j] = job[j]
  BY <1>1, <1>3 DEF Jobs
<1>4. CASE RunCancelled(w)
  <2>1. ~Settler(RunJob)
    BY <1>4 DEF RunCancelled, JobOfPC, Settler
  <2> QED
    BY <1>1, <1>4, <2>1 DEF RunCancelled, Jobs
<1>5. CASE Commit(w)
  <2>1. exec'.status \in {"completed", "failed", "cancelled"}
    BY <1>5, VerdictIsTerminal DEF Commit, Reduced
  <2> QED
    BY <2>1 DEF Terminal
<1>6. CASE FailJobCommit(w)
  BY <1>3, <1>6 DEF FailJobCommit, JobOfPC, FailJob
<1>7. CASE FailCommit(w)
  <2>1. exec'.status = Fail(worker[w].execSeen.status, exec.status)
    BY <1>1, <1>7 DEF FailCommit, FailExecution, ExecutionRow
  <2>2. worker[w].execSeen.status = "failed" /\ exec'.status = exec.status
    BY <2>1 DEF Fail, Write, Terminal
  <2>3. ~Settler(worker[w].job)
    BY <1>7, <2>2 DEF FailCommit, Settler
  <2> QED
    BY <1>1, <1>7, <2>2, <2>3 DEF FailCommit, FailJob, Jobs
<1>8. CASE HealCommit(w) \/ HealFailCommit(w)
  <2>1. worker[w].job \in HealJobs /\ worker[w].job \notin TestJobs
    BY <1>8, LifecycleAssumption DEF HealCommit, HealFailCommit, JobOfPC, At
  <2>2. exec'.status = exec.status
    BY <1>1, <1>8 DEF HealCommit, HealFailCommit, RestoreStage, ExecutionRow
  <2> QED
    BY <1>3, <1>8, <2>1, <2>2 DEF HealCommit, HealFailCommit, FailJob
<1>9. CASE GateCommit(w)
  <2>1. exec'.status \in {exec.status, "completed"}
    BY <1>9, WriteChoice DEF GateCommit, GateDecides
  <2>2. exec'.status = exec.status
    BY <2>1 DEF Terminal
  <2> QED
    BY <1>3, <1>9, <2>2, LifecycleAssumption DEF GateCommit
<1>10. CASE GuardrailBlock(w) \/ HealBlock(w)
  <2>1. Count("block") /\ "block" \in FaultKinds
    BY <1>10 DEF GuardrailBlock, HealBlock, FaultKinds
  <2> QED
    BY <1>1, <2>1, Counted
<1> QED
  BY <1>2, <1>4, <1>5, <1>6, <1>7, <1>8, <1>9, <1>10
  DEF WorkerStep, TakeMessage, Load, LoadDeduplicated, LoadRun, LoadRetry, RetryUnmatched,
      LoadHeal, LoadGate, RunTests, ResetFirst, Begin, Recover, Heal, HealBegin, Gate, GateBegin, Ack, Fault,
      Raise, Crash, Redeliver, rows

(* So does a request, but a retry, which is itself to settle it.           *)
LEMMA RequestKeepsSettlers ==
  ASSUME TypedJobs, ~Terminal(exec'.status),
         \/ RequestGate \/ (\E j \in Jobs : RequestHeal(j)) \/ (\E r \in Reviews : Update(r))
         \/ \E j \in Jobs : Dispatch(j) \/ PublishRaises(j)
         \/ \E r \in Cancels : Cancel(r)
  PROVE  /\ ~Terminal(exec.status)
         /\ \A j \in TestJobs : Settler(j) => Settler(j)'
<1>1. /\ exec \in ExecutionRow /\ job \in [Jobs -> JobStatus \cup {"absent"}]
      /\ api \in [Jobs -> RequestState] /\ TestJobs \subseteq Jobs
  BY DEF TypedJobs, TypeOK, Jobs
<1>2. ASSUME worker' = worker, exec'.status = exec.status,
             \A j \in TestJobs : Settler(j) => job'[j] = job[j],
             \A j \in TestJobs : Settler(j) /\ api'[j].pc = "failing" => api'[j].execSeen # "failed"
      PROVE  /\ ~Terminal(exec.status)
             /\ \A j \in TestJobs : Settler(j) => Settler(j)'
  BY <1>2 DEF Settler, Live, At
<1>3. ASSUME worker' = worker, exec' = exec, job' = job, api' = api
      PROVE  /\ ~Terminal(exec.status)
             /\ \A j \in TestJobs : Settler(j) => Settler(j)'
  BY <1>2, <1>3 DEF Settler
<1>4. CASE RequestGate \/ \E j \in Jobs : RequestHeal(j)
  <2>1. PICK k \in HealJobs \cup {GateJob}, status \in JobStatus \cup {"absent"} :
          /\ job' = [job EXCEPT ![k] = status] /\ api' = [api EXCEPT ![k].pc = "publish"]
          /\ UNCHANGED <<exec, worker>>
    BY <1>1, <1>4 DEF RequestGate, RequestHeal, JobStatus, Jobs
  <2>2. \A j \in TestJobs : job'[j] = job[j] /\ api'[j] = api[j]
    BY <1>1, <2>1, LifecycleAssumption
  <2> QED
    BY <1>2, <2>1, <2>2 DEF Settler
<1>5. CASE \E r \in Reviews : Update(r)
  BY <1>3, <1>5, UpdatesKeepRows
<1>6. ASSUME NEW k \in Jobs, Publish(k) \/ PublishRaises(k)
      PROVE  /\ ~Terminal(exec.status)
             /\ \A j \in TestJobs : Settler(j) => Settler(j)'
  <2>1. PICK pc \in {"done", "rolled_back"} : api' = [api EXCEPT ![k].pc = pc]
    BY <1>6 DEF Publish, PublishRaises
  <2>2. \A j \in Jobs : api'[j] = api[j] \/ api'[j].pc = pc
    BY <1>1, <2>1 DEF RequestState
  <2>3. UNCHANGED <<exec, job, worker>>
    BY <1>6 DEF Publish, PublishRaises, rows
  <2> QED
    BY <1>1, <1>2, <2>2, <2>3 DEF Settler
<1>7. ASSUME NEW k \in Jobs, DispatchFailureLoad(k)
      PROVE  /\ ~Terminal(exec.status)
             /\ \A j \in TestJobs : Settler(j) => Settler(j)'
  <2>1. UNCHANGED <<exec, job, worker>> /\ exec.status # "failed"
    BY <1>7 DEF DispatchFailureLoad, rows, Terminal
  <2>2. \A j \in Jobs : api'[j] = api[j] \/ api'[j].execSeen = exec.status
    BY <1>1, <1>7 DEF DispatchFailureLoad
  <2> QED
    BY <1>1, <1>2, <2>1, <2>2 DEF Settler
<1>8. ASSUME NEW k \in Jobs, DispatchFailureCommit(k)
      PROVE  /\ ~Terminal(exec.status)
             /\ \A j \in TestJobs : Settler(j) => Settler(j)'
  <2>1. exec'.status = Fail(api[k].execSeen, exec.status)
    BY <1>1, <1>8 DEF DispatchFailureCommit, ExecutionRow
  <2>2. api[k].execSeen = "failed" /\ exec'.status = exec.status
    BY <2>1 DEF Fail, Write, Terminal
  <2>3. ~Settler(k)
    BY <1>8, <2>2 DEF DispatchFailureCommit, Settler
  <2>4. \A j \in Jobs \ {k} : job'[j] = job[j] /\ api'[j] = api[j]
    BY <1>1, <1>8 DEF DispatchFailureCommit
  <2>5. worker' = worker
    BY <1>8 DEF DispatchFailureCommit
  <2> QED
    BY <1>1, <1>2, <2>2, <2>3, <2>4, <2>5 DEF Settler
<1>9. ASSUME NEW r \in Cancels, Cancel(r)
      PROVE  /\ ~Terminal(exec.status)
             /\ \A j \in TestJobs : Settler(j) => Settler(j)'
  <2>1. ~CancelCommit(r)
    BY <1>1 DEF CancelCommit, Terminal, ExecutionRow
  <2> QED
    BY <1>3, <1>9, <2>1 DEF Cancel, CancelRead, CancelLoadTasks, rows
<1> QED
  BY <1>4, <1>5, <1>6, <1>7, <1>8, <1>9 DEF Dispatch

(* A retry makes the execution live, and nobody works on it yet. *)
LEMMA RetrySettles ==
  ASSUME TypedJobs, NEW j \in Jobs, RequestRetry(j)
  PROVE  j \in TestJobs /\ Settler(j)'
<1>1. /\ j \in RetryJobs /\ job[j] = "absent" /\ worker' = worker
      /\ job'[j] = "queued" /\ api'[j].pc = "publish"
  BY DEF RequestRetry, TypedJobs, TypeOK, RequestState
<1>2. \A w \in Workers : worker[w].job = j => At(w, "idle")
  BY <1>1 DEF TypedJobs, JobsExist
<1> QED
  BY <1>1, <1>2 DEF TestJobs, Settler, Live, At

(* No step forgets a guardrail block. *)
LEMMA BlocksCount ==
  ASSUME TypedJobs, [Next]_vars, faults'.block = 0
  PROVE  faults.block = 0
<1>1. /\ faults \in [FaultKinds -> Nat] /\ "block" \in FaultKinds
      /\ {"publish", "redeliver", "crash", "raise"} \subseteq FaultKinds
  BY DEF TypedJobs, TypeOK, FaultKinds
<1>2. ASSUME NEW kind \in FaultKinds, Count(kind)
      PROVE  faults.block = 0
  <2>1. faults' = [faults EXCEPT ![kind] = faults[kind] + 1]
    BY <1>2 DEF Count
  <2> QED
    BY <1>1, <2>1
<1>3. UNCHANGED faults \/ \E kind \in FaultKinds : Count(kind)
  BY <1>1, UpdatesKeepRows
  DEF Next, Request, RequestRetry, RequestHeal, RequestGate, Dispatch, Publish,
      DispatchFailureLoad, DispatchFailureCommit, PublishRaises, Cancel, CancelRead,
      CancelLoadTasks, CancelCommit, WorkerStep, TakeMessage, Load, LoadDeduplicated, LoadRun,
      RunCancelled, LoadRetry, RetryUnmatched, LoadHeal, LoadGate, RunTests, ResetFirst, Begin, Commit,
      Recover, FailJobCommit, FailCommit, Heal, HealBegin, HealCommit, HealFailCommit, Gate,
      GateBegin, GateCommit, Ack, Fault, Raise, GuardrailBlock, HealBlock, Crash, Redeliver, vars
<1> QED
  BY <1>2, <1>3

LEMMA StepKeepsLifecycle == LifecycleInv /\ [Next]_vars => LifecycleInv'
<1> SUFFICES ASSUME LifecycleInv, [Next]_vars PROVE LifecycleInv'
  OBVIOUS
<1>1. TypedJobs /\ OneWriter /\ TasksSettleTogether /\ StoppedHasNoLiveTask /\ ResetUnderLock
  BY DEF LifecycleInv, TypedJobs
<1>2. TypedJobs'
  BY <1>1, StepKeepsTypes
<1>3. OneWriter' /\ TasksSettleTogether' /\ StoppedHasNoLiveTask' /\ ResetUnderLock'
  BY <1>1, StepKeepsOneWriter, StepKeepsSettling, StepKeepsStopped, StepKeepsReset
<1> QED
  BY <1>2, <1>3 DEF LifecycleInv, TypedJobs

LEMMA StepKeepsSettlement ==
  ASSUME SettlementInv, [Next]_vars
  PROVE  SettlementInv'
<1>1. TypedJobs /\ JobOfPC /\ LifecycleInv
  BY DEF SettlementInv, LifecycleInv, TypedJobs
<1>2. LifecycleInv' /\ JobOfPC'
  BY <1>1, StepKeepsLifecycle, StepKeepsJobOfPC
<1>3. ASSUME faults'.block = 0, ~Terminal(exec'.status)
      PROVE  \E j \in TestJobs : Settler(j)'
  <2>1. faults.block = 0
    BY <1>1, <1>3, BlocksCount
  <2>2. ASSUME NEW w \in Workers, WorkerStep(w) \/ Fault(w)
        PROVE  \E j \in TestJobs : Settler(j)'
    <3>1. /\ ~Terminal(exec.status)
          /\ \A j \in TestJobs : Settler(j) => job'[j] = job[j]
          /\ UNCHANGED api
      BY <1>1, <1>3, <2>2, WorkerKeepsSettlers
    <3>2. PICK j \in TestJobs : Settler(j)
      BY <2>1, <3>1 DEF SettlementInv
    <3>3. \A v \in Workers : v # w => worker'[v] = worker[v]
      BY <1>1, <2>2, WorkerSteps
    <3>4. worker'[w] # worker[w] => /\ worker'[w].pc # "cancelled"
                                    /\ worker'[w].pc = "failing" =>
                                         worker'[w].execSeen.status # "failed"
      BY <1>1, <2>2, <3>1, WorkerLoadsStatus DEF Terminal
    <3>5. Live(j)'
      BY <3>1, <3>2 DEF Settler, Live
    <3>6. ASSUME NEW v \in Workers, worker'[v].job = j
          PROVE  /\ worker'[v].pc # "cancelled"
                 /\ worker'[v].pc = "failing" => worker'[v].execSeen.status # "failed"
      BY <3>2, <3>3, <3>4, <3>6 DEF Settler, At
    <3>7. Settler(j)'
      BY <3>1, <3>2, <3>5, <3>6 DEF Settler, At
    <3> QED
      BY <3>7
  <2>3. ASSUME NEW j \in Jobs, RequestRetry(j)
        PROVE  \E k \in TestJobs : Settler(k)'
    BY <1>1, <2>3, RetrySettles
  <2>4. ASSUME \/ RequestGate \/ (\E j \in Jobs : RequestHeal(j)) \/ (\E r \in Reviews : Update(r))
               \/ \E j \in Jobs : Dispatch(j) \/ PublishRaises(j)
               \/ \E r \in Cancels : Cancel(r)
        PROVE  \E j \in TestJobs : Settler(j)'
    <3>1. /\ ~Terminal(exec.status)
          /\ \A j \in TestJobs : Settler(j) => Settler(j)'
      BY <1>1, <1>3, <2>4, RequestKeepsSettlers
    <3>2. PICK j \in TestJobs : Settler(j)
      BY <2>1, <3>1 DEF SettlementInv
    <3> QED
      BY <3>1, <3>2
  <2>5. CASE UNCHANGED vars
    <3>1. PICK j \in TestJobs : Settler(j)
      BY <1>3, <2>1, <2>5 DEF SettlementInv, vars
    <3> QED
      BY <2>5, <3>1 DEF vars, Settler, Live, At
  <2> QED
    BY <2>2, <2>3, <2>4, <2>5 DEF Next, Request
<1> QED
  BY <1>2, <1>3 DEF SettlementInv

-----------------------------------------------------------------------------
(* The theorems                                                            *)

LEMMA InitKeepsLifecycle == Init => LifecycleInv
<1> SUFFICES ASSUME Init PROVE LifecycleInv
  OBVIOUS
<1>1. TypedJobs /\ \A w \in Workers : At(w, "idle")
  BY InitTyped, IdleIsTyped DEF Init, IdleFacts, At
<1>2. OneWriter
  BY <1>1 DEF OneWriter, HoldsExec, At
<1>3. Nonterminal = TaskIds
  BY DEF Init, Nonterminal, Terminal
<1>4. TasksSettleTogether
  BY <1>1, <1>3 DEF TasksSettleTogether, Init, IdleRequest, At
<1>5. StoppedHasNoLiveTask
  BY DEF StoppedHasNoLiveTask, Init
<1>6. ResetUnderLock
  BY <1>1 DEF ResetUnderLock, At
<1> QED
  BY <1>1, <1>2, <1>4, <1>5, <1>6 DEF LifecycleInv, TypedJobs

(* LifecycleInv is an inductive invariant: well-formed rows, every message *)
(* and worker on a job that exists, one transaction at a time that has     *)
(* written the execution, tasks that settle together, no live task in a    *)
(* stopped execution, and no decision behind the back of a retry.          *)
THEOREM LifecycleInvariant == Spec => []LifecycleInv
<1>1. Init => LifecycleInv
  BY InitKeepsLifecycle
<1>2. LifecycleInv /\ [Next]_vars => LifecycleInv'
  BY StepKeepsLifecycle
<1> QED
  BY <1>1, <1>2, PTL DEF Spec

(* Every variable stays in its domain. *)
THEOREM LifecycleTypeCorrect == Spec => []TypeOK
<1>1. LifecycleInv => TypeOK
  BY DEF LifecycleInv
<1> QED
  BY <1>1, LifecycleInvariant, PTL

(* A failed or cancelled execution has no live task, whatever jobs,        *)
(* retries, compensations and cancels raced, unless a guardrail block      *)
(* committed a half-done transaction.                                      *)
THEOREM StoppedExecutionsAreSettled == Spec => []StoppedHasNoLiveTask
<1>1. LifecycleInv => StoppedHasNoLiveTask
  BY DEF LifecycleInv
<1> QED
  BY <1>1, LifecycleInvariant, PTL

(* While a worker runs the tasks of an execution nobody else writes the    *)
(* execution or its tasks.                                                 *)
THEOREM RunsAreUndisturbed == Spec => RunUndisturbed
<1>1. LifecycleInv /\ [Next]_vars =>
        [\A w \in Workers : At(w, "executing") /\ At(w, "executing")' =>
           UNCHANGED <<exec, task, payload, attempts>>]_vars
  <2> SUFFICES ASSUME LifecycleInv, [Next]_vars,
                      NEW w \in Workers, At(w, "executing"), At(w, "executing")'
               PROVE  UNCHANGED <<exec, task, payload, attempts>>
    OBVIOUS
  <2>1. TypedJobs /\ OneWriter /\ HoldsExec(w)
    BY DEF LifecycleInv, TypedJobs, HoldsExec
  <2>2. ~ExecFree
    BY <2>1 DEF ExecFree
  <2>3. \A v \in Workers : HoldsExec(v) => v = w
    BY <2>1 DEF OneWriter
  <2> QED
    BY <2>1, <2>2, <2>3, WritersHoldExec
<1> QED
  BY <1>1, LifecycleInvariant, PTL DEF Spec, RunUndisturbed

(* The results of a retry leave no gate decision behind that was made      *)
(* under the execution's row lock, however many gates, retries and finding *)
(* updates raced, provided that the retry deleted under that lock as well. *)
THEOREM RetriesDropDecisions == Spec => RetryDropsDecision
<1> DEFINE Drops ==
      \A w \in Workers :
        At(w, "executing") /\ At(w, "ack")' /\ worker[w].job \in RetryJobs
          /\ FirstFlushWritesExec(w) => decision' # "exclusive"
<1>1. LifecycleInv /\ [Next]_vars => [Drops]_vars
  <2> SUFFICES ASSUME LifecycleInv, [Next]_vars, NEW w \in Workers, At(w, "executing"),
                      At(w, "ack")', worker[w].job \in RetryJobs, FirstFlushWritesExec(w)
               PROVE  decision' # "exclusive"
    OBVIOUS
  <2>1. TypedJobs /\ (worker[w].reset = "found" \/ decision # "exclusive") /\ ~ExecFree
    BY DEF LifecycleInv, TypedJobs, ResetUnderLock, ExecFree, HoldsExec
  <2>2. CASE decision # "exclusive"
    BY <2>1, <2>2, ExclusiveDecision
  <2>3. CASE worker[w].reset = "found"
    <3>1. Commit(w)
      BY <2>1, EndsInAck
    <3> QED
      BY <2>3, <3>1 DEF Commit, ResetRetryOutputs
  <2> QED
    BY <2>1, <2>2, <2>3
<1> QED
  BY <1>1, LifecycleInvariant, PTL DEF Spec, RetryDropsDecision

(* The job of the first run is the one that will write the outcome.        *)
LEMMA InitKeepsSettlement == Init => SettlementInv
<1> SUFFICES ASSUME Init PROVE SettlementInv
  OBVIOUS
<1>1. LifecycleInv
  BY InitKeepsLifecycle
<1>2. \A w \in Workers : worker[w].pc = "idle"
  BY IdleIsTyped DEF Init, IdleFacts
<1>3. JobOfPC
  BY <1>2 DEF JobOfPC, At
<1>4. RunJob \in TestJobs /\ RunJob \in Jobs
  BY DEF TestJobs, Jobs
<1>5. Settler(RunJob)
  BY <1>2, <1>4 DEF Settler, Live, Init, IdleRequest, At
<1> QED
  BY <1>1, <1>3, <1>4, <1>5 DEF SettlementInv

(* A queued or running execution has a job that will still write its       *)
(* outcome, unless a guardrail block committed a half-done transaction.    *)
THEOREM SettlementInvariant == Spec => []SettlementInv
<1>1. Init => SettlementInv
  BY InitKeepsSettlement
<1>2. SettlementInv /\ [Next]_vars => SettlementInv'
  BY StepKeepsSettlement
<1> QED
  BY <1>1, <1>2, PTL DEF Spec

(* When all of its jobs have settled so has the execution, whatever        *)
(* retries, compensations, cancels and lost workers raced, unless a        *)
(* guardrail block committed a half-done transaction.                      *)
THEOREM JobsSettleTheirExecution == Spec => []SettledJobsSettleExecution
<1>1. SettlementInv => SettledJobsSettleExecution
  BY DEF SettlementInv, SettledJobsSettleExecution, Settler, Live, Terminal, Jobs
<1> QED
  BY <1>1, SettlementInvariant, PTL

=============================================================================
