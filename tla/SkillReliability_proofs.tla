----------------------- MODULE SkillReliability_proofs -----------------------
(***************************************************************************)
(* Proofs about SkillReliability for every number of calls, processes,     *)
(* adapters and scopes, and every policy.                                  *)
(***************************************************************************)
EXTENDS SkillReliability, FiniteSetTheorems, TLAPS

-----------------------------------------------------------------------------
(* Types. *)

LEMMA PolicyFacts ==
  ASSUME NEW i \in Calls
  PROVE  /\ MaxAttempts(i) \in Nat /\ MaxAttempts(i) >= 1
         /\ Profile[i].skillCalls >= 1 /\ Profile[i].modelCalls >= 1
              => MaxAttempts(i) <= Profile[i].skillCalls
         /\ ~Replayable(i) => MaxAttempts(i) = 1
         /\ Profile[i].skillCalls \in Nat /\ Profile[i].modelCalls \in Nat
         /\ Profile[i].externalWrite \in BOOLEAN /\ Profile[i].reconciles \in BOOLEAN
<1>1. Profile[i] \in [mutation : BOOLEAN, externalWrite : BOOLEAN, idempotent : BOOLEAN,
                      lowRisk : BOOLEAN, skillCalls : Nat, modelCalls : Nat, reconciles : BOOLEAN]
  BY ReliabilityAssumption
<1>2. /\ Profile[i].skillCalls \in Nat /\ Profile[i].modelCalls \in Nat
      /\ Profile[i].externalWrite \in BOOLEAN /\ Profile[i].reconciles \in BOOLEAN
  BY <1>1
<1> DEFINE platform == IF Replayable(i) THEN Attempts ELSE 1
<1>3. platform \in Nat /\ platform >= 1 /\ (~Replayable(i) => platform = 1)
  BY ReliabilityAssumption
<1>4. MaxAttempts(i) = AtLeastOnce(Least(Least(platform, Profile[i].modelCalls), Profile[i].skillCalls))
  BY DEF MaxAttempts
<1> HIDE DEF platform
<1>5. QED
  BY <1>2, <1>3, <1>4 DEF AtLeastOnce, Least

\* The operations on a breaker return breakers.
LEMMA BreakerTypes ==
  ASSUME TypeOK, NEW c \in Breaker, NEW counts \in BOOLEAN
  PROVE  /\ Closed \in Breaker /\ Admit(c) \in Breaker /\ Failed(c, counts) \in Breaker
         /\ ~Refuses(c) => Admit(c).state \in {"closed", "half_open"}
<1>1. Closed \in Breaker
  BY DEF Breaker, Closed
<1>2. Admit(c) \in Breaker /\ (~Refuses(c) => Admit(c).state \in {"closed", "half_open"})
  BY DEF Breaker, Admit, Refuses
<1>3. Failed(c, counts) \in Breaker
  <2>1. now \in Nat
    BY DEF TypeOK
  <2>2. CASE ~counts
    BY <2>2 DEF Breaker, Failed
  <2>3. CASE counts
    BY <2>1, <2>3 DEF Breaker, Failed
  <2>4. QED
    BY <2>2, <2>3
<1>4. QED
  BY <1>1, <1>2, <1>3

LEMMA BreakersOf ==
  ASSUME NEW i \in Calls
  PROVE  Of(i) \in Breakers /\ (Fallback[i] # None => FallbackOf(i) \in Breakers)
         /\ SlotsOf(i) \subseteq Slots
  BY ReliabilityAssumption DEF Of, FallbackOf, Breakers, SlotsOf, Slots

LEMMA InitType == Init => TypeOK
  BY ReliabilityAssumption
  DEF Init, TypeOK, Breaker, Closed, Running, Breakers, Slots, Points, Over, Statuses, Verdicts, Reasons, AdapterOutcomes

\* A step that leaves the types of what it changes alone.
LEMMA MoveType ==
  ASSUME TypeOK, NEW i \in Calls, NEW point \in Points, Goto(i, point)
  PROVE  pc' \in [Calls -> Points]
  BY DEF TypeOK, Goto

LEMMA ResultType ==
  ASSUME TypeOK, NEW i \in Calls, NEW s \in Statuses, NEW r \in Verdicts \cup Reasons,
         result' = [result EXCEPT ![i] = [status |-> s, reason |-> r]]
  PROVE  result' \in [Calls -> [status : Statuses, reason : Verdicts \cup Reasons]]
  BY DEF TypeOK

LEMMA StatusTypes ==
  ASSUME NEW o \in Verdicts
  PROVE  StatusOf(o) \in Statuses
  BY DEF StatusOf, Statuses, Verdicts, AdapterOutcomes

LEMMA CheckpointTypes ==
  ASSUME NEW i \in Calls, NEW phase, NEW check \in Checkpoint(i, phase)
  PROVE  /\ check \in {"pass", "cancelled", "late", "late_result"}
         /\ check # "pass" => check \in Verdicts /\ StatusOf(check) \in {"cancelled", "timed_out"}
         /\ phase # "result" => check # "late_result"
  BY DEF Checkpoint, Verdicts, StatusOf

LEMMA LockTypes ==
  ASSUME TypeOK, NEW i \in Calls
  PROVE  /\ TakeLock(i) => holder' \in [IdemKeys -> Calls \cup {None}]
         /\ ReleaseLock(i) => holder' \in [IdemKeys -> Calls \cup {None}]
  BY DEF TypeOK, TakeLock, ReleaseLock

\* The start of a call.
LEMMA StartType ==
  ASSUME TypeOK, NEW i \in Calls, BuildPolicy(i) \/ Deduplicate(i) \/ Start(i)
  PROVE  TypeOK'
<1>1. CASE BuildPolicy(i)
  <2>1. pc' \in [Calls -> Points]
    BY <1>1, MoveType DEF BuildPolicy, Points
  <2>2. deadline' \in [Calls -> Nat]
    BY <1>1, ReliabilityAssumption DEF BuildPolicy, TypeOK
  <2>3. QED
    BY <1>1, <2>1, <2>2 DEF BuildPolicy, TypeOK, session, quota, loop, env
<1>2. CASE Deduplicate(i)
  <2>1. pc' \in [Calls -> Points]
    BY <1>2, MoveType DEF Deduplicate, Points, Over
  <2>2. QED
    BY <1>2, <2>1 DEF Deduplicate, TypeOK, session, quota, loop, env
<1>3. CASE Start(i)
  <2>1. PICK check \in Checkpoint(i, "preflight") \cup {"refused"} :
       IF check = "pass" /\ Preflight(i)
       THEN Goto(i, "lease") /\ UNCHANGED result
       ELSE /\ Goto(i, "ended")
            /\ result' = [result EXCEPT ![i] =
                 IF check = "pass" THEN [status |-> "blocked", reason |-> "budget"]
                                   ELSE [status |-> StatusOf(check), reason |-> check]]
    BY <1>3 DEF Start
  <2>2. pc' \in [Calls -> Points]
    BY <2>1, MoveType DEF Points
  <2>3. check = "pass" \/ (check \in Verdicts /\ StatusOf(check) \in Statuses)
    <3>1. CASE check \in Checkpoint(i, "preflight")
      <4>1. check # "pass" => check \in Verdicts
        BY <3>1, CheckpointTypes
      <4>2. QED
        BY <4>1, StatusTypes
    <3>2. CASE check = "refused"
      BY <3>2, StatusTypes DEF Verdicts, AdapterOutcomes
    <3>3. QED
      BY <3>1, <3>2
  <2>4. result' \in [Calls -> [status : Statuses, reason : Verdicts \cup Reasons]]
    <3>1. CASE check = "pass"
      BY <2>1, <3>1 DEF TypeOK, Statuses, Reasons
    <3>2. CASE check # "pass"
      BY <2>1, <2>3, <3>2 DEF TypeOK
    <3>3. QED
      BY <3>1, <3>2
  <2>5. holder' \in [IdemKeys -> Calls \cup {None}]
    BY <1>3, LockTypes DEF Start
  <2>6. QED
    BY <1>3, <2>2, <2>4, <2>5 DEF Start, TypeOK, quota, loop, env
<1>4. QED
  BY <1>1, <1>2, <1>3

\* The lease.
LEMMA LeaseType ==
  ASSUME TypeOK, NEW i \in Calls
  PROVE  /\ Hold(i) => active' \in [Slots -> Nat] /\ expiry' \in [Calls -> Nat]
         /\ pc[i] = "release" /\ (mode = "local" => \A s \in SlotsOf(i) : active[s] >= 1) /\ Drop(i)
              => active' \in [Slots -> Nat] /\ expiry' \in [Calls -> Nat]
<1>1. LeaseEnd(i) \in Nat
  BY ReliabilityAssumption DEF LeaseEnd, TypeOK
<1>2. ASSUME Hold(i) PROVE active' \in [Slots -> Nat] /\ expiry' \in [Calls -> Nat]
  BY <1>1, <1>2 DEF Hold, TypeOK
<1>3. mode = "local" \/ mode = "redis"
  BY ReliabilityAssumption DEF TypeOK
<1>4. ASSUME mode = "local" => \A s \in SlotsOf(i) : active[s] >= 1, Drop(i)
      PROVE  active' \in [Slots -> Nat] /\ expiry' \in [Calls -> Nat]
  BY <1>3, <1>4 DEF Drop, TypeOK
<1>5. QED
  BY <1>2, <1>4

LEMMA AcquireType ==
  ASSUME TypeOK, NEW i \in Calls, Acquire(i) \/ Blocked(i) \/ AcquireFails(i)
  PROVE  TypeOK'
<1>1. CASE Acquire(i)
  <2>1. pc' \in [Calls -> Points]
    BY <1>1, MoveType DEF Acquire, Points
  <2>2. active' \in [Slots -> Nat] /\ expiry' \in [Calls -> Nat]
    BY <1>1, LeaseType DEF Acquire
  <2>3. QED
    BY <1>1, <2>1, <2>2 DEF Acquire, TypeOK, session, loop, env
<1>2. CASE Blocked(i)
  <2>1. pc' \in [Calls -> Points]
    BY <1>2, MoveType DEF Blocked, Points
  <2>2. result' \in [Calls -> [status : Statuses, reason : Verdicts \cup Reasons]]
    BY <1>2, ResultType DEF Blocked, Statuses, Reasons
  <2>3. QED
    BY <1>2, <2>1, <2>2 DEF Blocked, TypeOK, quota, loop, env
<1>3. CASE AcquireFails(i)
  <2>1. pc' \in [Calls -> Points]
    BY <1>3, MoveType DEF AcquireFails, Points
  <2>2. result' \in [Calls -> [status : Statuses, reason : Verdicts \cup Reasons]]
    BY <1>3, ResultType DEF AcquireFails, Statuses, Reasons
  <2>3. active' \in [Slots -> Nat] /\ expiry' \in [Calls -> Nat]
    BY <1>3, LeaseType DEF AcquireFails, quota, TypeOK
  <2>4. QED
    BY <1>3, <2>1, <2>2, <2>3 DEF AcquireFails, TypeOK, loop
<1>4. QED
  BY <1>1, <1>2, <1>3

\* The adapter.
LEMMA AskType ==
  ASSUME TypeOK, NEW i \in Calls, NEW b \in Breakers, NEW point \in Points, NEW settle \in Points,
         Ask(i, b, point, settle)
  PROVE  /\ pc' \in [Calls -> Points] /\ circuit' \in [Breakers -> Breaker]
         /\ outcome' \in [Calls -> Verdicts] /\ dispatched' \in [Calls -> Nat]
         /\ admitted' \in [Calls -> {"none", "closed", "half_open"}]
<1>1. PICK check \in Checkpoint(i, "dispatch") :
    IF check # "pass"
    THEN outcome' = [outcome EXCEPT ![i] = check] /\ Goto(i, settle)
         /\ UNCHANGED <<circuit, admitted, dispatched>>
    ELSE IF Refuses(circuit[b])
    THEN outcome' = [outcome EXCEPT ![i] = "circuit_open"] /\ Goto(i, settle)
         /\ UNCHANGED <<circuit, admitted, dispatched>>
    ELSE /\ circuit' = [circuit EXCEPT ![b] = Admit(@)]
         /\ admitted' = [admitted EXCEPT ![i] = Admit(circuit[b]).state]
         /\ dispatched' = [dispatched EXCEPT ![i] = @ + 1]
         /\ Goto(i, point) /\ UNCHANGED outcome
  BY DEF Ask
<1>2. pc' \in [Calls -> Points]
  BY <1>1, MoveType
<1>3. circuit[b] \in Breaker
  BY DEF TypeOK
<1>4. CASE check # "pass"
  <2>1. check \in Verdicts
    BY <1>4, CheckpointTypes
  <2>2. QED
    BY <1>1, <1>2, <1>4, <2>1 DEF TypeOK
<1>5. CASE check = "pass" /\ Refuses(circuit[b])
  BY <1>1, <1>2, <1>5 DEF TypeOK, Verdicts
<1>6. CASE check = "pass" /\ ~Refuses(circuit[b])
  <2>1. Admit(circuit[b]) \in Breaker /\ Admit(circuit[b]).state \in {"closed", "half_open"}
    BY <1>3, <1>6, BreakerTypes
  <2>2. QED
    <3>1. /\ circuit' = [circuit EXCEPT ![b] = Admit(circuit[b])]
          /\ admitted' = [admitted EXCEPT ![i] = Admit(circuit[b]).state]
          /\ dispatched' = [dispatched EXCEPT ![i] = dispatched[i] + 1] /\ outcome' = outcome
      BY <1>1, <1>6
    <3>2. QED
      BY <1>2, <2>1, <3>1 DEF TypeOK
<1>7. QED
  BY <1>4, <1>5, <1>6

\* What a step that may be blocked does to the rows and the locks.
LEMMA PersistMoves ==
  ASSUME TypeOK, NEW i \in Calls, NEW o, Persist(i, o)
  PROVE  \/ o # "guardrail" /\ row' = row /\ holder' = holder
         \/ /\ o = "guardrail" /\ ReleaseLock(i) /\ row'[i] = "running"
            /\ \A j \in Calls \ {i} : row'[j] = row[j]
  BY DEF Persist, TypeOK

LEMMA PersistType ==
  ASSUME TypeOK, NEW i \in Calls, NEW o, Persist(i, o)
  PROVE  row' \in [Calls -> Statuses \cup {"absent"}] /\ holder' \in [IdemKeys -> Calls \cup {None}]
<1>1. CASE o = "guardrail"
  BY <1>1, LockTypes DEF Persist, TypeOK, Statuses
<1>2. CASE o # "guardrail"
  BY <1>2 DEF Persist, TypeOK
<1>3. QED
  BY <1>1, <1>2

LEMMA ReturnType ==
  ASSUME TypeOK, NEW i \in Calls, NEW point \in Points, NEW settle \in Points, Return(i, point, settle)
  PROVE  TypeOK'
<1>1. PICK o \in Outcomes :
       /\ Persist(i, o)
       /\ \E check \in IF Returned(o) THEN Checkpoint(i, "result") ELSE {"pass"} :
            outcome' = [outcome EXCEPT ![i] = IF check = "pass" THEN o ELSE check]
  BY DEF Return
<1>2. PICK check \in IF Returned(o) THEN Checkpoint(i, "result") ELSE {"pass"} :
        outcome' = [outcome EXCEPT ![i] = IF check = "pass" THEN o ELSE check]
  BY <1>1
<1>3. o \in Verdicts /\ (check # "pass" => check \in Verdicts)
  BY CheckpointTypes, ReliabilityAssumption DEF Verdicts
<1>4. outcome' \in [Calls -> Verdicts]
  BY <1>2, <1>3 DEF TypeOK
<1>5. pc' \in [Calls -> Points]
  BY MoveType DEF Return
<1>6. row' \in [Calls -> Statuses \cup {"absent"}] /\ holder' \in [IdemKeys -> Calls \cup {None}]
  BY <1>1, PersistType
<1>7. QED
  BY <1>4, <1>5, <1>6 DEF Return, TypeOK, quota, env

\* A call settles.
LEMMA SettlesType ==
  ASSUME TypeOK, NEW i \in Calls, NEW b \in Breakers, NEW c \in Breaker, Settles(i, b, c)
  PROVE  /\ circuit' \in [Breakers -> Breaker]
         /\ admitted' \in [Calls -> {"none", "closed", "half_open"}]
  BY DEF Settles, TypeOK

LEMMA GivesUpType ==
  ASSUME NEW i \in Calls, NEW o \in Verdicts
  PROVE  GivesUp(i, o) \in [status : Statuses, reason : Verdicts \cup Reasons]
  BY StatusTypes DEF GivesUp, Statuses, Reasons

LEMMA SettleType ==
  ASSUME TypeOK, NEW i \in Calls, SettleReturned(i) \/ SettleRetry(i) \/ SettleFailure(i)
  PROVE  TypeOK'
<1>1. /\ Of(i) \in Breakers /\ circuit[Of(i)] \in Breaker /\ outcome[i] \in Verdicts
      /\ result[i] \in [status : Statuses, reason : Verdicts \cup Reasons]
  BY BreakersOf DEF TypeOK
<1>2. /\ Closed \in Breaker /\ Failed(circuit[Of(i)], TRUE) \in Breaker
      /\ Failed(circuit[Of(i)], Counts(outcome[i])) \in Breaker
  <2>1. Counts(outcome[i]) \in BOOLEAN
    BY DEF Counts
  <2>2. QED
    BY <1>1, <2>1, BreakerTypes
<1>3. CASE SettleReturned(i)
  <2>1. pc' \in [Calls -> Points]
    BY <1>3, MoveType DEF SettleReturned, Points
  <2>2. circuit' \in [Breakers -> Breaker] /\ admitted' \in [Calls -> {"none", "closed", "half_open"}]
    BY <1>1, <1>2, <1>3, SettlesType DEF SettleReturned, Succeeded
  <2>3. ReturnReason(i, outcome[i]) \in Verdicts \cup Reasons
    BY <1>1 DEF ReturnReason, Reasons
  <2>4. result' \in [Calls -> [status : Statuses, reason : Verdicts \cup Reasons]]
    BY <1>1, <1>3, <2>3 DEF SettleReturned, TypeOK
  <2>5. QED
    BY <1>3, <2>1, <2>2, <2>4 DEF SettleReturned, TypeOK, quota, env
<1>4. CASE SettleRetry(i)
  <2>1. pc' \in [Calls -> Points]
    BY <1>4, MoveType DEF SettleRetry, Points
  <2>2. circuit' \in [Breakers -> Breaker] /\ admitted' \in [Calls -> {"none", "closed", "half_open"}]
    BY <1>1, <1>2, <1>4, SettlesType DEF SettleRetry
  <2>3. result' \in [Calls -> [status : Statuses, reason : Verdicts \cup Reasons]]
    BY <1>4, ResultType DEF SettleRetry, TypeOK, Statuses, Verdicts
  <2>4. wake' \in [Calls -> Nat]
    BY <1>4 DEF SettleRetry, TypeOK
  <2>5. outcome' \in [Calls -> Verdicts]
    BY <1>4 DEF SettleRetry, TypeOK, Verdicts
  <2>6. QED
    BY <1>4, <2>1, <2>2, <2>3, <2>4, <2>5 DEF SettleRetry, TypeOK, quota, env
<1>5. CASE SettleFailure(i)
  <2>1. pc' \in [Calls -> Points]
    BY <1>5, MoveType DEF SettleFailure, Points
  <2>2. circuit' \in [Breakers -> Breaker] /\ admitted' \in [Calls -> {"none", "closed", "half_open"}]
    BY <1>1, <1>2, <1>5, SettlesType DEF SettleFailure
  <2>3. GivesUp(i, outcome[i]) \in [status : Statuses, reason : Verdicts \cup Reasons]
    BY <1>1, GivesUpType
  <2>4. result' \in [Calls -> [status : Statuses, reason : Verdicts \cup Reasons]]
    BY <1>5, <2>3 DEF SettleFailure, TypeOK
  <2>5. QED
    BY <1>5, <2>1, <2>2, <2>4 DEF SettleFailure, TypeOK, quota, env
<1>6. QED
  BY <1>3, <1>4, <1>5

LEMMA FallbackSettleType ==
  ASSUME TypeOK, NEW i \in Calls, Fallback[i] # None, SettleFallback(i)
  PROVE  TypeOK'
<1>1. /\ FallbackOf(i) \in Breakers /\ circuit[FallbackOf(i)] \in Breaker /\ outcome[i] \in Verdicts
      /\ result[i] \in [status : Statuses, reason : Verdicts \cup Reasons]
  BY BreakersOf DEF TypeOK
<1>2. /\ Closed \in Breaker
      /\ Failed(circuit[FallbackOf(i)], Counts(outcome[i])) \in Breaker
  <2>1. Counts(outcome[i]) \in BOOLEAN
    BY DEF Counts
  <2>2. QED
    BY <1>1, <2>1, BreakerTypes
<1>3. pc' \in [Calls -> Points]
  BY MoveType DEF SettleFallback, Points
<1>4. circuit' \in [Breakers -> Breaker] /\ admitted' \in [Calls -> {"none", "closed", "half_open"}]
  BY <1>1, <1>2, SettlesType DEF SettleFallback, Succeeded
<1>5. result' \in [Calls -> [status : Statuses, reason : Verdicts \cup Reasons]]
  BY <1>1 DEF SettleFallback, TypeOK, Statuses, Reasons
<1>6. QED
  BY <1>3, <1>4, <1>5 DEF SettleFallback, TypeOK, quota, env

LEMMA ResumeType ==
  ASSUME TypeOK, NEW i \in Calls, Resume(i)
  PROVE  TypeOK'
<1>1. PICK check \in Checkpoint(i, "backoff") :
        IF check = "pass" THEN Goto(i, "dispatch") /\ UNCHANGED result
        ELSE /\ result' = [result EXCEPT ![i] = [status |-> StatusOf(check), reason |-> check]]
             /\ Goto(i, "release")
  BY DEF Resume
<1>2. pc' \in [Calls -> Points]
  BY <1>1, MoveType DEF Points
<1>3. check # "pass" => check \in Verdicts
  BY CheckpointTypes
<1>4. result' \in [Calls -> [status : Statuses, reason : Verdicts \cup Reasons]]
  BY <1>1, <1>3, StatusTypes, ResultType DEF TypeOK
<1>5. QED
  BY <1>2, <1>4 DEF Resume, TypeOK, quota, env

\* The end of a call.
LEMMA AcceptChecks ==
  ASSUME NEW i \in Calls, Accept(i)
  PROVE  \E check \in Checkpoint(i, "result") \cup {"invalid_output", "guardrail"} :
           /\ Persist(i, check)
           /\ result' = [result EXCEPT ![i] =
                IF check = "invalid_output" THEN [status |-> "invalid_output", reason |-> check]
                ELSE IF check # "pass" THEN [status |-> StatusOf(check), reason |-> check]
                ELSE IF result[i].reason = "fallback_used" THEN [result[i] EXCEPT !.status = "degraded"]
                ELSE [result[i] EXCEPT !.status = "completed"]]
  BY DEF Accept

LEMMA AcceptType ==
  ASSUME TypeOK, NEW i \in Calls, Accept(i)
  PROVE  TypeOK'
<1>1. PICK check \in Checkpoint(i, "result") \cup {"invalid_output", "guardrail"} :
       /\ Persist(i, check)
       /\ result' = [result EXCEPT ![i] =
            IF check = "invalid_output" THEN [status |-> "invalid_output", reason |-> check]
            ELSE IF check # "pass" THEN [status |-> StatusOf(check), reason |-> check]
            ELSE IF result[i].reason = "fallback_used" THEN [result[i] EXCEPT !.status = "degraded"]
            ELSE [result[i] EXCEPT !.status = "completed"]]
  BY AcceptChecks
<1>2. pc' \in [Calls -> Points]
  BY MoveType DEF Accept, Points
<1>3. check = "invalid_output" \/ check = "pass" \/ check \in Verdicts
  BY CheckpointTypes DEF Verdicts, AdapterOutcomes
<1>4. result' \in [Calls -> [status : Statuses, reason : Verdicts \cup Reasons]]
  BY <1>1, <1>3, StatusTypes DEF TypeOK, Statuses, Reasons
<1>5. row' \in [Calls -> Statuses \cup {"absent"}] /\ holder' \in [IdemKeys -> Calls \cup {None}]
  BY <1>1, PersistType
<1>6. QED
  BY <1>2, <1>4, <1>5 DEF Accept, TypeOK, quota, loop, env

LEMMA ForgetType ==
  ASSUME TypeOK, NEW S, Forget(S)
  PROVE  /\ outcome' \in [Calls -> Verdicts] /\ admitted' \in [Calls -> {"none", "closed", "half_open"}]
         /\ attempt' \in [Calls -> Nat] /\ wake' \in [Calls -> Nat] /\ dispatched' \in [Calls -> Nat]
  BY DEF Forget, TypeOK, Verdicts

LEMMA EndType ==
  ASSUME TypeOK, NEW i \in Calls, Commit(i) \/ Rollback(i)
  PROVE  TypeOK'
<1>1. pc' \in [Calls -> Points]
  BY MoveType DEF Commit, Rollback, Points, Over
<1>2. row' \in [Calls -> Statuses \cup {"absent"}]
  <2>1. result[i].status \in Statuses
    BY DEF TypeOK
  <2>2. Stored(result[i].status) \in Statuses
    BY <2>1 DEF Stored, Statuses
  <2>3. QED
    BY <2>2 DEF Commit, Rollback, TypeOK
<1>3. holder' \in [IdemKeys -> Calls \cup {None}]
  BY LockTypes DEF Commit, Rollback
<1>4. Forget({i})
  BY DEF Commit, Rollback
<1>5. /\ outcome' \in [Calls -> Verdicts] /\ admitted' \in [Calls -> {"none", "closed", "half_open"}]
      /\ attempt' \in [Calls -> Nat] /\ wake' \in [Calls -> Nat] /\ dispatched' \in [Calls -> Nat]
  BY <1>4, ForgetType
<1>6. QED
  BY <1>1, <1>2, <1>3, <1>5 DEF Commit, Rollback, TypeOK, quota, env

LEMMA CrashType ==
  ASSUME TypeOK, NEW w \in Workers, Crash(w)
  PROVE  TypeOK'
<1>1. pc' \in [Calls -> Points]
  BY DEF Crash, TypeOK, Points, Over
<1>2. holder' \in [IdemKeys -> Calls \cup {None}]
  BY DEF Crash, TypeOK
<1>3. circuit' \in [Breakers -> Breaker]
  BY DEF Crash, TypeOK, Closed, Breaker
<1>4. active' \in [Slots -> Nat]
  BY DEF Crash, TypeOK
<1>5. /\ outcome' \in [Calls -> Verdicts] /\ admitted' \in [Calls -> {"none", "closed", "half_open"}]
      /\ attempt' \in [Calls -> Nat] /\ wake' \in [Calls -> Nat] /\ dispatched' \in [Calls -> Nat]
  BY ForgetType DEF Crash
<1>6. QED
  BY <1>1, <1>2, <1>3, <1>4, <1>5 DEF Crash, TypeOK
-----------------------------------------------------------------------------
(* The inductive invariant, a call at a time.                               *)

\* What a call has spent of its attempts, by program point.
Bound(i) == IF FallbackAllowed(i) THEN MaxAttempts(i) + 1 ELSE MaxAttempts(i)

InBudget(i) == Profile[i].skillCalls >= 1 /\ Profile[i].modelCalls >= 1

\* Its attempts and the adapter calls they made.
Counted(i) ==
  /\ pc[i] \in {"idle", "start", "lease"} => attempt[i] = 0 /\ dispatched[i] = 0
  /\ pc[i] = "lease" \/ Inside(i) => InBudget(i)
  /\ pc[i] \in {"dispatch", "backoff"} => attempt[i] < MaxAttempts(i) /\ dispatched[i] <= attempt[i]
  /\ pc[i] \in {"running", "settle"} =>
       attempt[i] >= 1 /\ attempt[i] <= MaxAttempts(i) /\ dispatched[i] <= attempt[i]
  /\ pc[i] = "fallback" => FallbackAllowed(i) /\ dispatched[i] <= MaxAttempts(i)
  /\ InFallback(i) => FallbackAllowed(i)
  /\ dispatched[i] <= Bound(i) /\ (dispatched[i] > 0 => InBudget(i))

\* The answer of a call that failed as an unsafe one.
Written(i) ==
  /\ pc[i] \in {"idle", "start", "lease"} => outcome[i] = "none"
  /\ pc[i] = "backoff" => Replayable(i)
  /\ Profile[i].externalWrite /\ outcome[i] = "transient" /\ pc[i] \in {"release", "accept", "ended"}
     => pc[i] # "accept" /\ result[i] = [status |-> "unavailable", reason |-> "unknown_write"]

\* Its row, and the status it has in its own session.
Recorded(i) ==
  /\ pc[i] \in {"idle", "start", "lease", "dispatch", "running", "backoff", "fallback",
                "fallback_running", "accept"} => row[i] = "absent"
  /\ pc[i] \in {"settle", "fallback_settle"} /\ row[i] # "absent" => outcome[i] = "guardrail"
  /\ pc[i] \in {"idle", "start", "lease", "dispatch", "running", "settle", "backoff", "fallback",
                "fallback_running", "fallback_settle", "accept"} => result[i].status = "running"
  /\ pc[i] \in {"release", "ended"} /\ row[i] # "absent" =>
       result[i].status \notin {"running", "completed", "degraded"}
  /\ pc[i] = "release" => result[i].status \notin {"completed", "degraded"}
  /\ pc[i] = "ended" => result[i].status # "running"
  /\ pc[i] = "done" /\ Profile[i].reconciles => row[i] # "running"

\* With Redis, a call inside the lease has one until its grace is over.
Covered(i) ==
  mode = "redis" /\ Inside(i) /\ Scopes[i] # {} => expiry[i] >= deadline[i] + Grace

Local(i) == Counted(i) /\ Written(i) /\ Recorded(i) /\ Covered(i)

\* From its lookup to its end a call whose row is not out holds its key, and
\* nobody else has a row under it.
Keyed ==
  \A i \in Calls : Idem[i] # None /\ Handling(i) /\ row[i] = "absent" =>
    /\ holder[Idem[i]] = i
    /\ \A j \in Calls \ {i} : Idem[j] = Idem[i] => row[j] = "absent"

LeasesBounded == \A k \in Keys : mode = "redis" => Cardinality(LiveHolders(k)) <= Limit[k]

CountsBounded == \A s \in Slots : mode = "local" => active[s] <= Limit[s[2]]

SkillInv ==
  /\ TypeOK /\ (\A i \in Calls : Local(i)) /\ Keyed
  /\ LeasesBounded /\ CountsBounded /\ LocalCountExact
  /\ ProbeOwned /\ CircuitCounts

\* What Local says of a call depends on these alone.
Still(j) ==
  /\ pc'[j] = pc[j] /\ attempt'[j] = attempt[j] /\ dispatched'[j] = dispatched[j]
  /\ outcome'[j] = outcome[j] /\ row'[j] = row[j] /\ result'[j] = result[j]
  /\ expiry'[j] = expiry[j] /\ deadline'[j] = deadline[j] /\ mode' = mode

LEMMA StillLocal ==
  ASSUME NEW j \in Calls, Local(j), Still(j)
  PROVE  Local(j)'
<1>1. Counted(j)'
  BY DEF Local, Counted, Still, Inside, InFallback
<1>2. Written(j)' /\ Recorded(j)' /\ Covered(j)'
  BY DEF Local, Written, Recorded, Covered, Still, Inside
<1>3. QED
  BY <1>1, <1>2 DEF Local

\* A step of one call leaves the others as they are.
LEMMA OthersStill ==
  ASSUME TypeOK, NEW i \in Calls, Step(i), NEW j \in Calls, j # i
  PROVE  Still(j)
<1> USE DEF Still, TypeOK, Goto, session, quota, loop, env
<1>1. CASE BuildPolicy(i) \/ Deduplicate(i)
  BY <1>1 DEF BuildPolicy, Deduplicate
<1>2. CASE Start(i)
  <2>1. PICK check \in Checkpoint(i, "preflight") \cup {"refused"} :
       IF check = "pass" /\ Preflight(i)
       THEN Goto(i, "lease") /\ UNCHANGED result
       ELSE /\ Goto(i, "ended")
            /\ result' = [result EXCEPT ![i] =
                 IF check = "pass" THEN [status |-> "blocked", reason |-> "budget"]
                                   ELSE [status |-> StatusOf(check), reason |-> check]]
    BY <1>2 DEF Start
  <2>2. pc'[j] = pc[j] /\ result'[j] = result[j]
    BY <2>1
  <2>3. QED
    BY <1>2, <2>2 DEF Start
<1>3. CASE Acquire(i) \/ Blocked(i) \/ AcquireFails(i)
  BY <1>3 DEF Acquire, Blocked, AcquireFails, Hold
<1>4. CASE Release(i) \/ ReleaseFails(i)
  BY <1>4 DEF Release, ReleaseFails, Drop
<1>5. CASE Dispatch(i)
  <2>1. /\ pc'[j] = pc[j] /\ outcome'[j] = outcome[j] /\ dispatched'[j] = dispatched[j]
    BY <1>5 DEF Dispatch, Ask
  <2>2. QED
    BY <1>5, <2>1 DEF Dispatch
<1>6. CASE DispatchFallback(i)
  <2>1. /\ pc'[j] = pc[j] /\ outcome'[j] = outcome[j] /\ dispatched'[j] = dispatched[j]
    BY <1>6 DEF DispatchFallback, Ask
  <2>2. QED
    BY <1>6, <2>1 DEF DispatchFallback
<1>7. ASSUME NEW point, NEW settle, Return(i, point, settle) PROVE Still(j)
  <2>1. outcome'[j] = outcome[j] /\ row'[j] = row[j]
    BY <1>7 DEF Return, Persist
  <2>2. QED
    BY <1>7, <2>1 DEF Return
<1>8. CASE SettleReturned(i)
  BY <1>8 DEF SettleReturned, Settles
<1>9. CASE SettleRetry(i)
  BY <1>9 DEF SettleRetry, Settles
<1>10. CASE SettleFailure(i)
  BY <1>10 DEF SettleFailure, Settles
<1>11. CASE SettleFallback(i)
  BY <1>11 DEF SettleFallback, Settles
<1>12. CASE Resume(i)
  <2>1. pc'[j] = pc[j] /\ result'[j] = result[j]
    BY <1>12 DEF Resume
  <2>2. QED
    BY <1>12, <2>1 DEF Resume
<1>13. CASE Accept(i)
  <2>1. result'[j] = result[j]
    BY <1>13, AcceptChecks
  <2>2. row'[j] = row[j]
    BY <1>13, AcceptChecks, PersistMoves
  <2>3. QED
    BY <1>13, <2>1, <2>2 DEF Accept
<1>14. CASE Commit(i) \/ Rollback(i)
  BY <1>14 DEF Commit, Rollback, Forget
<1>15. QED
  BY <1>1, <1>2, <1>3, <1>4, <1>5, <1>6, <1>7, <1>8, <1>9, <1>10, <1>11, <1>12, <1>13, <1>14 DEF Step

\* The call that makes the step.
LEMMA BoundFacts ==
  ASSUME NEW i \in Calls
  PROVE  /\ Bound(i) \in Nat /\ MaxAttempts(i) <= Bound(i) /\ Bound(i) <= MaxAttempts(i) + 1
         /\ FallbackAllowed(i) => Bound(i) = MaxAttempts(i) + 1 /\ Replayable(i)
  BY PolicyFacts DEF Bound, FallbackAllowed

LEMMA EarlyLocal ==
  ASSUME TypeOK, NEW i \in Calls, Local(i), BuildPolicy(i) \/ Deduplicate(i) \/ Start(i)
  PROVE  Local(i)'
<1>1. CASE BuildPolicy(i)
  <2>1. pc'[i] = "start" /\ pc[i] = "idle"
    BY <1>1 DEF BuildPolicy, Goto, TypeOK
  <2>2. /\ attempt' = attempt /\ dispatched' = dispatched /\ outcome' = outcome /\ row' = row
        /\ result' = result
    BY <1>1 DEF BuildPolicy, session, loop
  <2>3. QED
    BY <2>1, <2>2 DEF Local, Counted, Written, Recorded, Covered, Inside, InFallback
<1>2. CASE Deduplicate(i)
  <2>1. pc'[i] = "deduplicated" /\ pc[i] = "start"
    BY <1>2 DEF Deduplicate, Goto, TypeOK
  <2>2. /\ attempt' = attempt /\ dispatched' = dispatched /\ outcome' = outcome /\ row' = row
        /\ result' = result
    BY <1>2 DEF Deduplicate, session, loop
  <2>3. QED
    BY <2>1, <2>2 DEF Local, Counted, Written, Recorded, Covered, Inside, InFallback
<1>3. CASE Start(i)
  <2>1. PICK check \in Checkpoint(i, "preflight") \cup {"refused"} :
       IF check = "pass" /\ Preflight(i)
       THEN Goto(i, "lease") /\ UNCHANGED result
       ELSE /\ Goto(i, "ended")
            /\ result' = [result EXCEPT ![i] =
                 IF check = "pass" THEN [status |-> "blocked", reason |-> "budget"]
                                   ELSE [status |-> StatusOf(check), reason |-> check]]
    BY <1>3 DEF Start
  <2>2. /\ attempt' = attempt /\ dispatched' = dispatched /\ outcome' = outcome /\ row' = row
        /\ pc[i] = "start"
    BY <1>3 DEF Start, loop
  <2>3. CASE check = "pass" /\ Preflight(i)
    <3>1. pc'[i] = "lease" /\ result' = result
      BY <2>1, <2>3 DEF Goto, TypeOK
    <3>2. InBudget(i)
      BY <2>3, PolicyFacts DEF InBudget, Preflight
    <3>3. QED
      BY <2>2, <3>1, <3>2 DEF Local, Counted, Written, Recorded, Covered, Inside, InFallback
  <2>4. CASE ~(check = "pass" /\ Preflight(i))
    <3>1. pc'[i] = "ended"
      BY <2>1, <2>4 DEF Goto, TypeOK
    <3>2. result'[i].status # "running"
      <4>1. CASE check = "pass"
        BY <2>1, <2>4, <4>1 DEF TypeOK
      <4>2. CASE check # "pass"
        <5>1. StatusOf(check) # "running"
          BY DEF StatusOf
        <5>2. QED
          BY <2>1, <2>4, <4>2, <5>1 DEF TypeOK
      <4>3. QED
        BY <4>1, <4>2
    <3>3. QED
      BY <2>2, <3>1, <3>2 DEF Local, Counted, Written, Recorded, Covered, Inside, InFallback
  <2>5. QED
    BY <2>3, <2>4
<1>4. QED
  BY <1>1, <1>2, <1>3

LEMMA LeaseLocal ==
  ASSUME TypeOK, NEW i \in Calls, Local(i),
         Acquire(i) \/ Blocked(i) \/ AcquireFails(i) \/ Release(i) \/ ReleaseFails(i)
  PROVE  Local(i)'
<1> USE DEF Local
<1>1. CASE Acquire(i)
  <2>1. pc'[i] = "dispatch" /\ pc[i] = "lease"
    BY <1>1 DEF Acquire, Goto, TypeOK
  <2>2. /\ attempt' = attempt /\ dispatched' = dispatched /\ outcome' = outcome /\ row' = row
        /\ result' = result /\ deadline' = deadline /\ mode' = mode
    BY <1>1 DEF Acquire, session, loop, env
  <2>3. Counted(i)'
    BY <2>1, <2>2, PolicyFacts DEF Counted, Inside, InFallback
  <2>4. Written(i)' /\ Recorded(i)'
    BY <2>1, <2>2 DEF Written, Recorded
  <2>5. Covered(i)'
    <3>1. ASSUME mode = "redis", Scopes[i] # {} PROVE expiry'[i] >= deadline[i] + Grace
      <4>1. expiry'[i] = LeaseEnd(i)
        BY <1>1, <3>1 DEF Acquire, Hold, TypeOK
      <4>2. QED
        BY <4>1, ReliabilityAssumption DEF LeaseEnd, TypeOK
    <3>2. QED
      BY <2>2, <3>1 DEF Covered
  <2>6. QED
    BY <2>3, <2>4, <2>5
<1>2. CASE Blocked(i) \/ AcquireFails(i)
  <2>1. pc'[i] = "ended" /\ pc[i] = "lease"
    BY <1>2 DEF Blocked, AcquireFails, Goto, TypeOK
  <2>2. /\ attempt' = attempt /\ dispatched' = dispatched /\ outcome' = outcome /\ row' = row
        /\ result'[i].status \in {"blocked", "unavailable"}
    BY <1>2 DEF Blocked, AcquireFails, loop, TypeOK
  <2>3. QED
    BY <2>1, <2>2 DEF Counted, Written, Recorded, Covered, Inside, InFallback
<1>3. CASE Release(i) \/ ReleaseFails(i)
  <2>1. pc'[i] = AfterRelease(i) /\ pc[i] = "release"
    BY <1>3 DEF Release, ReleaseFails, Goto, TypeOK
  <2>2. /\ attempt' = attempt /\ dispatched' = dispatched /\ outcome' = outcome /\ row' = row
        /\ result' = result
    BY <1>3 DEF Release, ReleaseFails, loop, session
  <2>3. QED
    BY <2>1, <2>2 DEF AfterRelease, Counted, Written, Recorded, Covered, Inside, InFallback
<1>4. QED
  BY <1>1, <1>2, <1>3
-----------------------------------------------------------------------------
(* Types, the steps that need more than the types.                          *)

LEMMA DispatchType ==
  ASSUME TypeOK, NEW i \in Calls, Dispatch(i) \/ (DispatchFallback(i) /\ Fallback[i] # None)
  PROVE  TypeOK'
<1>1. CASE Dispatch(i)
  <2>1. Ask(i, Of(i), "running", "settle") /\ Of(i) \in Breakers
    BY <1>1, BreakersOf DEF Dispatch
  <2>2. /\ pc' \in [Calls -> Points] /\ circuit' \in [Breakers -> Breaker]
        /\ outcome' \in [Calls -> Verdicts] /\ dispatched' \in [Calls -> Nat]
        /\ admitted' \in [Calls -> {"none", "closed", "half_open"}]
    BY <2>1, AskType DEF Points
  <2>3. attempt' \in [Calls -> Nat]
    BY <1>1 DEF Dispatch, TypeOK
  <2>4. QED
    BY <1>1, <2>2, <2>3 DEF Dispatch, TypeOK, session, quota, env
<1>2. CASE DispatchFallback(i) /\ Fallback[i] # None
  <2>1. Ask(i, FallbackOf(i), "fallback_running", "fallback_settle") /\ FallbackOf(i) \in Breakers
    BY <1>2, BreakersOf DEF DispatchFallback
  <2>2. /\ pc' \in [Calls -> Points] /\ circuit' \in [Breakers -> Breaker]
        /\ outcome' \in [Calls -> Verdicts] /\ dispatched' \in [Calls -> Nat]
        /\ admitted' \in [Calls -> {"none", "closed", "half_open"}]
    BY <2>1, AskType DEF Points
  <2>3. QED
    BY <1>2, <2>2 DEF DispatchFallback, TypeOK, session, quota, env
<1>3. QED
  BY <1>1, <1>2

LEMMA ConcurrentFinite ==
  ASSUME NEW w, NEW k
  PROVE  /\ IsFiniteSet(ConcurrentIn(w, k)) /\ Cardinality(ConcurrentIn(w, k)) \in Nat
         /\ IsFiniteSet(LiveHolders(k)) /\ Cardinality(LiveHolders(k)) \in Nat
         /\ IsFiniteSet(Concurrent(k))
<1>1. ConcurrentIn(w, k) \subseteq Calls /\ LiveHolders(k) \subseteq Calls /\ Concurrent(k) \subseteq Calls
  BY DEF ConcurrentIn, LiveHolders, Concurrent
<1>2. QED
  BY <1>1, FS_Subset, FS_CardinalityType, ReliabilityAssumption

\* A call inside the lease is counted in each of its slots.
LEMMA HeldCounted ==
  ASSUME TypeOK, LocalCountExact, mode = "local", NEW i \in Calls, Inside(i), NEW s \in SlotsOf(i)
  PROVE  active[s] >= 1
<1>1. PICK k \in Scopes[i] : s = <<Worker[i], k>>
  BY DEF SlotsOf
<1>2. k \in Keys /\ Worker[i] \in Workers
  BY ReliabilityAssumption
<1>3. i \in ConcurrentIn(Worker[i], k)
  BY DEF ConcurrentIn
<1>4. Cardinality(ConcurrentIn(Worker[i], k)) # 0
  BY <1>3, ConcurrentFinite, FS_EmptySet
<1>5. active[s] = Cardinality(ConcurrentIn(Worker[i], k))
  BY <1>1, <1>2 DEF LocalCountExact
<1>6. QED
  BY <1>4, <1>5, ConcurrentFinite

LEMMA ReleaseType ==
  ASSUME TypeOK, LocalCountExact, NEW i \in Calls, Release(i) \/ ReleaseFails(i)
  PROVE  TypeOK'
<1>1. pc' \in [Calls -> Points]
  BY MoveType DEF Release, ReleaseFails, AfterRelease, Points
<1>2. CASE Release(i)
  <2>1. mode = "local" => \A s \in SlotsOf(i) : active[s] >= 1
    BY <1>2, HeldCounted DEF Release, Inside
  <2>2. active' \in [Slots -> Nat] /\ expiry' \in [Calls -> Nat]
    BY <1>2, <2>1, LeaseType DEF Release
  <2>3. QED
    BY <1>1, <1>2, <2>2 DEF Release, TypeOK, session, loop, env
<1>3. CASE ReleaseFails(i)
  BY <1>1, <1>3 DEF ReleaseFails, TypeOK, session, loop, quota
<1>4. QED
  BY <1>2, <1>3

LEMMA TickType == TypeOK /\ Tick => TypeOK'
  BY DEF Tick, TypeOK, session, quota, loop

LEMMA StepType ==
  ASSUME TypeOK, LocalCountExact, NEW i \in Calls, Local(i), Step(i)
  PROVE  TypeOK'
<1>1. pc[i] \in {"fallback", "fallback_running", "fallback_settle"} => Fallback[i] # None
  BY DEF Local, Counted, InFallback, FallbackAllowed
<1>2. CASE BuildPolicy(i) \/ Deduplicate(i) \/ Start(i)
  BY <1>2, StartType
<1>3. CASE Acquire(i) \/ Blocked(i) \/ AcquireFails(i)
  BY <1>3, AcquireType
<1>4. CASE Release(i) \/ ReleaseFails(i)
  BY <1>4, ReleaseType
<1>5. CASE Dispatch(i) \/ DispatchFallback(i)
  <2>1. DispatchFallback(i) => Fallback[i] # None
    BY <1>1 DEF DispatchFallback
  <2>2. QED
    BY <1>5, <2>1, DispatchType
<1>6. CASE Return(i, "running", "settle") \/ Return(i, "fallback_running", "fallback_settle")
  BY <1>6, ReturnType DEF Points
<1>7. CASE SettleReturned(i) \/ SettleRetry(i) \/ SettleFailure(i)
  BY <1>7, SettleType
<1>8. CASE SettleFallback(i)
  <2>1. Fallback[i] # None
    BY <1>1, <1>8 DEF SettleFallback
  <2>2. QED
    BY <1>8, <2>1, FallbackSettleType
<1>9. CASE Resume(i)
  BY <1>9, ResumeType
<1>10. CASE Accept(i)
  BY <1>10, AcceptType
<1>11. CASE Commit(i) \/ Rollback(i)
  BY <1>11, EndType
<1>12. QED
  BY <1>2, <1>3, <1>4, <1>5, <1>6, <1>7, <1>8, <1>9, <1>10, <1>11 DEF Step
LEMMA DispatchLocal ==
  ASSUME TypeOK, NEW i \in Calls, Local(i), Dispatch(i)
  PROVE  Local(i)'
<1>1. PICK check \in Checkpoint(i, "dispatch") :
    IF check # "pass"
    THEN outcome' = [outcome EXCEPT ![i] = check] /\ Goto(i, "settle")
         /\ UNCHANGED <<circuit, admitted, dispatched>>
    ELSE IF Refuses(circuit[Of(i)])
    THEN outcome' = [outcome EXCEPT ![i] = "circuit_open"] /\ Goto(i, "settle")
         /\ UNCHANGED <<circuit, admitted, dispatched>>
    ELSE /\ circuit' = [circuit EXCEPT ![Of(i)] = Admit(@)]
         /\ admitted' = [admitted EXCEPT ![i] = Admit(circuit[Of(i)]).state]
         /\ dispatched' = [dispatched EXCEPT ![i] = @ + 1]
         /\ Goto(i, "running") /\ UNCHANGED outcome
  BY DEF Dispatch, Ask
<1>2. /\ pc[i] = "dispatch" /\ pc'[i] \in {"running", "settle"}
      /\ dispatched'[i] \in {dispatched[i], dispatched[i] + 1}
  BY <1>1 DEF Dispatch, Goto, TypeOK
<1>3. /\ attempt'[i] = attempt[i] + 1 /\ row' = row /\ result' = result /\ expiry' = expiry
      /\ deadline' = deadline /\ mode' = mode
  BY DEF Dispatch, TypeOK, session, quota, env
<1>4. Counted(i)'
  <2>1. /\ attempt[i] \in Nat /\ dispatched[i] \in Nat /\ MaxAttempts(i) \in Nat /\ Bound(i) \in Nat
        /\ MaxAttempts(i) <= Bound(i)
    BY BoundFacts, PolicyFacts DEF TypeOK
  <2>2. attempt[i] < MaxAttempts(i) /\ dispatched[i] <= attempt[i] /\ InBudget(i)
    BY <1>2 DEF Local, Counted, Inside
  <2>3. dispatched'[i] <= attempt'[i] /\ attempt'[i] <= MaxAttempts(i) /\ attempt'[i] >= 1
    BY <1>2, <1>3, <2>1, <2>2
  <2>4. dispatched'[i] <= Bound(i)
    BY <1>2, <1>3, <2>1, <2>2
  <2>5. QED
    BY <1>2, <2>2, <2>3, <2>4 DEF Counted, InFallback
<1>5. Written(i)' /\ Recorded(i)' /\ Covered(i)'
  BY <1>2, <1>3 DEF Local, Written, Recorded, Covered, Inside
<1>6. QED
  BY <1>4, <1>5 DEF Local

LEMMA ReturnLocal ==
  ASSUME TypeOK, NEW i \in Calls, Local(i),
         Return(i, "running", "settle") \/ Return(i, "fallback_running", "fallback_settle")
  PROVE  Local(i)'
<1>1. PICK o \in Outcomes :
       /\ Persist(i, o)
       /\ \E check \in IF Returned(o) THEN Checkpoint(i, "result") ELSE {"pass"} :
            outcome' = [outcome EXCEPT ![i] = IF check = "pass" THEN o ELSE check]
  BY DEF Return
<1>2. /\ attempt' = attempt /\ dispatched' = dispatched /\ result' = result /\ expiry' = expiry
      /\ deadline' = deadline /\ mode' = mode
      /\ \/ pc[i] = "running" /\ pc'[i] = "settle"
         \/ pc[i] = "fallback_running" /\ pc'[i] = "fallback_settle"
  BY DEF Return, Goto, TypeOK, quota, env
<1>3. row'[i] = "absent" \/ outcome'[i] = "guardrail"
  <2>1. row[i] = "absent"
    BY <1>2 DEF Local, Recorded
  <2>2. CASE o = "guardrail"
    BY <1>1, <2>2 DEF Returned, TypeOK
  <2>3. CASE o # "guardrail"
    BY <1>1, <2>1, <2>3 DEF Persist
  <2>4. QED
    BY <2>2, <2>3
<1>4. Counted(i)'
  BY <1>2 DEF Local, Counted, Inside, InFallback
<1>5. Written(i)' /\ Recorded(i)' /\ Covered(i)'
  BY <1>2, <1>3 DEF Local, Written, Recorded, Covered, Inside
<1>6. QED
  BY <1>4, <1>5 DEF Local

LEMMA SettleLocal ==
  ASSUME TypeOK, NEW i \in Calls, Local(i), SettleReturned(i) \/ SettleRetry(i) \/ SettleFailure(i)
  PROVE  Local(i)'
<1>1. /\ pc[i] = "settle" /\ attempt' = attempt /\ dispatched' = dispatched /\ row' = row
      /\ expiry' = expiry /\ deadline' = deadline /\ mode' = mode
  BY DEF SettleReturned, SettleRetry, SettleFailure, quota, env
<1>2. /\ attempt[i] \in Nat /\ dispatched[i] \in Nat /\ MaxAttempts(i) \in Nat
      /\ InBudget(i) /\ attempt[i] >= 1 /\ attempt[i] <= MaxAttempts(i) /\ dispatched[i] <= attempt[i]
      /\ dispatched[i] <= Bound(i) /\ result[i].status = "running"
      /\ (row[i] # "absent" => outcome[i] = "guardrail")
      /\ (mode = "redis" /\ Scopes[i] # {} => expiry[i] >= deadline[i] + Grace)
  BY <1>1, PolicyFacts DEF Local, Counted, Recorded, Covered, Inside, TypeOK
<1>3. CASE SettleReturned(i)
  <2>1. /\ pc'[i] = "release" /\ outcome' = outcome /\ result'[i].status = "running"
    BY <1>2, <1>3 DEF SettleReturned, Goto, TypeOK
  <2>2. outcome[i] # "guardrail" /\ outcome[i] # "transient"
    BY <1>3 DEF SettleReturned, Returned
  <2>3. QED
    BY <1>1, <1>2, <2>1, <2>2 DEF Local, Counted, Written, Recorded, Covered, Inside, InFallback
<1>4. CASE SettleRetry(i)
  <2>1. /\ Replayable(i) /\ attempt[i] < MaxAttempts(i) /\ outcome[i] # "guardrail"
        /\ outcome'[i] = "none"
    BY <1>4 DEF SettleRetry, RetryAllowed, Retryable, TypeOK
  <2>2. \/ pc'[i] = "backoff" /\ result' = result
        \/ pc'[i] = "release" /\ result'[i].status \in {"timed_out", "cancelled"}
    <3>1. CASE now + 1 >= deadline[i]
      BY <1>4, <3>1 DEF SettleRetry, Goto, TypeOK
    <3>2. CASE ~(now + 1 >= deadline[i])
      BY <1>4, <3>2 DEF SettleRetry, Goto, TypeOK
    <3>3. QED
      BY <3>1, <3>2
  <2>3. QED
    BY <1>1, <1>2, <2>1, <2>2 DEF Local, Counted, Written, Recorded, Covered, Inside, InFallback
<1>5. CASE SettleFailure(i)
  <2>1. CASE FallbackAllowed(i) /\ FallbackReason(outcome[i])
    <3>1. pc'[i] = "fallback" /\ result' = result /\ outcome' = outcome
      BY <1>5, <2>1 DEF SettleFailure, Goto, TypeOK
    <3>2. outcome[i] # "guardrail"
      BY <2>1 DEF FallbackReason
    <3>3. QED
      BY <1>1, <1>2, <2>1, <3>1, <3>2 DEF Local, Counted, Written, Recorded, Covered, Inside, InFallback
  <2>2. CASE ~(FallbackAllowed(i) /\ FallbackReason(outcome[i]))
    <3>1. pc'[i] = "release" /\ result'[i] = GivesUp(i, outcome[i]) /\ outcome' = outcome
      BY <1>5, <2>2 DEF SettleFailure, Goto, TypeOK
    <3>2. GivesUp(i, outcome[i]).status \in {"unavailable", "failed", "cancelled", "timed_out", "blocked"}
      BY DEF GivesUp, StatusOf
    <3>3. Profile[i].externalWrite /\ outcome[i] = "transient"
            => GivesUp(i, outcome[i]) = [status |-> "unavailable", reason |-> "unknown_write"]
      <4>1. Profile[i].externalWrite => MaxAttempts(i) = 1
        BY PolicyFacts DEF Replayable
      <4>2. QED
        BY <1>2, <4>1 DEF GivesUp, Retryable
    <3>4. QED
      BY <1>1, <1>2, <3>1, <3>2, <3>3 DEF Local, Counted, Written, Recorded, Covered, Inside, InFallback
  <2>3. QED
    BY <2>1, <2>2
<1>6. QED
  BY <1>3, <1>4, <1>5
LEMMA ResumeLocal ==
  ASSUME TypeOK, NEW i \in Calls, Local(i), Resume(i)
  PROVE  Local(i)'
<1>1. PICK check \in Checkpoint(i, "backoff") :
        IF check = "pass" THEN Goto(i, "dispatch") /\ UNCHANGED result
        ELSE /\ result' = [result EXCEPT ![i] = [status |-> StatusOf(check), reason |-> check]]
             /\ Goto(i, "release")
  BY DEF Resume
<1>2. /\ pc[i] = "backoff" /\ attempt' = attempt /\ dispatched' = dispatched /\ row' = row
      /\ expiry' = expiry /\ deadline' = deadline /\ mode' = mode /\ outcome' = outcome
  BY DEF Resume, quota, env
<1>3. \/ pc'[i] = "dispatch" /\ result' = result
      \/ pc'[i] = "release" /\ result'[i].status \in {"cancelled", "timed_out"}
  <2>1. CASE check = "pass"
    BY <1>1, <2>1 DEF Goto, TypeOK
  <2>2. CASE check # "pass"
    <3>1. StatusOf(check) \in {"cancelled", "timed_out"}
      BY <2>2, CheckpointTypes
    <3>2. QED
      BY <1>1, <2>2, <3>1 DEF Goto, TypeOK
  <2>3. QED
    BY <2>1, <2>2
<1>4. Replayable(i) /\ row[i] = "absent" /\ ~Profile[i].externalWrite
  BY <1>2 DEF Local, Written, Recorded, Replayable
<1>5. Counted(i)'
  BY <1>2, <1>3 DEF Local, Counted, Inside, InFallback
<1>6. Written(i)' /\ Recorded(i)' /\ Covered(i)'
  BY <1>2, <1>3, <1>4 DEF Local, Written, Recorded, Covered, Inside
<1>7. QED
  BY <1>5, <1>6 DEF Local

LEMMA FallbackLocal ==
  ASSUME TypeOK, NEW i \in Calls, Local(i), DispatchFallback(i) \/ SettleFallback(i)
  PROVE  Local(i)'
<1>1. /\ attempt' = attempt /\ row' = row /\ expiry' = expiry /\ deadline' = deadline /\ mode' = mode
      /\ pc[i] \in {"fallback", "fallback_settle"}
  BY DEF DispatchFallback, SettleFallback, session, quota, env
<1>2. FallbackAllowed(i) /\ Replayable(i) /\ ~Profile[i].externalWrite /\ Bound(i) = MaxAttempts(i) + 1
      /\ InBudget(i) /\ Bound(i) \in Nat /\ MaxAttempts(i) \in Nat /\ dispatched[i] \in Nat
  BY <1>1, BoundFacts, PolicyFacts DEF Local, Counted, Inside, InFallback, FallbackAllowed, Replayable, TypeOK
<1>3. CASE DispatchFallback(i)
  <2>1. PICK check \in Checkpoint(i, "dispatch") :
    IF check # "pass"
    THEN outcome' = [outcome EXCEPT ![i] = check] /\ Goto(i, "fallback_settle")
         /\ UNCHANGED <<circuit, admitted, dispatched>>
    ELSE IF Refuses(circuit[FallbackOf(i)])
    THEN outcome' = [outcome EXCEPT ![i] = "circuit_open"] /\ Goto(i, "fallback_settle")
         /\ UNCHANGED <<circuit, admitted, dispatched>>
    ELSE /\ circuit' = [circuit EXCEPT ![FallbackOf(i)] = Admit(@)]
         /\ admitted' = [admitted EXCEPT ![i] = Admit(circuit[FallbackOf(i)]).state]
         /\ dispatched' = [dispatched EXCEPT ![i] = @ + 1]
         /\ Goto(i, "fallback_running") /\ UNCHANGED outcome
    BY <1>3 DEF DispatchFallback, Ask
  <2>2. /\ pc[i] = "fallback" /\ pc'[i] \in {"fallback_running", "fallback_settle"}
        /\ dispatched'[i] \in {dispatched[i], dispatched[i] + 1}
    BY <1>3, <2>1 DEF DispatchFallback, Goto, TypeOK
  <2>3. result' = result
    BY <1>3 DEF DispatchFallback, session
  <2>4. dispatched[i] <= MaxAttempts(i) /\ row[i] = "absent"
    BY <2>2 DEF Local, Counted, Recorded
  <2>5. dispatched'[i] <= Bound(i)
    BY <1>2, <2>2, <2>4
  <2>6. Counted(i)'
    BY <1>1, <1>2, <2>2, <2>5 DEF Local, Counted, Inside, InFallback, Bound, InBudget, FallbackAllowed
  <2>7. QED
    BY <1>1, <1>2, <2>2, <2>3, <2>4, <2>6 DEF Local, Written, Recorded, Covered, Inside
<1>4. CASE SettleFallback(i)
  <2>1. /\ pc[i] = "fallback_settle" /\ pc'[i] = "release" /\ dispatched' = dispatched /\ outcome' = outcome
    BY <1>4 DEF SettleFallback, Goto, TypeOK
  <2>2. \/ Returned(outcome[i]) /\ result'[i].status = result[i].status
        \/ result'[i].status = "unavailable"
    BY <1>4 DEF SettleFallback, TypeOK
  <2>3. result[i].status = "running" /\ (row[i] # "absent" => ~Returned(outcome[i]))
    BY <2>1 DEF Local, Recorded, Returned
  <2>4. Counted(i)'
    BY <1>1, <1>2, <2>1 DEF Local, Counted, Inside, InFallback
  <2>5. QED
    BY <1>1, <1>2, <2>1, <2>2, <2>3, <2>4 DEF Local, Written, Recorded, Covered, Inside
<1>5. QED
  BY <1>3, <1>4

LEMMA EndLocal ==
  ASSUME TypeOK, NEW i \in Calls, Local(i), Accept(i) \/ Commit(i) \/ Rollback(i)
  PROVE  Local(i)'
<1>1. CASE Accept(i)
  <2>1. PICK check \in Checkpoint(i, "result") \cup {"invalid_output", "guardrail"} :
       /\ Persist(i, check)
       /\ result' = [result EXCEPT ![i] =
            IF check = "invalid_output" THEN [status |-> "invalid_output", reason |-> check]
            ELSE IF check # "pass" THEN [status |-> StatusOf(check), reason |-> check]
            ELSE IF result[i].reason = "fallback_used" THEN [result[i] EXCEPT !.status = "degraded"]
            ELSE [result[i] EXCEPT !.status = "completed"]]
    BY <1>1, AcceptChecks
  <2>2. result'[i].status # "running"
    <3>1. StatusOf(check) # "running"
      BY DEF StatusOf
    <3>2. QED
      BY <2>1, <3>1 DEF TypeOK
  <2>3. /\ pc[i] = "accept" /\ pc'[i] = "ended" /\ attempt' = attempt /\ dispatched' = dispatched
        /\ outcome' = outcome
    BY <1>1 DEF Accept, Goto, TypeOK, loop
  <2>4. row'[i] = "absent" \/ result'[i].status = "blocked"
    <3>1. CASE check = "guardrail"
      BY <2>1, <3>1 DEF StatusOf, TypeOK
    <3>2. CASE check # "guardrail"
      BY <2>1, <2>3, <3>2, PersistMoves DEF Local, Recorded
    <3>3. QED
      BY <3>1, <3>2
  <2>5. QED
    BY <2>2, <2>3, <2>4 DEF Local, Counted, Written, Recorded, Covered, Inside, InFallback
<1>2. CASE Commit(i) \/ Rollback(i)
  <2>1. /\ pc[i] = "ended" /\ pc'[i] = "done" /\ dispatched' = dispatched
    BY <1>2 DEF Commit, Rollback, Goto, TypeOK, Forget
  <2>2. result[i].status # "running" /\ (row[i] # "absent" => result[i].status \notin {"completed", "degraded"})
    BY <2>1 DEF Local, Recorded
  <2>3. Profile[i].reconciles => row'[i] # "running"
    <3>1. Stored(result[i].status) # "running"
      BY <2>2 DEF Stored
    <3>2. QED
      BY <1>2, <2>2, <3>1 DEF Commit, Rollback, TypeOK, Succeeds
  <2>4. QED
    BY <2>1, <2>3 DEF Local, Counted, Written, Recorded, Covered, Inside, InFallback
<1>3. QED
  BY <1>1, <1>2

LEMMA StepLocal ==
  ASSUME TypeOK, NEW i \in Calls, Local(i), Step(i)
  PROVE  Local(i)'
  BY EarlyLocal, LeaseLocal, DispatchLocal, ReturnLocal, SettleLocal, ResumeLocal, FallbackLocal, EndLocal
  DEF Step

LEMMA CrashLocal ==
  ASSUME TypeOK, NEW w \in Workers, Crash(w), NEW i \in Calls, Local(i)
  PROVE  Local(i)'
<1>1. CASE pc'[i] = "crashed"
  <2>1. dispatched' = dispatched
    BY DEF Crash, Forget
  <2>2. QED
    BY <1>1, <2>1 DEF Local, Counted, Written, Recorded, Covered, Inside, InFallback
<1>2. CASE pc'[i] # "crashed"
  <2>1. Still(i)
    BY <1>2 DEF Crash, Forget, Still, TypeOK
  <2>2. QED
    BY <2>1, StillLocal
<1>3. QED
  BY <1>1, <1>2

LEMMA TickLocal ==
  ASSUME Tick, NEW i \in Calls, Local(i)
  PROVE  Local(i)'
<1>1. Still(i)
  BY DEF Tick, Still, session, quota, loop
<1>2. QED
  BY <1>1, StillLocal
-----------------------------------------------------------------------------
(* The idempotency key. *)

\* What a step does to the locks and the rows.
LEMMA KeyMoves ==
  ASSUME TypeOK, NEW i \in Calls, Step(i)
  PROVE  \/ Start(i) /\ row' = row
         \/ holder' = holder /\ row' = row /\ (Handling(i)' => Handling(i))
         \/ /\ ReleaseLock(i) /\ Handling(i) /\ \A j \in Calls \ {i} : row'[j] = row[j]
            /\ row'[i] # "absent" \/ ~Handling(i)'
<1> USE DEF TypeOK, Goto, Handling, Inside, session, quota, loop, env
<1>1. CASE BuildPolicy(i) \/ Deduplicate(i) \/ Start(i)
  BY <1>1 DEF BuildPolicy, Deduplicate, Start
<1>2. CASE Acquire(i) \/ Blocked(i) \/ AcquireFails(i)
  BY <1>2 DEF Acquire, Blocked, AcquireFails
<1>3. CASE Release(i) \/ ReleaseFails(i)
  BY <1>3 DEF Release, ReleaseFails
<1>4. CASE Dispatch(i) \/ DispatchFallback(i)
  BY <1>4 DEF Dispatch, DispatchFallback
<1>5. ASSUME NEW point \in {"running", "fallback_running"}, NEW settle, Return(i, point, settle)
      PROVE  \/ holder' = holder /\ row' = row /\ Handling(i)
             \/ /\ ReleaseLock(i) /\ Handling(i) /\ \A j \in Calls \ {i} : row'[j] = row[j]
                /\ row'[i] # "absent"
  <2>1. PICK o \in Outcomes : Persist(i, o)
    BY <1>5 DEF Return
  <2>2. Handling(i)
    BY <1>5 DEF Return
  <2>3. CASE o = "guardrail"
    BY <2>1, <2>2, <2>3 DEF Persist
  <2>4. CASE o # "guardrail"
    BY <2>1, <2>2, <2>4 DEF Persist
  <2>5. QED
    BY <2>3, <2>4
<1>6. CASE SettleReturned(i) \/ SettleRetry(i) \/ SettleFailure(i)
  BY <1>6 DEF SettleReturned, SettleRetry, SettleFailure
<1>7. CASE Resume(i) \/ SettleFallback(i)
  BY <1>7 DEF Resume, SettleFallback
<1>8. CASE Commit(i) \/ Rollback(i)
  BY <1>8 DEF Commit, Rollback
<1>9. CASE Return(i, "running", "settle") \/ Return(i, "fallback_running", "fallback_settle")
  BY <1>5, <1>9
<1>10. CASE Accept(i)
  <2>1. Handling(i)
    BY <1>10 DEF Accept
  <2>2. QED
    BY <1>10, <2>1, AcceptChecks, PersistMoves
<1>11. QED
  BY <1>1, <1>2, <1>3, <1>4, <1>6, <1>7, <1>8, <1>9, <1>10 DEF Step

LEMMA KeyedStep ==
  ASSUME TypeOK, Keyed, NEW a \in Calls, Step(a)
  PROVE  Keyed'
<1> SUFFICES ASSUME NEW i \in Calls, Idem[i] # None, Handling(i)', row'[i] = "absent"
             PROVE  /\ holder'[Idem[i]] = i
                    /\ \A j \in Calls \ {i} : Idem[j] = Idem[i] => row'[j] = "absent"
  BY DEF Keyed
<1>1. Idem[i] \in IdemKeys /\ None \notin Calls
  BY ReliabilityAssumption
<1>2. CASE Start(a) /\ row' = row
  <2>1. LockFree(a) /\ ~Existing(a) /\ TakeLock(a)
    BY <1>2 DEF Start
  <2>2. CASE i = a
    BY <1>1, <1>2, <2>1, <2>2 DEF Existing, SameKey, TakeLock
  <2>3. CASE i # a
    <3>1. Handling(i) /\ row[i] = "absent"
      BY <1>2, <2>3, OthersStill DEF Still, Handling, Inside
    <3>2. holder[Idem[i]] = i /\ \A j \in Calls \ {i} : Idem[j] = Idem[i] => row[j] = "absent"
      BY <3>1 DEF Keyed
    <3>3. Idem[i] # Idem[a]
      BY <1>1, <2>1, <3>2 DEF LockFree
    <3>4. QED
      BY <1>1, <1>2, <2>1, <3>2, <3>3 DEF TakeLock
  <2>4. QED
    BY <2>2, <2>3
<1>3. CASE holder' = holder /\ row' = row /\ (Handling(a)' => Handling(a))
  <2>1. Handling(i)
    <3>1. CASE i = a
      BY <1>3, <3>1
    <3>2. CASE i # a
      BY <3>2, OthersStill DEF Still, Handling, Inside
    <3>3. QED
      BY <3>1, <3>2
  <2>2. QED
    BY <1>3, <2>1 DEF Keyed
<1>4. CASE /\ ReleaseLock(a) /\ Handling(a) /\ \A j \in Calls \ {a} : row'[j] = row[j]
           /\ row'[a] # "absent" \/ ~Handling(a)'
  <2>1. i # a
    BY <1>4
  <2>2. Handling(i) /\ row[i] = "absent"
    BY <1>4, <2>1, OthersStill DEF Still, Handling, Inside
  <2>3. holder[Idem[i]] = i /\ \A j \in Calls \ {i} : Idem[j] = Idem[i] => row[j] = "absent"
    BY <2>2 DEF Keyed
  <2>4. holder'[Idem[i]] = i
    BY <1>1, <1>4, <2>1, <2>3 DEF ReleaseLock
  <2>5. Idem[a] # Idem[i]
    <3>1. SUFFICES ASSUME Idem[a] = Idem[i] PROVE FALSE
      OBVIOUS
    <3>2. row[a] = "absent"
      BY <2>1, <2>3, <3>1
    <3>3. holder[Idem[a]] = a
      BY <1>4, <3>1, <3>2 DEF Keyed
    <3>4. QED
      BY <2>1, <2>3, <3>1, <3>3
  <2>6. QED
    BY <1>4, <2>3, <2>4, <2>5
<1>5. QED
  BY <1>2, <1>3, <1>4, KeyMoves

LEMMA KeyedCrash ==
  ASSUME TypeOK, Keyed, NEW w \in Workers, Crash(w)
  PROVE  Keyed'
<1> SUFFICES ASSUME NEW i \in Calls, Idem[i] # None, Handling(i)', row'[i] = "absent"
             PROVE  /\ holder'[Idem[i]] = i
                    /\ \A j \in Calls \ {i} : Idem[j] = Idem[i] => row'[j] = "absent"
  BY DEF Keyed
<1>1. Idem[i] \in IdemKeys /\ row' = row
  BY ReliabilityAssumption DEF Crash
<1>2. Handling(i) /\ Worker[i] # w
  BY DEF Crash, Handling, Inside, Over
<1>3. holder[Idem[i]] = i /\ \A j \in Calls \ {i} : Idem[j] = Idem[i] => row[j] = "absent"
  BY <1>1, <1>2 DEF Keyed
<1>4. QED
  BY <1>1, <1>2, <1>3 DEF Crash
-----------------------------------------------------------------------------
(* The breakers. *)

LEMMA BreakerCounts ==
  ASSUME TypeOK, NEW c \in Breaker, NEW counts \in BOOLEAN,
         (c.state = "closed") <=> (c.failures < Threshold)
  PROVE  /\ (Admit(c).state = "closed") <=> (Admit(c).failures < Threshold)
         /\ (Closed.state = "closed") <=> (Closed.failures < Threshold)
         /\ (Failed(c, counts).state = "closed") <=> (Failed(c, counts).failures < Threshold)
<1>1. (Admit(c).state = "closed") <=> (Admit(c).failures < Threshold)
  BY DEF Admit, Breaker
<1>2. (Closed.state = "closed") <=> (Closed.failures < Threshold)
  BY ReliabilityAssumption DEF Closed
<1>3. CASE ~counts
  <2>1. (Failed(c, counts).state = "closed") <=> (Failed(c, counts).failures < Threshold)
    BY <1>3 DEF Failed, Breaker
  <2>2. QED
    BY <1>1, <1>2, <2>1
<1>4. CASE counts
  <2>1. c.failures \in Nat /\ c.state \in {"closed", "open", "half_open"} /\ Threshold \in Nat
    BY ReliabilityAssumption DEF Breaker
  <2>2. CASE c.state = "half_open" \/ c.failures + 1 >= Threshold
    <3>1. Failed(c, counts) = [state |-> "open", failures |-> c.failures + 1, openedAt |-> now, probe |-> FALSE]
      BY <1>4, <2>2 DEF Failed
    <3>2. QED
      BY <1>1, <1>2, <2>1, <2>2, <3>1
  <2>3. CASE ~(c.state = "half_open" \/ c.failures + 1 >= Threshold)
    <3>1. Failed(c, counts) = [c EXCEPT !.failures = c.failures + 1]
      BY <1>4, <2>3 DEF Failed
    <3>2. QED
      BY <1>1, <1>2, <2>1, <2>3, <3>1 DEF Breaker
  <2>4. QED
    BY <2>2, <2>3
<1>5. QED
  BY <1>3, <1>4

\* After a failure or a success no probe is left.
LEMMA NoProbeLeft ==
  ASSUME TypeOK, NEW c \in Breaker, NEW counts \in BOOLEAN, c.probe => c.state = "half_open"
  PROVE  ~Closed.probe /\ ~Failed(c, counts).probe
<1>1. ~Closed.probe
  BY DEF Closed
<1>2. CASE ~counts
  BY <1>1, <1>2 DEF Failed, Breaker
<1>3. CASE counts
  BY <1>1, <1>3 DEF Failed, Breaker
<1>4. QED
  BY <1>2, <1>3

\* Where an adapter of the call is at work, and on which breaker.
OnBreaker(i, b) == (InAdapter(i) /\ b = Of(i)) \/ (InFallback(i) /\ b = FallbackOf(i))

\* The three things a step may do to the breakers.
Keeps(i) ==
  /\ circuit' = circuit
  /\ \A b : OnBreaker(i, b) => OnBreaker(i, b)' /\ admitted'[i] = admitted[i]

LetsIn(i, b) ==
  /\ ~InAdapter(i) /\ ~InFallback(i) /\ OnBreaker(i, b)' /\ ~Refuses(circuit[b])
  /\ circuit' = [circuit EXCEPT ![b] = Admit(circuit[b])]
  /\ admitted'[i] = Admit(circuit[b]).state

SettlesOn(i, b) ==
  /\ OnBreaker(i, b)
  /\ \E counts \in BOOLEAN :
       \/ circuit' = [circuit EXCEPT ![b] = Closed]
       \/ circuit' = [circuit EXCEPT ![b] = Failed(circuit[b], counts)]

LEMMA AskMoves ==
  ASSUME TypeOK, NEW i \in Calls, NEW b \in Breakers, ~InAdapter(i), ~InFallback(i),
         NEW point \in Points, NEW settle \in Points, Ask(i, b, point, settle),
         \/ b = Of(i) /\ point = "running"
         \/ b = FallbackOf(i) /\ point = "fallback_running"
  PROVE  Keeps(i) \/ LetsIn(i, b)
<1>1. PICK check \in Checkpoint(i, "dispatch") :
    IF check # "pass"
    THEN outcome' = [outcome EXCEPT ![i] = check] /\ Goto(i, settle)
         /\ UNCHANGED <<circuit, admitted, dispatched>>
    ELSE IF Refuses(circuit[b])
    THEN outcome' = [outcome EXCEPT ![i] = "circuit_open"] /\ Goto(i, settle)
         /\ UNCHANGED <<circuit, admitted, dispatched>>
    ELSE /\ circuit' = [circuit EXCEPT ![b] = Admit(@)]
         /\ admitted' = [admitted EXCEPT ![i] = Admit(circuit[b]).state]
         /\ dispatched' = [dispatched EXCEPT ![i] = @ + 1]
         /\ Goto(i, point) /\ UNCHANGED outcome
  BY DEF Ask
<1>2. CASE check # "pass" \/ Refuses(circuit[b])
  BY <1>1, <1>2 DEF Keeps, OnBreaker
<1>3. CASE check = "pass" /\ ~Refuses(circuit[b])
  <2>1. pc'[i] = point /\ admitted'[i] = Admit(circuit[b]).state
    BY <1>1, <1>3 DEF Goto, TypeOK
  <2>2. circuit' = [circuit EXCEPT ![b] = Admit(circuit[b])]
    BY <1>1, <1>3
  <2>3. OnBreaker(i, b)'
    BY <2>1 DEF OnBreaker, InAdapter, InFallback, Of, FallbackOf
  <2>4. QED
    BY <1>3, <2>1, <2>2, <2>3 DEF LetsIn
<1>4. QED
  BY <1>2, <1>3

LEMMA BreakerMoves ==
  ASSUME TypeOK, NEW i \in Calls, Local(i), Step(i)
  PROVE  /\ \A j \in Calls \ {i} : admitted'[j] = admitted[j] /\ pc'[j] = pc[j]
         /\ Keeps(i) \/ \E b \in Breakers : LetsIn(i, b) \/ SettlesOn(i, b)
<1>1. Of(i) \in Breakers /\ (pc[i] \in {"fallback", "fallback_running", "fallback_settle"} => FallbackOf(i) \in Breakers)
  BY BreakersOf DEF Local, Counted, InFallback, FallbackAllowed
<1>2. \A j \in Calls \ {i} : admitted'[j] = admitted[j] /\ pc'[j] = pc[j]
  <2>1. \A j \in Calls \ {i} : pc'[j] = pc[j]
    BY OthersStill DEF Still
  <2>2. \A j \in Calls \ {i} : admitted'[j] = admitted[j]
    <3> USE DEF TypeOK, loop
    <3>1. CASE Dispatch(i) \/ DispatchFallback(i)
      BY <3>1 DEF Dispatch, DispatchFallback, Ask
    <3>2. CASE BuildPolicy(i) \/ Deduplicate(i) \/ Start(i) \/ Acquire(i) \/ Blocked(i) \/ AcquireFails(i)
               \/ Release(i) \/ ReleaseFails(i) \/ Resume(i) \/ Accept(i)
      BY <3>2 DEF BuildPolicy, Deduplicate, Start, Acquire, Blocked, AcquireFails, Release, ReleaseFails,
                  Resume, Accept
    <3>3. CASE Return(i, "running", "settle") \/ Return(i, "fallback_running", "fallback_settle")
      BY <3>3 DEF Return
    <3>4. CASE SettleReturned(i) \/ SettleRetry(i) \/ SettleFailure(i) \/ SettleFallback(i)
      BY <3>4 DEF SettleReturned, SettleRetry, SettleFailure, SettleFallback, Settles
    <3>5. CASE Commit(i) \/ Rollback(i)
      BY <3>5 DEF Commit, Rollback, Forget
    <3>6. QED
      BY <3>1, <3>2, <3>3, <3>4, <3>5 DEF Step
  <2>3. QED
    BY <2>1, <2>2
<1>3. CASE Dispatch(i)
  <2>1. ~InAdapter(i) /\ ~InFallback(i) /\ Ask(i, Of(i), "running", "settle")
    BY <1>3 DEF Dispatch, InAdapter, InFallback
  <2>2. "running" \in Points /\ "settle" \in Points
    BY DEF Points
  <2>3. Keeps(i) \/ LetsIn(i, Of(i))
    BY <1>1, <2>1, <2>2, AskMoves
  <2>4. QED
    BY <1>1, <1>2, <2>3
<1>4. CASE DispatchFallback(i)
  <2>1. /\ ~InAdapter(i) /\ ~InFallback(i) /\ FallbackOf(i) \in Breakers
        /\ Ask(i, FallbackOf(i), "fallback_running", "fallback_settle")
    BY <1>1, <1>4 DEF DispatchFallback, InAdapter, InFallback
  <2>2. QED
    BY <1>2, <2>1, AskMoves DEF Points
<1>5. CASE BuildPolicy(i) \/ Deduplicate(i) \/ Start(i) \/ Acquire(i) \/ Blocked(i) \/ AcquireFails(i)
           \/ Release(i) \/ ReleaseFails(i) \/ Resume(i) \/ Accept(i) \/ Commit(i) \/ Rollback(i)
  <2>1. ~InAdapter(i) /\ ~InFallback(i) /\ circuit' = circuit
    BY <1>5 DEF BuildPolicy, Deduplicate, Start, Acquire, Blocked, AcquireFails, Release, ReleaseFails,
                Resume, Accept, Commit, Rollback, InAdapter, InFallback
  <2>2. QED
    BY <1>2, <2>1 DEF Keeps, OnBreaker
<1>6. CASE Return(i, "running", "settle") \/ Return(i, "fallback_running", "fallback_settle")
  <2>1. /\ circuit' = circuit /\ admitted' = admitted
        /\ \/ pc[i] = "running" /\ pc'[i] = "settle"
           \/ pc[i] = "fallback_running" /\ pc'[i] = "fallback_settle"
    BY <1>6 DEF Return, Goto, TypeOK
  <2>2. QED
    BY <1>2, <2>1 DEF Keeps, OnBreaker, InAdapter, InFallback, Of, FallbackOf
<1>7. CASE SettleReturned(i) \/ SettleRetry(i) \/ SettleFailure(i)
  <2>1. OnBreaker(i, Of(i))
    BY <1>7 DEF SettleReturned, SettleRetry, SettleFailure, OnBreaker, InAdapter
  <2>2. Counts(outcome[i]) \in BOOLEAN
    BY DEF Counts
  <2>3. \E counts \in BOOLEAN :
          \/ circuit' = [circuit EXCEPT ![Of(i)] = Closed]
          \/ circuit' = [circuit EXCEPT ![Of(i)] = Failed(circuit[Of(i)], counts)]
    BY <1>7, <2>2 DEF SettleReturned, SettleRetry, SettleFailure, Settles, Succeeded
  <2>4. QED
    BY <1>1, <1>2, <2>1, <2>3 DEF SettlesOn
<1>8. CASE SettleFallback(i)
  <2>1. OnBreaker(i, FallbackOf(i)) /\ FallbackOf(i) \in Breakers
    BY <1>1, <1>8 DEF SettleFallback, OnBreaker, InFallback
  <2>2. Counts(outcome[i]) \in BOOLEAN
    BY DEF Counts
  <2>3. \E counts \in BOOLEAN :
          \/ circuit' = [circuit EXCEPT ![FallbackOf(i)] = Closed]
          \/ circuit' = [circuit EXCEPT ![FallbackOf(i)] = Failed(circuit[FallbackOf(i)], counts)]
    BY <1>8, <2>2 DEF SettleFallback, Settles, Succeeded
  <2>4. QED
    BY <1>2, <2>1, <2>3 DEF SettlesOn
<1>9. QED
  BY <1>3, <1>4, <1>5, <1>6, <1>7, <1>8 DEF Step
LEMMA CircuitStep ==
  ASSUME TypeOK, CircuitCounts, NEW i \in Calls, Local(i), Step(i)
  PROVE  CircuitCounts'
<1>1. \A b \in Breakers : circuit[b] \in Breaker /\ ((circuit[b].state = "closed") <=> (circuit[b].failures < Threshold))
  BY DEF TypeOK, CircuitCounts
<1>2. CASE Keeps(i)
  BY <1>2 DEF Keeps, CircuitCounts
<1>3. ASSUME NEW b \in Breakers, LetsIn(i, b) \/ SettlesOn(i, b) PROVE CircuitCounts'
  <2>1. PICK c \in Breaker : /\ circuit' = [circuit EXCEPT ![b] = c]
                             /\ (c.state = "closed") <=> (c.failures < Threshold)
    <3>1. CASE LetsIn(i, b)
      BY <1>1, <3>1, BreakerTypes, BreakerCounts DEF LetsIn
    <3>2. CASE SettlesOn(i, b)
      <4>1. PICK counts \in BOOLEAN :
              \/ circuit' = [circuit EXCEPT ![b] = Closed]
              \/ circuit' = [circuit EXCEPT ![b] = Failed(circuit[b], counts)]
        BY <3>2 DEF SettlesOn
      <4>2. QED
        BY <1>1, <4>1, BreakerTypes, BreakerCounts
    <3>3. QED
      BY <1>3, <3>1, <3>2
  <2>2. QED
    BY <1>1, <2>1 DEF CircuitCounts, TypeOK
<1>4. QED
  BY <1>2, <1>3, BreakerMoves

LEMMA ProbeStep ==
  ASSUME TypeOK, ProbeOwned, NEW i \in Calls, Local(i), Step(i)
  PROVE  ProbeOwned'
<1>1. \A b \in Breakers : /\ circuit[b] \in Breaker
                          /\ circuit[b].probe =>
                               /\ circuit[b].state = "half_open"
                               /\ \E j \in Calls : admitted[j] = "half_open" /\ OnBreaker(j, b)
  BY DEF TypeOK, ProbeOwned, OnBreaker
<1>2. SUFFICES ASSUME NEW b \in Breakers, circuit'[b].probe
               PROVE  /\ circuit'[b].state = "half_open"
                      /\ \E j \in Calls : admitted'[j] = "half_open" /\ OnBreaker(j, b)'
  BY DEF ProbeOwned, OnBreaker, InAdapter, InFallback, Of, FallbackOf
<1>3. \A j \in Calls \ {i} : admitted'[j] = admitted[j] /\ (OnBreaker(j, b) => OnBreaker(j, b)')
  BY BreakerMoves DEF OnBreaker, InAdapter, InFallback, Of, FallbackOf
<1>4. CASE Keeps(i)
  <2>1. circuit[b].probe /\ circuit'[b] = circuit[b]
    BY <1>2, <1>4 DEF Keeps
  <2>2. PICK j \in Calls : admitted[j] = "half_open" /\ OnBreaker(j, b)
    BY <1>1, <2>1
  <2>3. admitted'[j] = "half_open" /\ OnBreaker(j, b)'
    BY <1>3, <1>4, <2>2 DEF Keeps
  <2>4. QED
    BY <1>1, <2>1, <2>3
<1>5. ASSUME NEW a \in Breakers, LetsIn(i, a)
      PROVE  /\ circuit'[b].state = "half_open"
             /\ \E j \in Calls : admitted'[j] = "half_open" /\ OnBreaker(j, b)'
  <2>1. CASE b = a
    <3>1. circuit'[b] = Admit(circuit[b]) /\ ~Refuses(circuit[b]) /\ admitted'[i] = Admit(circuit[b]).state
          /\ OnBreaker(i, b)'
      BY <1>5, <2>1 DEF LetsIn, TypeOK
    <3>2. CASE circuit[b].state = "open"
      <4>1. Admit(circuit[b]).state = "half_open"
        BY <1>1, <3>2 DEF Admit, Breaker
      <4>2. QED
        BY <3>1, <4>1
    <3>3. CASE circuit[b].state # "open"
      <4>1. circuit[b].probe /\ circuit[b].state = "half_open"
        BY <1>1, <1>2, <3>1, <3>3 DEF Admit
      <4>2. QED
        BY <3>1, <4>1 DEF Refuses
    <3>4. QED
      BY <3>2, <3>3
  <2>2. CASE b # a
    <3>1. circuit'[b] = circuit[b]
      BY <1>5, <2>2 DEF LetsIn, TypeOK
    <3>2. PICK j \in Calls : admitted[j] = "half_open" /\ OnBreaker(j, b)
      BY <1>1, <1>2, <3>1
    <3>3. j # i
      BY <1>5, <3>2 DEF LetsIn, OnBreaker
    <3>4. QED
      BY <1>1, <1>2, <1>3, <3>1, <3>2, <3>3
  <2>3. QED
    BY <2>1, <2>2
<1>6. ASSUME NEW a \in Breakers, SettlesOn(i, a)
      PROVE  /\ circuit'[b].state = "half_open"
             /\ \E j \in Calls : admitted'[j] = "half_open" /\ OnBreaker(j, b)'
  <2>1. PICK counts \in BOOLEAN :
          \/ circuit' = [circuit EXCEPT ![a] = Closed]
          \/ circuit' = [circuit EXCEPT ![a] = Failed(circuit[a], counts)]
    BY <1>6 DEF SettlesOn
  <2>2. b # a
    <3>1. SUFFICES ASSUME b = a PROVE FALSE
      OBVIOUS
    <3>2. circuit'[b] = Closed \/ circuit'[b] = Failed(circuit[b], counts)
      BY <2>1, <3>1 DEF TypeOK
    <3>3. ~Closed.probe /\ ~Failed(circuit[b], counts).probe
      BY <1>1, NoProbeLeft
    <3>4. QED
      BY <1>2, <3>2, <3>3
  <2>3. circuit'[b] = circuit[b]
    BY <2>1, <2>2 DEF TypeOK
  <2>4. PICK j \in Calls : admitted[j] = "half_open" /\ OnBreaker(j, b)
    BY <1>1, <1>2, <2>3
  <2>5. j # i
    BY <1>6, <2>2, <2>4 DEF SettlesOn, OnBreaker, InAdapter, InFallback
  <2>6. QED
    BY <1>1, <1>2, <1>3, <2>3, <2>4, <2>5
<1>7. QED
  BY <1>4, <1>5, <1>6, BreakerMoves

LEMMA BreakerCrash ==
  ASSUME TypeOK, CircuitCounts, ProbeOwned, NEW w \in Workers, Crash(w)
  PROVE  CircuitCounts' /\ ProbeOwned'
<1>1. circuit' = [b \in Breakers |-> IF b[1] = w THEN Closed ELSE circuit[b]]
  BY DEF Crash
<1>2. CircuitCounts'
  <2>1. (Closed.state = "closed") /\ (Closed.failures < Threshold)
    BY ReliabilityAssumption DEF Closed
  <2>2. QED
    BY <1>1, <2>1 DEF CircuitCounts
<1>3. ASSUME NEW b \in Breakers, circuit'[b].probe
      PROVE  /\ circuit'[b].state = "half_open"
             /\ \E j \in Calls : admitted'[j] = "half_open" /\ OnBreaker(j, b)'
  <2>1. b[1] # w /\ circuit'[b] = circuit[b]
    BY <1>1, <1>3 DEF Closed
  <2>2. PICK j \in Calls : admitted[j] = "half_open" /\ OnBreaker(j, b)
    BY <1>3, <2>1 DEF ProbeOwned, OnBreaker
  <2>3. Worker[j] # w
    BY <2>1, <2>2 DEF OnBreaker, Of, FallbackOf
  <2>4. pc'[j] = pc[j] /\ pc[j] # "crashed"
    BY <2>2, <2>3 DEF Crash, OnBreaker, InAdapter, InFallback
  <2>5. admitted'[j] = admitted[j]
    BY <2>4 DEF Crash, Forget
  <2>6. QED
    BY <1>3, <2>1, <2>2, <2>4, <2>5 DEF ProbeOwned, OnBreaker, InAdapter, InFallback, Of, FallbackOf
<1>4. ProbeOwned'
  BY <1>3 DEF ProbeOwned, OnBreaker, InAdapter, InFallback, Of, FallbackOf
<1>5. QED
  BY <1>2, <1>4
-----------------------------------------------------------------------------
(* The quota. *)

\* The three things a step may do to the leases and counters.
QuotaKept(i) == UNCHANGED quota /\ (mode = "local" => (Inside(i)' <=> Inside(i)))
Taken(i)     == Room(i) /\ Hold(i) /\ ~Inside(i) /\ (mode = "local" => Inside(i)')
Given(i)     == Drop(i) /\ Inside(i) /\ ~Inside(i)'

LEMMA QuotaMoves ==
  ASSUME TypeOK, NEW i \in Calls, Step(i)
  PROVE  /\ now' = now /\ mode' = mode
         /\ QuotaKept(i) \/ Taken(i) \/ Given(i)
<1> USE DEF TypeOK, Goto, Inside, session, quota, loop, env, QuotaKept, Taken, Given
<1>1. CASE BuildPolicy(i) \/ Deduplicate(i) \/ Blocked(i)
  BY <1>1 DEF BuildPolicy, Deduplicate, Blocked
<1>2. CASE Start(i)
  <2>1. pc[i] = "start" /\ pc'[i] \in {"lease", "ended"}
    BY <1>2 DEF Start
  <2>2. QED
    BY <1>2, <2>1 DEF Start
<1>3. CASE Acquire(i)
  BY <1>3 DEF Acquire
<1>4. CASE AcquireFails(i)
  BY <1>4 DEF AcquireFails
<1>5. CASE Release(i)
  BY <1>5 DEF Release, AfterRelease
<1>6. CASE ReleaseFails(i)
  BY <1>6 DEF ReleaseFails
<1>7. CASE Dispatch(i)
  <2>1. pc[i] = "dispatch" /\ pc'[i] \in {"running", "settle"}
    BY <1>7 DEF Dispatch, Ask
  <2>2. QED
    BY <1>7, <2>1 DEF Dispatch
<1>8. CASE DispatchFallback(i)
  <2>1. pc[i] = "fallback" /\ pc'[i] \in {"fallback_running", "fallback_settle"}
    BY <1>8 DEF DispatchFallback, Ask
  <2>2. QED
    BY <1>8, <2>1 DEF DispatchFallback
<1>9. CASE Return(i, "running", "settle") \/ Return(i, "fallback_running", "fallback_settle")
  BY <1>9 DEF Return
<1>10. CASE SettleReturned(i) \/ SettleFallback(i)
  BY <1>10 DEF SettleReturned, SettleFallback
<1>11. CASE SettleRetry(i)
  <2>1. pc[i] = "settle" /\ pc'[i] \in {"backoff", "release"}
    BY <1>11 DEF SettleRetry
  <2>2. QED
    BY <1>11, <2>1 DEF SettleRetry
<1>12. CASE SettleFailure(i)
  <2>1. pc[i] = "settle" /\ pc'[i] \in {"fallback", "release"}
    BY <1>12 DEF SettleFailure
  <2>2. QED
    BY <1>12, <2>1 DEF SettleFailure
<1>13. CASE Resume(i)
  <2>1. pc[i] = "backoff" /\ pc'[i] \in {"dispatch", "release"}
    BY <1>13 DEF Resume
  <2>2. QED
    BY <1>13, <2>1 DEF Resume
<1>14. CASE Accept(i) \/ Commit(i) \/ Rollback(i)
  BY <1>14 DEF Accept, Commit, Rollback
<1>15. QED
  BY <1>1, <1>2, <1>3, <1>4, <1>5, <1>6, <1>7, <1>8, <1>9, <1>10, <1>11, <1>12, <1>13, <1>14 DEF Step

LEMMA LeasesShrink ==
  ASSUME LeasesBounded, mode' = mode, \A k \in Keys : LiveHolders(k)' \subseteq LiveHolders(k)
  PROVE  LeasesBounded'
<1> SUFFICES ASSUME NEW k \in Keys, mode = "redis" PROVE Cardinality(LiveHolders(k)') <= Limit[k]
  BY DEF LeasesBounded
<1>1. Cardinality(LiveHolders(k)) <= Limit[k] /\ LiveHolders(k)' \subseteq LiveHolders(k)
  BY DEF LeasesBounded
<1>2. IsFiniteSet(LiveHolders(k)) /\ Cardinality(LiveHolders(k)) \in Nat
  BY ConcurrentFinite
<1>3. Cardinality(LiveHolders(k)') <= Cardinality(LiveHolders(k)) /\ Cardinality(LiveHolders(k)') \in Nat
  BY <1>1, <1>2, FS_Subset, FS_CardinalityType
<1>4. QED
  BY <1>1, <1>2, <1>3, ReliabilityAssumption

LEMMA LeasesStep ==
  ASSUME TypeOK, LeasesBounded, NEW i \in Calls, Step(i)
  PROVE  LeasesBounded'
<1>1. now' = now /\ mode' = mode
  BY QuotaMoves
<1>2. CASE QuotaKept(i)
  <2>1. \A k \in Keys : LiveHolders(k)' \subseteq LiveHolders(k)
    BY <1>1, <1>2 DEF QuotaKept, quota, LiveHolders
  <2>2. QED
    BY <1>1, <2>1, LeasesShrink
<1>3. CASE Given(i) /\ mode = "redis"
  <2>1. \A k \in Keys : LiveHolders(k)' \subseteq LiveHolders(k)
    BY <1>1, <1>3 DEF Given, Drop, LiveHolders, TypeOK
  <2>2. QED
    BY <1>1, <2>1, LeasesShrink
<1>4. CASE Taken(i) /\ mode = "redis"
  <2>1. SUFFICES ASSUME NEW k \in Keys PROVE Cardinality(LiveHolders(k)') <= Limit[k]
    BY DEF LeasesBounded
  <2>2. IsFiniteSet(LiveHolders(k)) /\ Cardinality(LiveHolders(k)) \in Nat /\ Limit[k] \in Nat
    BY ConcurrentFinite, ReliabilityAssumption
  <2>3. \A j \in Calls \ {i} : expiry'[j] = expiry[j]
    BY <1>4 DEF Taken, Hold, TypeOK
  <2>4. CASE k \in Scopes[i]
    <3>1. LiveHolders(k)' \subseteq LiveHolders(k) \cup {i}
      BY <1>1, <2>3 DEF LiveHolders
    <3>2. Cardinality(LiveHolders(k)) < Limit[k]
      BY <1>4, <2>4 DEF Taken, Room
    <3>3. /\ IsFiniteSet(LiveHolders(k) \cup {i})
          /\ Cardinality(LiveHolders(k) \cup {i}) <= Cardinality(LiveHolders(k)) + 1
      <4>1. /\ IsFiniteSet(LiveHolders(k) \cup {i})
            /\ Cardinality(LiveHolders(k) \cup {i})
                 = (IF i \in LiveHolders(k) THEN Cardinality(LiveHolders(k)) ELSE Cardinality(LiveHolders(k)) + 1)
        BY <2>2, FS_AddElement
      <4>2. QED
        BY <2>2, <4>1
    <3>4. /\ Cardinality(LiveHolders(k)') <= Cardinality(LiveHolders(k) \cup {i})
          /\ Cardinality(LiveHolders(k)') \in Nat /\ Cardinality(LiveHolders(k) \cup {i}) \in Nat
      BY <3>1, <3>3, FS_Subset, FS_CardinalityType
    <3>5. QED
      BY <2>2, <3>2, <3>3, <3>4
  <2>5. CASE k \notin Scopes[i]
    <3>1. LiveHolders(k)' = LiveHolders(k)
      BY <1>1, <2>3, <2>5 DEF LiveHolders
    <3>2. QED
      BY <1>4, <3>1 DEF LeasesBounded
  <2>6. QED
    BY <2>4, <2>5
<1>5. CASE mode # "redis"
  BY <1>1, <1>5 DEF LeasesBounded
<1>6. QED
  BY <1>2, <1>3, <1>4, <1>5, QuotaMoves

LEMMA LeasesEnvironment ==
  ASSUME TypeOK, LeasesBounded, Tick \/ \E w \in Workers : Crash(w)
  PROVE  LeasesBounded'
<1>1. mode' = mode /\ expiry' = expiry /\ now' >= now /\ now' \in Nat
  <2>1. CASE Tick
    BY <2>1 DEF Tick, quota, TypeOK
  <2>2. CASE \E w \in Workers : Crash(w)
    <3>1. mode' = mode /\ expiry' = expiry /\ now' = now
      BY <2>2 DEF Crash
    <3>2. QED
      BY <3>1 DEF TypeOK
  <2>3. QED
    BY <2>1, <2>2
<1>2. \A k \in Keys : LiveHolders(k)' \subseteq LiveHolders(k)
  BY <1>1 DEF LiveHolders, TypeOK
<1>3. QED
  BY <1>1, <1>2, LeasesShrink

LEMMA CountsStep ==
  ASSUME TypeOK, CountsBounded, NEW i \in Calls, Step(i)
  PROVE  CountsBounded'
<1>1. mode' = mode
  BY QuotaMoves
<1>2. \A s \in Slots : active[s] \in Nat /\ Limit[s[2]] \in Nat /\ Limit[s[2]] >= 1
  BY ReliabilityAssumption DEF TypeOK, Slots
<1>3. SUFFICES ASSUME mode = "local", NEW s \in Slots PROVE active'[s] <= Limit[s[2]]
  BY <1>1 DEF CountsBounded
<1>4. active[s] <= Limit[s[2]]
  BY <1>3 DEF CountsBounded
<1>5. CASE QuotaKept(i)
  BY <1>4, <1>5 DEF QuotaKept, quota
<1>6. CASE Given(i)
  BY <1>2, <1>3, <1>4, <1>6 DEF Given, Drop
<1>7. CASE Taken(i)
  <2>1. s \in SlotsOf(i) => active[s] < Limit[s[2]]
    BY <1>3, <1>7 DEF Taken, Room, SlotsOf
  <2>2. QED
    BY <1>2, <1>3, <1>4, <1>7, <2>1 DEF Taken, Hold
<1>8. QED
  BY <1>5, <1>6, <1>7, QuotaMoves

LEMMA CountsEnvironment ==
  ASSUME TypeOK, CountsBounded, Tick \/ \E w \in Workers : Crash(w)
  PROVE  CountsBounded'
<1>1. \A s \in Slots : active'[s] = active[s] \/ active'[s] = 0
  BY DEF Tick, Crash, quota
<1>2. mode' = mode
  BY DEF Tick, Crash
<1>3. \A s \in Slots : Limit[s[2]] \in Nat
  BY ReliabilityAssumption DEF Slots
<1>4. QED
  BY <1>1, <1>2, <1>3 DEF CountsBounded
LEMMA LocalCountStep ==
  ASSUME TypeOK, LocalCountExact, NEW i \in Calls, Step(i)
  PROVE  LocalCountExact'
<1>1. mode' = mode
  BY QuotaMoves
<1>2. \A j \in Calls \ {i} : Inside(j)' <=> Inside(j)
  BY OthersStill DEF Still, Inside
<1>3. SUFFICES ASSUME mode = "local", NEW w \in Workers, NEW k \in Keys
               PROVE  active'[<<w, k>>] = Cardinality(ConcurrentIn(w, k)')
  BY <1>1 DEF LocalCountExact
<1> DEFINE s == <<w, k>>
<1>4. s \in Slots /\ active[s] = Cardinality(ConcurrentIn(w, k)) /\ active[s] \in Nat
  BY <1>3 DEF Slots, LocalCountExact, TypeOK
<1>5. s \in SlotsOf(i) <=> w = Worker[i] /\ k \in Scopes[i]
  BY DEF SlotsOf
<1>6. CASE QuotaKept(i)
  <2>1. ConcurrentIn(w, k)' = ConcurrentIn(w, k)
    BY <1>2, <1>3, <1>6 DEF QuotaKept, ConcurrentIn
  <2>2. QED
    BY <1>4, <1>6, <2>1 DEF QuotaKept, quota
<1>7. CASE Taken(i)
  <2>1. active'[s] = IF s \in SlotsOf(i) THEN active[s] + 1 ELSE active[s]
    BY <1>3, <1>4, <1>7 DEF Taken, Hold
  <2>2. CASE s \in SlotsOf(i)
    <3>1. ConcurrentIn(w, k)' = ConcurrentIn(w, k) \cup {i} /\ i \notin ConcurrentIn(w, k)
      BY <1>2, <1>3, <1>5, <1>7, <2>2 DEF Taken, ConcurrentIn
    <3>2. Cardinality(ConcurrentIn(w, k) \cup {i}) = Cardinality(ConcurrentIn(w, k)) + 1
      BY <3>1, ConcurrentFinite, FS_AddElement
    <3>3. QED
      BY <1>4, <2>1, <2>2, <3>1, <3>2
  <2>3. CASE s \notin SlotsOf(i)
    <3>1. ConcurrentIn(w, k)' = ConcurrentIn(w, k)
      BY <1>2, <1>5, <2>3 DEF ConcurrentIn
    <3>2. QED
      BY <1>4, <2>1, <2>3, <3>1
  <2>4. QED
    BY <2>2, <2>3
<1>8. CASE Given(i)
  <2>1. active'[s] = IF s \in SlotsOf(i) THEN active[s] - 1 ELSE active[s]
    BY <1>3, <1>4, <1>8 DEF Given, Drop
  <2>2. CASE s \in SlotsOf(i)
    <3>1. ConcurrentIn(w, k)' = ConcurrentIn(w, k) \ {i} /\ i \in ConcurrentIn(w, k)
      BY <1>2, <1>5, <1>8, <2>2 DEF Given, ConcurrentIn
    <3>2. Cardinality(ConcurrentIn(w, k) \ {i}) = Cardinality(ConcurrentIn(w, k)) - 1
      BY <3>1, ConcurrentFinite, FS_RemoveElement
    <3>3. QED
      BY <1>4, <2>1, <2>2, <3>1, <3>2
  <2>3. CASE s \notin SlotsOf(i)
    <3>1. ConcurrentIn(w, k)' = ConcurrentIn(w, k)
      BY <1>2, <1>5, <2>3 DEF ConcurrentIn
    <3>2. QED
      BY <1>4, <2>1, <2>3, <3>1
  <2>4. QED
    BY <2>2, <2>3
<1>9. QED
  BY <1>6, <1>7, <1>8, QuotaMoves

LEMMA LocalCountCrash ==
  ASSUME TypeOK, LocalCountExact, NEW v \in Workers, Crash(v)
  PROVE  LocalCountExact'
<1>1. SUFFICES ASSUME mode = "local", NEW w \in Workers, NEW k \in Keys
               PROVE  active'[<<w, k>>] = Cardinality(ConcurrentIn(w, k)')
  BY DEF LocalCountExact, Crash
<1>2. <<w, k>> \in Slots
  BY DEF Slots
<1>3. CASE w = v
  <2>1. ConcurrentIn(w, k)' = {}
    BY <1>3 DEF Crash, ConcurrentIn, Inside, Over
  <2>2. active'[<<w, k>>] = 0
    BY <1>2, <1>3 DEF Crash
  <2>3. QED
    BY <2>1, <2>2, FS_EmptySet
<1>4. CASE w # v
  <2>1. ConcurrentIn(w, k)' = ConcurrentIn(w, k)
    BY <1>4 DEF Crash, ConcurrentIn, Inside
  <2>2. active'[<<w, k>>] = active[<<w, k>>]
    BY <1>2, <1>4 DEF Crash
  <2>3. QED
    BY <1>1, <2>1, <2>2 DEF LocalCountExact
<1>5. QED
  BY <1>3, <1>4
-----------------------------------------------------------------------------
(* The invariant. *)

LEMMA InitInvariant == Init => SkillInv
<1> SUFFICES ASSUME Init PROVE SkillInv
  OBVIOUS
<1>1. TypeOK
  BY InitType
<1>2. \A i \in Calls : pc[i] = "idle" /\ ~Inside(i) /\ ~InAdapter(i) /\ ~InFallback(i)
  BY DEF Init, Inside, InAdapter, InFallback
<1>3. ASSUME NEW i \in Calls PROVE Local(i)
  <2>1. /\ pc[i] = "idle" /\ attempt[i] = 0 /\ dispatched[i] = 0 /\ outcome[i] = "none"
        /\ row[i] = "absent" /\ result[i].status = "running" /\ Bound(i) \in Nat
    BY BoundFacts DEF Init, Running
  <2>2. QED
    BY <1>2, <2>1 DEF Local, Counted, Written, Recorded, Covered, Inside, InFallback
<1>4. Keyed
  BY <1>2 DEF Keyed, Handling
<1>5. LeasesBounded
  <2>1. \A k \in Keys : LiveHolders(k) = {} /\ Limit[k] \in Nat
    BY ReliabilityAssumption DEF Init, LiveHolders
  <2>2. QED
    BY <2>1, FS_EmptySet DEF LeasesBounded
<1>6. CountsBounded
  BY ReliabilityAssumption DEF Init, CountsBounded, Slots
<1>7. LocalCountExact
  <2>1. \A w \in Workers, k \in Keys : ConcurrentIn(w, k) = {} /\ active[<<w, k>>] = 0
    BY <1>2 DEF Init, ConcurrentIn, Slots
  <2>2. QED
    BY <2>1, FS_EmptySet DEF LocalCountExact
<1>8. ProbeOwned /\ CircuitCounts
  BY ReliabilityAssumption DEF Init, ProbeOwned, CircuitCounts, Closed
<1>9. QED
  BY <1>1, <1>3, <1>4, <1>5, <1>6, <1>7, <1>8 DEF SkillInv

LEMMA NextInvariant == SkillInv /\ [Next]_vars => SkillInv'
<1> SUFFICES ASSUME SkillInv, [Next]_vars PROVE SkillInv'
  OBVIOUS
<1> USE DEF SkillInv
<1>1. ASSUME NEW i \in Calls, Step(i) PROVE SkillInv'
  <2>1. TypeOK'
    BY <1>1, StepType
  <2>2. \A j \in Calls : Local(j)'
    <3>1. ASSUME NEW j \in Calls, j # i PROVE Local(j)'
      BY <1>1, <3>1, OthersStill, StillLocal
    <3>2. Local(i)'
      BY <1>1, StepLocal
    <3>3. QED
      BY <3>1, <3>2
  <2>3. Keyed'
    BY <1>1, KeyedStep
  <2>4. LeasesBounded' /\ CountsBounded' /\ LocalCountExact'
    BY <1>1, LeasesStep, CountsStep, LocalCountStep
  <2>5. ProbeOwned' /\ CircuitCounts'
    BY <1>1, ProbeStep, CircuitStep
  <2>6. QED
    BY <2>1, <2>2, <2>3, <2>4, <2>5
<1>2. ASSUME NEW w \in Workers, Crash(w) PROVE SkillInv'
  <2>1. TypeOK' /\ Keyed' /\ LocalCountExact' /\ ProbeOwned' /\ CircuitCounts'
    BY <1>2, CrashType, KeyedCrash, LocalCountCrash, BreakerCrash
  <2>2. \A j \in Calls : Local(j)'
    BY <1>2, CrashLocal
  <2>3. LeasesBounded' /\ CountsBounded'
    BY <1>2, LeasesEnvironment, CountsEnvironment
  <2>4. QED
    BY <2>1, <2>2, <2>3
<1>3. CASE Tick
  <2>1. TypeOK'
    BY <1>3, TickType
  <2>2. \A j \in Calls : Local(j)'
    BY <1>3, TickLocal
  <2>3. LeasesBounded' /\ CountsBounded'
    BY <1>3, LeasesEnvironment, CountsEnvironment
  <2>4. Keyed' /\ LocalCountExact' /\ ProbeOwned' /\ CircuitCounts'
    BY <1>3 DEF Tick, session, quota, loop, Keyed, Handling, Inside, LocalCountExact, ConcurrentIn,
                ProbeOwned, InAdapter, InFallback, Of, FallbackOf, CircuitCounts
  <2>5. QED
    BY <2>1, <2>2, <2>3, <2>4
<1>4. CASE UNCHANGED vars
  <2>1. \A i \in Calls : Still(i)
    BY <1>4 DEF vars, Still, session, quota, loop, env
  <2>2. \A j \in Calls : Local(j)'
    BY <2>1, StillLocal
  <2>3. TypeOK'
    BY <1>4 DEF vars, session, quota, loop, env, TypeOK
  <2>4. LeasesBounded' /\ CountsBounded'
    BY <1>4 DEF vars, session, quota, loop, env, LeasesBounded, CountsBounded, LiveHolders
  <2>5. Keyed' /\ LocalCountExact' /\ ProbeOwned' /\ CircuitCounts'
    BY <1>4 DEF vars, session, quota, loop, env, Keyed, Handling, Inside, LocalCountExact, ConcurrentIn,
                ProbeOwned, InAdapter, InFallback, Of, FallbackOf, CircuitCounts
  <2>6. QED
    BY <2>2, <2>3, <2>4, <2>5
<1>5. QED
  BY <1>1, <1>2, <1>3, <1>4 DEF Next
-----------------------------------------------------------------------------
(* The theorems. *)

\* The inductive invariant holds throughout: of every managed call its budget,
\* its row and its lease, and the locks, counters and breakers they share.
THEOREM SkillInvariant == Spec => []SkillInv
<1>1. Init => SkillInv
  BY InitInvariant
<1>2. SkillInv /\ [Next]_vars => SkillInv'
  BY NextInvariant
<1>3. QED
  BY <1>1, <1>2, PTL DEF Spec

\* Every breaker, counter, row and program point stays in its domain; no local
\* counter goes below zero.
THEOREM SkillTypeCorrect == Spec => []TypeOK
<1>1. SkillInv => TypeOK
  BY DEF SkillInv
<1>2. QED
  BY <1>1, SkillInvariant, PTL

LEMMA QuotaFollows == SkillInv => WithinQuota
<1> SUFFICES ASSUME SkillInv, NEW k \in Keys
             PROVE  IF mode = "redis" THEN Cardinality(Concurrent(k)) <= Limit[k]
                    ELSE \A w \in Workers : Cardinality(ConcurrentIn(w, k)) <= Limit[k]
  BY DEF WithinQuota
<1>1. TypeOK /\ Limit[k] \in Nat
  BY ReliabilityAssumption DEF SkillInv
<1>2. CASE mode = "redis"
  <2>1. Concurrent(k) \subseteq LiveHolders(k)
    <3>1. SUFFICES ASSUME NEW i \in Calls, Inside(i), k \in Scopes[i], now < deadline[i] + Grace
                   PROVE  expiry[i] > now
      BY DEF Concurrent, LiveHolders
    <3>2. expiry[i] >= deadline[i] + Grace
      BY <1>2, <3>1 DEF SkillInv, Local, Covered
    <3>3. QED
      BY <1>1, <3>1, <3>2, ReliabilityAssumption DEF TypeOK
  <2>2. Cardinality(LiveHolders(k)) <= Limit[k]
    BY <1>2 DEF SkillInv, LeasesBounded
  <2>3. /\ Cardinality(Concurrent(k)) <= Cardinality(LiveHolders(k))
        /\ Cardinality(Concurrent(k)) \in Nat /\ Cardinality(LiveHolders(k)) \in Nat
    BY <2>1, ConcurrentFinite, FS_Subset, FS_CardinalityType
  <2>4. QED
    BY <1>1, <1>2, <2>2, <2>3
<1>3. CASE mode # "redis"
  <2>1. mode = "local"
    BY <1>1, <1>3, ReliabilityAssumption DEF TypeOK
  <2>2. ASSUME NEW w \in Workers PROVE Cardinality(ConcurrentIn(w, k)) <= Limit[k]
    <3>1. <<w, k>> \in Slots /\ active[<<w, k>>] = Cardinality(ConcurrentIn(w, k))
      BY <2>1 DEF SkillInv, LocalCountExact, Slots
    <3>2. active[<<w, k>>] <= Limit[k]
      BY <2>1, <3>1 DEF SkillInv, CountsBounded
    <3>3. QED
      BY <3>1, <3>2
  <2>3. QED
    BY <1>3, <2>2
<1>4. QED
  BY <1>2, <1>3

\* Whatever Redis loses and whichever process dies, no quota scope ever has more
\* calls under way than its limit: each of them holds a lease that outlives its deadline.
THEOREM QuotaIsKept == Spec => []WithinQuota
  BY QuotaFollows, SkillInvariant, PTL

\* No way out of a call loses or doubles a decrement of the process's counters.
THEOREM LocalCountsAreExact == Spec => []LocalCountExact
<1>1. SkillInv => LocalCountExact
  BY DEF SkillInv
<1>2. QED
  BY <1>1, SkillInvariant, PTL

\* The half-open flag of a breaker is never left behind by a call that has gone.
THEOREM ProbesAreOwned == Spec => []ProbeOwned
<1>1. SkillInv => ProbeOwned
  BY DEF SkillInv
<1>2. QED
  BY <1>1, SkillInvariant, PTL

\* However late successes and failures of several calls come in, a breaker is
\* closed exactly while its count is below the threshold.
THEOREM BreakersCount == Spec => []CircuitCounts
<1>1. SkillInv => CircuitCounts
  BY DEF SkillInv
<1>2. QED
  BY <1>1, SkillInvariant, PTL

LEMMA BudgetFollows == SkillInv => DispatchesInBudget /\ UnsafeOnce
<1> SUFFICES ASSUME SkillInv, NEW i \in Calls
             PROVE  dispatched[i] <= Profile[i].skillCalls /\ (~Replayable(i) => dispatched[i] <= 1)
  BY DEF DispatchesInBudget, UnsafeOnce
<1>1. dispatched[i] \in Nat /\ dispatched[i] <= Bound(i) /\ (dispatched[i] > 0 => InBudget(i))
  BY DEF SkillInv, TypeOK, Local, Counted
<1>2. InBudget(i) => Bound(i) <= Profile[i].skillCalls
  BY PolicyFacts DEF InBudget, Bound, FallbackAllowed
<1>3. ~Replayable(i) => Bound(i) = 1
  BY PolicyFacts DEF Bound, FallbackAllowed
<1>4. QED
  BY <1>1, <1>2, <1>3, BoundFacts, PolicyFacts

\* Retries and fallback together never exceed the budget of skill calls.
THEOREM BudgetIsKept == Spec => []DispatchesInBudget
  BY BudgetFollows, SkillInvariant, PTL

\* A call that is not safe to repeat reaches an adapter once at most.
THEOREM UnsafeCallsRunOnce == Spec => []UnsafeOnce
  BY BudgetFollows, SkillInvariant, PTL

LEMMA WrittenFollows == SkillInv => UnknownWriteReported
  BY DEF SkillInv, Local, Written, UnknownWriteReported

\* An external write that failed on the way is always reported as of unknown outcome.
THEOREM UnknownWritesAreReported == Spec => []UnknownWriteReported
  BY WrittenFollows, SkillInvariant, PTL

LEMMA ExclusiveFollows == SkillInv => KeyExclusive
<1> SUFFICES ASSUME SkillInv, NEW i \in Calls, NEW j \in Calls, i # j, SameKey(i, j), Inside(i), Inside(j),
                    row[i] = "absent", row[j] = "absent"
             PROVE  FALSE
  BY DEF KeyExclusive
<1>1. holder[Idem[i]] = i /\ holder[Idem[j]] = j
  BY DEF SkillInv, Keyed, SameKey, Handling
<1>2. QED
  BY <1>1 DEF SameKey

\* Two calls of one key are never both under way without a row either would have found.
THEOREM KeysAreExclusive == Spec => []KeyExclusive
  BY ExclusiveFollows, SkillInvariant, PTL

LEMMA OnceFollows ==
  SkillInv /\ [Next]_vars =>
    [\A i \in Calls : dispatched'[i] > dispatched[i] =>
       \A j \in Calls \ {i} : SameKey(i, j) => row[j] = "absent"]_vars
<1> SUFFICES ASSUME SkillInv, Next, NEW i \in Calls, dispatched'[i] > dispatched[i],
                    NEW j \in Calls \ {i}, SameKey(i, j)
             PROVE  row[j] = "absent"
  OBVIOUS
<1>1. dispatched[i] \in Nat
  BY DEF SkillInv, TypeOK
<1>2. Step(i)
  <2>1. ~Tick /\ ~\E w \in Workers : Crash(w)
    BY <1>1 DEF Tick, Crash, Forget, loop
  <2>2. \A a \in Calls : Step(a) => a = i
    BY <1>1, OthersStill DEF SkillInv, Still
  <2>3. QED
    BY <2>1, <2>2 DEF Next
<1>3. pc[i] \in {"dispatch", "fallback"}
  <2>1. dispatched' # dispatched
    BY <1>1
  <2>2. CASE BuildPolicy(i) \/ Deduplicate(i) \/ Start(i) \/ Acquire(i) \/ Blocked(i) \/ AcquireFails(i)
             \/ Release(i) \/ ReleaseFails(i) \/ Accept(i)
    BY <2>1, <2>2 DEF BuildPolicy, Deduplicate, Start, Acquire, Blocked, AcquireFails, Release, ReleaseFails,
                      Accept, loop
  <2>3. CASE Return(i, "running", "settle") \/ Return(i, "fallback_running", "fallback_settle") \/ Resume(i)
             \/ SettleReturned(i) \/ SettleRetry(i) \/ SettleFailure(i) \/ SettleFallback(i)
    BY <2>1, <2>3 DEF Return, Resume, SettleReturned, SettleRetry, SettleFailure, SettleFallback
  <2>4. CASE Commit(i) \/ Rollback(i)
    BY <2>1, <2>4 DEF Commit, Rollback, Forget
  <2>5. CASE Dispatch(i) \/ DispatchFallback(i)
    BY <2>5 DEF Dispatch, DispatchFallback
  <2>6. QED
    BY <1>2, <2>2, <2>3, <2>4, <2>5 DEF Step
<1>4. row[i] = "absent" /\ Handling(i)
  BY <1>3 DEF SkillInv, Local, Recorded, Handling, Inside
<1>5. QED
  BY <1>4 DEF SkillInv, Keyed, SameKey

\* No adapter is called for a key under which another invocation is committed.
THEOREM KeysRunOnce == Spec => KeyedOnce
<1>1. Spec => []SkillInv /\ [][Next]_vars
  BY SkillInvariant, PTL DEF Spec
<1>2. QED
  BY <1>1, OnceFollows, PTL DEF KeyedOnce

LEMMA ReconciledFollows == SkillInv => ReconciledRow
  BY DEF SkillInv, Local, Recorded, ReconciledRow

\* A caller that reconciles never leaves a committed invocation running behind it.
THEOREM RowsAreReconciled == Spec => []ReconciledRow
  BY ReconciledFollows, SkillInvariant, PTL

-----------------------------------------------------------------------------
(* What calls wait for. *)

\* A lock is held by a call of its key that is under way without a row.
LocksHeld ==
  \A k \in IdemKeys : holder[k] # None =>
    Idem[holder[k]] = k /\ Handling(holder[k]) /\ row[holder[k]] = "absent"

Sleeps(i) == pc[i] = "backoff" => wake[i] < deadline[i] /\ wake[i] <= now + 1

Leased(i) ==
  /\ pc[i] = "idle" => expiry[i] = 0
  /\ expiry[i] <= deadline[i] + Grace \/ expiry[i] <= now + 1

WaitsInv == LocksHeld /\ \A i \in Calls : Sleeps(i) /\ Leased(i)

\* A call takes a lock when it is going to handle its key, and lets go of it
\* whenever its row comes out or it leaves.
LEMMA LockMoves ==
  ASSUME SkillInv, NEW i \in Calls, Step(i)
  PROVE  \/ TakeLock(i) /\ Handling(i)' /\ row[i] = "absent" /\ row' = row
         \/ holder' = holder /\ row' = row /\ (Handling(i) => Handling(i)')
         \/ ReleaseLock(i) /\ \A j \in Calls \ {i} : row'[j] = row[j]
<1>1. pc \in [Calls -> Points] /\ row \in [Calls -> Statuses \cup {"absent"}]
      /\ (pc[i] = "start" => row[i] = "absent")
  BY DEF SkillInv, TypeOK, Local, Recorded
<1> USE <1>1 DEF Goto, Handling, Inside, session, quota, loop, env
<1>2. CASE BuildPolicy(i) \/ Deduplicate(i) \/ Start(i)
  BY <1>2 DEF BuildPolicy, Deduplicate, Start
<1>3. CASE Acquire(i) \/ Blocked(i) \/ AcquireFails(i)
  BY <1>3 DEF Acquire, Blocked, AcquireFails
<1>4. CASE Release(i) \/ ReleaseFails(i)
  BY <1>4 DEF Release, ReleaseFails, AfterRelease
<1>5. CASE Dispatch(i) \/ DispatchFallback(i)
  BY <1>5 DEF Dispatch, DispatchFallback, Ask
<1>6. CASE Return(i, "running", "settle") \/ Return(i, "fallback_running", "fallback_settle")
  <2>1. PICK o \in Outcomes : Persist(i, o)
    BY <1>6 DEF Return
  <2>2. Handling(i)'
    BY <1>6 DEF Return
  <2>3. QED
    BY <2>1, <2>2 DEF Persist
<1>7. CASE SettleReturned(i) \/ SettleRetry(i) \/ SettleFailure(i)
  BY <1>7 DEF SettleReturned, SettleRetry, SettleFailure
<1>8. CASE Resume(i) \/ SettleFallback(i)
  BY <1>8 DEF Resume, SettleFallback
<1>9. CASE Commit(i) \/ Rollback(i)
  BY <1>9 DEF Commit, Rollback
<1>10. CASE Accept(i)
  <2>1. Handling(i)' /\ TypeOK
    BY <1>10 DEF Accept, SkillInv
  <2>2. QED
    BY <1>10, <2>1, AcceptChecks, PersistMoves
<1>11. QED
  BY <1>2, <1>3, <1>4, <1>5, <1>6, <1>7, <1>8, <1>9, <1>10 DEF Step

LEMMA LocksStep ==
  ASSUME SkillInv, LocksHeld, NEW a \in Calls, Step(a)
  PROVE  LocksHeld'
<1> SUFFICES ASSUME NEW k \in IdemKeys, NEW j, j = holder'[k], j # None
             PROVE  Idem[j] = k /\ Handling(j)' /\ row'[j] = "absent"
  BY DEF LocksHeld, Handling, Inside
<1>1. holder \in [IdemKeys -> Calls \cup {None}] /\ TypeOK
  BY DEF SkillInv, TypeOK
<1>2. ASSUME NEW c \in Calls, c # a
      PROVE  (Handling(c)' <=> Handling(c)) /\ row'[c] = row[c]
  BY <1>1, <1>2, OthersStill DEF Still, Handling, Inside
<1>3. CASE TakeLock(a) /\ Handling(a)' /\ row[a] = "absent" /\ row' = row
  <2>1. CASE k = Idem[a]
    BY <1>3, <2>1 DEF TakeLock
  <2>2. CASE k # Idem[a]
    BY <1>1, <1>2, <1>3, <2>2 DEF TakeLock, LocksHeld
  <2>3. QED
    BY <2>1, <2>2
<1>4. CASE holder' = holder /\ row' = row /\ (Handling(a) => Handling(a)')
  BY <1>1, <1>2, <1>4 DEF LocksHeld
<1>5. CASE ReleaseLock(a) /\ \A c \in Calls \ {a} : row'[c] = row[c]
  <2>1. j = holder[k] /\ holder[k] # a
    BY <1>5 DEF ReleaseLock
  <2>2. QED
    BY <1>1, <1>2, <2>1 DEF LocksHeld
<1>6. QED
  BY <1>3, <1>4, <1>5, LockMoves

LEMMA LocksCrash ==
  ASSUME SkillInv, LocksHeld, NEW w \in Workers, Crash(w)
  PROVE  LocksHeld'
<1> SUFFICES ASSUME NEW k \in IdemKeys, NEW j, j = holder'[k], j # None
             PROVE  Idem[j] = k /\ Handling(j)' /\ row'[j] = "absent"
  BY DEF LocksHeld, Handling, Inside
<1>1. holder \in [IdemKeys -> Calls \cup {None}]
  BY DEF SkillInv, TypeOK
<1>2. j = holder[k] /\ Worker[j] # w /\ row' = row
  BY DEF Crash
<1>3. j \in Calls /\ Idem[j] = k /\ Handling(j) /\ row[j] = "absent"
  BY <1>1, <1>2 DEF LocksHeld
<1>4. pc'[j] = pc[j]
  BY <1>2, <1>3 DEF Crash
<1>5. QED
  BY <1>2, <1>3, <1>4 DEF Handling, Inside

\* The backoff and the lease of the call that takes the step.
LEMMA OwnWaits ==
  ASSUME SkillInv, NEW i \in Calls, Sleeps(i), Leased(i), Step(i)
  PROVE  Sleeps(i)' /\ Leased(i)'
<1>1. /\ pc \in [Calls -> Points] /\ expiry \in [Calls -> Nat] /\ deadline \in [Calls -> Nat]
      /\ wake \in [Calls -> Nat] /\ now \in Nat /\ Timeout \in Nat /\ Grace \in Nat
  BY ReliabilityAssumption DEF SkillInv, TypeOK
<1>2. now' = now /\ pc'[i] # "idle"
  <2>1. now' = now
    BY QuotaMoves DEF SkillInv
  <2>2. CASE BuildPolicy(i) \/ Deduplicate(i) \/ Start(i)
    BY <1>1, <2>1, <2>2 DEF BuildPolicy, Deduplicate, Start, Goto
  <2>3. CASE Acquire(i) \/ Blocked(i) \/ AcquireFails(i) \/ Release(i) \/ ReleaseFails(i)
    BY <1>1, <2>1, <2>3 DEF Acquire, Blocked, AcquireFails, Release, ReleaseFails, AfterRelease, Goto
  <2>4. CASE Dispatch(i) \/ DispatchFallback(i) \/ Resume(i)
    BY <1>1, <2>1, <2>4 DEF Dispatch, DispatchFallback, Ask, Resume, Goto
  <2>5. CASE Return(i, "running", "settle") \/ Return(i, "fallback_running", "fallback_settle")
    BY <1>1, <2>1, <2>5 DEF Return, Goto
  <2>6. CASE SettleReturned(i) \/ SettleRetry(i) \/ SettleFailure(i) \/ SettleFallback(i) \/ Accept(i)
    BY <1>1, <2>1, <2>6 DEF SettleReturned, SettleRetry, SettleFailure, SettleFallback, Accept, Goto
  <2>7. CASE Commit(i) \/ Rollback(i)
    BY <1>1, <2>1, <2>7 DEF Commit, Rollback, Goto
  <2>8. QED
    BY <2>1, <2>2, <2>3, <2>4, <2>5, <2>6, <2>7 DEF Step
<1>3. CASE BuildPolicy(i)
  <2>1. pc'[i] = "start" /\ expiry'[i] = 0 /\ deadline'[i] = now + Timeout
    BY <1>1, <1>3 DEF BuildPolicy, Goto, quota, Leased
  <2>2. QED
    BY <1>1, <2>1 DEF Sleeps, Leased
<1>4. CASE Acquire(i) \/ AcquireFails(i)
  <2>1. pc'[i] \in {"dispatch", "ended"} /\ deadline' = deadline /\ expiry'[i] \in {expiry[i], 0, LeaseEnd(i)}
    BY <1>1, <1>4 DEF Acquire, AcquireFails, Hold, Goto, quota
  <2>2. QED
    BY <1>1, <1>2, <2>1 DEF Sleeps, Leased, LeaseEnd
<1>5. CASE SettleRetry(i)
  <2>1. deadline' = deadline /\ expiry' = expiry
    BY <1>5 DEF SettleRetry, quota
  <2>2. pc'[i] = "backoff" => wake'[i] = now + 1 /\ now + 1 < deadline[i]
    BY <1>1, <1>5 DEF SettleRetry, Goto
  <2>3. QED
    BY <1>1, <1>2, <2>1, <2>2 DEF Sleeps, Leased
<1>6. ASSUME Step(i), ~BuildPolicy(i), ~Acquire(i), ~AcquireFails(i), ~SettleRetry(i)
      PROVE  pc'[i] # "backoff" /\ deadline' = deadline /\ expiry'[i] \in {expiry[i], 0}
  <2>1. CASE Deduplicate(i) \/ Start(i) \/ Blocked(i) \/ Accept(i)
    BY <1>1, <2>1 DEF Deduplicate, Start, Blocked, Accept, Goto, quota
  <2>2. CASE Release(i) \/ ReleaseFails(i)
    BY <1>1, <2>2 DEF Release, ReleaseFails, AfterRelease, Drop, Goto, quota
  <2>3. CASE Dispatch(i) \/ DispatchFallback(i) \/ Resume(i)
    BY <1>1, <2>3 DEF Dispatch, DispatchFallback, Ask, Resume, Goto, quota
  <2>4. CASE Return(i, "running", "settle") \/ Return(i, "fallback_running", "fallback_settle")
    BY <1>1, <2>4 DEF Return, Goto, quota
  <2>5. CASE SettleReturned(i) \/ SettleFailure(i) \/ SettleFallback(i)
    BY <1>1, <2>5 DEF SettleReturned, SettleFailure, SettleFallback, Goto, quota
  <2>6. CASE Commit(i) \/ Rollback(i)
    BY <1>1, <2>6 DEF Commit, Rollback, Goto, quota
  <2>7. QED
    BY <1>6, <2>1, <2>2, <2>3, <2>4, <2>5, <2>6 DEF Step
<1>7. CASE ~BuildPolicy(i) /\ ~Acquire(i) /\ ~AcquireFails(i) /\ ~SettleRetry(i)
  <2>1. pc'[i] # "backoff" /\ deadline' = deadline /\ expiry'[i] \in {expiry[i], 0}
    BY <1>6, <1>7
  <2>2. QED
    BY <1>1, <1>2, <2>1 DEF Sleeps, Leased
<1>8. QED
  BY <1>3, <1>4, <1>5, <1>7

\* A step of one call leaves the backoff of the others alone.
LEMMA OthersSleep ==
  ASSUME SkillInv, NEW i \in Calls, Step(i), NEW j \in Calls, j # i
  PROVE  wake'[j] = wake[j]
<1> USE DEF SkillInv, TypeOK, loop
<1>1. CASE BuildPolicy(i) \/ Deduplicate(i) \/ Start(i) \/ Acquire(i) \/ Blocked(i) \/ AcquireFails(i)
  BY <1>1 DEF BuildPolicy, Deduplicate, Start, Acquire, Blocked, AcquireFails
<1>2. CASE Release(i) \/ ReleaseFails(i) \/ Dispatch(i) \/ DispatchFallback(i) \/ Resume(i) \/ Accept(i)
  BY <1>2 DEF Release, ReleaseFails, Dispatch, DispatchFallback, Resume, Accept
<1>3. CASE Return(i, "running", "settle") \/ Return(i, "fallback_running", "fallback_settle")
  BY <1>3 DEF Return
<1>4. CASE SettleReturned(i) \/ SettleRetry(i) \/ SettleFailure(i) \/ SettleFallback(i)
  BY <1>4 DEF SettleReturned, SettleRetry, SettleFailure, SettleFallback
<1>5. CASE Commit(i) \/ Rollback(i)
  BY <1>5 DEF Commit, Rollback, Forget
<1>6. QED
  BY <1>1, <1>2, <1>3, <1>4, <1>5 DEF Step

LEMMA WaitsStep ==
  ASSUME SkillInv, WaitsInv, [Next]_vars
  PROVE  WaitsInv'
<1>1. now \in Nat /\ Grace \in Nat /\ expiry \in [Calls -> Nat] /\ deadline \in [Calls -> Nat] /\ wake \in [Calls -> Nat]
  BY ReliabilityAssumption DEF SkillInv, TypeOK
<1>2. CASE UNCHANGED vars
  BY <1>2 DEF vars, session, quota, loop, env, WaitsInv, LocksHeld, Sleeps, Leased, Handling, Inside
<1>3. CASE Tick
  <2>1. /\ now' = now + 1
        /\ UNCHANGED <<pc, row, holder, wake, deadline, expiry>>
    BY <1>3 DEF Tick, session, quota, loop
  <2>2. \A i \in Calls : Sleeps(i)' /\ Leased(i)'
    BY <1>1, <2>1 DEF WaitsInv, Sleeps, Leased
  <2>3. QED
    BY <2>1, <2>2 DEF WaitsInv, LocksHeld, Handling, Inside
<1>4. ASSUME NEW w \in Workers, Crash(w)
      PROVE  WaitsInv'
  <2>1. /\ UNCHANGED <<now, deadline, expiry>>
        /\ \A i \in Calls : \/ pc'[i] = "crashed"
                             \/ (pc'[i] = pc[i] /\ (pc[i] = "backoff" => wake'[i] = wake[i]))
    <3>1. ASSUME NEW i \in Calls, pc'[i] # "crashed"
          PROVE  wake'[i] = wake[i] /\ pc'[i] = pc[i]
      BY <1>4, <3>1 DEF Crash, Forget
    <3>2. QED
      BY <1>4, <3>1 DEF Crash
  <2>2. \A i \in Calls : Sleeps(i)' /\ Leased(i)'
    BY <2>1 DEF WaitsInv, Sleeps, Leased
  <2>3. QED
    BY <1>4, <2>2, LocksCrash DEF WaitsInv
<1>5. ASSUME NEW a \in Calls, Step(a)
      PROVE  WaitsInv'
  <2>1. now' = now
    BY <1>5, QuotaMoves DEF SkillInv
  <2>2. ASSUME NEW j \in Calls, j # a
        PROVE  Sleeps(j)' /\ Leased(j)'
    BY <1>5, <2>1, <2>2, OthersStill, OthersSleep DEF Still, SkillInv, WaitsInv, Sleeps, Leased
  <2>3. Sleeps(a)' /\ Leased(a)'
    BY <1>5, OwnWaits DEF WaitsInv
  <2>4. QED
    BY <1>5, <2>2, <2>3, LocksStep DEF WaitsInv
<1>6. QED
  BY <1>2, <1>3, <1>4, <1>5 DEF Next

LEMMA WaitsFollow == SkillInv /\ WaitsInv => WaitsAreBounded
<1> SUFFICES ASSUME SkillInv, WaitsInv, NEW i \in Calls
             PROVE  /\ pc[i] = "start" /\ ~LockFree(i) =>
                         /\ SameKey(i, holder[Idem[i]]) /\ Handling(holder[Idem[i]])
                         /\ row[holder[Idem[i]]] = "absent"
                    /\ Sleeps(i) /\ Leased(i)
  BY DEF WaitsAreBounded, Sleeps, Leased
<1>1. Idem[i] # None => Idem[i] \in IdemKeys
  BY ReliabilityAssumption
<1>2. QED
  BY <1>1 DEF WaitsInv, LocksHeld, LockFree, SameKey

\* What a call waits for comes to an end: the holder of a lock is under way and
\* waits for no lock, backoffs and leases have an end in time.
THEOREM NobodyWaitsInVain == Spec => []WaitsAreBounded
<1>1. Init => WaitsInv
  BY ReliabilityAssumption DEF Init, WaitsInv, LocksHeld, Sleeps, Leased
<1>2. Spec => []WaitsInv
  BY <1>1, WaitsStep, SkillInvariant, PTL DEF Spec
<1>3. QED
  BY <1>2, WaitsFollow, SkillInvariant, PTL
=============================================================================
