--------------------------- MODULE SkillReliability ---------------------------
(***************************************************************************)
(* The managed invocation of a skill: the idempotency row, the execution   *)
(* policy frozen when the call starts, the concurrency lease (in Redis or  *)
(* in the process), the circuit breaker of each adapter in each process,   *)
(* the attempt loop with its backoff, and the governed fallback.           *)
(*                                                                         *)
(* A call is one thread of one worker process.  It runs in its caller's    *)
(* transaction: nothing it writes is visible before the caller commits,    *)
(* except that a blocking guardrail commits on the spot.  The breaker and  *)
(* the local counters are shared by the threads of a process under one     *)
(* lock, which is released between two uses.  Time is a clock of whole     *)
(* ticks, the same for the workers and for Redis.                          *)
(***************************************************************************)
EXTENDS Integers, FiniteSets

CONSTANTS
  Calls,        \* invocations, each a thread of its own
  Workers,      \* worker processes
  Adapters,     \* runtime adapters
  Keys,         \* quota scopes: tenants, projects, bindings
  IdemKeys,     \* idempotency keys
  None,         \* no idempotency key, no fallback, no lock holder
  Worker,       \* the process of each call
  Adapter,      \* the adapter each call resolves to
  Fallback,     \* the governed fallback's adapter, or None
  Scopes,       \* the quota scopes of each call
  Idem,         \* the idempotency key of each call, or None
  Profile,      \* what its policy is built from
  Limit,        \* concurrency limit of each quota scope
  Attempts,     \* platform limit on attempts
  Threshold,    \* counted failures that open a breaker
  Recovery,     \* ticks before an open breaker admits again
  Timeout,      \* ticks a call has
  Grace,        \* ticks a Redis lease outlives the deadline
  Modes,        \* coordination modes considered
  Outcomes,     \* adapter outcomes considered
  LastStart,    \* bound: no call starts later
  Horizon,      \* bound: the clock stops here, after every call and lease has ended
  MaxFaults,    \* bound: replies lost by Redis
  MaxCrashes    \* bound: crashes of worker processes

Slots == Workers \X Keys
Breakers == Workers \X Adapters

\* Returned as a result: ok, soft (unavailable or timed out), failed, cancelled.
\* Raised: transient, broken, refused (not the adapter's fault), guardrail.
AdapterOutcomes ==
  {"ok", "soft", "failed_result", "cancelled_result", "transient", "broken", "refused", "guardrail"}

ASSUME ReliabilityAssumption ==
  /\ IsFiniteSet(Calls) /\ None \notin Calls \cup Adapters \cup IdemKeys
  /\ Worker \in [Calls -> Workers] /\ Adapter \in [Calls -> Adapters]
  /\ Fallback \in [Calls -> Adapters \cup {None}]
  /\ Scopes \in [Calls -> SUBSET Keys] /\ Idem \in [Calls -> IdemKeys \cup {None}]
  /\ Profile \in [Calls -> [mutation : BOOLEAN, externalWrite : BOOLEAN, idempotent : BOOLEAN,
                            lowRisk : BOOLEAN, skillCalls : Nat, modelCalls : Nat,
                            reconciles : BOOLEAN]]
  /\ Limit \in [Keys -> Nat \ {0}]
  /\ Attempts \in Nat \ {0} /\ Threshold \in Nat \ {0}
  /\ Recovery \in Nat /\ Timeout \in Nat \ {0} /\ Grace \in Nat \ {0}
  /\ Modes \subseteq {"local", "redis"} /\ Outcomes \subseteq AdapterOutcomes /\ LastStart \in Nat /\ Horizon \in Nat
  /\ MaxFaults \in Nat /\ MaxCrashes \in Nat

VARIABLES
  now,          \* the clock
  mode,         \* skill_invocation_coordination_mode
  circuit,      \* per process and adapter: _CircuitState
  active,       \* per process and scope: _LocalReliabilityState.active
  expiry,       \* per call: when its Redis lease lapses, 0 without one
  pc,           \* per call: program point
  outcome,      \* per call: what its last dispatch came to
  admitted,     \* per call: circuit_state returned by before_adapter
  attempt,      \* per call: attempts begun
  dispatched,   \* per call: adapter calls physically made, the fallback's included
  deadline,     \* per call: the policy's deadline_at
  wake,         \* per call: end of its backoff
  result,       \* per call: status and reason in its own session
  row,          \* per call: its SkillInvocation row as other sessions see it
  holder,       \* per idempotency key: the transaction that holds its advisory lock
  faults, crashes

session == <<result, row, holder>>
quota   == <<active, expiry>>
loop    == <<outcome, admitted, attempt, dispatched, wake>>
env     == <<now, mode, faults, crashes>>
vars    == <<session, quota, loop, env, circuit, pc, deadline>>

-----------------------------------------------------------------------------
(* The policy frozen at the start of a call. *)

\* A mutation, an external write, a call that is not idempotent or not of low
\* risk gets no second attempt and no fallback.
Replayable(i) ==
  /\ ~Profile[i].mutation /\ ~Profile[i].externalWrite
  /\ Profile[i].idempotent /\ Profile[i].lowRisk

Least(m, n) == IF m < n THEN m ELSE n

\* The least of the platform's limit and the budgets, but one.
AtLeastOnce(n) == IF n < 1 THEN 1 ELSE n

\* mutated: an external write is given the platform's attempts.
MaxAttemptsWrite(i) ==
  LET platform == IF ~Profile[i].mutation /\ Profile[i].idempotent /\ Profile[i].lowRisk THEN Attempts ELSE 1
  IN  AtLeastOnce(Least(Least(platform, Profile[i].modelCalls), Profile[i].skillCalls))

MaxAttempts(i) ==
  LET platform == IF Replayable(i) THEN Attempts ELSE 1
  IN  AtLeastOnce(Least(Least(platform, Profile[i].modelCalls), Profile[i].skillCalls))

\* mutated: the fallback needs no call of the budget.
FallbackUnbudgeted(i) == Fallback[i] # None /\ Replayable(i)

\* mutated: a mutation may fall back.
FallbackForWrites(i) ==
  /\ Fallback[i] # None
  /\ Profile[i].skillCalls > MaxAttempts(i)

FallbackAllowed(i) ==
  /\ Fallback[i] # None
  /\ Profile[i].skillCalls > MaxAttempts(i)
  /\ Replayable(i)

\* What the classifier makes of an outcome.
Retryable(o) == o \in {"transient", "soft"}
Counts(o)    == o \in {"transient", "soft", "broken", "failed_result"}
Returned(o)  == o \in {"ok", "soft", "failed_result", "cancelled_result"}
FallbackReason(o) == o \in {"transient", "soft", "late_result"}

\* checkpoint(): the probe may see a cancellation at any time; the deadline is read off the clock.
Checkpoint(i, phase) ==
  {"cancelled"} \cup
  (IF now < deadline[i] THEN {"pass"} ELSE {IF phase = "result" THEN "late_result" ELSE "late"})

RetryAllowed(i, o) == Retryable(o) /\ attempt[i] < MaxAttempts(i) /\ Replayable(i)

-----------------------------------------------------------------------------
(* Quota. *)

\* Leases that have not lapsed, over all workers.
LiveHolders(k) == {j \in Calls : k \in Scopes[j] /\ expiry[j] > now}

SlotsOf(i) == {Worker[i]} \X Scopes[i]

\* mutated: the lease has no end.
LeaseEndNever(i) == Horizon + 1

LeaseEnd(i) ==
  IF deadline[i] + Grace > now THEN deadline[i] + Grace ELSE now + 1

\* mutated: a scope at its limit admits one more.
RoomOneOver(i) ==
  IF mode = "redis" THEN \A k \in Scopes[i] : Cardinality(LiveHolders(k)) <= Limit[k]
                    ELSE \A k \in Scopes[i] : active[<<Worker[i], k>>] <= Limit[k]

Room(i) ==
  IF mode = "redis" THEN \A k \in Scopes[i] : Cardinality(LiveHolders(k)) < Limit[k]
                    ELSE \A k \in Scopes[i] : active[<<Worker[i], k>>] < Limit[k]

-----------------------------------------------------------------------------
(* The breaker: _CircuitState and the three operations on it. *)

Breaker == [state : {"closed", "open", "half_open"}, failures : Nat, openedAt : Nat, probe : BOOLEAN]

Closed == [state |-> "closed", failures |-> 0, openedAt |-> 0, probe |-> FALSE]

Of(i)         == <<Worker[i], Adapter[i]>>
FallbackOf(i) == <<Worker[i], Fallback[i]>>

Refuses(c) == \/ c.state = "open" /\ (now < c.openedAt + Recovery \/ c.probe)
              \/ c.state = "half_open" /\ c.probe

\* mutated: the state is not left at half_open, so the flag outlives its caller.
AdmitOpen(c) == IF c.state = "open" THEN [c EXCEPT !.probe = TRUE] ELSE c

\* An open breaker past its recovery lets one probe in; a half-open one
\* without a probe lets everybody in.
Admit(c) == IF c.state = "open" THEN [c EXCEPT !.state = "half_open", !.probe = TRUE] ELSE c

\* mutated: only counted failures end a probe.
FailedKeepsProbe(c, counts) ==
  IF ~counts THEN c
  ELSE IF c.state = "half_open" \/ c.failures + 1 >= Threshold
       THEN [state |-> "open", failures |-> c.failures + 1, openedAt |-> now, probe |-> FALSE]
       ELSE [c EXCEPT !.failures = @ + 1]

Failed(c, counts) ==
  IF ~counts
  THEN IF c.state = "half_open" THEN [c EXCEPT !.probe = FALSE] ELSE c
  ELSE IF c.state = "half_open" \/ c.failures + 1 >= Threshold
       THEN [state |-> "open", failures |-> c.failures + 1, openedAt |-> now, probe |-> FALSE]
       ELSE [c EXCEPT !.failures = @ + 1]

-----------------------------------------------------------------------------
Running == [status |-> "running", reason |-> "none"]

StatusOf(o) ==
  CASE o = "cancelled" -> "cancelled"
    [] o \in {"late", "late_result"} -> "timed_out"
    [] o \in {"circuit_open", "transient"} -> "unavailable"
    [] o \in {"refused", "guardrail"} -> "blocked"
    [] OTHER -> "failed"

\* How the loop reports the failure it gives up on.
GivesUp(i, o) ==
  IF Retryable(o) /\ attempt[i] >= MaxAttempts(i)
  THEN IF Profile[i].externalWrite THEN [status |-> "unavailable", reason |-> "unknown_write"]
       ELSE IF Profile[i].mutation \/ ~Profile[i].idempotent
            THEN [status |-> "failed", reason |-> "non_idempotent"]
            ELSE [status |-> "unavailable", reason |-> "exhausted"]
  ELSE [status |-> StatusOf(o), reason |-> o]

\* The reason kept with a result that is returned in spite of its classification.
ReturnReason(i, o) ==
  IF o = "soft" /\ Profile[i].externalWrite THEN "unknown_write"
  ELSE IF o = "soft" /\ (Profile[i].mutation \/ ~Profile[i].idempotent) THEN "non_idempotent"
  ELSE o

Init ==
  /\ now = 0 /\ mode \in Modes
  /\ circuit = [b \in Breakers |-> Closed]
  /\ active = [s \in Slots |-> 0]
  /\ expiry = [i \in Calls |-> 0]
  /\ pc = [i \in Calls |-> "idle"]
  /\ outcome = [i \in Calls |-> "none"]
  /\ admitted = [i \in Calls |-> "none"]
  /\ attempt = [i \in Calls |-> 0]
  /\ dispatched = [i \in Calls |-> 0]
  /\ deadline = [i \in Calls |-> 0]
  /\ wake = [i \in Calls |-> 0]
  /\ result = [i \in Calls |-> Running]
  /\ row = [i \in Calls |-> "absent"]
  /\ holder = [k \in IdemKeys |-> None]
  /\ faults = 0 /\ crashes = 0

Goto(i, point) == pc' = [pc EXCEPT ![i] = point]

\* The thread is gone, with its locals; what it dispatched is kept for the properties.
Forget(S) ==
  /\ outcome' = [i \in Calls |-> IF i \in S THEN "none" ELSE outcome[i]]
  /\ admitted' = [i \in Calls |-> IF i \in S THEN "none" ELSE admitted[i]]
  /\ attempt' = [i \in Calls |-> IF i \in S THEN 0 ELSE attempt[i]]
  /\ wake' = [i \in Calls |-> IF i \in S THEN 0 ELSE wake[i]]
  /\ UNCHANGED dispatched

-----------------------------------------------------------------------------
(* The start of a call. *)

\* build_policy: the deadline is fixed before the advisory lock is waited for.
BuildPolicy(i) ==
  /\ pc[i] = "idle" /\ now <= LastStart
  /\ deadline' = [deadline EXCEPT ![i] = now + Timeout]
  /\ Goto(i, "start")
  /\ UNCHANGED <<session, quota, loop, env, circuit>>

SameKey(i, j) == Idem[i] # None /\ Idem[j] = Idem[i]

Existing(i) == \E j \in Calls : SameKey(i, j) /\ row[j] # "absent"

\* mutated: the key is looked up without its lock.
LockNotAwaited(i) == TRUE

LockFree(i) == Idem[i] # None => holder[Idem[i]] = None

TakeLock(i) ==
  holder' = [k \in IdemKeys |-> IF k = Idem[i] THEN i ELSE holder[k]]

\* mutated: the lock is given back on success only.
ReleaseLockOnSuccess(i) ==
  holder' = [k \in IdemKeys |-> IF holder[k] = i /\ result[i].status = "completed" THEN None ELSE holder[k]]

ReleaseLock(i) ==
  holder' = [k \in IdemKeys |-> IF holder[k] = i THEN None ELSE holder[k]]

\* The key is known: the call answers with the existing invocation, whatever its status.
Deduplicate(i) ==
  /\ pc[i] = "start" /\ LockFree(i) /\ Existing(i)
  /\ Goto(i, "deduplicated")
  /\ UNCHANGED <<session, quota, loop, env, circuit, deadline>>

\* preflight() finds the budgets sufficient.
Preflight(i) == Profile[i].skillCalls > 0 /\ Profile[i].modelCalls > 0

\* The row is inserted and the preflight passes or refuses.
Start(i) ==
  /\ pc[i] = "start" /\ LockFree(i) /\ ~Existing(i)
  /\ TakeLock(i)
  /\ \E check \in Checkpoint(i, "preflight") \cup {"refused"} :
       IF check = "pass" /\ Preflight(i)
       THEN Goto(i, "lease") /\ UNCHANGED result
       ELSE /\ Goto(i, "ended")
            /\ result' = [result EXCEPT ![i] =
                 IF check = "pass" THEN [status |-> "blocked", reason |-> "budget"]
                                   ELSE [status |-> StatusOf(check), reason |-> check]]
  /\ UNCHANGED <<row, quota, loop, env, circuit, deadline>>

-----------------------------------------------------------------------------
(* The lease. *)

Hold(i) ==
  IF mode = "redis"
  THEN expiry' = [expiry EXCEPT ![i] = IF Scopes[i] = {} THEN 0 ELSE LeaseEnd(i)] /\ UNCHANGED active
  ELSE /\ active' = [s \in Slots |-> IF s \in SlotsOf(i) THEN active[s] + 1 ELSE active[s]]
       /\ UNCHANGED expiry

Acquire(i) ==
  /\ pc[i] = "lease" /\ Room(i)
  /\ Hold(i)
  /\ Goto(i, "dispatch")
  /\ UNCHANGED <<session, loop, env, circuit, deadline>>

Blocked(i) ==
  /\ pc[i] = "lease" /\ ~Room(i)
  /\ result' = [result EXCEPT ![i] = [status |-> "blocked", reason |-> "quota"]]
  /\ Goto(i, "ended")
  /\ UNCHANGED <<row, holder, quota, loop, env, circuit, deadline>>

\* Redis does not answer; the script has run or it has not.
AcquireFails(i) ==
  /\ pc[i] = "lease" /\ mode = "redis" /\ Scopes[i] # {} /\ faults < MaxFaults
  /\ faults' = faults + 1
  /\ \/ Room(i) /\ Hold(i)
     \/ UNCHANGED quota
  /\ result' = [result EXCEPT ![i] = [status |-> "unavailable", reason |-> "coordination"]]
  /\ Goto(i, "ended")
  /\ UNCHANGED <<row, holder, loop, now, mode, crashes, circuit, deadline>>

\* mutated: a call that failed keeps its local slots.
DropOnSuccess(i) ==
  IF mode = "redis"
  THEN expiry' = [expiry EXCEPT ![i] = 0] /\ UNCHANGED active
  ELSE /\ active' = [s \in Slots |-> IF s \in SlotsOf(i) /\ result[i].status = "running"
                                     THEN active[s] - 1 ELSE active[s]]
       /\ UNCHANGED expiry

Drop(i) ==
  IF mode = "redis"
  THEN expiry' = [expiry EXCEPT ![i] = 0] /\ UNCHANGED active
  ELSE /\ active' = [s \in Slots |-> IF s \in SlotsOf(i) THEN active[s] - 1 ELSE active[s]]
       /\ UNCHANGED expiry

AfterRelease(i) == IF result[i].status = "running" THEN "accept" ELSE "ended"

Release(i) ==
  /\ pc[i] = "release"
  /\ Drop(i)
  /\ Goto(i, AfterRelease(i))
  /\ UNCHANGED <<session, loop, env, circuit, deadline>>

\* The release is lost; the lease stays until it lapses.
ReleaseFails(i) ==
  /\ pc[i] = "release" /\ mode = "redis" /\ Scopes[i] # {} /\ faults < MaxFaults
  /\ faults' = faults + 1
  /\ Goto(i, AfterRelease(i))
  /\ UNCHANGED <<session, quota, loop, now, mode, crashes, circuit, deadline>>

-----------------------------------------------------------------------------
(* The attempt loop. *)

\* An adapter is asked for: the checkpoint first, then the breaker under its lock.
Ask(i, b, point, settle) ==
  \E check \in Checkpoint(i, "dispatch") :
    IF check # "pass"
    THEN outcome' = [outcome EXCEPT ![i] = check] /\ Goto(i, settle)
         /\ UNCHANGED <<circuit, admitted, dispatched>>
    ELSE IF Refuses(circuit[b])
    THEN outcome' = [outcome EXCEPT ![i] = "circuit_open"] /\ Goto(i, settle)
         /\ UNCHANGED <<circuit, admitted, dispatched>>
    ELSE /\ circuit' = [circuit EXCEPT ![b] = Admit(@)]
         /\ admitted' = [admitted EXCEPT ![i] = Admit(circuit[b]).state]
         /\ dispatched' = [dispatched EXCEPT ![i] = @ + 1]
         /\ Goto(i, point) /\ UNCHANGED outcome

Dispatch(i) ==
  /\ pc[i] = "dispatch"
  /\ attempt' = [attempt EXCEPT ![i] = @ + 1]
  /\ Ask(i, Of(i), "running", "settle")
  /\ UNCHANGED <<session, quota, env, wake, deadline>>

\* A blocking guardrail commits the session before it raises: the row becomes
\* visible as running and the advisory lock is gone.
Persist(i, o) ==
  IF o = "guardrail"
  THEN row' = [row EXCEPT ![i] = "running"] /\ ReleaseLock(i)
  ELSE UNCHANGED <<row, holder>>

\* The adapter returns or raises; what it returned meets the result checkpoint.
Return(i, point, settle) ==
  /\ pc[i] = point
  /\ \E o \in Outcomes :
       /\ Persist(i, o)
       /\ \E check \in IF Returned(o) THEN Checkpoint(i, "result") ELSE {"pass"} :
            outcome' = [outcome EXCEPT ![i] = IF check = "pass" THEN o ELSE check]
  /\ Goto(i, settle)
  /\ UNCHANGED <<result, quota, env, circuit, admitted, attempt, dispatched, wake, deadline>>

Settles(i, b, c) ==
  /\ circuit' = [circuit EXCEPT ![b] = c]
  /\ admitted' = [admitted EXCEPT ![i] = "none"]

\* mutated: a success leaves the failures counted so far.
SucceededKeepsCount(c) == [c EXCEPT !.state = "closed", !.probe = FALSE]

Succeeded(c) == Closed

\* The result is kept: a success closes the breaker, a result the classifier
\* finds fault with but that may not be retried is a failure of the adapter.
SettleReturned(i) ==
  /\ pc[i] = "settle" /\ Returned(outcome[i]) /\ ~RetryAllowed(i, outcome[i])
  /\ Settles(i, Of(i), IF outcome[i] = "ok" THEN Succeeded(circuit[Of(i)])
                       ELSE Failed(circuit[Of(i)], Counts(outcome[i])))
  /\ result' = [result EXCEPT ![i].reason = ReturnReason(i, outcome[i])]
  /\ Goto(i, "release")
  /\ UNCHANGED <<row, holder, quota, env, outcome, attempt, dispatched, wake, deadline>>

\* A retry: wait_for_retry looks at the deadline and the probe before it sleeps,
\* at most one tick.
SettleRetry(i) ==
  /\ pc[i] = "settle" /\ RetryAllowed(i, outcome[i])
  /\ Settles(i, Of(i), Failed(circuit[Of(i)], TRUE))
  /\ IF now + 1 >= deadline[i]
     THEN /\ result' = [result EXCEPT ![i] = [status |-> "timed_out", reason |-> "late"]]
          /\ Goto(i, "release") /\ UNCHANGED wake
     ELSE \/ /\ wake' = [wake EXCEPT ![i] = now + 1]
             /\ Goto(i, "backoff") /\ UNCHANGED result
          \/ /\ result' = [result EXCEPT ![i] = [status |-> "cancelled", reason |-> "cancelled"]]
             /\ Goto(i, "release") /\ UNCHANGED wake
  /\ outcome' = [outcome EXCEPT ![i] = "none"]
  /\ UNCHANGED <<row, holder, quota, env, attempt, dispatched, deadline>>

\* The last failure: the fallback where the policy allows one for this reason.
SettleFailure(i) ==
  /\ pc[i] = "settle" /\ ~Returned(outcome[i]) /\ ~RetryAllowed(i, outcome[i])
  /\ Settles(i, Of(i), Failed(circuit[Of(i)], Counts(outcome[i])))
  /\ IF FallbackAllowed(i) /\ FallbackReason(outcome[i])
     THEN Goto(i, "fallback") /\ UNCHANGED result
     ELSE Goto(i, "release") /\ result' = [result EXCEPT ![i] = GivesUp(i, outcome[i])]
  /\ UNCHANGED <<row, holder, quota, env, outcome, attempt, dispatched, wake, deadline>>

Resume(i) ==
  /\ pc[i] = "backoff" /\ now >= wake[i]
  /\ \E check \in Checkpoint(i, "backoff") :
       IF check = "pass" THEN Goto(i, "dispatch") /\ UNCHANGED result
       ELSE /\ result' = [result EXCEPT ![i] = [status |-> StatusOf(check), reason |-> check]]
            /\ Goto(i, "release")
  /\ wake' = [wake EXCEPT ![i] = 0]
  /\ UNCHANGED <<row, holder, quota, outcome, admitted, attempt, dispatched, env, circuit, deadline>>

DispatchFallback(i) ==
  /\ pc[i] = "fallback"
  /\ Ask(i, FallbackOf(i), "fallback_running", "fallback_settle")
  /\ UNCHANGED <<session, quota, env, attempt, wake, deadline>>

\* The fallback's result is not classified: whatever it returned is its success.
SettleFallback(i) ==
  /\ pc[i] = "fallback_settle"
  /\ LET b == FallbackOf(i) IN
       IF Returned(outcome[i])
       THEN /\ Settles(i, b, Succeeded(circuit[b]))
            /\ result' = [result EXCEPT ![i].reason = "fallback_used"]
       ELSE /\ Settles(i, b, Failed(circuit[b], Counts(outcome[i])))
            /\ result' = [result EXCEPT ![i] = [status |-> "unavailable", reason |-> "fallback_failed"]]
  /\ Goto(i, "release")
  /\ UNCHANGED <<row, holder, quota, env, outcome, attempt, dispatched, wake, deadline>>

-----------------------------------------------------------------------------
(* The end of a call. *)

\* The result is validated, accepted by the domain service, measured, and
\* meets the last checkpoint; then the invocation is completed.  The domain
\* service may consult an agent that a guardrail blocks.
Accept(i) ==
  /\ pc[i] = "accept"
  /\ \E check \in Checkpoint(i, "result") \cup {"invalid_output"} \cup (Outcomes \cap {"guardrail"}) :
       /\ Persist(i, check)
       /\ result' = [result EXCEPT ![i] =
            IF check = "invalid_output" THEN [status |-> "invalid_output", reason |-> check]
            ELSE IF check # "pass" THEN [status |-> StatusOf(check), reason |-> check]
            ELSE IF @.reason = "fallback_used" THEN [@ EXCEPT !.status = "degraded"]
            ELSE [@ EXCEPT !.status = "completed"]]
  /\ Goto(i, "ended")
  /\ UNCHANGED <<quota, loop, env, circuit, deadline>>

\* The status a row can keep of one.
Stored(status) ==
  CASE status = "degraded" -> "completed"
    [] status \in {"unavailable", "timed_out"} -> "failed"
    [] OTHER -> status

Succeeds(i) == result[i].status \in {"completed", "degraded"}

\* The caller's transaction commits, a failed invocation with it or not.
Commit(i) ==
  /\ pc[i] = "ended"
  /\ row' = [row EXCEPT ![i] = Stored(result[i].status)] /\ ReleaseLock(i)
  /\ Goto(i, "done") /\ Forget({i})
  /\ UNCHANGED <<result, quota, env, circuit, deadline>>

\* mutated: nothing is reconciled after the rollback.
RollbackOnly(i) ==
  /\ pc[i] = "ended"
  /\ ReleaseLock(i)
  /\ Goto(i, "done") /\ Forget({i})
  /\ UNCHANGED <<row, result, quota, env, circuit, deadline>>

\* The caller rolls back.  What a guardrail had committed stays; a caller that
\* reconciles writes the failure to it and commits that.
Rollback(i) ==
  /\ pc[i] = "ended"
  /\ row' = [row EXCEPT ![i] = IF @ = "running" /\ Profile[i].reconciles /\ ~Succeeds(i)
                               THEN Stored(result[i].status) ELSE @]
  /\ ReleaseLock(i)
  /\ Goto(i, "done") /\ Forget({i})
  /\ UNCHANGED <<result, quota, env, circuit, deadline>>

-----------------------------------------------------------------------------
(* The environment. *)

Over == {"done", "deduplicated", "crashed"}

\* A worker process dies with its threads: breakers and counters are gone, the
\* database ends the transactions, a Redis lease stays until it lapses.
Crash(w) ==
  /\ crashes < MaxCrashes
  /\ \E i \in Calls : Worker[i] = w /\ pc[i] \notin Over \cup {"idle"}
  /\ crashes' = crashes + 1
  /\ pc' = [i \in Calls |-> IF Worker[i] = w /\ pc[i] \notin Over \cup {"idle"} THEN "crashed" ELSE pc[i]]
  /\ holder' = [k \in IdemKeys |-> IF holder[k] # None /\ Worker[holder[k]] = w THEN None ELSE holder[k]]
  /\ circuit' = [b \in Breakers |-> IF b[1] = w THEN Closed ELSE circuit[b]]
  /\ active' = [s \in Slots |-> IF s[1] = w THEN 0 ELSE active[s]]
  /\ Forget({i \in Calls : pc'[i] = "crashed"})
  /\ UNCHANGED <<result, row, expiry, now, mode, faults, deadline>>

\* Time passes while a call can still start or is under way, or a lease is held.
Tick ==
  /\ now < Horizon
  /\ \/ now < LastStart \/ \E i \in Calls : expiry[i] > now
     \/ \E i \in Calls : pc[i] \notin Over \cup {"idle"} /\ now < deadline[i] + 1
  /\ now' = now + 1
  /\ UNCHANGED <<session, quota, loop, mode, faults, crashes, circuit, pc, deadline>>

Step(i) ==
  \/ BuildPolicy(i) \/ Deduplicate(i) \/ Start(i)
  \/ Acquire(i) \/ Blocked(i) \/ AcquireFails(i) \/ Release(i) \/ ReleaseFails(i)
  \/ Dispatch(i) \/ Return(i, "running", "settle")
  \/ SettleReturned(i) \/ SettleRetry(i) \/ SettleFailure(i) \/ Resume(i)
  \/ DispatchFallback(i) \/ Return(i, "fallback_running", "fallback_settle") \/ SettleFallback(i)
  \/ Accept(i) \/ Commit(i) \/ Rollback(i)

Next == Tick \/ (\E w \in Workers : Crash(w)) \/ \E i \in Calls : Step(i)

Spec == Init /\ [][Next]_vars

\* Threads are scheduled, adapters return (the runner and the HTTP client have
\* timeouts of their own), callers end their transactions, and time passes.
FairSpec ==
  /\ Spec /\ WF_vars(Tick)
  /\ \A i \in Calls : WF_vars(pc[i] # "idle" /\ Step(i))

-----------------------------------------------------------------------------
(* Properties. *)

Points == {"idle", "start", "lease", "dispatch", "running", "settle", "backoff", "fallback",
           "fallback_running", "fallback_settle", "release", "accept", "ended"} \cup Over

Statuses == {"running", "completed", "degraded", "unavailable", "cancelled", "timed_out",
             "blocked", "invalid_output", "failed"}

Verdicts == AdapterOutcomes \cup {"none", "cancelled", "late", "late_result", "circuit_open"}

Reasons == {"budget", "quota", "coordination", "unknown_write", "non_idempotent", "exhausted",
            "fallback_used", "fallback_failed", "invalid_output"}

TypeOK ==
  /\ now \in Nat /\ mode \in Modes /\ faults \in Nat /\ crashes \in Nat
  /\ circuit \in [Breakers -> Breaker]
  /\ active \in [Slots -> Nat] /\ expiry \in [Calls -> Nat]
  /\ pc \in [Calls -> Points]
  /\ outcome \in [Calls -> Verdicts]
  /\ admitted \in [Calls -> {"none", "closed", "half_open"}]
  /\ attempt \in [Calls -> Nat] /\ dispatched \in [Calls -> Nat]
  /\ deadline \in [Calls -> Nat] /\ wake \in [Calls -> Nat]
  /\ result \in [Calls -> [status : Statuses, reason : Verdicts \cup Reasons]]
  /\ row \in [Calls -> Statuses \cup {"absent"}]
  /\ holder \in [IdemKeys -> Calls \cup {None}]

\* Between its lease and the release of it.
Inside(i) == pc[i] \in {"dispatch", "running", "settle", "backoff", "fallback",
                        "fallback_running", "fallback_settle", "release"}

\* Between before_adapter and the adapter_succeeded or adapter_failed that answers it.
InAdapter(i) == pc[i] \in {"running", "settle"}
InFallback(i) == pc[i] \in {"fallback_running", "fallback_settle"}

\* The calls of a scope that count against its limit: those of every worker
\* with Redis, until the deadline's grace is over; those of the process without.
Concurrent(k) ==
  {i \in Calls : Inside(i) /\ k \in Scopes[i] /\ now < deadline[i] + Grace}

ConcurrentIn(w, k) ==
  {i \in Calls : Inside(i) /\ k \in Scopes[i] /\ Worker[i] = w}

\* No more calls are under way in a quota scope than its limit allows, whatever
\* was lost or crashed on the way: with Redis over all workers as long as a call
\* is within its deadline and grace, without it in every process.
WithinQuota ==
  \A k \in Keys :
    IF mode = "redis" THEN Cardinality(Concurrent(k)) <= Limit[k]
    ELSE \A w \in Workers : Cardinality(ConcurrentIn(w, k)) <= Limit[k]

\* The process's counter of a scope is the number of its threads that hold the
\* scope: no path out of the lease forgets a decrement or makes two.
LocalCountExact ==
  mode = "local" =>
    \A w \in Workers, k \in Keys : active[<<w, k>>] = Cardinality(ConcurrentIn(w, k))

\* A probe flag has an owner: while it is set, some call let in half-open has
\* still to report success or failure, so the flag cannot shut an adapter off for good.
ProbeOwned ==
  \A b \in Breakers : circuit[b].probe =>
    /\ circuit[b].state = "half_open"
    /\ \E i \in Calls : /\ admitted[i] = "half_open"
                        /\ \/ InAdapter(i) /\ Of(i) = b
                           \/ InFallback(i) /\ FallbackOf(i) = b

\* A breaker is closed exactly while fewer than Threshold counted failures
\* have come since the last success.
CircuitCounts ==
  \A b \in Breakers : (circuit[b].state = "closed") <=> (circuit[b].failures < Threshold)

\* The adapters of a call, its retries and fallback taken together, are called
\* no more often than the skill calls of its budget.
DispatchesInBudget ==
  \A i \in Calls : dispatched[i] <= Profile[i].skillCalls

\* A mutation, an external write, a call that is not idempotent or not of low
\* risk reaches an adapter at most once.
UnsafeOnce ==
  \A i \in Calls : ~Replayable(i) => dispatched[i] <= 1

\* An external write whose adapter failed on the way is reported as of unknown
\* outcome and never as a failure that may be tried again.
UnknownWriteReported ==
  \A i \in Calls :
    /\ Profile[i].externalWrite /\ outcome[i] = "transient"
    /\ pc[i] \in {"release", "ended"}
    => result[i].reason = "unknown_write"

\* Two calls of one idempotency key are never both past the lookup of the key
\* unless the first has a row the second would have found.
KeyExclusive ==
  \A i, j \in Calls :
    i # j /\ SameKey(i, j) /\ Inside(i) /\ Inside(j) =>
      row[i] # "absent" \/ row[j] # "absent"

\* No adapter is called under a key for which an invocation is committed.
KeyedOnce ==
  [][\A i \in Calls : dispatched'[i] > dispatched[i] =>
       \A j \in Calls \ {i} : SameKey(i, j) => row[j] = "absent"]_vars

\* From its lookup of the key to its end: a call under way, as its key sees it.
Handling(i) == pc[i] \in {"lease", "accept", "ended"} \/ Inside(i)

\* How often a call may reach an adapter.
CallBudget(i) == IF Replayable(i) THEN Profile[i].skillCalls ELSE 1

KeyedCalls == {i \in Calls : Idem[i] # None}

\* The calls that own a key: under way or on record.
Owners(k) == {i \in KeyedCalls : Idem[i] = k /\ (Handling(i) \/ row[i] # "absent")}

OnRecord == {i \in KeyedCalls : row[i] # "absent"}

Answered == {i \in KeyedCalls : pc[i] = "deduplicated"}

Invocations == INSTANCE KeyedInvocation WITH
  Calls    <- KeyedCalls,
  Keys     <- IdemKeys,
  KeyOf    <- Idem,
  Budget   <- [i \in KeyedCalls |-> CallBudget(i)],
  owners   <- [k \in IdemKeys |-> Owners(k)],
  recorded <- OnRecord,
  reached  <- [i \in KeyedCalls |-> dispatched[i]],
  answered <- Answered

\* The calls that share a key behave as one invocation: between lock, row, commit,
\* rollback, early commit of a guardrail and crash, a key never has two calls that
\* may reach adapters, none reaches one once it is on record, and a call is
\* answered without an adapter only when another one is on record for good.
ImplementsKeyedInvocation == Invocations!Spec

\* A caller that reconciles leaves no invocation running once it is done.
ReconciledRow ==
  \A i \in Calls : pc[i] = "done" /\ Profile[i].reconciles => row[i] # "running"

\* Nobody waits for what does not come: the lock of a key is held by a call that is
\* under way, has nothing committed and waits for no lock itself; a backoff is over
\* at the next tick and before the deadline; and a lease, released, lost or left
\* by a crash, has the end it was given when it was taken.
WaitsAreBounded ==
  \A i \in Calls :
    /\ pc[i] = "start" /\ ~LockFree(i) =>
         LET j == holder[Idem[i]] IN SameKey(i, j) /\ Handling(j) /\ row[j] = "absent"
    /\ pc[i] = "backoff" => wake[i] < deadline[i] /\ wake[i] <= now + 1
    /\ expiry[i] <= deadline[i] + Grace \/ expiry[i] <= now + 1

\* Every lease ends: a lost release or a crash costs a scope its capacity only
\* until the lease lapses.
LeasesEnd == \A i \in Calls : expiry[i] > now ~> ~(expiry[i] > now)

\* Every call that has begun comes to an end.
CallsEnd == \A i \in Calls : pc[i] # "idle" ~> pc[i] \in Over
=============================================================================
