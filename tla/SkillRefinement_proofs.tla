------------------------ MODULE SkillRefinement_proofs ------------------------
(***************************************************************************)
(* SkillReliability implements KeyedInvocation, for every number of calls, *)
(* keys, workers and adapters.                                             *)
(***************************************************************************)
EXTENDS SkillReliability_proofs

-----------------------------------------------------------------------------
(* What a key sees of a call. *)

Owning(i) == Handling(i) \/ row[i] # "absent"

\* A step of one call is the only thing a key sees move.
LEMMA RestStill ==
  ASSUME TypeOK, NEW a \in Calls, Step(a), NEW i \in Calls, i # a
  PROVE  /\ (Owning(i)' <=> Owning(i)) /\ row'[i] = row[i]
         /\ dispatched'[i] = dispatched[i] /\ pc'[i] = pc[i]
  BY OthersStill DEF Still, Owning, Handling, Inside

\* A call under way whose row is not out is the only owner of its key.
LEMMA SoleOwner ==
  ASSUME SkillInv, NEW a \in KeyedCalls, Handling(a), row[a] = "absent"
  PROVE  Owners(Idem[a]) = {a}
<1>1. a \in Calls /\ Idem[a] # None
  BY DEF KeyedCalls
<1>2. holder[Idem[a]] = a /\ \A j \in Calls \ {a} : Idem[j] = Idem[a] => row[j] = "absent"
  BY <1>1 DEF SkillInv, Keyed
<1>3. ASSUME NEW j \in Owners(Idem[a]), j # a
      PROVE  FALSE
  <2>1. j \in Calls /\ Idem[j] = Idem[a] /\ (Handling(j) \/ row[j] # "absent")
    BY DEF Owners, KeyedCalls
  <2>2. Handling(j) /\ row[j] = "absent"
    BY <1>2, <1>3, <2>1
  <2>3. holder[Idem[j]] = j
    BY <1>1, <2>1, <2>2 DEF SkillInv, Keyed
  <2>4. QED
    BY <1>2, <1>3, <2>1, <2>3
<1>4. a \in Owners(Idem[a])
  BY DEF Owners
<1>5. QED
  BY <1>3, <1>4

-----------------------------------------------------------------------------
(* What a step makes its key see. *)

Kept(a) == dispatched'[a] = dispatched[a] /\ pc[a] # "deduplicated" /\ pc'[a] # "deduplicated"

Takes(a)   == Start(a) /\ row[a] = "absent" /\ row'[a] = "absent" /\ ~Handling(a) /\ Handling(a)'
Answers(a) == Deduplicate(a) /\ row[a] = "absent" /\ ~Handling(a)
Reaches(a) == /\ row[a] = "absent" /\ row'[a] = "absent" /\ Handling(a) /\ Handling(a)'
              /\ dispatched'[a] = dispatched[a] + 1 /\ pc[a] # "deduplicated" /\ pc'[a] # "deduplicated"
Quiet(a)   == row'[a] = row[a] /\ (Handling(a)' <=> Handling(a))
Commits(a) == Handling(a) /\ row'[a] # "absent"
Leaves(a)  == Handling(a) /\ ~Handling(a)' /\ row'[a] = row[a]

\* An adapter that is asked for is reached or not.
LEMMA AskReaches ==
  ASSUME SkillInv, NEW a \in Calls, Dispatch(a) \/ DispatchFallback(a)
  PROVE  Reaches(a) \/ (Kept(a) /\ Quiet(a))
<1> USE DEF Goto, Handling, Inside
<1>1. row[a] = "absent" /\ row' = row /\ Handling(a) /\ pc \in [Calls -> Points] /\ dispatched \in [Calls -> Nat]
  BY DEF SkillInv, TypeOK, Local, Recorded, Dispatch, DispatchFallback, session
<1>2. pc[a] # "deduplicated"
  BY DEF Dispatch, DispatchFallback
<1>3. PICK b \in {Of(a), FallbackOf(a)}, point \in {"running", "fallback_running"},
           settle \in {"settle", "fallback_settle"} : Ask(a, b, point, settle)
  BY DEF Dispatch, DispatchFallback
<1>4. \/ Goto(a, settle) /\ UNCHANGED dispatched
      \/ Goto(a, point) /\ dispatched' = [dispatched EXCEPT ![a] = @ + 1]
  BY <1>3 DEF Ask
<1>5. QED
  BY <1>1, <1>2, <1>4 DEF Reaches, Kept, Quiet

\* A call returns from an adapter; a guardrail has put it on record.
LEMMA ReturnKeeps ==
  ASSUME SkillInv, NEW a \in Calls,
         Return(a, "running", "settle") \/ Return(a, "fallback_running", "fallback_settle")
  PROVE  Kept(a) /\ (Quiet(a) \/ Commits(a))
<1> USE DEF Goto, Handling, Inside
<1>1. pc \in [Calls -> Points] /\ row \in [Calls -> Statuses \cup {"absent"}]
  BY DEF SkillInv, TypeOK
<1>2. PICK o \in Outcomes : Persist(a, o)
  BY DEF Return
<1>3. Handling(a) /\ Handling(a)' /\ Kept(a)
  BY <1>1 DEF Return, Kept
<1>4. row'[a] = row[a] \/ row'[a] = "running"
  BY <1>1, <1>2 DEF Persist
<1>5. QED
  BY <1>3, <1>4 DEF Quiet, Commits

\* The caller commits its call with its row, or rolls it back: then the row
\* stays what an earlier commit made it.
LEMMA EndLeaves ==
  ASSUME SkillInv, NEW a \in Calls, Commit(a) \/ Rollback(a)
  PROVE  Kept(a) /\ (Commits(a) \/ Leaves(a))
<1> USE DEF Goto, Handling, Inside
<1>1. pc \in [Calls -> Points] /\ row \in [Calls -> Statuses \cup {"absent"}] /\ result[a].status \in Statuses
  BY DEF SkillInv, TypeOK
<1>2. Stored(result[a].status) # "absent"
  BY <1>1 DEF Stored, Statuses
<1>3. Handling(a) /\ ~Handling(a)' /\ Kept(a)
  BY <1>1 DEF Commit, Rollback, Forget, Kept
<1>4. row'[a] # "absent" \/ row'[a] = row[a]
  BY <1>1, <1>2 DEF Commit, Rollback
<1>5. QED
  BY <1>3, <1>4 DEF Commits, Leaves

LEMMA CallMoves ==
  ASSUME SkillInv, NEW a \in Calls, Step(a)
  PROVE  \/ Answers(a) \/ Reaches(a)
         \/ Kept(a) /\ (Takes(a) \/ Quiet(a) \/ Commits(a) \/ Leaves(a))
<1> USE DEF Goto, Handling, Inside, Kept
<1>1. /\ pc \in [Calls -> Points]
      /\ pc[a] \in {"start"} => row[a] = "absent"
  BY DEF SkillInv, TypeOK, Local, Recorded
<1>2. CASE BuildPolicy(a)
  BY <1>1, <1>2 DEF BuildPolicy, session, loop, Quiet
<1>3. CASE Deduplicate(a)
  BY <1>1, <1>3 DEF Deduplicate, Answers
<1>4. CASE Start(a)
  BY <1>1, <1>4 DEF Start, loop, Takes
<1>5. CASE Acquire(a) \/ Blocked(a) \/ AcquireFails(a)
  BY <1>1, <1>5 DEF Acquire, Blocked, AcquireFails, session, loop, Quiet
<1>6. CASE Release(a) \/ ReleaseFails(a)
  BY <1>1, <1>6 DEF Release, ReleaseFails, AfterRelease, session, loop, Quiet
<1>7. CASE SettleReturned(a) \/ SettleRetry(a) \/ SettleFailure(a)
  BY <1>1, <1>7 DEF SettleReturned, SettleRetry, SettleFailure, Quiet
<1>8. CASE Resume(a) \/ SettleFallback(a)
  BY <1>1, <1>8 DEF Resume, SettleFallback, loop, Quiet
<1>9. CASE Accept(a)
  <2>1. Handling(a) /\ Handling(a)' /\ Kept(a) /\ TypeOK
    BY <1>1, <1>9 DEF Accept, loop, SkillInv
  <2>2. row' = row \/ row'[a] = "running"
    BY <1>9, <2>1, AcceptChecks, PersistMoves
  <2>3. QED
    BY <2>1, <2>2 DEF Quiet, Commits
<1>10. QED
  BY <1>2, <1>3, <1>4, <1>5, <1>6, <1>7, <1>8, <1>9, AskReaches, ReturnKeeps, EndLeaves DEF Step

-----------------------------------------------------------------------------
(* Each of these is a step of the key. *)

Shared == <<[k \in IdemKeys |-> Owners(k)], OnRecord,
            [i \in KeyedCalls |-> dispatched[i]], Answered>>

\* A step after which the key sees what it saw before.
LEMMA KeyStutters ==
  ASSUME SkillInv, NEW a \in Calls, Step(a), Kept(a),
         a \in KeyedCalls => (Owning(a)' <=> Owning(a)) /\ (row'[a] = "absent" <=> row[a] = "absent")
  PROVE  UNCHANGED Shared
<1>1. /\ \A i \in KeyedCalls : Owning(i)' <=> Owning(i)
      /\ \A i \in KeyedCalls : row'[i] = "absent" <=> row[i] = "absent"
      /\ \A i \in KeyedCalls : dispatched'[i] = dispatched[i]
      /\ \A i \in KeyedCalls : pc'[i] = "deduplicated" <=> pc[i] = "deduplicated"
  BY RestStill DEF SkillInv, KeyedCalls, Kept
<1>2. \A k \in IdemKeys : Owners(k)' = Owners(k)
  BY <1>1 DEF Owners, Owning
<1>3. OnRecord' = OnRecord /\ Answered' = Answered
  BY <1>1 DEF OnRecord, Answered
<1>4. QED
  BY <1>1, <1>2, <1>3 DEF Shared

\* Nobody owns a key that is free and under which no row is found.
LEMMA FreeKey ==
  ASSUME SkillInv, NEW a \in KeyedCalls, LockFree(a), ~Existing(a)
  PROVE  Owners(Idem[a]) = {}
<1> SUFFICES ASSUME NEW j \in Owners(Idem[a])
             PROVE  FALSE
  OBVIOUS
<1>1. j \in Calls /\ Idem[j] = Idem[a] /\ Idem[a] # None /\ None \notin Calls
  BY ReliabilityAssumption DEF Owners, KeyedCalls
<1>2. row[j] = "absent" /\ Handling(j)
  BY <1>1 DEF Existing, SameKey, Owners
<1>3. holder[Idem[a]] = j
  BY <1>1, <1>2 DEF SkillInv, Keyed
<1>4. QED
  BY <1>1, <1>3 DEF LockFree

\* What a step leaves of the owners of a key.
LEMMA OwnersMove ==
  ASSUME SkillInv, NEW a \in KeyedCalls, Step(a)
  PROVE  /\ \A k \in IdemKeys : k # Idem[a] => Owners(k)' = Owners(k)
         /\ Owners(Idem[a])' = IF Owning(a)' THEN Owners(Idem[a]) \cup {a} ELSE Owners(Idem[a]) \ {a}
<1>1. \A i \in KeyedCalls \ {a} : Owning(i)' <=> Owning(i)
  BY RestStill DEF SkillInv, KeyedCalls
<1>2. \A k : /\ Owners(k)  = {i \in KeyedCalls : Idem[i] = k /\ Owning(i)}
             /\ Owners(k)' = {i \in KeyedCalls : Idem[i] = k /\ Owning(i)'}
  BY DEF Owners, Owning
<1>3. QED
  BY <1>1, <1>2

LEMMA OthersKeep ==
  ASSUME SkillInv, NEW a \in KeyedCalls, Step(a)
  PROVE  \A i \in KeyedCalls \ {a} :
           /\ row'[i] = row[i] /\ dispatched'[i] = dispatched[i]
           /\ pc'[i] = "deduplicated" <=> pc[i] = "deduplicated"
  BY RestStill DEF SkillInv, KeyedCalls

LEMMA StartTakes ==
  ASSUME SkillInv, NEW a \in KeyedCalls, Step(a), Kept(a), Takes(a)
  PROVE  Invocations!Take(a)
<1>1. a \in Calls /\ Idem[a] \in IdemKeys
  BY ReliabilityAssumption DEF KeyedCalls
<1>2. Owners(Idem[a]) = {}
  BY FreeKey DEF Takes, Start
<1>3. Owning(a)'
  BY DEF Takes, Owning
<1>4. [k \in IdemKeys |-> Owners(k)]' = [[k \in IdemKeys |-> Owners(k)] EXCEPT ![Idem[a]] = {a}]
  BY <1>1, <1>2, <1>3, OwnersMove
<1>5. OnRecord' = OnRecord /\ Answered' = Answered
      /\ [i \in KeyedCalls |-> dispatched[i]]' = [i \in KeyedCalls |-> dispatched[i]]
  BY OthersKeep DEF OnRecord, Answered, Kept, Takes
<1>6. a \notin Answered
  BY DEF Answered, Kept
<1>7. QED
  BY <1>1, <1>2, <1>4, <1>5, <1>6 DEF Invocations!Take

LEMMA DispatchReaches ==
  ASSUME SkillInv, SkillInv', NEW a \in KeyedCalls, Step(a), Reaches(a)
  PROVE  Invocations!Reach(a)
<1>1. a \in Calls /\ Idem[a] \in IdemKeys
  BY ReliabilityAssumption DEF KeyedCalls
<1>2. Owners(Idem[a]) = {a}
  BY SoleOwner DEF Reaches
<1>3. Owning(a) /\ Owning(a)'
  BY DEF Reaches, Owning
<1>4. [k \in IdemKeys |-> Owners(k)]' = [k \in IdemKeys |-> Owners(k)]
  BY <1>1, <1>2, <1>3, OwnersMove
<1>5. OnRecord' = OnRecord /\ Answered' = Answered /\ a \notin OnRecord
  BY OthersKeep DEF OnRecord, Answered, Reaches
<1>6. dispatched[a] < CallBudget(a)
  <2>1. DispatchesInBudget' /\ UnsafeOnce'
    BY BudgetFollows, PTL
  <2>2. dispatched'[a] <= Profile[a].skillCalls /\ (~Replayable(a) => dispatched'[a] <= 1)
    BY <1>1, <2>1 DEF DispatchesInBudget, UnsafeOnce, Replayable
  <2>3. dispatched[a] \in Nat /\ dispatched'[a] = dispatched[a] + 1 /\ Profile[a].skillCalls \in Nat
    BY <1>1, ReliabilityAssumption DEF SkillInv, TypeOK, Reaches
  <2>4. QED
    BY <2>2, <2>3 DEF CallBudget
<1>7. [i \in KeyedCalls |-> dispatched[i]]' = [[i \in KeyedCalls |-> dispatched[i]] EXCEPT ![a] = @ + 1]
  BY OthersKeep DEF Reaches
<1>8. QED
  BY <1>1, <1>2, <1>4, <1>5, <1>6, <1>7 DEF Invocations!Reach, Invocations!Owns

\* A row comes out for the first time.
LEMMA CommitRecords ==
  ASSUME SkillInv, NEW a \in KeyedCalls, Step(a), Kept(a), Commits(a), row[a] = "absent"
  PROVE  Invocations!Record(a)
<1>1. a \in Calls /\ Idem[a] \in IdemKeys
  BY ReliabilityAssumption DEF KeyedCalls
<1>2. Owners(Idem[a]) = {a}
  BY SoleOwner DEF Commits
<1>3. Owning(a) /\ Owning(a)'
  BY DEF Commits, Owning
<1>4. [k \in IdemKeys |-> Owners(k)]' = [k \in IdemKeys |-> Owners(k)]
  BY <1>1, <1>2, <1>3, OwnersMove
<1>5. Answered' = Answered
      /\ [i \in KeyedCalls |-> dispatched[i]]' = [i \in KeyedCalls |-> dispatched[i]]
  BY OthersKeep DEF Answered, Kept
<1>6. OnRecord' = OnRecord \cup {a} /\ a \notin OnRecord
  BY OthersKeep DEF OnRecord, Commits
<1>7. QED
  BY <1>1, <1>2, <1>4, <1>5, <1>6 DEF Invocations!Record, Invocations!Owns

\* A call leaves no row behind.
LEMMA RollbackGivesUp ==
  ASSUME SkillInv, NEW a \in KeyedCalls, Step(a), Kept(a), Leaves(a), row[a] = "absent"
  PROVE  Invocations!GiveUp
<1>1. a \in Calls /\ Idem[a] \in IdemKeys
  BY ReliabilityAssumption DEF KeyedCalls
<1>2. Owners(Idem[a]) = {a} /\ a \notin OnRecord
  BY SoleOwner DEF Leaves, OnRecord
<1>3. ~Owning(a)'
  BY DEF Leaves, Owning
<1>4. [k \in IdemKeys |-> Owners(k)]' =
        [k \in IdemKeys |-> IF k \in {Idem[a]} THEN {} ELSE [l \in IdemKeys |-> Owners(l)][k]]
  BY <1>1, <1>2, <1>3, OwnersMove
<1>5. OnRecord' = OnRecord /\ Answered' = Answered
      /\ [i \in KeyedCalls |-> dispatched[i]]' = [i \in KeyedCalls |-> dispatched[i]]
  BY OthersKeep DEF OnRecord, Answered, Kept, Leaves
<1>6. \A k \in {Idem[a]} : [l \in IdemKeys |-> Owners(l)][k] \cap OnRecord = {}
  BY <1>1, <1>2
<1>7. QED
  BY <1>1, <1>4, <1>5, <1>6 DEF Invocations!GiveUp

LEMMA DeduplicateAnswers ==
  ASSUME SkillInv, NEW a \in Calls, Step(a), Answers(a)
  PROVE  a \in KeyedCalls /\ Invocations!Answer(a)
<1>1. PICK j \in Calls : Idem[a] # None /\ Idem[j] = Idem[a] /\ row[j] # "absent"
  BY DEF Answers, Deduplicate, Existing, SameKey
<1>2. a \in KeyedCalls /\ j \in KeyedCalls /\ Idem[a] \in IdemKeys
  BY <1>1, ReliabilityAssumption DEF KeyedCalls
<1>3. row' = row /\ dispatched' = dispatched /\ pc \in [Calls -> Points] /\ pc' = [pc EXCEPT ![a] = "deduplicated"]
  BY DEF Answers, Deduplicate, session, loop, Goto, SkillInv, TypeOK
<1>4. ~Owning(a) /\ ~Owning(a)'
  BY <1>3 DEF Answers, Owning, Handling, Inside
<1>5. a \notin Owners(Idem[a]) /\ j \in Owners(Idem[a]) \cap OnRecord
  BY <1>1, <1>2, <1>4 DEF Owners, Owning, OnRecord
<1>6. [k \in IdemKeys |-> Owners(k)]' = [k \in IdemKeys |-> Owners(k)]
  BY <1>2, <1>4, <1>5, OwnersMove
<1>7. Answered' = Answered \cup {a} /\ OnRecord' = OnRecord
      /\ [i \in KeyedCalls |-> dispatched[i]]' = [i \in KeyedCalls |-> dispatched[i]]
  BY <1>2, <1>3 DEF Answered, OnRecord, KeyedCalls
<1>8. QED
  BY <1>2, <1>5, <1>6, <1>7 DEF Invocations!Answer, Invocations!Owns

\* A worker that dies gives up the keys of the calls it had not put on record.
LEMMA CrashGivesUp ==
  ASSUME SkillInv, NEW w \in Workers, Crash(w)
  PROVE  Invocations!GiveUp
<1> DEFINE Lost == {k \in IdemKeys : \E i \in Owners(k) : row[i] = "absent" /\ ~Handling(i)'}
<1>1. /\ row' = row /\ dispatched' = dispatched
      /\ \A i \in Calls : /\ pc'[i] = "deduplicated" <=> pc[i] = "deduplicated"
                          /\ Handling(i)' => Handling(i)
  BY DEF Crash, Forget, Over, Handling, Inside
<1>2. OnRecord' = OnRecord /\ Answered' = Answered
      /\ [i \in KeyedCalls |-> dispatched[i]]' = [i \in KeyedCalls |-> dispatched[i]]
  BY <1>1 DEF OnRecord, Answered, KeyedCalls
<1>3. ASSUME NEW k \in Lost
      PROVE  Owners(k)' = {} /\ Owners(k) \cap OnRecord = {}
  <2>1. PICK i \in Owners(k) : row[i] = "absent" /\ ~Handling(i)'
    OBVIOUS
  <2>2. i \in KeyedCalls /\ Idem[i] = k /\ Handling(i)
    BY <2>1 DEF Owners
  <2>3. Owners(k) = {i}
    BY <2>1, <2>2, SoleOwner
  <2>4. Owners(k)' \subseteq Owners(k) /\ i \notin Owners(k)'
    BY <1>1, <2>1 DEF Owners, KeyedCalls
  <2>5. QED
    BY <2>1, <2>3, <2>4 DEF OnRecord
<1>4. ASSUME NEW k \in IdemKeys, k \notin Lost
      PROVE  Owners(k)' = Owners(k)
  <2>1. \A i \in Owners(k) : Handling(i)' \/ row[i] # "absent"
    BY <1>4
  <2>2. QED
    BY <1>1, <2>1 DEF Owners, KeyedCalls
<1>5. Lost \in SUBSET IdemKeys
  OBVIOUS
<1> HIDE DEF Lost
<1>6. [k \in IdemKeys |-> Owners(k)]' =
        [k \in IdemKeys |-> IF k \in Lost THEN {} ELSE [l \in IdemKeys |-> Owners(l)][k]]
  BY <1>3, <1>4
<1>7. \A k \in Lost : [l \in IdemKeys |-> Owners(l)][k] \cap OnRecord = {}
  BY <1>3, <1>5
<1>8. QED
  BY <1>2, <1>5, <1>6, <1>7 DEF Invocations!GiveUp

-----------------------------------------------------------------------------
(* The refinement. *)

LEMMA InitMaps == Init => Invocations!Init
<1> SUFFICES ASSUME Init
             PROVE  Invocations!Init
  OBVIOUS
<1>1. \A i \in KeyedCalls : /\ row[i] = "absent" /\ dispatched[i] = 0
                           /\ ~Handling(i) /\ pc[i] # "deduplicated"
  BY DEF Init, KeyedCalls, Handling, Inside
<1>2. (\A k \in IdemKeys : Owners(k) = {}) /\ OnRecord = {} /\ Answered = {}
  BY <1>1 DEF Owners, OnRecord, Answered
<1>3. QED
  BY <1>1, <1>2 DEF Invocations!Init

LEMMA StepMaps ==
  ASSUME SkillInv, SkillInv', NEW a \in Calls, Step(a)
  PROVE  Invocations!Next \/ UNCHANGED Shared
<1>1. CASE Answers(a)
  BY <1>1, DeduplicateAnswers DEF Invocations!Next
<1>2. CASE Reaches(a) /\ a \in KeyedCalls
  BY <1>2, DispatchReaches DEF Invocations!Next
<1>3. CASE a \notin KeyedCalls /\ ~Answers(a)
  <2>1. /\ \A i \in KeyedCalls : Owning(i)' <=> Owning(i)
        /\ \A i \in KeyedCalls : row'[i] = row[i] /\ dispatched'[i] = dispatched[i] /\ pc'[i] = pc[i]
    BY <1>3, RestStill DEF SkillInv, KeyedCalls
  <2>2. \A k \in IdemKeys : Owners(k)' = Owners(k)
    BY <2>1 DEF Owners, Owning
  <2>3. OnRecord' = OnRecord /\ Answered' = Answered
    BY <2>1 DEF OnRecord, Answered
  <2>4. QED
    BY <2>1, <2>2, <2>3 DEF Shared
<1>4. CASE a \in KeyedCalls /\ Kept(a) /\ Takes(a)
  BY <1>4, StartTakes DEF Invocations!Next
<1>5. CASE Kept(a) /\ Quiet(a)
  BY <1>5, KeyStutters DEF Quiet, Owning
<1>6. CASE a \in KeyedCalls /\ Kept(a) /\ (Commits(a) \/ Leaves(a)) /\ row[a] = "absent"
  BY <1>6, CommitRecords, RollbackGivesUp DEF Invocations!Next
<1>7. CASE Kept(a) /\ (Commits(a) \/ Leaves(a)) /\ row[a] # "absent"
  BY <1>7, KeyStutters DEF Commits, Leaves, Owning
<1>8. QED
  BY <1>1, <1>2, <1>3, <1>4, <1>5, <1>6, <1>7, CallMoves

LEMMA NextMaps ==
  SkillInv /\ SkillInv' /\ [Next]_vars => [Invocations!Next]_Shared
<1> SUFFICES ASSUME SkillInv, SkillInv', [Next]_vars
             PROVE  Invocations!Next \/ UNCHANGED Shared
  OBVIOUS
<1>1. ASSUME UNCHANGED <<row, dispatched, pc>>
      PROVE  UNCHANGED Shared
  BY <1>1 DEF Shared, Owners, OnRecord, Answered, Handling, Inside
<1>2. CASE UNCHANGED vars \/ Tick
  BY <1>1, <1>2 DEF vars, session, loop, Tick
<1>3. CASE \E w \in Workers : Crash(w)
  BY <1>3, CrashGivesUp DEF Invocations!Next
<1>4. CASE \E i \in Calls : Step(i)
  BY <1>4, StepMaps
<1>5. QED
  BY <1>2, <1>3, <1>4 DEF Next

\* The calls of a key behave as one invocation of it, whatever is committed,
\* rolled back or lost with its process.
THEOREM SkillImplementsKeyedInvocation == Spec => ImplementsKeyedInvocation
<1>1. Spec => []SkillInv /\ [][Next]_vars
  BY SkillInvariant, PTL DEF Spec
<1>2. Spec => Invocations!Init
  BY InitMaps DEF Spec
<1>3. QED
  BY <1>1, <1>2, NextMaps, PTL DEF ImplementsKeyedInvocation, Invocations!Spec, Shared
=============================================================================
