-------------------- MODULE GatePolicyRefinement_proofs --------------------
(***************************************************************************)
(* GatePolicyGovernance implements EnforcedVersion, for every number of    *)
(* versions, approvals, sessions and time stamps.                          *)
(***************************************************************************)
EXTENDS GatePolicyGovernance_proofs

-----------------------------------------------------------------------------
(* What a step does to the requests that wait for a change. *)

SameChanges == ChangesAsked' = ChangesAsked /\ ChangesWaiting' = ChangesWaiting

AsRequest(a) == [id |-> a, version |-> approvals[a].version, expected |-> approvals[a].expected]

\* A row that is not altered asks for the same change as before.
LEMMA SameAsRequest ==
  ASSUME NEW a, SameRequest(approvals'[a], approvals[a])
  PROVE  AsRequest(a)' = AsRequest(a) /\ (OfVersion(a)' <=> OfVersion(a))
  BY DEF SameRequest, AsRequest, OfVersion

\* A request to review or retire a version asks for no change.
LEMMA VersionRequested ==
  ASSUME TypeOK, NEW row \in ApprovalRow, row.kind \in {"review", "lifecycle"},
         approvals' = Append(approvals, row)
  PROVE  SameChanges
<1>1. PICK a \in Nat :
        /\ DOMAIN approvals' = DOMAIN approvals \cup {a} /\ a \notin DOMAIN approvals
        /\ \A b \in DOMAIN approvals : approvals'[b] = approvals[b]
        /\ approvals'[a] = row
  BY RequestedRows
<1>2. OfVersion(a)'
  BY <1>1 DEF OfVersion
<1>3. \A b \in DOMAIN approvals : (OfVersion(b)' <=> OfVersion(b)) /\ (Pending(b)' <=> Pending(b))
  BY <1>1 DEF OfVersion, Pending
<1>4. ChangesAsked' = ChangesAsked
  BY <1>1, <1>2, <1>3 DEF ChangesAsked
<1>5. QED
  BY <1>1, <1>3, <1>4 DEF SameChanges, ChangesWaiting, ChangesAsked

\* Neither does the decision on one.
LEMMA VersionDecided ==
  ASSUME TypeOK, NEW a \in DOMAIN approvals, NEW st \in {"approved", "rejected", "cancelled"},
         Decided(a, st), OfVersion(a)
  PROVE  SameChanges
<1>1. /\ DOMAIN approvals' = DOMAIN approvals
      /\ \A b \in DOMAIN approvals :
           /\ SameRequest(approvals'[b], approvals[b])
           /\ approvals'[b].status = IF b = a THEN st ELSE approvals[b].status
  BY DecidedRows
<1>2. ChangesAsked' = ChangesAsked
  BY <1>1 DEF ChangesAsked, SameRequest, OfVersion
<1>3. \A b \in ChangesAsked : (Pending(b)' <=> Pending(b)) /\ SameRequest(approvals'[b], approvals[b])
  BY <1>1 DEF ChangesAsked, Pending
<1>4. QED
  BY <1>2, <1>3 DEF SameChanges, ChangesWaiting, SameRequest

\* A request for a change is decided once.
LEMMA ChangeDecided ==
  ASSUME TypeOK, NEW a \in DOMAIN approvals, NEW st \in {"approved", "rejected", "cancelled"},
         Decided(a, st), ~OfVersion(a), Pending(a)
  PROVE  /\ ChangesAsked' = ChangesAsked
         /\ AsRequest(a) \in ChangesWaiting /\ ChangesWaiting' = ChangesWaiting \ {AsRequest(a)}
<1>1. /\ DOMAIN approvals' = DOMAIN approvals
      /\ \A b \in DOMAIN approvals :
           /\ SameRequest(approvals'[b], approvals[b])
           /\ approvals'[b].status = IF b = a THEN st ELSE approvals[b].status
  BY DecidedRows
<1>2. ChangesAsked' = ChangesAsked
  BY <1>1 DEF ChangesAsked, SameRequest, OfVersion
<1>3. \A b \in ChangesAsked :
        /\ AsRequest(b)' = AsRequest(b) /\ AsRequest(b).id = b
        /\ Pending(b)' <=> Pending(b) /\ b # a
  BY <1>1 DEF ChangesAsked, Pending, SameRequest, AsRequest
<1>4. /\ ChangesWaiting  = {AsRequest(b)  : b \in {c \in ChangesAsked  : Pending(c)}}
      /\ ChangesWaiting' = {AsRequest(b)' : b \in {c \in ChangesAsked' : Pending(c)'}}
  BY DEF ChangesWaiting, AsRequest
<1>5. a \in ChangesAsked
  BY DEF ChangesAsked
<1>6. QED
  BY <1>2, <1>3, <1>4, <1>5

-----------------------------------------------------------------------------
(* The steps. *)

Abstract == <<now, Len(bindings), InForce, ChangesAsked, ChangesWaiting>>

\* A step that leaves bindings, clock and requests alone changes nothing.
LEMMA Stutters ==
  ASSUME UNCHANGED <<bindings, now>>, SameChanges
  PROVE  UNCHANGED Abstract
  BY DEF Abstract, InForce, Effective, SameChanges

LEMMA ApprovalsStutter ==
  ASSUME UNCHANGED <<approvals, bindings, now>>
  PROVE  UNCHANGED Abstract
<1>1. SameChanges
  BY DEF SameChanges, ChangesAsked, ChangesWaiting, OfVersion, Pending
<1>2. QED
  BY <1>1, Stutters

\* A request for a change names a binding that is there.
LEMMA RequestAsks ==
  ASSUME TypeOK, NEW kind \in {"activation", "rollback"}, NEW v \in Versions,
         NEW n \in 0 .. Len(bindings), RequestChange(kind, v, n)
  PROVE  Enforcement!Ask
<1> DEFINE row == [kind |-> kind, version |-> v, content |-> version[v].content,
                   target |-> "none", expected |-> n, status |-> "pending"]
<1>1. row \in ApprovalRow
  BY VersionRows, BindingFields DEF ApprovalRow
<1>2. approvals' = Append(approvals, row) /\ Len(approvals) + 1 \in 1 .. MaxApprovals /\ UNCHANGED <<bindings, now>>
  BY GovernanceAssumption DEF RequestChange, TypeOK
<1>3. /\ row.kind = kind /\ row.version = v /\ row.expected = n /\ row.status = "pending"
  OBVIOUS
<1> HIDE DEF row
<1>4. PICK a \in 1 .. MaxApprovals :
        /\ DOMAIN approvals' = DOMAIN approvals \cup {a} /\ a \notin DOMAIN approvals
        /\ \A b \in DOMAIN approvals : approvals'[b] = approvals[b]
        /\ approvals'[a] = row
  BY <1>1, <1>2, RequestedRows
<1> DEFINE r == [id |-> a, version |-> v, expected |-> n]
<1>5. \A b \in DOMAIN approvals :
        /\ (OfVersion(b)' <=> OfVersion(b)) /\ (Pending(b)' <=> Pending(b)) /\ AsRequest(b)' = AsRequest(b)
  BY <1>4 DEF OfVersion, Pending, AsRequest
<1>6. ~OfVersion(a)' /\ Pending(a)' /\ AsRequest(a)' = r
  BY <1>3, <1>4 DEF OfVersion, Pending, AsRequest
<1>7. ChangesAsked' = ChangesAsked \cup {a} /\ a \notin ChangesAsked
  BY <1>4, <1>5, <1>6 DEF ChangesAsked
<1>8. /\ ChangesWaiting  = {AsRequest(b)  : b \in {c \in ChangesAsked  : Pending(c)}}
      /\ ChangesWaiting' = {AsRequest(b)' : b \in {c \in ChangesAsked' : Pending(c)'}}
  BY DEF ChangesWaiting, AsRequest
<1>9. \A b \in ChangesAsked : b \in DOMAIN approvals
  BY DEF ChangesAsked
<1>10. ChangesWaiting' = ChangesWaiting \cup {r}
  BY <1>5, <1>6, <1>7, <1>8, <1>9
<1>11. InForce' = InForce
  BY <1>2 DEF InForce, Effective
<1>12. QED
  BY <1>2, <1>7, <1>10, <1>11 DEF Enforcement!Ask

\* A decision that makes no change takes its request back.
LEMMA DecisionWithdraws ==
  ASSUME TypeOK, NEW a \in DOMAIN approvals, NEW st \in {"approved", "rejected", "cancelled"},
         Decided(a, st), Pending(a), UNCHANGED <<bindings, now>>
  PROVE  Enforcement!Withdraw \/ UNCHANGED Abstract
<1>1. CASE OfVersion(a)
  BY <1>1, VersionDecided, Stutters
<1>2. CASE ~OfVersion(a)
  <2>1. InForce' = InForce
    BY DEF InForce, Effective
  <2>2. QED
    BY <1>2, <2>1, ChangeDecided DEF Enforcement!Withdraw
<1>3. QED
  BY <1>1, <1>2

\* The commit of a change: from its time stamp on the new binding is the only
\* one in force, and before it nothing is other than it was.
LEMMA SwitchChanges ==
  ASSUME GovernanceInv, NEW s \in Sessions, Switch(s)
  PROVE  Enforcement!Change
<1> DEFINE n == Len(bindings)
           a == task[s]
<1>1. /\ n \in Nat /\ Len(bindings') = n + 1 /\ DOMAIN bindings' = 1 .. (n + 1)
      /\ \A i \in 1 .. n : bindings'[i].version = bindings[i].version
      /\ bindings'[n + 1].version = approvals[a].version /\ bindings'[n + 1].from = now
      /\ bindings'[n + 1].until = Forever
      /\ approvals[a].expected = n /\ now \in Nat
  BY SwitchRows
<1>2. /\ TypeOK /\ SessionTasks /\ StampedChange /\ pc[s] = "stamped" /\ Decided(a, "approved") /\ now' = now
      /\ Windows' /\ DOMAIN bindings = 1 .. n
  BY SwitchWindows, BindingFields DEF GovernanceInv, Switch
<1>3. a \in DOMAIN approvals /\ Pending(a) /\ ~OfVersion(a)
  BY <1>2 DEF SessionTasks, StampedChange
<1>4. /\ ChangesAsked' = ChangesAsked
      /\ AsRequest(a) \in ChangesWaiting /\ ChangesWaiting' = ChangesWaiting \ {AsRequest(a)}
  BY <1>2, <1>3, ChangeDecided
<1>5. AsRequest(a).version = approvals[a].version /\ AsRequest(a).expected = n
  BY <1>1 DEF AsRequest
<1> DEFINE v == approvals[a].version
           Live(t)  == {c \in DOMAIN bindings : Effective(bindings[c], t)}
           Later(t) == {c \in DOMAIN bindings' : Effective(bindings'[c], t)}
<1>6. ASSUME NEW t \in 0 .. MaxTime, t < now
      PROVE  InForce'[t] = InForce[t]
  <2>1. Later(t) = Live(t)
    BY <1>6, EarlierTimes
  <2>2. \A c \in Live(t) : bindings'[c].version = bindings[c].version
    BY <1>1, <1>2
  <2>3. /\ InForce[t] = {<<b, bindings[b].version>> : b \in Live(t)}
        /\ InForce'[t] = {<<b, bindings'[b].version>> : b \in Later(t)}
    BY DEF InForce
  <2> HIDE DEF Live, Later
  <2>4. QED
    BY <2>1, <2>2, <2>3
<1>7. ASSUME NEW t \in 0 .. MaxTime, ~(t < now)
      PROVE  InForce'[t] = {<<n + 1, v>>}
  <2>1. Effective(bindings'[n + 1], t)
    BY <1>1, <1>7 DEF Effective
  <2>2. ASSUME NEW c \in 1 .. n
        PROVE  ~Effective(bindings'[c], t)
    <3>1. bindings'[c].until # Forever /\ bindings'[c].until <= now
      BY <1>1, <1>2, <2>2 DEF Windows
    <3>2. bindings'[c].until \in Nat
      <4>1. bindings' \in Seq(BindingRow) /\ c \in DOMAIN bindings'
        BY <1>1, <2>2, SwitchRows
      <4>2. bindings'[c] \in BindingRow
        BY <4>1
      <4>3. QED
        BY <4>2 DEF BindingRow
    <3>3. QED
      BY <1>1, <1>7, <3>1, <3>2 DEF Effective
  <2>3. Later(t) = {n + 1}
    BY <1>1, <2>1, <2>2
  <2>4. InForce'[t] = {<<b, bindings'[b].version>> : b \in Later(t)}
    BY DEF InForce
  <2> HIDE DEF Later
  <2>5. QED
    BY <1>1, <2>3, <2>4
<1>8. InForce' = Enforcement!From(now, <<n + 1, v>>, InForce)
  <2>1. /\ InForce' = [t \in 0 .. MaxTime |-> InForce'[t]]
        /\ Enforcement!From(now, <<n + 1, v>>, InForce)
             = [t \in 0 .. MaxTime |-> IF t < now THEN InForce[t] ELSE {<<n + 1, v>>}]
    BY DEF InForce, Enforcement!From
  <2>2. \A t \in 0 .. MaxTime : InForce'[t] = (IF t < now THEN InForce[t] ELSE {<<n + 1, v>>})
    BY <1>6, <1>7
  <2>3. QED
    BY <2>1, <2>2
<1>9. QED
  BY <1>1, <1>2, <1>4, <1>5, <1>8 DEF Enforcement!Change

\* Drafts and their reviews change nothing that is in force; a request for a
\* change only asks.
LEMMA DraftsAsk ==
  ASSUME GovernanceInv, DraftStep
  PROVE  Enforcement!Ask \/ UNCHANGED Abstract
<1>1. TypeOK /\ PendingIsCurrent
  BY DEF GovernanceInv
<1>2. ASSUME NEW v \in Versions, ~InReview(v), NEW a \in 1 .. MaxApprovals,
             NEW kind \in {"review", "lifecycle"}, NEW target \in Statuses \cup {"none"},
             Request(kind, v, target, a), UNCHANGED <<bindings, now>>
      PROVE  UNCHANGED Abstract
  <2>1. a \in Nat
    OBVIOUS
  <2>2. PICK row \in ApprovalRow : approvals' = Append(approvals, row) /\ row.kind = kind
    BY <1>1, <1>2, <2>1, RequestIsNew
  <2>3. QED
    BY <1>1, <1>2, <2>2, VersionRequested, Stutters
<1>3. ASSUME NEW v \in Drafts, NEW c \in Contents, CreateDraft(v, c) \/ UpdateDraft(v, c)
      PROVE  UNCHANGED Abstract
  BY <1>3, ApprovalsStutter DEF CreateDraft, UpdateDraft
<1>4. ASSUME NEW v \in Drafts, ValidateDraft(v) \/ \E c \in Candidates : Freeze(v, c)
      PROVE  UNCHANGED Abstract
  BY <1>4, ApprovalsStutter DEF ValidateDraft, Freeze
<1>5. ASSUME NEW v \in Drafts, SubmitReview(v)
      PROVE  UNCHANGED Abstract
  BY <1>2, <1>5 DEF SubmitReview, Versions
<1>6. ASSUME NEW v \in Versions, NEW target \in {"archived", "disabled", "deprecated"},
             RequestLifecycle(v, target)
      PROVE  UNCHANGED Abstract
  BY <1>2, <1>6 DEF RequestLifecycle, Statuses
<1>7. ASSUME NEW v \in Candidates \cup Published, RequestActivation(v) \/ RequestRollback(v)
      PROVE  Enforcement!Ask
  <2>1. v \in Versions
    BY DEF Versions
  <2>2. DOMAIN bindings = 1 .. Len(bindings) /\ Len(bindings) \in Nat
    BY <1>1, BindingFields
  <2>3. CASE RequestActivation(v)
    BY <1>1, <2>1, <2>3, RequestAsks DEF RequestActivation
  <2>4. CASE RequestRollback(v)
    <3>1. PICK b \in DOMAIN bindings : RequestChange("rollback", v, b)
      BY <2>4 DEF RequestRollback
    <3>2. b \in 0 .. Len(bindings)
      BY <2>2
    <3>3. QED
      BY <1>1, <2>1, <3>1, <3>2, RequestAsks
  <2>5. QED
    BY <1>7, <2>3, <2>4
<1>8. QED
  BY <1>3, <1>4, <1>5, <1>6, <1>7 DEF DraftStep

\* A decision takes its request back, makes the change, or lets time pass.
LEMMA DecisionsChange ==
  ASSUME GovernanceInv, DecisionStep
  PROVE  Enforcement!Next \/ UNCHANGED Abstract
<1>1. TypeOK /\ SessionTasks
  BY DEF GovernanceInv
<1>2. ASSUME NEW a \in DOMAIN approvals, NEW status \in {"rejected", "cancelled"}, Decide(a, status)
      PROVE  Enforcement!Withdraw \/ UNCHANGED Abstract
  BY <1>1, <1>2, DecisionWithdraws DEF Decide
<1>3. ASSUME NEW a \in DOMAIN approvals, NEW s \in Sessions,
             BeginApprove(s, a) \/ BeginReview(s, a, "approving") \/ BeginReview(s, a, "rejecting")
      PROVE  UNCHANGED Abstract
  BY <1>3, ApprovalsStutter DEF BeginApprove, BeginReview, tables
<1>4. ASSUME NEW s \in Sessions, task[s] \in DOMAIN approvals, OfVersion(task[s]),
             Grant(s) \/ Blocked(s) \/ Refuse
      PROVE  UNCHANGED Abstract
  <2>1. CASE Refuse
    BY <2>1, ApprovalsStutter DEF Refuse, tables
  <2>2. CASE Grant(s) \/ Blocked(s)
    BY <1>1, <1>4, <2>2, VersionDecided, Stutters DEF Grant, Blocked
  <2>3. QED
    BY <1>4, <2>1, <2>2
<1>5. ASSUME NEW s \in Sessions, ApproveVersion(s) \/ ReviewApprove(s)
      PROVE  UNCHANGED Abstract
  <2>1. task[s] \in DOMAIN approvals /\ OfVersion(task[s])
    BY <1>1, <1>5 DEF ApproveVersion, ReviewApprove, SessionTasks
  <2>2. QED
    BY <1>4, <1>5, <2>1 DEF ApproveVersion, ReviewApprove
<1>6. ASSUME NEW s \in Sessions, ReviewReject(s)
      PROVE  UNCHANGED Abstract
  <2>1. task[s] \in DOMAIN approvals /\ OfVersion(task[s])
    BY <1>1, <1>6 DEF ReviewReject, SessionTasks
  <2>2. QED
    BY <1>1, <1>6, <2>1, VersionDecided, Stutters DEF ReviewReject
<1>7. ASSUME NEW s \in Sessions, RecordRejection(s) \/ Abort(s)
      PROVE  UNCHANGED Abstract
  BY <1>7, ApprovalsStutter DEF RecordRejection, Abort, tables
<1>8. ASSUME NEW s \in Sessions, ApproveChange(s)
      PROVE  Enforcement!Pass \/ Enforcement!Withdraw \/ UNCHANGED Abstract
  <2>1. task[s] \in DOMAIN approvals /\ Pending(task[s])
    BY <1>1, <1>8 DEF ApproveChange, SessionTasks
  <2>2. CASE Refuse
    BY <2>2, ApprovalsStutter DEF Refuse, tables
  <2>3. CASE Blocked(s)
    BY <1>1, <2>1, <2>3, DecisionWithdraws DEF Blocked
  <2>4. ASSUME now' = now + 1, UNCHANGED tables
        PROVE  Enforcement!Pass
    <3>1. InForce' = InForce /\ ChangesAsked' = ChangesAsked /\ ChangesWaiting' = ChangesWaiting
      BY <2>4 DEF tables, InForce, Effective, ChangesAsked, ChangesWaiting, OfVersion, Pending
    <3>2. QED
      BY <2>4, <3>1 DEF Enforcement!Pass, tables
  <2>5. QED
    BY <1>8, <2>2, <2>3, <2>4 DEF ApproveChange
<1>9. ASSUME NEW s \in Sessions, Switch(s)
      PROVE  Enforcement!Change
  BY <1>9, SwitchChanges
<1>10. QED
  BY <1>2, <1>3, <1>5, <1>6, <1>7, <1>8, <1>9 DEF DecisionStep, Enforcement!Next

LEMMA InitEnforces ==
  ASSUME Init
  PROVE  Enforcement!Init
<1>1. ChangesAsked = {} /\ ChangesWaiting = {}
  BY DEF Init, ChangesAsked, ChangesWaiting
<1>2. CASE bindings = <<>>
  <2>1. Len(bindings) = 0 /\ InForce = Enforcement!Nothing
    BY <1>2 DEF InForce, Enforcement!Nothing
  <2>2. QED
    BY <1>1, <2>1 DEF Init, Enforcement!Init
<1>3. ASSUME NEW v \in Published, bindings = <<Binding(v, 0, NoTask, 0)>>
      PROVE  Enforcement!Init
  <2>1. /\ Len(bindings) = 1 /\ DOMAIN bindings = {1}
        /\ bindings[1].version = v /\ bindings[1].from = 0 /\ bindings[1].until = Forever
    BY <1>3 DEF Binding
  <2>2. \A t \in 0 .. MaxTime : Effective(bindings[1], t) /\ ~(t < 0)
    BY <2>1 DEF Effective
  <2>3. \A t \in 0 .. MaxTime : {c \in DOMAIN bindings : Effective(bindings[c], t)} = {1}
    BY <2>1, <2>2
  <2>4. InForce = [t \in 0 .. MaxTime |-> {<<1, v>>}]
    BY <2>1, <2>3 DEF InForce
  <2>5. InForce = Enforcement!From(0, <<1, v>>, Enforcement!Nothing)
    BY <2>2, <2>4 DEF Enforcement!From
  <2>6. QED
    BY <1>1, <2>1, <2>5 DEF Init, Enforcement!Init, Versions
<1>4. QED
  BY <1>2, <1>3 DEF Init

\* Every behaviour of the policy's governance is one of a register with a past:
\* at most one version in force at every time, changed from the present on, for
\* a request that named the change it replaces.
THEOREM GovernanceImplementsEnforcement == Spec => ImplementsEnforcement
<1>1. Init => Enforcement!Init
  BY InitEnforces
<1>2. GovernanceInv /\ [Next]_vars => [Enforcement!Next]_Abstract
  <2>1. SUFFICES ASSUME GovernanceInv, [Next]_vars
                 PROVE  Enforcement!Next \/ UNCHANGED Abstract
    OBVIOUS
  <2>2. ASSUME NEW e \in Executions, CreateExecution(e)
        PROVE  UNCHANGED Abstract
    BY <2>2, ApprovalsStutter DEF CreateExecution, tables
  <2>3. CASE UNCHANGED vars
    BY <2>3, ApprovalsStutter DEF vars, tables
  <2>4. QED
    BY <2>1, <2>2, <2>3, DraftsAsk, DecisionsChange DEF Next, Enforcement!Next
<1>3. QED
  BY <1>1, <1>2, GovernanceInvariant, PTL DEF Spec, ImplementsEnforcement, Enforcement!Spec, Abstract
=============================================================================
