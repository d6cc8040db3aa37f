------------------------ MODULE GatePolicyGovernance ------------------------
(***************************************************************************)
(* One gate policy of a project: its versions from draft to publication,   *)
(* the approvals that govern them, and the bindings that say from when to  *)
(* when a version is enforced.                                             *)
(*                                                                         *)
(* Approvals are decided in two ways.  The approvals API locks the         *)
(* approval, reads it and applies what was approved in one transaction.    *)
(* decide_review locks policy and version, reads the approval without its  *)
(* lock, and only then calls the approval service, which finds the object  *)
(* already loaded and does not read it again.                              *)
(*                                                                         *)
(* An action is a transaction, or the part of one between two places where *)
(* it can wait for another; who holds which lock follows from where each   *)
(* session is.  Transactions are READ COMMITTED.  The clock advances when  *)
(* a change of the enforced version takes its time stamp.                  *)
(***************************************************************************)
EXTENDS Integers, FiniteSets, Sequences

CONSTANTS
  Drafts,        \* version ids drafts are created under
  Candidates,    \* version ids given to frozen candidates
  Published,     \* versions published before the model starts
  Contents,      \* policy documents, up to their hash
  Executions,    \* executions whose gate resolves the policy
  Sessions,      \* requests that decide approvals
  None,          \* no content, no source, not created
  MaxApprovals,  \* bound: approvals requested
  MaxTime,       \* bound: time stamps taken
  MaxBlocks      \* bound: guardrail blocks when an approval is applied

Versions == Drafts \cup Candidates \cup Published

ASSUME GovernanceAssumption ==
  /\ Drafts \cap Candidates = {} /\ Published \cap (Drafts \cup Candidates) = {}
  /\ Contents # {} /\ None \notin Contents \cup Drafts \cup Nat
  /\ MaxApprovals \in Nat /\ MaxTime \in Nat /\ MaxBlocks \in Nat

VARIABLES
  version,    \* per version id: its GatePolicyVersion row
  approvals,  \* Approval rows in the order of their creation
  bindings,   \* GatePolicyBinding rows in enforce mode, in the order of their creation
  now,        \* the clock
  created,    \* per execution: created_at
  pc,         \* per session: where it waits
  task,       \* per session: the approval it decides
  stamp,      \* per session: effective time of the change it makes
  blocks

sessions == <<pc, task, stamp>>
tables   == <<version, approvals, bindings>>
vars     == <<tables, sessions, now, created, blocks>>

NoTask == 0
Forever == 0

-----------------------------------------------------------------------------
(* Rows. *)

Absent ==
  [status |-> "absent", content |-> None, validated |-> FALSE,
   governance |-> "none", approval |-> NoTask, source |-> None]

\* A version somebody froze earlier from an approved draft.
Frozen(c, d) ==
  [status |-> "active", content |-> c, validated |-> TRUE,
   governance |-> "review_approved", approval |-> NoTask, source |-> d]

Binding(v, t, a, previous) ==
  [version |-> v, from |-> t, until |-> Forever, approval |-> a, previous |-> previous]

Pending(a) == approvals[a].status = "pending"
OfVersion(a) == approvals[a].kind \in {"review", "lifecycle"}

\* LIFECYCLE_TRANSITIONS
Transitions(status) ==
  CASE status = "draft"      -> {"archived"}
    [] status = "active"     -> {"disabled", "deprecated"}
    [] status = "disabled"   -> {"deprecated", "archived"}
    [] status = "deprecated" -> {"archived"}
    [] OTHER                 -> {}

\* mutated: a lifecycle change under way does not count.
InReviewOfContent(v) ==
  version[v].approval # NoTask /\ Pending(version[v].approval) /\ approvals[version[v].approval].kind = "review"

\* _effective_governance_status is pending: read from the current approval where there is one.
InReview(v) ==
  IF version[v].approval # NoTask THEN Pending(version[v].approval)
  ELSE version[v].governance \in {"review_pending", "transition_pending"}

Effective(b, t) == b.from <= t /\ (b.until = Forever \/ t < b.until)

\* _current_binding; more than one is an error its callers stop at.
Current(b) ==
  LET live == {i \in DOMAIN bindings : Effective(bindings[i], now)}
  IN  live = (IF b = 0 THEN {} ELSE {b})

\* A request that had to wait for a change still sees the binding it replaced.
Seen(b) ==
  \/ Current(b)
  \/ Len(bindings) > 0 /\ b # 0 /\ b = bindings[Len(bindings)].previous

-----------------------------------------------------------------------------
(* Locks. *)

PolicyFree == \A s \in Sessions : pc[s] \notin {"approving", "rejecting"}

\* mutated: a change locks no version.
VersionNotLocked(v) ==
  \A s \in Sessions :
    pc[s] \in {"approving", "rejecting"} => approvals[task[s]].version # v

VersionFree(v) ==
  \A s \in Sessions :
    pc[s] \in {"approving", "rejecting", "stamped"} => approvals[task[s]].version # v

\* mutated: a decision is made without the lock of the approval.
DecisionNotLocked(a) == TRUE

DecisionFree(a) == \A s \in Sessions : pc[s] \in {"deciding", "stamped"} => task[s] # a

EnforceFree == \A s \in Sessions : pc[s] # "stamped"

-----------------------------------------------------------------------------
Init ==
  /\ version \in [Versions -> {Absent} \cup {Frozen(c, None) : c \in Contents}]
  /\ \A v \in Versions : v \in Published <=> version[v] # Absent
  /\ approvals = <<>>
  /\ bindings \in {<<>>} \cup {<<Binding(v, 0, NoTask, 0)>> : v \in Published}
  /\ now = 0
  /\ created = [e \in Executions |-> None]
  /\ pc = [s \in Sessions |-> "idle"]
  /\ task = [s \in Sessions |-> NoTask]
  /\ stamp = [s \in Sessions |-> 0]
  /\ blocks = 0

Goto(s, point, a, t) ==
  /\ pc' = [pc EXCEPT ![s] = point]
  /\ task' = [task EXCEPT ![s] = a]
  /\ stamp' = [stamp EXCEPT ![s] = t]

Leave(s) == Goto(s, "idle", NoTask, 0)

-----------------------------------------------------------------------------
(* Drafts. *)

CreateDraft(v, c) ==
  /\ version[v].status = "absent"
  /\ version' = [version EXCEPT ![v] = [Absent EXCEPT !.status = "draft", !.content = c, !.governance = "draft"]]
  /\ UNCHANGED <<approvals, bindings, sessions, now, created, blocks>>

Draft(v) == version[v].status = "draft" /\ PolicyFree /\ VersionFree(v)

\* mutated: an edit leaves the review of the draft as it was.
EditedKeepsReview(v, c) == [version[v] EXCEPT !.content = c, !.validated = FALSE]

\* Another content has yet to be validated and reviewed.
Edited(v, c) ==
  [version[v] EXCEPT !.content = c, !.validated = FALSE, !.governance = "draft", !.approval = NoTask]

UpdateDraft(v, c) ==
  /\ Draft(v) /\ ~InReview(v) /\ c # version[v].content
  /\ version' = [version EXCEPT ![v] = Edited(v, c)]
  /\ UNCHANGED <<approvals, bindings, sessions, now, created, blocks>>

ValidateDraft(v) ==
  /\ Draft(v) /\ ~InReview(v)
  /\ \E valid \in BOOLEAN : version' = [version EXCEPT ![v].validated = valid]
  /\ UNCHANGED <<approvals, bindings, sessions, now, created, blocks>>

\* _get_or_create_pending_approval: a pending approval of the version is the
\* answer to the same request again and refuses any other.
Request(kind, v, target, a) ==
  LET row == [kind |-> kind, version |-> v, content |-> version[v].content,
              target |-> target, expected |-> 0, status |-> "pending"]
      waiting == {b \in DOMAIN approvals :
                    Pending(b) /\ approvals[b].kind = kind /\ approvals[b].version = v}
  IN  \/ /\ waiting = {} /\ a = Len(approvals) + 1 /\ a <= MaxApprovals
         /\ approvals' = Append(approvals, row)
      \/ /\ a \in waiting /\ approvals[a] = row
         /\ UNCHANGED approvals

SubmitReview(v) ==
  /\ Draft(v) /\ version[v].validated /\ ~InReview(v)
  /\ \E a \in 1 .. MaxApprovals :
       /\ Request("review", v, "none", a)
       /\ version' = [version EXCEPT ![v].governance = "review_pending", ![v].approval = a]
  /\ UNCHANGED <<bindings, sessions, now, created, blocks>>

RequestLifecycle(v, target) ==
  /\ PolicyFree /\ VersionFree(v)
  /\ target \in Transitions(version[v].status) /\ ~InReview(v)
  /\ \E a \in 1 .. MaxApprovals :
       /\ Request("lifecycle", v, target, a)
       /\ version' = [version EXCEPT ![v].governance = "transition_pending", ![v].approval = a]
  /\ UNCHANGED <<bindings, sessions, now, created, blocks>>

\* A simulation of an approved draft freezes it into a version of its own,
\* unless an active one was frozen from it before.
Freeze(v, c) ==
  /\ Draft(v) /\ version[v].validated /\ version[v].governance = "review_approved"
  /\ \A u \in Versions : ~(version[u].status = "active" /\ version[u].source = v)
  /\ version[c].status = "absent"
  /\ version' = [version EXCEPT ![c] = Frozen(version[v].content, v)]
  /\ UNCHANGED <<approvals, bindings, sessions, now, created, blocks>>

-----------------------------------------------------------------------------
(* Requests to enforce another version. *)

PreviouslyEnforced(v) == \E b \in DOMAIN bindings : bindings[b].version = v

RequestChange(kind, v, b) ==
  /\ Len(approvals) < MaxApprovals
  /\ approvals' = Append(approvals,
       [kind |-> kind, version |-> v, content |-> version[v].content,
        target |-> "none", expected |-> b, status |-> "pending"])
  /\ UNCHANGED <<version, bindings, sessions, now, created, blocks>>

\* The lock of the current binding is waited for; without a binding there is none.
BindingFree == EnforceFree \/ bindings = <<>>

\* The version has a complete simulation.
RequestActivation(v) ==
  /\ PolicyFree /\ VersionFree(v) /\ BindingFree /\ version[v].status # "absent"
  /\ \E b \in 0 .. Len(bindings) : Seen(b) /\ RequestChange("activation", v, b)

RequestRollback(v) ==
  /\ PolicyFree /\ VersionFree(v) /\ BindingFree
  /\ version[v].status \notin {"absent", "archived"}
  /\ PreviouslyEnforced(v)
  /\ \E b \in DOMAIN bindings :
       Seen(b) /\ bindings[b].version # v /\ RequestChange("rollback", v, b)

-----------------------------------------------------------------------------
(* What an approval does. *)

\* _approved_target, execute_approved_review and execute_approved_lifecycle.
VersionChecks(a) ==
  LET v == approvals[a].version IN
    /\ version[v].approval = a /\ version[v].content = approvals[a].content
    /\ approvals[a].kind = "review" => version[v].status = "draft" /\ version[v].validated
    /\ approvals[a].kind = "lifecycle" => approvals[a].target \in Transitions(version[v].status)

Granted(a) ==
  LET v == approvals[a].version IN
    IF approvals[a].kind = "review"
    THEN [version EXCEPT ![v].governance = "review_approved"]
    ELSE [version EXCEPT ![v].governance = "transition_applied", ![v].status = approvals[a].target]

\* mutated: the binding expected by the request is not compared.
ChangeOfAnyBinding(a) == version[approvals[a].version].status = "active"

\* _execute_approved_change
ChangeChecks(a) ==
  LET v == approvals[a].version IN
    /\ version[v].status = "active" /\ version[v].content = approvals[a].content
    /\ approvals[a].kind = "rollback" => PreviouslyEnforced(v)
    /\ Current(approvals[a].expected)

Decided(a, status) == approvals' = [approvals EXCEPT ![a].status = status]

\* The decision is kept and its effect is not: a guardrail that blocks commits
\* what the transaction has written so far.
Blocked(s) ==
  /\ blocks < MaxBlocks /\ blocks' = blocks + 1
  /\ Decided(task[s], "approved")
  /\ UNCHANGED <<version, bindings, now, created>>

Grant(s) ==
  /\ Decided(task[s], "approved")
  /\ version' = Granted(task[s])
  /\ UNCHANGED <<bindings, now, created, blocks>>

\* The transaction is rolled back.
Refuse == UNCHANGED <<tables, now, created, blocks>>

-----------------------------------------------------------------------------
(* Decisions by the approvals API. *)

\* reject and cancel, in one transaction.
Decide(a, status) ==
  /\ Pending(a) /\ DecisionFree(a)
  /\ Decided(a, status)
  /\ UNCHANGED <<version, bindings, sessions, now, created, blocks>>

\* approve, as far as its locks on the approval.
BeginApprove(s, a) ==
  /\ pc[s] = "idle" /\ Pending(a) /\ DecisionFree(a)
  /\ Goto(s, "deciding", a, 0)
  /\ UNCHANGED <<tables, now, created, blocks>>

\* approve of a review or a lifecycle change, which waits for policy and version.
ApproveVersion(s) ==
  /\ pc[s] = "deciding" /\ OfVersion(task[s])
  /\ PolicyFree /\ VersionFree(approvals[task[s]].version)
  /\ IF VersionChecks(task[s]) THEN Grant(s) \/ Blocked(s) ELSE Refuse
  /\ Leave(s)

\* approve of an activation or a rollback, as far as its time stamp.
ApproveChange(s) ==
  /\ pc[s] = "deciding" /\ ~OfVersion(task[s])
  /\ EnforceFree /\ VersionFree(approvals[task[s]].version)
  /\ IF ~ChangeChecks(task[s]) THEN Refuse /\ Leave(s)
     ELSE \/ Blocked(s) /\ Leave(s)
          \/ /\ now < MaxTime /\ now' = now + 1
             /\ Goto(s, "stamped", task[s], now + 1)
             /\ UNCHANGED <<tables, created, blocks>>

\* mutated: the superseded binding is taken out of force altogether.
SupersededWithdrawn(b, t) == [bindings[b] EXCEPT !.until = bindings[b].from]

\* mutated: the superseded binding stays open.
SupersededLeftOpen(b, t) == bindings[b]

\* The superseded binding keeps its window, which ends here.
Superseded(b, t) == [bindings[b] EXCEPT !.until = t]

\* ... and its commit.
Switch(s) ==
  /\ pc[s] = "stamped"
  /\ LET a == task[s]
         b == approvals[a].expected
     IN  /\ bindings' = Append([i \in DOMAIN bindings |-> IF i = b THEN Superseded(i, stamp[s]) ELSE bindings[i]],
                               Binding(approvals[a].version, stamp[s], a, b))
         /\ Decided(a, "approved")
  /\ Leave(s)
  /\ UNCHANGED <<version, now, created, blocks>>

-----------------------------------------------------------------------------
(* Decisions by decide_review. *)

\* The approval is read as pending under the locks of policy and version.
BeginReview(s, a, point) ==
  /\ pc[s] = "idle" /\ OfVersion(a) /\ Pending(a)
  /\ PolicyFree /\ VersionFree(approvals[a].version)
  /\ version[approvals[a].version].approval = a
  /\ Goto(s, point, a, 0)
  /\ UNCHANGED <<tables, now, created, blocks>>

\* approve, with the approval as it was read: it counts as pending.
ReviewApprove(s) ==
  /\ pc[s] = "approving" /\ DecisionFree(task[s])
  /\ IF VersionChecks(task[s]) THEN Grant(s) \/ Blocked(s) ELSE Refuse
  /\ Leave(s)

\* reject commits on its own and gives up the locks.
ReviewReject(s) ==
  /\ pc[s] = "rejecting" /\ DecisionFree(task[s])
  /\ Decided(task[s], "rejected")
  /\ Goto(s, "recording", task[s], 0)
  /\ UNCHANGED <<version, bindings, now, created, blocks>>

\* mutated: both kinds of rejection are recorded as the approval's status.
RejectedPlain(a) == "rejected"

RejectedAs(a) == IF approvals[a].kind = "review" THEN "review_rejected" ELSE "transition_rejected"

\* The version is marked in a second transaction.
RecordRejection(s) ==
  /\ pc[s] = "recording" /\ VersionFree(approvals[task[s]].version)
  /\ version' = [version EXCEPT ![approvals[task[s]].version].governance = RejectedAs(task[s])]
  /\ Leave(s)
  /\ UNCHANGED <<approvals, bindings, now, created, blocks>>

\* The process dies, the client goes away, or PostgreSQL ends a deadlock.
Abort(s) ==
  /\ pc[s] # "idle"
  /\ Leave(s)
  /\ UNCHANGED <<tables, now, created, blocks>>

-----------------------------------------------------------------------------
CreateExecution(e) ==
  /\ created[e] = None
  /\ created' = [created EXCEPT ![e] = now]
  /\ UNCHANGED <<tables, sessions, now, blocks>>

DraftStep ==
  \/ \E v \in Drafts :
       \/ \E c \in Contents : CreateDraft(v, c) \/ UpdateDraft(v, c)
       \/ ValidateDraft(v) \/ SubmitReview(v)
       \/ \E c \in Candidates : Freeze(v, c)
  \/ \E v \in Versions, target \in {"archived", "disabled", "deprecated"} : RequestLifecycle(v, target)
  \/ \E v \in Candidates \cup Published : RequestActivation(v) \/ RequestRollback(v)

DecisionStep ==
  \/ \E a \in DOMAIN approvals :
       \/ \E status \in {"rejected", "cancelled"} : Decide(a, status)
       \/ \E s \in Sessions :
            BeginApprove(s, a) \/ BeginReview(s, a, "approving") \/ BeginReview(s, a, "rejecting")
  \/ \E s \in Sessions :
       \/ ApproveVersion(s) \/ ApproveChange(s) \/ Switch(s)
       \/ ReviewApprove(s) \/ ReviewReject(s) \/ RecordRejection(s) \/ Abort(s)

Next == DraftStep \/ DecisionStep \/ \E e \in Executions : CreateExecution(e)

Spec == Init /\ [][Next]_vars

-----------------------------------------------------------------------------
(* Properties. *)

Statuses == {"draft", "active", "disabled", "deprecated", "archived"}

Governances == {"none", "draft", "review_pending", "review_approved", "review_rejected",
                "transition_pending", "transition_applied", "transition_rejected"}

VersionRow ==
  [status : Statuses \cup {"absent"}, content : Contents \cup {None}, validated : BOOLEAN,
   governance : Governances, approval : Nat, source : Drafts \cup {None}]

ApprovalRow ==
  [kind : {"review", "lifecycle", "activation", "rollback"}, version : Versions,
   content : Contents \cup {None}, target : Statuses \cup {"none"}, expected : Nat,
   status : {"pending", "approved", "rejected", "cancelled"}]

BindingRow == [version : Versions, from : Nat, until : Nat, approval : Nat, previous : Nat]

\* Every row, session and time stamp is in its domain; a status recorded on a
\* version is one the projections know.
TypeOK ==
  /\ version \in [Versions -> VersionRow]
  /\ approvals \in Seq(ApprovalRow) /\ bindings \in Seq(BindingRow)
  /\ now \in Nat /\ created \in [Executions -> Nat \cup {None}] /\ blocks \in Nat
  /\ pc \in [Sessions -> {"idle", "deciding", "stamped", "approving", "rejecting", "recording"}]
  /\ task \in [Sessions -> Nat] /\ stamp \in [Sessions -> Nat]

\* From the first binding on, exactly one is effective at every time up to the
\* present: the resolver finds neither a conflict nor a gap, however changes race.
OneEnforced ==
  \A t \in 0 .. now :
    /\ \A i, j \in DOMAIN bindings :
         Effective(bindings[i], t) /\ Effective(bindings[j], t) => i = j
    /\ (\E i \in DOMAIN bindings : bindings[i].from <= t)
         => \E i \in DOMAIN bindings : Effective(bindings[i], t)

\* Every change of the enforced version was approved, by an approval used for
\* nothing else, which named the binding that was in force until the change.
ChangesApproved ==
  \A b \in DOMAIN bindings :
    bindings[b].approval # NoTask =>
      LET a == bindings[b].approval IN
        /\ a \in DOMAIN approvals
        /\ approvals[a].status = "approved" /\ approvals[a].version = bindings[b].version
        /\ approvals[a].kind \in {"activation", "rollback"}
        /\ approvals[a].expected = b - 1
        /\ \A c \in DOMAIN bindings \ {b} : bindings[c].approval # a

\* A pending review or lifecycle approval is the current one of its version and
\* names the content the version has: what is approved is what was submitted.
PendingIsCurrent ==
  \A a \in DOMAIN approvals :
    Pending(a) /\ OfVersion(a) =>
      LET v == approvals[a].version IN
        version[v].approval = a /\ version[v].content = approvals[a].content

\* Nothing is published but what a reviewer approved of the draft it came from.
PublishedReviewed ==
  \A v \in Candidates :
    version[v].status # "absent" =>
      \E a \in DOMAIN approvals :
        /\ approvals[a].kind = "review" /\ approvals[a].status = "approved"
        /\ approvals[a].version = version[v].source /\ approvals[a].content = version[v].content

\* A version is active when it comes into force, whatever lifecycle change of
\* it was approved between the check and the commit.
BoundVersionActive ==
  [][Len(bindings') > Len(bindings) =>
       version'[bindings'[Len(bindings')].version].status = "active"]_vars

Resolved(e) == {i \in DOMAIN bindings : Effective(bindings[i], created[e])}

\* A change applies to executions created at its time stamp or later: the
\* binding an earlier execution resolves to stays the same for good.
StableResolution ==
  [][\A e \in Executions :
       created[e] # None /\ Resolved(e)' # Resolved(e) =>
         created[e] >= bindings'[Len(bindings')].from]_vars

\* A decision, once made, is not made again: reject, cancel and approve refuse
\* an approval that is not pending.
DecisionIsFinal ==
  [][\A a \in DOMAIN approvals :
       ~Pending(a) => approvals'[a].status = approvals[a].status]_vars

\* What does hold: a decision is overturned by no one but a decide_review that
\* read the approval earlier, and only where it was a rejection or a cancellation
\* of a version's approval.  What was granted stays granted, and a decision on a
\* change of the enforced version is final.
DecisionStands ==
  [][\A a \in DOMAIN approvals :
       ~Pending(a) /\ approvals'[a].status # approvals[a].status =>
         /\ OfVersion(a) /\ approvals[a].status # "approved"
         /\ \E s \in Sessions : pc[s] \in {"approving", "rejecting"} /\ task[s] = a]_vars

-----------------------------------------------------------------------------
(* The changes of the enforced version implement EnforcedVersion. *)

InForce ==
  [t \in 0 .. MaxTime |->
     {<<b, bindings[b].version>> : b \in {c \in DOMAIN bindings : Effective(bindings[c], t)}}]

ChangesAsked   == {a \in DOMAIN approvals : ~OfVersion(a)}
ChangesWaiting ==
  {[id |-> a, version |-> approvals[a].version, expected |-> approvals[a].expected] :
     a \in {c \in ChangesAsked : Pending(c)}}

Enforcement ==
  INSTANCE EnforcedVersion
    WITH Times <- 0 .. MaxTime, Ids <- 1 .. MaxApprovals, clock <- now, changes <- Len(bindings),
         inForce <- InForce, asked <- ChangesAsked, requests <- ChangesWaiting

\* However requests, decisions, aborted transactions and lifecycle changes
\* interleave, the bindings are a register that is changed by comparison with
\* what the request saw, and that keeps its past.
ImplementsEnforcement == Enforcement!Spec

-----------------------------------------------------------------------------
(* The inductive invariant. *)

\* A session decides an approval that exists.  Under the approval's own lock it
\* stays pending; under the locks of policy and version nobody approves it.
SessionTasks ==
  \A s \in Sessions :
    /\ pc[s] # "idle" => task[s] \in DOMAIN approvals
    /\ pc[s] \in {"deciding", "stamped"} => Pending(task[s])
    /\ pc[s] \in {"approving", "rejecting", "recording"} => OfVersion(task[s])
    /\ pc[s] \in {"approving", "rejecting"} => approvals[task[s]].status # "approved"

\* No two sessions hold the same lock.
LocksExclusive ==
  \A s, r \in Sessions : s # r =>
    /\ pc[s] \in {"deciding", "stamped"} /\ pc[r] \in {"deciding", "stamped"} => task[s] # task[r]
    /\ ~(pc[s] = "stamped" /\ pc[r] = "stamped")
    /\ ~(pc[s] \in {"approving", "rejecting"} /\ pc[r] \in {"approving", "rejecting"})
    /\ pc[s] \in {"approving", "rejecting"} /\ pc[r] = "stamped" =>
         approvals[task[s]].version # approvals[task[r]].version

\* A change that has its time stamp still finds what it checked.
StampedChange ==
  \A s \in Sessions : pc[s] = "stamped" =>
    /\ ~OfVersion(task[s]) /\ version[approvals[task[s]].version].status = "active"
    /\ approvals[task[s]].expected = Len(bindings)
    /\ stamp[s] = now /\ now > 0
    /\ \A b \in DOMAIN bindings : bindings[b].from < now

\* The windows of the bindings follow each other, and the last one is open.
Windows ==
  /\ \A b \in DOMAIN bindings : bindings[b].from <= now
  /\ \A b, c \in DOMAIN bindings : b < c =>
       bindings[b].until # Forever /\ bindings[b].until <= bindings[c].from
  /\ Len(bindings) > 0 => bindings[Len(bindings)].until = Forever

Covered ==
  \A t \in 0 .. MaxTime :
    (\E i \in DOMAIN bindings : bindings[i].from <= t)
      => \E i \in DOMAIN bindings : Effective(bindings[i], t)

\* A draft stored as approved was approved with the content it has.
DraftsReviewed ==
  \A v \in Versions :
    /\ version[v].status = "absent" => version[v].approval = NoTask
    /\ version[v].status = "draft" /\ version[v].governance = "review_approved" =>
         \E a \in DOMAIN approvals :
           /\ approvals[a].kind = "review" /\ approvals[a].status = "approved"
           /\ approvals[a].version = v /\ approvals[a].content = version[v].content

GovernanceInv ==
  /\ TypeOK /\ now <= MaxTime
  /\ SessionTasks /\ LocksExclusive /\ StampedChange
  /\ Windows /\ Covered
  /\ ChangesApproved /\ PendingIsCurrent /\ DraftsReviewed /\ PublishedReviewed
=============================================================================
