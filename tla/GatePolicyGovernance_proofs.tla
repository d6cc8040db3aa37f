-------------------- MODULE GatePolicyGovernance_proofs --------------------
(***************************************************************************)
(* Proofs about GatePolicyGovernance for every number of drafts, versions, *)
(* executions, sessions and approvals.                                     *)
(***************************************************************************)
EXTENDS GatePolicyGovernance, TLAPS

-----------------------------------------------------------------------------
(* Rows. *)

\* Two approvals that differ in their status at most.
SameRequest(p, q) ==
  /\ p.kind = q.kind /\ p.version = q.version /\ p.content = q.content
  /\ p.target = q.target /\ p.expected = q.expected

\* A decision changes the status of one approval.
LEMMA DecidedRows ==
  ASSUME TypeOK, NEW a \in DOMAIN approvals,
         NEW st \in {"approved", "rejected", "cancelled"}, Decided(a, st)
  PROVE  /\ approvals' \in Seq(ApprovalRow) /\ DOMAIN approvals' = DOMAIN approvals
         /\ \A b \in DOMAIN approvals :
              /\ SameRequest(approvals'[b], approvals[b])
              /\ approvals'[b].status = IF b = a THEN st ELSE approvals[b].status
<1>1. approvals \in Seq(ApprovalRow)
  BY DEF TypeOK
<1>2. [approvals[a] EXCEPT !.status = st] \in ApprovalRow
  <2>1. approvals[a] \in ApprovalRow
    BY <1>1
  <2>2. QED
    BY <2>1, Zenon DEF ApprovalRow
<1>3. approvals' = [approvals EXCEPT ![a] = [approvals[a] EXCEPT !.status = st]]
  BY DEF Decided
<1>4. approvals' \in Seq(ApprovalRow) /\ DOMAIN approvals' = DOMAIN approvals
  BY <1>1, <1>2, <1>3
<1>5. ASSUME NEW b \in DOMAIN approvals
      PROVE  /\ SameRequest(approvals'[b], approvals[b])
             /\ approvals'[b].status = IF b = a THEN st ELSE approvals[b].status
  <2>1. approvals[b] \in ApprovalRow
    BY <1>1
  <2>2. CASE b = a
    BY <1>1, <1>3, <2>1, <2>2 DEF SameRequest, ApprovalRow
  <2>3. CASE b # a
    BY <1>1, <1>3, <2>3 DEF SameRequest
  <2>4. QED
    BY <2>2, <2>3
<1>6. QED
  BY <1>4, <1>5

\* A request adds a pending approval at the end.
LEMMA RequestedRows ==
  ASSUME TypeOK, NEW row \in ApprovalRow, approvals' = Append(approvals, row)
  PROVE  /\ approvals' \in Seq(ApprovalRow)
         /\ DOMAIN approvals' = DOMAIN approvals \cup {Len(approvals) + 1}
         /\ Len(approvals) + 1 \notin DOMAIN approvals /\ Len(approvals) + 1 \in Nat
         /\ \A b \in DOMAIN approvals : approvals'[b] = approvals[b]
         /\ approvals'[Len(approvals) + 1] = row
<1>1. approvals \in Seq(ApprovalRow)
  BY DEF TypeOK
<1>2. QED
  BY <1>1

\* A version is in the domain of its table and its row has every field.
LEMMA VersionRows ==
  ASSUME TypeOK, NEW v \in Versions
  PROVE  /\ version[v] \in VersionRow
         /\ version[v].status \in Statuses \cup {"absent"} /\ version[v].content \in Contents \cup {None}
         /\ version[v].governance \in Governances /\ version[v].approval \in Nat
         /\ version[v].source \in Drafts \cup {None} /\ version[v].validated \in BOOLEAN
<1>1. version[v] \in VersionRow
  BY DEF TypeOK
<1>2. QED
  BY <1>1 DEF VersionRow

\* One version's row is replaced by another.
LEMMA VersionUpdate ==
  ASSUME TypeOK, NEW v \in Versions, NEW row \in VersionRow, version' = [version EXCEPT ![v] = row]
  PROVE  /\ version' \in [Versions -> VersionRow] /\ version'[v] = row
         /\ \A u \in Versions : u # v => version'[u] = version[u]
  BY DEF TypeOK

LEMMA ApprovalFields ==
  ASSUME TypeOK, NEW a \in DOMAIN approvals
  PROVE  /\ a \in Nat /\ a >= 1 /\ a <= Len(approvals) /\ approvals[a] \in ApprovalRow
         /\ approvals[a].version \in Versions /\ approvals[a].expected \in Nat
         /\ approvals[a].content \in Contents \cup {None}
         /\ approvals[a].kind \in {"review", "lifecycle", "activation", "rollback"}
         /\ approvals[a].status \in {"pending", "approved", "rejected", "cancelled"}
<1>1. approvals \in Seq(ApprovalRow)
  BY DEF TypeOK
<1>2. approvals[a] \in ApprovalRow /\ a \in Nat /\ a >= 1 /\ a <= Len(approvals)
  BY <1>1
<1>3. QED
  BY <1>2 DEF ApprovalRow

LEMMA BindingFields ==
  ASSUME TypeOK
  PROVE  /\ Len(bindings) \in Nat /\ DOMAIN bindings = 1 .. Len(bindings)
         /\ \A b \in DOMAIN bindings :
              /\ bindings[b] \in BindingRow
              /\ bindings[b].version \in Versions /\ bindings[b].from \in Nat /\ bindings[b].until \in Nat
              /\ bindings[b].approval \in Nat /\ bindings[b].previous \in Nat
<1>1. bindings \in Seq(BindingRow)
  BY DEF TypeOK
<1>2. Len(bindings) \in Nat /\ DOMAIN bindings = 1 .. Len(bindings)
  BY <1>1
<1>3. \A b \in DOMAIN bindings : bindings[b] \in BindingRow
  BY <1>1
<1>4. QED
  BY <1>2, <1>3 DEF BindingRow

LEMMA SessionMove ==
  ASSUME TypeOK, NEW s \in Sessions, NEW a \in Nat, NEW t \in Nat,
         NEW point \in {"idle", "deciding", "stamped", "approving", "rejecting", "recording"},
         Goto(s, point, a, t)
  PROVE  /\ pc' \in [Sessions -> {"idle", "deciding", "stamped", "approving", "rejecting", "recording"}]
         /\ task' \in [Sessions -> Nat] /\ stamp' \in [Sessions -> Nat]
         /\ pc'[s] = point /\ task'[s] = a /\ stamp'[s] = t
         /\ \A r \in Sessions : r # s => pc'[r] = pc[r] /\ task'[r] = task[r] /\ stamp'[r] = stamp[r]
  BY DEF TypeOK, Goto

LEMMA SessionLeaves ==
  ASSUME TypeOK, NEW s \in Sessions, Leave(s)
  PROVE  /\ pc' \in [Sessions -> {"idle", "deciding", "stamped", "approving", "rejecting", "recording"}]
         /\ task' \in [Sessions -> Nat] /\ stamp' \in [Sessions -> Nat]
         /\ pc'[s] = "idle"
         /\ \A r \in Sessions : r # s => pc'[r] = pc[r] /\ task'[r] = task[r] /\ stamp'[r] = stamp[r]
<1>1. Goto(s, "idle", NoTask, 0)
  BY DEF Leave
<1>2. NoTask \in Nat
  BY DEF NoTask
<1>3. QED
  BY <1>1, <1>2, SessionMove

-----------------------------------------------------------------------------
(* What the parts of the invariant need of a step. *)

\* Requests are never altered, and an approval stays approved.
Kept ==
  \A b \in DOMAIN approvals :
    /\ b \in DOMAIN approvals' /\ SameRequest(approvals'[b], approvals[b])
    /\ approvals[b].status = "approved" => approvals'[b].status = "approved"

\* A session stays where it is, leaves, or has rejected what it decides.
Released ==
  \A s \in Sessions :
    \/ pc'[s] = "idle"
    \/ pc'[s] = pc[s] /\ task'[s] = task[s] /\ stamp'[s] = stamp[s]
    \/ pc[s] = "rejecting" /\ pc'[s] = "recording" /\ task'[s] = task[s]

\* No approval is decided over the head of the session that holds it.
DecidedByHolder ==
  \A b \in DOMAIN approvals : approvals'[b].status # approvals[b].status =>
    \A s \in Sessions : task'[s] = b =>
      /\ pc'[s] \notin {"deciding", "stamped"}
      /\ approvals'[b].status = "approved" => pc'[s] \notin {"approving", "rejecting"}

LEMMA SessionsPreserved ==
  ASSUME SessionTasks, LocksExclusive, Kept, Released, DecidedByHolder
  PROVE  SessionTasks' /\ LocksExclusive'
<1>1. ASSUME NEW s \in Sessions
      PROVE  /\ pc'[s] # "idle" => task'[s] \in DOMAIN approvals'
             /\ pc'[s] \in {"deciding", "stamped"} => Pending(task[s])' /\ task'[s] = task[s]
             /\ pc'[s] \in {"approving", "rejecting", "recording"} => OfVersion(task[s])' /\ task'[s] = task[s]
             /\ pc'[s] \in {"approving", "rejecting"} => approvals'[task'[s]].status # "approved"
  <2>1. CASE pc'[s] = "idle"
    BY <2>1
  <2>2. CASE pc'[s] # "idle"
    <3>1. /\ task'[s] = task[s] /\ pc[s] # "idle" /\ task[s] \in DOMAIN approvals
          /\ pc'[s] = pc[s] \/ (pc[s] = "rejecting" /\ pc'[s] = "recording")
      BY <2>2 DEF Released, SessionTasks
    <3>2. /\ task[s] \in DOMAIN approvals' /\ approvals'[task[s]].kind = approvals[task[s]].kind
      BY <3>1 DEF Kept, SameRequest
    <3>3. pc'[s] \in {"deciding", "stamped"} => approvals'[task[s]].status = "pending"
      BY <3>1 DEF DecidedByHolder, SessionTasks, Pending
    <3>4. pc'[s] \in {"approving", "rejecting"} => approvals'[task[s]].status # "approved"
      BY <3>1 DEF DecidedByHolder, SessionTasks
    <3>5. pc'[s] \in {"approving", "rejecting", "recording"} => approvals'[task[s]].kind \in {"review", "lifecycle"}
      BY <3>1, <3>2 DEF SessionTasks, OfVersion
    <3>6. QED
      BY <3>1, <3>2, <3>3, <3>4, <3>5 DEF Pending, OfVersion
  <2>3. QED
    BY <2>1, <2>2
<1>2. SessionTasks'
  BY <1>1 DEF SessionTasks, Pending, OfVersion
<1>3. ASSUME NEW s \in Sessions
      PROVE  /\ pc'[s] \in {"deciding", "stamped", "approving", "rejecting"} =>
                  /\ pc'[s] = pc[s] /\ task'[s] = task[s] /\ task[s] \in DOMAIN approvals
                  /\ approvals'[task[s]].version = approvals[task[s]].version
  BY DEF Released, SessionTasks, Kept, SameRequest
<1>4. ASSUME NEW s \in Sessions, NEW r \in Sessions, s # r
      PROVE  /\ pc'[s] \in {"deciding", "stamped"} /\ pc'[r] \in {"deciding", "stamped"} => task'[s] # task'[r]
             /\ ~(pc'[s] = "stamped" /\ pc'[r] = "stamped")
             /\ ~(pc'[s] \in {"approving", "rejecting"} /\ pc'[r] \in {"approving", "rejecting"})
             /\ pc'[s] \in {"approving", "rejecting"} /\ pc'[r] = "stamped" =>
                  approvals'[task'[s]].version # approvals'[task'[r]].version
  BY <1>3, <1>4 DEF LocksExclusive
<1>5. QED
  BY <1>2, <1>4 DEF LocksExclusive

\* No version that is about to come into force is taken out of use.
StampedUntouched ==
  \A s \in Sessions : pc'[s] = "stamped" =>
    version'[approvals[task[s]].version].status = version[approvals[task[s]].version].status

LEMMA StampedPreserved ==
  ASSUME SessionTasks, StampedChange, Kept, Released, StampedUntouched,
         bindings' = bindings, now' = now
  PROVE  StampedChange'
<1>1. SUFFICES ASSUME NEW s \in Sessions, pc'[s] = "stamped"
               PROVE  /\ ~OfVersion(task[s])' /\ task'[s] = task[s] /\ stamp'[s] = now
                      /\ version'[approvals'[task[s]].version].status = "active"
                      /\ approvals'[task[s]].expected = Len(bindings) /\ now > 0
                      /\ \A b \in DOMAIN bindings : bindings[b].from < now
  BY DEF StampedChange, OfVersion
<1>2. pc[s] = "stamped" /\ task'[s] = task[s] /\ stamp'[s] = stamp[s] /\ task[s] \in DOMAIN approvals
  BY <1>1 DEF Released, SessionTasks
<1>3. /\ approvals'[task[s]].kind = approvals[task[s]].kind
      /\ approvals'[task[s]].version = approvals[task[s]].version
      /\ approvals'[task[s]].expected = approvals[task[s]].expected
  BY <1>2 DEF Kept, SameRequest
<1>4. QED
  BY <1>1, <1>2, <1>3 DEF StampedChange, StampedUntouched, OfVersion

LEMMA BindingsPreserved ==
  ASSUME TypeOK, Windows, Covered, ChangesApproved, Kept,
         bindings' = bindings, now' \in Nat, now <= now'
  PROVE  Windows' /\ Covered' /\ ChangesApproved'
<1>1. Windows'
  <2>1. \A b \in DOMAIN bindings : bindings[b].from \in Nat
    BY BindingFields
  <2>2. \A b \in DOMAIN bindings : bindings[b].from <= now'
    BY <2>1 DEF Windows, TypeOK
  <2>3. QED
    BY <2>2 DEF Windows
<1>2. Covered'
  BY DEF Covered, Effective
<1>3. ChangesApproved'
  BY DEF ChangesApproved, Kept, SameRequest
<1>4. QED
  BY <1>1, <1>2, <1>3

\* No version with a pending approval changes what that approval is about, and a
\* new approval is about its version as it is.
PendingUntouched ==
  /\ \A b \in DOMAIN approvals' : Pending(b)' /\ OfVersion(b)' =>
       \/ b \in DOMAIN approvals /\ Pending(b)
       \/ /\ version'[approvals'[b].version].approval = b
          /\ version'[approvals'[b].version].content = approvals'[b].content
  /\ \A u \in Versions :
       \/ version'[u].approval = version[u].approval /\ version'[u].content = version[u].content
       \/ \A b \in DOMAIN approvals : Pending(b) /\ OfVersion(b) => approvals[b].version # u

LEMMA PendingPreserved ==
  ASSUME TypeOK, PendingIsCurrent, Kept, PendingUntouched
  PROVE  PendingIsCurrent'
<1>1. SUFFICES ASSUME NEW b \in DOMAIN approvals', Pending(b)', OfVersion(b)'
               PROVE  /\ version'[approvals'[b].version].approval = b
                      /\ version'[approvals'[b].version].content = approvals'[b].content
  BY DEF PendingIsCurrent
<1>2. SUFFICES ASSUME b \in DOMAIN approvals, Pending(b)
               PROVE  /\ version'[approvals'[b].version].approval = b
                      /\ version'[approvals'[b].version].content = approvals'[b].content
  BY <1>1 DEF PendingUntouched
<1>3. /\ approvals'[b].kind = approvals[b].kind /\ approvals'[b].version = approvals[b].version
      /\ approvals'[b].content = approvals[b].content
  BY <1>2 DEF Kept, SameRequest
<1>4. OfVersion(b) /\ approvals[b].version \in Versions
  BY <1>1, <1>2, <1>3, ApprovalFields DEF OfVersion
<1>5. /\ version'[approvals[b].version].approval = version[approvals[b].version].approval
      /\ version'[approvals[b].version].content = version[approvals[b].version].content
  BY <1>2, <1>4 DEF PendingUntouched
<1>6. QED
  BY <1>2, <1>3, <1>4, <1>5 DEF PendingIsCurrent

\* What an approved review of version v says of content c.
ReviewedAs(v, c) ==
  \E a \in DOMAIN approvals :
    /\ approvals[a].kind = "review" /\ approvals[a].status = "approved"
    /\ approvals[a].version = v /\ approvals[a].content = c

\* The same after the step.
ReviewedNext(v, c) ==
  \E a \in DOMAIN approvals' :
    /\ approvals'[a].kind = "review" /\ approvals'[a].status = "approved"
    /\ approvals'[a].version = v /\ approvals'[a].content = c

LEMMA ReviewsKept ==
  ASSUME Kept, NEW v, NEW c, ReviewedAs(v, c)
  PROVE  ReviewedNext(v, c)
<1>1. PICK a \in DOMAIN approvals :
        /\ approvals[a].kind = "review" /\ approvals[a].status = "approved"
        /\ approvals[a].version = v /\ approvals[a].content = c
  BY DEF ReviewedAs
<1>2. /\ a \in DOMAIN approvals' /\ approvals'[a].kind = "review" /\ approvals'[a].status = "approved"
      /\ approvals'[a].version = v /\ approvals'[a].content = c
  BY <1>1 DEF Kept, SameRequest
<1>3. QED
  BY <1>2 DEF ReviewedNext

\* A version row is kept, or new and without an approval, or its content was reviewed.
ReviewsUntouched ==
  \A u \in Versions :
    /\ version'[u].status = "absent" => version'[u].approval = NoTask
    /\ version'[u].status = "draft" /\ version'[u].governance = "review_approved" =>
         \/ /\ version[u].status = "draft" /\ version[u].governance = "review_approved"
            /\ version'[u].content = version[u].content
         \/ ReviewedNext(u, version'[u].content)
    /\ u \in Candidates /\ version'[u].status # "absent" =>
         \/ /\ version[u].status # "absent" /\ version'[u].source = version[u].source
            /\ version'[u].content = version[u].content
         \/ ReviewedNext(version'[u].source, version'[u].content)

LEMMA ReviewsPreserved ==
  ASSUME DraftsReviewed, PublishedReviewed, Kept, ReviewsUntouched
  PROVE  DraftsReviewed' /\ PublishedReviewed'
<1>1. ASSUME NEW u \in Versions, version'[u].status = "draft", version'[u].governance = "review_approved"
      PROVE  ReviewedNext(u, version'[u].content)
  <2>1. CASE /\ version[u].status = "draft" /\ version[u].governance = "review_approved"
             /\ version'[u].content = version[u].content
    <3>1. ReviewedAs(u, version[u].content)
      BY <2>1 DEF DraftsReviewed, ReviewedAs
    <3>2. QED
      BY <2>1, <3>1, ReviewsKept
  <2>2. QED
    BY <1>1, <2>1 DEF ReviewsUntouched
<1>2. ASSUME NEW u \in Candidates, version'[u].status # "absent"
      PROVE  ReviewedNext(version'[u].source, version'[u].content)
  <2>1. CASE /\ version[u].status # "absent" /\ version'[u].source = version[u].source
             /\ version'[u].content = version[u].content
    <3>1. ReviewedAs(version[u].source, version[u].content)
      BY <2>1 DEF PublishedReviewed, ReviewedAs
    <3>2. QED
      BY <2>1, <3>1, ReviewsKept
  <2>2. QED
    BY <1>2, <2>1 DEF ReviewsUntouched, Versions
<1>3. DraftsReviewed'
  BY <1>1 DEF DraftsReviewed, ReviewedNext, ReviewsUntouched
<1>4. PublishedReviewed'
  BY <1>2 DEF PublishedReviewed, ReviewedNext
<1>5. QED
  BY <1>3, <1>4

\* A version that is not in review has no pending review or lifecycle approval.
LEMMA NoneInReview ==
  ASSUME TypeOK, PendingIsCurrent, NEW v \in Versions, ~InReview(v)
  PROVE  \A a \in DOMAIN approvals : Pending(a) /\ OfVersion(a) => approvals[a].version # v
<1>1. SUFFICES ASSUME NEW a \in DOMAIN approvals, Pending(a), OfVersion(a), approvals[a].version = v
               PROVE  FALSE
  OBVIOUS
<1>2. version[v].approval = a
  BY <1>1 DEF PendingIsCurrent
<1>3. a # NoTask
  BY ApprovalFields DEF NoTask
<1>4. InReview(v) = Pending(version[v].approval)
  BY <1>2, <1>3, Zenon DEF InReview
<1>5. QED
  BY <1>1, <1>2, <1>4

\* The binding in force is the last one.
LEMMA CurrentIsLast ==
  ASSUME TypeOK, Windows, NEW b \in Nat, Current(b)
  PROVE  b = Len(bindings)
<1>1. Len(bindings) \in Nat /\ DOMAIN bindings = 1 .. Len(bindings)
  BY BindingFields
<1>2. {i \in DOMAIN bindings : Effective(bindings[i], now)} = (IF b = 0 THEN {} ELSE {b})
  BY DEF Current
<1>3. CASE Len(bindings) = 0
  BY <1>1, <1>2, <1>3
<1>4. CASE Len(bindings) > 0
  <2>1. Len(bindings) \in DOMAIN bindings /\ Effective(bindings[Len(bindings)], now)
    BY <1>1, <1>4 DEF Windows, Effective
  <2>2. Len(bindings) \in (IF b = 0 THEN {} ELSE {b})
    BY <1>2, <2>1
  <2>3. QED
    BY <2>2
<1>5. Len(bindings) = 0 \/ Len(bindings) > 0
  <2>1. Len(bindings) \in Nat
    BY <1>1
  <2>2. QED
    BY <2>1
<1>6. QED
  BY <1>3, <1>4, <1>5

\* What an approval of a review or a lifecycle change makes of the version.
LEMMA GrantedRows ==
  ASSUME TypeOK, NEW a \in DOMAIN approvals, OfVersion(a), VersionChecks(a), version' = Granted(a)
  PROVE  /\ version' \in [Versions -> VersionRow]
         /\ \A u \in Versions :
              /\ u # approvals[a].version => version'[u] = version[u]
              /\ version'[u].approval = version[u].approval /\ version'[u].content = version[u].content
              /\ version'[u].source = version[u].source
              /\ version'[u].status = "absent" <=> version[u].status = "absent"
              /\ version'[u].status = "draft" /\ version'[u].governance = "review_approved" =>
                   \/ version'[u] = version[u]
                   \/ approvals[a].kind = "review" /\ u = approvals[a].version
<1>1. /\ approvals[a].version \in Versions /\ approvals[a].kind \in {"review", "lifecycle"}
      /\ version[approvals[a].version] \in VersionRow
  BY ApprovalFields, VersionRows DEF OfVersion
<1>2. CASE approvals[a].kind = "review"
  <2>1. [version[approvals[a].version] EXCEPT !.governance = "review_approved"] \in VersionRow
    BY <1>1 DEF VersionRow, Governances
  <2>2. version' = [version EXCEPT ![approvals[a].version] =
                      [version[approvals[a].version] EXCEPT !.governance = "review_approved"]]
    BY <1>2 DEF Granted
  <2>3. /\ version' \in [Versions -> VersionRow]
        /\ version'[approvals[a].version] = [version[approvals[a].version] EXCEPT !.governance = "review_approved"]
        /\ \A u \in Versions : u # approvals[a].version => version'[u] = version[u]
    BY <1>1, <2>1, <2>2 DEF TypeOK
  <2>4. QED
    BY <1>1, <1>2, <2>3 DEF VersionRow
<1>3. CASE approvals[a].kind = "lifecycle"
  <2> DEFINE row == [version[approvals[a].version] EXCEPT !.governance = "transition_applied",
                                                         !.status = approvals[a].target]
  <2>1. /\ approvals[a].target \in {"archived", "disabled", "deprecated"}
        /\ version[approvals[a].version].status # "absent"
    BY <1>3 DEF VersionChecks, Transitions
  <2>2. row \in VersionRow
    BY <1>1, <2>1 DEF VersionRow, Governances, Statuses
  <2>3. version' = [version EXCEPT ![approvals[a].version] = row]
    BY <1>1, <1>3 DEF Granted, TypeOK
  <2>4. /\ version' \in [Versions -> VersionRow]
        /\ version'[approvals[a].version] = row
        /\ \A u \in Versions : u # approvals[a].version => version'[u] = version[u]
    BY <1>1, <2>2, <2>3 DEF TypeOK
  <2>5. /\ row.approval = version[approvals[a].version].approval
        /\ row.content = version[approvals[a].version].content
        /\ row.source = version[approvals[a].version].source
        /\ row.status = approvals[a].target
    BY <1>1 DEF VersionRow
  <2>6. QED
    BY <2>1, <2>4, <2>5
<1>4. QED
  BY <1>1, <1>2, <1>3
-----------------------------------------------------------------------------
(* Steps that leave a table or the sessions alone. *)

LEMMA SameSessions ==
  ASSUME UNCHANGED sessions
  PROVE  Released
  BY DEF sessions, Released

LEMMA SameApprovals ==
  ASSUME UNCHANGED approvals
  PROVE  Kept /\ DecidedByHolder
  BY DEF Kept, SameRequest, DecidedByHolder

\* A new approval leaves the others alone.
LEMMA MoreApprovals ==
  ASSUME TypeOK, NEW row \in ApprovalRow, approvals' = Append(approvals, row)
  PROVE  Kept /\ DecidedByHolder
  BY RequestedRows DEF Kept, SameRequest, DecidedByHolder

\* A decision on an approval that was not approved before.
LEMMA DecisionKept ==
  ASSUME TypeOK, NEW a \in DOMAIN approvals, NEW st \in {"approved", "rejected", "cancelled"},
         Decided(a, st), approvals[a].status # "approved"
  PROVE  /\ Kept
         /\ \A b \in DOMAIN approvals' : Pending(b)' => b \in DOMAIN approvals /\ Pending(b)
         /\ \A b \in DOMAIN approvals : approvals'[b].status # approvals[b].status =>
              b = a /\ approvals'[b].status = st
         /\ approvals'[a].status = st
<1>1. /\ DOMAIN approvals' = DOMAIN approvals
      /\ \A b \in DOMAIN approvals :
           /\ SameRequest(approvals'[b], approvals[b])
           /\ approvals'[b].status = IF b = a THEN st ELSE approvals[b].status
  BY DecidedRows
<1>2. QED
  BY <1>1 DEF Kept, Pending

LEMMA SameVersions ==
  ASSUME TypeOK, DraftsReviewed, UNCHANGED version
  PROVE  StampedUntouched /\ ReviewsUntouched
  BY DEF StampedUntouched, ReviewsUntouched, DraftsReviewed

LEMMA SamePending ==
  ASSUME UNCHANGED version,
         \A b \in DOMAIN approvals' : Pending(b)' /\ OfVersion(b)' => b \in DOMAIN approvals /\ Pending(b)
  PROVE  PendingUntouched
  BY DEF PendingUntouched

\* The parts about the tables, for a step that changes no binding.
LEMMA TablesPreserved ==
  ASSUME GovernanceInv, UNCHANGED bindings, now' \in Nat, now <= now', Kept, PendingUntouched, ReviewsUntouched
  PROVE  Windows' /\ Covered' /\ ChangesApproved' /\ PendingIsCurrent' /\ DraftsReviewed' /\ PublishedReviewed'
<1>1. /\ TypeOK /\ Windows /\ Covered /\ ChangesApproved /\ PendingIsCurrent
      /\ DraftsReviewed /\ PublishedReviewed
  BY DEF GovernanceInv
<1>2. Windows' /\ Covered' /\ ChangesApproved'
  BY <1>1, BindingsPreserved
<1>3. PendingIsCurrent'
  BY <1>1, PendingPreserved
<1>4. DraftsReviewed' /\ PublishedReviewed'
  BY <1>1, ReviewsPreserved
<1>5. QED
  BY <1>2, <1>3, <1>4

\* The whole invariant, for a step in which nobody takes a lock either.
LEMMA AllPreserved ==
  ASSUME GovernanceInv, TypeOK', UNCHANGED <<bindings, now>>, Kept, Released, DecidedByHolder,
         StampedUntouched, PendingUntouched, ReviewsUntouched
  PROVE  GovernanceInv'
<1>1. TypeOK /\ now <= MaxTime /\ SessionTasks /\ LocksExclusive /\ StampedChange
  BY DEF GovernanceInv
<1>2. now' \in Nat /\ now <= now'
  BY <1>1 DEF TypeOK
<1>3. SessionTasks' /\ LocksExclusive'
  BY <1>1, SessionsPreserved
<1>4. StampedChange'
  BY <1>1, StampedPreserved
<1>5. Windows' /\ Covered' /\ ChangesApproved' /\ PendingIsCurrent' /\ DraftsReviewed' /\ PublishedReviewed'
  BY <1>2, TablesPreserved
<1>6. QED
  BY <1>1, <1>3, <1>4, <1>5 DEF GovernanceInv
-----------------------------------------------------------------------------
(* Steps that write one version. *)

LEMMA OneVersion ==
  ASSUME TypeOK, DraftsReviewed, SessionTasks, StampedChange, Released,
         NEW v \in Versions, NEW row \in VersionRow, version' = [version EXCEPT ![v] = row],
         row.status # "absent",
         row.status = version[v].status \/ version[v].status # "active",
         row.status = "draft" /\ row.governance = "review_approved" =>
           /\ version[v].status = "draft" /\ version[v].governance = "review_approved"
           /\ row.content = version[v].content,
         v \in Candidates =>
           \/ /\ version[v].status # "absent" /\ row.source = version[v].source
              /\ row.content = version[v].content
           \/ ReviewedNext(row.source, row.content)
  PROVE  /\ version' \in [Versions -> VersionRow] /\ version'[v] = row
         /\ \A u \in Versions : u # v => version'[u] = version[u]
         /\ StampedUntouched /\ ReviewsUntouched
<1>1. /\ version' \in [Versions -> VersionRow] /\ version'[v] = row
      /\ \A u \in Versions : u # v => version'[u] = version[u]
  BY VersionUpdate
<1>2. StampedUntouched
  <2>1. SUFFICES ASSUME NEW s \in Sessions, pc'[s] = "stamped"
                 PROVE  version'[approvals[task[s]].version].status = version[approvals[task[s]].version].status
    BY DEF StampedUntouched
  <2>2. pc[s] = "stamped" /\ task[s] \in DOMAIN approvals
    BY <2>1 DEF Released, SessionTasks
  <2>3. approvals[task[s]].version \in Versions /\ version[approvals[task[s]].version].status = "active"
    BY <2>2, ApprovalFields DEF StampedChange
  <2>4. QED
    BY <1>1, <2>3
<1>3. ReviewsUntouched
  <2>1. SUFFICES ASSUME NEW u \in Versions
                 PROVE  /\ version'[u].status = "absent" => version'[u].approval = NoTask
                        /\ version'[u].status = "draft" /\ version'[u].governance = "review_approved" =>
                             \/ /\ version[u].status = "draft" /\ version[u].governance = "review_approved"
                                /\ version'[u].content = version[u].content
                             \/ ReviewedNext(u, version'[u].content)
                        /\ u \in Candidates /\ version'[u].status # "absent" =>
                             \/ /\ version[u].status # "absent" /\ version'[u].source = version[u].source
                                /\ version'[u].content = version[u].content
                             \/ ReviewedNext(version'[u].source, version'[u].content)
    BY DEF ReviewsUntouched
  <2>2. CASE u = v
    BY <1>1, <2>2
  <2>3. CASE u # v
    BY <1>1, <2>3 DEF DraftsReviewed
  <2>4. QED
    BY <2>2, <2>3
<1>4. QED
  BY <1>1, <1>2, <1>3

\* The step of one version that changes no approval and no session.
LEMMA VersionStep ==
  ASSUME GovernanceInv, NEW v \in Versions, NEW row \in VersionRow, version' = [version EXCEPT ![v] = row],
         UNCHANGED <<approvals, bindings, sessions, now, created, blocks>>,
         row.status # "absent",
         row.status = version[v].status \/ version[v].status # "active",
         row.status = "draft" /\ row.governance = "review_approved" =>
           /\ version[v].status = "draft" /\ version[v].governance = "review_approved"
           /\ row.content = version[v].content,
         v \in Candidates =>
           \/ /\ version[v].status # "absent" /\ row.source = version[v].source
              /\ row.content = version[v].content
           \/ ReviewedNext(row.source, row.content),
         \/ row.approval = version[v].approval /\ row.content = version[v].content
         \/ \A b \in DOMAIN approvals : Pending(b) /\ OfVersion(b) => approvals[b].version # v
  PROVE  GovernanceInv'
<1>1. TypeOK /\ DraftsReviewed /\ SessionTasks /\ StampedChange
  BY DEF GovernanceInv
<1>2. Released /\ Kept /\ DecidedByHolder
  BY SameSessions, SameApprovals
<1>3. /\ version' \in [Versions -> VersionRow] /\ version'[v] = row
      /\ \A u \in Versions : u # v => version'[u] = version[u]
      /\ StampedUntouched /\ ReviewsUntouched
  BY <1>1, <1>2, OneVersion
<1>4. TypeOK'
  BY <1>1, <1>3 DEF TypeOK, sessions
<1>5. PendingUntouched
  BY <1>3 DEF PendingUntouched, Pending
<1>6. QED
  BY <1>2, <1>3, <1>4, <1>5, AllPreserved

LEMMA CreateDraftStep ==
  ASSUME GovernanceInv, NEW v \in Drafts, NEW c \in Contents, CreateDraft(v, c)
  PROVE  GovernanceInv'
<1> DEFINE row == [Absent EXCEPT !.status = "draft", !.content = c, !.governance = "draft"]
<1>1. TypeOK /\ DraftsReviewed /\ PendingIsCurrent /\ v \in Versions
  BY DEF GovernanceInv, Versions
<1>2. /\ row \in VersionRow /\ row.status = "draft" /\ row.governance = "draft"
  BY DEF Absent, VersionRow, Statuses, Governances, NoTask
<1>3. version[v].status = "absent" /\ version[v].approval = NoTask
  BY <1>1 DEF CreateDraft, DraftsReviewed
<1>4. \A b \in DOMAIN approvals : Pending(b) /\ OfVersion(b) => approvals[b].version # v
  BY <1>1, <1>3, ApprovalFields DEF PendingIsCurrent, NoTask
<1>5. v \notin Candidates
  BY GovernanceAssumption
<1>6. /\ version' = [version EXCEPT ![v] = row]
      /\ UNCHANGED <<approvals, bindings, sessions, now, created, blocks>>
  BY DEF CreateDraft
<1> HIDE DEF row
<1>7. QED
  BY <1>1, <1>2, <1>3, <1>4, <1>5, <1>6, VersionStep

LEMMA UpdateDraftStep ==
  ASSUME GovernanceInv, NEW v \in Drafts, NEW c \in Contents, UpdateDraft(v, c)
  PROVE  GovernanceInv'
<1> DEFINE row == Edited(v, c)
<1>1. TypeOK /\ PendingIsCurrent /\ v \in Versions
  BY DEF GovernanceInv, Versions
<1>2. version[v] \in VersionRow /\ version[v].status = "draft" /\ ~InReview(v)
  BY <1>1, VersionRows DEF UpdateDraft, Draft
<1>3. row \in VersionRow /\ row.status = "draft" /\ row.governance = "draft"
  BY <1>2 DEF Edited, VersionRow, Statuses, Governances, NoTask
<1>4. \A b \in DOMAIN approvals : Pending(b) /\ OfVersion(b) => approvals[b].version # v
  BY <1>1, <1>2, NoneInReview
<1>5. v \notin Candidates
  BY GovernanceAssumption
<1>6. /\ version' = [version EXCEPT ![v] = row]
      /\ UNCHANGED <<approvals, bindings, sessions, now, created, blocks>>
  BY DEF UpdateDraft
<1> HIDE DEF row
<1>7. QED
  BY <1>1, <1>2, <1>3, <1>4, <1>5, <1>6, VersionStep

LEMMA ValidateDraftStep ==
  ASSUME GovernanceInv, NEW v \in Drafts, ValidateDraft(v)
  PROVE  GovernanceInv'
<1>1. TypeOK /\ v \in Versions
  BY DEF GovernanceInv, Versions
<1>2. version[v] \in VersionRow /\ version[v].status = "draft"
  BY <1>1, VersionRows DEF ValidateDraft, Draft
<1>3. PICK valid \in BOOLEAN : version' = [version EXCEPT ![v].validated = valid]
  BY DEF ValidateDraft
<1> DEFINE row == [version[v] EXCEPT !.validated = valid]
<1>4. /\ row \in VersionRow /\ row.status = version[v].status /\ row.governance = version[v].governance
      /\ row.approval = version[v].approval /\ row.content = version[v].content
  BY <1>2 DEF VersionRow
<1>5. v \notin Candidates
  BY GovernanceAssumption
<1>6. /\ version' = [version EXCEPT ![v] = row]
      /\ UNCHANGED <<approvals, bindings, sessions, now, created, blocks>>
  BY <1>3 DEF ValidateDraft
<1> HIDE DEF row
<1>7. QED
  BY <1>1, <1>2, <1>4, <1>5, <1>6, VersionStep

LEMMA FreezeStep ==
  ASSUME GovernanceInv, NEW v \in Drafts, NEW c \in Candidates, Freeze(v, c)
  PROVE  GovernanceInv'
<1> DEFINE row == Frozen(version[v].content, v)
<1>1. TypeOK /\ DraftsReviewed /\ PendingIsCurrent /\ v \in Versions /\ c \in Versions
  BY DEF GovernanceInv, Versions
<1>2. /\ row \in VersionRow /\ row.status = "active"
      /\ row.source = v /\ row.content = version[v].content
  BY <1>1, VersionRows DEF Frozen, VersionRow, Statuses, Governances, NoTask
<1>3. version[c].status = "absent" /\ version[c].approval = NoTask
  BY <1>1 DEF Freeze, DraftsReviewed
<1>4. \A b \in DOMAIN approvals : Pending(b) /\ OfVersion(b) => approvals[b].version # c
  BY <1>1, <1>3, ApprovalFields DEF PendingIsCurrent, NoTask
<1>5. /\ version' = [version EXCEPT ![c] = row]
      /\ UNCHANGED <<approvals, bindings, sessions, now, created, blocks>>
  BY DEF Freeze
<1>6. ReviewedNext(v, version[v].content)
  BY <1>1, <1>5 DEF Freeze, Draft, DraftsReviewed, ReviewedNext
<1> HIDE DEF row
<1>7. QED
  BY <1>1, <1>2, <1>3, <1>4, <1>5, <1>6, VersionStep
-----------------------------------------------------------------------------
(* Steps that request an approval. *)

\* A version that is not in review has no approval of either kind waiting: the
\* request makes a new one.
LEMMA RequestIsNew ==
  ASSUME TypeOK, PendingIsCurrent, NEW v \in Versions, ~InReview(v), NEW a \in Nat,
         NEW kind \in {"review", "lifecycle"}, NEW target \in Statuses \cup {"none"},
         Request(kind, v, target, a)
  PROVE  /\ a = Len(approvals) + 1
         /\ \E row \in ApprovalRow :
              /\ approvals' = Append(approvals, row)
              /\ row.kind = kind /\ row.version = v /\ row.content = version[v].content
<1> DEFINE row == [kind |-> kind, version |-> v, content |-> version[v].content,
                   target |-> target, expected |-> 0, status |-> "pending"]
<1>1. row \in ApprovalRow
  BY VersionRows DEF ApprovalRow
<1>2. ASSUME NEW b \in DOMAIN approvals, Pending(b), approvals[b].kind = kind, approvals[b].version = v
      PROVE  FALSE
  BY <1>2, NoneInReview DEF OfVersion
<1>3. a = Len(approvals) + 1 /\ approvals' = Append(approvals, row)
  BY <1>2 DEF Request
<1>4. row.kind = kind /\ row.version = v /\ row.content = version[v].content
  OBVIOUS
<1> HIDE DEF row
<1>5. QED
  BY <1>1, <1>3, <1>4

\* The request of a review or a lifecycle change of a version.
LEMMA RequestStep ==
  ASSUME GovernanceInv, NEW v \in Versions, ~InReview(v), version[v].status # "absent", NEW a \in Nat,
         NEW kind \in {"review", "lifecycle"}, NEW target \in Statuses \cup {"none"},
         NEW gov \in {"review_pending", "transition_pending"},
         Request(kind, v, target, a),
         version' = [version EXCEPT ![v].governance = gov, ![v].approval = a],
         UNCHANGED <<bindings, sessions, now, created, blocks>>
  PROVE  GovernanceInv'
<1> DEFINE new == [version[v] EXCEPT !.governance = gov, !.approval = a]
<1>1. TypeOK /\ DraftsReviewed /\ SessionTasks /\ StampedChange /\ PendingIsCurrent
  BY DEF GovernanceInv
<1>2. /\ a = Len(approvals) + 1
      /\ \E row \in ApprovalRow :
           /\ approvals' = Append(approvals, row)
           /\ row.kind = kind /\ row.version = v /\ row.content = version[v].content
  BY <1>1, RequestIsNew
<1>3. PICK row \in ApprovalRow :
        /\ approvals' = Append(approvals, row)
        /\ row.kind = kind /\ row.version = v /\ row.content = version[v].content
  BY <1>2
<1>4. /\ approvals' \in Seq(ApprovalRow) /\ DOMAIN approvals' = DOMAIN approvals \cup {a}
      /\ \A b \in DOMAIN approvals : approvals'[b] = approvals[b]
      /\ approvals'[a] = row
  BY <1>1, <1>2, <1>3, RequestedRows
<1>5. Kept /\ DecidedByHolder /\ Released
  BY <1>1, <1>3, MoreApprovals, SameSessions
<1>6. version[v] \in VersionRow
  BY <1>1, VersionRows
<1>7. /\ new \in VersionRow /\ new.status = version[v].status /\ new.governance = gov
      /\ new.approval = a /\ new.content = version[v].content /\ new.source = version[v].source
  BY <1>6 DEF VersionRow, Governances
<1>8. version' = [version EXCEPT ![v] = new]
  BY <1>1 DEF TypeOK
<1> HIDE DEF new
<1>9. /\ version' \in [Versions -> VersionRow] /\ version'[v] = new
      /\ \A u \in Versions : u # v => version'[u] = version[u]
      /\ StampedUntouched /\ ReviewsUntouched
  BY <1>1, <1>5, <1>7, <1>8, OneVersion
<1>10. TypeOK'
  BY <1>1, <1>4, <1>9 DEF TypeOK, sessions
<1>11. \A b \in DOMAIN approvals : Pending(b) /\ OfVersion(b) => approvals[b].version # v
  BY <1>1, NoneInReview
<1>12. PendingUntouched
  BY <1>3, <1>4, <1>7, <1>9, <1>11 DEF PendingUntouched, Pending
<1>13. QED
  BY <1>5, <1>9, <1>10, <1>12, AllPreserved

LEMMA SubmitReviewStep ==
  ASSUME GovernanceInv, NEW v \in Drafts, SubmitReview(v)
  PROVE  GovernanceInv'
<1>1. v \in Versions /\ version[v].status # "absent" /\ ~InReview(v)
  BY DEF SubmitReview, Draft, Versions
<1>2. PICK a \in 1 .. MaxApprovals :
        /\ Request("review", v, "none", a)
        /\ version' = [version EXCEPT ![v].governance = "review_pending", ![v].approval = a]
  BY DEF SubmitReview
<1>3. a \in Nat
  BY <1>2
<1>4. UNCHANGED <<bindings, sessions, now, created, blocks>>
  BY DEF SubmitReview
<1>5. QED
  BY <1>1, <1>2, <1>3, <1>4, RequestStep

LEMMA RequestLifecycleStep ==
  ASSUME GovernanceInv, NEW v \in Versions, NEW target \in {"archived", "disabled", "deprecated"},
         RequestLifecycle(v, target)
  PROVE  GovernanceInv'
<1>1. version[v].status # "absent" /\ ~InReview(v) /\ target \in Statuses \cup {"none"}
  BY DEF RequestLifecycle, Transitions, Statuses
<1>2. PICK a \in 1 .. MaxApprovals :
        /\ Request("lifecycle", v, target, a)
        /\ version' = [version EXCEPT ![v].governance = "transition_pending", ![v].approval = a]
  BY DEF RequestLifecycle
<1>3. a \in Nat
  BY <1>2
<1>4. UNCHANGED <<bindings, sessions, now, created, blocks>>
  BY DEF RequestLifecycle
<1>5. QED
  BY <1>1, <1>2, <1>3, <1>4, RequestStep

LEMMA RequestChangeStep ==
  ASSUME GovernanceInv, NEW v \in Versions, NEW b \in Nat, NEW kind \in {"activation", "rollback"},
         RequestChange(kind, v, b)
  PROVE  GovernanceInv'
<1> DEFINE row == [kind |-> kind, version |-> v, content |-> version[v].content,
                   target |-> "none", expected |-> b, status |-> "pending"]
<1>1. TypeOK /\ DraftsReviewed
  BY DEF GovernanceInv
<1>2. row \in ApprovalRow /\ row.kind = kind
  BY <1>1, VersionRows DEF ApprovalRow
<1>3. approvals' = Append(approvals, row) /\ UNCHANGED <<version, bindings, sessions, now, created, blocks>>
  BY DEF RequestChange
<1> HIDE DEF row
<1>4. /\ approvals' \in Seq(ApprovalRow)
      /\ DOMAIN approvals' = DOMAIN approvals \cup {Len(approvals) + 1}
      /\ \A c \in DOMAIN approvals : approvals'[c] = approvals[c]
      /\ approvals'[Len(approvals) + 1] = row
  BY <1>1, <1>2, <1>3, RequestedRows
<1>5. Kept /\ DecidedByHolder /\ Released /\ StampedUntouched /\ ReviewsUntouched
  BY <1>1, <1>2, <1>3, MoreApprovals, SameSessions, SameVersions
<1>6. TypeOK'
  BY <1>1, <1>3, <1>4 DEF TypeOK, sessions
<1>7. PendingUntouched
  BY <1>2, <1>3, <1>4 DEF PendingUntouched, Pending, OfVersion
<1>8. QED
  BY <1>3, <1>5, <1>6, <1>7, AllPreserved

LEMMA RequestActivationStep ==
  ASSUME GovernanceInv, NEW v \in Candidates \cup Published, RequestActivation(v)
  PROVE  GovernanceInv'
<1>1. PICK b \in 0 .. Len(bindings) : RequestChange("activation", v, b)
  BY DEF RequestActivation
<1>2. b \in Nat /\ v \in Versions
  BY <1>1, BindingFields DEF GovernanceInv, Versions
<1>3. QED
  BY <1>1, <1>2, RequestChangeStep

LEMMA RequestRollbackStep ==
  ASSUME GovernanceInv, NEW v \in Candidates \cup Published, RequestRollback(v)
  PROVE  GovernanceInv'
<1>1. PICK b \in DOMAIN bindings : RequestChange("rollback", v, b)
  BY DEF RequestRollback
<1>2. b \in Nat /\ v \in Versions
  BY <1>1, BindingFields DEF GovernanceInv, Versions
<1>3. QED
  BY <1>1, <1>2, RequestChangeStep
-----------------------------------------------------------------------------
(* Steps that decide an approval or leave a decision. *)

\* A decision, with what it makes of the versions.
LEMMA DecidedStep ==
  ASSUME GovernanceInv, NEW a \in DOMAIN approvals, NEW st \in {"approved", "rejected", "cancelled"},
         Decided(a, st), approvals[a].status # "approved",
         \A s \in Sessions : task'[s] = a =>
           /\ pc'[s] \notin {"deciding", "stamped"}
           /\ st = "approved" => pc'[s] \notin {"approving", "rejecting"},
         Released, TypeOK', UNCHANGED <<bindings, now>>, StampedUntouched, ReviewsUntouched,
         \A u \in Versions : version'[u].approval = version[u].approval /\ version'[u].content = version[u].content
  PROVE  GovernanceInv'
<1>1. TypeOK
  BY DEF GovernanceInv
<1>2. /\ Kept
      /\ \A b \in DOMAIN approvals' : Pending(b)' => b \in DOMAIN approvals /\ Pending(b)
      /\ \A b \in DOMAIN approvals : approvals'[b].status # approvals[b].status =>
           b = a /\ approvals'[b].status = st
  BY <1>1, DecisionKept
<1>3. DecidedByHolder
  BY <1>2 DEF DecidedByHolder
<1>4. PendingUntouched
  BY <1>2 DEF PendingUntouched
<1>5. QED
  BY <1>2, <1>3, <1>4, AllPreserved

LEMMA DecideStep ==
  ASSUME GovernanceInv, NEW a \in DOMAIN approvals, NEW st \in {"rejected", "cancelled"}, Decide(a, st)
  PROVE  GovernanceInv'
<1>1. /\ TypeOK /\ DraftsReviewed /\ Decided(a, st) /\ Pending(a) /\ DecisionFree(a)
      /\ UNCHANGED <<version, bindings, sessions, now, created, blocks>>
  BY DEF GovernanceInv, Decide
<1>2. TypeOK'
  BY <1>1, DecidedRows DEF TypeOK, sessions
<1>3. approvals[a].status # "approved"
  BY <1>1 DEF Pending
<1>4. \A s \in Sessions : task'[s] = a => pc'[s] \notin {"deciding", "stamped"} /\ st # "approved"
  BY <1>1 DEF DecisionFree, sessions
<1>5. Released /\ StampedUntouched /\ ReviewsUntouched
  BY <1>1, SameSessions, SameVersions
<1>6. QED
  BY <1>1, <1>2, <1>3, <1>4, <1>5, DecidedStep

LEMMA Left ==
  ASSUME TypeOK, NEW s \in Sessions, Leave(s)
  PROVE  Released
  BY SessionLeaves DEF Released

\* A transaction that ends without a write.
LEMMA RefuseStep ==
  ASSUME GovernanceInv, NEW s \in Sessions, Refuse, Leave(s)
  PROVE  GovernanceInv'
<1>1. TypeOK /\ DraftsReviewed /\ UNCHANGED <<version, approvals, bindings, now, created, blocks>>
  BY DEF GovernanceInv, Refuse, tables
<1>2. Released /\ Kept /\ DecidedByHolder /\ StampedUntouched /\ ReviewsUntouched
  BY <1>1, Left, SameApprovals, SameVersions
<1>3. TypeOK'
  BY <1>1, SessionLeaves DEF TypeOK
<1>4. PendingUntouched
  BY <1>1 DEF PendingUntouched, Pending
<1>5. QED
  BY <1>1, <1>2, <1>3, <1>4, AllPreserved

\* The end of a session that decides task[s] with nobody else about to.
LEMMA LastHolder ==
  ASSUME TypeOK, NEW s \in Sessions, Leave(s), NEW st,
         \A r \in Sessions \ {s} : task[r] = task[s] =>
           /\ pc[r] \notin {"deciding", "stamped"}
           /\ st = "approved" => pc[r] \notin {"approving", "rejecting"}
  PROVE  \A r \in Sessions : task'[r] = task[s] =>
           /\ pc'[r] \notin {"deciding", "stamped"}
           /\ st = "approved" => pc'[r] \notin {"approving", "rejecting"}
  BY SessionLeaves

\* The decision stands and its effect does not.
LEMMA BlockedStep ==
  ASSUME GovernanceInv, NEW s \in Sessions, pc[s] # "idle", Blocked(s), Leave(s),
         approvals[task[s]].status # "approved",
         \A r \in Sessions \ {s} : task[r] = task[s] =>
           pc[r] \notin {"deciding", "stamped", "approving", "rejecting"}
  PROVE  GovernanceInv'
<1>1. /\ TypeOK /\ DraftsReviewed /\ task[s] \in DOMAIN approvals /\ Decided(task[s], "approved")
      /\ UNCHANGED <<version, bindings, now, created>> /\ blocks' \in Nat
  BY DEF GovernanceInv, SessionTasks, Blocked, TypeOK
<1>2. TypeOK'
  BY <1>1, DecidedRows, SessionLeaves DEF TypeOK
<1>3. Released /\ StampedUntouched /\ ReviewsUntouched
  BY <1>1, Left, SameVersions
<1>4. \A r \in Sessions : task'[r] = task[s] =>
        pc'[r] \notin {"deciding", "stamped"} /\ pc'[r] \notin {"approving", "rejecting"}
  BY <1>1, LastHolder
<1>5. QED
  BY <1>1, <1>2, <1>3, <1>4, DecidedStep

\* The decision stands with its effect, and no change is about to enforce the version.
LEMMA GrantStep ==
  ASSUME GovernanceInv, NEW s \in Sessions, pc[s] # "idle", Grant(s), Leave(s),
         OfVersion(task[s]), VersionChecks(task[s]), approvals[task[s]].status # "approved",
         \A r \in Sessions \ {s} :
           /\ task[r] = task[s] => pc[r] \notin {"deciding", "stamped", "approving", "rejecting"}
           /\ pc[r] = "stamped" => approvals[task[r]].version # approvals[task[s]].version
  PROVE  GovernanceInv'
<1>1. /\ TypeOK /\ DraftsReviewed /\ SessionTasks
      /\ task[s] \in DOMAIN approvals /\ Decided(task[s], "approved")
      /\ version' = Granted(task[s]) /\ UNCHANGED <<bindings, now, created, blocks>>
  BY DEF GovernanceInv, SessionTasks, Grant
<1> DEFINE a == task[s]
           v == approvals[a].version
<1>2. /\ version' \in [Versions -> VersionRow]
      /\ \A u \in Versions :
           /\ u # v => version'[u] = version[u]
           /\ version'[u].approval = version[u].approval /\ version'[u].content = version[u].content
           /\ version'[u].source = version[u].source
           /\ version'[u].status = "absent" <=> version[u].status = "absent"
           /\ version'[u].status = "draft" /\ version'[u].governance = "review_approved" =>
                \/ version'[u] = version[u]
                \/ approvals[a].kind = "review" /\ u = v
  BY <1>1, GrantedRows
<1>3. TypeOK'
  BY <1>1, <1>2, DecidedRows, SessionLeaves DEF TypeOK
<1>4. Released
  BY <1>1, Left
<1>5. \A r \in Sessions : task'[r] = task[s] =>
        pc'[r] \notin {"deciding", "stamped"} /\ pc'[r] \notin {"approving", "rejecting"}
  BY <1>1, LastHolder
<1>6. StampedUntouched
  <2>1. SUFFICES ASSUME NEW r \in Sessions, pc'[r] = "stamped"
                 PROVE  version'[approvals[task[r]].version].status = version[approvals[task[r]].version].status
    BY DEF StampedUntouched
  <2>2. r # s /\ pc[r] = "stamped"
    BY <1>1, <2>1, SessionLeaves
  <2>3. task[r] \in DOMAIN approvals /\ approvals[task[r]].version \in Versions
    BY <1>1, <2>2, ApprovalFields DEF SessionTasks
  <2>4. QED
    BY <1>2, <2>2, <2>3
<1>7. ReviewsUntouched
  <2>1. a \in DOMAIN approvals' /\ SameRequest(approvals'[a], approvals[a]) /\ approvals'[a].status = "approved"
    BY <1>1, DecidedRows
  <2>2. approvals[a].content = version[v].content /\ v \in Versions
    BY <1>1, ApprovalFields DEF VersionChecks
  <2>3. approvals[a].kind = "review" => ReviewedNext(v, version'[v].content)
    BY <1>2, <2>1, <2>2 DEF SameRequest, ReviewedNext
  <2>4. \A u \in Candidates : u \in Versions
    BY DEF Versions
  <2>5. \A u \in Versions : version'[u].status = "absent" => version'[u].approval = NoTask
    BY <1>1, <1>2 DEF DraftsReviewed
  <2> HIDE DEF a, v
  <2>6. QED
    BY <1>2, <2>3, <2>4, <2>5 DEF ReviewsUntouched
<1>8. QED
  BY <1>1, <1>2, <1>3, <1>4, <1>5, <1>6, <1>7, DecidedStep
LEMMA ApproveVersionStep ==
  ASSUME GovernanceInv, NEW s \in Sessions, ApproveVersion(s)
  PROVE  GovernanceInv'
<1>1. /\ TypeOK /\ SessionTasks /\ LocksExclusive
      /\ pc[s] = "deciding" /\ OfVersion(task[s]) /\ PolicyFree
      /\ VersionFree(approvals[task[s]].version) /\ Leave(s)
      /\ IF VersionChecks(task[s]) THEN Grant(s) \/ Blocked(s) ELSE Refuse
  BY DEF GovernanceInv, ApproveVersion
<1>2. approvals[task[s]].status # "approved"
  BY <1>1 DEF SessionTasks, Pending
<1>3. \A r \in Sessions \ {s} :
        /\ task[r] = task[s] => pc[r] \notin {"deciding", "stamped", "approving", "rejecting"}
        /\ pc[r] = "stamped" => approvals[task[r]].version # approvals[task[s]].version
  BY <1>1 DEF LocksExclusive, PolicyFree, VersionFree
<1>4. CASE Grant(s) /\ VersionChecks(task[s])
  BY <1>1, <1>2, <1>3, <1>4, GrantStep
<1>5. CASE Blocked(s)
  BY <1>1, <1>2, <1>3, <1>5, BlockedStep
<1>6. CASE Refuse
  BY <1>1, <1>6, RefuseStep
<1>7. QED
  BY <1>1, <1>4, <1>5, <1>6

LEMMA ReviewApproveStep ==
  ASSUME GovernanceInv, NEW s \in Sessions, ReviewApprove(s)
  PROVE  GovernanceInv'
<1>1. /\ TypeOK /\ SessionTasks /\ LocksExclusive
      /\ pc[s] = "approving" /\ DecisionFree(task[s]) /\ Leave(s)
      /\ IF VersionChecks(task[s]) THEN Grant(s) \/ Blocked(s) ELSE Refuse
  BY DEF GovernanceInv, ReviewApprove
<1>2. approvals[task[s]].status # "approved" /\ OfVersion(task[s])
  BY <1>1 DEF SessionTasks
<1>3. \A r \in Sessions \ {s} :
        /\ task[r] = task[s] => pc[r] \notin {"deciding", "stamped", "approving", "rejecting"}
        /\ pc[r] = "stamped" => approvals[task[r]].version # approvals[task[s]].version
  BY <1>1 DEF LocksExclusive, DecisionFree
<1>4. CASE Grant(s) /\ VersionChecks(task[s])
  BY <1>1, <1>2, <1>3, <1>4, GrantStep
<1>5. CASE Blocked(s)
  BY <1>1, <1>2, <1>3, <1>5, BlockedStep
<1>6. CASE Refuse
  BY <1>1, <1>6, RefuseStep
<1>7. QED
  BY <1>1, <1>4, <1>5, <1>6

LEMMA ReviewRejectStep ==
  ASSUME GovernanceInv, NEW s \in Sessions, ReviewReject(s)
  PROVE  GovernanceInv'
<1>1. /\ TypeOK /\ SessionTasks /\ DraftsReviewed
      /\ pc[s] = "rejecting" /\ DecisionFree(task[s]) /\ Decided(task[s], "rejected")
      /\ Goto(s, "recording", task[s], 0)
      /\ UNCHANGED <<version, bindings, now, created, blocks>>
  BY DEF GovernanceInv, ReviewReject
<1>2. task[s] \in DOMAIN approvals /\ approvals[task[s]].status # "approved" /\ task[s] \in Nat
  BY <1>1, ApprovalFields DEF SessionTasks
<1>3. /\ pc' \in [Sessions -> {"idle", "deciding", "stamped", "approving", "rejecting", "recording"}]
      /\ task' \in [Sessions -> Nat] /\ stamp' \in [Sessions -> Nat]
      /\ pc'[s] = "recording" /\ task'[s] = task[s]
      /\ \A r \in Sessions : r # s => pc'[r] = pc[r] /\ task'[r] = task[r] /\ stamp'[r] = stamp[r]
  BY <1>1, <1>2, SessionMove
<1>4. Released
  BY <1>1, <1>3 DEF Released
<1>5. TypeOK'
  BY <1>1, <1>2, <1>3, DecidedRows DEF TypeOK
<1>6. \A r \in Sessions : task'[r] = task[s] => pc'[r] \notin {"deciding", "stamped"}
  BY <1>1, <1>3 DEF DecisionFree
<1>7. StampedUntouched /\ ReviewsUntouched
  BY <1>1, SameVersions
<1>8. QED
  BY <1>1, <1>2, <1>4, <1>5, <1>6, <1>7, DecidedStep

LEMMA RecordRejectionStep ==
  ASSUME GovernanceInv, NEW s \in Sessions, RecordRejection(s)
  PROVE  GovernanceInv'
<1> DEFINE v == approvals[task[s]].version
           row == [version[v] EXCEPT !.governance = RejectedAs(task[s])]
<1>1. /\ TypeOK /\ SessionTasks /\ DraftsReviewed /\ StampedChange /\ pc[s] = "recording" /\ Leave(s)
      /\ version' = [version EXCEPT ![v].governance = RejectedAs(task[s])]
      /\ UNCHANGED <<approvals, bindings, now, created, blocks>>
  BY DEF GovernanceInv, RecordRejection
<1>2. v \in Versions
  BY <1>1, ApprovalFields DEF SessionTasks
<1>3. version[v] \in VersionRow
  BY <1>1, <1>2, VersionRows
<1>4. RejectedAs(task[s]) \in {"review_rejected", "transition_rejected"}
  BY DEF RejectedAs
<1>5. /\ row \in VersionRow /\ row.status = version[v].status /\ row.governance # "review_approved"
      /\ row.approval = version[v].approval /\ row.content = version[v].content
      /\ row.source = version[v].source
  BY <1>3, <1>4 DEF VersionRow, Governances
<1>6. version' = [version EXCEPT ![v] = row]
  BY <1>1
<1>7. Released /\ Kept /\ DecidedByHolder
  BY <1>1, Left, SameApprovals
<1> HIDE DEF row, v
<1>8. CASE version[v].status # "absent"
  <2>1. /\ version' \in [Versions -> VersionRow] /\ version'[v] = row
        /\ \A u \in Versions : u # v => version'[u] = version[u]
        /\ StampedUntouched /\ ReviewsUntouched
    BY <1>1, <1>2, <1>5, <1>6, <1>7, <1>8, OneVersion
  <2>2. TypeOK'
    BY <1>1, <2>1, SessionLeaves DEF TypeOK
  <2>3. PendingUntouched
    BY <1>1, <1>5, <2>1 DEF PendingUntouched, Pending
  <2>4. QED
    BY <1>1, <1>7, <2>1, <2>2, <2>3, AllPreserved
<1>9. CASE version[v].status = "absent"
  <2>1. /\ version' \in [Versions -> VersionRow] /\ version'[v] = row
        /\ \A u \in Versions : u # v => version'[u] = version[u]
    BY <1>1, <1>2, <1>5, <1>6, VersionUpdate
  <2>2. \A u \in Versions :
          /\ version'[u].status = version[u].status /\ version'[u].approval = version[u].approval
          /\ version'[u].content = version[u].content
    BY <1>5, <2>1
  <2>3. TypeOK'
    BY <1>1, <2>1, SessionLeaves DEF TypeOK
  <2>4. PendingUntouched
    BY <1>1, <2>2 DEF PendingUntouched, Pending
  <2>5. StampedUntouched
    <3>1. \A r \in Sessions : pc'[r] = "stamped" => approvals[task[r]].version \in Versions
      BY <1>1, <1>7, ApprovalFields DEF Released, SessionTasks
    <3>2. QED
      BY <2>2, <3>1 DEF StampedUntouched
  <2>6. ReviewsUntouched
    <3>1. \A u \in Versions : u # v => version'[u] = version[u]
      BY <2>1
    <3>2. version'[v].status = "absent" /\ version'[v].approval = NoTask
      BY <1>1, <1>2, <1>9, <2>2 DEF DraftsReviewed
    <3>3. Candidates \subseteq Versions
      BY DEF Versions
    <3>4. QED
      BY <1>1, <3>1, <3>2, <3>3 DEF ReviewsUntouched, DraftsReviewed
  <2>7. QED
    BY <1>1, <1>7, <2>3, <2>4, <2>5, <2>6, AllPreserved
<1>10. QED
  BY <1>8, <1>9

LEMMA AbortStep ==
  ASSUME GovernanceInv, NEW s \in Sessions, Abort(s)
  PROVE  GovernanceInv'
<1>1. Refuse /\ Leave(s)
  BY DEF Abort, Refuse
<1>2. QED
  BY <1>1, RefuseStep

-----------------------------------------------------------------------------
(* Steps that take a lock. *)

\* A session takes locks and writes no table.
LEMMA Taken ==
  ASSUME GovernanceInv, NEW s \in Sessions, NEW a \in DOMAIN approvals, NEW t \in Nat,
         NEW point \in {"deciding", "stamped", "approving", "rejecting"},
         Goto(s, point, a, t), UNCHANGED <<tables, created, blocks>>, now' \in Nat, now <= now'
  PROVE  /\ TypeOK' /\ Kept /\ PendingUntouched /\ ReviewsUntouched
         /\ Windows' /\ Covered' /\ ChangesApproved' /\ PendingIsCurrent' /\ DraftsReviewed' /\ PublishedReviewed'
         /\ pc'[s] = point /\ task'[s] = a /\ stamp'[s] = t
         /\ \A r \in Sessions : r # s => pc'[r] = pc[r] /\ task'[r] = task[r] /\ stamp'[r] = stamp[r]
         /\ UNCHANGED <<version, approvals, bindings>>
<1>1. TypeOK /\ DraftsReviewed /\ UNCHANGED <<version, approvals, bindings, created, blocks>> /\ a \in Nat
  BY ApprovalFields DEF GovernanceInv, tables
<1>2. /\ pc' \in [Sessions -> {"idle", "deciding", "stamped", "approving", "rejecting", "recording"}]
      /\ task' \in [Sessions -> Nat] /\ stamp' \in [Sessions -> Nat]
      /\ pc'[s] = point /\ task'[s] = a /\ stamp'[s] = t
      /\ \A r \in Sessions : r # s => pc'[r] = pc[r] /\ task'[r] = task[r] /\ stamp'[r] = stamp[r]
  BY <1>1, SessionMove
<1>3. TypeOK'
  BY <1>1, <1>2 DEF TypeOK
<1>4. Kept /\ ReviewsUntouched
  BY <1>1, SameApprovals, SameVersions
<1>5. PendingUntouched
  BY <1>1 DEF PendingUntouched, Pending
<1>6. Windows' /\ Covered' /\ ChangesApproved' /\ PendingIsCurrent' /\ DraftsReviewed' /\ PublishedReviewed'
  BY <1>1, <1>4, <1>5, TablesPreserved
<1>7. QED
  BY <1>1, <1>2, <1>3, <1>4, <1>5, <1>6

LEMMA BeginApproveStep ==
  ASSUME GovernanceInv, NEW s \in Sessions, NEW a \in DOMAIN approvals, BeginApprove(s, a)
  PROVE  GovernanceInv'
<1>1. /\ TypeOK /\ SessionTasks /\ LocksExclusive /\ StampedChange /\ now <= MaxTime
      /\ Pending(a) /\ DecisionFree(a) /\ Goto(s, "deciding", a, 0)
      /\ UNCHANGED <<tables, now, created, blocks>>
  BY DEF GovernanceInv, BeginApprove
<1>2. now' \in Nat /\ now <= now'
  BY <1>1 DEF TypeOK
<1>3. /\ TypeOK' /\ Windows' /\ Covered' /\ ChangesApproved' /\ PendingIsCurrent'
      /\ DraftsReviewed' /\ PublishedReviewed'
      /\ pc'[s] = "deciding" /\ task'[s] = a
      /\ \A r \in Sessions : r # s => pc'[r] = pc[r] /\ task'[r] = task[r] /\ stamp'[r] = stamp[r]
      /\ UNCHANGED <<version, approvals, bindings>>
  BY <1>1, <1>2, Taken
<1>4. SessionTasks'
  BY <1>1, <1>3 DEF SessionTasks, Pending, OfVersion
<1>5. LocksExclusive'
  BY <1>1, <1>3 DEF LocksExclusive, DecisionFree
<1>6. StampedChange'
  BY <1>1, <1>3 DEF StampedChange, OfVersion
<1>7. QED
  BY <1>1, <1>3, <1>4, <1>5, <1>6 DEF GovernanceInv

LEMMA BeginReviewStep ==
  ASSUME GovernanceInv, NEW s \in Sessions, NEW a \in DOMAIN approvals,
         NEW point \in {"approving", "rejecting"}, BeginReview(s, a, point)
  PROVE  GovernanceInv'
<1>1. /\ TypeOK /\ SessionTasks /\ LocksExclusive /\ StampedChange /\ now <= MaxTime
      /\ Pending(a) /\ OfVersion(a) /\ PolicyFree /\ VersionFree(approvals[a].version)
      /\ Goto(s, point, a, 0) /\ UNCHANGED <<tables, now, created, blocks>>
  BY DEF GovernanceInv, BeginReview
<1>2. now' \in Nat /\ now <= now'
  BY <1>1 DEF TypeOK
<1>3. /\ TypeOK' /\ Windows' /\ Covered' /\ ChangesApproved' /\ PendingIsCurrent'
      /\ DraftsReviewed' /\ PublishedReviewed'
      /\ pc'[s] = point /\ task'[s] = a
      /\ \A r \in Sessions : r # s => pc'[r] = pc[r] /\ task'[r] = task[r] /\ stamp'[r] = stamp[r]
      /\ UNCHANGED <<version, approvals, bindings>>
  BY <1>1, <1>2, Taken
<1>4. SessionTasks'
  BY <1>1, <1>3 DEF SessionTasks, Pending, OfVersion
<1>5. LocksExclusive'
  BY <1>1, <1>3 DEF LocksExclusive, PolicyFree, VersionFree
<1>6. StampedChange'
  BY <1>1, <1>3 DEF StampedChange, OfVersion
<1>7. QED
  BY <1>1, <1>3, <1>4, <1>5, <1>6 DEF GovernanceInv

LEMMA ApproveChangeStep ==
  ASSUME GovernanceInv, NEW s \in Sessions, ApproveChange(s)
  PROVE  GovernanceInv'
<1>1. /\ TypeOK /\ SessionTasks /\ LocksExclusive /\ StampedChange /\ Windows /\ now <= MaxTime
      /\ pc[s] = "deciding" /\ ~OfVersion(task[s]) /\ EnforceFree
      /\ VersionFree(approvals[task[s]].version)
  BY DEF GovernanceInv, ApproveChange
<1>2. task[s] \in DOMAIN approvals /\ Pending(task[s]) /\ approvals[task[s]].status # "approved"
  BY <1>1 DEF SessionTasks, Pending
<1>3. CASE Refuse /\ Leave(s)
  BY <1>3, RefuseStep
<1>4. CASE Blocked(s) /\ Leave(s)
  <2>1. \A r \in Sessions \ {s} : task[r] = task[s] =>
          pc[r] \notin {"deciding", "stamped", "approving", "rejecting"}
    BY <1>1 DEF LocksExclusive, SessionTasks
  <2>2. QED
    BY <1>1, <1>2, <1>4, <2>1, BlockedStep
<1>5. CASE /\ ChangeChecks(task[s]) /\ now < MaxTime /\ now' = now + 1
           /\ Goto(s, "stamped", task[s], now + 1)
           /\ UNCHANGED <<tables, created, blocks>>
  <2>1. now \in Nat /\ now' \in Nat /\ now <= now' /\ now' <= MaxTime /\ now + 1 \in Nat
    BY <1>1, <1>5, GovernanceAssumption DEF TypeOK
  <2>2. /\ TypeOK' /\ Windows' /\ Covered' /\ ChangesApproved' /\ PendingIsCurrent'
        /\ DraftsReviewed' /\ PublishedReviewed'
        /\ pc'[s] = "stamped" /\ task'[s] = task[s] /\ stamp'[s] = now + 1
        /\ \A r \in Sessions : r # s => pc'[r] = pc[r] /\ task'[r] = task[r] /\ stamp'[r] = stamp[r]
        /\ UNCHANGED <<version, approvals, bindings>>
    BY <1>2, <1>5, <2>1, Taken
  <2>3. SessionTasks'
    BY <1>1, <1>2, <2>2 DEF SessionTasks, Pending, OfVersion
  <2>4. LocksExclusive'
    BY <1>1, <2>2 DEF LocksExclusive, EnforceFree, VersionFree
  <2>5. StampedChange'
    <3>1. approvals[task[s]].expected \in Nat /\ Current(approvals[task[s]].expected)
      BY <1>1, <1>2, <1>5, ApprovalFields DEF ChangeChecks
    <3>2. approvals[task[s]].expected = Len(bindings)
      BY <1>1, <3>1, CurrentIsLast
    <3>3. version[approvals[task[s]].version].status = "active"
      BY <1>5 DEF ChangeChecks
    <3>4. \A b \in DOMAIN bindings : bindings[b].from < now'
      BY <1>1, <1>5, <2>1, BindingFields DEF Windows
    <3>5. \A r \in Sessions : pc'[r] = "stamped" => r = s
      BY <1>1, <2>2 DEF EnforceFree
    <3>6. now' > 0
      BY <1>5, <2>1
    <3>7. QED
      BY <1>1, <1>5, <2>2, <3>2, <3>3, <3>4, <3>5, <3>6 DEF StampedChange, OfVersion
  <2>6. QED
    BY <2>1, <2>2, <2>3, <2>4, <2>5 DEF GovernanceInv
<1>6. QED
  BY <1>3, <1>4, <1>5 DEF ApproveChange
-----------------------------------------------------------------------------
(* The change of the binding in force. *)

LEMMA SwitchRows ==
  ASSUME GovernanceInv, NEW s \in Sessions, Switch(s)
  PROVE  LET n == Len(bindings) IN
         /\ bindings' \in Seq(BindingRow) /\ n \in Nat /\ Len(bindings') = n + 1
         /\ DOMAIN bindings' = 1 .. (n + 1)
         /\ \A i \in 1 .. n :
              /\ i < n => bindings'[i] = bindings[i]
              /\ bindings'[i].version = bindings[i].version /\ bindings'[i].from = bindings[i].from
              /\ bindings'[i].approval = bindings[i].approval
              /\ i = n => bindings'[i].until = now
         /\ bindings'[n + 1].version = approvals[task[s]].version /\ bindings'[n + 1].from = now
         /\ bindings'[n + 1].until = Forever /\ bindings'[n + 1].approval = task[s]
         /\ approvals[task[s]].expected = n /\ now > 0 /\ now \in Nat
         /\ \A i \in 1 .. n : bindings[i].from < now
<1> DEFINE n == Len(bindings)
           a == task[s]
           b == approvals[a].expected
           old == [i \in DOMAIN bindings |-> IF i = b THEN Superseded(i, stamp[s]) ELSE bindings[i]]
           new == Binding(approvals[a].version, stamp[s], a, b)
<1>1. /\ TypeOK /\ SessionTasks /\ StampedChange /\ pc[s] = "stamped" /\ bindings' = Append(old, new)
  BY DEF GovernanceInv, Switch
<1>2. /\ a \in DOMAIN approvals /\ b = n /\ stamp[s] = now /\ now > 0 /\ now \in Nat
      /\ \A i \in DOMAIN bindings : bindings[i].from < now
  BY <1>1 DEF SessionTasks, StampedChange, TypeOK
<1>3. /\ n \in Nat /\ DOMAIN bindings = 1 .. n
      /\ \A i \in DOMAIN bindings : bindings[i] \in BindingRow
  BY <1>1, BindingFields
<1>4. \A i \in DOMAIN bindings :
        /\ Superseded(i, now) \in BindingRow
        /\ Superseded(i, now).version = bindings[i].version /\ Superseded(i, now).from = bindings[i].from
        /\ Superseded(i, now).approval = bindings[i].approval /\ Superseded(i, now).until = now
  BY <1>2, <1>3 DEF Superseded, BindingRow
<1>5. /\ approvals[a].version \in Versions /\ a \in Nat
  BY <1>1, <1>2, ApprovalFields
<1>6. /\ new \in BindingRow /\ new.version = approvals[a].version /\ new.from = now
      /\ new.until = Forever /\ new.approval = a
  BY <1>2, <1>3, <1>5 DEF Binding, BindingRow, Forever
<1>7. \A i \in 1 .. n : old[i] = (IF i = n THEN Superseded(i, now) ELSE bindings[i])
  BY <1>2, <1>3
<1>8. old \in Seq(BindingRow) /\ Len(old) = n
  <2>1. old \in [1 .. n -> BindingRow]
    BY <1>2, <1>3, <1>4
  <2>2. QED
    BY <1>3, <2>1
<1> HIDE DEF new, old, a, b
<1>9. /\ bindings' \in Seq(BindingRow) /\ Len(bindings') = n + 1
      /\ DOMAIN bindings' = 1 .. (n + 1)
      /\ \A i \in 1 .. n : bindings'[i] = old[i]
      /\ bindings'[n + 1] = new
  BY <1>1, <1>3, <1>6, <1>8
<1>10. \A i \in 1 .. n :
         /\ i < n => bindings'[i] = bindings[i]
         /\ bindings'[i].version = bindings[i].version /\ bindings'[i].from = bindings[i].from
         /\ bindings'[i].approval = bindings[i].approval
         /\ i = n => bindings'[i].until = now
  <2>1. SUFFICES ASSUME NEW i \in 1 .. n
                 PROVE  /\ i < n => bindings'[i] = bindings[i]
                        /\ bindings'[i].version = bindings[i].version /\ bindings'[i].from = bindings[i].from
                        /\ bindings'[i].approval = bindings[i].approval
                        /\ i = n => bindings'[i].until = now
    OBVIOUS
  <2>2. i \in DOMAIN bindings /\ bindings'[i] = (IF i = n THEN Superseded(i, now) ELSE bindings[i])
    BY <1>3, <1>7, <1>9
  <2> HIDE DEF n
  <2>3. CASE i = n
    BY <1>3, <1>4, <2>2, <2>3
  <2>4. CASE i # n
    BY <2>2, <2>4
  <2>5. QED
    BY <2>3, <2>4
<1>11. QED
  BY <1>2, <1>3, <1>6, <1>9, <1>10 DEF a, b

\* A binding other than the new one is in force at an earlier time as before.
LEMMA EarlierTimes ==
  ASSUME GovernanceInv, NEW s \in Sessions, Switch(s), NEW t \in Nat, t < now
  PROVE  /\ \A i \in DOMAIN bindings : i \in DOMAIN bindings' /\ (Effective(bindings'[i], t) <=> Effective(bindings[i], t))
         /\ \A i \in DOMAIN bindings' : Effective(bindings'[i], t) => i \in DOMAIN bindings
<1> DEFINE n == Len(bindings)
<1>1. /\ n \in Nat /\ DOMAIN bindings' = 1 .. (n + 1)
      /\ \A i \in 1 .. n :
           /\ i < n => bindings'[i] = bindings[i]
           /\ bindings'[i].from = bindings[i].from
           /\ i = n => bindings'[i].until = now
      /\ bindings'[n + 1].from = now /\ now \in Nat
  BY SwitchRows
<1>2. /\ TypeOK /\ Windows /\ DOMAIN bindings = 1 .. n
  BY BindingFields DEF GovernanceInv
<1>3. n > 0 => bindings[n].until = Forever
  BY <1>2 DEF Windows
<1> HIDE DEF n
<1>4. ASSUME NEW i \in DOMAIN bindings
      PROVE  i \in DOMAIN bindings' /\ (Effective(bindings'[i], t) <=> Effective(bindings[i], t))
  <2>1. i \in 1 .. n /\ i \in DOMAIN bindings'
    BY <1>1, <1>2
  <2>2. CASE i < n
    BY <1>1, <2>1, <2>2
  <2>3. CASE i = n
    <3>1. bindings'[i].until = now /\ bindings[i].until = Forever /\ bindings'[i].from = bindings[i].from
      BY <1>1, <1>3, <2>1, <2>3
    <3>2. QED
      BY <2>1, <3>1 DEF Effective
  <2>4. QED
    BY <1>1, <2>1, <2>2, <2>3
<1>5. ASSUME NEW i \in DOMAIN bindings', Effective(bindings'[i], t)
      PROVE  i \in DOMAIN bindings
  <2>1. i # n + 1
    BY <1>1, <1>5 DEF Effective
  <2>2. QED
    BY <1>1, <1>2, <2>1
<1>6. QED
  BY <1>4, <1>5

LEMMA SwitchWindows ==
  ASSUME GovernanceInv, NEW s \in Sessions, Switch(s)
  PROVE  Windows' /\ Covered'
<1> DEFINE n == Len(bindings)
<1>1. /\ n \in Nat /\ DOMAIN bindings' = 1 .. (n + 1) /\ Len(bindings') = n + 1
      /\ \A i \in 1 .. n :
           /\ i < n => bindings'[i] = bindings[i]
           /\ bindings'[i].from = bindings[i].from
           /\ i = n => bindings'[i].until = now
           /\ bindings[i].from < now
      /\ bindings'[n + 1].from = now /\ bindings'[n + 1].until = Forever /\ now \in Nat /\ now > 0
  BY SwitchRows
<1>2. /\ TypeOK /\ Windows /\ Covered /\ DOMAIN bindings = 1 .. n /\ now' = now
      /\ \A i \in 1 .. n : bindings[i].from \in Nat /\ bindings[i].until \in Nat
  BY BindingFields DEF GovernanceInv, Switch
<1>3. \A b, c \in 1 .. n : b < c => bindings[b].until # Forever /\ bindings[b].until <= bindings[c].from
  BY <1>2 DEF Windows
<1> HIDE DEF n
<1>4. Windows'
  <2>1. \A b \in 1 .. (n + 1) : bindings'[b].from <= now
    BY <1>1, <1>2
  <2>2. ASSUME NEW b \in 1 .. (n + 1), NEW c \in 1 .. (n + 1), b < c
        PROVE  bindings'[b].until # Forever /\ bindings'[b].until <= bindings'[c].from
    <3>1. b \in 1 .. n
      BY <1>1, <2>2
    <3>2. CASE b = n
      BY <1>1, <2>2, <3>1, <3>2 DEF Forever
    <3>3. CASE b < n /\ c <= n
      <4>1. c \in 1 .. n
        BY <1>1, <3>3
      <4>2. QED
        BY <1>1, <1>3, <2>2, <3>1, <3>3, <4>1
    <3>4. CASE b < n /\ c = n + 1
      <4>1. n \in 1 .. n
        BY <1>1, <3>1
      <4>2. bindings[b].until # Forever /\ bindings[b].until <= bindings[n].from
        BY <1>3, <3>1, <3>4, <4>1
      <4>3. QED
        BY <1>1, <1>2, <3>1, <3>4, <4>1, <4>2
    <3>5. QED
      BY <1>1, <2>2, <3>1, <3>2, <3>3, <3>4
  <2>3. QED
    BY <1>1, <1>2, <2>1, <2>2 DEF Windows
<1>5. Covered'
  <2>1. SUFFICES ASSUME NEW t \in 0 .. MaxTime, NEW i \in DOMAIN bindings', bindings'[i].from <= t
                 PROVE  \E j \in DOMAIN bindings' : Effective(bindings'[j], t)
    BY DEF Covered, Effective
  <2>2. t \in Nat
    BY <2>1
  <2>3. CASE now <= t
    <3>1. Effective(bindings'[n + 1], t) /\ n + 1 \in DOMAIN bindings'
      BY <1>1, <2>3 DEF Effective
    <3>2. QED
      BY <3>1
  <2>4. CASE t < now
    <3>1. i \in 1 .. n /\ bindings[i].from <= t
      BY <1>1, <2>1, <2>2, <2>4
    <3>2. PICK j \in DOMAIN bindings : Effective(bindings[j], t)
      BY <1>2, <2>1, <3>1 DEF Covered
    <3>3. QED
      BY <2>2, <2>4, <3>2, EarlierTimes
  <2>5. QED
    BY <1>1, <2>2, <2>3, <2>4
<1>6. QED
  BY <1>4, <1>5

LEMMA SwitchApproved ==
  ASSUME GovernanceInv, NEW s \in Sessions, Switch(s)
  PROVE  ChangesApproved'
<1> DEFINE n == Len(bindings)
           a == task[s]
<1>1. /\ n \in Nat /\ DOMAIN bindings' = 1 .. (n + 1)
      /\ \A i \in 1 .. n :
           /\ bindings'[i].version = bindings[i].version /\ bindings'[i].approval = bindings[i].approval
      /\ bindings'[n + 1].version = approvals[a].version /\ bindings'[n + 1].approval = a
      /\ approvals[a].expected = n
  BY SwitchRows
<1>2. /\ TypeOK /\ ChangesApproved /\ SessionTasks /\ StampedChange /\ DOMAIN bindings = 1 .. n
      /\ pc[s] = "stamped" /\ Decided(a, "approved")
  BY BindingFields DEF GovernanceInv, Switch
<1>3. /\ a \in DOMAIN approvals /\ approvals[a].status = "pending" /\ approvals[a].kind \in {"activation", "rollback"}
  BY <1>2, ApprovalFields DEF SessionTasks, StampedChange, Pending, OfVersion
<1>4. a # NoTask
  BY <1>2, <1>3, ApprovalFields DEF NoTask
<1>5. Kept /\ approvals'[a].status = "approved"
  BY <1>2, <1>3, DecisionKept
<1> HIDE DEF n, a
<1>6. SUFFICES ASSUME NEW b \in DOMAIN bindings', bindings'[b].approval # NoTask
               PROVE  LET p == bindings'[b].approval IN
                        /\ p \in DOMAIN approvals' /\ approvals'[p].status = "approved"
                        /\ approvals'[p].version = bindings'[b].version
                        /\ approvals'[p].kind \in {"activation", "rollback"} /\ approvals'[p].expected = b - 1
                        /\ \A c \in DOMAIN bindings' \ {b} : bindings'[c].approval # p
  BY DEF ChangesApproved
<1>7. \A i \in 1 .. n : bindings[i].approval # a
  BY <1>2, <1>3, <1>4 DEF ChangesApproved
<1>8. CASE b = n + 1
  <2>1. /\ a \in DOMAIN approvals' /\ approvals'[a].version = approvals[a].version
        /\ approvals'[a].kind = approvals[a].kind /\ approvals'[a].expected = approvals[a].expected
    BY <1>3, <1>5 DEF Kept, SameRequest
  <2>2. n = b - 1
    BY <1>1, <1>8
  <2>3. \A c \in DOMAIN bindings' \ {b} : c \in 1 .. n /\ bindings'[c].approval # a
    BY <1>1, <1>7, <1>8
  <2>4. QED
    BY <1>1, <1>3, <1>5, <1>8, <2>1, <2>2, <2>3
<1>9. CASE b # n + 1
  <2>1. b \in 1 .. n
    BY <1>1, <1>6, <1>9
  <2> DEFINE p == bindings[b].approval
  <2>2. /\ p \in DOMAIN approvals /\ approvals[p].status = "approved"
        /\ approvals[p].version = bindings[b].version
        /\ approvals[p].kind \in {"activation", "rollback"} /\ approvals[p].expected = b - 1
        /\ \A c \in DOMAIN bindings \ {b} : bindings[c].approval # p
    BY <1>1, <1>2, <1>6, <2>1 DEF ChangesApproved
  <2>3. /\ p \in DOMAIN approvals' /\ approvals'[p].status = "approved"
        /\ approvals'[p].version = approvals[p].version /\ approvals'[p].kind = approvals[p].kind
        /\ approvals'[p].expected = approvals[p].expected
    BY <1>5, <2>2 DEF Kept, SameRequest
  <2>4. \A c \in DOMAIN bindings' \ {b} : bindings'[c].approval # p
    BY <1>1, <1>2, <1>7, <2>1, <2>2
  <2>5. QED
    BY <1>1, <2>1, <2>2, <2>3, <2>4
<1>10. QED
  BY <1>8, <1>9

LEMMA SwitchStep ==
  ASSUME GovernanceInv, NEW s \in Sessions, Switch(s)
  PROVE  GovernanceInv'
<1>1. /\ TypeOK /\ SessionTasks /\ LocksExclusive /\ StampedChange /\ PendingIsCurrent
      /\ DraftsReviewed /\ PublishedReviewed /\ now <= MaxTime
      /\ pc[s] = "stamped" /\ Decided(task[s], "approved") /\ Leave(s)
      /\ UNCHANGED <<version, now, created, blocks>>
  BY DEF GovernanceInv, Switch
<1>2. /\ task[s] \in DOMAIN approvals /\ approvals[task[s]].status # "approved"
  BY <1>1 DEF SessionTasks, Pending
<1>3. bindings' \in Seq(BindingRow)
  BY SwitchRows
<1>4. TypeOK'
  BY <1>1, <1>2, <1>3, DecidedRows, SessionLeaves DEF TypeOK
<1>5. /\ Kept
      /\ \A b \in DOMAIN approvals' : Pending(b)' => b \in DOMAIN approvals /\ Pending(b)
      /\ \A b \in DOMAIN approvals : approvals'[b].status # approvals[b].status => b = task[s]
  BY <1>1, <1>2, DecisionKept
<1>6. Released
  BY <1>1, Left
<1>7. DecidedByHolder
  <2>1. \A r \in Sessions \ {s} : task[r] = task[s] =>
          pc[r] \notin {"deciding", "stamped", "approving", "rejecting"}
    BY <1>1 DEF LocksExclusive, SessionTasks, StampedChange
  <2>2. \A r \in Sessions : task'[r] = task[s] =>
          pc'[r] \notin {"deciding", "stamped"} /\ pc'[r] \notin {"approving", "rejecting"}
    BY <1>1, <2>1, LastHolder
  <2>3. QED
    BY <1>5, <2>2 DEF DecidedByHolder
<1>8. SessionTasks' /\ LocksExclusive'
  BY <1>1, <1>5, <1>6, <1>7, SessionsPreserved
<1>9. StampedChange'
  <2>1. \A r \in Sessions : pc'[r] # "stamped"
    BY <1>1, SessionLeaves DEF LocksExclusive
  <2>2. QED
    BY <2>1 DEF StampedChange
<1>10. PendingUntouched /\ ReviewsUntouched
  BY <1>1, <1>5, SameVersions DEF PendingUntouched
<1>11. PendingIsCurrent' /\ DraftsReviewed' /\ PublishedReviewed'
  BY <1>1, <1>5, <1>10, PendingPreserved, ReviewsPreserved
<1>12. Windows' /\ Covered' /\ ChangesApproved'
  BY SwitchWindows, SwitchApproved
<1>13. QED
  BY <1>1, <1>4, <1>8, <1>9, <1>11, <1>12 DEF GovernanceInv

LEMMA CreateExecutionStep ==
  ASSUME GovernanceInv, NEW e \in Executions, CreateExecution(e)
  PROVE  GovernanceInv'
<1>1. /\ TypeOK /\ DraftsReviewed /\ created' = [created EXCEPT ![e] = now]
      /\ UNCHANGED <<version, approvals, bindings, sessions, now, blocks>>
  BY DEF GovernanceInv, CreateExecution, tables
<1>2. TypeOK'
  BY <1>1 DEF TypeOK, sessions
<1>3. Released /\ Kept /\ DecidedByHolder /\ StampedUntouched /\ ReviewsUntouched
  BY <1>1, SameSessions, SameApprovals, SameVersions
<1>4. PendingUntouched
  BY <1>1 DEF PendingUntouched, Pending
<1>5. QED
  BY <1>1, <1>2, <1>3, <1>4, AllPreserved
-----------------------------------------------------------------------------
(* The theorems. *)

LEMMA InitGovernance ==
  ASSUME Init
  PROVE  GovernanceInv
<1>1. \A v \in Versions : version[v] \in {Absent} \cup {Frozen(c, None) : c \in Contents}
  BY DEF Init
<1>2. version \in [Versions -> VersionRow]
  <2>1. Absent \in VersionRow
    BY DEF Absent, VersionRow, Statuses, Governances, NoTask
  <2>2. \A c \in Contents : Frozen(c, None) \in VersionRow
    BY DEF Frozen, VersionRow, Statuses, Governances, NoTask
  <2>3. QED
    BY <2>1, <2>2 DEF Init
<1>3. approvals = <<>> /\ DOMAIN approvals = {} /\ approvals \in Seq(ApprovalRow)
  BY DEF Init
<1>4. now = 0 /\ pc = [s \in Sessions |-> "idle"]
  BY DEF Init
<1>5. \/ bindings = <<>>
      \/ \E v \in Published : bindings = <<Binding(v, 0, NoTask, 0)>>
  BY DEF Init
<1>6. /\ bindings \in Seq(BindingRow) /\ Len(bindings) <= 1 /\ DOMAIN bindings = 1 .. Len(bindings)
      /\ \A b \in DOMAIN bindings : /\ b = 1 /\ bindings[b].from = 0 /\ bindings[b].until = Forever
                                    /\ bindings[b].approval = NoTask
  <2>1. CASE bindings = <<>>
    BY <2>1
  <2>2. CASE \E v \in Published : bindings = <<Binding(v, 0, NoTask, 0)>>
    <3>1. PICK v \in Published : bindings = <<Binding(v, 0, NoTask, 0)>>
      BY <2>2
    <3>2. Binding(v, 0, NoTask, 0) \in BindingRow
      BY DEF Binding, BindingRow, NoTask, Forever, Versions
    <3>3. Binding(v, 0, NoTask, 0).from = 0 /\ Binding(v, 0, NoTask, 0).until = Forever
          /\ Binding(v, 0, NoTask, 0).approval = NoTask
      BY DEF Binding
    <3>4. QED
      BY <3>1, <3>2, <3>3
  <2>3. QED
    BY <1>5, <2>1, <2>2
<1>7. TypeOK
  BY <1>2, <1>3, <1>4, <1>6 DEF Init, TypeOK, NoTask
<1>8. now <= MaxTime
  BY <1>4, GovernanceAssumption
<1>9. SessionTasks /\ LocksExclusive /\ StampedChange
  BY <1>4 DEF SessionTasks, LocksExclusive, StampedChange
<1>10. Windows
  <2>1. Len(bindings) \in Nat
    BY <1>6
  <2>2. \A b, c \in DOMAIN bindings : ~(b < c)
    BY <1>6
  <2>3. Len(bindings) > 0 => bindings[Len(bindings)].until = Forever
    BY <1>6, <2>1
  <2>4. \A b \in DOMAIN bindings : bindings[b].from <= now
    BY <1>4, <1>6
  <2>5. QED
    BY <2>2, <2>3, <2>4 DEF Windows
<1>11. Covered
  BY <1>6 DEF Covered, Effective
<1>12. ChangesApproved
  BY <1>6 DEF ChangesApproved
<1>13. PendingIsCurrent
  BY <1>3 DEF PendingIsCurrent
<1>14. \A v \in Versions : version[v].status \in {"absent", "active"} /\ version[v].approval = NoTask
  BY <1>1 DEF Absent, Frozen
<1>15. DraftsReviewed
  BY <1>14 DEF DraftsReviewed
<1>16. \A v \in Candidates : version[v].status = "absent"
  <2>1. \A v \in Candidates : v \in Versions /\ v \notin Published
    BY GovernanceAssumption DEF Versions
  <2>2. QED
    BY <2>1 DEF Init, Absent
<1>17. PublishedReviewed
  BY <1>16 DEF PublishedReviewed
<1>18. QED
  BY <1>7, <1>8, <1>9, <1>10, <1>11, <1>12, <1>13, <1>15, <1>17 DEF GovernanceInv

LEMMA NextGovernance ==
  ASSUME GovernanceInv, [Next]_vars
  PROVE  GovernanceInv'
<1>1. CASE DraftStep
  <2>1. ASSUME NEW v \in Drafts, NEW c \in Contents, CreateDraft(v, c) \/ UpdateDraft(v, c)
        PROVE  GovernanceInv'
    BY <2>1, CreateDraftStep, UpdateDraftStep
  <2>2. ASSUME NEW v \in Drafts, ValidateDraft(v) \/ SubmitReview(v)
        PROVE  GovernanceInv'
    BY <2>2, ValidateDraftStep, SubmitReviewStep
  <2>3. ASSUME NEW v \in Drafts, NEW c \in Candidates, Freeze(v, c)
        PROVE  GovernanceInv'
    BY <2>3, FreezeStep
  <2>4. ASSUME NEW v \in Versions, NEW target \in {"archived", "disabled", "deprecated"},
               RequestLifecycle(v, target)
        PROVE  GovernanceInv'
    BY <2>4, RequestLifecycleStep
  <2>5. ASSUME NEW v \in Candidates \cup Published, RequestActivation(v) \/ RequestRollback(v)
        PROVE  GovernanceInv'
    BY <2>5, RequestActivationStep, RequestRollbackStep
  <2>6. QED
    BY <1>1, <2>1, <2>2, <2>3, <2>4, <2>5, Zenon DEF DraftStep
<1>2. CASE DecisionStep
  <2>1. ASSUME NEW a \in DOMAIN approvals, NEW status \in {"rejected", "cancelled"}, Decide(a, status)
        PROVE  GovernanceInv'
    BY <2>1, DecideStep
  <2>2. ASSUME NEW a \in DOMAIN approvals, NEW s \in Sessions,
               BeginApprove(s, a) \/ BeginReview(s, a, "approving") \/ BeginReview(s, a, "rejecting")
        PROVE  GovernanceInv'
    BY <2>2, BeginApproveStep, BeginReviewStep
  <2>3. ASSUME NEW s \in Sessions, ApproveVersion(s) \/ ApproveChange(s) \/ Switch(s)
        PROVE  GovernanceInv'
    BY <2>3, ApproveVersionStep, ApproveChangeStep, SwitchStep
  <2>4. ASSUME NEW s \in Sessions, ReviewApprove(s) \/ ReviewReject(s) \/ RecordRejection(s) \/ Abort(s)
        PROVE  GovernanceInv'
    BY <2>4, ReviewApproveStep, ReviewRejectStep, RecordRejectionStep, AbortStep
  <2>5. QED
    BY <1>2, <2>1, <2>2, <2>3, <2>4, Zenon DEF DecisionStep
<1>3. CASE \E e \in Executions : CreateExecution(e)
  BY <1>3, CreateExecutionStep
<1>4. CASE UNCHANGED vars
  <2>1. /\ TypeOK /\ DraftsReviewed /\ UNCHANGED <<version, approvals, bindings, sessions, now, created, blocks>>
    BY <1>4 DEF GovernanceInv, vars, tables
  <2>2. TypeOK'
    BY <2>1 DEF TypeOK, sessions
  <2>3. Released /\ Kept /\ DecidedByHolder /\ StampedUntouched /\ ReviewsUntouched
    BY <2>1, SameSessions, SameApprovals, SameVersions
  <2>4. PendingUntouched
    BY <2>1 DEF PendingUntouched, Pending
  <2>5. QED
    BY <2>1, <2>2, <2>3, <2>4, AllPreserved
<1>5. QED
  BY <1>1, <1>2, <1>3, <1>4 DEF Next

\* The invariant the other theorems rest on: the locks that sessions hold keep
\* what they have checked, and the windows of the bindings follow each other.
THEOREM GovernanceInvariant == Spec => []GovernanceInv
<1>1. Init => GovernanceInv
  BY InitGovernance
<1>2. GovernanceInv /\ [Next]_vars => GovernanceInv'
  BY NextGovernance
<1>3. QED
  BY <1>1, <1>2, PTL DEF Spec

\* Every row, session and time stamp of the policy tables stays in its domain.
THEOREM GovernanceTypeCorrect == Spec => []TypeOK
<1>1. GovernanceInv => TypeOK
  BY DEF GovernanceInv
<1>2. QED
  BY <1>1, GovernanceInvariant, PTL

LEMMA OneBinding ==
  ASSUME GovernanceInv
  PROVE  OneEnforced
<1>1. TypeOK /\ Windows /\ Covered /\ now \in Nat /\ now <= MaxTime /\ MaxTime \in Nat
  BY GovernanceAssumption DEF GovernanceInv, TypeOK
<1>2. SUFFICES ASSUME NEW t \in 0 .. now
               PROVE  /\ \A i, j \in DOMAIN bindings :
                           Effective(bindings[i], t) /\ Effective(bindings[j], t) => i = j
                      /\ (\E i \in DOMAIN bindings : bindings[i].from <= t)
                           => \E i \in DOMAIN bindings : Effective(bindings[i], t)
  BY DEF OneEnforced
<1>3. t \in 0 .. MaxTime /\ t \in Nat
  BY <1>1
<1>4. ASSUME NEW i \in DOMAIN bindings, NEW j \in DOMAIN bindings, i < j,
             Effective(bindings[i], t), Effective(bindings[j], t)
      PROVE  FALSE
  <2>1. bindings[i].until # Forever /\ bindings[i].until <= bindings[j].from
    BY <1>1, <1>4 DEF Windows
  <2>2. bindings[j].from <= t /\ t < bindings[i].until
    BY <1>4, <2>1 DEF Effective
  <2>3. bindings[i].until \in Nat /\ bindings[j].from \in Nat
    BY <1>1, BindingFields
  <2>4. QED
    BY <1>3, <2>1, <2>2, <2>3
<1>5. \A i, j \in DOMAIN bindings : i < j \/ j < i \/ i = j
  BY <1>1, BindingFields
<1>6. QED
  BY <1>1, <1>3, <1>4, <1>5 DEF Covered

\* Once a version was bound, at every time exactly one binding is in force,
\* however many changes of the enforced version race.
THEOREM OneBindingInForce == Spec => []OneEnforced
<1>1. GovernanceInv => OneEnforced
  BY OneBinding
<1>2. QED
  BY <1>1, GovernanceInvariant, PTL

\* Every binding after the first was put in force by an approved change that
\* expected the binding it superseded, and by nothing else.
THEOREM ChangesAreApproved == Spec => []ChangesApproved
<1>1. GovernanceInv => ChangesApproved
  BY DEF GovernanceInv
<1>2. QED
  BY <1>1, GovernanceInvariant, PTL

\* A pending review or lifecycle approval is its version's current one and
\* carries the content the version has.
THEOREM PendingApprovalsCurrent == Spec => []PendingIsCurrent
<1>1. GovernanceInv => PendingIsCurrent
  BY DEF GovernanceInv
<1>2. QED
  BY <1>1, GovernanceInvariant, PTL

\* No version is published whose content a reviewer has not approved.
THEOREM PublishedVersionsReviewed == Spec => []PublishedReviewed
<1>1. GovernanceInv => PublishedReviewed
  BY DEF GovernanceInv
<1>2. QED
  BY <1>1, GovernanceInvariant, PTL

\* Only the commit of a change touches the bindings.
LEMMA OnlySwitch ==
  ASSUME GovernanceInv, [Next]_vars, bindings' # bindings
  PROVE  \E s \in Sessions : Switch(s)
<1>1. ASSUME DraftStep
      PROVE  FALSE
  BY <1>1 DEF DraftStep, CreateDraft, UpdateDraft, ValidateDraft, SubmitReview, Freeze, RequestLifecycle,
              RequestActivation, RequestRollback, RequestChange
<1>2. ASSUME DecisionStep
      PROVE  \E s \in Sessions : Switch(s)
  BY <1>2 DEF DecisionStep, Decide, BeginApprove, BeginReview, ApproveVersion, ApproveChange,
              ReviewApprove, ReviewReject, RecordRejection, Abort, Grant, Blocked, Refuse, tables
<1>3. ASSUME NEW e \in Executions, CreateExecution(e)
      PROVE  FALSE
  BY <1>3 DEF CreateExecution, tables
<1>4. ~UNCHANGED vars
  BY DEF vars, tables
<1>5. QED
  BY <1>1, <1>2, <1>3, <1>4 DEF Next

\* Whatever lifecycle change is approved meanwhile, the version that comes into
\* force is active at that moment.
THEOREM ActiveWhenBound == Spec => BoundVersionActive
<1>1. ASSUME GovernanceInv, [Next]_vars, Len(bindings') > Len(bindings)
      PROVE  version'[bindings'[Len(bindings')].version].status = "active"
  <2>1. bindings' # bindings
    <3>1. Len(bindings) \in Nat
      BY BindingFields DEF GovernanceInv
    <3>2. QED
      BY <1>1, <3>1
  <2>2. PICK s \in Sessions : Switch(s)
    BY <1>1, <2>1, OnlySwitch
  <2>3. bindings'[Len(bindings')].version = approvals[task[s]].version
    BY <1>1, <2>2, SwitchRows
  <2>4. version[approvals[task[s]].version].status = "active" /\ version' = version
    BY <1>1, <2>2 DEF GovernanceInv, StampedChange, Switch
  <2>5. QED
    BY <2>3, <2>4
<1>2. GovernanceInv /\ [Next]_vars =>
        [Len(bindings') > Len(bindings) =>
           version'[bindings'[Len(bindings')].version].status = "active"]_vars
  BY <1>1
<1>3. QED
  BY <1>2, GovernanceInvariant, PTL DEF Spec, BoundVersionActive

\* The binding an execution resolves to never changes once a change with a
\* later time stamp commits: what a gate is decided by is fixed at creation.
THEOREM ResolutionIsStable == Spec => StableResolution
<1>1. ASSUME GovernanceInv, [Next]_vars, NEW e \in Executions,
             created[e] # None, Resolved(e)' # Resolved(e)
      PROVE  created[e] >= bindings'[Len(bindings')].from
  <2>1. created[e] \in Nat /\ TypeOK
    BY <1>1 DEF GovernanceInv, TypeOK
  <2>2. created'[e] = created[e]
    <3>1. ASSUME NEW f \in Executions, CreateExecution(f)
          PROVE  created'[e] = created[e]
      BY <1>1, <3>1, <2>1 DEF CreateExecution, TypeOK
    <3>2. ASSUME DraftStep
          PROVE  created' = created
      BY <3>2 DEF DraftStep, CreateDraft, UpdateDraft, ValidateDraft, SubmitReview, Freeze, RequestLifecycle,
                  RequestActivation, RequestRollback, RequestChange
    <3>3. ASSUME DecisionStep
          PROVE  created' = created
      BY <3>3 DEF DecisionStep, Decide, BeginApprove, BeginReview, ApproveVersion, ApproveChange, Switch,
                  ReviewApprove, ReviewReject, RecordRejection, Abort, Grant, Blocked, Refuse
    <3>4. UNCHANGED vars => created' = created
      BY DEF vars
    <3>5. QED
      BY <1>1, <3>1, <3>2, <3>3, <3>4 DEF Next
  <2>3. bindings' # bindings
    BY <1>1, <2>2 DEF Resolved
  <2>4. PICK s \in Sessions : Switch(s)
    BY <1>1, <2>3, OnlySwitch
  <2>5. bindings'[Len(bindings')].from = now /\ now \in Nat
    BY <1>1, <2>4, SwitchRows
  <2>6. SUFFICES ASSUME created[e] < now
                 PROVE  FALSE
    BY <2>1, <2>5
  <2>7. \A i : i \in Resolved(e)' <=> i \in Resolved(e)
    BY <1>1, <2>1, <2>2, <2>4, <2>6, EarlierTimes DEF Resolved
  <2>8. QED
    BY <1>1, <2>7 DEF Resolved
<1>2. GovernanceInv /\ [Next]_vars =>
        [\A e \in Executions : created[e] # None /\ Resolved(e)' # Resolved(e) =>
           created[e] >= bindings'[Len(bindings')].from]_vars
  BY <1>1
<1>3. QED
  BY <1>2, GovernanceInvariant, PTL DEF Spec, StableResolution

\* Who may change the status of an approval, and from what.
LEMMA StatusChanges ==
  ASSUME GovernanceInv, [Next]_vars, NEW a \in DOMAIN approvals,
         approvals'[a].status # approvals[a].status
  PROVE  \/ Pending(a)
         \/ /\ OfVersion(a) /\ approvals[a].status # "approved"
            /\ \E s \in Sessions : pc[s] \in {"approving", "rejecting"} /\ task[s] = a
<1>1. TypeOK /\ SessionTasks
  BY DEF GovernanceInv
<1>2. approvals' # approvals
  OBVIOUS
<1>3. ASSUME NEW b \in DOMAIN approvals, NEW st \in {"approved", "rejected", "cancelled"}, Decided(b, st)
      PROVE  a = b
  BY <1>1, <1>3, DecidedRows
<1>4. ASSUME DraftStep
      PROVE  FALSE
  <2>1. ASSUME NEW row \in ApprovalRow, approvals' = Append(approvals, row)
        PROVE  FALSE
    BY <1>1, <2>1, RequestedRows
  <2>2. ASSUME NEW v \in Versions, NEW kind \in {"review", "lifecycle"},
               NEW target \in Statuses \cup {"none"}, NEW b \in 1 .. MaxApprovals, Request(kind, v, target, b)
        PROVE  FALSE
    <3> DEFINE row == [kind |-> kind, version |-> v, content |-> version[v].content,
                       target |-> target, expected |-> 0, status |-> "pending"]
    <3>1. row \in ApprovalRow
      BY <1>1, VersionRows DEF ApprovalRow
    <3>2. approvals' = Append(approvals, row)
      BY <1>2, <2>2 DEF Request
    <3>3. QED
      BY <2>1, <3>1, <3>2
  <2>3. ASSUME NEW v \in Versions, NEW kind \in {"activation", "rollback"}, NEW b \in Nat, RequestChange(kind, v, b)
        PROVE  FALSE
    <3> DEFINE row == [kind |-> kind, version |-> v, content |-> version[v].content,
                       target |-> "none", expected |-> b, status |-> "pending"]
    <3>1. row \in ApprovalRow
      BY <1>1, VersionRows DEF ApprovalRow
    <3>2. approvals' = Append(approvals, row)
      BY <2>3 DEF RequestChange
    <3>3. QED
      BY <2>1, <3>1, <3>2
  <2>4. ASSUME NEW v \in Drafts, SubmitReview(v)
        PROVE  FALSE
    BY <2>2, <2>4 DEF SubmitReview, Versions
  <2>5. ASSUME NEW v \in Versions, NEW target \in {"archived", "disabled", "deprecated"},
               RequestLifecycle(v, target)
        PROVE  FALSE
    <3>1. target \in Statuses
      BY DEF Statuses
    <3>2. QED
      BY <2>2, <2>5, <3>1 DEF RequestLifecycle
  <2>6. ASSUME NEW v \in Candidates \cup Published, RequestActivation(v) \/ RequestRollback(v)
        PROVE  FALSE
    <3>1. Len(bindings) \in Nat /\ DOMAIN bindings = 1 .. Len(bindings)
      BY <1>1, BindingFields
    <3>2. QED
      BY <2>3, <2>6, <3>1 DEF RequestActivation, RequestRollback, Versions
  <2>7. ASSUME NEW v \in Drafts, NEW c,
               CreateDraft(v, c) \/ UpdateDraft(v, c) \/ ValidateDraft(v) \/ Freeze(v, c)
        PROVE  FALSE
    BY <1>2, <2>7 DEF CreateDraft, UpdateDraft, ValidateDraft, Freeze
  <2>8. QED
    BY <1>4, <2>4, <2>5, <2>6, <2>7, Zenon DEF DraftStep
<1>5. ASSUME DecisionStep
      PROVE  \/ Pending(a)
             \/ /\ OfVersion(a) /\ approvals[a].status # "approved"
                /\ \E s \in Sessions : pc[s] \in {"approving", "rejecting"} /\ task[s] = a
  <2>1. ASSUME NEW b \in DOMAIN approvals, NEW status \in {"rejected", "cancelled"}, Decide(b, status)
        PROVE  Pending(a)
    BY <1>3, <2>1 DEF Decide
  <2>2. ASSUME NEW b, NEW s \in Sessions,
               BeginApprove(s, b) \/ BeginReview(s, b, "approving") \/ BeginReview(s, b, "rejecting")
        PROVE  FALSE
    BY <1>2, <2>2 DEF BeginApprove, BeginReview, tables
  <2>3. ASSUME NEW s \in Sessions, ApproveVersion(s) \/ ApproveChange(s) \/ Switch(s)
        PROVE  Pending(a)
    <3>1. Pending(task[s]) /\ task[s] \in DOMAIN approvals
      BY <1>1, <2>3 DEF ApproveVersion, ApproveChange, Switch, SessionTasks
    <3>2. Decided(task[s], "approved")
      BY <1>2, <2>3 DEF ApproveVersion, ApproveChange, Switch, Grant, Blocked, Refuse, tables
    <3>3. QED
      BY <1>3, <3>1, <3>2
  <2>4. ASSUME NEW s \in Sessions, ReviewApprove(s) \/ ReviewReject(s)
        PROVE  OfVersion(a) /\ approvals[a].status # "approved"
               /\ pc[s] \in {"approving", "rejecting"} /\ task[s] = a
    <3>1. /\ pc[s] \in {"approving", "rejecting"} /\ task[s] \in DOMAIN approvals
          /\ OfVersion(task[s]) /\ approvals[task[s]].status # "approved"
      BY <1>1, <2>4 DEF ReviewApprove, ReviewReject, SessionTasks
    <3>2. Decided(task[s], "approved") \/ Decided(task[s], "rejected")
      BY <1>2, <2>4 DEF ReviewApprove, ReviewReject, Grant, Blocked, Refuse, tables
    <3>3. QED
      BY <1>3, <3>1, <3>2
  <2>5. ASSUME NEW s \in Sessions, RecordRejection(s) \/ Abort(s)
        PROVE  FALSE
    BY <1>2, <2>5 DEF RecordRejection, Abort, tables
  <2>6. QED
    BY <1>5, <2>1, <2>2, <2>3, <2>4, <2>5, Zenon DEF DecisionStep
<1>6. ASSUME NEW e \in Executions, CreateExecution(e)
      PROVE  FALSE
  BY <1>2, <1>6 DEF CreateExecution, tables
<1>7. ~UNCHANGED vars
  BY <1>2 DEF vars, tables
<1>8. QED
  BY <1>4, <1>5, <1>6, <1>7 DEF Next

\* Only a decide_review that read an approval earlier decides it a second time,
\* and it never revokes what was granted or touches a change of the enforced
\* version: the locks of policy and version keep approvals from under its feet.
THEOREM DecisionsStand == Spec => DecisionStands
<1>1. GovernanceInv /\ [Next]_vars =>
        [\A a \in DOMAIN approvals :
           ~Pending(a) /\ approvals'[a].status # approvals[a].status =>
             /\ OfVersion(a) /\ approvals[a].status # "approved"
             /\ \E s \in Sessions : pc[s] \in {"approving", "rejecting"} /\ task[s] = a]_vars
  BY StatusChanges
<1>2. QED
  BY <1>1, GovernanceInvariant, PTL DEF Spec, DecisionStands
=============================================================================
