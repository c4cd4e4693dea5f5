---------------------------- MODULE StagedExports ----------------------------
(***************************************************************************)
(* Staged exports: staging, approval, rejection, posting and rollback      *)
(* (app/services/staging_service.py, app/models/staging.py).               *)
(*                                                                         *)
(* Every request has a session of its own: it loads the row, checks its    *)
(* status, may call the destination system, and commits the columns that   *)
(* differ from the row it has loaded; the entry of the audit trail is a    *)
(* commit of its own. Nothing locks the row, so between the check and the  *)
(* commit any other request may have changed it.                           *)
(*                                                                         *)
(* The exports are those of one invoice to one destination: no operation   *)
(* relates others.                                                         *)
(***************************************************************************)
EXTENDS Naturals, FiniteSets

CONSTANTS
    Exports,   \* ids of StagedExport rows
    Requests,  \* concurrent calls of the service
    Data,      \* payloads: prepared, or modified by an approver
    MaxFaults, \* bound: calls that fail or are killed
    NoData, NoExport

ASSUME StagingAssumption ==
    /\ MaxFaults \in Nat
    /\ NoData \notin Data
    /\ NoExport \notin Exports

VARIABLES
    row,        \* StagedExport: staging_status, prepared_, approved_, posted_data
    trail,      \* StagingAuditTrail: export, action, data_snapshot
    pc,         \* what each request does next
    op, on,     \* its operation and its export
    seen,       \* the row as it has loaded it
    payload,    \* the data it stores, sends, or enters in the trail
    approvals,  \* history: pairs of an export and data whose approval was committed
    rejections, \* history: the same of rejections
    delivered,  \* what the destination system has received
    reversed,   \* what it was asked to take back
    faults

vars == <<row, trail, pc, op, on, seen, payload, approvals, rejections,
          delivered, reversed, faults>>

Statuses == {"none", "prepared", "approved", "rejected", "posted", "rolled_back"}
Ops == {"stage", "approve", "reject", "post", "rollback"}

\* How the trail calls an operation, and what the operation makes of the row.
Action == [stage |-> "created", approve |-> "approved", reject |-> "rejected",
           post |-> "posted", rollback |-> "rolled_back"]
Actions == {"created", "approved", "rejected", "posted", "rolled_back"}
NewStatus == [stage |-> "prepared", approve |-> "approved", reject |-> "rejected",
              post |-> "posted", rollback |-> "rolled_back"]

\* can_approve, can_post, can_rollback; nothing sets UNDER_REVIEW.
Required == [approve |-> "prepared", reject |-> "prepared",
             post |-> "approved", rollback |-> "posted"]

Value == Data \union {NoData}
Row == [status : Statuses, prepared : Value, approved : Value, posted : Value]
NoRow == [status |-> "none", prepared |-> NoData, approved |-> NoData, posted |-> NoData]
Entry == Exports \X Actions \X Value

TypeOK ==
    /\ row \in [Exports -> Row]
    /\ trail \subseteq Entry
    /\ pc \in [Requests -> {"idle", "call", "commit", "audit"}]
    /\ op \in [Requests -> Ops]
    /\ on \in [Requests -> Exports \union {NoExport}]
    /\ seen \in [Requests -> Row]
    /\ payload \in [Requests -> Value]
    /\ approvals \subseteq Exports \X Data
    /\ rejections \subseteq Exports \X Data
    /\ delivered \subseteq Exports \X Data
    /\ reversed \subseteq Exports
    /\ faults \in Nat

Init ==
    /\ row = [e \in Exports |-> NoRow]
    /\ trail = {}
    /\ pc = [r \in Requests |-> "idle"]
    /\ op = [r \in Requests |-> "stage"]
    /\ on = [r \in Requests |-> NoExport]
    /\ seen = [r \in Requests |-> NoRow]
    /\ payload = [r \in Requests |-> NoData]
    /\ approvals = {}
    /\ rejections = {}
    /\ delivered = {}
    /\ reversed = {}
    /\ faults = 0

-----------------------------------------------------------------------------

\* r goes on to `step` of operation o on e, of which it has loaded the row s.
Proceed(r, o, e, s, d, step) ==
    /\ pc[r] = "idle"
    /\ pc' = [pc EXCEPT ![r] = step]
    /\ op' = [op EXCEPT ![r] = o]
    /\ on' = [on EXCEPT ![r] = e]
    /\ seen' = [seen EXCEPT ![r] = s]
    /\ payload' = [payload EXCEPT ![r] = d]
    /\ UNCHANGED <<row, trail, approvals, rejections, delivered, reversed, faults>>

Open == {e \in Exports : row[e].status = "prepared"}

\* stage_export refuses a second open export. With two of them the query for "the" open
\* one raises, which counts as none.
StageCheck(r, d) ==
    /\ Cardinality(Open) # 1
    /\ Proceed(r, "stage", NoExport, NoRow, d, "commit")

Load(r, o, e, d, step) ==
    /\ row[e].status = Required[o]
    /\ Proceed(r, o, e, row[e], d, step)

\* The approver takes the prepared data or gives data of his own.
ApproveCheck(r, e, d) == Load(r, "approve", e, d, "commit")

RejectCheck(r, e) == Load(r, "reject", e, row[e].prepared, "commit")

\* Mutants: the data as prepared is posted; the row is marked before the call.
PostPrepared(r, e) == Load(r, "post", e, row[e].prepared, "call")
PostMarkedFirst(r, e) == Load(r, "post", e, row[e].approved, "commit")

\* approved_data or prepared_data
PostCheck(r, e) ==
    Load(r, "post", e,
         IF row[e].approved # NoData THEN row[e].approved ELSE row[e].prepared, "call")

RollbackCheck(r, e) == Load(r, "rollback", e, row[e].posted, "call")

\* _post_to_destination_system
Deliver(r) ==
    /\ pc[r] = "call" /\ op[r] = "post"
    /\ delivered' = delivered \union {<<on[r], payload[r]>>}
    /\ pc' = [pc EXCEPT ![r] = "commit"]
    /\ UNCHANGED <<row, trail, op, on, seen, payload, approvals, rejections, reversed, faults>>

\* _rollback_from_destination_system
Reverse(r) ==
    /\ pc[r] = "call" /\ op[r] = "rollback"
    /\ reversed' = reversed \union {on[r]}
    /\ pc' = [pc EXCEPT ![r] = "commit"]
    /\ UNCHANGED <<row, trail, op, on, seen, payload, approvals, rejections, delivered, faults>>

\* The row as the operation has changed it: mark_approved, mark_rejected, mark_posted.
Changed(r) ==
    [status   |-> NewStatus[op[r]],
     prepared |-> IF op[r] = "stage" THEN payload[r] ELSE seen[r].prepared,
     approved |-> IF op[r] = "approve" THEN payload[r] ELSE seen[r].approved,
     posted   |-> IF op[r] = "post" THEN payload[r] ELSE seen[r].posted]

\* What the session's commit writes: the columns that differ from the loaded row.
Saved(current, read, new) ==
    [status   |-> IF new.status = read.status THEN current.status ELSE new.status,
     prepared |-> IF new.prepared = read.prepared THEN current.prepared ELSE new.prepared,
     approved |-> IF new.approved = read.approved THEN current.approved ELSE new.approved,
     posted   |-> IF new.posted = read.posted THEN current.posted ELSE new.posted]

\* stage_export inserts its row under a new id.
Target(r) == IF op[r] = "stage" THEN {e \in Exports : row[e] = NoRow} ELSE {on[r]}

Commit(r, e) ==
    /\ pc[r] = "commit"
    /\ e \in Target(r)
    /\ row' = [row EXCEPT ![e] = Saved(@, seen[r], Changed(r))]
    /\ approvals' = IF op[r] = "approve" THEN approvals \union {<<e, payload[r]>>} ELSE approvals
    /\ rejections' = IF op[r] = "reject" THEN rejections \union {<<e, payload[r]>>} ELSE rejections
    /\ on' = [on EXCEPT ![r] = e]
    /\ pc' = [pc EXCEPT ![r] = "audit"]
    /\ UNCHANGED <<trail, op, seen, payload, delivered, reversed, faults>>

Return(r) ==
    /\ pc' = [pc EXCEPT ![r] = "idle"]
    /\ on' = [on EXCEPT ![r] = NoExport]
    /\ seen' = [seen EXCEPT ![r] = NoRow]
    /\ payload' = [payload EXCEPT ![r] = NoData]
    /\ op' = [op EXCEPT ![r] = "stage"]

\* _create_audit_trail
Audit(r) ==
    /\ pc[r] = "audit"
    /\ trail' = trail \union {<<on[r], Action[op[r]], payload[r]>>}
    /\ Return(r)
    /\ UNCHANGED <<row, approvals, rejections, delivered, reversed, faults>>

\* Mutant: the entry is made also when the commit has failed.
FailAudited(r) ==
    /\ pc[r] \in {"call", "commit"}
    /\ on[r] \in Exports
    /\ pc' = [pc EXCEPT ![r] = "audit"]
    /\ UNCHANGED <<row, trail, op, on, seen, payload, approvals, rejections, delivered, reversed,
                   faults>>

\* The destination refuses, a commit fails, the entry of the trail fails, which is only
\* logged, or the process is killed: what was done so far stays.
Fail(r) ==
    /\ pc[r] # "idle"
    /\ faults < MaxFaults
    /\ faults' = faults + 1
    /\ Return(r)
    /\ UNCHANGED <<row, trail, approvals, rejections, delivered, reversed>>

Next ==
    \E r \in Requests :
       \/ \E d \in Data : StageCheck(r, d)
       \/ \E e \in Exports :
             \/ \E d \in Data : ApproveCheck(r, e, d)
             \/ RejectCheck(r, e) \/ PostCheck(r, e) \/ RollbackCheck(r, e)
             \/ Commit(r, e)
       \/ Deliver(r) \/ Reverse(r) \/ Audit(r) \/ Fail(r)

Spec == Init /\ [][Next]_vars

-----------------------------------------------------------------------------
(* Properties                                                              *)

Gate == INSTANCE ApprovalGate WITH approved <- approvals

\* Whatever approvals, rejections, posts and rollbacks overlap, and wherever they fail,
\* the destination gets only data somebody has approved for that very export, and is
\* asked to take back only what it got: the service implements ApprovalGate.
Gated == Gate!Spec

\* A row that says POSTED names data that was delivered, and one that says ROLLED_BACK
\* was reversed, although a late commit may write over a row others have moved on.
RowIsTrue ==
    \A e \in Exports :
       /\ row[e].status = "posted" => <<e, row[e].posted>> \in delivered
       /\ row[e].status = "rolled_back" => e \in reversed

\* Each entry of the trail tells of what happened, with the data it happened to, although
\* it is written after the change and apart from it. That every change has its entry is
\* not so: _create_audit_trail only logs its failure, against "Complete audit trails"
\* (docs/idempotency_staging_implementation.md:377).
EntryIsTrue(e, action, d) ==
    /\ action = "created" => row[e].prepared = d
    /\ action = "approved" => <<e, d>> \in approvals
    /\ action = "rejected" => <<e, d>> \in rejections
    /\ action \in {"posted", "rolled_back"} => <<e, d>> \in delivered
    /\ action = "rolled_back" => e \in reversed
TrailIsTrue == \A x \in trail : EntryIsTrue(x[1], x[2], x[3])
=============================================================================
