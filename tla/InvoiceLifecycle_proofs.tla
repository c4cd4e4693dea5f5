----------------------- MODULE InvoiceLifecycle_proofs -----------------------
(***************************************************************************)
(* Proofs about the invoice lifecycle for any number of files, requests    *)
(* and workers, any retry limits, any number of reviews and faults.        *)
(***************************************************************************)
EXTENDS InvoiceLifecycle, FiniteSets, FiniteSetTheorems, TLAPS

USE DEF tables, uploadVars, approveVars, workerVars, history, PerTask, Exists

-----------------------------------------------------------------------------
(* Type correctness                                                        *)

\* A worker that is not idle holds a message.
HoldsMessage == \A w \in Workers : wpc[w] # "idle" => held[w] \in Message

Typed == TypeOK /\ HoldsMessage

\* What a commit writes is a row again.
LEMMA SavedRow ==
  ASSUME NEW current \in Row, NEW read \in Row, NEW new \in Row
  PROVE  Saved(current, read, new) \in Row
  BY DEF Saved, Row

\* What a worker may do next, faults included.
WorkerStep(w) ==
    Work(w) \/ ExportDoubted(w) \/ Interrupted(w) \/ Crash(w) \/ TimeLimit(w)

\* A commit over what was read keeps the types, and no row disappears by it.
LEMMA SaveRowTyped ==
  ASSUME Typed, NEW f \in Files, NEW read \in Row, NEW new \in Row, new.status # "none",
         SaveRow(f, read, new)
  PROVE  /\ row' \in [Files -> Row]
         /\ byHand' \in SUBSET Files
         /\ \A g \in Files : Exists(g) => Exists(g)'
  <1>1. row \in [Files -> Row] /\ byHand \in SUBSET Files
    BY DEF Typed, TypeOK
  <1>2. Saved(row[f], read, new) \in Row
    BY <1>1, SavedRow
  <1>3. row' = [row EXCEPT ![f] = Saved(row[f], read, new)]
    BY DEF SaveRow
  <1>4. byHand' \in {byHand, byHand \ {f}}
    BY DEF SaveRow
  <1>5. Saved(row[f], read, new).status \in {row[f].status, new.status}
    BY DEF Saved
  <1> QED
    BY <1>1, <1>2, <1>3, <1>4, <1>5

\* A message is a record of its three fields.
LEMMA MessageFields ==
  ASSUME NEW m \in Message
  PROVE  m.task \in Tasks /\ m.file \in Files /\ m.retries \in Nat /\ m.retries <= RetryLimit(m.task)
  BY LifecycleAssumption DEF Message

\* The first attempt of each task is a message.
LEMMA FirstMessage ==
  ASSUME NEW t \in Tasks, NEW f \in Files
  PROVE  [task |-> t, file |-> f, retries |-> 0] \in Message
  BY LifecycleAssumption DEF Message, RetryLimit, Tasks

\* Publishing a message keeps the queue's type, also if it is not a message.
LEMMA PublishType ==
  ASSUME queue \in [Message -> Nat], NEW m
  PROVE  [queue EXCEPT ![m] = @ + 1] \in [Message -> Nat]
  <1>1. CASE m \in Message
    BY <1>1
  <1>2. CASE m \notin Message
    BY <1>2
  <1> QED BY <1>1, <1>2

\* Counting one more task keeps the counter's type.
LEMMA CountType ==
  ASSUME NEW c \in PerTask, NEW t \in Tasks, NEW f \in Files
  PROVE  [c EXCEPT ![t][f] = @ + 1] \in PerTask
  OBVIOUS

\* The initial state is well typed.
LEMMA InitTyped == Init => Typed
  BY LifecycleAssumption DEF Init, Typed, TypeOK, HoldsMessage, Zero, NoRow, Row

\* Every step of an endpoint keeps the types.
LEMMA EndpointTyped ==
  ASSUME Typed,
         \/ \E u \in Uploaders : Upload(u) \/ UploadLost(u)
         \/ \E a \in Approvers : Approve(a) \/ ApproveLost(a)
         \/ ReviewRequest
  PROVE  Typed'
  <1> USE DEF Typed, HoldsMessage
  <1>1. ASSUME NEW u \in Uploaders, UploadCheck(u) PROVE Typed'
    BY <1>1 DEF TypeOK, UploadCheck
  <1>2. ASSUME NEW u \in Uploaders, UploadInsert(u) PROVE Typed'
    <2>1. [status |-> "received", state |-> "uploaded"] \in Row
      BY DEF Row, Statuses, States
    <2>2. row' \in [Files -> Row] /\ upc' \in [Uploaders -> {"idle", "insert", "enqueue", "done"}]
      BY <1>2, <2>1 DEF TypeOK, UploadInsert
    <2> QED
      BY <1>2, <2>2 DEF TypeOK, UploadInsert
  <1>3. ASSUME NEW u \in Uploaders, UploadEnqueue(u) PROVE Typed'
    <2>1. ufile[u] \in Files /\ "process" \in Tasks
      BY DEF TypeOK, Tasks
    <2>2. queue' \in [Message -> Nat] /\ enqueued' \in PerTask
      BY <1>3, <2>1, PublishType, CountType DEF TypeOK, UploadEnqueue, Delay
    <2> QED
      BY <1>3, <2>2 DEF TypeOK, UploadEnqueue
  <1>4. ASSUME NEW u \in Uploaders, UploadLost(u) PROVE Typed'
    BY <1>4 DEF TypeOK, UploadLost
  <1>5. ASSUME NEW a \in Approvers, ApproveCheck(a) PROVE Typed'
    BY <1>5 DEF TypeOK, ApproveCheck
  <1>6. ASSUME NEW a \in Approvers, ApproveCommit(a) PROVE Typed'
    <2>1. [status |-> "staged", state |-> "approved"] \in Row
      BY DEF Row, Statuses, States
    <2>2. row[afile[a]] \in Row /\ aseen[a] \in Row
      BY DEF TypeOK
    <2>3. afile[a] \in Files
      BY DEF TypeOK
    <2>4. row' \in [Files -> Row] /\ byHand' \in SUBSET Files
      BY <1>6, <2>1, <2>2, <2>3, SaveRowTyped DEF ApproveCommit
    <2>5. /\ approvals' \in [Files -> Nat]
          /\ apc' \in [Approvers -> {"idle", "commit", "enqueue", "done"}]
      BY <1>6, <2>3 DEF TypeOK, ApproveCommit
    <2>6. UNCHANGED <<extracted, exports, queue, uploadVars, afile, aseen, workerVars, enqueued,
                      started, redelivered, readies, disowned, lost, reviews, faults>>
      BY <1>6 DEF ApproveCommit
    <2> QED
      BY <2>4, <2>5, <2>6 DEF TypeOK
  <1>7. ASSUME NEW a \in Approvers, ApproveEnqueue(a) PROVE Typed'
    <2>1. afile[a] \in Files /\ "export" \in Tasks
      BY DEF TypeOK, Tasks
    <2>2. queue' \in [Message -> Nat] /\ enqueued' \in PerTask
      BY <1>7, <2>1, PublishType, CountType DEF TypeOK, ApproveEnqueue, Delay
    <2> QED
      BY <1>7, <2>2 DEF TypeOK, ApproveEnqueue
  <1>8. ASSUME NEW a \in Approvers, ApproveLost(a) PROVE Typed'
    BY <1>8 DEF TypeOK, ApproveLost
  <1>9. ASSUME NEW f \in Files, NEW s \in Statuses, 
               NEW ws \in {row[f].state} \union ReviewStates,
               Review(f, [status |-> s, state |-> ws])
        PROVE  Typed'
    <2>1. [status |-> s, state |-> ws] \in Row
      BY ReviewAssumption DEF TypeOK, Row
    <2>2. row' \in [Files -> Row] /\ readies' \in [Files -> Nat] /\ byHand' \in SUBSET Files
      BY <1>9, <2>1 DEF TypeOK, Review
    <2> QED
      BY <1>9, <2>2 DEF TypeOK, Review
  <1> QED
    BY <1>1, <1>2, <1>3, <1>4, <1>5, <1>6, <1>7, <1>8, <1>9 DEF Upload, Approve, ReviewRequest

\* The next attempt of a message is a message, while retries are left.
LEMMA NextMessage ==
  ASSUME NEW m \in Message, m.retries < RetryLimit(m.task)
  PROVE  NextAttempt(m) \in Message
  <1>1. m \in [task : Tasks, file : Files, retries : 0..(ProcessRetries + ExportRetries)]
    BY DEF Message
  <1>2. m.retries + 1 \in 0..(ProcessRetries + ExportRetries)
    BY <1>1, LifecycleAssumption DEF RetryLimit
  <1>3. m.retries + 1 <= RetryLimit(m.task)
    BY <1>1, LifecycleAssumption DEF RetryLimit
  <1> QED
    BY <1>1, <1>2, <1>3 DEF Message, NextAttempt

\* A worker that gives up its message is well typed.
LEMMA ReleaseTyped ==
  ASSUME Typed, NEW w \in Workers, Release(w)
  PROVE  /\ wpc' \in [Workers -> {"idle", "taken", "parse", "fail", "export", "retry", "ack"}]
         /\ held' \in [Workers -> Message \union {NoMessage}]
         /\ wseen' \in [Workers -> Row]
         /\ HoldsMessage'
  BY DEF Typed, TypeOK, HoldsMessage, Release, NoRow, Row

\* Sessions stay a matter of tasks, whatever spoils them.
LEMMA SpoilTyped ==
  ASSUME Typed, NEW w \in Workers, held[w] \in Message, MaySpoil(w)
  PROVE  broken' \in [Workers -> SUBSET Tasks]
  <1>1. held[w].task \in Tasks /\ broken \in [Workers -> SUBSET Tasks]
    BY MessageFields DEF Typed, TypeOK
  <1>2. PICK spoilt \in SUBSET {held[w].task} : broken' = [broken EXCEPT ![w] = @ \union spoilt]
    BY DEF MaySpoil
  <1>3. broken[w] \union spoilt \in SUBSET Tasks
    BY <1>1
  <1> QED
    BY <1>1, <1>2, <1>3

\* The export and its row are one commit, of well-typed values.
LEMMA ExportTyped ==
  ASSUME Typed, NEW w \in Workers, Export(w)
  PROVE  /\ held[w] \in Message /\ held[w].file \in Files
         /\ row' \in [Files -> Row] /\ byHand' \in SUBSET Files
         /\ exports' \in [Files -> Nat]
         /\ \A g \in Files : Exists(g) => Exists(g)'
  <1>1. held[w] \in Message /\ held[w].file \in Files
    BY MessageFields DEF Export, Typed, HoldsMessage
  <1>2. [status |-> "staged", state |-> "export_staged"] \in Row
    BY DEF Row, Statuses, States
  <1>3. wseen[w] \in Row
    BY DEF Typed, TypeOK
  <1>4. exports' \in [Files -> Nat]
    BY <1>1 DEF Typed, TypeOK, Export
  <1> QED
    BY <1>1, <1>2, <1>3, <1>4, SaveRowTyped DEF Export

\* The row that the exception branch writes over, and what it writes.
Read(w) == IF wseen[w] = NoRow THEN row[held[w].file] ELSE wseen[w]
Failed(w) == [status |-> "exception",
              state |-> IF held[w].task = "process" THEN "processing_failed"
                        ELSE "export_failed"]

\* Recording a failure is one commit, of well-typed values.
LEMMA FailureTyped ==
  ASSUME Typed, NEW w \in Workers, RecordFailure(w)
  PROVE  /\ held[w] \in Message /\ held[w].file \in Files
         /\ Read(w) \in Row /\ Failed(w) \in Row
         /\ SaveRow(held[w].file, Read(w), Failed(w))
         /\ row' \in [Files -> Row] /\ byHand' \in SUBSET Files
         /\ \A g \in Files : Exists(g) => Exists(g)'
  <1>1. held[w] \in Message /\ held[w].file \in Files
    BY MessageFields DEF RecordFailure, Typed, HoldsMessage
  <1>2. Failed(w) \in Row /\ Failed(w).status # "none"
    BY DEF Failed, Row, Statuses, States
  <1>3. Read(w) \in Row
    BY <1>1 DEF Typed, TypeOK, Read
  <1>4. SaveRow(held[w].file, Read(w), Failed(w))
    BY DEF RecordFailure, Read, Failed
  <1> QED
    BY <1>1, <1>2, <1>3, <1>4, SaveRowTyped

\* The first commit of a processing attempt, of well-typed values.
LEMMA StartTyped ==
  ASSUME Typed, NEW w \in Workers, StartProcess(w)
  PROVE  /\ held[w] \in Message /\ held[w].file \in Files
         /\ row' \in [Files -> Row] /\ byHand' \in SUBSET Files
         /\ \A g \in Files : Exists(g) => Exists(g)'
  <1>1. held[w] \in Message /\ held[w].file \in Files
    BY MessageFields DEF StartProcess, Typed, HoldsMessage
  <1>2. [status |-> "parsed", state |-> "processing"] \in Row
    BY DEF Row, Statuses, States
  <1>3. row[held[w].file] \in Row
    BY <1>1 DEF Typed, TypeOK
  <1> QED
    BY <1>1, <1>2, <1>3, SaveRowTyped DEF StartProcess

\* Every step of a worker keeps the types.
LEMMA WorkerTyped ==
  ASSUME Typed, NEW w \in Workers, WorkerStep(w)
  PROVE  Typed'
  <1> USE DEF Typed, HoldsMessage
  <1>1. ASSUME NEW m \in Message, Take(w, m) PROVE Typed'
    <2>1. m.task \in Tasks /\ m.file \in Files
      BY MessageFields
    <2>2. started' \in PerTask
      BY <1>1, <2>1, CountType DEF TypeOK, Take
    <2>3. queue' \in [Message -> Nat]
      BY <1>1 DEF TypeOK, Take
    <2> QED
      BY <1>1, <2>2, <2>3 DEF TypeOK, Take
  <1>2. CASE StartProcess(w)
    <2>1. held[w] \in Message /\ row' \in [Files -> Row] /\ byHand' \in SUBSET Files
      BY <1>2, StartTyped
    <2> QED
      BY <1>2, <2>1 DEF TypeOK, StartProcess
  <1>3. ASSUME NEW saved \in BOOLEAN, Parse(w, saved) PROVE Typed'
    <2>1. held[w].file \in Files
      BY <1>3, MessageFields DEF Parse
    <2>2. extracted' \in SUBSET Files
      BY <1>3, <2>1 DEF TypeOK, Parse
    <2> QED
      BY <1>3, <2>2 DEF TypeOK, Parse
  <1>4. CASE StartExport(w)
    <2>1. held[w].file \in Files
      BY <1>4, MessageFields DEF StartExport
    <2>2. wseen' \in [Workers -> Row]
      BY <1>4, <2>1 DEF TypeOK, StartExport
    <2>3. wpc' = [wpc EXCEPT ![w] = "export"] \/ wpc' = [wpc EXCEPT ![w] = "fail"]
      BY <1>4 DEF StartExport
    <2> QED
      BY <1>4, <2>2, <2>3 DEF TypeOK, StartExport
  <1>5. CASE ExportCommit(w)
    <2>1. /\ held[w] \in Message /\ row' \in [Files -> Row] /\ byHand' \in SUBSET Files
          /\ exports' \in [Files -> Nat]
      BY <1>5, ExportTyped DEF ExportCommit
    <2> QED
      BY <1>5, <2>1 DEF TypeOK, ExportCommit, Export
  <1>6. CASE ExportFails(w)
    BY <1>6 DEF TypeOK, ExportFails
  <1>7. CASE RecordFailure(w)
    <2>1. held[w] \in Message /\ row' \in [Files -> Row] /\ byHand' \in SUBSET Files
      BY <1>7, FailureTyped
    <2> QED
      BY <1>7, <2>1 DEF TypeOK, RecordFailure
  <1>8. CASE FailureUnrecorded(w)
    <2>1. held[w] \in Message /\ held[w].file \in Files /\ held[w].task \in Tasks
      BY <1>8, MessageFields DEF FailureUnrecorded
    <2>2. faults' \in Nat
      BY <1>8 DEF TypeOK, FailureUnrecorded
    <2>3. broken' \in [Workers -> SUBSET Tasks]
      BY <1>8, <2>1 DEF TypeOK, FailureUnrecorded
    <2> QED
      BY <1>8, <2>1, <2>2, <2>3 DEF TypeOK, FailureUnrecorded
  <1>9. CASE Retry(w)
    <2>1. held[w] \in Message
      BY <1>9 DEF Retry
    <2>2. queue' \in [Message -> Nat] /\ broken' \in [Workers -> SUBSET Tasks]
      <3>1. CASE held[w].retries < RetryLimit(held[w].task)
        BY <1>9, <3>1, PublishType DEF TypeOK, Retry
      <3>2. CASE ~(held[w].retries < RetryLimit(held[w].task))
        <4>1. queue' = queue /\ broken' = [broken EXCEPT ![w] = @ \ {held[w].task}]
          BY <1>9, <3>2 DEF Retry
        <4>2. broken[w] \ {held[w].task} \in SUBSET Tasks
          BY DEF TypeOK
        <4> QED
          BY <4>1, <4>2 DEF TypeOK
      <3> QED BY <3>1, <3>2
    <2> QED
      BY <1>9, <2>1, <2>2 DEF TypeOK, Retry
  <1>10. CASE Ack(w)
    BY <1>10, ReleaseTyped DEF TypeOK, Ack, Release
  <1>11. CASE Crash(w)
    <2>1. held[w] \in Message
      BY <1>11 DEF Crash
    <2>2. held[w].task \in Tasks /\ held[w].file \in Files
      BY <2>1, MessageFields
    <2>3. redelivered' \in PerTask
      BY <1>11, <2>2, CountType DEF TypeOK, Crash
    <2>4. queue' \in [Message -> Nat]
      BY <1>11, PublishType DEF TypeOK, Crash
    <2>5. /\ Release(w) /\ faults' \in Nat /\ lost' \in SUBSET Files
          /\ broken' \in [Workers -> SUBSET Tasks]
      BY <1>11 DEF TypeOK, Crash
    <2>6. Typed /\ Release(w)
      BY <2>5
    <2> QED
      BY <2>3, <2>4, <2>5, <2>6, ReleaseTyped DEF TypeOK, Release
  <1>12. CASE TimeLimit(w)
    <2>1. held[w].file \in Files
      BY <1>12, MessageFields DEF TimeLimit
    <2>2. /\ Release(w) /\ faults' \in Nat /\ lost' \in SUBSET Files
          /\ broken' \in [Workers -> SUBSET Tasks]
      BY <1>12, <2>1 DEF TypeOK, TimeLimit
    <2>3. queue' \in [Message -> Nat] /\ redelivered' \in PerTask
      BY <1>12 DEF TypeOK, TimeLimit
    <2> QED
      BY <2>2, <2>3, ReleaseTyped DEF TypeOK, Release
  <1>13. CASE StartUnusable(w)
    BY <1>13 DEF TypeOK, StartUnusable
  <1>14. CASE Interrupted(w)
    <2>1. held[w] \in Message
      BY <1>14 DEF Interrupted
    <2>2. MaySpoil(w)
      BY <1>14 DEF Interrupted
    <2>3. Typed
      OBVIOUS
    <2>4. broken' \in [Workers -> SUBSET Tasks]
      BY <2>1, <2>2, <2>3, SpoilTyped
    <2>5. /\ wpc' = [wpc EXCEPT ![w] = "fail"] /\ faults' = faults + 1
          /\ UNCHANGED <<tables, queue, uploadVars, approveVars, held, wseen, history, reviews>>
      BY <1>14 DEF Interrupted
    <2> QED
      BY <2>1, <2>4, <2>5 DEF TypeOK
  <1>15. CASE ExportDoubted(w)
    <2>1. Typed /\ Export(w) /\ MaySpoil(w)
      BY <1>15 DEF ExportDoubted
    <2>2. /\ held[w] \in Message /\ held[w].file \in Files
          /\ row' \in [Files -> Row] /\ byHand' \in SUBSET Files
          /\ exports' \in [Files -> Nat]
      BY <2>1, ExportTyped
    <2>3. broken' \in [Workers -> SUBSET Tasks]
      BY <2>1, <2>2, SpoilTyped
    <2>4. NoRow \in Row
      BY DEF NoRow, Row
    <2>5. disowned' \in [Files -> Nat] /\ wseen' \in [Workers -> Row]
      BY <1>15, <2>2, <2>4 DEF TypeOK, ExportDoubted
    <2> QED
      BY <1>15, <2>2, <2>3, <2>5 DEF TypeOK, ExportDoubted, Export
  <1> QED
    BY <1>1, <1>2, <1>3, <1>4, <1>5, <1>6, <1>7, <1>8, <1>9, <1>10, <1>11, <1>12, <1>13,
       <1>14, <1>15 DEF Work, WorkerStep

\* Every step keeps the types.
LEMMA StepTyped ==
  ASSUME Typed, [Next]_vars
  PROVE  Typed'
  <1>1. CASE UNCHANGED vars
    BY <1>1 DEF Typed, TypeOK, HoldsMessage, vars
  <1> QED
    BY <1>1, EndpointTyped, WorkerTyped DEF Next, WorkerStep

\* The types hold in every reachable state: in particular a retry is never
\* published beyond max_retries, and a worker at work holds a message.
THEOREM TypeCorrect == Spec => []Typed
  BY InitTyped, StepTyped, PTL DEF Spec

\* The rows, the messages and the workers keep their types: an invoice's status
\* and workflow_state stay among those the endpoints and the tasks write.
THEOREM TypesHold == Spec => []TypeOK
  <1>1. Typed => TypeOK
    BY DEF Typed
  <1> QED
    BY <1>1, TypeCorrect, PTL

-----------------------------------------------------------------------------
(* One first task per file                                                 *)

\* No step takes an invoice away.
LEMMA InvoicesStay ==
  ASSUME Typed, [Next]_vars, NEW f \in Files, Exists(f)
  PROVE  Exists(f)'
  <1> USE DEF Typed
  <1>1. ASSUME NEW u \in Uploaders, Upload(u) \/ UploadLost(u) PROVE Exists(f)'
    BY <1>1 DEF TypeOK, Upload, UploadCheck, UploadInsert, UploadEnqueue, UploadLost
  <1>2. ASSUME NEW a \in Approvers, Approve(a) \/ ApproveLost(a) PROVE Exists(f)'
    <2>1. CASE ApproveCommit(a)
      <3>1. [status |-> "staged", state |-> "approved"] \in Row
        BY DEF Row, Statuses, States
      <3>2. afile[a] \in Files /\ aseen[a] \in Row
        BY DEF TypeOK
      <3> QED
        BY <2>1, <3>1, <3>2, SaveRowTyped DEF ApproveCommit
    <2> QED
      BY <1>2, <2>1 DEF Approve, ApproveCheck, ApproveEnqueue, ApproveLost
  <1>3. CASE ReviewRequest
    BY <1>3 DEF TypeOK, ReviewRequest, Review, Statuses
  <1>4. ASSUME NEW w \in Workers, Work(w) PROVE Exists(f)'
    <2>1. CASE StartProcess(w)
      BY <2>1, StartTyped
    <2>2. CASE ExportCommit(w)
      BY <2>2, ExportTyped DEF ExportCommit
    <2>3. CASE RecordFailure(w)
      BY <2>3, FailureTyped
    <2>4. CASE row' = row
      BY <2>4
    <2> QED
      BY <1>4, <2>1, <2>2, <2>3, <2>4 DEF Work, Take, Parse, StartExport, ExportFails,
         StartUnusable, FailureUnrecorded, Retry, Ack, Release
  <1>5. ASSUME NEW w \in Workers,
               ExportDoubted(w) \/ Interrupted(w) \/ Crash(w) \/ TimeLimit(w)
        PROVE  Exists(f)'
    <2>1. CASE ExportDoubted(w)
      BY <2>1, ExportTyped DEF ExportDoubted
    <2> QED
      BY <1>5, <2>1 DEF Interrupted, Crash, TimeLimit, Release
  <1>6. CASE UNCHANGED vars
    BY <1>6 DEF vars
  <1> QED
    BY <1>1, <1>2, <1>3, <1>4, <1>5, <1>6 DEF Next

\* The upload that inserted the row is alone in going on to publish, and it
\* publishes for a file that has no task yet.
OneUploadWins ==
    /\ \A u \in Uploaders :
          upc[u] = "enqueue" => Exists(ufile[u]) /\ enqueued["process"][ufile[u]] = 0
    /\ \A u, v \in Uploaders :
          upc[u] = "enqueue" /\ upc[v] = "enqueue" /\ ufile[u] = ufile[v] => u = v
    /\ \A f \in Files : ~Exists(f) => enqueued["process"][f] = 0
    /\ OneFirstTask

\* A step that leaves the uploads and their tasks alone keeps OneUploadWins.
LEMMA UploadFrame ==
  ASSUME Typed, OneUploadWins, [Next]_vars,
         upc' = upc, ufile' = ufile, enqueued'["process"] = enqueued["process"]
  PROVE  OneUploadWins'
  <1>1. \A f \in Files : Exists(f) => Exists(f)'
    BY InvoicesStay
  <1>2. \A u \in Uploaders : ufile[u] \in Files
    BY DEF Typed, TypeOK
  <1> QED
    BY <1>1, <1>2 DEF OneUploadWins, OneFirstTask

\* No step of a worker touches the endpoints or what they have counted.
LEMMA EndpointsLeftAlone ==
  ASSUME NEW w \in Workers, WorkerStep(w)
  PROVE  UNCHANGED <<upc, ufile, apc, afile, aseen, enqueued, readies, approvals, reviews>>
  <1>1. CASE Work(w)
    BY <1>1 DEF Work, Take, StartProcess, Parse, StartExport, ExportCommit, Export, ExportFails,
       StartUnusable, RecordFailure, FailureUnrecorded, Retry, Ack, Release
  <1>2. CASE ~Work(w)
    BY <1>2 DEF WorkerStep, ExportDoubted, Export, Interrupted, Crash, TimeLimit, Release
  <1> QED BY <1>1, <1>2

\* Every step keeps OneUploadWins.
LEMMA StepOneUploadWins ==
  ASSUME Typed, OneUploadWins, [Next]_vars
  PROVE  OneUploadWins'
  <1> USE DEF Typed
  <1>0. /\ \A f \in Files : Exists(f) => Exists(f)'
        /\ \A u \in Uploaders : ufile[u] \in Files
        /\ enqueued \in PerTask /\ {"process", "export"} = Tasks
    BY InvoicesStay DEF TypeOK, Tasks
  <1>1. ASSUME NEW u \in Uploaders, UploadCheck(u) PROVE OneUploadWins'
    BY <1>0, <1>1 DEF TypeOK, UploadCheck, OneUploadWins, OneFirstTask
  <1>2. ASSUME NEW u \in Uploaders, UploadInsert(u) PROVE OneUploadWins'
    <2>1. CASE Exists(ufile[u])
      BY <1>0, <1>2, <2>1 DEF TypeOK, UploadInsert, OneUploadWins, OneFirstTask
    <2>2. CASE ~Exists(ufile[u])
      <3>1. /\ upc' = [upc EXCEPT ![u] = "enqueue"]
            /\ row' = [row EXCEPT ![ufile[u]] = [status |-> "received", state |-> "uploaded"]]
            /\ ufile' = ufile /\ enqueued' = enqueued
        BY <1>2, <2>2 DEF UploadInsert
      <3>2. \A v \in Uploaders : upc[v] = "enqueue" => ufile[v] # ufile[u]
        BY <2>2 DEF OneUploadWins
      <3>3. enqueued["process"][ufile[u]] = 0
        BY <1>0, <2>2 DEF OneUploadWins
      <3>4. Exists(ufile[u])'
        BY <1>0, <3>1 DEF TypeOK
      <3> QED
        BY <1>0, <3>1, <3>2, <3>3, <3>4 DEF TypeOK, OneUploadWins, OneFirstTask
    <2> QED
      BY <2>1, <2>2
  <1>3. ASSUME NEW u \in Uploaders, UploadEnqueue(u) PROVE OneUploadWins'
    <2>1. /\ upc[u] = "enqueue"
          /\ upc' = [upc EXCEPT ![u] = "done"]
          /\ enqueued' = [enqueued EXCEPT !["process"][ufile[u]] = @ + 1]
          /\ ufile' = ufile /\ row' = row
      BY <1>3 DEF UploadEnqueue, Delay
    <2>2. Exists(ufile[u]) /\ enqueued["process"][ufile[u]] = 0
      BY <2>1 DEF OneUploadWins
    <2>3. \A v \in Uploaders : upc'[v] = "enqueue" => upc[v] = "enqueue" /\ ufile[v] # ufile[u]
      BY <2>1 DEF OneUploadWins, TypeOK
    <2>4. \A f \in Files : enqueued'["process"][f] =
                             IF f = ufile[u] THEN 1 ELSE enqueued["process"][f]
      BY <1>0, <2>1, <2>2
    <2> QED
      BY <1>0, <2>1, <2>2, <2>3, <2>4 DEF OneUploadWins, OneFirstTask
  <1>4. ASSUME NEW u \in Uploaders, UploadLost(u) PROVE OneUploadWins'
    BY <1>0, <1>4 DEF TypeOK, UploadLost, OneUploadWins, OneFirstTask
  <1>5. ASSUME NEW a \in Approvers, Approve(a) \/ ApproveLost(a) PROVE OneUploadWins'
    <2>1. enqueued'["process"] = enqueued["process"]
      BY <1>0, <1>5 DEF Approve, ApproveCheck, ApproveCommit, ApproveEnqueue, ApproveLost, Delay
    <2>2. upc' = upc /\ ufile' = ufile
      BY <1>5 DEF Approve, ApproveCheck, ApproveCommit, ApproveEnqueue, ApproveLost
    <2> QED
      BY <2>1, <2>2, UploadFrame
  <1>6. CASE ReviewRequest
    BY <1>6, UploadFrame DEF ReviewRequest, Review
  <1>7. ASSUME NEW w \in Workers, WorkerStep(w) PROVE OneUploadWins'
    <2>1. upc' = upc /\ ufile' = ufile /\ enqueued' = enqueued
      BY <1>7, EndpointsLeftAlone
    <2> QED
      BY <2>1, UploadFrame
  <1>8. CASE UNCHANGED vars
    BY <1>8, UploadFrame DEF vars
  <1> QED
    BY <1>1, <1>2, <1>3, <1>4, <1>5, <1>6, <1>7, <1>8 DEF Next, Upload, WorkerStep

\* However many uploads of the same content race, one task is queued for it.
THEOREM UploadsQueueOnce == Spec => []OneFirstTask
  <1>1. Init => OneUploadWins
    BY DEF Init, OneUploadWins, OneFirstTask, Zero, Tasks
  <1>2. Typed /\ OneUploadWins /\ [Next]_vars => OneUploadWins'
    BY StepOneUploadWins
  <1>3. OneUploadWins => OneFirstTask
    BY DEF OneUploadWins
  <1> QED
    BY <1>1, <1>2, <1>3, TypeCorrect, PTL DEF Spec

-----------------------------------------------------------------------------
(* Announced work is backed                                                *)

\* AnnouncedWorkIsBacked is not inductive: a worker about to acknowledge holds a
\* message and will do nothing for the row. Who does is said more exactly here;
\* an export whose own reading hides the change it makes does not count.
Waiting(t, f) == \E m \in Message : m.task = t /\ m.file = f /\ queue[m] > 0
Holding(w, t, f) == held[w].task = t /\ held[w].file = f

Uploading(u, f) == upc[u] = "enqueue" /\ ufile[u] = f
Approving(a, f) == apc[a] = "enqueue" /\ afile[a] = f
WillStart(w, f) == wpc[w] \in {"taken", "fail"} /\ Holding(w, "process", f)
WillProcess(w, f) == wpc[w] \in {"taken", "parse", "fail"} /\ Holding(w, "process", f)
WillExport(w, f) ==
    /\ Holding(w, "export", f)
    /\ \/ wpc[w] = "taken"
       \/ /\ wpc[w] \in {"export", "fail"}
          /\ wseen[w].state \notin {"export_staged", "export_failed"}

Backed(f) ==
    /\ row[f].state = "uploaded" =>
          \/ \E u \in Uploaders : Uploading(u, f)
          \/ Waiting("process", f)
          \/ \E w \in Workers : WillStart(w, f)
    /\ row[f].state = "processing" =>
          Waiting("process", f) \/ \E w \in Workers : WillProcess(w, f)
    /\ row[f].state = "approved" =>
          \/ \E a \in Approvers : Approving(a, f)
          \/ Waiting("export", f)
          \/ \E w \in Workers : WillExport(w, f)

AllBacked == \A f \in Files : f \notin lost /\ f \notin byHand => Backed(f)

\* Only export tasks keep what they have read, from when they have read it.
Unread ==
    \A w \in Workers :
       wpc[w] \in {"idle", "taken"} \/ held[w].task = "process" => wseen[w] = NoRow

\* Every step keeps Unread.
LEMMA StepUnread ==
  ASSUME Typed, Unread, [Next]_vars
  PROVE  Unread'
  <1> USE DEF Typed, TypeOK, Unread
  <1>1. ASSUME UNCHANGED <<wpc, held, wseen>> PROVE Unread'
    BY <1>1
  <1>2. ASSUME NEW w \in Workers, NEW m \in Message, Take(w, m) PROVE Unread'
    BY <1>2 DEF Take
  <1>3. ASSUME NEW w \in Workers, StartProcess(w) \/ \E saved \in BOOLEAN : Parse(w, saved)
        PROVE  Unread'
    BY <1>3 DEF StartProcess, Parse
  <1>4. ASSUME NEW w \in Workers, StartExport(w) PROVE Unread'
    <2>1. /\ held[w].task = "export" /\ held' = held
          /\ wseen' = [wseen EXCEPT ![w] = row[held[w].file]]
      BY <1>4 DEF StartExport
    <2>2. \E s \in {"export", "fail"} : wpc' = [wpc EXCEPT ![w] = s]
      BY <1>4 DEF StartExport
    <2> QED BY <2>1, <2>2
  <1>5. ASSUME NEW w \in Workers, ExportDoubted(w) PROVE Unread'
    BY <1>5 DEF ExportDoubted, Export
  <1>6. ASSUME NEW w \in Workers,
               ExportCommit(w) \/ ExportFails(w) \/ StartUnusable(w) \/ Interrupted(w)
        PROVE  Unread'
    BY <1>6 DEF ExportCommit, Export, ExportFails, StartUnusable, Interrupted
  <1>7. ASSUME NEW w \in Workers, RecordFailure(w) \/ FailureUnrecorded(w) \/ Retry(w)
        PROVE  Unread'
    BY <1>7 DEF RecordFailure, FailureUnrecorded, Retry
  <1>8. ASSUME NEW w \in Workers, Ack(w) \/ Crash(w) \/ TimeLimit(w) PROVE Unread'
    <2>1. Release(w)
      BY <1>8 DEF Ack, Crash, TimeLimit
    <2> QED BY <2>1 DEF Release
  <1>9. ASSUME NEW u \in Uploaders, Upload(u) \/ UploadLost(u) PROVE Unread'
    BY <1>1, <1>9 DEF Upload, UploadCheck, UploadInsert, UploadEnqueue, UploadLost
  <1>10. ASSUME NEW a \in Approvers, Approve(a) \/ ApproveLost(a) PROVE Unread'
    BY <1>1, <1>10 DEF Approve, ApproveCheck, ApproveCommit, ApproveEnqueue, ApproveLost
  <1>11. CASE ReviewRequest
    BY <1>1, <1>11 DEF ReviewRequest, Review
  <1>12. CASE UNCHANGED vars
    BY <1>1, <1>12 DEF vars
  <1> QED
    BY <1>2, <1>3, <1>4, <1>5, <1>6, <1>7, <1>8, <1>9, <1>10, <1>11, <1>12 DEF Next, Work

\* A commit that takes a file back from the reviewers has written its workflow_state.
LEMMA TakenBack ==
  ASSUME Typed, NEW f \in Files, NEW g \in Files, NEW read, NEW new,
         SaveRow(g, read, new), f \in byHand, f \notin byHand'
  PROVE  f = g /\ row'[f].state = new.state
  BY DEF Typed, TypeOK, SaveRow, Saved

\* Backed implies what the property says.
LEMMA BackedIsEnough == Typed /\ AllBacked => AnnouncedWorkIsBacked
  <1> SUFFICES ASSUME AllBacked PROVE AnnouncedWorkIsBacked
    OBVIOUS
  <1>1. \A t \in Tasks, f \in Files : Waiting(t, f) => Unfinished(t, f)
    BY DEF Waiting, Unfinished
  <1>2. ASSUME NEW w \in Workers, NEW f \in Files
        PROVE  /\ WillStart(w, f) \/ WillProcess(w, f) => Unfinished("process", f)
               /\ WillExport(w, f) => Unfinished("export", f)
    <2>1. WillStart(w, f) \/ WillProcess(w, f) \/ WillExport(w, f) => wpc[w] # "idle"
      BY DEF WillStart, WillProcess, WillExport
    <2> QED
      BY <2>1 DEF WillStart, WillProcess, WillExport, Holding, Unfinished
  <1>3. "process" \in Tasks /\ "export" \in Tasks
    BY DEF Tasks
  <1>4. ASSUME NEW f \in Files, f \notin lost, f \notin byHand, row[f].state = "uploaded"
        PROVE  (\E u \in Uploaders : upc[u] = "enqueue" /\ ufile[u] = f) \/ Unfinished("process", f)
    BY <1>1, <1>2, <1>3, <1>4 DEF AllBacked, Backed, Uploading
  <1>5. ASSUME NEW f \in Files, f \notin lost, f \notin byHand, row[f].state = "processing"
        PROVE  Unfinished("process", f)
    BY <1>1, <1>2, <1>3, <1>5 DEF AllBacked, Backed
  <1>6. ASSUME NEW f \in Files, f \notin lost, f \notin byHand, row[f].state = "approved"
        PROVE  (\E a \in Approvers : apc[a] = "enqueue" /\ afile[a] = f) \/ Unfinished("export", f)
    BY <1>1, <1>2, <1>3, <1>6 DEF AllBacked, Backed, Approving
  <1>7. \A f \in Files \ (lost \union byHand) : f \in Files /\ f \notin lost /\ f \notin byHand
    BY Zenon
  <1> QED
    BY <1>4, <1>5, <1>6, <1>7, Zenon DEF AnnouncedWorkIsBacked

\* A step keeps a file backed if it announces nothing new for it and takes none
\* of those away who back it.
LEMMA BackedFrame ==
  ASSUME NEW f \in Files, Backed(f),
         row'[f].state \in {"uploaded", "processing", "approved"} => row'[f].state = row[f].state,
         \A t \in Tasks : Waiting(t, f) => Waiting(t, f)',
         \A u \in Uploaders : Uploading(u, f) => Uploading(u, f)' \/ Waiting("process", f)',
         \A a \in Approvers : Approving(a, f) => Approving(a, f)' \/ Waiting("export", f)',
         \A w \in Workers : /\ WillStart(w, f) => WillStart(w, f)' \/ Waiting("process", f)'
                            /\ WillProcess(w, f) => WillProcess(w, f)' \/ Waiting("process", f)'
                            /\ WillExport(w, f) => WillExport(w, f)' \/ Waiting("export", f)'
  PROVE  Backed(f)'
  <1>1. "process" \in Tasks /\ "export" \in Tasks
    BY DEF Tasks
  <1>2. CASE row'[f].state = "uploaded"
    <2>1. \/ \E u \in Uploaders : Uploading(u, f)
          \/ Waiting("process", f)
          \/ \E w \in Workers : WillStart(w, f)
      BY <1>2 DEF Backed
    <2> QED
      BY <1>1, <1>2, <2>1 DEF Backed
  <1>3. CASE row'[f].state = "processing"
    <2>1. Waiting("process", f) \/ \E w \in Workers : WillProcess(w, f)
      BY <1>3 DEF Backed
    <2> QED
      BY <1>1, <1>3, <2>1 DEF Backed
  <1>4. CASE row'[f].state = "approved"
    <2>1. \/ \E a \in Approvers : Approving(a, f)
          \/ Waiting("export", f)
          \/ \E w \in Workers : WillExport(w, f)
      BY <1>4 DEF Backed
    <2> QED
      BY <1>1, <1>4, <2>1 DEF Backed
  <1>5. CASE row'[f].state \notin {"uploaded", "processing", "approved"}
    BY <1>5 DEF Backed
  <1> QED
    BY <1>2, <1>3, <1>4, <1>5

\* An endpoint that takes a file back from the reviewers backs what it announces.
LEMMA EndpointTakesBack ==
  ASSUME Typed, NEW f \in Files, f \in byHand, f \notin byHand',
         \/ \E u \in Uploaders : Upload(u) \/ UploadLost(u)
         \/ \E a \in Approvers : Approve(a) \/ ApproveLost(a)
         \/ ReviewRequest
  PROVE  Backed(f)'
  <1>1. ASSUME NEW a \in Approvers, ApproveCommit(a) PROVE Backed(f)'
    <2>1. afile[a] \in Files
      BY DEF Typed, TypeOK
    <2>2. f = afile[a] /\ row'[f].state = "approved"
      BY <1>1, <2>1, TakenBack DEF ApproveCommit
    <2>3. Approving(a, f)'
      BY <1>1, <2>2 DEF ApproveCommit, Approving, Typed, TypeOK
    <2> QED
      BY <2>2, <2>3 DEF Backed
  <1>2. CASE byHand \subseteq byHand'
    BY <1>2
  <1>3. ASSUME NEW u \in Uploaders, Upload(u) \/ UploadLost(u) PROVE byHand' = byHand
    BY <1>3 DEF Upload, UploadCheck, UploadInsert, UploadEnqueue, UploadLost
  <1>4. ASSUME NEW a \in Approvers, Approve(a) \/ ApproveLost(a)
        PROVE  ApproveCommit(a) \/ byHand' = byHand
    BY <1>4 DEF Approve, ApproveCheck, ApproveEnqueue, ApproveLost
  <1>5. CASE ReviewRequest
    BY <1>2, <1>5 DEF ReviewRequest, Review
  <1> QED
    BY <1>1, <1>2, <1>3, <1>4, <1>5

\* A worker that takes a file back from the reviewers backs what it announces.
LEMMA WorkerTakesBack ==
  ASSUME Typed, NEW f \in Files, f \in byHand, f \notin byHand',
         NEW w \in Workers, WorkerStep(w)
  PROVE  Backed(f)'
  <1>1. CASE StartProcess(w)
    <2>1. held[w].file \in Files
      BY <1>1, StartTyped
    <2>2. SaveRow(held[w].file, row[held[w].file], [status |-> "parsed", state |-> "processing"])
      BY <1>1 DEF StartProcess
    <2>3. f = held[w].file /\ row'[f].state = "processing"
      BY <2>1, <2>2, TakenBack
    <2>4. WillProcess(w, f)'
      BY <1>1, <2>3 DEF StartProcess, WillProcess, Holding, Typed, TypeOK
    <2> QED
      BY <2>3, <2>4 DEF Backed
  <1>2. CASE Export(w)
    <2>1. /\ held[w].file \in Files
          /\ SaveRow(held[w].file, wseen[w], [status |-> "staged", state |-> "export_staged"])
      BY <1>2, ExportTyped DEF Export
    <2>2. row'[f].state = "export_staged"
      BY <2>1, TakenBack
    <2> QED
      BY <2>2 DEF Backed
  <1>3. CASE RecordFailure(w)
    <2>1. row'[f].state = Failed(w).state
      BY <1>3, FailureTyped, TakenBack
    <2> QED
      BY <2>1 DEF Backed, Failed
  <1>4. CASE byHand' = byHand
    BY <1>4
  <1>5. ASSUME Work(w)
        PROVE  StartProcess(w) \/ Export(w) \/ RecordFailure(w) \/ byHand' = byHand
    BY <1>5 DEF Work, Take, Parse, StartExport, ExportCommit, ExportFails, StartUnusable,
       FailureUnrecorded, Retry, Ack, Release
  <1>6. ASSUME ~Work(w) PROVE Export(w) \/ byHand' = byHand
    BY <1>6 DEF WorkerStep, ExportDoubted, Interrupted, Crash, TimeLimit, Release
  <1> QED
    BY <1>1, <1>2, <1>3, <1>4, <1>5, <1>6

\* Every step of an endpoint keeps announced work backed.
LEMMA EndpointBacked ==
  ASSUME Typed, AllBacked,
         \/ \E u \in Uploaders : Upload(u) \/ UploadLost(u)
         \/ \E a \in Approvers : Approve(a) \/ ApproveLost(a)
         \/ ReviewRequest
  PROVE  AllBacked'
  <1> USE DEF Typed, Tasks
  <1> SUFFICES ASSUME NEW f \in Files, f \notin lost', f \notin byHand,
                      f \notin byHand'
               PROVE  Backed(f)'
    BY EndpointTakesBack DEF AllBacked
  <1>0. f \notin lost /\ Backed(f)
    BY DEF AllBacked, Upload, UploadCheck, UploadInsert, UploadEnqueue, UploadLost,
       Approve, ApproveCheck, ApproveCommit, ApproveEnqueue, ApproveLost, ReviewRequest, Review
  <1> USE DEF Uploading, Approving, WillStart, WillProcess, WillExport, Holding, Waiting
  <1>1. ASSUME NEW u \in Uploaders, UploadCheck(u) PROVE Backed(f)'
    BY <1>0, <1>1, BackedFrame DEF TypeOK, UploadCheck
  <1>2. ASSUME NEW u \in Uploaders, UploadInsert(u) PROVE Backed(f)'
    <2>1. CASE Exists(ufile[u]) \/ f # ufile[u]
      BY <1>0, <1>2, <2>1, BackedFrame DEF TypeOK, UploadInsert
    <2>2. CASE ~Exists(ufile[u]) /\ f = ufile[u]
      <3>1. row'[f].state = "uploaded" /\ Uploading(u, f)'
        BY <1>2, <2>2 DEF TypeOK, UploadInsert
      <3> QED
        BY <3>1 DEF Backed
    <2> QED
      BY <2>1, <2>2
  <1>3. ASSUME NEW u \in Uploaders, UploadEnqueue(u) PROVE Backed(f)'
    <2> DEFINE m == [task |-> "process", file |-> ufile[u], retries |-> 0]
    <2>1. m \in Message /\ m.task = "process" /\ m.file = ufile[u]
      BY FirstMessage DEF TypeOK
    <2>2. queue' = [queue EXCEPT ![m] = @ + 1]
      BY <1>3 DEF UploadEnqueue, Delay
    <2>3. queue'[m] > 0 /\ \A n \in Message : queue[n] > 0 => queue'[n] > 0
      BY <2>1, <2>2 DEF TypeOK
    <2>4. f = ufile[u] => Waiting("process", f)'
      BY <1>3, <2>1, <2>3 DEF UploadEnqueue
    <2>5. \A v \in Uploaders : Uploading(v, f) => Uploading(v, f)' \/ Waiting("process", f)'
      BY <1>3, <2>4 DEF TypeOK, UploadEnqueue
    <2>6. \A t \in Tasks : Waiting(t, f) => Waiting(t, f)'
      BY <2>3
    <2>7. /\ row' = row
          /\ UNCHANGED approveVars /\ UNCHANGED workerVars
      BY <1>3 DEF UploadEnqueue
    <2> QED
      BY <1>0, <2>5, <2>6, <2>7, BackedFrame
  <1>4. ASSUME NEW u \in Uploaders, UploadLost(u) PROVE Backed(f)'
    BY <1>0, <1>4, BackedFrame DEF TypeOK, UploadLost
  <1>5. ASSUME NEW a \in Approvers, ApproveCheck(a) PROVE Backed(f)'
    BY <1>0, <1>5, BackedFrame DEF TypeOK, ApproveCheck
  <1>6. ASSUME NEW a \in Approvers, ApproveCommit(a) PROVE Backed(f)'
    <2>1. CASE f # afile[a]
      BY <1>0, <1>6, <2>1, BackedFrame DEF TypeOK, ApproveCommit, SaveRow
    <2>2. CASE f = afile[a]
      <3>1. Approving(a, f)'
        BY <1>6, <2>2 DEF TypeOK, ApproveCommit
      <3>2. row'[f].state = row[f].state \/ row'[f].state = "approved"
        BY <1>6, <2>2 DEF TypeOK, ApproveCommit, SaveRow, Saved
      <3>3. CASE row'[f].state = "approved"
        BY <3>1, <3>3 DEF Backed
      <3>4. CASE row'[f].state = row[f].state
        BY <1>0, <1>6, <3>4, BackedFrame DEF TypeOK, ApproveCommit
      <3> QED
        BY <3>2, <3>3, <3>4
    <2> QED
      BY <2>1, <2>2
  <1>7. ASSUME NEW a \in Approvers, ApproveEnqueue(a) PROVE Backed(f)'
    <2> DEFINE m == [task |-> "export", file |-> afile[a], retries |-> 0]
    <2>1. m \in Message /\ m.task = "export" /\ m.file = afile[a]
      BY FirstMessage DEF TypeOK
    <2>2. queue' = [queue EXCEPT ![m] = @ + 1]
      BY <1>7 DEF ApproveEnqueue, Delay
    <2>3. queue'[m] > 0 /\ \A n \in Message : queue[n] > 0 => queue'[n] > 0
      BY <2>1, <2>2 DEF TypeOK
    <2>4. f = afile[a] => Waiting("export", f)'
      BY <1>7, <2>1, <2>3 DEF ApproveEnqueue
    <2>5. \A b \in Approvers : Approving(b, f) => Approving(b, f)' \/ Waiting("export", f)'
      BY <1>7, <2>4 DEF TypeOK, ApproveEnqueue
    <2>6. \A t \in Tasks : Waiting(t, f) => Waiting(t, f)'
      BY <2>3
    <2>7. /\ row' = row
          /\ UNCHANGED uploadVars /\ UNCHANGED workerVars
      BY <1>7 DEF ApproveEnqueue
    <2> QED
      BY <1>0, <2>5, <2>6, <2>7, BackedFrame
  <1>8. ASSUME NEW a \in Approvers, ApproveLost(a) PROVE Backed(f)'
    BY <1>0, <1>8, BackedFrame DEF TypeOK, ApproveLost
  <1>9. ASSUME NEW g \in Files, NEW s \in Statuses, 
               NEW ws \in {row[g].state} \union ReviewStates,
               Review(g, [status |-> s, state |-> ws])
        PROVE  Backed(f)'
    <2>1. row'[f].state = row[f].state
      BY <1>9 DEF TypeOK, Review
    <2>2. UNCHANGED <<queue, uploadVars, approveVars, workerVars>>
      BY <1>9 DEF Review
    <2> QED
      BY <1>0, <2>1, <2>2, BackedFrame
  <1> QED
    BY <1>1, <1>2, <1>3, <1>4, <1>5, <1>6, <1>7, <1>8, <1>9 DEF Upload, Approve, ReviewRequest

\* Every step of a worker keeps announced work backed.
LEMMA WorkerBacked ==
  ASSUME Typed, Unread, AllBacked, NEW w \in Workers, WorkerStep(w)
  PROVE  AllBacked'
  <1> USE DEF Typed, Tasks
  <1> SUFFICES ASSUME NEW f \in Files, f \notin lost', f \notin byHand PROVE Backed(f)'
    BY WorkerTakesBack DEF AllBacked
  <1>0. f \notin lost /\ Backed(f)
    <2>1. lost \subseteq lost'
      <3>1. CASE Work(w)
        BY <3>1 DEF Work, Take, StartProcess, Parse, StartExport, ExportCommit, Export,
           ExportFails, StartUnusable, RecordFailure, FailureUnrecorded, Retry, Ack
      <3>2. CASE ~Work(w)
        BY <3>2 DEF WorkerStep, ExportDoubted, Export, Interrupted, Crash, TimeLimit
      <3> QED BY <3>1, <3>2
    <2> QED BY <2>1 DEF AllBacked
  <1> USE DEF Uploading, Approving, WillStart, WillProcess, WillExport, Holding, Waiting
  <1>1. ASSUME NEW m \in Message, Take(w, m) PROVE Backed(f)'
    <2>1. /\ row' = row /\ UNCHANGED uploadVars /\ UNCHANGED approveVars
          /\ wpc[w] = "idle" /\ wpc' = [wpc EXCEPT ![w] = "taken"]
          /\ held' = [held EXCEPT ![w] = m] /\ wseen' = wseen
          /\ queue' = [queue EXCEPT ![m] = @ - 1]
      BY <1>1 DEF Take
    <2>2. \A v \in Workers : /\ WillStart(v, f) => WillStart(v, f)'
                             /\ WillProcess(v, f) => WillProcess(v, f)'
                             /\ WillExport(v, f) => WillExport(v, f)'
      BY <2>1 DEF TypeOK
    <2>3. CASE m.file # f
      <3>1. \A n \in Message : n.file = f => queue'[n] = queue[n]
        BY <2>1, <2>3 DEF TypeOK
      <3>2. \A t \in Tasks : Waiting(t, f) => Waiting(t, f)'
        BY <3>1
      <3> QED
        BY <1>0, <2>1, <2>2, <3>2, BackedFrame
    <2>4. CASE m.file = f
      <3>1. /\ m.task = "process" => WillStart(w, f)' /\ WillProcess(w, f)'
            /\ m.task = "export" => WillExport(w, f)'
        BY <2>1, <2>4 DEF TypeOK
      <3>2. m.task \in Tasks
        BY MessageFields
      <3>3. \A n \in Message : n.task # m.task => queue'[n] = queue[n]
        BY <2>1 DEF TypeOK
      <3>4. \A t \in Tasks : t # m.task => (Waiting(t, f) => Waiting(t, f)')
        BY <3>3
      <3>5. CASE m.task = "process"
        <4>1. WillStart(w, f)' /\ WillProcess(w, f)'
          BY <3>1, <3>5
        <4>2. Waiting("export", f) => Waiting("export", f)'
          BY <3>4, <3>5
        <4> QED
          BY <1>0, <2>1, <2>2, <4>1, <4>2 DEF Backed
      <3>6. CASE m.task = "export"
        <4>1. WillExport(w, f)'
          BY <3>1, <3>6
        <4>2. Waiting("process", f) => Waiting("process", f)'
          BY <3>4, <3>6
        <4> QED
          BY <1>0, <2>1, <2>2, <4>1, <4>2 DEF Backed
      <3> QED
        BY <3>2, <3>5, <3>6
    <2> QED
      BY <2>3, <2>4
  <1>2. CASE StartProcess(w)
    <2>1. /\ wpc[w] = "taken" /\ held[w].task = "process"
          /\ row' = [row EXCEPT ![held[w].file] =
                       Saved(@, @, [status |-> "parsed", state |-> "processing"])]
          /\ wpc' = [wpc EXCEPT ![w] = "parse"]
          /\ UNCHANGED <<queue, uploadVars, approveVars, held, wseen>>
      BY <1>2 DEF StartProcess, SaveRow
    <2>2. CASE held[w].file = f
      <3>1. row'[f].state = "processing" /\ WillProcess(w, f)'
        BY <2>1, <2>2 DEF TypeOK, Saved
      <3> QED
        BY <3>1 DEF Backed
    <2>3. CASE held[w].file # f
      BY <1>0, <2>1, <2>3, BackedFrame DEF TypeOK
    <2> QED
      BY <2>2, <2>3
  <1>3. ASSUME NEW saved \in BOOLEAN, Parse(w, saved) PROVE Backed(f)'
    BY <1>0, <1>3, BackedFrame DEF TypeOK, Parse
  <1>4. CASE StartExport(w)
    <2>1. /\ wpc[w] = "taken" /\ held[w].task = "export"
          /\ wseen' = [wseen EXCEPT ![w] = row[held[w].file]]
          /\ UNCHANGED <<row, queue, uploadVars, approveVars, held>>
      BY <1>4 DEF StartExport
    <2>2. \E s \in {"export", "fail"} : wpc' = [wpc EXCEPT ![w] = s]
      BY <1>4 DEF StartExport
    <2>3. \A v \in Workers : /\ WillStart(v, f) => WillStart(v, f)'
                             /\ WillProcess(v, f) => WillProcess(v, f)'
      BY <2>1, <2>2 DEF TypeOK
    <2>4. \A v \in Workers \ {w} : WillExport(v, f) => WillExport(v, f)'
      BY <2>1, <2>2 DEF TypeOK
    <2>5. CASE row[f].state = "approved"
      <3>1. WillExport(w, f) => WillExport(w, f)'
        BY <2>1, <2>2, <2>5 DEF TypeOK
      <3> QED
        BY <1>0, <2>1, <2>3, <2>4, <3>1, BackedFrame
    <2>6. CASE row[f].state # "approved"
      BY <1>0, <2>1, <2>3, <2>6 DEF Backed
    <2> QED
      BY <2>5, <2>6
  <1>5. CASE ExportCommit(w) \/ ExportDoubted(w)
    <2>1. /\ wpc[w] = "export"
          /\ row' = [row EXCEPT ![held[w].file] =
                       Saved(@, wseen[w], [status |-> "staged", state |-> "export_staged"])]
          /\ UNCHANGED <<queue, uploadVars, approveVars, held>>
      BY <1>5 DEF ExportCommit, ExportDoubted, Export, SaveRow
    <2>2. \A v \in Workers \ {w} : /\ WillStart(v, f) => WillStart(v, f)'
                                   /\ WillProcess(v, f) => WillProcess(v, f)'
                                   /\ WillExport(v, f) => WillExport(v, f)'
      <3>1. \A v \in Workers \ {w} : wpc'[v] = wpc[v] /\ wseen'[v] = wseen[v]
        BY <1>5 DEF ExportCommit, ExportDoubted, TypeOK
      <3> QED
        BY <2>1, <3>1
    <2>3. ~WillStart(w, f) /\ ~WillProcess(w, f)
      BY <2>1
    <2>4. CASE WillExport(w, f)
      <3>1. row'[f].state = "export_staged"
        BY <2>1, <2>4 DEF TypeOK, Saved
      <3> QED
        BY <3>1 DEF Backed
    <2>5. CASE ~WillExport(w, f)
      <3>1. row'[f].state \in {row[f].state, "export_staged"}
        BY <2>1 DEF TypeOK, Saved
      <3> QED
        BY <1>0, <2>1, <2>2, <2>3, <2>5, <3>1, BackedFrame
    <2> QED
      BY <2>4, <2>5
  <1>6. CASE ExportFails(w)
    BY <1>0, <1>6, BackedFrame DEF TypeOK, ExportFails
  <1>7. CASE RecordFailure(w)
    <2> DEFINE failed == IF held[w].task = "process" THEN "processing_failed" ELSE "export_failed"
    <2>1. /\ wpc[w] = "fail" /\ held[w].file \in Files
          /\ row' = [row EXCEPT ![held[w].file] = Saved(row[held[w].file], Read(w), Failed(w))]
          /\ wpc' = [wpc EXCEPT ![w] = "retry"]
          /\ UNCHANGED <<queue, uploadVars, approveVars, held, wseen>>
      BY <1>7, FailureTyped DEF RecordFailure, SaveRow
    <2>2. \A v \in Workers \ {w} : /\ WillStart(v, f) => WillStart(v, f)'
                                   /\ WillProcess(v, f) => WillProcess(v, f)'
                                   /\ WillExport(v, f) => WillExport(v, f)'
      BY <2>1 DEF TypeOK
    <2>3. WillStart(w, f) => WillProcess(w, f)
      OBVIOUS
    <2>4. Saved(row[held[w].file], Read(w), Failed(w)).state =
            IF failed = Read(w).state THEN row[held[w].file].state ELSE failed
      BY DEF Saved, Failed
    <2>5. CASE WillProcess(w, f)
      <3>1. wseen[w] = NoRow
        BY <2>5 DEF Unread
      <3>2. row'[f].state = "processing_failed"
        BY <2>1, <2>4, <2>5, <3>1 DEF TypeOK, Read
      <3> QED
        BY <3>2 DEF Backed
    <2>6. CASE WillExport(w, f)
      <3>1. row'[f].state = "export_failed"
        BY <2>1, <2>4, <2>6 DEF TypeOK, Read
      <3> QED
        BY <3>1 DEF Backed
    <2>7. CASE ~WillProcess(w, f) /\ ~WillExport(w, f)
      <3>1. row'[f].state \in {row[f].state, "processing_failed", "export_failed"}
        BY <2>1, <2>4 DEF TypeOK
      <3> QED
        BY <1>0, <2>1, <2>2, <2>3, <2>7, <3>1, BackedFrame
    <2> QED
      BY <2>5, <2>6, <2>7
  <1>8. CASE FailureUnrecorded(w)
    BY <1>0, <1>8, BackedFrame DEF TypeOK, FailureUnrecorded
  <1>9. CASE Retry(w)
    <2>1. \A n \in Message : queue[n] > 0 => queue'[n] > 0
      <3>1. queue' \in {queue, [queue EXCEPT ![NextAttempt(held[w])] = @ + 1]}
        BY <1>9 DEF Retry
      <3> QED
        BY <3>1 DEF TypeOK
    <2> QED
      BY <1>0, <1>9, <2>1, BackedFrame DEF TypeOK, Retry
  <1>10. CASE Ack(w)
    BY <1>0, <1>10, BackedFrame DEF TypeOK, Ack, Release
  <1>11. CASE Crash(w)
    BY <1>0, <1>11, BackedFrame DEF TypeOK, Crash, Release, HoldsMessage
  <1>12. CASE TimeLimit(w)
    BY <1>0, <1>12, BackedFrame DEF TypeOK, TimeLimit, Release
  <1>13. CASE StartUnusable(w) \/ Interrupted(w)
    <2>1. /\ wpc[w] \in {"taken", "parse", "export"}
          /\ wpc' = [wpc EXCEPT ![w] = "fail"]
          /\ UNCHANGED <<row, queue, uploadVars, approveVars, held, wseen>>
      BY <1>13 DEF StartUnusable, Interrupted
    <2>2. wpc[w] = "taken" => wseen[w].state = "none"
      BY DEF Unread, NoRow
    <2>3. \A v \in Workers : /\ WillStart(v, f) => WillStart(v, f)'
                             /\ WillProcess(v, f) => WillProcess(v, f)'
                             /\ WillExport(v, f) => WillExport(v, f)'
      BY <2>1, <2>2 DEF TypeOK
    <2> QED
      BY <1>0, <2>1, <2>3, BackedFrame
  <1> QED
    BY <1>1, <1>2, <1>3, <1>4, <1>5, <1>6, <1>7, <1>8, <1>9, <1>10, <1>11, <1>12, <1>13
    DEF Work, WorkerStep

\* No invoice is left announcing work that nobody will do, whatever the
\* interleaving of requests, workers, retries and redeliveries, unless a reviewer
\* has written what it announces or a fault has lost a message or a failure mark.
THEOREM WorkIsBacked == Spec => []AnnouncedWorkIsBacked
  <1>1. Init => AllBacked
    <2> SUFFICES ASSUME Init, NEW f \in Files PROVE Backed(f)
      BY DEF AllBacked
    <2>1. row[f].state = "none"
      BY DEF Init, NoRow
    <2> QED
      BY <2>1 DEF Backed
  <1>2. Typed /\ Unread /\ AllBacked /\ [Next]_vars => AllBacked'
    <2>1. CASE UNCHANGED vars
      BY <2>1 DEF vars, AllBacked, Backed, Waiting, Holding, Uploading, Approving, WillStart,
         WillProcess, WillExport
    <2> QED
      BY <2>1, EndpointBacked, WorkerBacked DEF Next, WorkerStep
  <1>3. Init => Unread
    BY DEF Init, Unread
  <1> QED
    BY <1>1, <1>2, <1>3, StepUnread, BackedIsEnough, TypeCorrect, PTL DEF Spec

-----------------------------------------------------------------------------
(* Counting by tokens                                                      *)

\* One token for each unit of weight: the sum of the weights is the number of tokens.
Tokens(S, wt) == {y \in S \X Nat : y[2] \in 1..wt[y[1]]}

\* The tokens of one element are finitely many, as many as its weight.
LEMMA OwnTokens ==
  ASSUME NEW x, NEW n \in Nat
  PROVE  IsFiniteSet({x} \X (1..n)) /\ Cardinality({x} \X (1..n)) = n
  <1>1. IsFiniteSet({x}) /\ Cardinality({x}) = 1
    BY FS_Singleton
  <1>2. IsFiniteSet(1..n) /\ Cardinality(1..n) = n
    BY FS_Interval
  <1>3. /\ IsFiniteSet({x} \X (1..n))
        /\ Cardinality({x} \X (1..n)) = Cardinality({x}) * Cardinality(1..n)
    BY <1>1, <1>2, FS_Product
  <1> QED
    BY <1>1, <1>2, <1>3

\* When only one weight may grow, the tokens grow by no more than it does.
LEMMA OneWeightGrows ==
  ASSUME NEW S, NEW a \in [S -> Nat], NEW b \in [S -> Nat], NEW x \in S,
         IsFiniteSet(Tokens(S, a)), \A y \in S : y # x => b[y] <= a[y]
  PROVE  /\ IsFiniteSet(Tokens(S, b))
         /\ Cardinality(Tokens(S, b)) + a[x] <= Cardinality(Tokens(S, a)) + b[x]
  <1> DEFINE old == {x} \X (1..a[x])
             new == {x} \X (1..b[x])
             rest == Tokens(S, a) \ old
  <1>1. IsFiniteSet(old) /\ Cardinality(old) = a[x] /\ IsFiniteSet(new) /\ Cardinality(new) = b[x]
    BY OwnTokens
  <1>2. Tokens(S, b) \subseteq rest \union new
    BY DEF Tokens
  <1>3. old \subseteq Tokens(S, a)
    BY DEF Tokens
  <1>4. Tokens(S, a) \intersect old = old
    BY <1>3
  <1> HIDE DEF old, new, rest
  <1>5. IsFiniteSet(rest) /\ Cardinality(rest) = Cardinality(Tokens(S, a)) - Cardinality(old)
    <2>1. /\ IsFiniteSet(Tokens(S, a) \ old)
          /\ Cardinality(Tokens(S, a) \ old) =
               Cardinality(Tokens(S, a)) - Cardinality(Tokens(S, a) \intersect old)
      BY FS_Difference
    <2> QED
      BY <1>4, <2>1 DEF rest
  <1>6. /\ IsFiniteSet(rest \union new)
        /\ Cardinality(rest \union new) <= Cardinality(rest) + Cardinality(new)
    <2>1. IsFiniteSet(rest \intersect new) /\ Cardinality(rest \intersect new) \in Nat
      BY <1>1, <1>5, FS_Intersection, FS_CardinalityType
    <2>2. /\ IsFiniteSet(rest \union new)
          /\ Cardinality(rest \union new) =
               Cardinality(rest) + Cardinality(new) - Cardinality(rest \intersect new)
      BY <1>1, <1>5, FS_Union
    <2>3. Cardinality(rest) \in Nat /\ Cardinality(new) \in Nat
      BY <1>1, <1>5, FS_CardinalityType
    <2> QED
      BY <2>1, <2>2, <2>3
  <1>7. /\ IsFiniteSet(Tokens(S, b))
        /\ Cardinality(Tokens(S, b)) <= Cardinality(rest \union new)
    BY <1>2, <1>6, FS_Subset
  <1>8. /\ Cardinality(Tokens(S, a)) \in Nat /\ Cardinality(Tokens(S, b)) \in Nat
        /\ Cardinality(rest \union new) \in Nat /\ Cardinality(rest) \in Nat
    BY <1>5, <1>6, <1>7, FS_CardinalityType
  <1> QED
    BY <1>1, <1>5, <1>6, <1>7, <1>8

\* When only one weight changes, the number of tokens changes by as much.
LEMMA OneWeightChanges ==
  ASSUME NEW S, NEW a \in [S -> Nat], NEW b \in [S -> Nat], NEW x \in S,
         IsFiniteSet(Tokens(S, a)), \A y \in S : y # x => b[y] = a[y]
  PROVE  /\ IsFiniteSet(Tokens(S, b))
         /\ Cardinality(Tokens(S, b)) + a[x] = Cardinality(Tokens(S, a)) + b[x]
  <1>1. \A y \in S : y # x => b[y] <= a[y] /\ a[y] <= b[y]
    OBVIOUS
  <1>2. /\ IsFiniteSet(Tokens(S, b))
        /\ Cardinality(Tokens(S, b)) + a[x] <= Cardinality(Tokens(S, a)) + b[x]
    BY <1>1, OneWeightGrows
  <1>3. Cardinality(Tokens(S, a)) + b[x] <= Cardinality(Tokens(S, b)) + a[x]
    BY <1>1, <1>2, OneWeightGrows
  <1>4. Cardinality(Tokens(S, a)) \in Nat /\ Cardinality(Tokens(S, b)) \in Nat
    BY <1>2, FS_CardinalityType
  <1> QED
    BY <1>2, <1>3, <1>4

\* Without weight there is no token.
LEMMA NoWeight ==
  ASSUME NEW S, NEW a \in [S -> Nat], \A y \in S : a[y] = 0
  PROVE  IsFiniteSet(Tokens(S, a)) /\ Cardinality(Tokens(S, a)) = 0
  <1>1. Tokens(S, a) = {}
    BY DEF Tokens
  <1> QED
    BY <1>1, FS_EmptySet

(***************************************************************************)
(* What is still to come of a task and a file. A queued copy of a message  *)
(* weighs q[k], k its retries, a message at work h[k]: with q = h = 1 they *)
(* are counted, with the attempts left as weights they bound what starts.  *)
(* A worker that only has to acknowledge weighs nothing.                   *)
(***************************************************************************)
Copies == Message \X Nat
Part(m, t, f, g) == IF m.task = t /\ m.file = f THEN g[m.retries] ELSE 0
QueueWeight(bag, t, f, q) ==
    [c \in Copies |-> IF c[2] \in 1..bag[c[1]] THEN Part(c[1], t, f, q) ELSE 0]
WorkWeight(pc, msg, t, f, h) ==
    [w \in Workers |-> IF pc[w] \in {"idle", "ack"} THEN 0 ELSE Part(msg[w], t, f, h)]

Queued(bag, t, f, q) == Tokens(Copies, QueueWeight(bag, t, f, q))
AtWork(pc, msg, t, f, h) == Tokens(Workers, WorkWeight(pc, msg, t, f, h))

Weights == [Nat -> Nat]

\* The part of a message is a number.
LEMMA PartType ==
  ASSUME NEW m \in Message, NEW t, NEW f, NEW g \in Weights
  PROVE  Part(m, t, f, g) \in Nat
  BY MessageFields DEF Part, Weights

\* The weights of the queue are numbers.
LEMMA QueueWeightType ==
  ASSUME NEW bag, NEW t, NEW f, NEW q \in Weights
  PROVE  QueueWeight(bag, t, f, q) \in [Copies -> Nat]
  <1>1. \A c \in Copies : c[1] \in Message
    BY DEF Copies
  <1> QED
    BY <1>1, PartType DEF QueueWeight

\* The weights of the workers are numbers.
LEMMA WorkWeightType ==
  ASSUME NEW pc, NEW msg, NEW t, NEW f, NEW h \in Weights,
         \A w \in Workers : pc[w] # "idle" => msg[w] \in Message
  PROVE  WorkWeight(pc, msg, t, f, h) \in [Workers -> Nat]
  BY PartType DEF WorkWeight

\* A copy taken from the queue takes its weight with it.
LEMMA CopyTaken ==
  ASSUME NEW bag \in [Message -> Nat], NEW m \in Message, bag[m] > 0,
         NEW t, NEW f, NEW q \in Weights, IsFiniteSet(Queued(bag, t, f, q)),
         NEW bag2, bag2 = [bag EXCEPT ![m] = @ - 1]
  PROVE  /\ IsFiniteSet(Queued(bag2, t, f, q))
         /\ Cardinality(Queued(bag2, t, f, q)) + Part(m, t, f, q)
              <= Cardinality(Queued(bag, t, f, q))
         /\ Cardinality(Queued(bag, t, f, q))
              <= Cardinality(Queued(bag2, t, f, q)) + Part(m, t, f, q)
  <1> DEFINE a == QueueWeight(bag, t, f, q)
             b == QueueWeight(bag2, t, f, q)
             x == <<m, bag[m]>>
  <1>1. a \in [Copies -> Nat] /\ b \in [Copies -> Nat]
    BY QueueWeightType
  <1>2. x \in Copies /\ a[x] = Part(m, t, f, q) /\ b[x] = 0
    BY DEF Copies, QueueWeight
  <1>3. ASSUME NEW y \in Copies, y # x PROVE b[y] = a[y]
    <2>1. y[1] \in Message /\ y[2] \in Nat /\ y = <<y[1], y[2]>>
      BY DEF Copies
    <2>2. y[1] # m \/ y[2] # bag[m]
      BY <1>3, <2>1
    <2>3. bag[y[1]] \in Nat /\ bag2[y[1]] = IF y[1] = m THEN bag[m] - 1 ELSE bag[y[1]]
      BY <2>1
    <2>4. y[2] \in 1..bag2[y[1]] <=> y[2] \in 1..bag[y[1]]
      BY <2>1, <2>2, <2>3
    <2> QED
      BY <2>4 DEF QueueWeight
  <1> HIDE DEF a, b, x
  <1>4. IsFiniteSet(Tokens(Copies, a))
    BY DEF a, Queued
  <1>5. /\ IsFiniteSet(Tokens(Copies, b))
        /\ Cardinality(Tokens(Copies, b)) + a[x] = Cardinality(Tokens(Copies, a)) + b[x]
    BY <1>1, <1>2, <1>3, <1>4, OneWeightChanges
  <1>6. Cardinality(Tokens(Copies, a)) \in Nat
    BY <1>4, FS_CardinalityType
  <1> QED
    BY <1>2, <1>5, <1>6 DEF a, b, Queued

\* A copy put on the queue brings its weight.
LEMMA CopyPut ==
  ASSUME NEW bag \in [Message -> Nat], NEW m \in Message,
         NEW t, NEW f, NEW q \in Weights, IsFiniteSet(Queued(bag, t, f, q)),
         NEW bag2, bag2 = [bag EXCEPT ![m] = @ + 1]
  PROVE  /\ IsFiniteSet(Queued(bag2, t, f, q))
         /\ Cardinality(Queued(bag2, t, f, q))
              <= Cardinality(Queued(bag, t, f, q)) + Part(m, t, f, q)
         /\ Cardinality(Queued(bag, t, f, q)) + Part(m, t, f, q)
              <= Cardinality(Queued(bag2, t, f, q))
  <1> DEFINE a == QueueWeight(bag, t, f, q)
             b == QueueWeight(bag2, t, f, q)
             x == <<m, bag[m] + 1>>
  <1>1. a \in [Copies -> Nat] /\ b \in [Copies -> Nat]
    BY QueueWeightType
  <1>2. x \in Copies /\ a[x] = 0 /\ b[x] = Part(m, t, f, q)
    BY DEF Copies, QueueWeight
  <1>3. ASSUME NEW y \in Copies, y # x PROVE b[y] = a[y]
    <2>1. y[1] \in Message /\ y[2] \in Nat /\ y = <<y[1], y[2]>>
      BY DEF Copies
    <2>2. y[1] # m \/ y[2] # bag[m] + 1
      BY <1>3, <2>1
    <2>3. bag[y[1]] \in Nat /\ bag2[y[1]] = IF y[1] = m THEN bag[m] + 1 ELSE bag[y[1]]
      BY <2>1
    <2>4. y[2] \in 1..bag2[y[1]] <=> y[2] \in 1..bag[y[1]]
      BY <2>1, <2>2, <2>3
    <2> QED
      BY <2>4 DEF QueueWeight
  <1> HIDE DEF a, b, x
  <1>4. IsFiniteSet(Tokens(Copies, a))
    BY DEF a, Queued
  <1>5. /\ IsFiniteSet(Tokens(Copies, b))
        /\ Cardinality(Tokens(Copies, b)) + a[x] = Cardinality(Tokens(Copies, a)) + b[x]
    BY <1>1, <1>2, <1>3, <1>4, OneWeightChanges
  <1>6. Cardinality(Tokens(Copies, b)) \in Nat /\ Cardinality(Tokens(Copies, a)) \in Nat
    BY <1>4, <1>5, FS_CardinalityType
  <1> QED
    BY <1>2, <1>5, <1>6 DEF a, b, Queued

\* What one worker does changes what is at work by its own weight.
LEMMA WorkerMoves ==
  ASSUME NEW pc, NEW msg, NEW pc2, NEW msg2, NEW w \in Workers,
         \A v \in Workers : pc[v] # "idle" => msg[v] \in Message,
         \A v \in Workers : pc2[v] # "idle" => msg2[v] \in Message,
         \A v \in Workers \ {w} : pc2[v] = pc[v] /\ msg2[v] = msg[v],
         NEW t, NEW f, NEW h \in Weights, IsFiniteSet(AtWork(pc, msg, t, f, h))
  PROVE  /\ IsFiniteSet(AtWork(pc2, msg2, t, f, h))
         /\ Cardinality(AtWork(pc2, msg2, t, f, h)) + WorkWeight(pc, msg, t, f, h)[w]
              <= Cardinality(AtWork(pc, msg, t, f, h)) + WorkWeight(pc2, msg2, t, f, h)[w]
         /\ Cardinality(AtWork(pc, msg, t, f, h)) + WorkWeight(pc2, msg2, t, f, h)[w]
              <= Cardinality(AtWork(pc2, msg2, t, f, h)) + WorkWeight(pc, msg, t, f, h)[w]
  <1> DEFINE a == WorkWeight(pc, msg, t, f, h)
             b == WorkWeight(pc2, msg2, t, f, h)
  <1>1. a \in [Workers -> Nat] /\ b \in [Workers -> Nat]
    BY WorkWeightType
  <1>2. \A v \in Workers : v # w => b[v] = a[v]
    BY DEF WorkWeight
  <1> HIDE DEF a, b
  <1>3. IsFiniteSet(Tokens(Workers, a))
    BY DEF a, AtWork
  <1>4. /\ IsFiniteSet(Tokens(Workers, b))
        /\ Cardinality(Tokens(Workers, b)) + a[w] = Cardinality(Tokens(Workers, a)) + b[w]
    BY <1>1, <1>2, <1>3, OneWeightChanges
  <1>5. /\ Cardinality(Tokens(Workers, a)) \in Nat /\ Cardinality(Tokens(Workers, b)) \in Nat
        /\ a[w] \in Nat /\ b[w] \in Nat
    BY <1>1, <1>3, <1>4, FS_CardinalityType
  <1> QED
    BY <1>4, <1>5 DEF a, b, AtWork

-----------------------------------------------------------------------------
(* What a step does to the work outstanding                                *)

Countable(t, f, q, h) ==
    IsFiniteSet(Queued(queue, t, f, q)) /\ IsFiniteSet(AtWork(wpc, held, t, f, h))
Outstanding(t, f, q, h) ==
    Cardinality(Queued(queue, t, f, q)) + Cardinality(AtWork(wpc, held, t, f, h))

\* The work outstanding is a number.
LEMMA OutstandingType ==
  ASSUME NEW t, NEW f, NEW q, NEW h, Countable(t, f, q, h)
  PROVE  Outstanding(t, f, q, h) \in Nat
  BY FS_CardinalityType DEF Countable, Outstanding

\* An endpoint that publishes a first attempt adds its weight.
LEMMA DelayAdds ==
  ASSUME Typed, NEW u \in Tasks, NEW g \in Files, Delay(u, g), UNCHANGED <<wpc, held>>,
         NEW t, NEW f, NEW q \in Weights, NEW h \in Weights, Countable(t, f, q, h)
  PROVE  /\ Countable(t, f, q, h)'
         /\ Outstanding(t, f, q, h)' <=
              Outstanding(t, f, q, h) + IF u = t /\ g = f THEN q[0] ELSE 0
         /\ Outstanding(t, f, q, h) + (IF u = t /\ g = f THEN q[0] ELSE 0)
              <= Outstanding(t, f, q, h)'
  <1> DEFINE m == [task |-> u, file |-> g, retries |-> 0]
  <1>1. m \in Message /\ Part(m, t, f, q) = IF u = t /\ g = f THEN q[0] ELSE 0
    BY FirstMessage DEF Part
  <1>2. queue \in [Message -> Nat] /\ queue' = [queue EXCEPT ![m] = @ + 1]
    BY DEF Delay, Typed, TypeOK
  <1> HIDE DEF m
  <1>3. /\ IsFiniteSet(Queued(queue', t, f, q))
        /\ Cardinality(Queued(queue', t, f, q))
             <= Cardinality(Queued(queue, t, f, q)) + Part(m, t, f, q)
        /\ Cardinality(Queued(queue, t, f, q)) + Part(m, t, f, q)
             <= Cardinality(Queued(queue', t, f, q))
    BY <1>1, <1>2, CopyPut DEF Countable
  <1>4. AtWork(wpc, held, t, f, h)' = AtWork(wpc, held, t, f, h)
    BY DEF AtWork, WorkWeight
  <1>5. IsFiniteSet(AtWork(wpc, held, t, f, h)) /\ IsFiniteSet(Queued(queue, t, f, q))
    BY DEF Countable
  <1>6. /\ Cardinality(AtWork(wpc, held, t, f, h)) \in Nat
        /\ Cardinality(Queued(queue, t, f, q)) \in Nat
        /\ Cardinality(Queued(queue', t, f, q)) \in Nat
        /\ Part(m, t, f, q) \in Nat
    BY <1>1, <1>3, <1>5, FS_CardinalityType, PartType
  <1> QED
    BY <1>1, <1>3, <1>4, <1>5, <1>6 DEF Countable, Outstanding

\* A worker that receives a message turns what it weighs on the queue into what
\* it weighs at work.
LEMMA TakeMoves ==
  ASSUME Typed, Typed', NEW w \in Workers, NEW m \in Message, Take(w, m),
         NEW t, NEW f, NEW q \in Weights, NEW h \in Weights, Countable(t, f, q, h)
  PROVE  /\ Countable(t, f, q, h)'
         /\ Outstanding(t, f, q, h)' + Part(m, t, f, q)
              <= Outstanding(t, f, q, h) + Part(m, t, f, h)
         /\ Outstanding(t, f, q, h) + Part(m, t, f, h)
              <= Outstanding(t, f, q, h)' + Part(m, t, f, q)
  <1>1. /\ IsFiniteSet(Queued(queue', t, f, q))
        /\ Cardinality(Queued(queue', t, f, q)) + Part(m, t, f, q)
             <= Cardinality(Queued(queue, t, f, q))
        /\ Cardinality(Queued(queue, t, f, q))
             <= Cardinality(Queued(queue', t, f, q)) + Part(m, t, f, q)
    BY CopyTaken DEF Take, Typed, TypeOK, Countable
  <1>2. /\ \A v \in Workers : wpc[v] # "idle" => held[v] \in Message
        /\ \A v \in Workers : wpc'[v] # "idle" => held'[v] \in Message
    BY DEF Typed, HoldsMessage
  <1>3. /\ \A v \in Workers \ {w} : wpc'[v] = wpc[v] /\ held'[v] = held[v]
        /\ wpc[w] = "idle" /\ wpc'[w] = "taken" /\ held'[w] = m
    BY DEF Take, Typed, TypeOK
  <1>4. /\ WorkWeight(wpc, held, t, f, h)[w] = 0
        /\ WorkWeight(wpc', held', t, f, h)[w] = Part(m, t, f, h)
    BY <1>3 DEF WorkWeight
  <1>5. /\ IsFiniteSet(AtWork(wpc', held', t, f, h))
        /\ Cardinality(AtWork(wpc', held', t, f, h)) + WorkWeight(wpc, held, t, f, h)[w]
             <= Cardinality(AtWork(wpc, held, t, f, h)) + WorkWeight(wpc', held', t, f, h)[w]
        /\ Cardinality(AtWork(wpc, held, t, f, h)) + WorkWeight(wpc', held', t, f, h)[w]
             <= Cardinality(AtWork(wpc', held', t, f, h)) + WorkWeight(wpc, held, t, f, h)[w]
    BY <1>2, <1>3, WorkerMoves DEF Countable
  <1>6. /\ Cardinality(AtWork(wpc, held, t, f, h)) \in Nat
        /\ Cardinality(AtWork(wpc', held', t, f, h)) \in Nat
        /\ Cardinality(Queued(queue, t, f, q)) \in Nat
        /\ Cardinality(Queued(queue', t, f, q)) \in Nat
        /\ Part(m, t, f, q) \in Nat /\ Part(m, t, f, h) \in Nat
    BY <1>1, <1>5, FS_CardinalityType, PartType DEF Countable
  <1> QED
    BY <1>1, <1>4, <1>5, <1>6 DEF Countable, Outstanding

\* A worker that goes on with its message keeps its weight at most, one that is
\* done with it gives it up.
LEMMA WorkMoves ==
  ASSUME Typed, Typed', NEW w \in Workers, queue' = queue, wpc[w] # "idle",
         \A v \in Workers \ {w} : wpc'[v] = wpc[v] /\ held'[v] = held[v],
         wpc'[w] = "idle" \/ held'[w] = held[w],
         wpc[w] = "ack" => wpc'[w] \in {"idle", "ack"},
         NEW t, NEW f, NEW q \in Weights, NEW h \in Weights, Countable(t, f, q, h)
  PROVE  /\ Countable(t, f, q, h)'
         /\ Outstanding(t, f, q, h) =
              Outstanding(t, f, q, h)' +
                IF wpc[w] # "ack" /\ wpc'[w] \in {"idle", "ack"}
                THEN Part(held[w], t, f, h) ELSE 0
  <1>1. /\ \A v \in Workers : wpc[v] # "idle" => held[v] \in Message
        /\ \A v \in Workers : wpc'[v] # "idle" => held'[v] \in Message
    BY DEF Typed, HoldsMessage
  <1>2. Part(held[w], t, f, h) \in Nat
    BY <1>1, PartType
  <1>3. /\ WorkWeight(wpc, held, t, f, h)[w] =
             IF wpc[w] = "ack" THEN 0 ELSE Part(held[w], t, f, h)
        /\ WorkWeight(wpc', held', t, f, h)[w] =
             IF wpc'[w] \in {"idle", "ack"} THEN 0 ELSE Part(held[w], t, f, h)
    BY DEF WorkWeight
  <1>4. /\ IsFiniteSet(AtWork(wpc', held', t, f, h))
        /\ Cardinality(AtWork(wpc', held', t, f, h)) + WorkWeight(wpc, held, t, f, h)[w]
             <= Cardinality(AtWork(wpc, held, t, f, h)) + WorkWeight(wpc', held', t, f, h)[w]
        /\ Cardinality(AtWork(wpc, held, t, f, h)) + WorkWeight(wpc', held', t, f, h)[w]
             <= Cardinality(AtWork(wpc', held', t, f, h)) + WorkWeight(wpc, held, t, f, h)[w]
    BY <1>1, WorkerMoves DEF Countable
  <1>5. /\ Cardinality(AtWork(wpc, held, t, f, h)) \in Nat
        /\ Cardinality(AtWork(wpc', held', t, f, h)) \in Nat
        /\ Cardinality(Queued(queue, t, f, q)) \in Nat
    BY <1>4, FS_CardinalityType DEF Countable
  <1> QED
    BY <1>2, <1>3, <1>4, <1>5 DEF Countable, Outstanding

\* A retry gives up the weight at work, and puts the next attempt's on the queue
\* if there is one.
LEMMA RetryMoves ==
  ASSUME Typed, Typed', NEW w \in Workers, Retry(w),
         NEW t, NEW f, NEW q \in Weights, NEW h \in Weights, Countable(t, f, q, h)
  PROVE  /\ Countable(t, f, q, h)'
         /\ Outstanding(t, f, q, h)' + Part(held[w], t, f, h) <=
              Outstanding(t, f, q, h) +
                IF held[w].retries < RetryLimit(held[w].task)
                THEN Part(NextAttempt(held[w]), t, f, q) ELSE 0
         /\ Outstanding(t, f, q, h) +
                (IF held[w].retries < RetryLimit(held[w].task)
                 THEN Part(NextAttempt(held[w]), t, f, q) ELSE 0)
              <= Outstanding(t, f, q, h)' + Part(held[w], t, f, h)
  <1> DEFINE more == held[w].retries < RetryLimit(held[w].task)
             n == NextAttempt(held[w])
             d == IF more THEN Part(n, t, f, q) ELSE 0
  <1>1. /\ \A v \in Workers : wpc[v] # "idle" => held[v] \in Message
        /\ \A v \in Workers : wpc'[v] # "idle" => held'[v] \in Message
    BY DEF Typed, HoldsMessage
  <1>2. /\ wpc[w] = "retry" /\ wpc'[w] = "ack" /\ held' = held
        /\ \A v \in Workers \ {w} : wpc'[v] = wpc[v]
        /\ queue' = IF more THEN [queue EXCEPT ![n] = @ + 1] ELSE queue
        /\ queue \in [Message -> Nat]
    BY DEF Retry, Typed, TypeOK
  <1>3. held[w] \in Message /\ Part(held[w], t, f, h) \in Nat
    BY <1>1, <1>2, PartType
  <1>4. /\ d \in Nat
        /\ IsFiniteSet(Queued(queue', t, f, q))
        /\ Cardinality(Queued(queue', t, f, q)) <= Cardinality(Queued(queue, t, f, q)) + d
        /\ Cardinality(Queued(queue, t, f, q)) + d <= Cardinality(Queued(queue', t, f, q))
    <2>1. CASE more
      <3>1. n \in Message
        BY <1>3, <2>1, NextMessage
      <3>2. Part(n, t, f, q) \in Nat /\ queue' = [queue EXCEPT ![n] = @ + 1]
        BY <1>2, <2>1, <3>1, PartType
      <3> QED
        BY <1>2, <2>1, <3>1, <3>2, CopyPut DEF Countable
    <2>2. CASE ~more
      <3>1. queue' = queue /\ d = 0
        BY <1>2, <2>2
      <3>2. Cardinality(Queued(queue, t, f, q)) \in Nat
        BY FS_CardinalityType DEF Countable
      <3> QED
        BY <3>1, <3>2 DEF Countable
    <2> QED
      BY <2>1, <2>2
  <1> HIDE DEF d, more, n
  <1>5. /\ WorkWeight(wpc, held, t, f, h)[w] = Part(held[w], t, f, h)
        /\ WorkWeight(wpc', held', t, f, h)[w] = 0
    BY <1>2 DEF WorkWeight
  <1>6. /\ IsFiniteSet(AtWork(wpc', held', t, f, h))
        /\ Cardinality(AtWork(wpc', held', t, f, h)) + WorkWeight(wpc, held, t, f, h)[w]
             <= Cardinality(AtWork(wpc, held, t, f, h)) + WorkWeight(wpc', held', t, f, h)[w]
        /\ Cardinality(AtWork(wpc, held, t, f, h)) + WorkWeight(wpc', held', t, f, h)[w]
             <= Cardinality(AtWork(wpc', held', t, f, h)) + WorkWeight(wpc, held, t, f, h)[w]
    BY <1>1, <1>2, WorkerMoves DEF Countable
  <1>7. /\ Cardinality(AtWork(wpc, held, t, f, h)) \in Nat
        /\ Cardinality(AtWork(wpc', held', t, f, h)) \in Nat
        /\ Cardinality(Queued(queue, t, f, q)) \in Nat
        /\ Cardinality(Queued(queue', t, f, q)) \in Nat
    BY <1>4, <1>6, FS_CardinalityType DEF Countable
  <1>8. /\ Outstanding(t, f, q, h)' + Part(held[w], t, f, h) <= Outstanding(t, f, q, h) + d
        /\ Outstanding(t, f, q, h) + d <= Outstanding(t, f, q, h)' + Part(held[w], t, f, h)
    BY <1>3, <1>4, <1>5, <1>6, <1>7 DEF Outstanding
  <1> QED
    BY <1>4, <1>6, <1>8 DEF Countable, d, more, n

\* A message delivered again weighs as much as it did the first time.
LEMMA CrashMoves ==
  ASSUME Typed, Typed', NEW w \in Workers, Crash(w),
         NEW t, NEW f, NEW q \in Weights, NEW h \in Weights, Countable(t, f, q, h)
  PROVE  /\ Countable(t, f, q, h)'
         /\ Outstanding(t, f, q, h)' <= Outstanding(t, f, q, h) + Part(held[w], t, f, q)
         /\ Outstanding(t, f, q, h) + Part(held[w], t, f, q)
              <= Outstanding(t, f, q, h)' + Part(held[w], t, f, h)
  <1>1. /\ \A v \in Workers : wpc[v] # "idle" => held[v] \in Message
        /\ \A v \in Workers : wpc'[v] # "idle" => held'[v] \in Message
    BY DEF Typed, HoldsMessage
  <1>2. /\ wpc[w] # "idle" /\ wpc'[w] = "idle"
        /\ \A v \in Workers \ {w} : wpc'[v] = wpc[v] /\ held'[v] = held[v]
        /\ queue' = [queue EXCEPT ![held[w]] = @ + 1]
        /\ queue \in [Message -> Nat]
    BY DEF Crash, Release, Typed, TypeOK
  <1>3. held[w] \in Message /\ Part(held[w], t, f, h) \in Nat /\ Part(held[w], t, f, q) \in Nat
    BY <1>1, <1>2, PartType
  <1>4. /\ IsFiniteSet(Queued(queue', t, f, q))
        /\ Cardinality(Queued(queue', t, f, q))
             <= Cardinality(Queued(queue, t, f, q)) + Part(held[w], t, f, q)
        /\ Cardinality(Queued(queue, t, f, q)) + Part(held[w], t, f, q)
             <= Cardinality(Queued(queue', t, f, q))
    BY <1>2, <1>3, CopyPut DEF Countable
  <1>5. /\ WorkWeight(wpc, held, t, f, h)[w] \in 0..Part(held[w], t, f, h)
        /\ WorkWeight(wpc', held', t, f, h)[w] = 0
    BY <1>2, <1>3 DEF WorkWeight
  <1>6. /\ IsFiniteSet(AtWork(wpc', held', t, f, h))
        /\ Cardinality(AtWork(wpc', held', t, f, h)) + WorkWeight(wpc, held, t, f, h)[w]
             <= Cardinality(AtWork(wpc, held, t, f, h)) + WorkWeight(wpc', held', t, f, h)[w]
        /\ Cardinality(AtWork(wpc, held, t, f, h)) + WorkWeight(wpc', held', t, f, h)[w]
             <= Cardinality(AtWork(wpc', held', t, f, h)) + WorkWeight(wpc, held, t, f, h)[w]
    BY <1>1, <1>2, WorkerMoves DEF Countable
  <1>7. /\ Cardinality(AtWork(wpc, held, t, f, h)) \in Nat
        /\ Cardinality(AtWork(wpc', held', t, f, h)) \in Nat
        /\ Cardinality(Queued(queue, t, f, q)) \in Nat
        /\ Cardinality(Queued(queue', t, f, q)) \in Nat
    BY <1>4, <1>6, FS_CardinalityType DEF Countable
  <1> QED
    BY <1>3, <1>4, <1>5, <1>6, <1>7 DEF Countable, Outstanding

\* At first there is nothing to do.
LEMMA NothingOutstanding ==
  ASSUME Init, NEW t, NEW f, NEW q \in Weights, NEW h \in Weights
  PROVE  Countable(t, f, q, h) /\ Outstanding(t, f, q, h) = 0
  <1> DEFINE a == QueueWeight(queue, t, f, q)
             b == WorkWeight(wpc, held, t, f, h)
  <1>1. a \in [Copies -> Nat] /\ \A c \in Copies : a[c] = 0
    BY QueueWeightType DEF Init, Copies, QueueWeight
  <1>2. b \in [Workers -> Nat] /\ \A w \in Workers : b[w] = 0
    BY DEF Init, WorkWeight
  <1> HIDE DEF a, b
  <1>3. /\ IsFiniteSet(Tokens(Copies, a)) /\ Cardinality(Tokens(Copies, a)) = 0
        /\ IsFiniteSet(Tokens(Workers, b)) /\ Cardinality(Tokens(Workers, b)) = 0
    BY <1>1, <1>2, NoWeight
  <1> QED
    BY <1>3 DEF Countable, Outstanding, Queued, AtWork, a, b

\* No step of the system but these changes what is outstanding.
LEMMA OthersKeepOutstanding ==
  ASSUME UNCHANGED <<queue, wpc, held>>, NEW t, NEW f, NEW q, NEW h, Countable(t, f, q, h)
  PROVE  Countable(t, f, q, h)' /\ Outstanding(t, f, q, h)' = Outstanding(t, f, q, h)
  BY DEF Countable, Outstanding, Queued, AtWork, QueueWeight, WorkWeight

\* The steps of a worker that count nothing and leave the queue alone.
Quiet(w) ==
    \/ StartProcess(w) \/ StartExport(w) \/ ExportFails(w) \/ StartUnusable(w)
    \/ Interrupted(w)
    \/ \E saved \in BOOLEAN : Parse(w, saved)
    \/ RecordFailure(w) \/ FailureUnrecorded(w) \/ Ack(w)

\* A quiet step goes on with the message, or is done with one that only had to be
\* acknowledged.
LEMMA QuietSteps ==
  ASSUME Typed, NEW w \in Workers, Quiet(w)
  PROVE  /\ UNCHANGED <<queue, exports, enqueued, started, redelivered, disowned>>
         /\ lost \subseteq lost'
         /\ wpc[w] # "idle"
         /\ \A v \in Workers \ {w} : wpc'[v] = wpc[v] /\ held'[v] = held[v]
         /\ wpc'[w] = "idle" \/ held'[w] = held[w]
         /\ wpc[w] = "ack" <=> wpc'[w] \in {"idle", "ack"}
  <1> USE DEF Typed, TypeOK
  <1>1. CASE StartProcess(w) \/ StartUnusable(w) \/ Interrupted(w) \/ ExportFails(w)
    BY <1>1 DEF StartProcess, StartUnusable, Interrupted, ExportFails
  <1>2. CASE StartExport(w)
    <2>1. \E s \in {"export", "fail"} : wpc' = [wpc EXCEPT ![w] = s]
      BY <1>2 DEF StartExport
    <2> QED
      BY <1>2, <2>1 DEF StartExport
  <1>3. ASSUME NEW saved \in BOOLEAN, Parse(w, saved)
        PROVE  UNCHANGED <<exports, queue, held, history>> /\ wpc[w] = "parse"
               /\ wpc' = [wpc EXCEPT ![w] = "fail"]
    BY <1>3 DEF Parse
  <1>4. CASE RecordFailure(w) \/ FailureUnrecorded(w)
    BY <1>4 DEF RecordFailure, FailureUnrecorded
  <1>5. CASE Ack(w)
    BY <1>5 DEF Ack, Release
  <1> QED
    BY <1>1, <1>2, <1>3, <1>4, <1>5 DEF Quiet

\* The export counts its record; its worker has its message in hand all the while.
LEMMA ExportSteps ==
  ASSUME Typed, NEW w \in Workers, ExportCommit(w) \/ ExportDoubted(w)
  PROVE  /\ UNCHANGED <<queue, held, enqueued, started, redelivered, lost>>
         /\ exports' = [exports EXCEPT ![held[w].file] = @ + 1]
         /\ wpc[w] = "export"
         /\ \A v \in Workers \ {w} : wpc'[v] = wpc[v]
         /\ ExportCommit(w) => wpc'[w] = "ack" /\ disowned' = disowned
         /\ ~ExportCommit(w) =>
              wpc'[w] = "fail" /\ disowned' = [disowned EXCEPT ![held[w].file] = @ + 1]
  BY DEF ExportCommit, ExportDoubted, Export, Typed, TypeOK

\* What the steps of the workers that neither take nor publish a message do to it.
LEMMA WorkStepMoves ==
  ASSUME Typed, Typed', NEW w \in Workers,
         Quiet(w) \/ ExportCommit(w) \/ ExportDoubted(w) \/ TimeLimit(w),
         NEW t, NEW f, NEW q \in Weights, NEW h \in Weights, Countable(t, f, q, h)
  PROVE  /\ Countable(t, f, q, h)'
         /\ Outstanding(t, f, q, h)' <= Outstanding(t, f, q, h)
         /\ ExportCommit(w) =>
              Outstanding(t, f, q, h)' + Part(held[w], t, f, h) <= Outstanding(t, f, q, h)
         /\ \/ Outstanding(t, f, q, h) <= Outstanding(t, f, q, h)'
            \/ /\ ExportCommit(w) \/ TimeLimit(w)
               /\ Outstanding(t, f, q, h) <= Outstanding(t, f, q, h)' + Part(held[w], t, f, h)
  <1>1. /\ queue' = queue /\ wpc[w] # "idle"
        /\ \A v \in Workers \ {w} : wpc'[v] = wpc[v] /\ held'[v] = held[v]
        /\ wpc'[w] = "idle" \/ held'[w] = held[w]
        /\ wpc[w] = "ack" => wpc'[w] \in {"idle", "ack"}
    <2>1. CASE Quiet(w)
      BY <2>1, QuietSteps
    <2>2. CASE ExportCommit(w) \/ ExportDoubted(w)
      BY <2>2, ExportSteps
    <2>3. CASE TimeLimit(w)
      BY <2>3 DEF TimeLimit, Release, Typed, TypeOK
    <2> QED BY <2>1, <2>2, <2>3
  <1>2. /\ ExportCommit(w) => wpc[w] # "ack" /\ wpc'[w] \in {"idle", "ack"}
        /\ wpc[w] # "ack" /\ wpc'[w] \in {"idle", "ack"} => ExportCommit(w) \/ TimeLimit(w)
    BY QuietSteps, ExportSteps
  <1>3. /\ Countable(t, f, q, h)'
        /\ Outstanding(t, f, q, h) =
             Outstanding(t, f, q, h)' +
               IF wpc[w] # "ack" /\ wpc'[w] \in {"idle", "ack"}
               THEN Part(held[w], t, f, h) ELSE 0
    BY <1>1, WorkMoves
  <1>4. Part(held[w], t, f, h) \in Nat /\ Outstanding(t, f, q, h) \in Nat
    <2>1. held[w] \in Message
      BY <1>1 DEF Typed, HoldsMessage
    <2> QED
      BY <2>1, PartType, OutstandingType
  <1>5. Outstanding(t, f, q, h)' \in Nat
    BY <1>3, FS_CardinalityType DEF Countable, Outstanding
  <1> QED
    BY <1>2, <1>3, <1>4, <1>5

-----------------------------------------------------------------------------
(* Attempts are bounded                                                    *)

\* The attempts a queued copy may still become, and those a message at work may.
AttemptsQueued(t) == [k \in Nat |-> IF k <= RetryLimit(t) THEN RetryLimit(t) + 1 - k ELSE 0]
AttemptsAtWork(t) == [k \in Nat |-> IF k <= RetryLimit(t) THEN RetryLimit(t) - k ELSE 0]

Remaining(t, f) == Outstanding(t, f, AttemptsQueued(t), AttemptsAtWork(t))
Finite(t, f) == Countable(t, f, AttemptsQueued(t), AttemptsAtWork(t))

\* Every published or redelivered message pays for RetryLimit + 1 attempts; the
\* attempts made and those still possible never exceed what has been paid for.
AttemptsPaid ==
    \A t \in Tasks, f \in Files :
       /\ Finite(t, f)
       /\ started[t][f] + Remaining(t, f)
            <= (RetryLimit(t) + 1) * (enqueued[t][f] + redelivered[t][f])

\* Attempts left are numbers.
LEMMA AttemptsType ==
  ASSUME NEW t \in Tasks
  PROVE  RetryLimit(t) \in Nat /\ AttemptsQueued(t) \in Weights /\ AttemptsAtWork(t) \in Weights
  <1>1. RetryLimit(t) \in Nat
    BY LifecycleAssumption DEF RetryLimit
  <1> QED
    BY <1>1 DEF AttemptsQueued, AttemptsAtWork, Weights

\* The attempts left to a message, on the queue and at work.
LEMMA AttemptsLeft ==
  ASSUME NEW m \in Message, NEW t \in Tasks, NEW f
  PROVE  /\ m.task = t /\ m.file = f =>
              /\ Part(m, t, f, AttemptsQueued(t)) = RetryLimit(t) + 1 - m.retries
              /\ Part(m, t, f, AttemptsAtWork(t)) = RetryLimit(t) - m.retries
         /\ ~(m.task = t /\ m.file = f) =>
              /\ Part(m, t, f, AttemptsQueued(t)) = 0
              /\ Part(m, t, f, AttemptsAtWork(t)) = 0
  BY MessageFields DEF Part, AttemptsQueued, AttemptsAtWork

\* One more message pays for RetryLimit + 1 more attempts.
LEMMA OneMorePaid ==
  ASSUME NEW l \in Nat, NEW e \in Nat, NEW r \in Nat
  PROVE  /\ (l + 1) * ((e + 1) + r) = (l + 1) * (e + r) + (l + 1)
         /\ (l + 1) * (e + (r + 1)) = (l + 1) * (e + r) + (l + 1)
         /\ (l + 1) * (e + r) \in Nat
  OBVIOUS

\* Each step pays for the attempts it makes possible.
LEMMA StepPaid ==
  ASSUME Typed, Typed', AttemptsPaid, [Next]_vars
  PROVE  AttemptsPaid'
  <1> SUFFICES ASSUME NEW t \in Tasks, NEW f \in Files
               PROVE  /\ Finite(t, f)'
                      /\ started'[t][f] + Remaining(t, f)'
                           <= (RetryLimit(t) + 1) * (enqueued'[t][f] + redelivered'[t][f])
    BY DEF AttemptsPaid
  <1> DEFINE q == AttemptsQueued(t)
             h == AttemptsAtWork(t)
             paid == (RetryLimit(t) + 1) * (enqueued[t][f] + redelivered[t][f])
  <1>1. /\ Finite(t, f) /\ Countable(t, f, q, h) /\ Remaining(t, f) = Outstanding(t, f, q, h)
        /\ started[t][f] + Remaining(t, f) <= paid
    BY DEF AttemptsPaid, Finite, Remaining
  <1>2. RetryLimit(t) \in Nat /\ q \in Weights /\ h \in Weights
    BY AttemptsType
  <1>3. /\ started[t][f] \in Nat /\ enqueued[t][f] \in Nat /\ redelivered[t][f] \in Nat
        /\ started \in PerTask /\ enqueued \in PerTask /\ redelivered \in PerTask
    BY DEF Typed, TypeOK
  <1>4. paid \in Nat /\ Remaining(t, f) \in Nat
    BY <1>1, <1>2, <1>3, OneMorePaid, OutstandingType
  <1>5. Finite(t, f)' <=> Countable(t, f, q, h)'
    BY DEF Finite
  <1>6. Remaining(t, f)' = Outstanding(t, f, q, h)'
    BY DEF Remaining
  <1>7. Countable(t, f, q, h)' => Remaining(t, f)' \in Nat
    BY <1>6, FS_CardinalityType DEF Countable, Outstanding
  <1> HIDE DEF q, h
  <1>8. ASSUME NEW u \in Tasks, NEW g \in Files, Delay(u, g),
               UNCHANGED <<wpc, held, started, redelivered>>
        PROVE  /\ Finite(t, f)'
               /\ started'[t][f] + Remaining(t, f)'
                    <= (RetryLimit(t) + 1) * (enqueued'[t][f] + redelivered'[t][f])
    <2> DEFINE mine == u = t /\ g = f
    <2>1. /\ Countable(t, f, q, h)'
          /\ Outstanding(t, f, q, h)' <= Outstanding(t, f, q, h) + IF mine THEN q[0] ELSE 0
      BY <1>1, <1>2, <1>8, DelayAdds
    <2>2. q[0] = RetryLimit(t) + 1
      BY <1>2 DEF q, AttemptsQueued
    <2>3. CASE mine
      <3>1. enqueued'[t][f] = enqueued[t][f] + 1
        BY <1>3, <1>8, <2>3 DEF Delay
      <3>2. (RetryLimit(t) + 1) * (enqueued'[t][f] + redelivered'[t][f])
              = paid + (RetryLimit(t) + 1)
        BY <1>2, <1>3, <1>8, <3>1, OneMorePaid
      <3> QED
        BY <1>1, <1>2, <1>3, <1>4, <1>5, <1>6, <1>7, <1>8, <2>1, <2>2, <2>3, <3>2
    <2>4. CASE ~mine
      <3>1. enqueued'[t][f] = enqueued[t][f]
        BY <1>3, <1>8, <2>4 DEF Delay
      <3>2. (RetryLimit(t) + 1) * (enqueued'[t][f] + redelivered'[t][f]) = paid
        BY <1>8, <3>1
      <3> QED
        BY <1>1, <1>3, <1>4, <1>5, <1>6, <1>7, <1>8, <2>1, <2>4, <3>2
    <2> QED
      BY <2>3, <2>4
  <1>9. ASSUME NEW w \in Workers, NEW m \in Message, Take(w, m)
        PROVE  /\ Finite(t, f)'
               /\ started'[t][f] + Remaining(t, f)'
                    <= (RetryLimit(t) + 1) * (enqueued'[t][f] + redelivered'[t][f])
    <2>1. /\ Countable(t, f, q, h)'
          /\ Outstanding(t, f, q, h)' + Part(m, t, f, q) <= Outstanding(t, f, q, h) + Part(m, t, f, h)
      BY <1>1, <1>2, <1>9, TakeMoves
    <2>2. started' = [started EXCEPT ![m.task][m.file] = @ + 1]
          /\ (RetryLimit(t) + 1) * (enqueued'[t][f] + redelivered'[t][f]) = paid
      BY <1>9 DEF Take
    <2>3. m.task \in Tasks /\ m.file \in Files /\ m.retries \in Nat /\ m.retries <= RetryLimit(m.task)
      BY MessageFields
    <2>4. CASE m.task = t /\ m.file = f
      <3>1. started'[t][f] = started[t][f] + 1
        BY <1>3, <2>2, <2>4
      <3>2. /\ Part(m, t, f, q) = RetryLimit(t) + 1 - m.retries
            /\ Part(m, t, f, h) = RetryLimit(t) - m.retries
        BY <2>4, AttemptsLeft DEF q, h
      <3> QED
        BY <1>1, <1>2, <1>3, <1>4, <1>5, <1>6, <1>7, <2>1, <2>2, <2>3, <3>1, <3>2
    <2>5. CASE ~(m.task = t /\ m.file = f)
      <3>1. started'[t][f] = started[t][f]
        BY <1>3, <2>2, <2>3, <2>5
      <3>2. Part(m, t, f, q) = 0 /\ Part(m, t, f, h) = 0
        BY <2>5, AttemptsLeft DEF q, h
      <3> QED
        BY <1>1, <1>2, <1>3, <1>4, <1>5, <1>6, <1>7, <2>1, <2>2, <3>1, <3>2
    <2> QED
      BY <2>4, <2>5
  <1>10. ASSUME Countable(t, f, q, h)', Outstanding(t, f, q, h)' <= Outstanding(t, f, q, h),
                UNCHANGED <<enqueued, started, redelivered>>
         PROVE  /\ Finite(t, f)'
                /\ started'[t][f] + Remaining(t, f)'
                     <= (RetryLimit(t) + 1) * (enqueued'[t][f] + redelivered'[t][f])
    <2>1. (RetryLimit(t) + 1) * (enqueued'[t][f] + redelivered'[t][f]) = paid
      BY <1>10
    <2> QED
      BY <1>1, <1>3, <1>4, <1>5, <1>6, <1>7, <1>10, <2>1
  <1>11. ASSUME NEW w \in Workers, Retry(w)
         PROVE  Countable(t, f, q, h)' /\ Outstanding(t, f, q, h)' <= Outstanding(t, f, q, h)
    <2> DEFINE m == held[w]
    <2>1. m \in Message
      BY <1>11 DEF Retry, Typed, HoldsMessage
    <2>2. /\ Countable(t, f, q, h)'
          /\ Outstanding(t, f, q, h)' + Part(m, t, f, h) <=
               Outstanding(t, f, q, h) +
                 IF m.retries < RetryLimit(m.task) THEN Part(NextAttempt(m), t, f, q) ELSE 0
      BY <1>1, <1>2, <1>11, RetryMoves
    <2>3. ASSUME m.retries < RetryLimit(m.task)
          PROVE  Part(NextAttempt(m), t, f, q) = Part(m, t, f, h)
      <3>1. NextAttempt(m) \in Message
        BY <2>1, <2>3, NextMessage
      <3>2. /\ NextAttempt(m).task = m.task /\ NextAttempt(m).file = m.file
            /\ NextAttempt(m).retries = m.retries + 1
        BY DEF NextAttempt
      <3>3. m.retries \in Nat
        BY <2>1, MessageFields
      <3>4. CASE m.task = t /\ m.file = f
        BY <1>2, <2>1, <3>1, <3>2, <3>3, <3>4, AttemptsLeft DEF q, h
      <3>5. CASE ~(m.task = t /\ m.file = f)
        BY <2>1, <3>1, <3>2, <3>5, AttemptsLeft DEF q, h
      <3> QED
        BY <3>4, <3>5
    <2>4. Part(m, t, f, h) \in Nat
      BY <1>2, <2>1, PartType
    <2> HIDE DEF m
    <2> QED
      BY <1>1, <1>4, <1>6, <1>7, <2>2, <2>3, <2>4
  <1>12. ASSUME NEW w \in Workers, Crash(w)
         PROVE  /\ Finite(t, f)'
                /\ started'[t][f] + Remaining(t, f)'
                     <= (RetryLimit(t) + 1) * (enqueued'[t][f] + redelivered'[t][f])
    <2> DEFINE m == held[w]
    <2>1. m \in Message
      BY <1>12 DEF Crash, Typed, HoldsMessage
    <2>2. /\ Countable(t, f, q, h)'
          /\ Outstanding(t, f, q, h)' <= Outstanding(t, f, q, h) + Part(m, t, f, q)
      BY <1>1, <1>2, <1>12, CrashMoves
    <2>3. /\ redelivered' = [redelivered EXCEPT ![m.task][m.file] = @ + 1]
          /\ started' = started /\ enqueued' = enqueued
      BY <1>12 DEF Crash, Release
    <2>4. m.task \in Tasks /\ m.file \in Files /\ m.retries \in Nat
      BY <2>1, MessageFields
    <2>5. CASE m.task = t /\ m.file = f
      <3>1. redelivered'[t][f] = redelivered[t][f] + 1
        BY <1>3, <2>3, <2>5
      <3>2. (RetryLimit(t) + 1) * (enqueued'[t][f] + redelivered'[t][f])
              = paid + (RetryLimit(t) + 1)
        BY <1>2, <1>3, <2>3, <3>1, OneMorePaid
      <3>3. Part(m, t, f, q) = RetryLimit(t) + 1 - m.retries
        BY <2>1, <2>5, AttemptsLeft DEF q
      <3> QED
        BY <1>1, <1>2, <1>3, <1>4, <1>5, <1>6, <1>7, <2>2, <2>3, <2>4, <3>2, <3>3
    <2>6. CASE ~(m.task = t /\ m.file = f)
      <3>1. redelivered'[t][f] = redelivered[t][f]
        BY <1>3, <2>3, <2>4, <2>6
      <3>2. (RetryLimit(t) + 1) * (enqueued'[t][f] + redelivered'[t][f]) = paid
        BY <2>3, <3>1
      <3>3. Part(m, t, f, q) = 0
        BY <2>1, <2>6, AttemptsLeft DEF q
      <3> QED
        BY <1>1, <1>3, <1>4, <1>5, <1>6, <1>7, <2>2, <2>3, <3>2, <3>3
    <2> QED
      BY <2>5, <2>6
  <1>13. ASSUME UNCHANGED <<queue, wpc, held, enqueued, started, redelivered>>
         PROVE  /\ Finite(t, f)'
                /\ started'[t][f] + Remaining(t, f)'
                     <= (RetryLimit(t) + 1) * (enqueued'[t][f] + redelivered'[t][f])
    <2>1. Countable(t, f, q, h)' /\ Outstanding(t, f, q, h)' = Outstanding(t, f, q, h)
      BY <1>1, <1>13, OthersKeepOutstanding
    <2>2. Outstanding(t, f, q, h)' <= Outstanding(t, f, q, h)
      BY <1>1, <1>4, <2>1
    <2> QED
      BY <1>10, <1>13, <2>1, <2>2
  <1>14. ASSUME NEW u \in Uploaders, Upload(u) \/ UploadLost(u)
         PROVE  \/ Delay("process", ufile[u]) /\ UNCHANGED <<wpc, held, started, redelivered>>
                \/ UNCHANGED <<queue, wpc, held, enqueued, started, redelivered>>
    BY <1>14 DEF Upload, UploadCheck, UploadInsert, UploadEnqueue, UploadLost
  <1>15. ASSUME NEW a \in Approvers, Approve(a) \/ ApproveLost(a)
         PROVE  \/ Delay("export", afile[a]) /\ UNCHANGED <<wpc, held, started, redelivered>>
                \/ UNCHANGED <<queue, wpc, held, enqueued, started, redelivered>>
    BY <1>15 DEF Approve, ApproveCheck, ApproveCommit, ApproveEnqueue, ApproveLost
  <1>16. ASSUME ReviewRequest \/ UNCHANGED vars
         PROVE  UNCHANGED <<queue, wpc, held, enqueued, started, redelivered>>
    BY <1>16 DEF ReviewRequest, Review, vars
  <1>17. ASSUME NEW w \in Workers,
                Quiet(w) \/ ExportCommit(w) \/ ExportDoubted(w) \/ TimeLimit(w)
         PROVE  /\ Countable(t, f, q, h)' /\ Outstanding(t, f, q, h)' <= Outstanding(t, f, q, h)
                /\ UNCHANGED <<enqueued, started, redelivered>>
    <2>1. Countable(t, f, q, h)' /\ Outstanding(t, f, q, h)' <= Outstanding(t, f, q, h)
      BY <1>1, <1>2, <1>17, WorkStepMoves
    <2>2. UNCHANGED <<enqueued, started, redelivered>>
      BY <1>17, QuietSteps, ExportSteps DEF TimeLimit, Release
    <2> QED
      BY <2>1, <2>2
  <1>18. ASSUME NEW w \in Workers, Retry(w)
         PROVE  UNCHANGED <<enqueued, started, redelivered>>
    BY <1>18 DEF Retry
  <1>19. /\ "process" \in Tasks /\ "export" \in Tasks
         /\ \A u \in Uploaders : ufile[u] \in Files
         /\ \A a \in Approvers : afile[a] \in Files
    BY DEF Tasks, Typed, TypeOK
  <1> HIDE DEF paid
  <1>20. ASSUME \/ \E u \in Uploaders : Upload(u) \/ UploadLost(u)
                \/ \E a \in Approvers : Approve(a) \/ ApproveLost(a)
                \/ ReviewRequest \/ UNCHANGED vars
         PROVE  /\ Finite(t, f)'
                /\ started'[t][f] + Remaining(t, f)'
                     <= (RetryLimit(t) + 1) * (enqueued'[t][f] + redelivered'[t][f])
    BY <1>8, <1>13, <1>14, <1>15, <1>16, <1>19, <1>20
  <1>21. ASSUME NEW w \in Workers, WorkerStep(w)
         PROVE  /\ Finite(t, f)'
                /\ started'[t][f] + Remaining(t, f)'
                     <= (RetryLimit(t) + 1) * (enqueued'[t][f] + redelivered'[t][f])
    BY <1>9, <1>10, <1>11, <1>12, <1>17, <1>18, <1>21 DEF Work, WorkerStep, Quiet
  <1> QED
    BY <1>20, <1>21 DEF Next, WorkerStep

\* Whatever crashes, retries and redeliveries there are, a task is started at
\* most RetryLimit + 1 times for each message published or delivered again.
THEOREM AttemptsAreBounded == Spec => []AttemptsBounded
  <1>1. Init => AttemptsPaid
    <2> SUFFICES ASSUME Init, NEW t \in Tasks, NEW f \in Files
                 PROVE  /\ Finite(t, f)
                        /\ started[t][f] + Remaining(t, f)
                             <= (RetryLimit(t) + 1) * (enqueued[t][f] + redelivered[t][f])
      BY DEF AttemptsPaid
    <2>1. /\ Countable(t, f, AttemptsQueued(t), AttemptsAtWork(t))
          /\ Outstanding(t, f, AttemptsQueued(t), AttemptsAtWork(t)) = 0
      BY AttemptsType, NothingOutstanding
    <2>2. started[t][f] = 0 /\ enqueued[t][f] = 0 /\ redelivered[t][f] = 0
      BY DEF Init, Zero
    <2>3. RetryLimit(t) \in Nat
      BY AttemptsType
    <2> QED
      BY <2>1, <2>2, <2>3 DEF Finite, Remaining
  <1>2. Typed /\ Typed' /\ AttemptsPaid /\ [Next]_vars => AttemptsPaid'
    BY StepPaid
  <1>3. Typed /\ AttemptsPaid => AttemptsBounded
    <2> SUFFICES ASSUME Typed, AttemptsPaid, NEW t \in Tasks, NEW f \in Files
                 PROVE  started[t][f] <= (RetryLimit(t) + 1) * (enqueued[t][f] + redelivered[t][f])
      BY DEF AttemptsBounded
    <2> DEFINE paid == (RetryLimit(t) + 1) * (enqueued[t][f] + redelivered[t][f])
    <2>1. Finite(t, f) /\ started[t][f] + Remaining(t, f) <= paid
      BY DEF AttemptsPaid
    <2>2. Remaining(t, f) \in Nat
      BY <2>1, OutstandingType DEF Finite, Remaining
    <2>3. started[t][f] \in Nat /\ enqueued[t][f] \in Nat /\ redelivered[t][f] \in Nat
      BY DEF Typed, TypeOK
    <2>4. paid \in Nat
      BY <2>3, AttemptsType, OneMorePaid
    <2> HIDE DEF paid
    <2>5. started[t][f] <= paid
      BY <2>1, <2>2, <2>3, <2>4
    <2> QED
      BY <2>5 DEF paid
  <1> QED
    BY <1>1, <1>2, <1>3, TypeCorrect, PTL DEF Spec

-----------------------------------------------------------------------------
(* Exports are approved                                                    *)

One == [k \in Nat |-> 1]

\* Approval requests that have committed and not yet published.
ApprovalWeight(pc, f) ==
    [a \in Approvers |-> IF pc[a] = "enqueue" /\ afile[a] = f THEN 1 ELSE 0]
Committing(pc, f) == Tokens(Approvers, ApprovalWeight(pc, f))

\* Every export record is one message's: the records that their tasks know of and the
\* export messages queued or at work are no more than those published and delivered
\* again. And every message published is one approval's.
ExportsPaid ==
    \A f \in Files :
       /\ Countable("export", f, One, One)
       /\ exports[f] + Outstanding("export", f, One, One)
            <= enqueued["export"][f] + redelivered["export"][f] + disowned[f]
       /\ IsFiniteSet(Committing(apc, f))
       /\ enqueued["export"][f] + Cardinality(Committing(apc, f)) <= approvals[f]

\* Only an export task stores an export.
ExportersExport == \A w \in Workers : wpc[w] = "export" => held[w].task = "export"

\* Every step keeps ExportersExport.
LEMMA StepExporters ==
  ASSUME Typed, ExportersExport, [Next]_vars
  PROVE  ExportersExport'
  <1> USE DEF Typed, TypeOK, ExportersExport
  <1>1. ASSUME NEW w \in Workers, WorkerStep(w)
        PROVE  ExportersExport'
    <2>1. CASE StartExport(w)
      BY <2>1 DEF StartExport
    <2>2. CASE /\ \A v \in Workers \ {w} : wpc'[v] = wpc[v] /\ held'[v] = held[v]
               /\ wpc'[w] # "export"
      BY <2>2
    <2>3. CASE \E m \in Message : Take(w, m)
      BY <2>2, <2>3 DEF Take
    <2>4. CASE StartProcess(w) \/ ExportFails(w) \/ StartUnusable(w) \/ Interrupted(w)
      BY <2>2, <2>4 DEF StartProcess, ExportFails, StartUnusable, Interrupted
    <2>5. CASE \E saved \in BOOLEAN : Parse(w, saved)
      BY <2>2, <2>5 DEF Parse
    <2>6. CASE ExportCommit(w) \/ ExportDoubted(w)
      <3>1. Typed
        OBVIOUS
      <3>2. /\ held' = held /\ \A v \in Workers \ {w} : wpc'[v] = wpc[v]
            /\ wpc'[w] # "export"
        BY <2>6, <3>1, ExportSteps
      <3> QED BY <2>2, <3>2
    <2>7. CASE RecordFailure(w) \/ FailureUnrecorded(w) \/ Retry(w)
      BY <2>2, <2>7 DEF RecordFailure, FailureUnrecorded, Retry
    <2>8. CASE Ack(w) \/ Crash(w) \/ TimeLimit(w)
      <3>1. Release(w)
        BY <2>8 DEF Ack, Crash, TimeLimit
      <3> QED BY <2>2, <3>1 DEF Release
    <2> QED
      BY <1>1, <2>1, <2>3, <2>4, <2>5, <2>6, <2>7, <2>8 DEF WorkerStep, Work
  <1>2. ASSUME UNCHANGED <<wpc, held>> PROVE ExportersExport'
    BY <1>2
  <1>3. ASSUME \/ \E u \in Uploaders : Upload(u) \/ UploadLost(u)
               \/ \E a \in Approvers : Approve(a) \/ ApproveLost(a)
               \/ ReviewRequest \/ UNCHANGED vars
        PROVE  UNCHANGED <<wpc, held>>
    BY <1>3 DEF Upload, UploadCheck, UploadInsert, UploadEnqueue, UploadLost, Approve,
       ApproveCheck, ApproveCommit, ApproveEnqueue, ApproveLost, ReviewRequest, Review, vars
  <1> QED
    BY <1>1, <1>2, <1>3 DEF Next, WorkerStep

\* Each message counts for one export, if it is an export of the file.
LEMMA OneEach ==
  ASSUME NEW m \in Message, NEW f
  PROVE  /\ One \in Weights
         /\ Part(m, "export", f, One) = IF m.task = "export" /\ m.file = f THEN 1 ELSE 0
  BY MessageFields DEF One, Weights, Part

\* Every step keeps the records and the messages of a file paid for.
LEMMA StepExportsPaid ==
  ASSUME Typed, Typed', ExportersExport, [Next]_vars, NEW f \in Files,
         Countable("export", f, One, One),
         exports[f] + Outstanding("export", f, One, One)
           <= enqueued["export"][f] + redelivered["export"][f] + disowned[f]
  PROVE  /\ Countable("export", f, One, One)'
         /\ exports'[f] + Outstanding("export", f, One, One)'
              <= enqueued'["export"][f] + redelivered'["export"][f] + disowned'[f]
  <1> DEFINE out == Outstanding("export", f, One, One)
             countable == Countable("export", f, One, One)
  <1>1. One \in Weights /\ "export" \in Tasks /\ "process" \in Tasks /\ One[0] = 1
    BY DEF One, Weights, Tasks
  <1>2. /\ exports[f] \in Nat /\ enqueued["export"][f] \in Nat /\ redelivered["export"][f] \in Nat
        /\ exports \in [Files -> Nat] /\ enqueued \in PerTask /\ redelivered \in PerTask
        /\ disowned \in [Files -> Nat] /\ disowned[f] \in Nat
    BY <1>1 DEF Typed, TypeOK
  <1>3. out \in Nat /\ (countable' => out' \in Nat)
    BY FS_CardinalityType DEF Countable, Outstanding
  <1> DEFINE paid == exports[f] + out
                       <= enqueued["export"][f] + redelivered["export"][f] + disowned[f]
  <1> HIDE DEF out, countable
  <1>4. ASSUME NEW u \in Tasks, NEW g \in Files, Delay(u, g),
               UNCHANGED <<wpc, held, exports, redelivered, disowned>>
        PROVE  countable' /\ paid'
    <2>1. countable' /\ out' <= out + IF u = "export" /\ g = f THEN One[0] ELSE 0
      BY <1>1, <1>4, DelayAdds DEF out, countable
    <2>2. enqueued'["export"][f] =
            enqueued["export"][f] + IF u = "export" /\ g = f THEN 1 ELSE 0
      BY <1>1, <1>2, <1>4 DEF Delay
    <2> QED
      BY <1>1, <1>2, <1>3, <1>4, <2>1, <2>2 DEF out
  <1>5. ASSUME countable', out' <= out, UNCHANGED <<exports, enqueued, redelivered, disowned>>
        PROVE  paid'
    BY <1>2, <1>3, <1>5 DEF out
  <1>6. ASSUME NEW w \in Workers, NEW m \in Message, Take(w, m)
        PROVE  countable' /\ out' <= out /\ UNCHANGED <<exports, enqueued, redelivered, disowned>>
    <2>1. countable' /\ out' + Part(m, "export", f, One) <= out + Part(m, "export", f, One)
      BY <1>1, <1>6, TakeMoves DEF out, countable
    <2>2. Part(m, "export", f, One) \in Nat
      BY OneEach
    <2> QED
      BY <1>3, <1>6, <2>1, <2>2 DEF Take
  <1>7. ASSUME NEW w \in Workers, ExportCommit(w) \/ ExportDoubted(w)
        PROVE  countable' /\ paid'
    <2>1. wpc[w] = "export" /\ enqueued' = enqueued /\ redelivered' = redelivered
      BY <1>7, ExportSteps
    <2>2. held[w] \in Message /\ held[w].task = "export" /\ held[w].file \in Files
      BY <2>1, MessageFields DEF Typed, HoldsMessage, ExportersExport
    <2>3. exports'[f] = exports[f] + IF held[w].file = f THEN 1 ELSE 0
      BY <1>2, <1>7, ExportSteps
    <2>4. countable' /\ out' <= out
          /\ (ExportCommit(w) => out' + Part(held[w], "export", f, One) <= out)
      BY <1>1, <1>7, WorkStepMoves DEF out, countable
    <2>5. Part(held[w], "export", f, One) = IF held[w].file = f THEN 1 ELSE 0
      BY <2>2, OneEach
    <2>6. CASE ExportCommit(w)
      <3>1. disowned' = disowned
        BY <2>6, ExportSteps
      <3> QED
        BY <1>2, <1>3, <2>1, <2>3, <2>4, <2>5, <2>6, <3>1 DEF out
    <2>7. CASE ~ExportCommit(w)
      <3>1. disowned'[f] = disowned[f] + IF held[w].file = f THEN 1 ELSE 0
        BY <1>2, <1>7, <2>2, <2>7, ExportSteps
      <3> QED
        BY <1>2, <1>3, <2>1, <2>3, <2>4, <3>1 DEF out
    <2> QED
      BY <2>6, <2>7
  <1>8. ASSUME NEW w \in Workers, Quiet(w) \/ TimeLimit(w)
        PROVE  countable' /\ out' <= out /\ UNCHANGED <<exports, enqueued, redelivered, disowned>>
    <2>1. countable' /\ out' <= out
      BY <1>1, <1>8, WorkStepMoves DEF out, countable
    <2>2. UNCHANGED <<exports, enqueued, redelivered, disowned>>
      BY <1>8, QuietSteps DEF TimeLimit, Release
    <2> QED
      BY <2>1, <2>2
  <1>9. ASSUME NEW w \in Workers, Retry(w)
        PROVE  countable' /\ out' <= out /\ UNCHANGED <<exports, enqueued, redelivered, disowned>>
    <2> DEFINE m == held[w]
    <2>1. m \in Message
      BY <1>9 DEF Retry, Typed, HoldsMessage
    <2>2. /\ countable'
          /\ out' + Part(m, "export", f, One) <=
               out + IF m.retries < RetryLimit(m.task)
                     THEN Part(NextAttempt(m), "export", f, One) ELSE 0
      BY <1>1, <1>9, RetryMoves DEF out, countable
    <2>3. ASSUME m.retries < RetryLimit(m.task)
          PROVE  Part(NextAttempt(m), "export", f, One) = Part(m, "export", f, One)
      <3>1. NextAttempt(m) \in Message
        BY <2>1, <2>3, NextMessage
      <3> QED
        BY <2>1, <3>1, OneEach DEF NextAttempt
    <2>4. Part(m, "export", f, One) \in Nat
      BY <2>1, OneEach
    <2> HIDE DEF m
    <2>5. out' <= out
      BY <1>3, <2>2, <2>3, <2>4
    <2> QED
      BY <1>9, <2>2, <2>5 DEF Retry
  <1>10. ASSUME NEW w \in Workers, Crash(w)
         PROVE  countable' /\ paid'
    <2>1. held[w] \in Message
      BY <1>10 DEF Crash, Typed, HoldsMessage
    <2>2. countable' /\ out' <= out + Part(held[w], "export", f, One)
      BY <1>1, <1>10, CrashMoves DEF out, countable
    <2>3. /\ redelivered' = [redelivered EXCEPT ![held[w].task][held[w].file] = @ + 1]
          /\ exports' = exports /\ enqueued' = enqueued /\ disowned' = disowned
      BY <1>10 DEF Crash, Release
    <2>4. held[w].task \in Tasks /\ held[w].file \in Files
      BY <2>1, MessageFields
    <2>5. redelivered'["export"][f] = redelivered["export"][f] + Part(held[w], "export", f, One)
      BY <1>1, <1>2, <2>1, <2>3, <2>4, OneEach
    <2> QED
      BY <1>2, <1>3, <2>1, <2>2, <2>3, <2>5, OneEach DEF out
  <1>11. ASSUME UNCHANGED <<queue, wpc, held, exports, enqueued, redelivered>>
         PROVE  countable' /\ out' <= out
    <2>1. countable' /\ out' = out
      BY <1>11, OthersKeepOutstanding DEF out, countable
    <2> QED
      BY <1>3, <2>1
  <1>12. ASSUME NEW u \in Uploaders, Upload(u) \/ UploadLost(u)
         PROVE  \/ /\ Delay("process", ufile[u])
                   /\ UNCHANGED <<wpc, held, exports, redelivered, disowned>>
                \/ UNCHANGED <<queue, wpc, held, exports, enqueued, redelivered, disowned>>
    BY <1>12 DEF Upload, UploadCheck, UploadInsert, UploadEnqueue, UploadLost
  <1>13. ASSUME NEW a \in Approvers, Approve(a) \/ ApproveLost(a)
         PROVE  \/ /\ Delay("export", afile[a])
                   /\ UNCHANGED <<wpc, held, exports, redelivered, disowned>>
                \/ UNCHANGED <<queue, wpc, held, exports, enqueued, redelivered, disowned>>
    BY <1>13 DEF Approve, ApproveCheck, ApproveCommit, ApproveEnqueue, ApproveLost
  <1>14. ASSUME ReviewRequest \/ UNCHANGED vars
         PROVE  UNCHANGED <<queue, wpc, held, exports, enqueued, redelivered, disowned>>
    BY <1>14 DEF ReviewRequest, Review, vars
  <1>15. /\ \A u \in Uploaders : ufile[u] \in Files
         /\ \A a \in Approvers : afile[a] \in Files
    BY DEF Typed, TypeOK
  <1>16. CASE \/ \E u \in Uploaders : Upload(u) \/ UploadLost(u)
              \/ \E a \in Approvers : Approve(a) \/ ApproveLost(a)
              \/ ReviewRequest \/ UNCHANGED vars
    <2>1. countable' /\ paid'
      BY <1>1, <1>4, <1>5, <1>11, <1>12, <1>13, <1>14, <1>15, <1>16
    <2> QED
      BY <2>1 DEF out, countable
  <1> HIDE DEF paid
  <1>17. ASSUME NEW w \in Workers, WorkerStep(w)
         PROVE  countable' /\ paid'
    BY <1>5, <1>6, <1>7, <1>8, <1>9, <1>10, <1>17 DEF Work, WorkerStep, Quiet
  <1> QED
    BY <1>16, <1>17 DEF Next, WorkerStep, out, countable, paid

\* An approval request that moves changes what is committed by its own weight.
LEMMA ApprovalMoves ==
  ASSUME NEW a \in Approvers, NEW pc, NEW pc2, NEW f,
         \A b \in Approvers \ {a} : pc2[b] = pc[b], IsFiniteSet(Committing(pc, f))
  PROVE  /\ IsFiniteSet(Committing(pc2, f))
         /\ Cardinality(Committing(pc2, f)) \in Nat /\ Cardinality(Committing(pc, f)) \in Nat
         /\ Cardinality(Committing(pc2, f)) + ApprovalWeight(pc, f)[a]
              <= Cardinality(Committing(pc, f)) + ApprovalWeight(pc2, f)[a]
  <1> DEFINE c == ApprovalWeight(pc, f)
             d == ApprovalWeight(pc2, f)
  <1>1. /\ c \in [Approvers -> Nat] /\ d \in [Approvers -> Nat]
        /\ \A b \in Approvers : b # a => d[b] = c[b]
    BY DEF ApprovalWeight
  <1> HIDE DEF c, d
  <1>2. IsFiniteSet(Tokens(Approvers, c))
    BY DEF c, Committing
  <1>3. /\ IsFiniteSet(Tokens(Approvers, d))
        /\ Cardinality(Tokens(Approvers, d)) + c[a] = Cardinality(Tokens(Approvers, c)) + d[a]
    BY <1>1, <1>2, OneWeightChanges
  <1>4. c[a] \in Nat /\ d[a] \in Nat
    BY <1>1
  <1> QED
    BY <1>2, <1>3, <1>4, FS_CardinalityType DEF c, d, Committing

\* Every step keeps the messages published paid for by approvals.
LEMMA StepApprovalsPaid ==
  ASSUME Typed, [Next]_vars, NEW f \in Files, IsFiniteSet(Committing(apc, f)),
         enqueued["export"][f] + Cardinality(Committing(apc, f)) <= approvals[f]
  PROVE  /\ IsFiniteSet(Committing(apc, f))'
         /\ enqueued'["export"][f] + Cardinality(Committing(apc, f))' <= approvals'[f]
  <1>1. /\ enqueued["export"][f] \in Nat /\ approvals[f] \in Nat
        /\ enqueued \in PerTask /\ approvals \in [Files -> Nat]
        /\ \A a \in Approvers : afile[a] \in Files
        /\ Cardinality(Committing(apc, f)) \in Nat
    BY FS_CardinalityType DEF Typed, TypeOK, Tasks
  <1>2. ASSUME NEW a \in Approvers, Approve(a) \/ ApproveLost(a)
        PROVE  /\ IsFiniteSet(Committing(apc, f))'
               /\ enqueued'["export"][f] + Cardinality(Committing(apc, f))' <= approvals'[f]
    <2>1. afile' = afile /\ \A b \in Approvers \ {a} : apc'[b] = apc[b]
      BY <1>2 DEF Typed, TypeOK, Approve, ApproveCheck, ApproveCommit, ApproveEnqueue, ApproveLost
    <2>2. Committing(apc, f)' = Committing(apc', f)
      BY <2>1 DEF Committing, ApprovalWeight
    <2>3. /\ IsFiniteSet(Committing(apc', f)) /\ Cardinality(Committing(apc', f)) \in Nat
          /\ Cardinality(Committing(apc', f)) + ApprovalWeight(apc, f)[a]
               <= Cardinality(Committing(apc, f)) + ApprovalWeight(apc', f)[a]
      BY <2>1, ApprovalMoves
    <2>4. /\ ApprovalWeight(apc, f)[a] = IF apc[a] = "enqueue" /\ afile[a] = f THEN 1 ELSE 0
          /\ ApprovalWeight(apc', f)[a] = IF apc'[a] = "enqueue" /\ afile[a] = f THEN 1 ELSE 0
      BY DEF ApprovalWeight
    <2>5. CASE ApproveCheck(a)
      <3>1. apc[a] # "enqueue" /\ apc'[a] # "enqueue" /\ enqueued' = enqueued /\ approvals' = approvals
        BY <2>5 DEF ApproveCheck, Typed, TypeOK
      <3> QED
        BY <1>1, <2>2, <2>3, <2>4, <3>1
    <2>6. CASE ApproveCommit(a)
      <3>1. /\ apc[a] # "enqueue" /\ apc'[a] = "enqueue" /\ enqueued' = enqueued
            /\ approvals'[f] = approvals[f] + IF afile[a] = f THEN 1 ELSE 0
        BY <1>1, <2>6 DEF ApproveCommit, Typed, TypeOK
      <3> QED
        BY <1>1, <2>2, <2>3, <2>4, <3>1
    <2>7. CASE ApproveEnqueue(a)
      <3>1. /\ apc[a] = "enqueue" /\ apc'[a] # "enqueue" /\ approvals' = approvals
            /\ enqueued'["export"][f] = enqueued["export"][f] + IF afile[a] = f THEN 1 ELSE 0
        BY <1>1, <2>7 DEF ApproveEnqueue, Delay, Typed, TypeOK, Tasks
      <3> QED
        BY <1>1, <2>2, <2>3, <2>4, <3>1
    <2>8. CASE ApproveLost(a)
      <3>1. apc[a] = "enqueue" /\ apc'[a] # "enqueue" /\ enqueued' = enqueued /\ approvals' = approvals
        BY <2>8 DEF ApproveLost, Typed, TypeOK
      <3> QED
        BY <1>1, <2>2, <2>3, <2>4, <3>1
    <2> QED
      BY <1>2, <2>5, <2>6, <2>7, <2>8 DEF Approve
  <1>3. ASSUME UNCHANGED <<apc, afile, approvals>>, enqueued'["export"] = enqueued["export"]
        PROVE  /\ IsFiniteSet(Committing(apc, f))'
               /\ enqueued'["export"][f] + Cardinality(Committing(apc, f))' <= approvals'[f]
    <2>1. Committing(apc, f)' = Committing(apc, f)
      BY <1>3 DEF Committing, ApprovalWeight
    <2> QED
      BY <1>3, <2>1
  <1>4. ASSUME NEW u \in Uploaders, Upload(u) \/ UploadLost(u)
        PROVE  UNCHANGED <<apc, afile, approvals>> /\ enqueued'["export"] = enqueued["export"]
    BY <1>1, <1>4 DEF Upload, UploadCheck, UploadInsert, UploadEnqueue, UploadLost, Delay, Tasks
  <1>5. ASSUME NEW w \in Workers, WorkerStep(w)
        PROVE  UNCHANGED <<apc, afile, approvals, enqueued>>
    BY <1>5, EndpointsLeftAlone
  <1>6. ASSUME ReviewRequest \/ UNCHANGED vars
        PROVE  UNCHANGED <<apc, afile, approvals, enqueued>>
    BY <1>6 DEF ReviewRequest, Review, vars
  <1> QED
    BY <1>2, <1>3, <1>4, <1>5, <1>6 DEF Next, WorkerStep

\* Every export record goes back to an approval, and to a message of its own: only a
\* message delivered again, or a task that fails after it has committed its export,
\* makes a second record from one approval.
THEOREM ExportsGoBackToApprovals == Spec => []ExportsAreApproved
  <1>1. Init => ExportersExport /\ ExportsPaid
    <2> SUFFICES ASSUME Init PROVE ExportersExport /\ ExportsPaid
      OBVIOUS
    <2>1. ExportersExport
      BY DEF Init, ExportersExport
    <2>2. ASSUME NEW f \in Files
          PROVE  /\ Countable("export", f, One, One) /\ Outstanding("export", f, One, One) = 0
                 /\ exports[f] = 0 /\ enqueued["export"][f] = 0 /\ redelivered["export"][f] = 0
                 /\ approvals[f] = 0 /\ disowned[f] = 0
      <3>1. One \in Weights /\ "export" \in Tasks
        BY DEF One, Weights, Tasks
      <3> QED
        BY <3>1, NothingOutstanding DEF Init, Zero
    <2>3. ASSUME NEW f \in Files
          PROVE  IsFiniteSet(Committing(apc, f)) /\ Cardinality(Committing(apc, f)) = 0
      <3>1. /\ ApprovalWeight(apc, f) \in [Approvers -> Nat]
            /\ \A a \in Approvers : ApprovalWeight(apc, f)[a] = 0
        BY DEF Init, ApprovalWeight
      <3> QED
        BY <3>1, NoWeight DEF Committing
    <2> QED
      BY <2>1, <2>2, <2>3 DEF ExportsPaid
  <1>2. Typed /\ Typed' /\ ExportersExport /\ ExportsPaid /\ [Next]_vars
          => ExportersExport' /\ ExportsPaid'
    <2> SUFFICES ASSUME Typed, Typed', ExportersExport, ExportsPaid, [Next]_vars
                 PROVE  ExportersExport' /\ ExportsPaid'
      OBVIOUS
    <2>1. ExportersExport'
      BY StepExporters
    <2>2. ASSUME NEW f \in Files
          PROVE  /\ Countable("export", f, One, One)'
                 /\ exports'[f] + Outstanding("export", f, One, One)'
                      <= enqueued'["export"][f] + redelivered'["export"][f] + disowned'[f]
      BY StepExportsPaid DEF ExportsPaid
    <2>3. ASSUME NEW f \in Files
          PROVE  /\ IsFiniteSet(Committing(apc, f))'
                 /\ enqueued'["export"][f] + Cardinality(Committing(apc, f))' <= approvals'[f]
      BY StepApprovalsPaid DEF ExportsPaid
    <2> QED
      BY <2>1, <2>2, <2>3 DEF ExportsPaid
  <1>3. Typed /\ ExportsPaid => ExportsAreApproved
    <2> SUFFICES ASSUME Typed, ExportsPaid, NEW f \in Files
                 PROVE  /\ exports[f] <= enqueued["export"][f] + redelivered["export"][f]
                                           + disowned[f]
                        /\ enqueued["export"][f] <= approvals[f]
      BY DEF ExportsAreApproved
    <2>1. /\ exports[f] \in Nat /\ enqueued["export"][f] \in Nat
          /\ redelivered["export"][f] \in Nat /\ approvals[f] \in Nat
          /\ disowned[f] \in Nat
      BY DEF Typed, TypeOK, Tasks
    <2>2. Outstanding("export", f, One, One) \in Nat /\ Cardinality(Committing(apc, f)) \in Nat
      BY OutstandingType, FS_CardinalityType DEF ExportsPaid
    <2> QED
      BY <2>1, <2>2 DEF ExportsPaid
  <1> QED
    BY <1>1, <1>2, <1>3, TypeCorrect, PTL DEF Spec
-----------------------------------------------------------------------------
(* No attempt is lost                                                      *)

\* The other half of AttemptsPaid: the attempts made and those still possible are
\* all that were paid for, but for those that an export made needless.
AttemptsKept ==
    \A t \in Tasks, f \in Files :
       /\ Finite(t, f)
       /\ f \notin lost =>
            (RetryLimit(t) + 1) * enqueued[t][f]
              <= started[t][f] + Remaining(t, f) + RetryLimit(t) * Succeeded(t, f)

\* The products grow by one factor.
LEMMA OneMoreProduct ==
  ASSUME NEW l \in Nat, NEW n \in Nat
  PROVE  /\ (l + 1) * (n + 1) = (l + 1) * n + (l + 1)
         /\ l * (n + 1) = l * n + l
         /\ (l + 1) * n \in Nat /\ l * n \in Nat
  OBVIOUS

\* Successes are numbers.
LEMMA SucceededType ==
  ASSUME Typed, NEW t \in Tasks, NEW f \in Files
  PROVE  Succeeded(t, f) \in Nat
  BY DEF Typed, TypeOK, Succeeded

\* A step that leaves the counters alone and takes no work away keeps the balance.
LEMMA KeptWhenNothingGoes ==
  ASSUME Typed, NEW t \in Tasks, NEW f \in Files,
         f \notin lost => (RetryLimit(t) + 1) * enqueued[t][f]
                            <= started[t][f] + Remaining(t, f) + RetryLimit(t) * Succeeded(t, f),
         Finite(t, f), Finite(t, f)', f \notin lost' => Remaining(t, f) <= Remaining(t, f)',
         UNCHANGED <<enqueued, started, exports>>, lost \subseteq lost'
  PROVE  f \notin lost' =>
            (RetryLimit(t) + 1) * enqueued'[t][f]
              <= started'[t][f] + Remaining(t, f)' + RetryLimit(t) * Succeeded(t, f)'
  <1> DEFINE paid == (RetryLimit(t) + 1) * enqueued[t][f]
             spared == RetryLimit(t) * Succeeded(t, f)
  <1>1. started[t][f] \in Nat /\ enqueued[t][f] \in Nat /\ Succeeded(t, f) \in Nat
    BY SucceededType DEF Typed, TypeOK
  <1>2. paid \in Nat /\ spared \in Nat
    BY <1>1, AttemptsType, OneMoreProduct
  <1>3. Remaining(t, f) \in Nat /\ Remaining(t, f)' \in Nat
    BY FS_CardinalityType DEF Finite, Remaining, Countable, Outstanding
  <1>4. /\ (RetryLimit(t) + 1) * enqueued'[t][f] = paid /\ started'[t][f] = started[t][f]
        /\ RetryLimit(t) * Succeeded(t, f)' = spared
    BY DEF Succeeded
  <1>5. f \notin lost => paid <= started[t][f] + Remaining(t, f) + spared
    OBVIOUS
  <1> HIDE DEF paid, spared
  <1> QED
    BY <1>1, <1>2, <1>3, <1>4, <1>5

\* Each step keeps the attempts that were paid for.
LEMMA StepKept ==
  ASSUME Typed, Typed', ExportersExport, AttemptsKept, [Next]_vars
  PROVE  AttemptsKept'
  <1> SUFFICES ASSUME NEW t \in Tasks, NEW f \in Files
               PROVE  /\ Finite(t, f)'
                      /\ f \notin lost' =>
                           (RetryLimit(t) + 1) * enqueued'[t][f]
                             <= started'[t][f] + Remaining(t, f)' + RetryLimit(t) * Succeeded(t, f)'
    BY DEF AttemptsKept
  <1> DEFINE q == AttemptsQueued(t)
             h == AttemptsAtWork(t)
             l == RetryLimit(t)
             paid == (l + 1) * enqueued[t][f]
             spared == l * Succeeded(t, f)
             kept == f \notin lost => paid <= started[t][f] + Remaining(t, f) + spared
  <1>1. Finite(t, f) /\ Countable(t, f, q, h) /\ Remaining(t, f) = Outstanding(t, f, q, h) /\ kept
    BY DEF AttemptsKept, Finite, Remaining
  <1>2. l \in Nat /\ q \in Weights /\ h \in Weights
    BY AttemptsType
  <1>3. /\ started[t][f] \in Nat /\ enqueued[t][f] \in Nat /\ Succeeded(t, f) \in Nat
        /\ started \in PerTask /\ enqueued \in PerTask /\ exports \in [Files -> Nat]
        /\ \A u \in Uploaders : ufile[u] \in Files
        /\ \A a \in Approvers : afile[a] \in Files
        /\ "process" \in Tasks /\ "export" \in Tasks
    BY SucceededType DEF Typed, TypeOK, Tasks
  <1>4. paid \in Nat /\ spared \in Nat /\ Remaining(t, f) \in Nat
    <2>1. Remaining(t, f) \in Nat
      BY <1>1, OutstandingType
    <2> QED
      BY <1>2, <1>3, <2>1, OneMoreProduct
  <1>5. /\ Finite(t, f)' <=> Countable(t, f, q, h)'
        /\ Remaining(t, f)' = Outstanding(t, f, q, h)'
        /\ Finite(t, f)' => Remaining(t, f)' \in Nat
    BY FS_CardinalityType DEF Finite, Remaining, Countable, Outstanding
  <1> HIDE DEF q, h
  <1>6. ASSUME Finite(t, f)', f \notin lost' => Remaining(t, f) <= Remaining(t, f)',
               UNCHANGED <<enqueued, started, exports>>, lost \subseteq lost'
        PROVE  kept'
    BY <1>1, <1>6, KeptWhenNothingGoes
  <1>7. ASSUME NEW u \in Tasks, NEW g \in Files, Delay(u, g),
               UNCHANGED <<wpc, held, started, exports, lost>>
        PROVE  Finite(t, f)' /\ kept'
    <2> DEFINE mine == u = t /\ g = f
    <2>1. /\ Finite(t, f)'
          /\ Remaining(t, f) + (IF mine THEN q[0] ELSE 0) <= Remaining(t, f)'
      BY <1>1, <1>2, <1>5, <1>7, DelayAdds
    <2>2. q[0] = l + 1
      BY <1>2 DEF q, AttemptsQueued
    <2>3. spared' = spared /\ started'[t][f] = started[t][f]
      BY <1>7 DEF Succeeded
    <2>4. paid' = paid + IF mine THEN l + 1 ELSE 0
      <3>1. enqueued'[t][f] = IF mine THEN enqueued[t][f] + 1 ELSE enqueued[t][f]
        BY <1>3, <1>7 DEF Delay
      <3>2. CASE mine
        BY <1>2, <1>3, <3>1, <3>2, OneMoreProduct
      <3>3. CASE ~mine
        BY <1>4, <3>1, <3>3
      <3> QED
        BY <3>2, <3>3
    <2> HIDE DEF mine, paid, spared
    <2>5. kept'
      BY <1>1, <1>2, <1>3, <1>4, <1>5, <1>7, <2>1, <2>2, <2>3, <2>4
    <2> QED
      BY <2>1, <2>5
  <1>8. ASSUME NEW w \in Workers, NEW m \in Message, Take(w, m)
        PROVE  Finite(t, f)' /\ kept'
    <2>1. /\ Finite(t, f)'
          /\ Remaining(t, f) + Part(m, t, f, h) <= Remaining(t, f)' + Part(m, t, f, q)
      BY <1>1, <1>2, <1>5, <1>8, TakeMoves
    <2>2. /\ started' = [started EXCEPT ![m.task][m.file] = @ + 1]
          /\ paid' = paid /\ spared' = spared /\ lost' = lost
      BY <1>8 DEF Take, Succeeded
    <2>3. m.task \in Tasks /\ m.file \in Files /\ m.retries \in Nat /\ m.retries <= RetryLimit(m.task)
      BY MessageFields
    <2> HIDE DEF paid, spared
    <2>4. CASE m.task = t /\ m.file = f
      <3>1. started'[t][f] = started[t][f] + 1
        BY <1>3, <2>2, <2>4
      <3>2. Part(m, t, f, q) = l + 1 - m.retries /\ Part(m, t, f, h) = l - m.retries
        BY <2>4, AttemptsLeft DEF q, h
      <3>3. Remaining(t, f) <= Remaining(t, f)' + 1
        BY <1>2, <1>4, <1>5, <2>1, <2>3, <2>4, <3>2
      <3> QED
        BY <1>1, <1>3, <1>4, <1>5, <2>1, <2>2, <3>1, <3>3
    <2>5. CASE ~(m.task = t /\ m.file = f)
      <3>1. started'[t][f] = started[t][f]
        BY <1>3, <2>2, <2>3, <2>5
      <3>2. Part(m, t, f, q) = 0 /\ Part(m, t, f, h) = 0
        BY <2>5, AttemptsLeft DEF q, h
      <3>3. Remaining(t, f) <= Remaining(t, f)'
        BY <1>4, <1>5, <2>1, <3>2
      <3> QED
        BY <1>1, <1>3, <1>4, <1>5, <2>1, <2>2, <3>1, <3>3
    <2> QED
      BY <2>4, <2>5
  <1>9. ASSUME NEW w \in Workers, Retry(w)
        PROVE  Finite(t, f)' /\ kept'
    <2> DEFINE m == held[w]
    <2>1. m \in Message
      BY <1>9 DEF Retry, Typed, HoldsMessage
    <2>2. /\ Finite(t, f)'
          /\ Remaining(t, f) +
               (IF m.retries < RetryLimit(m.task) THEN Part(NextAttempt(m), t, f, q) ELSE 0)
               <= Remaining(t, f)' + Part(m, t, f, h)
      BY <1>1, <1>2, <1>5, <1>9, RetryMoves
    <2>3. m.retries \in Nat /\ m.retries <= RetryLimit(m.task) /\ m.task \in Tasks
      BY <2>1, MessageFields
    <2>4. CASE m.retries < RetryLimit(m.task)
      <3>1. NextAttempt(m) \in Message
        BY <2>1, <2>4, NextMessage
      <3>2. /\ NextAttempt(m).task = m.task /\ NextAttempt(m).file = m.file
            /\ NextAttempt(m).retries = m.retries + 1
        BY DEF NextAttempt
      <3>3. Part(NextAttempt(m), t, f, q) = Part(m, t, f, h) /\ Part(m, t, f, h) \in Nat
        <4>1. CASE m.task = t /\ m.file = f
          BY <1>2, <2>1, <2>3, <2>4, <3>1, <3>2, <4>1, AttemptsLeft, PartType DEF q, h
        <4>2. CASE ~(m.task = t /\ m.file = f)
          BY <2>1, <3>1, <3>2, <4>2, AttemptsLeft DEF q, h
        <4> QED
          BY <4>1, <4>2
      <3> HIDE DEF m
      <3> QED
        BY <1>4, <1>5, <1>6, <1>9, <2>2, <2>4, <3>3 DEF Retry, history
    <2>5. CASE ~(m.retries < RetryLimit(m.task))
      <3>1. Part(m, t, f, h) = 0
        <4>1. RetryLimit(m.task) \in Nat
          BY <2>3, AttemptsType
        <4>2. m.retries = RetryLimit(m.task)
          BY <2>3, <2>5, <4>1
        <4> QED
          BY <1>2, <2>1, <4>1, <4>2, AttemptsLeft DEF h
      <3> HIDE DEF m
      <3> QED
        BY <1>4, <1>5, <1>6, <1>9, <2>2, <2>5, <3>1 DEF Retry, history
    <2> QED
      BY <2>4, <2>5
  <1>10. ASSUME NEW w \in Workers, Crash(w)
         PROVE  Finite(t, f)' /\ kept'
    <2> DEFINE m == held[w]
    <2>1. m \in Message
      BY <1>10 DEF Crash, Typed, HoldsMessage
    <2>2. /\ Finite(t, f)'
          /\ Remaining(t, f) + Part(m, t, f, q) <= Remaining(t, f)' + Part(m, t, f, h)
      BY <1>1, <1>2, <1>5, <1>10, CrashMoves
    <2>3. m.retries \in Nat /\ m.retries <= RetryLimit(m.task)
      BY <2>1, MessageFields
    <2>4. /\ Part(m, t, f, h) <= Part(m, t, f, q)
          /\ Part(m, t, f, h) \in Nat /\ Part(m, t, f, q) \in Nat
      <3>1. CASE m.task = t /\ m.file = f
        BY <1>2, <2>1, <2>3, <3>1, AttemptsLeft DEF q, h
      <3>2. CASE ~(m.task = t /\ m.file = f)
        BY <2>1, <3>2, AttemptsLeft DEF q, h
      <3> QED
        BY <3>1, <3>2
    <2> HIDE DEF m
    <2>5. Remaining(t, f) <= Remaining(t, f)'
      BY <1>4, <1>5, <2>2, <2>4
    <2> QED
      BY <1>6, <1>10, <2>2, <2>5 DEF Crash, Release, tables
  <1>11. ASSUME NEW w \in Workers, ExportCommit(w) \/ ExportDoubted(w)
         PROVE  Finite(t, f)' /\ kept'
    <2> DEFINE m == held[w]
    <2>1. m \in Message /\ m.task = "export"
      <3>1. wpc[w] = "export"
        BY <1>11, ExportSteps
      <3> QED
        BY <3>1 DEF Typed, HoldsMessage, ExportersExport
    <2>2. /\ Finite(t, f)'
          /\ Remaining(t, f) <= Remaining(t, f)' + Part(m, t, f, h)
      <3>1. /\ Countable(t, f, q, h)'
            /\ \/ Outstanding(t, f, q, h) <= Outstanding(t, f, q, h)'
               \/ Outstanding(t, f, q, h) <= Outstanding(t, f, q, h)' + Part(m, t, f, h)
        BY <1>1, <1>2, <1>11, WorkStepMoves
      <3>2. Part(m, t, f, h) \in Nat
        BY <1>2, <2>1, PartType
      <3> HIDE DEF m
      <3> QED
        BY <1>1, <1>4, <1>5, <3>1, <3>2
    <2>3. /\ exports' = [exports EXCEPT ![m.file] = @ + 1]
          /\ enqueued' = enqueued /\ started' = started /\ lost' = lost
      BY <1>11, ExportSteps
    <2>4. m.retries \in Nat /\ m.retries <= RetryLimit(m.task)
      BY <2>1, MessageFields
    <2>5. paid' = paid /\ started'[t][f] = started[t][f]
      BY <2>3
    <2>6. CASE m.task = t /\ m.file = f
      <3>1. Succeeded(t, f)' = Succeeded(t, f) + 1
        BY <1>3, <2>1, <2>3, <2>6 DEF Succeeded
      <3>2. spared' = spared + l
        BY <1>2, <1>3, <3>1, OneMoreProduct
      <3>3. Part(m, t, f, h) \in Nat /\ Part(m, t, f, h) <= l
        BY <1>2, <2>1, <2>4, <2>6, AttemptsLeft DEF h
      <3> HIDE DEF m, paid, spared
      <3> QED
        BY <1>1, <1>2, <1>3, <1>4, <1>5, <2>2, <2>3, <2>5, <3>2, <3>3
    <2>7. CASE ~(m.task = t /\ m.file = f)
      <3>1. spared' = spared
        BY <1>3, <2>1, <2>3, <2>7 DEF Succeeded
      <3>2. Part(m, t, f, h) = 0
        BY <2>1, <2>7, AttemptsLeft DEF h
      <3> HIDE DEF m, paid, spared
      <3> QED
        BY <1>1, <1>2, <1>3, <1>4, <1>5, <2>2, <2>3, <2>5, <3>1, <3>2
    <2> QED
      BY <2>6, <2>7
  <1>12. ASSUME NEW w \in Workers, TimeLimit(w)
         PROVE  Finite(t, f)' /\ kept'
    <2> DEFINE m == held[w]
    <2>1. m \in Message
      BY <1>12 DEF TimeLimit, Typed, HoldsMessage
    <2>2. /\ Countable(t, f, q, h)'
          /\ \/ Outstanding(t, f, q, h) <= Outstanding(t, f, q, h)'
             \/ Outstanding(t, f, q, h) <= Outstanding(t, f, q, h)' + Part(m, t, f, h)
      BY <1>1, <1>2, <1>12, WorkStepMoves
    <2>3. lost' = lost \union {m.file} /\ UNCHANGED <<enqueued, started, exports>>
      BY <1>12 DEF TimeLimit, Release, tables
    <2>4. f # m.file => Part(m, t, f, h) = 0
      BY <2>1, AttemptsLeft DEF h
    <2> HIDE DEF m
    <2>5. f \notin lost' => Remaining(t, f) <= Remaining(t, f)'
      BY <1>1, <1>4, <1>5, <2>2, <2>3, <2>4
    <2> QED
      BY <1>5, <1>6, <2>2, <2>3, <2>5
  <1>13. ASSUME NEW w \in Workers, Quiet(w)
         PROVE  Finite(t, f)' /\ kept'
    <2>1. ~ExportCommit(w) /\ ~TimeLimit(w)
      <3>1. wpc[w] = "ack" <=> wpc'[w] \in {"idle", "ack"}
        BY <1>13, QuietSteps
      <3>2. ~ExportCommit(w)
        BY <3>1, ExportSteps
      <3>3. TimeLimit(w) => wpc[w] # "ack" /\ wpc'[w] = "idle"
        BY DEF TimeLimit, Release, Typed, TypeOK
      <3> QED
        BY <3>1, <3>2, <3>3
    <2>2. Countable(t, f, q, h)' /\ Outstanding(t, f, q, h) <= Outstanding(t, f, q, h)'
      BY <1>1, <1>2, <1>13, <2>1, WorkStepMoves
    <2>3. UNCHANGED <<enqueued, started, exports>> /\ lost \subseteq lost'
      BY <1>13, QuietSteps
    <2> QED
      BY <1>1, <1>5, <1>6, <2>2, <2>3
  <1>14. ASSUME UNCHANGED <<queue, wpc, held, enqueued, started, exports>>, lost \subseteq lost'
         PROVE  Finite(t, f)' /\ kept'
    <2>1. Countable(t, f, q, h)' /\ Outstanding(t, f, q, h)' = Outstanding(t, f, q, h)
      BY <1>1, <1>14, OthersKeepOutstanding
    <2>2. Remaining(t, f) <= Remaining(t, f)'
      BY <1>1, <1>4, <1>5, <2>1
    <2> QED
      BY <1>5, <1>6, <1>14, <2>1, <2>2
  <1>15. ASSUME NEW u \in Uploaders, Upload(u) \/ UploadLost(u)
         PROVE  \/ Delay("process", ufile[u]) /\ UNCHANGED <<wpc, held, started, exports, lost>>
                \/ UNCHANGED <<queue, wpc, held, enqueued, started, exports>> /\ lost \subseteq lost'
    BY <1>15 DEF Upload, UploadCheck, UploadInsert, UploadEnqueue, UploadLost
  <1>16. ASSUME NEW a \in Approvers, Approve(a) \/ ApproveLost(a)
         PROVE  \/ Delay("export", afile[a]) /\ UNCHANGED <<wpc, held, started, exports, lost>>
                \/ UNCHANGED <<queue, wpc, held, enqueued, started, exports>> /\ lost \subseteq lost'
    BY <1>16 DEF Approve, ApproveCheck, ApproveCommit, ApproveEnqueue, ApproveLost
  <1>17. ASSUME ReviewRequest \/ UNCHANGED vars
         PROVE  UNCHANGED <<queue, wpc, held, enqueued, started, exports>> /\ lost \subseteq lost'
    BY <1>17 DEF ReviewRequest, Review, vars
  <1>18. ASSUME NEW w \in Workers, WorkerStep(w)
         PROVE  Finite(t, f)' /\ kept'
    BY <1>8, <1>9, <1>10, <1>11, <1>12, <1>13, <1>18 DEF Work, WorkerStep, Quiet
  <1>19. ASSUME \/ \E u \in Uploaders : Upload(u) \/ UploadLost(u)
                \/ \E a \in Approvers : Approve(a) \/ ApproveLost(a)
                \/ ReviewRequest \/ UNCHANGED vars
         PROVE  Finite(t, f)' /\ kept'
    BY <1>3, <1>7, <1>14, <1>15, <1>16, <1>17, <1>19
  <1>20. Finite(t, f)' /\ kept'
    BY <1>18, <1>19 DEF Next, WorkerStep
  <1> QED
    BY <1>20

\* When nothing is queued or at work of a task any more, nothing remains of it.
LEMMA NothingUnfinished ==
  ASSUME Typed, NEW t \in Tasks, NEW f \in Files, ~Unfinished(t, f)
  PROVE  Remaining(t, f) = 0
  <1> DEFINE q == AttemptsQueued(t)
             h == AttemptsAtWork(t)
             a == QueueWeight(queue, t, f, q)
             b == WorkWeight(wpc, held, t, f, h)
  <1>1. /\ q \in Weights /\ h \in Weights
        /\ \A w \in Workers : wpc[w] # "idle" => held[w] \in Message
        /\ queue \in [Message -> Nat]
    BY AttemptsType DEF Typed, TypeOK, HoldsMessage
  <1>2. a \in [Copies -> Nat] /\ b \in [Workers -> Nat]
    BY <1>1, QueueWeightType, WorkWeightType
  <1>3. \A c \in Copies : a[c] = 0
    <2> SUFFICES ASSUME NEW c \in Copies PROVE a[c] = 0
      OBVIOUS
    <2>1. c[1] \in Message /\ c[2] \in Nat
      BY DEF Copies
    <2>2. ~(c[1].task = t /\ c[1].file = f) \/ queue[c[1]] = 0
      BY <1>1, <2>1 DEF Unfinished
    <2> QED
      BY <2>1, <2>2 DEF QueueWeight, Part
  <1>4. \A w \in Workers : b[w] = 0
    BY <1>1 DEF Unfinished, WorkWeight, Part
  <1> HIDE DEF a, b
  <1>5. Cardinality(Tokens(Copies, a)) = 0 /\ Cardinality(Tokens(Workers, b)) = 0
    BY <1>2, <1>3, <1>4, NoWeight
  <1> QED
    BY <1>5 DEF Remaining, Outstanding, Queued, AtWork, a, b

\* Whatever workers are lost and whatever fails, a task that has come to rest was
\* started as often as its messages allow, but for what an export made needless.
THEOREM AttemptsAreMade == Spec => []NoAttemptIsLost
  <1>1. Init => ExportersExport /\ AttemptsKept
    <2> SUFFICES ASSUME Init PROVE ExportersExport /\ AttemptsKept
      OBVIOUS
    <2>1. ExportersExport
      BY DEF Init, ExportersExport
    <2>2. ASSUME NEW t \in Tasks, NEW f \in Files
          PROVE  /\ Finite(t, f)
                 /\ (RetryLimit(t) + 1) * enqueued[t][f]
                      <= started[t][f] + Remaining(t, f) + RetryLimit(t) * Succeeded(t, f)
      <3>1. Finite(t, f) /\ Remaining(t, f) = 0
        BY AttemptsType, NothingOutstanding DEF Finite, Remaining
      <3>2. started[t][f] = 0 /\ enqueued[t][f] = 0 /\ Succeeded(t, f) = 0
        BY DEF Init, Zero, Succeeded
      <3>3. RetryLimit(t) \in Nat
        BY AttemptsType
      <3> QED
        BY <3>1, <3>2, <3>3
    <2> QED
      BY <2>1, <2>2 DEF AttemptsKept
  <1>2. Typed /\ Typed' /\ ExportersExport /\ AttemptsKept /\ [Next]_vars
          => ExportersExport' /\ AttemptsKept'
    BY StepExporters, StepKept
  <1>3. Typed /\ AttemptsKept => NoAttemptIsLost
    <2> SUFFICES ASSUME Typed, AttemptsKept, NEW t \in Tasks, NEW f \in Files \ lost, ~Unfinished(t, f)
                 PROVE  (RetryLimit(t) + 1) * enqueued[t][f]
                          <= started[t][f] + RetryLimit(t) * Succeeded(t, f)
      BY DEF NoAttemptIsLost
    <2> DEFINE paid == (RetryLimit(t) + 1) * enqueued[t][f]
               spared == RetryLimit(t) * Succeeded(t, f)
    <2>1. paid <= started[t][f] + Remaining(t, f) + spared
      BY DEF AttemptsKept
    <2>2. Remaining(t, f) = 0
      BY NothingUnfinished
    <2>3. started[t][f] \in Nat /\ enqueued[t][f] \in Nat /\ Succeeded(t, f) \in Nat
      BY SucceededType DEF Typed, TypeOK
    <2>4. paid \in Nat /\ spared \in Nat
      BY <2>3, AttemptsType, OneMoreProduct
    <2> HIDE DEF paid, spared
    <2>5. paid <= started[t][f] + spared
      BY <2>1, <2>2, <2>3, <2>4
    <2> QED
      BY <2>5 DEF paid, spared
  <1> QED
    BY <1>1, <1>2, <1>3, TypeCorrect, PTL DEF Spec
=============================================================================
