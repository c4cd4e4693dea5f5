-------------------------- MODULE InvoiceLifecycle --------------------------
(***************************************************************************)
(* An uploaded invoice from its row to its staged export: the upload,      *)
(* review and approval endpoints (app/api/api_v1/endpoints/invoices.py)    *)
(* and the Celery tasks they publish (app/workers/invoice_tasks.py).       *)
(*                                                                         *)
(* Each request and each task owns its database session; nothing is locked *)
(* and the database and the broker share no transaction. The broker        *)
(* delivers at least once: the tasks are acknowledged late and a message   *)
(* whose worker is lost is delivered again (app/workers/celery_app.py).    *)
(*                                                                         *)
(* The workflow itself (app/workflows/invoice_processor.py) touches the    *)
(* database only by saving an extraction; its updates of the status raise  *)
(* and are swallowed. Its result never reaches the row either: in          *)
(* _update_invoice_database the status it ends with is no InvoiceStatus or *)
(* its extraction is no dict, which raises and rolls back, and were it     *)
(* stored, the None it returns would raise in run_until_complete. So every *)
(* attempt of process_invoice_task ends in its exception branch.           *)
(***************************************************************************)
EXTENDS Naturals

CONSTANTS
    Files,          \* file contents, told apart by their hash
    Uploaders,      \* upload requests
    Approvers,      \* approval requests
    Workers,        \* Celery worker processes
    ProcessRetries, \* max_retries of process_invoice_task
    ExportRetries,  \* max_retries of export_invoice_task
    ReviewStates,   \* workflow_states that reviewers send
    MaxReviews,     \* bound: review requests
    MaxFaults       \* bound: processes killed and failed writes

ASSUME LifecycleAssumption ==
    /\ ProcessRetries \in Nat
    /\ ExportRetries \in Nat
    /\ MaxReviews \in Nat
    /\ MaxFaults \in Nat

Tasks == {"process", "export"}
RetryLimit(t) == IF t = "process" THEN ProcessRetries ELSE ExportRetries

Message ==
    {m \in [task : Tasks, file : Files, retries : 0..(ProcessRetries + ExportRetries)] :
       m.retries <= RetryLimit(m.task)}
NextAttempt(m) == [task |-> m.task, file |-> m.file, retries |-> m.retries + 1]
NoMessage == [task |-> "none"]

\* InvoiceStatus, and "none" for a file without a row.
Statuses == {"received", "parsed", "validated", "exception", "ready", "staged", "done"}
States == {"uploaded", "processing", "processing_failed", "approved",
           "export_staged", "export_failed", "reviewed"}
ASSUME ReviewAssumption == ReviewStates \subseteq States
Row == [status : Statuses \union {"none"}, state : States \union {"none"}]
NoRow == [status |-> "none", state |-> "none"]

VARIABLES
    row,        \* status and workflow_state of the file's invoice
    byHand,     \* history: files whose workflow_state a review was the last to write
    extracted,  \* files whose invoice has an extraction row
    exports,    \* staged_exports rows of the file's invoice
    queue,      \* how many copies of each message the broker holds
    upc, ufile, \* each upload request
    apc, afile, aseen, \* each approval request, with the row it has read
    wpc, held, wseen,  \* each worker, its unacknowledged message, the row it has read
    broken,     \* the tasks whose session, kept by DatabaseTask, is of no use any more
    enqueued,   \* history: tasks published by the endpoints
    started,    \* history: deliveries to a worker
    redelivered,\* history: deliveries repeated because the worker was lost
    readies,    \* history: reviews that made the invoice ready
    approvals,  \* history: approvals committed
    disowned,   \* history: export records whose task failed after their commit
    lost,       \* history: files for which a message or a failure mark was lost
    reviews, faults

tables == <<row, byHand, extracted, exports>>
uploadVars == <<upc, ufile>>
approveVars == <<apc, afile, aseen>>
workerVars == <<wpc, held, wseen, broken>>
history == <<enqueued, started, redelivered, readies, approvals, disowned, lost>>
vars == <<row, byHand, extracted, exports, queue, upc, ufile, apc, afile, aseen, wpc,
          held, wseen, broken, enqueued, started, redelivered, readies, approvals,
          disowned, lost, reviews, faults>>

PerTask == [Tasks -> [Files -> Nat]]

TypeOK ==
    /\ row \in [Files -> Row]
    /\ byHand \in SUBSET Files
    /\ extracted \in SUBSET Files
    /\ exports \in [Files -> Nat]
    /\ queue \in [Message -> Nat]
    /\ upc \in [Uploaders -> {"idle", "insert", "enqueue", "done"}]
    /\ ufile \in [Uploaders -> Files]
    /\ apc \in [Approvers -> {"idle", "commit", "enqueue", "done"}]
    /\ afile \in [Approvers -> Files]
    /\ aseen \in [Approvers -> Row]
    /\ wpc \in [Workers -> {"idle", "taken", "parse", "fail", "export", "retry", "ack"}]
    /\ held \in [Workers -> Message \union {NoMessage}]
    /\ wseen \in [Workers -> Row]
    /\ broken \in [Workers -> SUBSET Tasks]
    /\ enqueued \in PerTask
    /\ started \in PerTask
    /\ redelivered \in PerTask
    /\ readies \in [Files -> Nat]
    /\ approvals \in [Files -> Nat]
    /\ disowned \in [Files -> Nat]
    /\ lost \in SUBSET Files
    /\ reviews \in Nat
    /\ faults \in Nat

Zero == [t \in Tasks |-> [f \in Files |-> 0]]

\* Each request names a file: whatever it is, it is known from the start.
Init ==
    /\ row = [f \in Files |-> NoRow]
    /\ byHand = {}
    /\ extracted = {}
    /\ exports = [f \in Files |-> 0]
    /\ queue = [m \in Message |-> 0]
    /\ upc = [u \in Uploaders |-> "idle"]
    /\ ufile \in [Uploaders -> Files]
    /\ apc = [a \in Approvers |-> "idle"]
    /\ afile \in [Approvers -> Files]
    /\ aseen = [a \in Approvers |-> NoRow]
    /\ wpc = [w \in Workers |-> "idle"]
    /\ held = [w \in Workers |-> NoMessage]
    /\ wseen = [w \in Workers |-> NoRow]
    /\ broken = [w \in Workers |-> {}]
    /\ enqueued = Zero
    /\ started = Zero
    /\ redelivered = Zero
    /\ readies = [f \in Files |-> 0]
    /\ approvals = [f \in Files |-> 0]
    /\ disowned = [f \in Files |-> 0]
    /\ lost = {}
    /\ reviews = 0
    /\ faults = 0

Exists(f) == row[f].status # "none"

\* What a session's commit writes: the columns that differ from what it has read.
Saved(current, read, new) ==
    [status |-> IF new.status = read.status THEN current.status ELSE new.status,
     state  |-> IF new.state = read.state THEN current.state ELSE new.state]

\* The commit of `new` over what was read, by a request or task that is not a review.
SaveRow(f, read, new) ==
    /\ row' = [row EXCEPT ![f] = Saved(@, read, new)]
    /\ byHand' = IF new.state = read.state THEN byHand ELSE byHand \ {f}

\* .delay() of an endpoint.
Delay(t, f) ==
    /\ queue' = [queue EXCEPT ![[task |-> t, file |-> f, retries |-> 0]] = @ + 1]
    /\ enqueued' = [enqueued EXCEPT ![t][f] = @ + 1]

-----------------------------------------------------------------------------
(* The endpoints                                                           *)

\* upload_invoice looks for the hash, and goes on to store the file if it is new.
UploadCheck(u) ==
    /\ upc[u] = "idle"
    /\ upc' = [upc EXCEPT ![u] = IF Exists(ufile[u]) THEN "done" ELSE "insert"]
    /\ UNCHANGED <<tables, queue, ufile, approveVars, workerVars, history, reviews, faults>>

InsertRow(u, new) ==
    /\ upc[u] = "insert"
    /\ upc' = [upc EXCEPT ![u] = "enqueue"]
    /\ row' = [row EXCEPT ![ufile[u]] = new]
    /\ UNCHANGED <<byHand, extracted, exports, queue, ufile, approveVars, workerVars, history,
                   reviews, faults>>

\* Mutants: file_hash is not unique; the two state columns are swapped.
UploadInsertTwice(u) == InsertRow(u, [status |-> "received", state |-> "uploaded"])
UploadInsertSwapped(u) ==
    ~Exists(ufile[u]) /\ InsertRow(u, [status |-> "uploaded", state |-> "received"])

\* file_hash is unique: the second of two concurrent inserts fails.
UploadInsert(u) ==
    LET f == ufile[u] IN
    /\ upc[u] = "insert"
    /\ IF Exists(f)
       THEN /\ upc' = [upc EXCEPT ![u] = "done"]
            /\ row' = row
       ELSE /\ upc' = [upc EXCEPT ![u] = "enqueue"]
            /\ row' = [row EXCEPT ![f] = [status |-> "received", state |-> "uploaded"]]
    /\ UNCHANGED <<byHand, extracted, exports, queue, ufile, approveVars, workerVars, history,
                   reviews, faults>>

UploadEnqueue(u) ==
    /\ upc[u] = "enqueue"
    /\ upc' = [upc EXCEPT ![u] = "done"]
    /\ Delay("process", ufile[u])
    /\ UNCHANGED <<tables, ufile, approveVars, workerVars, started, redelivered, readies,
                   approvals, disowned, lost, reviews, faults>>

\* The API process dies, or the broker refuses the message, after the commit.
UploadLost(u) ==
    /\ upc[u] = "enqueue" /\ faults < MaxFaults
    /\ faults' = faults + 1
    /\ upc' = [upc EXCEPT ![u] = "done"]
    /\ lost' = lost \union {ufile[u]}
    /\ UNCHANGED <<tables, queue, ufile, approveVars, workerVars, enqueued, started,
                   redelivered, readies, approvals, disowned, reviews>>

\* review_invoice stores whatever status and workflow_state the reviewer sends.
Review(f, new) ==
    /\ Exists(f)
    /\ reviews < MaxReviews
    /\ reviews' = reviews + 1
    /\ row' = [row EXCEPT ![f] = new]
    /\ byHand' = IF new.state = row[f].state THEN byHand ELSE byHand \union {f}
    /\ readies' = IF new.status = "ready" /\ row[f].status # "ready"
                  THEN [readies EXCEPT ![f] = @ + 1] ELSE readies
    /\ UNCHANGED <<extracted, exports, queue, uploadVars, approveVars, workerVars,
                   enqueued, started, redelivered, approvals, disowned, lost, faults>>

\* approve_invoice answers 404 or 400 unless the invoice it reads is ready.
ApproveCheck(a) ==
    LET f == afile[a] IN
    /\ apc[a] = "idle"
    /\ Exists(f) /\ row[f].status = "ready"
    /\ apc' = [apc EXCEPT ![a] = "commit"]
    /\ aseen' = [aseen EXCEPT ![a] = row[f]]
    /\ UNCHANGED <<tables, queue, uploadVars, afile, workerVars, history, reviews, faults>>

ApproveCommit(a) ==
    LET f == afile[a] IN
    /\ apc[a] = "commit"
    /\ apc' = [apc EXCEPT ![a] = "enqueue"]
    /\ SaveRow(f, aseen[a], [status |-> "staged", state |-> "approved"])
    /\ approvals' = [approvals EXCEPT ![f] = @ + 1]
    /\ UNCHANGED <<extracted, exports, queue, uploadVars, afile, aseen, workerVars,
                   enqueued, started, redelivered, readies, disowned, lost, reviews, faults>>

ApproveEnqueue(a) ==
    /\ apc[a] = "enqueue"
    /\ apc' = [apc EXCEPT ![a] = "done"]
    /\ Delay("export", afile[a])
    /\ UNCHANGED <<tables, uploadVars, afile, aseen, workerVars, started, redelivered,
                   readies, approvals, disowned, lost, reviews, faults>>

ApproveLost(a) ==
    /\ apc[a] = "enqueue" /\ faults < MaxFaults
    /\ faults' = faults + 1
    /\ apc' = [apc EXCEPT ![a] = "done"]
    /\ lost' = lost \union {afile[a]}
    /\ UNCHANGED <<tables, queue, uploadVars, afile, aseen, workerVars, enqueued, started,
                   redelivered, readies, approvals, disowned, reviews>>

-----------------------------------------------------------------------------
(* The workers                                                             *)

\* A worker with no task in hand receives a message.
Take(w, m) ==
    /\ wpc[w] = "idle"
    /\ queue[m] > 0
    /\ queue' = [queue EXCEPT ![m] = @ - 1]
    /\ held' = [held EXCEPT ![w] = m]
    /\ wpc' = [wpc EXCEPT ![w] = "taken"]
    /\ started' = [started EXCEPT ![m.task][m.file] = @ + 1]
    /\ UNCHANGED <<tables, uploadVars, approveVars, wseen, broken, enqueued, redelivered,
                   readies, approvals, disowned, lost, reviews, faults>>

\* The session of w's task can be used.
Usable(w) == held[w].task \notin broken[w]

\* process_invoice_task: the first commit, whatever the row says.
StartProcess(w) ==
    LET f == held[w].file IN
    /\ wpc[w] = "taken" /\ held[w].task = "process" /\ Usable(w)
    /\ SaveRow(f, row[f], [status |-> "parsed", state |-> "processing"])
    /\ wpc' = [wpc EXCEPT ![w] = "parse"]
    /\ UNCHANGED <<extracted, exports, queue, uploadVars, approveVars, held, wseen, broken,
                   history, reviews, faults>>

\* The workflow runs; _save_extraction_result swallows its own failure.
Parse(w, saved) ==
    /\ wpc[w] = "parse"
    /\ extracted' = IF saved THEN extracted \union {held[w].file} ELSE extracted
    /\ wpc' = [wpc EXCEPT ![w] = "fail"]
    /\ UNCHANGED <<row, byHand, exports, queue, uploadVars, approveVars, held, wseen,
                   broken, history, reviews, faults>>

\* export_invoice_task reads the invoice and its latest extraction.
StartExport(w) ==
    LET f == held[w].file IN
    /\ wpc[w] = "taken" /\ held[w].task = "export" /\ Usable(w)
    /\ wseen' = [wseen EXCEPT ![w] = row[f]]
    /\ wpc' = [wpc EXCEPT ![w] = IF f \in extracted THEN "export" ELSE "fail"]
    /\ UNCHANGED <<tables, queue, uploadVars, approveVars, held, broken, history, reviews,
                   faults>>

\* Mutant: the record is committed before a step that may still fail.
ExportCommitThenFail(w) ==
    /\ wpc[w] = "export"
    /\ exports' = [exports EXCEPT ![held[w].file] = @ + 1]
    /\ wpc' = [wpc EXCEPT ![w] = "fail"]
    /\ UNCHANGED <<row, byHand, extracted, queue, uploadVars, approveVars, held, wseen,
                   broken, history, reviews, faults>>

\* The file is stored; the export record and the row are one commit.
Export(w) ==
    LET f == held[w].file IN
    /\ wpc[w] = "export"
    /\ exports' = [exports EXCEPT ![f] = @ + 1]
    /\ SaveRow(f, wseen[w], [status |-> "staged", state |-> "export_staged"])
    /\ UNCHANGED <<extracted, queue, uploadVars, approveVars, held, enqueued, started,
                   redelivered, readies, approvals, lost, reviews>>

ExportCommit(w) ==
    /\ Export(w)
    /\ wpc' = [wpc EXCEPT ![w] = "ack"]
    /\ UNCHANGED <<wseen, broken, disowned, faults>>

\* Storing the file fails.
ExportFails(w) ==
    /\ wpc[w] = "export"
    /\ wpc' = [wpc EXCEPT ![w] = "fail"]
    /\ UNCHANGED <<tables, queue, uploadVars, approveVars, held, wseen, broken, history,
                   reviews, faults>>

\* What an exception does to the session: an error of the database spoils it, the soft
\* time limit need not.
MaySpoil(w) ==
    \E spoilt \in SUBSET {held[w].task} : broken' = [broken EXCEPT ![w] = @ \union spoilt]

\* The answer to the commit gets lost, or the soft time limit (celery_app.py:42) strikes
\* after it: the record is there and the exception branch takes over, with an expired row.
ExportDoubted(w) ==
    /\ faults < MaxFaults
    /\ faults' = faults + 1
    /\ Export(w)
    /\ disowned' = [disowned EXCEPT ![held[w].file] = @ + 1]
    /\ wpc' = [wpc EXCEPT ![w] = "fail"]
    /\ wseen' = [wseen EXCEPT ![w] = NoRow]
    /\ MaySpoil(w)

\* The database refuses a query or a commit of the task, or the soft time limit strikes.
Interrupted(w) ==
    /\ wpc[w] \in {"taken", "parse", "export"} /\ faults < MaxFaults
    /\ faults' = faults + 1
    /\ wpc' = [wpc EXCEPT ![w] = "fail"]
    /\ MaySpoil(w)
    /\ UNCHANGED <<tables, queue, uploadVars, approveVars, held, wseen, history, reviews>>

\* get_db returns the session that an earlier attempt in this worker has left unusable.
StartUnusable(w) ==
    /\ wpc[w] = "taken" /\ ~Usable(w)
    /\ wpc' = [wpc EXCEPT ![w] = "fail"]
    /\ UNCHANGED <<tables, queue, uploadVars, approveVars, held, wseen, broken, history,
                   reviews, faults>>

\* Mutant: only the status is set, and "processing" stays.
RecordFailureStatusOnly(w) ==
    /\ wpc[w] = "fail"
    /\ row' = [row EXCEPT ![held[w].file].status = "exception"]
    /\ wpc' = [wpc EXCEPT ![w] = "retry"]
    /\ UNCHANGED <<byHand, extracted, exports, queue, uploadVars, approveVars, held, wseen,
                   broken, history, reviews, faults>>

\* The exception branch. A row that a commit has expired, or that was never read, is
\* read now; in export_invoice_task it mostly is still the one read at the start.
RecordFailure(w) ==
    LET f == held[w].file
        new == [status |-> "exception",
                state |-> IF held[w].task = "process" THEN "processing_failed"
                          ELSE "export_failed"]
        read == IF wseen[w] = NoRow THEN row[f] ELSE wseen[w]
    IN  /\ wpc[w] = "fail" /\ Usable(w)
        /\ SaveRow(f, read, new)
        /\ wpc' = [wpc EXCEPT ![w] = "retry"]
        /\ UNCHANGED <<extracted, exports, queue, uploadVars, approveVars, held, wseen,
                       broken, history, reviews, faults>>

\* The session is of no use, or the database refuses the write, which makes it so: the
\* error is logged and the task goes on.
FailureUnrecorded(w) ==
    /\ wpc[w] = "fail"
    /\ IF Usable(w) THEN faults < MaxFaults /\ faults' = faults + 1 ELSE faults' = faults
    /\ broken' = [broken EXCEPT ![w] = @ \union {held[w].task}]
    /\ lost' = lost \union {held[w].file}
    /\ wpc' = [wpc EXCEPT ![w] = "retry"]
    /\ UNCHANGED <<tables, queue, uploadVars, approveVars, held, wseen, enqueued, started,
                   redelivered, readies, approvals, disowned, reviews>>

\* Mutants of Retry: the count of retries is not carried over; a retry does not end;
\* the last retry is not made.
RetryUncounted(w) ==
    /\ wpc[w] = "retry"
    /\ queue' = [queue EXCEPT ![held[w]] = @ + 1]
    /\ wpc' = [wpc EXCEPT ![w] = "ack"]
    /\ UNCHANGED <<tables, uploadVars, approveVars, held, wseen, broken, history, reviews,
                   faults>>
RetryInPlace(w) ==
    /\ wpc[w] = "retry"
    /\ wpc' = [wpc EXCEPT ![w] = "taken"]
    /\ UNCHANGED <<tables, queue, uploadVars, approveVars, held, wseen, broken, history,
                   reviews, faults>>
RetryOnceLess(w) ==
    LET m == held[w] IN
    /\ wpc[w] = "retry"
    /\ queue' = IF m.retries + 1 < RetryLimit(m.task)
                THEN [queue EXCEPT ![NextAttempt(m)] = @ + 1]
                ELSE queue
    /\ wpc' = [wpc EXCEPT ![w] = "ack"]
    /\ UNCHANGED <<tables, uploadVars, approveVars, held, wseen, broken, history, reviews,
                   faults>>

\* self.retry publishes the next attempt and keeps the session; the exception that ends
\* the chain has on_failure close it.
Retry(w) ==
    LET m == held[w] IN
    /\ wpc[w] = "retry"
    /\ IF m.retries < RetryLimit(m.task)
       THEN /\ queue' = [queue EXCEPT ![NextAttempt(m)] = @ + 1]
            /\ broken' = broken
       ELSE /\ queue' = queue
            /\ broken' = [broken EXCEPT ![w] = @ \ {m.task}]
    /\ wpc' = [wpc EXCEPT ![w] = "ack"]
    /\ UNCHANGED <<tables, uploadVars, approveVars, held, wseen, history, reviews, faults>>

Release(w) ==
    /\ wpc' = [wpc EXCEPT ![w] = "idle"]
    /\ held' = [held EXCEPT ![w] = NoMessage]
    /\ wseen' = [wseen EXCEPT ![w] = NoRow]
    /\ UNCHANGED <<tables, uploadVars, approveVars, enqueued, started, readies, approvals,
                   disowned, reviews>>

Ack(w) ==
    /\ wpc[w] = "ack"
    /\ Release(w)
    /\ UNCHANGED <<queue, broken, redelivered, lost, faults>>

\* The worker is lost before it has acknowledged: the message is delivered again.
Crash(w) ==
    LET m == held[w] IN
    /\ wpc[w] # "idle" /\ faults < MaxFaults
    /\ faults' = faults + 1
    /\ queue' = [queue EXCEPT ![m] = @ + 1]
    /\ redelivered' = [redelivered EXCEPT ![m.task][m.file] = @ + 1]
    /\ broken' = [broken EXCEPT ![w] = {}]
    /\ Release(w)
    /\ UNCHANGED lost

\* task_time_limit kills the child and Celery acknowledges the message; a retry that
\* cannot be published ends the task no better.
TimeLimit(w) ==
    /\ wpc[w] \in {"taken", "parse", "fail", "export", "retry"} /\ faults < MaxFaults
    /\ faults' = faults + 1
    /\ broken' = [broken EXCEPT ![w] = {}]
    /\ lost' = lost \union {held[w].file}
    /\ Release(w)
    /\ UNCHANGED <<queue, redelivered>>

-----------------------------------------------------------------------------

Upload(u) == UploadCheck(u) \/ UploadInsert(u) \/ UploadEnqueue(u)
Approve(a) == ApproveCheck(a) \/ ApproveCommit(a) \/ ApproveEnqueue(a)

Work(w) ==
    \/ \E m \in Message : Take(w, m)
    \/ StartProcess(w)
    \/ \E saved \in BOOLEAN : Parse(w, saved)
    \/ StartExport(w) \/ ExportCommit(w) \/ ExportFails(w) \/ StartUnusable(w)
    \/ RecordFailure(w) \/ FailureUnrecorded(w)
    \/ Retry(w) \/ Ack(w)

\* A review sets the status, the workflow_state or both, to anything ("reviewed" stands
\* for every workflow_state that the program itself does not write).
ReviewRequest ==
    \E f \in Files, s \in Statuses : \E ws \in {row[f].state} \union ReviewStates :
       Review(f, [status |-> s, state |-> ws])

Next ==
    \/ \E u \in Uploaders : Upload(u) \/ UploadLost(u)
    \/ \E a \in Approvers : Approve(a) \/ ApproveLost(a)
    \/ ReviewRequest
    \/ \E w \in Workers : Work(w) \/ ExportDoubted(w) \/ Interrupted(w) \/ Crash(w) \/ TimeLimit(w)

Spec == Init /\ [][Next]_vars

(***************************************************************************)
(* A request that has begun runs to its end, and a worker takes messages   *)
(* and executes them as long as there are any. Nobody has to send requests.*)
(***************************************************************************)
FairSpec ==
    /\ Spec
    /\ \A u \in Uploaders : WF_vars(upc[u] # "idle" /\ Upload(u))
    /\ \A a \in Approvers : WF_vars(apc[a] # "idle" /\ Approve(a))
    /\ \A w \in Workers : WF_vars(Work(w))

-----------------------------------------------------------------------------
(* Properties                                                              *)

Unfinished(t, f) ==
    \/ \E m \in Message : m.task = t /\ m.file = f /\ queue[m] > 0
    \/ \E w \in Workers : /\ wpc[w] # "idle"
                          /\ held[w].task = t /\ held[w].file = f

Succeeded(t, f) == IF t = "export" THEN exports[f] ELSE 0

\* However many requests upload the same content at the same time, one task is
\* queued for it (the check and the insert of upload_invoice are two transactions).
OneFirstTask == \A f \in Files : enqueued["process"][f] <= 1

\* Retries and redeliveries together do not multiply: every published or
\* redelivered message accounts for one chain of at most RetryLimit + 1 attempts.
AttemptsBounded ==
    \A t \in Tasks, f \in Files :
       started[t][f] <= (RetryLimit(t) + 1) * (enqueued[t][f] + redelivered[t][f])

\* Nor is an attempt lost, though workers are: a task with nothing queued or at work
\* any more was started as often as its messages allow, unless an export succeeded
\* and left at most RetryLimit attempts unused.
NoAttemptIsLost ==
    \A t \in Tasks, f \in Files \ lost :
       ~Unfinished(t, f) =>
          (RetryLimit(t) + 1) * enqueued[t][f]
             <= started[t][f] + RetryLimit(t) * Succeeded(t, f)

\* Every export record goes back to an approval: one each, and one more for each time
\* the message was delivered again or a task failed after it had committed (the export
\* itself is not idempotent).
ExportsAreApproved ==
    \A f \in Files :
       /\ exports[f] <= enqueued["export"][f] + redelivered["export"][f] + disowned[f]
       /\ enqueued["export"][f] <= approvals[f]

\* A workflow_state that announces more work is backed by a request or a message
\* that will do it, unless a reviewer has written it, a process died between its commit
\* and its message, or the failure could not be recorded, be it that an earlier one has
\* spoilt the session: nothing ever looks for such invoices again.
AnnouncedWorkIsBacked ==
    \A f \in Files \ (lost \union byHand) :
       /\ row[f].state = "uploaded" =>
             (\E u \in Uploaders : upc[u] = "enqueue" /\ ufile[u] = f) \/ Unfinished("process", f)
       /\ row[f].state = "processing" => Unfinished("process", f)
       /\ row[f].state = "approved" =>
             (\E a \in Approvers : apc[a] = "enqueue" /\ afile[a] = f) \/ Unfinished("export", f)

\* Every chain of attempts ends: whatever was queued, the broker is empty and
\* the workers are idle for good in the end.
Drains == <>[](/\ \A m \in Message : queue[m] = 0
               /\ \A w \in Workers : wpc[w] = "idle")

\* What the message of approve_invoice says, "Invoice must be in 'ready' status
\* to approve": an invoice is approved once each time it is made ready.
ApprovedOncePerReady == \A f \in Files : approvals[f] <= readies[f]
=============================================================================
