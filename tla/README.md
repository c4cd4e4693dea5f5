# AP Intake: a verification development

TLA+ models of the invoice intake backend in `src/app` (FastAPI endpoints, SQLAlchemy over
PostgreSQL, Celery workers over a broker), TLC configurations that check them, and TLAPS
proofs about them. Paths below are relative to `src/app` unless they say otherwise.

## The system

An invoice file arrives over HTTP or mail and becomes a row of `invoices`. A Celery task runs
a LangGraph workflow over it (parse, patch, validate, triage); a person reviews and approves
it; another task stages an export. Failed tasks go to a dead letter queue that is redriven by
a periodic task or through the API. Around that: idempotency keys for uploads, content-addressed
storage, export jobs, alerts, metrics, and adapters of external systems.

| component | state it keeps | operations | what makes it correct |
|---|---|---|---|
| dead letter queue (`services/dlq_service.py`, `services/redrive_service.py`, `models/dlq.py`) | a row per failed task: status, retry count | create, delete, clean up, redrive one, many or all that are ready | a task is not published twice; a final status means what it says; no entry is forgotten; each goes through the phases of one redrive at a time |
| invoice lifecycle (`api/api_v1/endpoints/invoices.py`, `workers/invoice_tasks.py`) | invoice status and `workflow_state`, extractions, export records, messages | upload, review, approve, process, export, retry | one first task per content; announced work is backed; retries end and none is lost; exports go back to approvals |
| upload idempotency (`services/idempotency_service.py`, `api/api_v1/endpoints/ingestion.py`) | a record per key | look up, insert, start, complete, fail | a key's file is ingested once; repeats get the result |
| workflow graph (`workflows/invoice_processor.py`) | the state dictionary of a run, the rows it saves | receive, parse, patch, validate, triage, routing | only a checked extraction ends ready; everything else is held; failures are named; the rows are what the result shows |
| provider factory (`services/integration_factory.py`) | enabled flags, circuit breakers, metrics of each provider | execute with fallback, health check, switch on and off | the breaker follows its count; no execution is lost or counted twice unnoticed; a refusal means all were asked, each once; every request is answered |
| export jobs (`services/export_service.py`, `workers/export_tasks.py`) | job status and retry count, retry messages | create, run, fail, cancel, retry, clean up | completed means delivered, or logged as an e-mail; an active job has a runner |
| staging (`services/staging_service.py`, `models/staging.py`) | staged export rows, their audit trail, what the destination has | stage, approve, reject, post, roll back | the destination gets only approved data; the row, and every entry of the trail, tell the truth |
| file storage (`services/local_storage_service.py`, `models/storage_audit.py`) | files, the record and reference count of a content, access rows | store, deduplicate, delete, archive | an answered path holds the content until it is removed; the count is never made up |
| alerts and runbooks (`services/alert_service.py`, `services/runbook_service.py`) | active alerts, executions, in memory | raise, acknowledge, escalate, resolve, execute | not modelled, see below |

`PROJECT.json` lists the remaining components with the reason each is left out: mostly pure
computation, read-only queries, adapters of external systems, and routers that are disabled or
modules that do not import at this commit.

**How they interact.** Endpoints and tasks share the database and nothing else; endpoints publish
messages after they commit. No code takes a row lock, so every read and the commit that follows
it are separate steps that other requests and tasks interleave with. Tasks are acknowledged late
and delivered again when a worker is lost (`workers/celery_app.py:107`). The hard behaviours are
therefore check-then-act races, processes that die between a commit and a message, redelivery
against `self.retry`, and errors that are caught, logged and forgotten. `PROJECT.json` "hazards"
names each at its line.

## Modules

| module | content |
|---|---|
| `DeadLetterQueue` | the rows of the queue and any number of concurrent redrivers |
| `RedriveProtocol` | what becomes of one entry: waiting, taken, published once or refused, settled; `DeadLetterQueue` implements it |
| `InvoiceLifecycle` | the invoice row, upload, review and approval requests, the broker and the workers |
| `UploadIdempotency` | the records of idempotency keys and the requests that use them |
| `InvoiceWorkflow` | one invoice's runs through the graph that a processing task executes |
| `IntegrationFactory` | providers with breakers, the requests and the health checks that share them |
| `ExportJobs` | export jobs, API tasks and workers with sessions of their own, cancellations and sweeps |
| `ApprovalGate` | what staging promises: data goes out as it was approved, and only what went out is taken back |
| `StagedExports` | staged exports as the service handles them; implements `ApprovalGate` |
| `FileStorage` | one content, its file, record and access rows, and the stores and deletions of it |
| `MC_*` | constants and symmetries of the checked instances |
| `*_proofs` | the theorems about the module of that name |

Definitions whose comment starts with "Mutant" are deliberately wrong variants of the definition
that follows. No specification uses them: substituted for it, each makes one property fail, which
shows that the property depends on that piece of code.

### DeadLetterQueue

`status` and `retries` are the columns `dlq_status` and `retry_count`; `pc`, `todo`, `cached`,
`cur`, `mode`, `seen`, `outcome`, `fails`, `broken` are the program counter, batch, identity map,
current entry, kind of run (automatic, API, API with `force`), loaded row, result of `apply_async`, `failure_count` and session
state of one run of `RedriveService`. `redrive_single_entry` is split where other transactions can
come in between: its checks (`Check`, `Skip`), the commit of PROCESSING (`Claim`), the reload of the row that this
commit has expired (`Reload`, `Vanished` when the row is gone), the publication (`Publish`, whatever has become of the row
since), and the second commit (`RecordSuccess`,
`RecordFailure`). Two facts of SQLAlchemy matter and are modelled. A commit writes only what
differs from the row as it was loaded, so a record step overwrites a status only if it changes it.
And a failed flush leaves a session that refuses everything until a rollback, which nobody issues,
so the rest of a batch fails (`broken`). The loop of an automatic run asks the row itself for its id: when a
commit has expired it and somebody has deleted it, both the call and its error message raise, and the batch is given up (`Abort`). `next_retry_at` is no variable: its one assignment stores
a float in a timestamp column, the commit fails, and the column stays NULL.

`raced` is a history variable: entries whose row was redrivable when a redriver checked it and no
longer was when the redriver claimed it. For those the code does publish twice; the properties say that
this race is the only way.

`RedriveProtocol` is the same said as a specification: of each entry only its `phase` and the number of
messages published for it. `Phase` computes the phase from the row and the redriver that is at work on it:
"processing" is "taken" until the row is reloaded, "loaded" until `apply_async` has answered, then "sent" or "refused", and
"stranded" once nobody is at work on it any more. A row deleted when it is "loaded" is "orphaned": its redriver does publish
the task of an entry that is gone, once. Every other phase is the status itself, except that a raced entry is
"raced" until its end. A crash, a deletion of several rows, a forced redrive and a failed commit each have to be a
step of that protocol, so `FollowsProtocol` says in which order things may happen, where the invariants only bound what has.

### InvoiceLifecycle

One action per transaction or message: `UploadCheck`, `UploadInsert`, `UploadEnqueue`;
`Review`; `ApproveCheck`, `ApproveCommit`, `ApproveEnqueue`; for a worker `Take`, then `StartProcess`, `Parse` or
`StartExport`, `ExportCommit`, `ExportFails`, then `RecordFailure` or `FailureUnrecorded`, `Retry`,
`Ack`. `Saved` is what a commit writes: the columns changed relative to what the session read. A review writes any status and
any `workflow_state` (`ReviewStates`; "reviewed" stands for the words the program itself never writes), also one that
announces work without a message: `byHand` has the files whose `workflow_state` was last written so.
Faults are `UploadLost`, `ApproveLost` (death or a refused message after the commit), `Crash` (the worker is lost, the message comes again),
`TimeLimit` (`task_time_limit` kills the child; Celery acknowledges the message),
`FailureUnrecorded` (the write in the exception branch fails and is swallowed), `Interrupted` (the database refuses a query or a
commit, or `task_soft_time_limit` raises in the task) and `ExportDoubted` (the same after the export's commit, or the answer to
it is lost: the exception branch retries an export that is there; `disowned` counts these). `DatabaseTask` closes its session
when a chain of attempts ends, not at `self.retry`: `broken` has the tasks whose kept session an error has spoilt, and the next
attempt in that worker fails at its first query (`StartUnusable`).

What the workflow contributes follows from the code at this commit: its status updates raise
`NameError` (`select` is not imported in `_update_invoice_status`) and are swallowed;
`_update_invoice_database` raises on the result (its status is no `InvoiceStatus`, or the
extraction is no dict) and rolls back; and it is a plain function whose `None` would make
`run_until_complete` raise in any case. So every attempt of `process_invoice_task` ends in the exception branch, and
READY is only ever written by a review. `_save_extraction_result` always fails at this commit (the
extraction model cannot be constructed); `Parse(w, saved)` allows both outcomes, so that the export
path is checked too: an over-approximation, sound for the invariants.

### UploadIdempotency

One action per database call of `upload_file`. A record is only ever "pending":
`mark_operation_started` raises inside its own `try` (an instance method called on the class), and
the two closing updates match only records in progress. `LookupFails` is
`_get_idempotency_record` answering an error with "no record". `Respond` always answers an error,
because the response model requires two fields that the endpoint does not give.

### InvoiceWorkflow

`state` is the `InvoiceState` dictionary, reduced to what triage, routing and the saved rows depend
on; `extractions` and `validations` are the newest rows of the invoice; `pc` is the node that runs next.
Each node is an action for its `try` branch and one for its `except` branch (`Parse`, `ParseFails`, ...),
with every save of a row succeeding or failing, since `_save_extraction_result` and
`_save_validation_result` log their errors and go on. `Again` is the next attempt of
`process_invoice_task` or a redelivery: a new state over old rows. Facts of the code at this commit that
shape the model:

* The graph is compiled with `interrupt_after=["triage"]`, and `resume_workflow` raises on every call, so
  the nodes behind triage do not run; the run's result is the state after triage.
* Nodes do not route on errors: the next node runs on whatever state the failed one has left. A failed
  triage is routed to `"error_handler"`, which is no key of the edge map: `ainvoke` raises, and
  `process_invoice` returns its initial state as `"workflow_failed"`, without the exception ids (`Result`).
* Docling returns a pydantic model. `validate_invoice` asks it for `.get`, and reports the error as an
  issue, and the patch node fails on it, so runs over models always end in review. The dict form is the one the
  tests and the older code use; both are modelled.
* Issues have severity `"error"`, triage looks for `"ERROR"`, and no issue has a category or
  `auto_resolution_possible`. The review for critical and policy issues therefore never happens, and
  a validation that passed with warnings can be approved automatically.

### IntegrationFactory

Coroutines of one event loop; they interleave only where they await, which is at a probe and at an
execution. `breaker`, `metrics` and `enabled` are fields of the provider objects. `execute_workflow` is
`Begin` or `Reject`, `ProbeUp` or `ProbeDown` (which works through the fallback list, made once), and
`Succeed`, `Fail` or `Misread`; `health_check` is `CheckBegin` and, after its await, `CheckUp` or `CheckDown`;
`Elapse` is the passing of `next_attempt_time`. The code does not ask the breaker before an
execution and a failed execution is an answer, not an exception, so `auto_failover` is never used. `Misread` is a remote execution whose success is counted
(`integration_factory.py:428`) before its answer is built in the same `try`: when that raises, it is counted as a failure as well.

### ExportJobs

Each runner is an API task that created a job or a worker that took a retry message. A session loads the
row once and writes only what differs from it (`Load`, `Write`); the steps of a run are its commits. A second
run of a completed job fails on the unique `export_job_id` of its metrics (`Metrics`), after which the
session refuses everything (`Break`). `SoftLimit` is `task_soft_time_limit` raising within a run. `lost` is a history variable: runs that ended without a trace;
`settled` another: jobs that were delivered or had nothing to deliver.

The endpoints hand an `AsyncSession` to a service that calls `db.query`, and `export_tasks.py`
imports an `ApprovalService` that does not exist: the module describes the service and the tasks as they are written,
run with a synchronous session. Behaviour of the model that is known and that no
property contradicts: a cancellation is overwritten by the run it meant to stop; each sweep
publishes another message for a job that is still failed; progress never reaches the total; a job with destination EMAIL
(`emailed`) is completed although `_send_email_with_attachment` only logs that it is not implemented (`export_service.py:676`),
which `CompletedWasDelivered` names as its one exception.

### ApprovalGate and StagedExports

`ApprovalGate` is the promise in three variables: approved, delivered and reversed pairs. `StagedExports`
has the rows, the audit trail, and per request the row it has loaded (`seen`). Every operation loads
and checks (`StageCheck`, `ApproveCheck`, ...), may call the destination (`Deliver`, `Reverse`),
commits what differs from the loaded row (`Commit` with `Saved`), and enters the trail in a commit of
its own (`Audit`). `Fail` ends a request anywhere. The refinement maps `approved` to the history
`approvals` and the other two variables to themselves; `rejections` is the same for rejections, against which the
entries of the trail are held.

The router is not mounted (its table is defined twice) and its endpoints call
`generate_idempotency_key` with arguments it does not take: the service is modelled as its tests and
`docs/idempotency_staging_implementation.md` use it. Only exports of one invoice to one destination
interact. Known behaviour that no property contradicts: with two open exports the query for "the" open
one raises, which is taken for none, and a third is staged; a late approval commits over a posted export, which
is then posted again, as it was approved; a rejection can be raced by a post; two rollbacks reverse
twice; `delivered` is a set, so that the destination gets the same again is not seen. `approved_data` may be overwritten
meanwhile, but what was sent was approved at some time. `_create_audit_trail` logs its own failure and no more, so changes may lack
their entry, which contradicts "Complete audit trails" (`docs/idempotency_staging_implementation.md:377`); `TrailIsTrue` is about
the entries that are there.

### FileStorage

One content: the record is keyed by its hash and every path contains the hash, so contents share nothing.
`store_file` is `CheckDeduplication`, then for a duplicate `LoadReference` and `UpdateReference`, otherwise
`OpenFile`, `WriteFile`, `SaveRecord`, `SetAccess`; `delete_file` is `CheckAccess`, `LookUp`, `Unlink`
or `Move`, `LoadDown`, `CountDown`, `DeleteAccess`. Every query is a session of its own and may fail,
which is logged. `handle` says whether a request's open file is still the one the path names.
`written`, `removed`, `cut`, `torn` and `counted` are history variables for the properties; `cut` has the paths
whose file was removed while a store was writing it: that store saves its record all the same.

Known behaviour that no property contradicts: counts are lost when two are made from one reading; a permanent
deletion removes a file that others were answered with, and while references remain the record still names it, so that
later duplicates are answered with a path that is gone; two first stores of a path
leave two access rows, after which everybody is refused; who uploads a known content second is refused
the file, private to the first.

## What the runs check

| run | instance | shows |
|---|---|---|
| `DeadLetterQueue` | 2 entries (limits 1 and 2), 2 redrivers, 1 API redrive, 1 crash | `TypeOK`; `SentAtMostOnceUnlessRaced`; `CompletedWasSent`; `PermanentFailureIsExhausted`; `CompletedIsFinal`; `FollowsProtocol` (implements `RedriveProtocol`); `PendingIsTaken` (liveness) |
| `DeadLetterQueue_Stranded` | no crash, no API call | violated: `NoEntryStranded`. A failed redrive with retries left stays in "processing" |
| `InvoiceLifecycle` | 1 file, 2 uploads, 2 approvals, 2 workers, 1 retry each, 1 review (to "reviewed", "processing", "approved" or none), 1 fault | `TypeOK`; `OneFirstTask`; `AttemptsBounded`; `NoAttemptIsLost`; `ExportsAreApproved`; `AnnouncedWorkIsBacked` |
| `InvoiceLifecycle_Drains` | 1 upload, 2 approvals, 2 workers, 1 fault | `Drains` (liveness) |
| `InvoiceLifecycle_Approvals` | 2 approvals, 1 worker, no fault | violated: `ApprovedOncePerReady`. Two concurrent approvals of one ready invoice both succeed |
| `UploadIdempotency` | 3 requests, 2 keys, 2 faults | `TypeOK`; `IngestedAtMostOnce` |
| `UploadIdempotency_Repeat` | 2 requests, 1 key, no fault | violated: `RepeatGetsResult`. A repeated upload of an ingested file is refused |
| `InvoiceWorkflow` | scores 0, 75, 88, 95 around the threshold 85, up to 4 errors, 2 attempts | `TypeOK`; `ReadyIsChecked`; `OthersAreHeld`; `FailuresAreNamed`; `ResultIsSaved` |
| `IntegrationFactory` | 1 local and 1 remote provider, 3 requests, 1 checker, threshold 2, 1 switch, 2 probes | `TypeOK`; `BreakerCountsFailures`; `ExecutionsAreCounted`; `NoProviderLeftUntried`; `AskedOnce`; `RequestsAnswered` (liveness) |
| `ExportJobs` | 1 job, 1 API task, 2 workers, 1 canceller, 2 retries, 1 message at a time, 1 fault | `TypeOK`; `CompletedWasDelivered`; `ActiveIsWorkedOn` |
| `StagedExports` | 2 exports, 2 requests at a time, 2 payloads, 1 fault | `TypeOK`; `RowIsTrue`; `TrailIsTrue`; `Gated` (implements `ApprovalGate`) |
| `FileStorage` | 4 requests, 2 users, 2 paths, any query failing | `TypeOK`; `RecordIsBacked`; `StoredIsThere`; `CountIsSound` |

**Bounds.** `MaxApiCalls`, `MaxCrashes`, `MaxReviews`, `MaxFaults`, `MaxUpdates`, `MaxProbes`, `MaxQueued`
and `MaxAttempts` bound what the environment does, `MaxErrors` what one validation reports; every other
quantity is finite by the code (unique hashes and keys, retry limits). Two actors
are enough for each race here, because a race is between one that has checked and one that
commits; three requests let two failures open a breaker of threshold 2 while a third is in flight, and four
let two stores count from one reading, with a record made before and a deletion after. The
scores lie on each side of every limit triage compares with (70, the threshold, 90), and four errors
are one more than the three it tells apart. One retry is enough to see a retry overlap a redelivery,
and one entry limit of 1 and one of 2 give both branches of a failure. The proofs cover any numbers. Symmetry is
used only in runs without liveness. Deadlock is not checked: with requests and faults used up, the system
rightly rests.

**Fairness.** `DeadLetterQueue`: beat starts the automatic redrive every minute
(`workers/dlq_handlers.py:456`) and a started run goes on unless its process is killed; nobody has
to call the API. `InvoiceLifecycle`: a request that has begun is finished by the server, and workers
consume as long as there are messages; no request has to come. `UploadIdempotency`: a request that
has begun goes on. `IntegrationFactory`: probes and executions have a `ClientTimeout`, so a request that has begun goes on; nobody has to
send one, and no health check has to come. All are weak fairness. `InvoiceWorkflow`, `ExportJobs`, `StagedExports` and
`FileStorage` state none: their properties are safety properties, and at this commit nothing restarts a lost export run or a
failed request.

## What is proved

TLAPS checks these for every value of the constants, from the assumptions the modules name (the numeric
constants are naturals, batch size and breaker thresholds positive, markers such as `NoExport` outside the sets
they extend, the requests of `IntegrationFactory` a finite set, since they are counted).

* `DeadLetterQueue_proofs`: `TypeCorrect`, `TypesHold`; `AtMostOnce`, and from it `CompletedSent` and
  `FailuresExhausted`; `CompletedStays`. At-most-once is not
  inductive: it says nothing about a redriver in the middle of its work. `IInv` adds, for unraced
  entries, that a redrivable entry is unsent and held by nobody (`FreeIsUnsent`), that an entry
  has one holder (`HolderIsUnique`), that a held one is "processing" or deleted and still unsent until its holder
  has published (`HeldIsProcessing`), that a recorded outcome is true (`OutcomeIsTrue`), and that
  only what was read as redrivable is claimed (`ReadWasRedrivable`). A claim then either takes a
  free entry or marks it raced, and only the one holder can publish. `Follows` is the refinement: the
  phase of an unraced entry is told by its one holder, so each action moves the phase of the entry it works
  on and of no other, by one step of `RedriveProtocol`; a run that dies or cannot commit strands it.
* `InvoiceLifecycle_proofs`: `TypeCorrect`, `TypesHold`; `UploadsQueueOnce`, from the fact that the upload that
  inserted the row is the only one that can queue for it; `WorkIsBacked`, by following who holds
  the duty to go on (the upload or approval request, a message, a worker) through every
  step that writes `workflow_state` but a review. That needs `Unread`: a processing task never holds a row it has read, so its failure
  mark always replaces "processing". `AttemptsAreBounded` and `AttemptsAreMade` (nothing is lost) are the two halves
  of one account, `ExportsGoBackToApprovals` another: the attempts started, plus those that the messages in the queue
  and the tasks at work still stand for, against the messages published and delivered again, and for exports the records whose task failed after
  their commit (`disowned`). A sum over
  messages and workers would need an induction that is out of reach here, so the proof counts instead: each message stands
  for a set of tokens, as many as its weight; the sum is the cardinality of their union, and a step of
  a worker adds or takes away one finite set of them. That the set is finite belongs to the inductive invariant, and so does
  that a message is weighed by the retries it has left. Only a file that met one of the faults in `lost` is
  exempt from `AttemptsAreMade`; the loss of a worker is no such fault.
* `UploadIdempotency_proofs`: `TypesHold`; `KeysWork`, from `OneIngester`: the request that inserted the
  record is the only one that may ingest, and has not yet.
* `InvoiceWorkflow_proofs`: `TypeCorrect`, `ReadyChecked`, `OthersHeld`, `FailuresNamed`, `ResultSaved`. The
  properties speak of the end of a run; `Known`, `Named` and `Shown` say what they rest on before each node: no
  validation before validate, then one of the very extraction in the state; every filed id in the state;
  every saved row what the state shows.
* `IntegrationFactory_proofs`: `TypeCorrect`; `BreakerSound`; `AllTried`, from `ListIsWorkedThrough`: what was
  offered to a request has answered no, is being asked or is still to come; `AllCounted`, where an answer
  adds one element to one of the sets whose cardinalities the metrics are, or, misread, to both; `NobodyAskedTwice`, from `ListIsApart`:
  what a request has tried, what it is asking and what is still on its list are apart, whatever is switched on meanwhile.
* `ExportJobs_proofs`: `TypeCorrect`; `Delivered`, because only a session that has settled the job reaches the
  step that writes "completed", unless the job goes out by e-mail; `WorkedOn`, from `ActiveIsOwed`: an active status is owed to a runner that has still
  to write a final one, whatever row it has loaded.
* `StagedExports_proofs`: `TypeCorrect`, `RowsAreTrue`, `TrailTrue`, and `Implements`: the initial states are
  initial in `ApprovalGate` and each step is one of its steps or a stutter. What a request carries between its check and its commit must stay true while others
  commit over the row; that holds because approvals, deliveries and reversals only grow (`Grows`).
* `FileStorage_proofs`: `TypeCorrect`, `RecordBacked`, `StoredThere`, `CountSound`. `Backed`, `Answers` and
  `Counts` extend each property to the requests on their way: the path a request is going to be answered with, and
  the record it has loaded, which may be as old as its session.

Only model-checked: liveness (`PendingIsTaken`, `Drains`, `RequestsAnswered`), which the proof system cannot
treat. Every other property of a passing run is the statement of a theorem.

## What the models leave out

* One task type per dead letter queue, no priorities (any ready rows may form a batch), no change
  of arguments. The breaker of a service instance never recovers within its life (recovery needs
  minutes, and `redrive_single_entry` only looks at its state).
* How entries are created: `create_dlq_entry` is modelled; the Celery signal handlers that call it
  fail on the signals' arguments at this commit.
* The broker's visibility timeout, and the loss of messages by the broker itself. The soft time limit striking within the
  exception branch, or between two statements that share a transaction; a commit of the failure mark whose answer is lost.
* At this commit the workers import only some of the models, so SQLAlchemy's mapper configuration
  fails in them (`models/idempotency.py` is missing), and the production compose file starts no
  worker for the `dlq_processing` queue. The models describe the code as it behaves once mappers
  are configured and a worker consumes the queue.
* `IngestionJob` rows are never saved and `_queue_processing_task` only logs, so an "ingestion" is the storing of
  the file. The batch upload endpoint is not modelled.
* `InvoiceWorkflow` has the runs of one invoice one after the other; runs that overlap share nothing but rows.
  The updates of the row's status in it are swallowed (an unimported `select`) and left out; tracing is off
  without its keys.
* `IntegrationFactory`: registering providers and changing priorities while the factory runs.
* `FileStorage`: the S3 and R2 backends, compression, the copy under `originals` except that its failure ends a
  store, links, the audit log, reads. Signed URLs are a counter of one row, checked and then
  incremented.

Components without a module, with the reasons in `PROJECT.json`:

* Code that does not run at this commit: the external service manager (its cost tracker cannot be
  constructed), the approval and the generic workflow services (they do not import), alerts and runbooks (nothing
  triggers them and their router is not mounted), the resolution of exceptions (it raises).
* Code whose behaviour is that of an external system: mailboxes, QuickBooks, ERP adapters, n8n, the models used for extraction.
* Pure computation or read-only queries: validation rules, gradings of exceptions, metrics, analytics,
  reports, working capital, health and tracing.

## Plan

1. Signed URLs and reads in `FileStorage`, with the access counter that is checked before it is written.
2. Providers that come, go and change priority while the factory runs.
3. The validation rules as operators over small amounts, checked against a definition of a correct invoice.
