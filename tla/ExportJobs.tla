----------------------------- MODULE ExportJobs -----------------------------
(***************************************************************************)
(* Export jobs: creation, execution, cancellation, retry and clean-up      *)
(* (app/services/export_service.py, app/workers/export_tasks.py).          *)
(*                                                                         *)
(* A job is run by a task of the API process that created it (Apis) or by  *)
(* a Celery worker that got a retry message (Workers). Each has a session  *)
(* of its own: a row is loaded once (Load), stays as it was loaded until   *)
(* the session commits, and a commit writes only the columns whose value   *)
(* differs from the loaded one. Nothing locks the row.                     *)
(***************************************************************************)
EXTENDS Naturals

CONSTANTS
    Jobs,
    Apis,        \* tasks of API processes that create and run jobs
    Workers,     \* Celery workers (export_tasks.process_export_job)
    Cancellers,  \* concurrent calls of cancel_export_job
    MaxRetries,  \* ExportJob.max_retries
    MaxQueued,   \* bound: retry messages of a job at one time
    MaxFaults    \* bound: database errors and killed processes

Runners == Apis \union Workers
NoJob == "no job"
Expired == [status |-> "expired", retries |-> 0]

ASSUME ExportAssumption ==
    /\ MaxRetries \in Nat
    /\ MaxQueued \in Nat
    /\ MaxFaults \in Nat
    /\ NoJob \notin Jobs
    /\ Apis \intersect Workers = {}

VARIABLES
    status,     \* ExportJob.status
    retries,    \* ExportJob.retry_count
    metrics,    \* its ExportMetrics row exists
    queued,     \* messages of process_export_job for it
    pc, on,     \* what each runner does next, and for which job
    row,        \* the job as the runner's session has loaded it
    cancel,     \* the job each call of cancel_export_job has checked, or NoJob
    emailed,    \* ExportJob.destination is EMAIL, as its creator asks for
    settled,    \* history: the job was delivered, or had nothing to deliver
    lost,       \* history: a run of the job ended without a trace
    faults

vars == <<status, retries, metrics, queued, pc, on, row, cancel,
          settled, lost, faults, emailed>>

Active == {"preparing", "processing"}
Final == {"completed", "failed", "cancelled"}
Statuses == {"none", "pending"} \union Active \union Final
Steps == {"idle", "receive", "start", "query", "batch", "complete", "send", "finish",
          "metrics", "log", "fail", "faillog", "outer"}
Rows == [status : Statuses \union {"expired"}, retries : Nat]

TypeOK ==
    /\ status \in [Jobs -> Statuses]
    /\ retries \in [Jobs -> Nat]
    /\ metrics \in [Jobs -> BOOLEAN]
    /\ queued \in [Jobs -> Nat]
    /\ pc \in [Runners -> Steps]
    /\ on \in [Runners -> Jobs \union {NoJob}]
    /\ row \in [Runners -> Rows]
    /\ cancel \in [Cancellers -> Jobs \union {NoJob}]
    /\ emailed \in [Jobs -> BOOLEAN]
    /\ settled \in [Jobs -> BOOLEAN]
    /\ lost \in [Jobs -> BOOLEAN]
    /\ faults \in Nat

Init ==
    /\ status = [j \in Jobs |-> "none"]
    /\ retries = [j \in Jobs |-> 0]
    /\ metrics = [j \in Jobs |-> FALSE]
    /\ queued = [j \in Jobs |-> 0]
    /\ pc = [w \in Runners |-> "idle"]
    /\ on = [w \in Runners |-> NoJob]
    /\ row = [w \in Runners |-> Expired]
    /\ cancel = [c \in Cancellers |-> NoJob]
    /\ emailed \in [Jobs -> BOOLEAN]
    /\ settled = [j \in Jobs |-> FALSE]
    /\ lost = [j \in Jobs |-> FALSE]
    /\ faults = 0

-----------------------------------------------------------------------------
(* A session                                                               *)

GoTo(w, step) == pc' = [pc EXCEPT ![w] = step]

\* The first use of the job after a commit loads it.
Load(w) ==
    /\ pc[w] # "idle"
    /\ row[w] = Expired
    /\ row' = [row EXCEPT ![w] = [status |-> status[on[w]], retries |-> retries[on[w]]]]
    /\ UNCHANGED <<status, retries, metrics, queued, pc, on, cancel,
                   settled, lost, faults, emailed>>

\* A commit writes what differs from the loaded row and expires it.
Write(w, s, n) ==
    /\ row[w] # Expired
    /\ status' = [status EXCEPT ![on[w]] = IF row[w].status = s THEN @ ELSE s]
    /\ retries' = [retries EXCEPT ![on[w]] = IF row[w].retries = n THEN @ ELSE n]
    /\ row' = [row EXCEPT ![w] = Expired]

\* The session refuses everything after a failed flush. A worker's outer handler has a
\* fresh one; in the API, _fail_export_job fails too and nothing is recorded.
Break(w) ==
    /\ row' = [row EXCEPT ![w] = Expired]
    /\ IF w \in Workers
       THEN GoTo(w, "outer") /\ UNCHANGED <<on, lost>>
       ELSE /\ GoTo(w, "idle")
            /\ on' = [on EXCEPT ![w] = NoJob]
            /\ lost' = [lost EXCEPT ![on[w]] = TRUE]

\* The run is over.
Leave(w) ==
    /\ GoTo(w, "idle")
    /\ on' = [on EXCEPT ![w] = NoJob]

-----------------------------------------------------------------------------
(* ExportService.create_export_job, _execute_export_job; process_export_job *)

Begin(w, j, step) ==
    /\ pc[w] = "idle"
    /\ GoTo(w, step)
    /\ on' = [on EXCEPT ![w] = j]
    /\ row' = [row EXCEPT ![w] = Expired]

\* A scheduled job is only stored; any other is run in the background at once.
Create(w, j) ==
    /\ w \in Apis
    /\ status[j] = "none"
    /\ status' = [status EXCEPT ![j] = "pending"]
    /\ Begin(w, j, "start") \/ UNCHANGED <<pc, on, row>>
    /\ UNCHANGED <<retries, metrics, queued, cancel, settled, lost, faults, emailed>>

\* A worker takes a retry message; it is acknowledged at once.
Take(w, j) ==
    /\ w \in Workers
    /\ queued[j] > 0
    /\ Begin(w, j, "receive")
    /\ queued' = [queued EXCEPT ![j] = @ - 1]
    /\ UNCHANGED <<status, retries, metrics, cancel, settled, lost, faults, emailed>>

\* Mutant of Prepare: the status is written as a word of the template's.
PrepareActive(w) ==
    /\ pc[w] \in {"receive", "start"}
    /\ Write(w, "active", row[w].retries)
    /\ GoTo(w, IF pc[w] = "receive" THEN "start" ELSE "query")
    /\ UNCHANGED <<metrics, queued, on, cancel, settled, lost, faults, emailed>>

\* The task and the service both mark the job as PREPARING, whatever it is.
Prepare(w) ==
    /\ pc[w] \in {"receive", "start"}
    /\ Write(w, "preparing", row[w].retries)
    /\ GoTo(w, IF pc[w] = "receive" THEN "start" ELSE "query")
    /\ UNCHANGED <<metrics, queued, on, cancel, settled, lost, faults, emailed>>

\* The invoices are read and counted.
Query(w) ==
    /\ pc[w] = "query"
    /\ Write(w, row[w].status, row[w].retries)
    /\ \E step \in {"complete", "batch"} : GoTo(w, step)
    /\ UNCHANGED <<metrics, queued, on, cancel, settled, lost, faults, emailed>>

\* No invoice matches.
Complete(w) ==
    /\ pc[w] = "complete"
    /\ Write(w, "completed", row[w].retries)
    /\ settled' = [settled EXCEPT ![on[w]] = TRUE]
    /\ Leave(w)
    /\ UNCHANGED <<metrics, queued, cancel, lost, faults, emailed>>

\* _update_export_progress, at the first record of each batch.
Batch(w) ==
    /\ pc[w] = "batch"
    /\ Write(w, "processing", row[w].retries)
    /\ UNCHANGED <<metrics, queued, pc, on, cancel, settled, lost, faults, emailed>>

\* Mutant of FileWritten: the file is not delivered.
FileWrittenUnsent(w) ==
    /\ pc[w] = "batch"
    /\ GoTo(w, "finish")
    /\ UNCHANGED <<status, retries, metrics, queued, on, row, cancel,
                   settled, lost, faults, emailed>>

FileWritten(w) ==
    /\ pc[w] = "batch"
    /\ GoTo(w, "send")
    /\ UNCHANGED <<status, retries, metrics, queued, on, row, cancel,
                   settled, lost, faults, emailed>>

\* _handle_export_destination has stored, posted or kept the file; for an e-mail it
\* only logs that sending is not implemented.
Send(w) ==
    /\ pc[w] = "send"
    /\ row[w] # Expired
    /\ settled' = [settled EXCEPT ![on[w]] = @ \/ ~emailed[on[w]]]
    /\ GoTo(w, "finish")
    /\ UNCHANGED <<status, retries, metrics, queued, on, row, cancel, lost, faults, emailed>>

Finish(w) ==
    /\ pc[w] = "finish"
    /\ Write(w, "completed", row[w].retries)
    /\ GoTo(w, "metrics")
    /\ UNCHANGED <<metrics, queued, on, cancel, settled, lost, faults, emailed>>

\* _create_export_metrics: export_job_id is unique, so a second completed run fails here.
Metrics(w) ==
    /\ pc[w] = "metrics"
    /\ IF metrics[on[w]]
       THEN Break(w) /\ UNCHANGED metrics
       ELSE /\ metrics' = [metrics EXCEPT ![on[w]] = TRUE]
            /\ GoTo(w, "log")
            /\ UNCHANGED <<on, row, lost>>
    /\ UNCHANGED <<status, retries, queued, cancel, settled, faults, emailed>>

Log(w) ==
    /\ pc[w] \in {"log", "faillog"}
    /\ Leave(w)
    /\ UNCHANGED <<status, retries, metrics, queued, row, cancel,
                   settled, lost, faults, emailed>>

\* A template that is gone, a bad filter, an unsupported format, a destination that
\* refuses.
Raise(w) ==
    /\ pc[w] \in {"start", "query", "batch", "send"}
    /\ GoTo(w, "fail")
    /\ UNCHANGED <<status, retries, metrics, queued, on, row, cancel,
                   settled, lost, faults, emailed>>

\* _fail_export_job
Fail(w) ==
    /\ pc[w] = "fail"
    /\ Write(w, "failed", row[w].retries + 1)
    /\ GoTo(w, "faillog")
    /\ UNCHANGED <<metrics, queued, on, cancel, settled, lost, faults, emailed>>

\* Mutant of Outer: the job's status is left alone.
OuterCountOnly(w) ==
    /\ pc[w] = "outer"
    /\ Write(w, row[w].status, row[w].retries + 1)
    /\ Leave(w)
    /\ UNCHANGED <<metrics, queued, cancel, settled, lost, faults, emailed>>

\* The except branch of process_export_job.
Outer(w) ==
    /\ pc[w] = "outer"
    /\ Write(w, "failed", row[w].retries + 1)
    /\ Leave(w)
    /\ UNCHANGED <<metrics, queued, cancel, settled, lost, faults, emailed>>

\* The soft time limit of a worker: the service catches it, even when the job is
\* completed already; in the task and in _fail_export_job it reaches the outer handler.
SoftLimit(w) ==
    /\ w \in Workers
    /\ pc[w] \notin {"idle", "outer"}
    /\ faults < MaxFaults
    /\ faults' = faults + 1
    /\ IF pc[w] \in {"receive", "fail", "faillog"}
       THEN GoTo(w, "outer") /\ row' = [row EXCEPT ![w] = Expired]
       ELSE GoTo(w, "fail") /\ UNCHANGED row
    /\ UNCHANGED <<status, retries, metrics, queued, on, cancel, settled, lost, emailed>>

\* A statement of the run fails in the database.
DbError(w) ==
    /\ pc[w] \notin {"idle", "outer"}
    /\ faults < MaxFaults
    /\ faults' = faults + 1
    /\ Break(w)
    /\ UNCHANGED <<status, retries, metrics, queued, cancel, settled, emailed>>

\* The process is killed.
Crash(w) ==
    /\ pc[w] # "idle"
    /\ faults < MaxFaults
    /\ faults' = faults + 1
    /\ Leave(w)
    /\ lost' = [lost EXCEPT ![on[w]] = TRUE]
    /\ UNCHANGED <<status, retries, metrics, queued, row, cancel, settled,
                   emailed>>

-----------------------------------------------------------------------------
(* cancel_export_job, retry_failed_exports, cleanup_old_exports            *)

CancelCheck(c, j) ==
    /\ cancel[c] = NoJob
    /\ status[j] \notin Final \union {"none"}
    /\ cancel' = [cancel EXCEPT ![c] = j]
    /\ UNCHANGED <<status, retries, metrics, queued, pc, on, row,
                   settled, lost, faults, emailed>>

CancelCommit(c) ==
    /\ cancel[c] # NoJob
    /\ status' = [status EXCEPT ![cancel[c]] = "cancelled"]
    /\ cancel' = [cancel EXCEPT ![c] = NoJob]
    /\ UNCHANGED <<retries, metrics, queued, pc, on, row, settled, lost, faults, emailed>>

\* Every sweep publishes a message for every failed job, also when one is on its way.
Retry(j) ==
    /\ status[j] = "failed"
    /\ retries[j] < MaxRetries
    /\ queued[j] < MaxQueued
    /\ queued' = [queued EXCEPT ![j] = @ + 1]
    /\ UNCHANGED <<status, retries, metrics, pc, on, row, cancel,
                   settled, lost, faults, emailed>>

\* Completed for 30 days: the file is removed and the job marked.
CleanUp(j) ==
    /\ status[j] = "completed"
    /\ status' = [status EXCEPT ![j] = "cancelled"]
    /\ UNCHANGED <<retries, metrics, queued, pc, on, row, cancel,
                   settled, lost, faults, emailed>>

-----------------------------------------------------------------------------
RunnerStep(w) ==
    \/ Load(w) \/ Prepare(w) \/ Query(w) \/ Complete(w) \/ Batch(w) \/ FileWritten(w)
    \/ Send(w) \/ Finish(w) \/ Metrics(w) \/ Log(w) \/ Raise(w) \/ Fail(w) \/ Outer(w)
    \/ SoftLimit(w) \/ DbError(w) \/ Crash(w)
    \/ \E j \in Jobs : Create(w, j) \/ Take(w, j)

Next ==
    \/ \E w \in Runners : RunnerStep(w)
    \/ \E c \in Cancellers : CancelCommit(c) \/ (\E j \in Jobs : CancelCheck(c, j))
    \/ \E j \in Jobs : Retry(j) \/ CleanUp(j)

Spec == Init /\ [][Next]_vars

-----------------------------------------------------------------------------
(* Properties                                                              *)

\* Whichever runs, retries, cancellations and stale sessions overlap, a job is
\* COMPLETED only if it was delivered or had nothing to deliver. A job whose
\* destination is an e-mail is the exception: it completes and nothing is sent.
CompletedWasDelivered ==
    \A j \in Jobs : status[j] = "completed" => settled[j] \/ emailed[j]

\* A job that says it is being worked on is, unless a run of it was lost. A run that
\* leaves last never leaves such a status behind, although it writes only what differs
\* from a row it may have loaded long ago.
ActiveIsWorkedOn ==
    \A j \in Jobs :
        status[j] \in Active =>
            lost[j] \/ \E w \in Runners : pc[w] # "idle" /\ on[w] = j
=============================================================================
