--------------------------- MODULE DeadLetterQueue ---------------------------
(***************************************************************************)
(* The dead letter queue of failed Celery tasks and its redrivers          *)
(* (app/services/dlq_service.py, app/services/redrive_service.py,          *)
(* app/models/dlq.py, app/workers/dlq_handlers.py).                        *)
(*                                                                         *)
(* A redriver is one call of auto_redrive_pending_entries (a beat task) or *)
(* of redrive_bulk_entries / redrive_single_entry (an API request). Each   *)
(* owns one SQLAlchemy session and one RedriveService, so one circuit      *)
(* breaker per task type; every entry here has the same task type. No row  *)
(* is locked: what a redriver read and what it commits are separate steps, *)
(* and other redrivers and the cleanup endpoints run in between.           *)
(*                                                                         *)
(* next_retry_at is not a variable. Its only assignment stores a float in  *)
(* a timestamp column (models/dlq.py:207), so the commit that carries it   *)
(* always fails and the column stays NULL, that is, always due.            *)
(***************************************************************************)
EXTENDS Naturals, FiniteSets

CONSTANTS
    NumEntries,       \* entries are numbered in the order they are created
    Redrivers,        \* concurrent runs of the redrive service
    MaxRetries,       \* max_retries of each entry
    BatchSize,        \* batch_size of an automatic run
    FailureThreshold, \* failure_threshold of the circuit breaker
    MaxApiCalls,      \* bound: redrives asked for through the API
    MaxCrashes        \* bound: worker or API processes killed

Entries == 1..NumEntries

ASSUME DLQAssumption ==
    /\ NumEntries \in Nat
    /\ MaxRetries \in [Entries -> Nat]
    /\ BatchSize \in Nat \ {0}
    /\ FailureThreshold \in Nat \ {0}
    /\ MaxApiCalls \in Nat
    /\ MaxCrashes \in Nat

VARIABLES
    status,    \* dlq_status of the row, or "none" (not created), "gone" (deleted)
    retries,   \* retry_count of the row
    sent,      \* messages apply_async has published for the entry
    raced,     \* history: entries claimed when the row read as redrivable no longer was
    pc,        \* what each redriver does next
    todo,      \* entries of its batch it has not looked at yet
    cached,    \* entries whose row, read PENDING, is still in its identity map
    cur,       \* the entry it is redriving
    mode,      \* an automatic run, a request of the API, or one with the force flag
    seen,      \* the row as last read: by its checks, then after its claim
    outcome,   \* whether apply_async returned
    fails,     \* failure_count of its circuit breaker
    broken,    \* its session needs a rollback nobody issues
    apiCalls, crashes

rowVars == <<status, retries>>
runVars == <<pc, todo, cached, cur, mode, seen, outcome, fails, broken>>
vars == <<status, retries, sent, raced, pc, todo, cached, cur, mode, seen,
          outcome, fails, broken, apiCalls, crashes>>

\* The statuses some code writes ("redriving" and "archived" are never written).
Statuses == {"pending", "processing", "completed", "failed_permanently"}
Redrivable == {"pending", "failed_permanently"}

Present(e) == status[e] \in Statuses

\* Where a redriver is between its claim of an entry and the record of what came of it.
Holding == {"execute", "publish", "record"}

TypeOK ==
    /\ status \in [Entries -> Statuses \union {"none", "gone"}]
    /\ retries \in [Entries -> Nat]
    /\ sent \in [Entries -> Nat]
    /\ raced \in SUBSET Entries
    /\ pc \in [Redrivers -> {"idle", "next", "claim"} \union Holding]
    /\ todo \in [Redrivers -> SUBSET Entries]
    /\ cached \in [Redrivers -> SUBSET Entries]
    /\ cur \in [Redrivers -> Entries \union {0}]
    /\ mode \in [Redrivers -> {"auto", "api", "forced"}]
    /\ seen \in [Redrivers -> [status : Statuses, retries : Nat]]
    /\ outcome \in [Redrivers -> {"none", "sent", "failed"}]
    /\ fails \in [Redrivers -> Nat]
    /\ broken \in [Redrivers -> BOOLEAN]
    /\ apiCalls \in Nat
    /\ crashes \in Nat

NotLoaded == [status |-> "pending", retries |-> 0]

Init ==
    /\ status = [e \in Entries |-> "none"]
    /\ retries = [e \in Entries |-> 0]
    /\ sent = [e \in Entries |-> 0]
    /\ raced = {}
    /\ pc = [r \in Redrivers |-> "idle"]
    /\ todo = [r \in Redrivers |-> {}]
    /\ cached = [r \in Redrivers |-> {}]
    /\ cur = [r \in Redrivers |-> 0]
    /\ mode = [r \in Redrivers |-> "auto"]
    /\ seen = [r \in Redrivers |-> NotLoaded]
    /\ outcome = [r \in Redrivers |-> "none"]
    /\ fails = [r \in Redrivers |-> 0]
    /\ broken = [r \in Redrivers |-> FALSE]
    /\ apiCalls = 0
    /\ crashes = 0

-----------------------------------------------------------------------------
(* DLQService: rows created and removed, each in one transaction.          *)

\* create_dlq_entry: task_id is unique, so a task has one entry ever.
Create(e) ==
    /\ status[e] = "none"
    /\ \A f \in Entries : f < e => status[f] # "none"
    /\ status' = [status EXCEPT ![e] = "pending"]
    /\ UNCHANGED <<retries, sent, raced, runVars, apiCalls, crashes>>

\* delete_dlq_entry: whatever the status, also while a redriver holds the entry.
Delete(e) ==
    /\ Present(e)
    /\ status' = [status EXCEPT ![e] = "gone"]
    /\ UNCHANGED <<retries, sent, raced, runVars, apiCalls, crashes>>

\* cleanup_old_entries: every entry older than the cutoff, of one status or of all.
Cleanup(newest, filter) ==
    LET old == {e \in Entries : e <= newest /\ status[e] \in filter}
    IN  /\ old # {}
        /\ status' = [e \in Entries |-> IF e \in old THEN "gone" ELSE status[e]]
        /\ UNCHANGED <<retries, sent, raced, runVars, apiCalls, crashes>>

-----------------------------------------------------------------------------
(* RedriveService                                                          *)

ReadyForRetry == {e \in Entries : status[e] = "pending" /\ retries[e] < MaxRetries[e]}

\* A run begins with a new session and a new service.
Begin(r, batch, inSession, m) ==
    /\ pc[r] = "idle"
    /\ pc' = [pc EXCEPT ![r] = "next"]
    /\ todo' = [todo EXCEPT ![r] = batch]
    /\ cached' = [cached EXCEPT ![r] = inSession]
    /\ mode' = [mode EXCEPT ![r] = m]
    /\ UNCHANGED <<rowVars, sent, raced, cur, seen, outcome, fails, broken, crashes>>

\* auto_redrive_tasks: the ready rows, at most BatchSize of them, are loaded
\* into the session. Priorities are not modelled, so any ready row may be taken.
StartAuto(r) ==
    /\ \E batch \in SUBSET ReadyForRetry :
          /\ batch # {}
          /\ \/ batch = ReadyForRetry /\ Cardinality(batch) <= BatchSize
             \/ Cardinality(batch) = BatchSize
          /\ Begin(r, batch, batch, "auto")
    /\ UNCHANGED apiCalls

\* The redrive endpoints: the caller names the entries.
StartBulk(r, batch, m) ==
    /\ batch # {}
    /\ apiCalls < MaxApiCalls
    /\ apiCalls' = apiCalls + 1
    /\ Begin(r, batch, {}, m)

\* Mutant: the status of the row is not looked at.
MayRedriveAnyStatus(r, e) ==
    /\ Present(e)
    /\ e \in cached[r] \/ mode[r] = "forced" \/ retries[e] < MaxRetries[e]
    /\ fails[r] < FailureThreshold

\* The checks of redrive_single_entry. A row of the automatic batch that is still
\* in the identity map is not read again: it answers as when it was listed.
MayRedrive(r, e) ==
    /\ Present(e)
    /\ \/ e \in cached[r]
       \/ /\ mode[r] = "forced" \/ retries[e] < MaxRetries[e]
          /\ status[e] \in Redrivable
    /\ fails[r] < FailureThreshold

\* The loop of an automatic run has only the row for its id: one that a commit has
\* expired and another process deleted raises, in the handler of that error again.
Lost(r, e) == mode[r] = "auto" /\ e \notin cached[r] /\ ~Present(e)

Skip(r, e) ==
    /\ pc[r] = "next" /\ ~broken[r]
    /\ e \in todo[r]
    /\ ~MayRedrive(r, e) /\ ~Lost(r, e)
    /\ todo' = [todo EXCEPT ![r] = @ \ {e}]
    /\ UNCHANGED <<rowVars, sent, raced, pc, cached, cur, mode, seen, outcome,
                   fails, broken, apiCalls, crashes>>

Check(r, e) ==
    /\ pc[r] = "next" /\ ~broken[r]
    /\ e \in todo[r]
    /\ MayRedrive(r, e)
    /\ todo' = [todo EXCEPT ![r] = @ \ {e}]
    /\ cur' = [cur EXCEPT ![r] = e]
    /\ seen' = [seen EXCEPT ![r].status = IF e \in cached[r] THEN "pending" ELSE status[e]]
    /\ pc' = [pc EXCEPT ![r] = "claim"]
    /\ UNCHANGED <<rowVars, sent, raced, cached, mode, outcome, fails, broken,
                   apiCalls, crashes>>

\* Mutants: the claim is not written; it is written as a status nobody handles.
ClaimUnwritten(r) ==
    /\ pc[r] = "claim" /\ Present(cur[r])
    /\ pc' = [pc EXCEPT ![r] = "execute"]
    /\ UNCHANGED <<rowVars, sent, raced, todo, cached, cur, mode, seen, outcome, fails,
                   broken, apiCalls, crashes>>
ClaimAsRedriving(r) ==
    /\ pc[r] = "claim" /\ Present(cur[r])
    /\ status' = [status EXCEPT ![cur[r]] = "redriving"]
    /\ pc' = [pc EXCEPT ![r] = "execute"]
    /\ UNCHANGED <<retries, sent, raced, todo, cached, cur, mode, seen, outcome, fails,
                   broken, apiCalls, crashes>>

\* The first commit: dlq_status = PROCESSING, whatever the row says by now.
\* If the row has been deleted the flush fails and the session is unusable.
Claim(r) ==
    LET e == cur[r] IN
    /\ pc[r] = "claim"
    /\ IF Present(e)
       THEN /\ status' = [status EXCEPT ![e] = "processing"]
            /\ raced' = IF seen[r].status \in Redrivable /\ status[e] \notin Redrivable
                        THEN raced \union {e} ELSE raced
            /\ pc' = [pc EXCEPT ![r] = "execute"]
            /\ UNCHANGED <<cur, broken>>
       ELSE /\ pc' = [pc EXCEPT ![r] = "next"]
            /\ cur' = [cur EXCEPT ![r] = 0]
            /\ broken' = [broken EXCEPT ![r] = TRUE]
            /\ UNCHANGED <<status, raced>>
    /\ cached' = [cached EXCEPT ![r] = {}]
    /\ seen' = [seen EXCEPT ![r] = NotLoaded]
    /\ UNCHANGED <<retries, sent, todo, mode, outcome, fails, apiCalls, crashes>>

\* Mutant: the row as read before the claim serves on (expire_on_commit=False).
ReloadNothing(r) ==
    /\ pc[r] = "execute"
    /\ pc' = [pc EXCEPT ![r] = "publish"]
    /\ UNCHANGED <<rowVars, sent, raced, todo, cached, cur, mode, seen, outcome, fails,
                   broken, apiCalls, crashes>>

\* The commit expired the row: reading the task's arguments reloads it.
Reload(r) ==
    LET e == cur[r] IN
    /\ pc[r] = "execute"
    /\ Present(e)
    /\ seen' = [seen EXCEPT ![r] = [status |-> status[e], retries |-> retries[e]]]
    /\ pc' = [pc EXCEPT ![r] = "publish"]
    /\ UNCHANGED <<rowVars, sent, raced, todo, cached, cur, mode, outcome, fails, broken,
                   apiCalls, crashes>>

\* _execute_redrive: apply_async, whatever has become of the row meanwhile.
Publish(r, ok) ==
    /\ pc[r] = "publish"
    /\ outcome' = [outcome EXCEPT ![r] = IF ok THEN "sent" ELSE "failed"]
    /\ sent' = [sent EXCEPT ![cur[r]] = IF ok THEN @ + 1 ELSE @]
    /\ pc' = [pc EXCEPT ![r] = "record"]
    /\ UNCHANGED <<rowVars, raced, todo, cached, cur, mode, seen, fails, broken,
                   apiCalls, crashes>>

\* Reloading a deleted row raises before anything is published.
Vanished(r) ==
    /\ pc[r] = "execute"
    /\ ~Present(cur[r])
    /\ pc' = [pc EXCEPT ![r] = "next"]
    /\ cur' = [cur EXCEPT ![r] = 0]
    /\ UNCHANGED <<rowVars, sent, raced, todo, cached, mode, seen, outcome, fails,
                   broken, apiCalls, crashes>>

\* The second commit writes what changed relative to the row as reloaded.
Write(r, newStatus) ==
    LET e == cur[r] IN
    IF Present(e)
    THEN /\ retries' = [retries EXCEPT ![e] = seen[r].retries + 1]
         /\ status' = IF seen[r].status = newStatus THEN status
                      ELSE [status EXCEPT ![e] = newStatus]
         /\ broken' = broken
    ELSE /\ broken' = [broken EXCEPT ![r] = TRUE]
         /\ UNCHANGED rowVars

RecordAs(r, newStatus) ==
    /\ Write(r, newStatus)
    /\ pc' = [pc EXCEPT ![r] = "next"]
    /\ seen' = [seen EXCEPT ![r] = NotLoaded]
    /\ outcome' = [outcome EXCEPT ![r] = "none"]
    /\ cur' = [cur EXCEPT ![r] = 0]
    /\ UNCHANGED <<sent, raced, todo, cached, mode, fails, apiCalls, crashes>>

\* Mutants: a success puts the entry back; a failed publication counts as a success.
RecordSuccessPutBack(r) == pc[r] = "record" /\ outcome[r] = "sent" /\ RecordAs(r, "pending")
RecordSuccessAlways(r) == pc[r] = "record" /\ RecordAs(r, "completed")

\* add_redrive_attempt(success=True)
RecordSuccess(r) ==
    /\ pc[r] = "record" /\ outcome[r] = "sent"
    /\ RecordAs(r, "completed")

\* Mutant: the entry is given up one retry early.
RecordFailureEarly(r) ==
    /\ pc[r] = "record" /\ outcome[r] = "failed"
    /\ seen[r].retries + 2 >= MaxRetries[cur[r]]
    /\ RecordAs(r, "failed_permanently")

\* add_redrive_attempt(success=False). With retries left, the attempt is put
\* back to PENDING together with a next_retry_at the database refuses: the
\* commit fails, nothing is written and the session is unusable.
RecordFailure(r) ==
    /\ pc[r] = "record" /\ outcome[r] = "failed"
    /\ fails' = [fails EXCEPT ![r] = @ + 1]
    /\ IF seen[r].retries + 1 >= MaxRetries[cur[r]]
       THEN Write(r, "failed_permanently")
       ELSE /\ broken' = [broken EXCEPT ![r] = TRUE]
            /\ UNCHANGED rowVars
    /\ pc' = [pc EXCEPT ![r] = "next"]
    /\ seen' = [seen EXCEPT ![r] = NotLoaded]
    /\ outcome' = [outcome EXCEPT ![r] = "none"]
    /\ cur' = [cur EXCEPT ![r] = 0]
    /\ UNCHANGED <<sent, raced, todo, cached, mode, apiCalls, crashes>>

\* The session and the service of a run are gone.
End(r) ==
    /\ pc' = [pc EXCEPT ![r] = "idle"]
    /\ todo' = [todo EXCEPT ![r] = {}]
    /\ cached' = [cached EXCEPT ![r] = {}]
    /\ cur' = [cur EXCEPT ![r] = 0]
    /\ mode' = [mode EXCEPT ![r] = "auto"]
    /\ seen' = [seen EXCEPT ![r] = NotLoaded]
    /\ outcome' = [outcome EXCEPT ![r] = "none"]
    /\ fails' = [fails EXCEPT ![r] = 0]
    /\ broken' = [broken EXCEPT ![r] = FALSE]
    /\ UNCHANGED <<rowVars, sent, raced, apiCalls>>

\* The end of the batch. With a broken session every remaining entry fails on
\* its first query and nothing else happens.
Finish(r) ==
    /\ pc[r] = "next"
    /\ todo[r] = {} \/ broken[r]
    /\ End(r)
    /\ UNCHANGED crashes

\* auto_redrive_pending_entries gives its whole batch up over one deleted row.
Abort(r) ==
    /\ pc[r] = "next" /\ ~broken[r]
    /\ \E e \in todo[r] : Lost(r, e)
    /\ End(r)
    /\ UNCHANGED crashes

\* The process is killed: what is committed stays, the rest is forgotten.
Crash(r) ==
    /\ pc[r] # "idle"
    /\ crashes < MaxCrashes
    /\ crashes' = crashes + 1
    /\ End(r)

-----------------------------------------------------------------------------

Step(r) ==
    \/ \E e \in Entries : Skip(r, e) \/ Check(r, e)
    \/ Claim(r)
    \/ Reload(r) \/ Vanished(r)
    \/ \E ok \in BOOLEAN : Publish(r, ok)
    \/ RecordSuccess(r)
    \/ RecordFailure(r)
    \/ Finish(r) \/ Abort(r)

Operator ==
    \/ \E e \in Entries : Create(e) \/ Delete(e)
    \/ \E newest \in Entries, filter \in {{s} : s \in Statuses} \union {Statuses} :
          Cleanup(newest, filter)
    \/ \E r \in Redrivers, batch \in SUBSET Entries, m \in {"api", "forced"} :
          StartBulk(r, batch, m)

Next ==
    \/ Operator
    \/ \E r \in Redrivers : StartAuto(r) \/ Step(r) \/ Crash(r)

Spec == Init /\ [][Next]_vars

(***************************************************************************)
(* Beat starts auto_redrive every minute and a started run executes to its *)
(* end unless its process is killed; nobody has to call the API.           *)
(***************************************************************************)
FairSpec == Spec /\ \A r \in Redrivers : WF_vars(StartAuto(r)) /\ WF_vars(Step(r))

-----------------------------------------------------------------------------
(* Properties                                                              *)

\* A failed task is published at most once, even across crashes and forced
\* redrives, unless a redriver acted on a row another one had taken since it
\* was read (redrive_single_entry checks the status and commits later).
SentAtMostOnceUnlessRaced == \A e \in Entries : e \notin raced => sent[e] <= 1

\* A row says "completed" only if its task really was handed to the broker.
CompletedWasSent == \A e \in Entries : status[e] = "completed" => sent[e] >= 1

\* An unraced row says "failed_permanently" only when its retries are used up.
\* (A raced one may not: four overlapping redrivers can lower the count again.)
PermanentFailureIsExhausted ==
    \A e \in Entries \ raced :
       status[e] = "failed_permanently" => retries[e] >= MaxRetries[e]

\* A completed entry stays completed until it is deleted, unless it was raced.
CompletedIsFinal ==
    [][\A e \in Entries :
          status[e] = "completed" /\ e \notin raced'
             => status'[e] \in {"completed", "gone"}]_vars

\* A pending entry with retries left is not pending for ever: each automatic run
\* takes at least one, even when its session breaks on the first.
PendingIsTaken ==
    \A e \in Entries :
       (status[e] = "pending" /\ retries[e] < MaxRetries[e]) ~> status[e] # "pending"

\* What docs/prd.md and the module's own docstring promise (a failed redrive is
\* retried later, with backoff): an entry that nobody is working on is not left
\* in "processing". The code breaks it without any crash.
Working(e) == \E r \in Redrivers : cur[r] = e /\ pc[r] \in Holding
NoEntryStranded == \A e \in Entries : status[e] = "processing" => Working(e)

\* How far the redrive of an entry has got, for RedriveProtocol.
AtWorkOn(e) == {r \in Redrivers : cur[r] = e /\ pc[r] \in Holding}
Phase(e) ==
    IF e \in raced THEN "raced"
    ELSE IF status[e] = "gone" /\ \E r \in AtWorkOn(e) : pc[r] = "publish" THEN "orphaned"
    ELSE IF status[e] # "processing" THEN status[e]
    ELSE IF AtWorkOn(e) = {} THEN "stranded"
    ELSE IF \E r \in AtWorkOn(e) : pc[r] = "execute" THEN "taken"
    ELSE IF \E r \in AtWorkOn(e) : pc[r] = "publish" THEN "loaded"
    ELSE IF \E r \in AtWorkOn(e) : outcome[r] = "sent" THEN "sent" ELSE "refused"

Protocol == INSTANCE RedriveProtocol WITH phase <- [e \in Entries |-> Phase(e)], messages <- sent

\* Whatever redrivers, crashes, deletions and forced redrives do, an unraced entry
\* goes through one redrive at a time: it is published only between a claim and
\* the record of its outcome, never once it is settled or stranded, for a deleted
\* row only by a redriver that had reloaded it before, and is settled as what really
\* happened to it.
FollowsProtocol == Protocol!Spec

-----------------------------------------------------------------------------
(* The inductive strengthening of SentAtMostOnceUnlessRaced and            *)
(* CompletedWasSent: what a claim means while the claimant is at work.     *)

Holds(r, e) == cur[r] = e /\ pc[r] \in Holding

\* A redriver claims only what its checks have read as redrivable.
ReadWasRedrivable == \A r \in Redrivers : pc[r] = "claim" => seen[r].status \in Redrivable

\* What a redriver remembers about the message it published.
OutcomeIsTrue ==
    \A r \in Redrivers :
       /\ pc[r] = "record" => outcome[r] \in {"sent", "failed"}
       /\ pc[r] = "record" /\ outcome[r] = "sent" => sent[cur[r]] >= 1

\* An unraced entry that may be taken is held by nobody and was never published.
FreeIsUnsent ==
    \A e \in Entries \ raced :
       status[e] \in Redrivable \union {"none"}
          => sent[e] = 0 /\ \A r \in Redrivers : ~Holds(r, e)

\* An unraced entry has one holder, which alone decides how often it is sent.
HolderIsUnique ==
    \A e \in Entries \ raced : \A r, q \in Redrivers : Holds(r, e) /\ Holds(q, e) => r = q

HeldIsProcessing ==
    \A e \in Entries \ raced : \A r \in Redrivers :
       Holds(r, e) =>
          /\ status[e] \in {"processing", "gone"}
          /\ pc[r] \in {"execute", "publish"} \/ outcome[r] = "failed" => sent[e] = 0

IInv ==
    /\ ReadWasRedrivable /\ OutcomeIsTrue /\ FreeIsUnsent /\ HolderIsUnique /\ HeldIsProcessing
    /\ SentAtMostOnceUnlessRaced /\ CompletedWasSent /\ PermanentFailureIsExhausted
=============================================================================
