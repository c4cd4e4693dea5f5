-------------------------- MODULE UploadIdempotency --------------------------
(***************************************************************************)
(* Idempotency keys of the ingestion upload                                *)
(* (app/api/api_v1/endpoints/ingestion.py upload_file,                     *)
(* app/services/idempotency_service.py, app/models/idempotency.py).        *)
(*                                                                         *)
(* A request looks its key up, inserts a record, ingests the file and      *)
(* answers; every database call is a transaction of its own, and a client  *)
(* that got no answer sends another request with the same key.             *)
(*                                                                         *)
(* A record never leaves "pending". mark_operation_started builds its      *)
(* query from IdempotencyRecord.can_execute(), an instance method called   *)
(* on the class: it raises, which is caught, and nothing is written;       *)
(* mark_operation_completed and mark_operation_failed only update records  *)
(* that are in progress, so they match none.                               *)
(***************************************************************************)
EXTENDS Naturals

CONSTANTS
    Requests,  \* upload requests, the repeated ones included
    Keys,      \* idempotency keys: same file, vendor and user give the same key
    MaxFaults  \* bound: API processes killed and lookups that fail

ASSUME IdempotencyAssumption == MaxFaults \in Nat

VARIABLES
    record,    \* operation_status of the key's record, "none" if there is no record
    key,       \* the key of each request
    pc,        \* what each request does next
    answer,    \* the answer it got: 409, 500, or none yet or ever
    ingested,  \* how many times the key's file was stored as an ingestion job
    faults

vars == <<record, key, pc, answer, ingested, faults>>

TypeOK ==
    /\ record \in [Keys -> {"none", "pending"}]
    /\ key \in [Requests -> Keys]
    /\ pc \in [Requests -> {"check", "insert", "ingest", "respond", "done"}]
    /\ answer \in [Requests -> {"none", "conflict", "error"}]
    /\ ingested \in [Keys -> Nat]
    /\ faults \in Nat

Init ==
    /\ record = [k \in Keys |-> "none"]
    /\ key \in [Requests -> Keys]
    /\ pc = [r \in Requests |-> "check"]
    /\ answer = [r \in Requests |-> "none"]
    /\ ingested = [k \in Keys |-> 0]
    /\ faults = 0

Answer(r, a) ==
    /\ pc' = [pc EXCEPT ![r] = "done"]
    /\ answer' = [answer EXCEPT ![r] = a]

\* check_and_create_idempotency_record: a record that is neither completed, in
\* progress nor failed is a conflict. The endpoint answers a ConflictException
\* like any other unexpected error.
Conflict(r) ==
    /\ pc[r] = "check"
    /\ record[key[r]] # "none"
    /\ Answer(r, "conflict")
    /\ UNCHANGED <<record, key, ingested, faults>>

NotFound(r) ==
    /\ pc[r] = "check"
    /\ record[key[r]] = "none"
    /\ pc' = [pc EXCEPT ![r] = "insert"]
    /\ UNCHANGED <<record, key, answer, ingested, faults>>

\* _get_idempotency_record swallows the error of a failed lookup: no record.
LookupFails(r) ==
    /\ pc[r] = "check"
    /\ faults < MaxFaults
    /\ faults' = faults + 1
    /\ pc' = [pc EXCEPT ![r] = "insert"]
    /\ UNCHANGED <<record, key, answer, ingested>>

InsertAs(r, status) ==
    /\ pc[r] = "insert"
    /\ record' = [record EXCEPT ![key[r]] = status]
    /\ pc' = [pc EXCEPT ![r] = "ingest"]
    /\ UNCHANGED <<key, answer, ingested, faults>>

\* Mutants: the key is not unique; a record starts in progress.
InsertTwice(r) == InsertAs(r, "pending")
InsertInProgress(r) == record[key[r]] = "none" /\ InsertAs(r, "in_progress")

\* idempotency_key is unique: the slower of two inserts fails, and its request.
Insert(r) ==
    /\ pc[r] = "insert"
    /\ IF record[key[r]] = "none"
       THEN /\ record' = [record EXCEPT ![key[r]] = "pending"]
            /\ pc' = [pc EXCEPT ![r] = "ingest"]
            /\ answer' = answer
       ELSE /\ Answer(r, "error")
            /\ record' = record
    /\ UNCHANGED <<key, ingested, faults>>

\* ingest_file: every call stores the file under a new job; it compares the file
\* with no earlier job (_check_existing_ingestion finds none), or it fails.
Ingest(r, stored) ==
    /\ pc[r] = "ingest"
    /\ ingested' = IF stored THEN [ingested EXCEPT ![key[r]] = @ + 1] ELSE ingested
    /\ pc' = [pc EXCEPT ![r] = "respond"]
    /\ UNCHANGED <<record, key, answer, faults>>

\* The response model requires updated_at and source_type, which the endpoint
\* does not give: also a stored file is answered with an error.
Respond(r) ==
    /\ pc[r] = "respond"
    /\ Answer(r, "error")
    /\ UNCHANGED <<record, key, ingested, faults>>

\* The process is killed or the connection lost: the client gets no answer.
Crash(r) ==
    /\ pc[r] # "done"
    /\ faults < MaxFaults
    /\ faults' = faults + 1
    /\ pc' = [pc EXCEPT ![r] = "done"]
    /\ UNCHANGED <<record, key, answer, ingested>>

Step(r) ==
    \/ Conflict(r) \/ NotFound(r) \/ LookupFails(r) \/ Insert(r)
    \/ \E stored \in BOOLEAN : Ingest(r, stored)
    \/ Respond(r)

Next == \E r \in Requests : Step(r) \/ Crash(r)

Spec == Init /\ [][Next]_vars

\* A request the server has begun to work on runs to its end.
FairSpec == Spec /\ \A r \in Requests : WF_vars(pc[r] # "check" /\ Step(r))

-----------------------------------------------------------------------------
(* Properties                                                              *)

\* A key's file is ingested at most once, whatever is repeated, raced, lost or
\* not found by a failed lookup: this is what the endpoint uses the keys for.
IngestedAtMostOnce == \A k \in Keys : ingested[k] <= 1

Working(k) == \E r \in Requests : key[r] = k /\ pc[r] \in {"insert", "ingest", "respond"}

\* docs/idempotency_staging_implementation.md says of the endpoint that it
\* "Returns existing results for duplicate requests": a repeated request is
\* refused only while an earlier one is being worked on, or if that one failed.
RepeatGetsResult ==
    [][\A r \in Requests :
          answer[r] = "none" /\ answer'[r] = "conflict" /\ ~Working(key[r])
             => ingested[key[r]] = 0]_vars

-----------------------------------------------------------------------------
(* The strengthening of IngestedAtMostOnce                                 *)

\* Only the request that inserted the record may ingest, and it has not yet.
OneIngester ==
    /\ \A r \in Requests : pc[r] = "ingest" => record[key[r]] = "pending" /\ ingested[key[r]] = 0
    /\ \A r, q \in Requests : pc[r] = "ingest" /\ pc[q] = "ingest" /\ key[r] = key[q] => r = q
    /\ \A k \in Keys : record[k] = "none" => ingested[k] = 0
    /\ IngestedAtMostOnce
=============================================================================
