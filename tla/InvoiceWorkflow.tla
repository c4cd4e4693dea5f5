-------------------------- MODULE InvoiceWorkflow --------------------------
(***************************************************************************)
(* The graph a processing task runs over an invoice                        *)
(* (app/workflows/invoice_processor.py): receive, parse, patch, validate   *)
(* and triage, each a node that turns an error into a status of the run's  *)
(* state and lets the next node go on from there.                          *)
(*                                                                         *)
(* The graph is compiled to stop after triage and resume_workflow raises   *)
(* on every call (it hands the checkpointer a string), so the nodes behind *)
(* triage never run. What a run leaves in the database are the rows of its *)
(* extractions and its validation, whose failures are only logged. A run   *)
(* that is lost or whose task is retried starts again from nothing, with a *)
(* state of its own and the rows of its predecessors.                      *)
(*                                                                         *)
(* Not here: the wording of errors, the history, the timings, current_step,*)
(* the tracing (off without its keys) and the updates of the row's status, *)
(* which name an unimported select and are swallowed.                      *)
(***************************************************************************)
EXTENDS Integers

CONSTANTS
    Scores,      \* confidence scores, in percent
    Threshold,   \* DOCLING_CONFIDENCE_THRESHOLD, in percent
    MaxErrors,   \* bound: errors one validation reports
    MaxAttempts  \* bound: runs over the invoice

ASSUME WorkflowAssumption ==
    /\ Scores \subseteq Int
    /\ 0 \in Scores
    /\ Threshold \in Int
    /\ MaxErrors \in Nat
    /\ MaxAttempts \in Nat

\* What Docling returns is a model; the nodes also take the dicts of old.
Extraction == [form : {"model", "dict"}, patched : BOOLEAN]
NoExtraction == [form |-> "none", patched |-> FALSE]

Validation == [of : Extraction, errors : Nat, warnings : Nat]
NoValidation == [of |-> NoExtraction, errors |-> 0, warnings |-> 0]

Nodes == {"receive", "parse", "patch", "validate", "triage"}
Steps == Nodes \union {"done"}
Statuses == {"processing", "error", "exception", "ready", "workflow_failed"}

InvoiceState ==
    [status : Statuses, extraction : Extraction \union {NoExtraction}, score : Scores,
     validation : Validation \union {NoValidation}, review : BOOLEAN, ids : SUBSET Nodes]

Fresh ==
    [status |-> "processing", extraction |-> NoExtraction, score |-> 0,
     validation |-> NoValidation, review |-> FALSE, ids |-> {}]

VARIABLES
    pc,          \* the node that runs next, "done" when the graph has stopped
    attempt,     \* runs started
    state,       \* the InvoiceState of the run, at the end its result
    extractions, \* the newest row of the invoice's extractions
    validations, \* the newest row of its validations
    unsaved,     \* ghost: a row of this run could not be saved
    filed        \* ghost: nodes whose failure has an exception record with an id

vars == <<pc, attempt, state, extractions, validations, unsaved, filed>>
rows == <<extractions, validations, unsaved>>

Init ==
    /\ pc = "receive"
    /\ attempt = 1
    /\ state = Fresh
    /\ extractions = NoExtraction
    /\ validations = NoValidation
    /\ unsaved = FALSE
    /\ filed = {}

-----------------------------------------------------------------------------
(* The nodes                                                               *)

GoOn(from, to) == pc = from /\ pc' = to /\ UNCHANGED attempt

\* The except branch of a node: the exception service may or may not answer
\* with the record it filed.
Failed(node, named) ==
    LET new == IF named THEN {node} ELSE {} IN
    /\ state' = [state EXCEPT !.status = "error", !.ids = @ \union new]
    /\ filed' = filed \union new
    /\ UNCHANGED rows

\* The file is there, readable and small enough, and no invoice has its id and
\* hash; the graph goes on to parse either way.
Receive(ok) ==
    /\ GoOn("receive", "parse")
    /\ state' = IF ok THEN [state EXCEPT !.status = "processing", !.review = FALSE, !.ids = {}]
                ELSE [state EXCEPT !.status = "error"]
    /\ UNCHANGED <<rows, filed>>

SaveExtraction(e, ok) ==
    /\ extractions' = IF ok THEN e ELSE extractions
    /\ unsaved' = (unsaved \/ ~ok)
    /\ UNCHANGED validations

Parse(form, score, ok) ==
    LET e == [form |-> form, patched |-> FALSE] IN
    /\ GoOn("parse", "patch")
    /\ state' = [state EXCEPT !.status = "processing", !.extraction = e, !.score = score]
    /\ SaveExtraction(e, ok)
    /\ UNCHANGED filed

\* The file cannot be read: private to its uploader, moved or gone.
ParseFails(named) ==
    /\ GoOn("parse", "patch")
    /\ Failed("parse", named)

\* patch_low_confidence_fields returns what it was given when it has no client,
\* finds nothing to patch or fails; the model's answer may score anything.
Patches(e, score) ==
    {<<e, score>>} \union ({[form |-> "dict", patched |-> TRUE]} \X Scores)

\* Mutant: the patched fields are saved and not put in the state.
PatchNotKept(patch, ok) ==
    /\ GoOn("patch", "validate")
    /\ state.score < Threshold
    /\ state.extraction.form = "dict"
    /\ patch \in Patches(state.extraction, state.score)
    /\ state' = [state EXCEPT !.status = "processing", !.score = patch[2]]
    /\ SaveExtraction(patch[1], ok)
    /\ UNCHANGED filed

Patch(patch, ok) ==
    /\ GoOn("patch", "validate")
    /\ state.score < Threshold
    /\ state.extraction.form = "dict"
    /\ patch \in Patches(state.extraction, state.score)
    /\ state' = [state EXCEPT !.status = "processing", !.extraction = patch[1],
                              !.score = patch[2]]
    /\ SaveExtraction(patch[1], ok)
    /\ UNCHANGED filed

PatchSkipped ==
    /\ GoOn("patch", "validate")
    /\ state.score >= Threshold
    /\ state' = [state EXCEPT !.status = "processing"]
    /\ UNCHANGED <<rows, filed>>

\* No "header" in what there is to patch: always so in a model and after a failed
\* parse, which left nothing, and possible in a dict and in the model's answer.
PatchFails(named) ==
    /\ GoOn("patch", "validate")
    /\ state.score < Threshold
    /\ Failed("patch", named)

\* validate_invoice asks a model for .get and reports the error as its one issue.
Outcomes(form) ==
    IF form = "dict" THEN (0..MaxErrors) \X (0..1) ELSE {<<1, 0>>}

\* Mutant: the newest row is validated, which may be another extraction.
CheckedRow(found) == [of |-> extractions, errors |-> found[1], warnings |-> found[2]]

Checked(found) == [of |-> state.extraction, errors |-> found[1], warnings |-> found[2]]

\* Mutant: the ids of earlier failures are dropped.
JudgedAnew(v) ==
    [state EXCEPT !.status = IF v.errors = 0 THEN "processing" ELSE "exception",
                  !.validation = v, !.review = v.errors > 0, !.ids = {}]

Judged(v) ==
    [state EXCEPT !.status = IF v.errors = 0 THEN "processing" ELSE "exception",
                  !.validation = v, !.review = v.errors > 0]

Validate(found, ok) ==
    /\ GoOn("validate", "triage")
    /\ state.extraction # NoExtraction
    /\ found \in Outcomes(state.extraction.form)
    /\ state' = Judged(Checked(found))
    /\ validations' = IF ok THEN Checked(found) ELSE validations
    /\ unsaved' = (unsaved \/ ~ok)
    /\ UNCHANGED <<extractions, filed>>

ValidateFails(named) ==
    /\ GoOn("validate", "triage")
    /\ state.extraction = NoExtraction
    /\ Failed("validate", named)

-----------------------------------------------------------------------------
(* Triage, routing and the end of the run                                  *)

\* Mutant: the issues without the key count as resolvable.
AutoResolvableByDefault(v) == TRUE

\* No issue carries auto_resolution_possible, so all() holds of no issues only.
AutoResolvable(v) == v.errors + v.warnings = 0

Decision(v, score) ==
    IF v.errors = 0 /\ score >= 90 THEN "auto_approve"
    ELSE IF v.errors = 0 /\ score >= Threshold THEN "conditional_approve"
    ELSE IF v.errors \in 1..3 /\ score >= 70 /\ AutoResolvable(v) THEN "auto_resolve"
    ELSE IF v.errors > 0 /\ score >= Threshold THEN "high_priority_review"
    ELSE "low_confidence_review"

\* The critical and the policy issues change nothing: an issue's severity is
\* "error" and never "ERROR", and it has no category.
NeedsReview(d) == d \in {"high_priority_review", "low_confidence_review"}

TriageStatus(d) ==
    CASE d \in {"auto_approve", "conditional_approve"} -> "ready"
      [] d = "auto_resolve" -> "processing"
      [] OTHER -> "exception"

Edges == {"stage_export", "human_review", "error", "escalate", "retry"}

TriageRouting(s) ==
    CASE s.status = "ready" /\ ~s.review -> "stage_export"
      [] s.review -> "human_review"
      [] s.status = "error" /\ ~s.review -> "error_handler"
      [] s.status = "processing" /\ ~s.review -> "retry"
      [] OTHER -> "human_review"

\* The graph stops here with this state; a route that is no edge raises in
\* ainvoke, and process_invoice returns the state the run began with.
Result(s) ==
    IF TriageRouting(s) \in Edges THEN s ELSE [Fresh EXCEPT !.status = "workflow_failed"]

Triaged(s) ==
    LET d == Decision(s.validation, s.score) IN
    [s EXCEPT !.status = TriageStatus(d), !.review = NeedsReview(d)]

Triage ==
    /\ GoOn("triage", "done")
    /\ state.validation # NoValidation
    /\ state' = Result(Triaged(state))
    /\ UNCHANGED <<rows, filed>>

\* There is no validation to look into: triage_failed, and its route is no edge.
TriageFails(named) ==
    LET new == IF named THEN {"triage"} ELSE {} IN
    /\ GoOn("triage", "done")
    /\ state.validation = NoValidation
    /\ state' = Result([state EXCEPT !.status = "error", !.ids = @ \union new])
    /\ filed' = filed \union new
    /\ UNCHANGED rows

\* The task fails after every run and is retried, or its worker is lost and the
\* message delivered again.
Again ==
    /\ attempt < MaxAttempts
    /\ attempt' = attempt + 1
    /\ pc' = "receive"
    /\ state' = Fresh
    /\ unsaved' = FALSE
    /\ filed' = {}
    /\ UNCHANGED <<extractions, validations>>

-----------------------------------------------------------------------------
Run ==
    \/ \E ok \in BOOLEAN : Receive(ok)
    \/ \E form \in {"model", "dict"}, score \in Scores, ok \in BOOLEAN : Parse(form, score, ok)
    \/ \E named \in BOOLEAN : ParseFails(named)
    \/ \E ok \in BOOLEAN, patch \in Patches(state.extraction, state.score) : Patch(patch, ok)
    \/ PatchSkipped
    \/ \E named \in BOOLEAN : PatchFails(named)
    \/ \E found \in Outcomes(state.extraction.form), ok \in BOOLEAN : Validate(found, ok)
    \/ \E named \in BOOLEAN : ValidateFails(named)
    \/ Triage
    \/ \E named \in BOOLEAN : TriageFails(named)

Next == Run \/ Again

Spec == Init /\ [][Next]_vars

-----------------------------------------------------------------------------
(* Properties                                                              *)

TypeOK ==
    /\ pc \in Steps
    /\ attempt \in Nat
    /\ state \in InvoiceState
    /\ extractions \in Extraction \union {NoExtraction}
    /\ validations \in Validation \union {NoValidation}
    /\ unsaved \in BOOLEAN
    /\ filed \in SUBSET Nodes

\* A run that ends "ready" (success for its metrics, and the edge to the export)
\* shows the very extraction its validation looked at, which found no error, with
\* enough confidence, whatever node failed on the way and was passed over.
ReadyIsChecked ==
    pc = "done" /\ state.status = "ready" =>
        /\ state.extraction # NoExtraction
        /\ state.validation.of = state.extraction
        /\ state.validation.errors = 0
        /\ state.score >= Threshold \/ state.score >= 90
        /\ ~state.review

\* Every other run is held for a person or has failed as a whole: none ends as
\* "processing" or "error", which nobody looks at and no later node takes up.
OthersAreHeld ==
    pc = "done" /\ state.status # "ready" =>
        \/ state.status = "exception" /\ state.review
        \/ state.status = "workflow_failed"

\* The exception record of a node that failed is named in the result, though the
\* later nodes clear the error itself; a run that failed as a whole names none.
FailuresAreNamed ==
    pc = "done" /\ state.status # "workflow_failed" => filed \subseteq state.ids

\* Exports and reviews read the newest rows: when no save of the run failed they
\* are what its result shows, not the fields before the patch or of an older run.
ResultIsSaved ==
    pc = "done" /\ ~unsaved /\ state.status # "workflow_failed" =>
        /\ extractions = state.extraction
        /\ validations = state.validation
=============================================================================
