----------------------- MODULE InvoiceWorkflow_proofs -----------------------
(***************************************************************************)
(* The safety of a run of the invoice graph, for all scores, thresholds    *)
(* and numbers of errors and attempts.                                     *)
(*                                                                         *)
(* The invariant says what a run knows before each node: nothing before    *)
(* parse, no validation before validate, and a validation that is of the   *)
(* extraction in the state and of no other before triage.                  *)
(***************************************************************************)
EXTENDS InvoiceWorkflow, TLAPS

\* Before triage nothing asks for a review but a validation that failed, and
\* before parse there is nothing to look at.
Known ==
    /\ pc \in {"receive", "parse"} => state.extraction = NoExtraction
    /\ pc \in {"receive", "parse", "patch", "validate"} => state.validation = NoValidation
    /\ pc = "triage" /\ state.validation # NoValidation =>
          /\ state.extraction # NoExtraction
          /\ state.validation.of = state.extraction
    /\ pc # "done" /\ state.validation = NoValidation => ~state.review

\* The records filed so far are named in the state, and receive finds none.
Named ==
    /\ pc # "done" => filed \subseteq state.ids
    /\ pc = "receive" => filed = {}

\* What the state shows has been saved, unless a save of this run failed.
Shown ==
    pc # "done" /\ ~unsaved =>
        /\ state.extraction # NoExtraction => extractions = state.extraction
        /\ state.validation # NoValidation => validations = state.validation

IInv ==
    /\ TypeOK
    /\ Known
    /\ Named
    /\ Shown
    /\ ReadyIsChecked
    /\ OthersAreHeld
    /\ FailuresAreNamed
    /\ ResultIsSaved

USE DEF Steps, Nodes, Statuses

LEMMA InitHolds == Init => IInv
<1> SUFFICES ASSUME Init PROVE IInv
    OBVIOUS
<1> USE WorkflowAssumption DEF Init, Fresh
<1>1. TypeOK
  BY DEF TypeOK, InvoiceState, Extraction, Validation, NoExtraction, NoValidation
<1>2. Known /\ Named /\ Shown
  BY DEF Known, Named, Shown
<1>3. ReadyIsChecked /\ OthersAreHeld /\ FailuresAreNamed /\ ResultIsSaved
  BY DEF ReadyIsChecked, OthersAreHeld, FailuresAreNamed, ResultIsSaved
<1> QED BY <1>1, <1>2, <1>3 DEF IInv

\* A step that does not end the run has nothing to show for the properties of
\* finished runs.
LEMMA Unfinished ==
  ASSUME pc' # "done", TypeOK', Known', Named', Shown'
  PROVE  IInv'
BY DEF IInv, ReadyIsChecked, OthersAreHeld, FailuresAreNamed, ResultIsSaved

LEMMA NoExtractionIsNone == NoExtraction \notin Extraction
BY DEF NoExtraction, Extraction

LEMMA ReceiveStep ==
  ASSUME IInv, NEW ok \in BOOLEAN, Receive(ok)
  PROVE  IInv'
<1> USE DEF IInv, Receive, GoOn, rows
<1>1. TypeOK'
  BY DEF TypeOK, InvoiceState
<1>2. Known'
  BY DEF Known, TypeOK, InvoiceState
<1>3. Named'
  BY DEF Known, Named, TypeOK, InvoiceState
<1>4. Shown'
  BY DEF Shown, Known, TypeOK, InvoiceState
<1> QED BY <1>1, <1>2, <1>3, <1>4, Unfinished

LEMMA FailedStep ==
  ASSUME IInv, NEW node \in {"parse", "patch", "validate"}, NEW named \in BOOLEAN,
         pc = node, pc' \in {"patch", "validate", "triage"}, UNCHANGED attempt,
         pc' # "triage" <=> node # "validate",
         Failed(node, named)
  PROVE  IInv'
<1> USE DEF IInv, Failed, rows
<1>1. TypeOK'
  BY DEF TypeOK, InvoiceState
<1>2. Known'
  BY DEF Known, TypeOK, InvoiceState
<1>3. Named'
  BY DEF Known, Named, TypeOK, InvoiceState
<1>4. Shown'
  BY DEF Shown, Known, TypeOK, InvoiceState
<1> QED BY <1>1, <1>2, <1>3, <1>4, Unfinished

LEMMA ParseStep ==
  ASSUME IInv, NEW form \in {"model", "dict"}, NEW score \in Scores, NEW ok \in BOOLEAN,
         Parse(form, score, ok)
  PROVE  IInv'
<1> DEFINE e == [form |-> form, patched |-> FALSE]
<1> USE DEF IInv, Parse, GoOn, SaveExtraction
<1>0. e \in Extraction
  BY DEF Extraction
<1>1. TypeOK'
  BY <1>0 DEF TypeOK, InvoiceState
<1>2. Known'
  BY DEF Known, TypeOK, InvoiceState
<1>3. Named'
  BY DEF Known, Named, TypeOK, InvoiceState
<1>4. Shown'
  BY DEF Shown, Known, TypeOK, InvoiceState
<1> QED BY <1>1, <1>2, <1>3, <1>4, Unfinished

LEMMA PatchStep ==
  ASSUME IInv, NEW ok \in BOOLEAN, NEW patch \in Patches(state.extraction, state.score),
         Patch(patch, ok)
  PROVE  IInv'
<1> USE DEF IInv, Patch, GoOn, SaveExtraction
<1>0. patch[1] \in Extraction /\ patch[2] \in Scores
  <2>1. [form |-> "dict", patched |-> TRUE] \in Extraction
    BY DEF Extraction
  <2>2. state.extraction \in Extraction /\ state.score \in Scores
    BY DEF TypeOK, InvoiceState, NoExtraction
  <2>3. CASE patch = <<state.extraction, state.score>>
    BY <2>2, <2>3
  <2>4. CASE patch \in {[form |-> "dict", patched |-> TRUE]} \X Scores
    BY <2>1, <2>4
  <2> QED BY <2>3, <2>4 DEF Patches
<1>1. TypeOK'
  BY <1>0 DEF TypeOK, InvoiceState
<1>2. Known'
  BY DEF Known, TypeOK, InvoiceState
<1>3. Named'
  BY DEF Known, Named, TypeOK, InvoiceState
<1>4. Shown'
  BY DEF Shown, Known, TypeOK, InvoiceState
<1> QED BY <1>1, <1>2, <1>3, <1>4, Unfinished

LEMMA PatchSkippedStep ==
  ASSUME IInv, PatchSkipped
  PROVE  IInv'
<1> USE DEF IInv, PatchSkipped, GoOn, rows
<1>1. TypeOK'
  BY DEF TypeOK, InvoiceState
<1>2. Known'
  BY DEF Known, TypeOK, InvoiceState
<1>3. Named'
  BY DEF Known, Named, TypeOK, InvoiceState
<1>4. Shown'
  BY DEF Shown, Known, TypeOK, InvoiceState
<1> QED BY <1>1, <1>2, <1>3, <1>4, Unfinished

LEMMA ValidateStep ==
  ASSUME IInv, NEW ok \in BOOLEAN, NEW found \in Outcomes(state.extraction.form),
         Validate(found, ok)
  PROVE  IInv'
<1> DEFINE v == Checked(found)
<1> USE DEF IInv, Validate, GoOn
<1>0. /\ v \in Validation
      /\ v.of = state.extraction
      /\ state.extraction \in Extraction
  <2>1. state.extraction \in Extraction
    BY DEF TypeOK, InvoiceState
  <2>2. found[1] \in Nat /\ found[2] \in Nat
    BY WorkflowAssumption DEF Outcomes
  <2> QED BY <2>1, <2>2 DEF Checked, Validation
<1>a. v.errors \in Nat
  BY <1>0 DEF Validation
<1> HIDE DEF v
<1>1. TypeOK'
  <2>1. (v.errors > 0) \in BOOLEAN
    OBVIOUS
  <2>2. (IF v.errors = 0 THEN "processing" ELSE "exception") \in Statuses
    OBVIOUS
  <2>3. state' = Judged(v) /\ validations' \in {v, validations}
    BY DEF v
  <2>4. Judged(v) \in InvoiceState
    BY <1>0, <2>1, <2>2 DEF TypeOK, InvoiceState, Judged
  <2>5. unsaved' \in BOOLEAN
    OBVIOUS
  <2> QED BY <1>0, <2>3, <2>4, <2>5 DEF TypeOK
<1>2. Known'
  <2>1. state'.extraction = state.extraction /\ state'.validation = v
    BY DEF Judged, v, TypeOK, InvoiceState
  <2>2. v # NoValidation
    BY <1>0, NoExtractionIsNone DEF NoValidation
  <2> QED BY <1>0, <2>1, <2>2 DEF Known
<1>3. Named'
  BY DEF Known, Named, Judged, TypeOK, InvoiceState
<1>4. Shown'
  BY DEF Shown, Known, Judged, v, TypeOK, InvoiceState
<1> QED BY <1>1, <1>2, <1>3, <1>4, Unfinished

\* What triage makes of a validation of the state's extraction.
LEMMA TriageOutcome ==
  ASSUME NEW v \in Validation, NEW score \in Scores
  PROVE  LET d == Decision(v, score) IN
         \/ /\ TriageStatus(d) = "ready"
            /\ ~NeedsReview(d)
            /\ v.errors = 0
            /\ score >= Threshold \/ score >= 90
         \/ TriageStatus(d) = "exception" /\ NeedsReview(d)
<1> USE WorkflowAssumption DEF Decision, TriageStatus, NeedsReview, Validation
<1>1. CASE v.errors = 0
  BY <1>1
<1>2. CASE v.errors # 0
  <2>1. ~AutoResolvable(v)
    BY <1>2 DEF AutoResolvable
  <2> QED BY <1>2, <2>1
<1> QED BY <1>1, <1>2

LEMMA TriageStep ==
  ASSUME IInv, Triage
  PROVE  IInv'
<1> DEFINE s == Triaged(state)
           d == Decision(state.validation, state.score)
<1> USE DEF IInv, Triage, GoOn, rows
<1>0. /\ state.validation \in Validation
      /\ state.score \in Scores
      /\ state.extraction # NoExtraction
      /\ state.validation.of = state.extraction
  BY DEF TypeOK, InvoiceState, Known
<1>1. /\ s.status = TriageStatus(d)
      /\ s.review = NeedsReview(d)
      /\ s.extraction = state.extraction
      /\ s.validation = state.validation
      /\ s.score = state.score
      /\ s.ids = state.ids
  BY DEF Triaged, TypeOK, InvoiceState
<1>2. \/ /\ s.status = "ready"
         /\ ~s.review
         /\ state.validation.errors = 0
         /\ state.score >= Threshold \/ state.score >= 90
      \/ s.status = "exception" /\ s.review
  BY <1>0, <1>1, TriageOutcome
<1>3. TriageRouting(s) \in Edges
  BY <1>2 DEF TriageRouting, Edges
<1>4. state' = s
  BY <1>3 DEF Result
<1>5. TypeOK'
  <2>1. s \in InvoiceState
    <3>1. NeedsReview(d) \in BOOLEAN
      BY DEF NeedsReview
    <3>2. TriageStatus(d) \in Statuses
      BY <1>1, <1>2
    <3> QED BY <3>1, <3>2 DEF Triaged, TypeOK, InvoiceState
  <2> QED BY <1>4, <2>1 DEF TypeOK
<1> HIDE DEF s, d
<1>6. Known' /\ Named' /\ Shown'
  BY DEF Known, Named, Shown
<1>7. ReadyIsChecked' /\ OthersAreHeld'
  BY <1>0, <1>1, <1>2, <1>4 DEF ReadyIsChecked, OthersAreHeld
<1>8. FailuresAreNamed' /\ ResultIsSaved'
  BY <1>0, <1>1, <1>4 DEF FailuresAreNamed, ResultIsSaved, Named, Shown
<1> QED BY <1>5, <1>6, <1>7, <1>8

LEMMA TriageFailsStep ==
  ASSUME IInv, NEW named \in BOOLEAN, TriageFails(named)
  PROVE  IInv'
<1> DEFINE new == IF named THEN {"triage"} ELSE {}
           s == [state EXCEPT !.status = "error", !.ids = @ \union new]
<1> USE DEF IInv, TriageFails, GoOn, rows
<1>1. s.status = "error" /\ ~s.review
  BY DEF TypeOK, InvoiceState, Known
<1>2. TriageRouting(s) \notin Edges
  BY <1>1 DEF TriageRouting, Edges
<1>3. state' = [Fresh EXCEPT !.status = "workflow_failed"]
  BY <1>2 DEF Result
<1>4. TypeOK'
  <2>1. [Fresh EXCEPT !.status = "workflow_failed"] \in InvoiceState
    BY WorkflowAssumption DEF InvoiceState, Fresh
  <2>2. filed' \in SUBSET Nodes
    BY DEF TypeOK
  <2> QED BY <1>3, <2>1, <2>2 DEF TypeOK
<1>5. Known' /\ Named' /\ Shown'
  BY DEF Known, Named, Shown
<1>6. state'.status = "workflow_failed"
  BY <1>3 DEF Fresh
<1>7. ReadyIsChecked' /\ OthersAreHeld' /\ FailuresAreNamed' /\ ResultIsSaved'
  BY <1>6 DEF ReadyIsChecked, OthersAreHeld, FailuresAreNamed, ResultIsSaved
<1> QED BY <1>4, <1>5, <1>7

LEMMA AgainStep ==
  ASSUME IInv, Again
  PROVE  IInv'
<1> USE DEF IInv, Again
<1>1. TypeOK'
  <2>1. Fresh \in InvoiceState
    BY WorkflowAssumption DEF InvoiceState, Fresh
  <2>2. attempt' \in Nat
    BY DEF TypeOK
  <2>3. filed' \in SUBSET Nodes /\ pc' \in Steps /\ unsaved' \in BOOLEAN
    OBVIOUS
  <2> QED BY <2>1, <2>2, <2>3 DEF TypeOK
<1>2. Known' /\ Named' /\ Shown'
  BY DEF Known, Named, Shown, Fresh
<1> QED BY <1>1, <1>2, Unfinished

LEMMA NextHolds == IInv /\ [Next]_vars => IInv'
<1> SUFFICES ASSUME IInv, [Next]_vars PROVE IInv'
    OBVIOUS
<1>1. CASE \E ok \in BOOLEAN : Receive(ok)
  BY <1>1, ReceiveStep
<1>2. CASE \E form \in {"model", "dict"}, score \in Scores, ok \in BOOLEAN :
             Parse(form, score, ok)
  BY <1>2, ParseStep
<1>3. CASE \E named \in BOOLEAN : ParseFails(named)
  BY <1>3, FailedStep DEF ParseFails, GoOn
<1>4. CASE \E ok \in BOOLEAN, patch \in Patches(state.extraction, state.score) :
             Patch(patch, ok)
  BY <1>4, PatchStep
<1>5. CASE PatchSkipped
  BY <1>5, PatchSkippedStep
<1>6. CASE \E named \in BOOLEAN : PatchFails(named)
  BY <1>6, FailedStep DEF PatchFails, GoOn
<1>7. CASE \E found \in Outcomes(state.extraction.form), ok \in BOOLEAN :
             Validate(found, ok)
  BY <1>7, ValidateStep
<1>8. CASE \E named \in BOOLEAN : ValidateFails(named)
  BY <1>8, FailedStep DEF ValidateFails, GoOn
<1>9. CASE Triage
  BY <1>9, TriageStep
<1>10. CASE \E named \in BOOLEAN : TriageFails(named)
  BY <1>10, TriageFailsStep
<1>11. CASE Again
  BY <1>11, AgainStep
<1>12. CASE UNCHANGED vars
  BY <1>12 DEF vars, IInv, TypeOK, Known, Named, Shown, ReadyIsChecked, OthersAreHeld,
               FailuresAreNamed, ResultIsSaved
<1> QED BY <1>1, <1>2, <1>3, <1>4, <1>5, <1>6, <1>7, <1>8, <1>9, <1>10, <1>11, <1>12
        DEF Next, Run

\* The invariant holds in every state a run can reach.
THEOREM Invariance == Spec => []IInv
BY InitHolds, NextHolds, PTL DEF Spec

\* The state of the run, its rows and its ghosts keep their types.
THEOREM TypeCorrect == Spec => []TypeOK
<1>1. IInv => TypeOK
  BY DEF IInv
<1> QED BY <1>1, Invariance, PTL

\* A run ends "ready" only with an extraction that was validated without error
\* and scores high enough, whatever failed and was passed over.
THEOREM ReadyChecked == Spec => []ReadyIsChecked
<1>1. IInv => ReadyIsChecked
  BY DEF IInv
<1> QED BY <1>1, Invariance, PTL

\* Every other run is held for a person or has failed as a whole.
THEOREM OthersHeld == Spec => []OthersAreHeld
<1>1. IInv => OthersAreHeld
  BY DEF IInv
<1> QED BY <1>1, Invariance, PTL

\* A node's failure whose record was filed is named in the result.
THEOREM FailuresNamed == Spec => []FailuresAreNamed
<1>1. IInv => FailuresAreNamed
  BY DEF IInv
<1> QED BY <1>1, Invariance, PTL

\* The newest rows are what the result of a run shows, if its saves went through.
THEOREM ResultSaved == Spec => []ResultIsSaved
<1>1. IInv => ResultIsSaved
  BY DEF IInv
<1> QED BY <1>1, Invariance, PTL

=============================================================================
