---------------------- MODULE IntegrationFactory_proofs ----------------------
(***************************************************************************)
(* Proofs about the provider factory for any number of providers, requests *)
(* and health checks, and any threshold.                                   *)
(***************************************************************************)
EXTENDS IntegrationFactory, FiniteSetTheorems, TLAPS

\* The list a request works through: what was offered to it has answered no, is
\* being asked, or is still to come.
ListIsWorkedThrough ==
    \A r \in Requests :
        /\ pc[r] = "idle" => cur[r] = None /\ answer[r] = "none" /\ rest[r] = {}
        /\ pc[r] # "done" => answer[r] # "refused"
        /\ pc[r] \in {"probe", "execute"} => cur[r] # None
        /\ pc[r] = "probe" =>
               /\ primary[r] \notin rest[r]
               /\ offered[r] \subseteq tried[r] \union {cur[r]} \union
                      (IF cur[r] = primary[r] THEN {} ELSE rest[r])
        /\ answer[r] = "refused" /\ cur[r] # None => offered[r] \subseteq tried[r]

IInv == BreakerCountsFailures /\ ListIsWorkedThrough

\* A recorded failure keeps the type of a breaker and its count in step with its state.
LEMMA FailureRecorded ==
  ASSUME NEW b \in Breakers, b.state = "CLOSED" <=> b.failures < Threshold
  PROVE  /\ AfterFailure(b) \in Breakers
         /\ AfterFailure(b).state = "CLOSED" <=> AfterFailure(b).failures < Threshold
  <1> USE FactoryAssumption
  <1>1. b.state \in States /\ b.failures \in Nat /\ b.due \in BOOLEAN
    BY DEF Breakers
  <1>2. CASE b.failures + 1 >= Threshold /\ b.state # "OPEN"
    <2>1. AfterFailure(b) = [state |-> "OPEN", failures |-> b.failures + 1, due |-> FALSE]
      BY <1>2 DEF AfterFailure
    <2> QED
      BY <1>1, <1>2, <2>1 DEF States, Breakers
  <1>3. CASE ~(b.failures + 1 >= Threshold /\ b.state # "OPEN")
    <2>1. AfterFailure(b) = [b EXCEPT !.failures = @ + 1]
      BY <1>3 DEF AfterFailure
    <2>2. AfterFailure(b).state = b.state /\ AfterFailure(b).failures = b.failures + 1
      BY <2>1 DEF Breakers
    <2>3. AfterFailure(b) \in Breakers
      BY <1>1, <2>1 DEF Breakers
    <2>4. b.failures + 1 < Threshold \/ b.state = "OPEN"
      BY <1>1, <1>3
    <2>5. CASE b.state = "OPEN"
      BY <1>1, <2>2, <2>3, <2>5
    <2>6. CASE b.failures + 1 < Threshold
      BY <1>1, <2>2, <2>3, <2>6
    <2> QED
      BY <2>4, <2>5, <2>6
  <1> QED
    BY <1>2, <1>3

\* A field of a breaker set keeps its type.
LEMMA BreakerChanged ==
  ASSUME NEW b \in Breakers
  PROVE  /\ [b EXCEPT !.due = TRUE] \in Breakers
         /\ [b EXCEPT !.state = IF @ = "OPEN" THEN "HALF_OPEN" ELSE @] \in Breakers
         /\ [b EXCEPT !.state = "CLOSED", !.failures = 0] \in Breakers
  <1>1. [b EXCEPT !.due = TRUE] \in Breakers
    BY DEF Breakers
  <1>2. [b EXCEPT !.state = IF @ = "OPEN" THEN "HALF_OPEN" ELSE @] \in Breakers
    BY DEF Breakers, States
  <1>3. [b EXCEPT !.state = "CLOSED", !.failures = 0] \in Breakers
    BY DEF Breakers, States
  <1> QED
    BY <1>1, <1>2, <1>3

\* A recorded success does, too.
LEMMA SuccessRecorded ==
  ASSUME NEW b \in Breakers, b.state = "CLOSED" <=> b.failures < Threshold
  PROVE  /\ AfterSuccess(b) \in Breakers
         /\ AfterSuccess(b).state = "CLOSED" <=> AfterSuccess(b).failures < Threshold
  <1>1. CASE b.state = "HALF_OPEN"
    <2>1. AfterSuccess(b) = [b EXCEPT !.state = "CLOSED", !.failures = 0]
      BY <1>1 DEF AfterSuccess
    <2>2. AfterSuccess(b).state = "CLOSED" /\ AfterSuccess(b).failures = 0
      BY <2>1 DEF Breakers
    <2>3. AfterSuccess(b) \in Breakers
      BY <2>1, BreakerChanged
    <2> QED
      BY <2>2, <2>3, FactoryAssumption
  <1>2. CASE b.state # "HALF_OPEN"
    BY <1>2 DEF AfterSuccess
  <1> QED
    BY <1>1, <1>2

\* Counting an execution keeps the type of the metrics.
LEMMA MetricsChanged ==
  ASSUME NEW m \in Metrics
  PROVE  /\ [m EXCEPT !.successes = @ + 1] \in Metrics
         /\ [m EXCEPT !.failures = @ + 1] \in Metrics
         /\ [successes |-> m.successes + 1, failures |-> m.failures + 1] \in Metrics
  <1>1. m.successes \in Nat /\ m.failures \in Nat
    BY DEF Metrics
  <1>2. [m EXCEPT !.successes = @ + 1] \in Metrics
    BY <1>1 DEF Metrics
  <1>3. [m EXCEPT !.failures = @ + 1] \in Metrics
    BY <1>1 DEF Metrics
  <1>4. [successes |-> m.successes + 1, failures |-> m.failures + 1] \in Metrics
    BY <1>1 DEF Metrics
  <1> QED
    BY <1>2, <1>3, <1>4

\* Every step keeps the types.
LEMMA StepTypeOK ==
  ASSUME TypeOK, BreakerCountsFailures, ListIsWorkedThrough, [Next]_vars
  PROVE  TypeOK'
  <1> USE FactoryAssumption
  <1>1. ASSUME NEW r \in Requests, NEW p \in Providers, Begin(r, p) PROVE TypeOK'
    <2>1. offered' \in [Requests -> SUBSET Providers]
      BY <1>1 DEF TypeOK, Begin
    <2> QED
      BY <1>1, <2>1 DEF TypeOK, Begin
  <1>2. ASSUME NEW r \in Requests, NEW p \in Providers, Reject(r, p) PROVE TypeOK'
    BY <1>2 DEF TypeOK, Reject, End, Answers
  <1>3. ASSUME NEW r \in Requests, ProbeUp(r) PROVE TypeOK'
    BY <1>3 DEF TypeOK, ProbeUp
  <1>4. ASSUME NEW r \in Requests, ProbeDown(r) PROVE TypeOK'
    <2>1. cur[r] \in Providers
      BY <1>4 DEF TypeOK, ProbeDown, ListIsWorkedThrough
    <2>2. FallbackList(r) \subseteq Providers /\ Remaining(r) \subseteq Providers
      BY DEF FallbackList, Remaining, TypeOK
    <2>3. tried' \in [Requests -> SUBSET Providers]
      BY <1>4, <2>1 DEF TypeOK, ProbeDown
    <2>4. offered' \in [Requests -> SUBSET Providers]
      BY <1>4, <2>2 DEF TypeOK, ProbeDown
    <2>5. /\ pc' \in [Requests -> {"idle", "probe", "execute", "done"}]
          /\ answer' \in [Requests -> Answers]
      BY <1>4 DEF TypeOK, ProbeDown, End, Answers
    <2>6. cur' \in [Requests -> Providers \union {None}]
      BY <1>4, <2>2 DEF TypeOK, ProbeDown
    <2>7. rest' \in [Requests -> SUBSET Providers]
      BY <1>4, <2>2 DEF TypeOK, ProbeDown
    <2> QED
      BY <1>4, <2>3, <2>4, <2>5, <2>6, <2>7 DEF TypeOK, ProbeDown
  <1>5. ASSUME NEW r \in Requests, Succeed(r) \/ Fail(r) \/ Misread(r) PROVE TypeOK'
    <2>1. cur[r] \in Providers
      BY <1>5 DEF TypeOK, Succeed, Fail, Misread, ListIsWorkedThrough
    <2>2. breaker' \in [Providers -> Breakers]
      <3>1. breaker[cur[r]] \in Breakers
        BY <2>1 DEF TypeOK
      <3>2. /\ AfterFailure(breaker[cur[r]]) \in Breakers
            /\ AfterSuccess(breaker[cur[r]]) \in Breakers
            /\ AfterFailure(AfterSuccess(breaker[cur[r]])) \in Breakers
        BY <2>1, <3>1, FailureRecorded, SuccessRecorded DEF BreakerCountsFailures
      <3>3. \/ breaker' = [breaker EXCEPT ![cur[r]] = AfterFailure(breaker[cur[r]])]
            \/ breaker' = [breaker EXCEPT ![cur[r]] = AfterSuccess(breaker[cur[r]])]
            \/ breaker' = [breaker EXCEPT ![cur[r]] = AfterFailure(AfterSuccess(breaker[cur[r]]))]
        BY <1>5 DEF Succeed, Fail, Misread
      <3> QED
        BY <3>2, <3>3 DEF TypeOK
    <2>3. metrics' \in [Providers -> Metrics]
      <3>1. metrics[cur[r]] \in Metrics
        BY <2>1 DEF TypeOK
      <3>2. /\ [metrics[cur[r]] EXCEPT !.successes = @ + 1] \in Metrics
            /\ [metrics[cur[r]] EXCEPT !.failures = @ + 1] \in Metrics
            /\ [successes |-> metrics[cur[r]].successes + 1,
                 failures |-> metrics[cur[r]].failures + 1] \in Metrics
        BY <3>1, MetricsChanged
      <3>3. CASE Succeed(r)
        <4>1. metrics' = [metrics EXCEPT ![cur[r]] =
                              [metrics[cur[r]] EXCEPT !.successes = @ + 1]]
          BY <3>3 DEF Succeed
        <4> QED
          BY <3>2, <4>1 DEF TypeOK
      <3>4. CASE Fail(r)
        <4>1. metrics' = [metrics EXCEPT ![cur[r]] =
                              [metrics[cur[r]] EXCEPT !.failures = @ + 1]]
          BY <3>4 DEF Fail
        <4> QED
          BY <3>2, <4>1 DEF TypeOK
      <3>5. CASE Misread(r)
        <4>1. metrics' = [metrics EXCEPT ![cur[r]] =
                  [successes |-> metrics[cur[r]].successes + 1,
                   failures |-> metrics[cur[r]].failures + 1]]
          BY <3>5, <2>1 DEF TypeOK, Misread
        <4> QED
          BY <3>2, <4>1 DEF TypeOK
      <3> QED
        BY <1>5, <3>3, <3>4, <3>5
    <2>4. /\ pc' \in [Requests -> {"idle", "probe", "execute", "done"}]
          /\ answer' \in [Requests -> Answers]
      BY <1>5 DEF TypeOK, Succeed, Fail, Misread, End, Answers
    <2> QED
      BY <1>5, <2>2, <2>3, <2>4 DEF TypeOK, Succeed, Fail, Misread
  <1>6. ASSUME NEW p \in Providers, Elapse(p) PROVE TypeOK'
    <2>1. breaker' = [breaker EXCEPT ![p] = [breaker[p] EXCEPT !.due = TRUE]]
      BY <1>6 DEF Elapse
    <2>2. breaker' \in [Providers -> Breakers]
      BY <2>1, BreakerChanged DEF TypeOK
    <2> QED
      BY <1>6, <2>2 DEF TypeOK, Elapse, reqVars
  <1>7. ASSUME NEW p \in Providers, Update(p) PROVE TypeOK'
    BY <1>7 DEF TypeOK, Update, reqVars
  <1>8. ASSUME NEW c \in Checkers, NEW p \in Providers, CheckBegin(c, p) PROVE TypeOK'
    <2>1. breaker' = [breaker EXCEPT ![p] =
              [breaker[p] EXCEPT !.state = IF @ = "OPEN" THEN "HALF_OPEN" ELSE @]]
      BY <1>8 DEF CheckBegin
    <2>2. breaker' \in [Providers -> Breakers]
      BY <2>1, BreakerChanged DEF TypeOK
    <2> QED
      BY <1>8, <2>2 DEF TypeOK, CheckBegin, reqVars
  <1>9. ASSUME NEW c \in Checkers, CheckUp(c) PROVE TypeOK'
    <2>1. checking[c] \in Providers
      BY <1>9 DEF TypeOK, CheckUp
    <2>2. breaker' = [breaker EXCEPT ![checking[c]] =
              [breaker[checking[c]] EXCEPT !.state = "CLOSED", !.failures = 0]]
      BY <1>9, <2>1 DEF TypeOK, CheckUp
    <2>3. breaker' \in [Providers -> Breakers]
      BY <2>1, <2>2, BreakerChanged DEF TypeOK
    <2> QED
      BY <1>9, <2>3 DEF TypeOK, CheckUp, reqVars
  <1>10. ASSUME NEW c \in Checkers, CheckDown(c) PROVE TypeOK'
    BY <1>10 DEF TypeOK, CheckDown, reqVars
  <1>11. CASE UNCHANGED vars
    BY <1>11 DEF TypeOK, vars, reqVars
  <1> QED
    BY <1>1, <1>2, <1>3, <1>4, <1>5, <1>6, <1>7, <1>8, <1>9, <1>10, <1>11
       DEF Next, RequestStep

\* Every step keeps the count of a breaker in step with its state.
LEMMA StepBreaker ==
  ASSUME TypeOK, BreakerCountsFailures, [Next]_vars
  PROVE  BreakerCountsFailures'
  <1> USE FactoryAssumption DEF BreakerCountsFailures
  <1>1. ASSUME NEW r \in Requests, Succeed(r) \/ Fail(r) \/ Misread(r) PROVE BreakerCountsFailures'
    BY <1>1, FailureRecorded, SuccessRecorded DEF TypeOK, Succeed, Fail, Misread
  <1>2. ASSUME NEW p \in Providers, Elapse(p) PROVE BreakerCountsFailures'
    BY <1>2 DEF TypeOK, Breakers, Elapse
  <1>3. ASSUME NEW c \in Checkers, NEW p \in Providers, CheckBegin(c, p)
        PROVE  BreakerCountsFailures'
    BY <1>3 DEF TypeOK, Breakers, CheckBegin, States
  <1>4. ASSUME NEW c \in Checkers, CheckUp(c) PROVE BreakerCountsFailures'
    BY <1>4 DEF TypeOK, Breakers, CheckUp
  <1>5. CASE breaker' = breaker
    BY <1>5
  <1> QED
    BY <1>1, <1>2, <1>3, <1>4, <1>5
       DEF Next, RequestStep, Begin, Reject, ProbeUp, ProbeDown, CheckDown, Update, vars

\* Every step keeps the list of a request worked through in order.
LEMMA StepList ==
  ASSUME TypeOK, ListIsWorkedThrough, [Next]_vars
  PROVE  ListIsWorkedThrough'
  <1> USE FactoryAssumption
  <1>1. ASSUME NEW r \in Requests, NEW p \in Providers, Begin(r, p) \/ Reject(r, p)
        PROVE  ListIsWorkedThrough'
    BY <1>1 DEF TypeOK, ListIsWorkedThrough, Begin, Reject, End
  <1>2. ASSUME NEW r \in Requests, ProbeUp(r) PROVE ListIsWorkedThrough'
    BY <1>2 DEF TypeOK, ListIsWorkedThrough, ProbeUp
  <1>3. ASSUME NEW r \in Requests, ProbeDown(r) PROVE ListIsWorkedThrough'
    <2>1. \A q \in Requests : q # r =>
              /\ pc'[q] = pc[q] /\ cur'[q] = cur[q] /\ answer'[q] = answer[q]
              /\ rest'[q] = rest[q] /\ offered'[q] = offered[q] /\ tried'[q] = tried[q]
              /\ primary'[q] = primary[q]
      BY <1>3 DEF TypeOK, ProbeDown, End
    <2>2. offered'[r] \subseteq tried'[r] \union Remaining(r)
      BY <1>3 DEF TypeOK, ListIsWorkedThrough, ProbeDown, Remaining
    <2>3. primary[r] \notin Remaining(r)
      BY <1>3 DEF ListIsWorkedThrough, ProbeDown, Remaining, FallbackList
    <2>4. CASE Remaining(r) = {}
      BY <1>3, <2>1, <2>2, <2>4 DEF TypeOK, ListIsWorkedThrough, ProbeDown, End
    <2>5. CASE Remaining(r) # {}
      <3>1. PICK p \in Remaining(r) :
                /\ cur' = [cur EXCEPT ![r] = p]
                /\ rest' = [rest EXCEPT ![r] = Remaining(r) \ {p}]
                /\ UNCHANGED <<pc, answer, primary>>
        BY <1>3, <2>5 DEF ProbeDown
      <3>2. p \in Providers
        BY DEF TypeOK, Remaining, FallbackList
      <3>3. /\ pc'[r] = "probe" /\ cur'[r] = p /\ p # None
            /\ primary'[r] # p /\ rest'[r] = Remaining(r) \ {p}
            /\ answer'[r] # "refused"
        BY <1>3, <2>3, <3>1, <3>2 DEF TypeOK, ProbeDown, ListIsWorkedThrough
      <3> QED
        BY <2>1, <2>2, <2>3, <3>1, <3>3 DEF ListIsWorkedThrough
    <2> QED
      BY <2>4, <2>5
  <1>4. ASSUME NEW r \in Requests, Succeed(r) \/ Fail(r) \/ Misread(r) PROVE ListIsWorkedThrough'
    BY <1>4 DEF TypeOK, ListIsWorkedThrough, Succeed, Fail, Misread, End
  <1>5. CASE UNCHANGED reqVars
    BY <1>5 DEF ListIsWorkedThrough, reqVars
  <1> QED
    BY <1>1, <1>2, <1>3, <1>4, <1>5
       DEF Next, RequestStep, Elapse, Update, CheckBegin, CheckUp, CheckDown, vars

\* The three parts of the invariant hold together, in every reachable state.
LEMMA Invariance == Spec => [](TypeOK /\ IInv)
  <1>1. Init => TypeOK /\ IInv
    BY FactoryAssumption
       DEF Init, TypeOK, IInv, BreakerCountsFailures, ListIsWorkedThrough, States, Answers, Breakers, Metrics
  <1>2. TypeOK /\ IInv /\ [Next]_vars => (TypeOK /\ IInv)'
    BY StepTypeOK, StepBreaker, StepList DEF IInv
  <1> QED
    BY <1>1, <1>2, PTL DEF Spec

\* A breaker is closed exactly as long as its count is below the threshold, for any
\* threshold and any interleaving of executions and health checks.
THEOREM BreakerSound == Spec => []BreakerCountsFailures
  <1>1. TypeOK /\ IInv => BreakerCountsFailures
    BY DEF IInv
  <1> QED
    BY <1>1, Invariance, PTL

\* A request is refused only after everything it could fall back to has answered no.
THEOREM AllTried == Spec => []NoProviderLeftUntried
  <1>1. TypeOK /\ IInv => NoProviderLeftUntried
    BY DEF IInv, ListIsWorkedThrough, NoProviderLeftUntried
  <1> QED
    BY <1>1, Invariance, PTL

\* Providers, breakers, requests and checks keep their types.
THEOREM TypeCorrect == Spec => []TypeOK
  <1>1. TypeOK /\ IInv => TypeOK
    OBVIOUS
  <1> QED
    BY <1>1, Invariance, PTL
-----------------------------------------------------------------------------
(* The metrics                                                             *)

\* No request at work has an answer yet.
Unanswered == \A r \in Requests : pc[r] # "done" => answer[r] = "none"

\* The answers that count as successes, and those that count as failures.
Good == {"completed", "misread"}
Bad == {"failed", "misread"}

\* What ExecutionsAreCounted says of one provider.
Counted(p) ==
    /\ metrics[p].successes = Cardinality(AnsweredBy(p, Good))
    /\ metrics[p].failures = Cardinality(AnsweredBy(p, Bad))

LEMMA CountedEach ==
  /\ ExecutionsAreCounted <=> \A p \in Providers : Counted(p)
  /\ ExecutionsAreCounted' <=> \A p \in Providers : Counted(p)'
  BY DEF ExecutionsAreCounted, Counted, Good, Bad

\* A step that gives no request one of a provider's answers leaves both counts.
LEMMA CountsStay ==
  ASSUME ExecutionsAreCounted, metrics' = metrics,
         \A p \in Providers : /\ AnsweredBy(p, Good)' = AnsweredBy(p, Good)
                              /\ AnsweredBy(p, Bad)' = AnsweredBy(p, Bad)
  PROVE  ExecutionsAreCounted'
  BY CountedEach DEF Counted

\* An execution that ends counts as what its answer says.
LEMMA CountsGoUp ==
  ASSUME TypeOK, ExecutionsAreCounted, NEW r \in Requests, NEW p \in Providers, NEW a \in Answers,
         cur[r] = p, cur' = cur, answer[r] = "none", answer' = [answer EXCEPT ![r] = a],
         \A q \in Providers : q # p => metrics'[q] = metrics[q],
         metrics'[p].successes = metrics[p].successes + (IF a \in Good THEN 1 ELSE 0),
         metrics'[p].failures = metrics[p].failures + (IF a \in Bad THEN 1 ELSE 0)
  PROVE  ExecutionsAreCounted'
  <1>0. Good \in SUBSET (Answers \ {"none"}) /\ Bad \in SUBSET (Answers \ {"none"})
    BY DEF Good, Bad, Answers
  <1>1. ASSUME NEW A \in SUBSET (Answers \ {"none"})
        PROVE  /\ a \in A =>
                      Cardinality(AnsweredBy(p, A)') = Cardinality(AnsweredBy(p, A)) + 1
               /\ a \notin A => AnsweredBy(p, A)' = AnsweredBy(p, A)
               /\ \A q \in Providers : q # p => AnsweredBy(q, A)' = AnsweredBy(q, A)
    <2>1. \A q \in Requests : answer'[q] = IF q = r THEN a ELSE answer[q]
      BY DEF TypeOK
    <2>2. r \notin AnsweredBy(p, A)
      BY DEF AnsweredBy
    <2>3. IsFiniteSet(AnsweredBy(p, A))
      <3>1. AnsweredBy(p, A) \in SUBSET Requests
        BY DEF AnsweredBy
      <3> QED
        BY <3>1, FS_Subset, FactoryAssumption
    <2>4. CASE a \in A
      <3>1. AnsweredBy(p, A)' = AnsweredBy(p, A) \union {r}
        BY <2>1, <2>4 DEF AnsweredBy
      <3>2. Cardinality(AnsweredBy(p, A) \union {r}) = Cardinality(AnsweredBy(p, A)) + 1
        BY <2>2, <2>3, FS_AddElement
      <3>3. \A q \in Providers : q # p => AnsweredBy(q, A)' = AnsweredBy(q, A)
        BY <2>1 DEF AnsweredBy
      <3> QED
        BY <2>4, <3>1, <3>2, <3>3
    <2>5. CASE a \notin A
      <3>1. \A q \in Providers : AnsweredBy(q, A)' = AnsweredBy(q, A)
        BY <2>1, <2>5 DEF AnsweredBy
      <3> QED
        BY <2>5, <3>1
    <2> QED
      BY <2>4, <2>5
  <1>2. /\ a \in Good => Cardinality(AnsweredBy(p, Good)') = Cardinality(AnsweredBy(p, Good)) + 1
        /\ a \notin Good => AnsweredBy(p, Good)' = AnsweredBy(p, Good)
        /\ \A q \in Providers : q # p => AnsweredBy(q, Good)' = AnsweredBy(q, Good)
    BY <1>0, <1>1
  <1>3. /\ a \in Bad => Cardinality(AnsweredBy(p, Bad)') = Cardinality(AnsweredBy(p, Bad)) + 1
        /\ a \notin Bad => AnsweredBy(p, Bad)' = AnsweredBy(p, Bad)
        /\ \A q \in Providers : q # p => AnsweredBy(q, Bad)' = AnsweredBy(q, Bad)
    BY <1>0, <1>1
  <1>4. metrics[p].successes \in Nat /\ metrics[p].failures \in Nat
    BY DEF TypeOK, Metrics
  <1>5. Counted(p)'
    BY <1>2, <1>3, <1>4, CountedEach DEF Counted
  <1>6. ASSUME NEW q \in Providers, q # p PROVE Counted(q)'
    BY <1>2, <1>3, <1>6, CountedEach DEF Counted
  <1> QED
    BY <1>5, <1>6, CountedEach

\* Every step keeps the answers and the metrics in step.
LEMMA StepCounted ==
  ASSUME TypeOK, IInv, Unanswered, ExecutionsAreCounted, [Next]_vars
  PROVE  Unanswered' /\ ExecutionsAreCounted'
  <1>1. Unanswered'
    <2>1. ASSUME NEW r \in Requests, NEW p \in Providers, Begin(r, p) \/ Reject(r, p)
          PROVE  Unanswered'
      BY <2>1 DEF TypeOK, Unanswered, Begin, Reject, End
    <2>2. ASSUME NEW r \in Requests, ProbeUp(r) \/ ProbeDown(r) PROVE Unanswered'
      BY <2>2 DEF TypeOK, Unanswered, ProbeUp, ProbeDown, End
    <2>3. ASSUME NEW r \in Requests, Succeed(r) \/ Fail(r) \/ Misread(r) PROVE Unanswered'
      BY <2>3 DEF TypeOK, Unanswered, Succeed, Fail, Misread, End
    <2>4. CASE UNCHANGED <<pc, answer>>
      BY <2>4 DEF Unanswered
    <2> QED
      BY <2>1, <2>2, <2>3, <2>4
         DEF Next, RequestStep, Elapse, Update, CheckBegin, CheckUp, CheckDown, vars, reqVars
  <1>2. ASSUME NEW r \in Requests, NEW p \in Providers, Begin(r, p) \/ Reject(r, p)
        PROVE  ExecutionsAreCounted'
    <2>1. \A q \in Providers : /\ AnsweredBy(q, Good)' = AnsweredBy(q, Good)
                               /\ AnsweredBy(q, Bad)' = AnsweredBy(q, Bad)
      BY <1>2 DEF TypeOK, Unanswered, AnsweredBy, Good, Bad, Begin, Reject, End
    <2> QED
      BY <1>2, <2>1, CountsStay DEF Begin, Reject
  <1>3. ASSUME NEW r \in Requests, ProbeUp(r) \/ ProbeDown(r) PROVE ExecutionsAreCounted'
    <2>1. \A q \in Requests : q # r => cur'[q] = cur[q] /\ answer'[q] = answer[q]
      BY <1>3 DEF TypeOK, ProbeUp, ProbeDown, End
    <2>2. answer[r] = "none" /\ answer'[r] \in {"none", "refused"}
      BY <1>3 DEF TypeOK, Unanswered, ProbeUp, ProbeDown, End
    <2>3. \A q \in Providers : /\ AnsweredBy(q, Good)' = AnsweredBy(q, Good)
                               /\ AnsweredBy(q, Bad)' = AnsweredBy(q, Bad)
      BY <2>1, <2>2 DEF AnsweredBy, Good, Bad
    <2> QED
      BY <1>3, <2>3, CountsStay DEF ProbeUp, ProbeDown
  <1>4. ASSUME NEW r \in Requests, Succeed(r) PROVE ExecutionsAreCounted'
    <2>1. PICK p \in Providers : p = cur[r]
      BY <1>4 DEF TypeOK, IInv, ListIsWorkedThrough, Succeed
    <2>2. /\ cur' = cur /\ answer[r] = "none"
          /\ answer' = [answer EXCEPT ![r] = "completed"]
      BY <1>4 DEF Unanswered, Succeed, End
    <2>3. /\ metrics' = [metrics EXCEPT ![p].successes = @ + 1]
          /\ metrics[p] \in Metrics
      BY <1>4, <2>1 DEF TypeOK, Succeed
    <2>4. /\ \A q \in Providers : q # p => metrics'[q] = metrics[q]
          /\ metrics'[p].successes = metrics[p].successes + 1
          /\ metrics'[p].failures = metrics[p].failures + 0
      BY <2>3 DEF TypeOK, Metrics
    <2>5. "completed" \in Answers /\ "completed" \in Good /\ "completed" \notin Bad
      BY DEF Good, Bad, Answers
    <2> QED
      BY <2>1, <2>2, <2>4, <2>5, CountsGoUp
  <1>5. ASSUME NEW r \in Requests, Fail(r) PROVE ExecutionsAreCounted'
    <2>1. PICK p \in Providers : p = cur[r]
      BY <1>5 DEF TypeOK, IInv, ListIsWorkedThrough, Fail
    <2>2. /\ cur' = cur /\ answer[r] = "none"
          /\ answer' = [answer EXCEPT ![r] = "failed"]
      BY <1>5 DEF Unanswered, Fail, End
    <2>3. /\ metrics' = [metrics EXCEPT ![p].failures = @ + 1]
          /\ metrics[p] \in Metrics
      BY <1>5, <2>1 DEF TypeOK, Fail
    <2>4. /\ \A q \in Providers : q # p => metrics'[q] = metrics[q]
          /\ metrics'[p].successes = metrics[p].successes + 0
          /\ metrics'[p].failures = metrics[p].failures + 1
      BY <2>3 DEF TypeOK, Metrics
    <2>5. "failed" \in Answers /\ "failed" \notin Good /\ "failed" \in Bad
      BY DEF Good, Bad, Answers
    <2> QED
      BY <2>1, <2>2, <2>4, <2>5, CountsGoUp
  <1>7. ASSUME NEW r \in Requests, Misread(r) PROVE ExecutionsAreCounted'
    <2>1. PICK p \in Providers : p = cur[r]
      BY <1>7 DEF TypeOK, IInv, ListIsWorkedThrough, Misread
    <2>2. /\ cur' = cur /\ answer[r] = "none"
          /\ answer' = [answer EXCEPT ![r] = "misread"]
      BY <1>7 DEF Unanswered, Misread, End
    <2>3. /\ metrics' = [metrics EXCEPT ![p] =
                [successes |-> @.successes + 1, failures |-> @.failures + 1]]
          /\ metrics[p] \in Metrics
      BY <1>7, <2>1 DEF TypeOK, Misread
    <2>4. /\ \A q \in Providers : q # p => metrics'[q] = metrics[q]
          /\ metrics'[p].successes = metrics[p].successes + 1
          /\ metrics'[p].failures = metrics[p].failures + 1
      BY <2>3 DEF TypeOK, Metrics
    <2>5. "misread" \in Answers /\ "misread" \in Good /\ "misread" \in Bad
      BY DEF Good, Bad, Answers
    <2> QED
      BY <2>1, <2>2, <2>4, <2>5, CountsGoUp
  <1>6. ASSUME cur' = cur, answer' = answer, metrics' = metrics
        PROVE  ExecutionsAreCounted'
    <2>1. ASSUME NEW p \in Providers PROVE Counted(p)'
      <3>1. /\ AnsweredBy(p, Good)' = AnsweredBy(p, Good)
            /\ AnsweredBy(p, Bad)' = AnsweredBy(p, Bad)
        BY <1>6 DEF AnsweredBy
      <3> QED
        BY <1>6, <3>1, CountedEach DEF Counted
    <2> QED
      BY <2>1, CountedEach
  <1> QED
    BY <1>1, <1>2, <1>3, <1>4, <1>5, <1>6, <1>7
       DEF Next, RequestStep, Elapse, Update, CheckBegin, CheckUp, CheckDown, vars, reqVars

\* The metrics of every provider and the answers of the callers agree, for any number
\* of requests and however executions, probes and health checks interleave: an
\* execution is counted once, or, if its answer could not be built, as both.
THEOREM AllCounted == Spec => []ExecutionsAreCounted
  <1>1. Init => Unanswered /\ ExecutionsAreCounted
    <2> SUFFICES ASSUME Init PROVE Unanswered /\ ExecutionsAreCounted
      OBVIOUS
    <2>1. \A p \in Providers : AnsweredBy(p, Good) = {} /\ AnsweredBy(p, Bad) = {}
      BY DEF Init, AnsweredBy, Good, Bad
    <2>2. \A p \in Providers : Counted(p)
      BY <2>1, FS_EmptySet DEF Init, Counted
    <2> QED
      BY <2>2, CountedEach DEF Init, Unanswered
  <1>2. TypeOK /\ IInv /\ Unanswered /\ ExecutionsAreCounted /\ [Next]_vars
            => (Unanswered /\ ExecutionsAreCounted)'
    BY StepCounted
  <1> QED
    BY <1>1, <1>2, Invariance, PTL DEF Spec

-----------------------------------------------------------------------------
(* Nobody is asked twice                                                   *)

\* What a request has tried, what it is asking and what is still to come are apart.
ListIsApart ==
    \A r \in Requests :
        /\ pc[r] = "idle" => tried[r] = {}
        /\ pc[r] = "probe" /\ cur[r] = primary[r] => tried[r] = {}
        /\ pc[r] = "probe" /\ cur[r] # primary[r] =>
               /\ primary[r] \in tried[r]
               /\ cur[r] \notin rest[r] /\ tried[r] \intersect rest[r] = {}
        /\ pc[r] \in {"probe", "execute"} => cur[r] \notin tried[r]

\* Every step keeps them apart.
LEMMA StepApart ==
  ASSUME TypeOK, ListIsApart, [Next]_vars
  PROVE  ListIsApart'
  <1>1. ASSUME NEW r \in Requests, NEW p \in Providers, Begin(r, p) \/ Reject(r, p)
        PROVE  ListIsApart'
    BY <1>1 DEF TypeOK, ListIsApart, Begin, Reject, End
  <1>2. ASSUME NEW r \in Requests, ProbeUp(r) PROVE ListIsApart'
    BY <1>2 DEF TypeOK, ListIsApart, ProbeUp
  <1>3. ASSUME NEW r \in Requests, ProbeDown(r) PROVE ListIsApart'
    <2>1. \A q \in Requests : q # r =>
              /\ pc'[q] = pc[q] /\ cur'[q] = cur[q] /\ rest'[q] = rest[q]
              /\ tried'[q] = tried[q] /\ primary'[q] = primary[q]
      BY <1>3 DEF TypeOK, ProbeDown, End
    <2>2. tried'[r] = tried[r] \union {cur[r]} /\ primary'[r] = primary[r]
      BY <1>3 DEF TypeOK, ProbeDown
    <2>3. tried'[r] \intersect Remaining(r) = {}
      BY <1>3, <2>2 DEF ListIsApart, ProbeDown, Remaining, FallbackList
    <2>4. CASE Remaining(r) = {}
      <3>1. pc'[r] = "done"
        BY <1>3, <2>4 DEF TypeOK, ProbeDown, End
      <3> QED
        BY <2>1, <3>1 DEF ListIsApart
    <2>5. CASE Remaining(r) # {}
      <3>1. PICK p \in Remaining(r) :
                /\ cur' = [cur EXCEPT ![r] = p]
                /\ rest' = [rest EXCEPT ![r] = Remaining(r) \ {p}]
                /\ UNCHANGED pc
        BY <1>3, <2>5 DEF ProbeDown
      <3>2. primary[r] \in tried'[r]
        <4>1. CASE cur[r] = primary[r]
          BY <2>2, <4>1
        <4>2. CASE cur[r] # primary[r]
          BY <1>3, <2>2, <4>2 DEF ListIsApart, ProbeDown
        <4> QED
          BY <4>1, <4>2
      <3>3. pc'[r] = "probe" /\ cur'[r] = p /\ rest'[r] = Remaining(r) \ {p}
        BY <1>3, <3>1 DEF TypeOK, ProbeDown
      <3>4. cur'[r] # primary'[r] /\ cur'[r] \notin tried'[r]
        BY <2>2, <2>3, <3>2, <3>3
      <3> QED
        BY <2>1, <2>2, <2>3, <3>2, <3>3, <3>4 DEF ListIsApart
    <2> QED
      BY <2>4, <2>5
  <1>4. ASSUME NEW r \in Requests, Succeed(r) \/ Fail(r) \/ Misread(r) PROVE ListIsApart'
    BY <1>4 DEF TypeOK, ListIsApart, Succeed, Fail, Misread, End
  <1>5. CASE UNCHANGED reqVars
    BY <1>5 DEF ListIsApart, reqVars
  <1> QED
    BY <1>1, <1>2, <1>3, <1>4, <1>5
       DEF Next, RequestStep, Elapse, Update, CheckBegin, CheckUp, CheckDown, vars

\* No request asks a provider twice, for any providers, priorities and switches.
THEOREM NobodyAskedTwice == Spec => []AskedOnce
  <1>1. Init => ListIsApart
    BY DEF Init, ListIsApart
  <1>2. TypeOK /\ ListIsApart /\ [Next]_vars => ListIsApart'
    BY StepApart
  <1>3. ListIsApart => AskedOnce
    BY DEF ListIsApart, AskedOnce
  <1> QED
    BY <1>1, <1>2, <1>3, TypeCorrect, PTL DEF Spec
=============================================================================
