-------------------------- MODULE IntegrationFactory --------------------------
(***************************************************************************)
(* The factory of workflow providers, with its health checks and circuit   *)
(* breakers (app/services/integration_factory.py).                         *)
(*                                                                         *)
(* Requests and health checks are coroutines of one event loop over shared *)
(* provider objects; they give way only where they await: the answer of a  *)
(* remote provider to a probe and to an execution. The local provider      *)
(* answers a probe at once and cannot fail; its probe is split like the    *)
(* others, which only adds interleavings.                                  *)
(*                                                                         *)
(* A failed execution is an answer with status "failed", not an exception, *)
(* so the except branch of IntegrationFactory.execute_workflow, and with   *)
(* it auto_failover, is never used. A probe does not raise either, so the  *)
(* except branch of health_check is not used.                              *)
(***************************************************************************)
EXTENDS Naturals, FiniteSets

CONSTANTS
    Providers,        \* the registered providers
    Local,            \* those that run in this process (NativeProvider)
    Priority,         \* lower is tried earlier
    FallbackEnabled,  \* FactoryConfig.fallback_enabled
    Requests,         \* calls of IntegrationFactory.execute_workflow
    Checkers,         \* concurrent calls of health_check_all
    Threshold,        \* failures that open a breaker (the code's literal 5)
    MaxUpdates,       \* bound: calls of update_provider_config
    MaxProbes         \* bound: health checks begun

None == "none"

ASSUME FactoryAssumption ==
    /\ Local \subseteq Providers
    /\ Priority \in [Providers -> Nat]
    /\ FallbackEnabled \in BOOLEAN
    /\ Threshold \in Nat \ {0}
    /\ MaxUpdates \in Nat
    /\ MaxProbes \in Nat
    /\ None \notin Providers
    /\ IsFiniteSet(Requests)

VARIABLES
    enabled,    \* IntegrationProvider.enabled
    breaker,    \* CircuitBreakerState: state, failure_count, next_attempt_time reached
    metrics,    \* successful_executions and failed_executions
    pc,         \* what each request does next
    cur,        \* the provider it is dealing with
    primary,    \* the provider it was sent to first
    rest,       \* the fallback providers it has not tried yet
    offered,    \* history: the primary and the list of fallback providers
    tried,      \* history: providers that answered its probe with no
    answer,     \* what the caller got
    checking,   \* the provider each health check is waiting for, or None
    updates, probes

reqVars == <<pc, cur, primary, rest, offered, tried, answer>>
vars == <<enabled, breaker, metrics, reqVars, checking, updates, probes>>

States == {"CLOSED", "OPEN", "HALF_OPEN"}
Breakers == [state : States, failures : Nat, due : BOOLEAN]
Metrics == [successes : Nat, failures : Nat]
\* "misread" is a "failed" for an execution that was counted as a success before.
Answers == {"none", "completed", "failed", "misread", "refused"}

TypeOK ==
    /\ enabled \in [Providers -> BOOLEAN]
    /\ breaker \in [Providers -> Breakers]
    /\ metrics \in [Providers -> Metrics]
    /\ pc \in [Requests -> {"idle", "probe", "execute", "done"}]
    /\ cur \in [Requests -> Providers \union {None}]
    /\ primary \in [Requests -> Providers \union {None}]
    /\ rest \in [Requests -> SUBSET Providers]
    /\ offered \in [Requests -> SUBSET Providers]
    /\ tried \in [Requests -> SUBSET Providers]
    /\ answer \in [Requests -> Answers]
    /\ checking \in [Checkers -> Providers \union {None}]
    /\ updates \in Nat
    /\ probes \in Nat

Init ==
    /\ enabled \in [Providers -> BOOLEAN]
    /\ breaker = [p \in Providers |-> [state |-> "CLOSED", failures |-> 0, due |-> FALSE]]
    /\ metrics = [p \in Providers |-> [successes |-> 0, failures |-> 0]]
    /\ pc = [r \in Requests |-> "idle"]
    /\ cur = [r \in Requests |-> None]
    /\ primary = [r \in Requests |-> None]
    /\ rest = [r \in Requests |-> {}]
    /\ offered = [r \in Requests |-> {}]
    /\ tried = [r \in Requests |-> {}]
    /\ answer = [r \in Requests |-> "none"]
    /\ checking = [c \in Checkers |-> None]
    /\ updates = 0
    /\ probes = 0

-----------------------------------------------------------------------------
(* IntegrationFactory.execute_workflow                                     *)

End(r, a) ==
    /\ pc' = [pc EXCEPT ![r] = "done"]
    /\ answer' = [answer EXCEPT ![r] = a]

\* The provider asked for, or the default one, is enabled: it is probed.
Begin(r, p) ==
    /\ pc[r] = "idle"
    /\ enabled[p]
    /\ pc' = [pc EXCEPT ![r] = "probe"]
    /\ cur' = [cur EXCEPT ![r] = p]
    /\ primary' = [primary EXCEPT ![r] = p]
    /\ offered' = [offered EXCEPT ![r] = {p}]
    /\ UNCHANGED <<enabled, breaker, metrics, rest, tried, answer,
                   checking, updates, probes>>

\* A disabled provider is refused at once; nothing is fallen back to.
Reject(r, p) ==
    /\ pc[r] = "idle"
    /\ ~enabled[p]
    /\ End(r, "refused")
    /\ primary' = [primary EXCEPT ![r] = p]
    /\ UNCHANGED <<enabled, breaker, metrics, cur, rest, offered, tried,
                   checking, updates, probes>>

\* is_available answers yes: the workflow is executed. The breaker is not asked.
ProbeUp(r) ==
    /\ pc[r] = "probe"
    /\ pc' = [pc EXCEPT ![r] = "execute"]
    /\ UNCHANGED <<enabled, breaker, metrics, cur, primary, rest, offered, tried,
                   answer, checking, updates, probes>>

\* The first of a set of providers in the order of their priorities.
First(S, p) == p \in S /\ \A q \in S : Priority[p] <= Priority[q]

\* Mutant of FallbackList: the provider that has failed is not left out.
FallbackListWithPrimary(r) == IF FallbackEnabled THEN {p \in Providers : enabled[p]} ELSE {}

\* The list is made once, when the primary has failed, and not looked at again.
FallbackList(r) ==
    IF FallbackEnabled THEN {p \in Providers : enabled[p] /\ p # primary[r]} ELSE {}

\* Mutant of Remaining: the list is not used.
RemainingNone(r) == IF cur[r] = primary[r] THEN {} ELSE rest[r]

\* The providers that remain after a probe of r was answered with no.
Remaining(r) == IF cur[r] = primary[r] THEN FallbackList(r) ELSE rest[r]

ProbeDown(r) ==
    /\ pc[r] = "probe"
    /\ cur[r] \notin Local
    /\ tried' = [tried EXCEPT ![r] = @ \union {cur[r]}]
    /\ offered' = [offered EXCEPT ![r] =
                      IF cur[r] = primary[r] THEN @ \union FallbackList(r) ELSE @]
    /\ \/ /\ Remaining(r) = {}
          /\ End(r, "refused")
          /\ rest' = [rest EXCEPT ![r] = {}]
          /\ UNCHANGED cur
       \/ \E p \in Remaining(r) :
              /\ First(Remaining(r), p)
              /\ cur' = [cur EXCEPT ![r] = p]
              /\ rest' = [rest EXCEPT ![r] = Remaining(r) \ {p}]
              /\ UNCHANGED <<pc, answer>>
    /\ UNCHANGED <<enabled, breaker, metrics, primary, checking, updates, probes>>

-----------------------------------------------------------------------------
(* IntegrationProvider.record_execution, called at the end of execute_workflow *)

\* Mutant of AfterSuccess: the count survives.
AfterSuccessCounted(b) ==
    IF b.state = "HALF_OPEN" THEN [b EXCEPT !.state = "CLOSED"] ELSE b

\* A success closes a half-open breaker; it does not reset the count of a closed one.
AfterSuccess(b) ==
    IF b.state = "HALF_OPEN" THEN [b EXCEPT !.state = "CLOSED", !.failures = 0] ELSE b

\* Mutant of AfterFailure: the state is written as app/services/external_service_manager.py does.
AfterFailureLower(b) ==
    IF b.failures + 1 >= Threshold /\ b.state # "OPEN"
    THEN [state |-> "open", failures |-> b.failures + 1, due |-> FALSE]
    ELSE [b EXCEPT !.failures = @ + 1]

\* next_attempt_time is set when the breaker opens, not while it is open.
AfterFailure(b) ==
    IF b.failures + 1 >= Threshold /\ b.state # "OPEN"
    THEN [state |-> "OPEN", failures |-> b.failures + 1, due |-> FALSE]
    ELSE [b EXCEPT !.failures = @ + 1]

\* Mutant of Succeed: a success is not counted when the breaker is open.
SucceedUncounted(r) ==
    /\ pc[r] = "execute"
    /\ breaker' = [breaker EXCEPT ![cur[r]] = AfterSuccess(@)]
    /\ metrics' = [metrics EXCEPT ![cur[r]].successes =
                      IF breaker[cur[r]].state = "OPEN" THEN @ ELSE @ + 1]
    /\ End(r, "completed")
    /\ UNCHANGED <<enabled, cur, primary, rest, offered, tried, checking, updates, probes>>

Succeed(r) ==
    /\ pc[r] = "execute"
    /\ breaker' = [breaker EXCEPT ![cur[r]] = AfterSuccess(@)]
    /\ metrics' = [metrics EXCEPT ![cur[r]].successes = @ + 1]
    /\ End(r, "completed")
    /\ UNCHANGED <<enabled, cur, primary, rest, offered, tried, checking, updates, probes>>

\* Mutant of Fail: a failed execution is tried again on the same provider.
FailAgain(r) ==
    /\ pc[r] = "execute"
    /\ cur[r] \notin Local
    /\ pc' = [pc EXCEPT ![r] = "probe"]
    /\ UNCHANGED <<enabled, breaker, metrics, cur, primary, rest, offered, tried, answer, checking, updates, probes>>

\* The provider catches its own error, counts it and answers with "failed".
Fail(r) ==
    /\ pc[r] = "execute"
    /\ cur[r] \notin Local
    /\ breaker' = [breaker EXCEPT ![cur[r]] = AfterFailure(@)]
    /\ metrics' = [metrics EXCEPT ![cur[r]].failures = @ + 1]
    /\ End(r, "failed")
    /\ UNCHANGED <<enabled, cur, primary, rest, offered, tried, checking, updates, probes>>

\* The remote workflow was triggered and its success counted, but no answer can be
\* built from the result (one that is no object): the except branch of the same try
\* counts a failure as well and answers with it.
Misread(r) ==
    /\ pc[r] = "execute"
    /\ cur[r] \notin Local
    /\ breaker' = [breaker EXCEPT ![cur[r]] = AfterFailure(AfterSuccess(@))]
    /\ metrics' = [metrics EXCEPT ![cur[r]] =
                      [successes |-> @.successes + 1, failures |-> @.failures + 1]]
    /\ End(r, "misread")
    /\ UNCHANGED <<enabled, cur, primary, rest, offered, tried, checking, updates, probes>>

-----------------------------------------------------------------------------
(* IntegrationProvider.health_check and the passing of time                *)

\* The five minutes of an open breaker are over.
Elapse(p) ==
    /\ breaker[p].state = "OPEN"
    /\ ~breaker[p].due
    /\ breaker' = [breaker EXCEPT ![p].due = TRUE]
    /\ UNCHANGED <<enabled, metrics, reqVars, checking, updates, probes>>

\* A check that is not refused by an open breaker half-opens one that is due,
\* and asks an enabled provider for its availability.
CheckBegin(c, p) ==
    /\ checking[c] = None
    /\ probes < MaxProbes
    /\ breaker[p].state = "OPEN" => breaker[p].due
    /\ breaker' = [breaker EXCEPT ![p].state = IF @ = "OPEN" THEN "HALF_OPEN" ELSE @]
    /\ checking' = [checking EXCEPT ![c] = IF enabled[p] THEN p ELSE None]
    /\ probes' = probes + 1
    /\ UNCHANGED <<enabled, metrics, reqVars, updates>>

\* Whatever the breaker has become while the check waited, it is closed.
CheckUp(c) ==
    /\ checking[c] # None
    /\ breaker' = [breaker EXCEPT ![checking[c]].state = "CLOSED",
                                  ![checking[c]].failures = 0]
    /\ checking' = [checking EXCEPT ![c] = None]
    /\ UNCHANGED <<enabled, metrics, reqVars, updates, probes>>

CheckDown(c) ==
    /\ checking[c] # None
    /\ checking[c] \notin Local
    /\ checking' = [checking EXCEPT ![c] = None]
    /\ UNCHANGED <<enabled, breaker, metrics, reqVars, updates, probes>>

\* update_provider_config with {"enabled": ...}
Update(p) ==
    /\ updates < MaxUpdates
    /\ enabled' = [enabled EXCEPT ![p] = ~@]
    /\ updates' = updates + 1
    /\ UNCHANGED <<breaker, metrics, reqVars, checking, probes>>

-----------------------------------------------------------------------------
RequestStep(r) == ProbeUp(r) \/ ProbeDown(r) \/ Succeed(r) \/ Fail(r) \/ Misread(r)

Next ==
    \/ \E r \in Requests : RequestStep(r) \/ (\E p \in Providers : Begin(r, p) \/ Reject(r, p))
    \/ \E c \in Checkers : CheckUp(c) \/ CheckDown(c) \/ (\E p \in Providers : CheckBegin(c, p))
    \/ \E p \in Providers : Elapse(p) \/ Update(p)

Spec == Init /\ [][Next]_vars

\* Probes and executions time out (ClientTimeout), so a begun request goes on.
FairSpec == Spec /\ \A r \in Requests : WF_vars(RequestStep(r))

-----------------------------------------------------------------------------
(* Properties                                                              *)

\* A breaker lets its provider count as healthy exactly as long as fewer failures
\* than the threshold are recorded, however executions and health checks interleave.
BreakerCountsFailures ==
    \A p \in Providers : breaker[p].state = "CLOSED" <=> breaker[p].failures < Threshold

\* The requests that p answered with one of A.
AnsweredBy(p, A) == {r \in Requests : cur[r] = p /\ answer[r] \in A}

\* The answers the callers got and the metrics of a provider agree: no execution is
\* lost, and none is counted twice but one whose answer could not be built, which
\* counts as a success and as a failure.
ExecutionsAreCounted ==
    \A p \in Providers :
        /\ metrics[p].successes = Cardinality(AnsweredBy(p, {"completed", "misread"}))
        /\ metrics[p].failures = Cardinality(AnsweredBy(p, {"failed", "misread"}))

\* A request that was begun is refused only after every provider of its list has
\* answered no. As a local provider never does, a request that could fall back to
\* one is never refused.
NoProviderLeftUntried ==
    \A r \in Requests : answer[r] = "refused" /\ cur[r] # None => offered[r] \subseteq tried[r]

\* No request asks a provider again that has answered it no: a list made while
\* others switch providers on and off never leads back to one that was tried.
AskedOnce == \A r \in Requests : pc[r] \in {"probe", "execute"} => cur[r] \notin tried[r]

\* Every request that has been begun is answered.
RequestsAnswered == \A r \in Requests : pc[r] \in {"probe", "execute"} ~> pc[r] = "done"
=============================================================================
