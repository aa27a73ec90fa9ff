---------------------------- MODULE BreakerRules ----------------------------
(***************************************************************************)
(* The private helpers of CircuitBreaker (src/resilience.ts) as operators   *)
(* on the breaker's fields.  openedAt is kept as the time that has passed   *)
(* since then, which the code only compares with recoveryTimeoutMs, so it   *)
(* stops counting there; consecutiveFailures stops counting at MaxFailures. *)
(***************************************************************************)
EXTENDS Integers

CONSTANTS
    FailureThreshold,  \* failureThreshold (5 by default)
    SuccessThreshold,  \* successThreshold (2 by default)
    RecoveryTimeout,   \* recoveryTimeoutMs, in ticks of the clock
    MaxFailures        \* bound: where the failure counter saturates

ASSUME BreakerAssumption ==
    /\ FailureThreshold \in Nat \ {0}
    /\ SuccessThreshold \in Nat \ {0}
    /\ RecoveryTimeout \in Nat
    /\ MaxFailures \in Nat /\ MaxFailures >= FailureThreshold

CircuitStates == {"closed", "open", "half-open"}

Breakers == [state     : CircuitStates,
             failures  : 0..MaxFailures,       \* consecutiveFailures
             successes : 0..SuccessThreshold,  \* consecutiveSuccesses
             elapsed   : 0..RecoveryTimeout]   \* Date.now() - openedAt

NewBreaker == [state |-> "closed", failures |-> 0, successes |-> 0, elapsed |-> 0]

\* Mutation of Refreshed: a half-open breaker starts its probing over.
RefreshedAgain(b) ==
    IF b.state # "closed" /\ b.elapsed >= RecoveryTimeout
    THEN [b EXCEPT !.state = "half-open", !.successes = 0]
    ELSE b

\* _maybeTransitionToHalfOpen, the first thing every public method does.
Refreshed(b) ==
    IF b.state = "open" /\ b.elapsed >= RecoveryTimeout
    THEN [b EXCEPT !.state = "half-open", !.successes = 0]
    ELSE b

\* Mutation of AfterSuccess: a late success closes an open circuit.
SuccessCloses(b) ==
    CASE b.state = "half-open" /\ b.successes + 1 < SuccessThreshold ->
            [b EXCEPT !.successes = @ + 1]
      [] b.state = "closed" -> [b EXCEPT !.failures = 0]
      [] OTHER -> NewBreaker

\* Mutation of AfterSuccess: a success leaves the failures counted.
SuccessKeepsCount(b) ==
    CASE b.state = "half-open" /\ b.successes + 1 >= SuccessThreshold -> NewBreaker
      [] b.state = "half-open" /\ b.successes + 1 < SuccessThreshold ->
            [b EXCEPT !.successes = @ + 1]
      [] OTHER -> b

\* _recordSuccess
AfterSuccess(b) ==
    CASE b.state = "half-open" /\ b.successes + 1 >= SuccessThreshold -> NewBreaker
      [] b.state = "half-open" /\ b.successes + 1 < SuccessThreshold ->
            [b EXCEPT !.successes = @ + 1]
      [] b.state = "closed" -> [b EXCEPT !.failures = 0]
      [] b.state = "open" -> b

OneMore(n) == IF n < MaxFailures THEN n + 1 ELSE n

\* _recordFailure; a failure that arrives while the circuit is already open is
\* counted and changes nothing else.
AfterFailure(b) ==
    CASE b.state = "half-open" ->
            [b EXCEPT !.state = "open", !.elapsed = 0, !.successes = 0]
      [] b.state = "closed" /\ b.failures + 1 >= FailureThreshold ->
            [b EXCEPT !.state = "open", !.elapsed = 0, !.failures = OneMore(@)]
      [] b.state = "closed" /\ b.failures + 1 < FailureThreshold ->
            [b EXCEPT !.failures = OneMore(@)]
      [] b.state = "open" -> [b EXCEPT !.failures = OneMore(@)]

\* One tick of the wall clock.
Aged(b) ==
    IF b.state = "open" /\ b.elapsed < RecoveryTimeout
    THEN [b EXCEPT !.elapsed = @ + 1]
    ELSE b
=============================================================================
