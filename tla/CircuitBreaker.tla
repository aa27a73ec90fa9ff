--------------------------- MODULE CircuitBreaker ---------------------------
(***************************************************************************)
(* CircuitBreaker.execute (src/resilience.ts) with several calls in flight  *)
(* at once: a call passes the gate in one step and reports its result in a  *)
(* later one, when the breaker may be in another state than at the gate.    *)
(***************************************************************************)
EXTENDS BreakerRules, FiniteSets

CONSTANT Calls     \* slots for calls in flight

VARIABLES
    breaker,   \* the breaker's fields
    inFlight,  \* per slot: "idle", or the state of the breaker at its gate
    healthy,   \* the endpoint behind fn answers
    rejected   \* per slot: its last execute threw CircuitOpenError

breakerVars == <<breaker, inFlight, healthy, rejected>>

BreakerInit ==
    /\ breaker = NewBreaker
    /\ inFlight = [c \in Calls |-> "idle"]
    /\ healthy \in BOOLEAN
    /\ rejected = [c \in Calls |-> FALSE]

\* execute up to `await fn()`.
Enter(c) ==
    /\ inFlight[c] = "idle"
    /\ breaker' = Refreshed(breaker)
    /\ IF breaker'.state = "open"
       THEN /\ rejected' = [rejected EXCEPT ![c] = TRUE]
            /\ UNCHANGED inFlight
       ELSE /\ rejected' = [rejected EXCEPT ![c] = FALSE]
            /\ inFlight' = [inFlight EXCEPT ![c] = breaker'.state]
    /\ UNCHANGED healthy

\* fn resolved.
Succeed(c) ==
    /\ inFlight[c] # "idle"
    /\ breaker' = AfterSuccess(breaker)
    /\ inFlight' = [inFlight EXCEPT ![c] = "idle"]
    /\ UNCHANGED <<healthy, rejected>>

\* fn threw; the error goes on to the caller.
Fail(c) ==
    /\ inFlight[c] # "idle" /\ ~healthy
    /\ breaker' = AfterFailure(breaker)
    /\ inFlight' = [inFlight EXCEPT ![c] = "idle"]
    /\ UNCHANGED <<healthy, rejected>>

\* getState, getStats, getOpenMetrics
Look == /\ breaker' = Refreshed(breaker)
        /\ UNCHANGED <<inFlight, healthy, rejected>>

Reset == /\ breaker' = NewBreaker
         /\ UNCHANGED <<inFlight, healthy, rejected>>

TimerTick ==
    /\ breaker' = Aged(breaker)
    /\ UNCHANGED <<inFlight, healthy, rejected>>

\* The endpoint goes down or comes back.
Turn == /\ healthy' = ~healthy
        /\ UNCHANGED <<breaker, inFlight, rejected>>

BreakerNext ==
    \/ \E c \in Calls : Enter(c) \/ Succeed(c) \/ Fail(c)
    \/ Look \/ Reset \/ TimerTick \/ Turn

BreakerSpec == BreakerInit /\ [][BreakerNext]_breakerVars

\* Time passes, callers come back, and a call that was sent is answered.
BreakerFairSpec ==
    /\ BreakerSpec
    /\ WF_breakerVars(TimerTick)
    /\ \A c \in Calls : WF_breakerVars(Enter(c)) /\ WF_breakerVars(Succeed(c) \/ Fail(c))

-----------------------------------------------------------------------------
BreakerTypeOK ==
    /\ breaker \in Breakers
    /\ inFlight \in [Calls -> {"idle", "closed", "half-open"}]
    /\ healthy \in BOOLEAN
    /\ rejected \in [Calls -> BOOLEAN]

\* The counters say what the state says, however late the results of calls
\* arrive that entered in another state: a closed circuit is below the
\* threshold, a circuit that opened got there, and a half-open one still lacks
\* a success (execute, _recordSuccess, _recordFailure).
CountersFitState ==
    /\ breaker.state = "closed" => breaker.failures < FailureThreshold /\ breaker.successes = 0
    /\ breaker.state = "open" => breaker.failures >= FailureThreshold /\ breaker.successes = 0
    /\ breaker.state = "half-open" => /\ breaker.failures >= FailureThreshold
                                 /\ breaker.successes < SuccessThreshold
                                 /\ breaker.elapsed >= RecoveryTimeout

\* The circuit leaves "open" only to half-open after the recovery timeout, or
\* by a reset: no late success of a call from before the trip closes it.
OpenUntilRecovery ==
    [][breaker.state = "open" /\ breaker'.state # "open" =>
          \/ breaker'.state = "half-open" /\ breaker.elapsed = RecoveryTimeout
          \/ breaker' = NewBreaker /\ inFlight' = inFlight]_breakerVars

\* While the circuit is open no call gets through to the endpoint, and a late
\* failure does not start the recovery timer anew.
OpenShortCircuits ==
    [][breaker.state = "open" /\ breaker'.state = "open" =>
          /\ \A c \in Calls : inFlight[c] = "idle" => inFlight'[c] = "idle"
          /\ breaker'.elapsed >= breaker.elapsed]_breakerVars

\* Both together: however results of calls that entered earlier arrive, an
\* open circuit stays open for its time, keeps calls out and keeps its timer.
OpenIsRespected == OpenUntilRecovery /\ OpenShortCircuits

\* Once the endpoint stays up, the circuit closes for good: no interleaving of
\* probes, late results and clock ticks keeps it open or half-open.
Recovers == <>[]healthy => <>[](breaker.state = "closed")
=============================================================================
