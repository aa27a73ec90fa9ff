--------------------------- MODULE MCHorizonFetch ---------------------------
(* Small instances of HorizonFetch, and of the circuit breaker on its own    *)
(* under calls that overlap. The two share no variable, so each behaviour    *)
(* follows one of them, named by part, and the states add up.                *)
EXTENDS HorizonFetch, CircuitBreaker, TLC

CONSTANTS a1, a2, c1, c2, c3

VARIABLE part

TwoAccounts == {a1, a2}
Headers == {-1, 0, 1, 5}
ThreeCalls == {c1, c2, c3}

\* A backup on the same network behind a breaker, one on another network
\* without the opt-in, and one with it but no cache.
TwoSidedOptions ==
    {[fallback |-> "same", cross |-> FALSE, cacheOn |-> TRUE, breaker |-> TRUE],
     [fallback |-> "other", cross |-> FALSE, cacheOn |-> TRUE, breaker |-> FALSE],
     [fallback |-> "other", cross |-> TRUE, cacheOn |-> FALSE, breaker |-> FALSE]}

MCInit ==
    /\ part \in {"lookups", "breaker"}
    /\ Init /\ BreakerInit
    /\ part = "lookups" => healthy
    /\ part = "breaker" => who = a1 /\ options.breaker

MCNext ==
    \/ part = "lookups" /\ Next /\ UNCHANGED <<part, breakerVars>>
    \/ part = "breaker" /\ BreakerNext /\ UNCHANGED <<part, vars>>

\* The fairness of both modules, each for its own part.
MCSpec ==
    /\ MCInit /\ [][MCNext]_<<part, vars, breakerVars>>
    /\ WF_vars(part = "lookups" /\ Step)
    /\ WF_breakerVars(part = "breaker" /\ TimerTick)
    /\ \A c \in Calls : /\ WF_breakerVars(part = "breaker" /\ Enter(c))
                        /\ WF_breakerVars(part = "breaker" /\ (Succeed(c) \/ Fail(c)))
=============================================================================
