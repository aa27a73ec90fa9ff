---------------------------- MODULE HorizonFetch ----------------------------
(***************************************************************************)
(* fetchAccount and fetchAccountOnce (src/horizon.ts): one run of the       *)
(* action looks accounts up one after another; the lookups share the        *)
(* request budget, the circuit breaker, the account cache and the           *)
(* cancellation signal.  A lookup tries the primary endpoint with retries   *)
(* and then, on some errors, the fallback endpoint with retries of its own. *)
(* Everything between two awaits is one action; the answer to a request,    *)
(* the end of a sleep, a cancellation and the clock interleave with it.     *)
(*                                                                          *)
(* An account is abstracted to the endpoint that served it, an error to its *)
(* kind.  Milliseconds are small numbers.                                   *)
(***************************************************************************)
EXTENDS BreakerRules

CONSTANTS
    Accounts,        \* the addresses that are looked up
    MaxRetries,      \* max_retries
    BaseDelay,       \* retry_base_delay_ms
    MaxDelay,        \* retry_max_delay_ms
    MaxTotalWait,    \* retry_max_total_wait_ms
    RetryAfters,     \* the Retry-After values a busy endpoint may send
    MaxRequests,     \* horizon_max_requests, 0 for no budget
    Options,         \* the options a run may have: subset of AllOptions
    MaxLookups       \* bound: lookups of the run

NoHeader == -1       \* the answer has no usable Retry-After

\* The network of the fallback endpoint, if there is one, the opt-in to use
\* it across networks, cacheTtlMs > 0, and whether a circuitBreaker is given.
AllOptions == [fallback: {"none", "same", "other"}, cross: BOOLEAN, cacheOn: BOOLEAN, breaker: BOOLEAN]

ASSUME FetchAssumption ==
    /\ MaxRetries \in Nat
    /\ BaseDelay \in Nat
    /\ MaxDelay \in Nat
    /\ MaxTotalWait \in Nat
    /\ RetryAfters \subseteq Nat \cup {NoHeader}
    /\ MaxRequests \in Nat
    /\ Options \subseteq AllOptions
    /\ MaxLookups \in Nat

VARIABLES
    options,     \* HorizonRequestOptions, the same for all lookups of a run
    pc,          \* "idle", "attempt", "flight" or "sleep"
    who,         \* stellarAddress of the lookup
    endpoint,    \* endpointKind: "primary" or "fallback"
    attempt,     \* attempt of fetchAccountOnce
    waited,      \* totalWaitMs of fetchAccountOnce
    firstError,  \* primaryError
    outcome,     \* what the lookup returned or threw
    spent,       \* RateBudgetTracker.count
    cache,       \* per account: the endpoint that served the entry, or "empty"
    cb,          \* the circuit breaker
    cancelled,   \* signal.aborted
    lookups,     \* lookups begun
    sent,        \* history: requests this lookup sent to this endpoint
    total,       \* history: requests the run sent
    lost,        \* history: requests lost in a row, over all lookups of the run
    tripped      \* history: FailureThreshold requests in a row were lost

call == <<who, endpoint, attempt, waited, firstError>>
vars == <<options, pc, who, endpoint, attempt, waited, firstError, outcome, spent, cache,
          cb, cancelled, lookups, sent, total, lost, tripped>>

Endpoints == {"primary", "fallback"}

\* The fallback is on another network and there is no opt-in to use it.
Separate == options.fallback = "other" /\ ~options.cross

\* What fetchAccountOnce can throw.  "busy": a 429/502/503/504 after the last
\* retry; "waits": HorizonRateLimitError; "refused": any other HTTP error.
Retryable == {"busy", "waits", "timeout", "network"}
Errors == Retryable \cup {"notFound", "refused", "tls", "circuit", "cancelled", "budget"}

-----------------------------------------------------------------------------
(* The rules of retrying.                                                  *)

\* retryAfter / backoffMs: the header's value, or 2^attempt times the base,
\* and in both cases no more than retryMaxDelayMs.
IsDelay(w, header) ==
    LET wish == IF header = NoHeader THEN BaseDelay * 2 ^ attempt ELSE header
    IN  w = IF wish < MaxDelay THEN wish ELSE MaxDelay

\* The delays that may be slept.
Delays == 0..MaxDelay

\* Mutation of WithinWait: only the next sleep is compared with the total.
WithinWaitAlone(w) == w <= MaxTotalWait

WithinWait(w) == waited + w <= MaxTotalWait

-----------------------------------------------------------------------------
Init ==
    /\ options \in Options
    /\ pc = "idle"
    /\ who \in Accounts
    /\ endpoint = "primary"
    /\ attempt = 0
    /\ waited = 0
    /\ firstError = "none"
    /\ outcome = "none"
    /\ spent = 0
    /\ cache = [a \in Accounts |-> "empty"]
    /\ cb = NewBreaker
    /\ cancelled = FALSE
    /\ lookups = 0
    /\ sent = 0
    /\ total = 0
    /\ lost = 0
    /\ tripped = FALSE

\* The lookup is over.
Finish(result) ==
    /\ pc' = "idle"
    /\ outcome' = result
    /\ UNCHANGED <<call, sent>>

\* fetchAccountOnce is called for an endpoint.
Begin(a, e, error) ==
    /\ pc' = "attempt"
    /\ who' = a
    /\ endpoint' = e
    /\ attempt' = 0
    /\ waited' = 0
    /\ firstError' = error
    /\ sent' = 0
    /\ UNCHANGED outcome

\* Mutation of MayFallBack: the networks are not compared.
AnyFallback(error) == error \notin {"notFound", "budget"} /\ options.fallback # "none"

\* The primary's error sends the lookup to the fallback endpoint.
MayFallBack(error) ==
    /\ error \notin {"notFound", "budget"}
    /\ options.fallback = "same" \/ (options.fallback = "other" /\ options.cross)

\* fetchAccountOnce throws; fetchAccount passes the error on, replaces it by
\* its own refusal to cross networks, or goes to the fallback.
Throw(error) ==
    \/ /\ endpoint = "primary" /\ MayFallBack(error)
       /\ Begin(who, "fallback", error)
    \/ /\ endpoint = "primary" /\ ~MayFallBack(error)
       /\ IF options.fallback = "other" /\ error \notin {"notFound", "budget"}
          THEN Finish("blocked")
          ELSE Finish(error)
    \/ /\ endpoint = "fallback"
       /\ Finish(error)

-----------------------------------------------------------------------------
\* fetchAccount is called: a cancelled run throws, a cached account is
\* returned, anything else goes to the primary.
Lookup(a) ==
    /\ pc = "idle" /\ lookups < MaxLookups
    /\ lookups' = lookups + 1
    /\ \/ /\ cancelled
          /\ Finish("cancelled")
       \/ /\ ~cancelled /\ cache[a] # "empty"
          /\ Finish(cache[a])
       \/ /\ ~cancelled /\ cache[a] = "empty"
          /\ Begin(a, "primary", "none")
    /\ UNCHANGED <<spent, cache, cb, cancelled, total, lost, tripped>>

-----------------------------------------------------------------------------
(* One turn of the retry loop, up to the request.                          *)

\* Mutation of Exceeded: the budget is one request too large.
ExceededLate == MaxRequests > 0 /\ spent > MaxRequests

\* recordRequest would count a request beyond the budget.
Exceeded == MaxRequests > 0 /\ spent + 1 > MaxRequests

\* The circuit breaker rejects the request.
Blocked == options.breaker /\ Refreshed(cb).state = "open"

\* parentSignal.aborted, looked at before every attempt.
Aborted == cancelled

Record == spent' = IF MaxRequests > 0 THEN spent + 1 ELSE spent

Stop ==
    /\ pc = "attempt" /\ Aborted
    /\ Throw("cancelled")
    /\ UNCHANGED <<spent, cache, cb, cancelled, lookups, total, lost, tripped>>

OverBudget ==
    /\ pc = "attempt" /\ ~Aborted /\ Exceeded
    /\ Record
    /\ Throw("budget")
    /\ UNCHANGED <<cache, cb, cancelled, lookups, total, lost, tripped>>

ShortCircuit ==
    /\ pc = "attempt" /\ ~Aborted /\ ~Exceeded /\ Blocked
    /\ Record
    /\ Throw("circuit")
    /\ UNCHANGED <<cache, cb, cancelled, lookups, total, lost, tripped>>

Send ==
    /\ pc = "attempt" /\ ~Aborted /\ ~Exceeded /\ ~Blocked
    /\ Record
    /\ cb' = IF options.breaker THEN Refreshed(cb) ELSE cb
    /\ pc' = "flight"
    /\ sent' = sent + 1
    /\ total' = total + 1
    /\ UNCHANGED <<call, outcome, cache, cancelled, lookups, lost, tripped>>

-----------------------------------------------------------------------------
(* The end of the request.  The breaker counts a fetch that resolved, with *)
(* whatever status, as a success and one that threw as a failure.          *)

Resolved ==
    /\ cb' = IF options.breaker THEN AfterSuccess(cb) ELSE cb
    /\ lost' = 0
    /\ UNCHANGED tripped

Rejected ==
    /\ cb' = IF options.breaker THEN AfterFailure(cb) ELSE cb
    /\ lost' = lost + 1
    /\ tripped' = (tripped \/ lost + 1 >= FailureThreshold)

MayRetry == attempt < MaxRetries

\* After a failed attempt: sleep and try again, unless the wait would exceed
\* the total (error waits) or the retries are used up (error last).
RetryOr(header, waits, last) ==
    \/ /\ MayRetry
       /\ \E w \in Delays :
             /\ IsDelay(w, header) /\ WithinWait(w)
             /\ waited' = waited + w
       /\ pc' = "sleep"
       /\ UNCHANGED <<who, endpoint, attempt, firstError, outcome, sent>>
    \/ /\ MayRetry
       /\ \E w \in Delays : IsDelay(w, header) /\ ~WithinWait(w)
       /\ Throw(waits)
    \/ /\ ~MayRetry
       /\ Throw(last)

\* 200 with a readable body: the account goes to the cache under the key of
\* the primary, whichever endpoint served it.
Served ==
    /\ pc = "flight"
    /\ Resolved
    /\ cache' = IF options.cacheOn THEN [cache EXCEPT ![who] = endpoint] ELSE cache
    /\ Finish(endpoint)
    /\ UNCHANGED <<spent, cancelled, lookups, total>>

\* 200, and reading or parsing the body fails (or times out): retried like a
\* transport error.
BodyLost ==
    /\ pc = "flight"
    /\ Resolved
    /\ \E kind \in {"timeout", "network"} : RetryOr(NoHeader, kind, kind)
    /\ UNCHANGED <<spent, cache, cancelled, lookups, total>>

NotFound ==
    /\ pc = "flight"
    /\ Resolved
    /\ Throw("notFound")
    /\ UNCHANGED <<spent, cache, cancelled, lookups, total>>

\* 429, 502, 503 or 504, perhaps with a Retry-After.
Busy ==
    /\ pc = "flight"
    /\ Resolved
    /\ \E header \in RetryAfters : RetryOr(header, "waits", "busy")
    /\ UNCHANGED <<spent, cache, cancelled, lookups, total>>

\* Any other status.
Refuse ==
    /\ pc = "flight"
    /\ Resolved
    /\ Throw("refused")
    /\ UNCHANGED <<spent, cache, cancelled, lookups, total>>

\* The fetch throws: no connection, or the request timer fired.
Lost ==
    /\ pc = "flight"
    /\ Rejected
    /\ \E kind \in {"timeout", "network"} : RetryOr(NoHeader, kind, kind)
    /\ UNCHANGED <<spent, cache, cancelled, lookups, total>>

BadCertificate ==
    /\ pc = "flight"
    /\ Rejected
    /\ Throw("tls")
    /\ UNCHANGED <<spent, cache, cancelled, lookups, total>>

\* The cancellation aborts the request, before or after its headers came.
Abort ==
    /\ pc = "flight" /\ cancelled
    /\ Rejected \/ Resolved
    /\ Throw("cancelled")
    /\ UNCHANGED <<spent, cache, cancelled, lookups, total>>

\* Mutation of WakeUp: a cancellation clears the timer and resolves nothing.
WakeUpByTimer ==
    /\ pc = "sleep" /\ ~cancelled
    /\ pc' = "attempt"
    /\ attempt' = attempt + 1
    /\ UNCHANGED <<who, endpoint, waited, firstError, outcome, spent, cache, cb,
                   cancelled, lookups, sent, total, lost, tripped>>

\* The sleep is over, by its timer or by the cancellation.
WakeUp ==
    /\ pc = "sleep"
    /\ pc' = "attempt"
    /\ attempt' = attempt + 1
    /\ UNCHANGED <<who, endpoint, waited, firstError, outcome, spent, cache, cb,
                   cancelled, lookups, sent, total, lost, tripped>>

-----------------------------------------------------------------------------
(* The job and the clock.                                                  *)

\* SIGINT or SIGTERM aborts the job's controller.
Cancel ==
    /\ ~cancelled
    /\ cancelled' = TRUE
    /\ UNCHANGED <<pc, call, outcome, spent, cache, cb, lookups, sent, total, lost, tripped>>

\* The TTL of a cached account ends.
Expire(a) ==
    /\ cache[a] # "empty"
    /\ cache' = [cache EXCEPT ![a] = "empty"]
    /\ UNCHANGED <<pc, call, outcome, spent, cb, cancelled, lookups, sent, total, lost, tripped>>

Tick ==
    /\ cb.state = "open" /\ cb.elapsed < RecoveryTimeout
    /\ cb' = Aged(cb)
    /\ UNCHANGED <<pc, call, outcome, spent, cache, cancelled, lookups, sent, total, lost, tripped>>

Answer == \/ Served \/ BodyLost \/ NotFound \/ Busy \/ Refuse
          \/ Lost \/ BadCertificate \/ Abort

Step == /\ Stop \/ OverBudget \/ ShortCircuit \/ Send \/ Answer \/ WakeUp
        /\ UNCHANGED options

Next == \/ Step
        \/ /\ (\E a \in Accounts : Lookup(a) \/ Expire(a)) \/ Cancel \/ Tick
           /\ UNCHANGED options

Spec == Init /\ [][Next]_vars

\* A request ends (its timer sees to that) and so does a sleep.
FairSpec == Spec /\ WF_vars(Step)

-----------------------------------------------------------------------------
(* Properties.                                                             *)

TypeOK ==
    /\ options \in Options
    /\ pc \in {"idle", "attempt", "flight", "sleep"}
    /\ who \in Accounts
    /\ endpoint \in Endpoints
    /\ attempt \in Nat
    /\ waited \in Nat
    /\ firstError \in Errors \cup {"none"}
    /\ outcome \in Endpoints \cup Errors \cup {"none", "blocked"}
    /\ spent \in Nat
    /\ cache \in [Accounts -> Endpoints \cup {"empty"}]
    /\ cb \in Breakers
    /\ cancelled \in BOOLEAN
    /\ lookups \in 0..MaxLookups
    /\ sent \in Nat
    /\ total \in Nat
    /\ lost \in Nat
    /\ tripped \in BOOLEAN

\* The run sends at most horizon_max_requests requests, over all its lookups,
\* both endpoints and every retry (RateBudgetTracker, shared by fetchAccount),
\* and without a breaker RATE_BUDGET_EXHAUSTED means that it really sent that
\* many ("tracks every real Horizon HTTP call").
BudgetIsExact ==
    /\ MaxRequests > 0 => total <= MaxRequests
    /\ outcome = "budget" /\ ~options.breaker => total = MaxRequests

\* The worst case docs/ERROR_HANDLING.md gives for one endpoint of a lookup:
\* min(max_retries x retry_max_delay_ms, retry_max_total_wait_ms) of waiting
\* and one request more than max_retries, whatever Retry-After says.
WorstCase ==
    /\ waited <= MaxRetries * MaxDelay
    /\ waited <= MaxTotalWait
    /\ sent <= MaxRetries + 1

\* Without the opt-in, no account of another network is asked for, returned
\* or kept in the cache (the network binding rule of fetchAccount).
NetworkBound ==
    Separate =>
        /\ endpoint = "primary"
        /\ outcome # "fallback"
        /\ \A a \in Accounts : cache[a] # "fallback"

\* CIRCUIT_OPEN means an endpoint that does not answer at all: FailureThreshold
\* requests in a row were lost ("repeated consecutive failures",
\* docs/ERROR_HANDLING.md) and none has been answered since, whatever mix of
\* lookups, retries and endpoints sent them; an endpoint that answers, be it
\* with 404, 429 or 503 or with a body that cannot be read, is never cut off.
CircuitIsEarned ==
    pc = "idle" /\ outcome = "circuit" => tripped /\ lost > 0

\* Every lookup ends: retries, sleeps and the change of endpoint are finite.
LookupEnds == pc # "idle" ~> pc = "idle"
=============================================================================
