------------------------- MODULE HorizonFetchProofs -------------------------
(***************************************************************************)
(* Budget, retry bounds, the network binding rule and what a refusal by the *)
(* circuit breaker means, for every configuration of fetchAccount and any   *)
(* number of lookups.                                                       *)
(***************************************************************************)
EXTENDS HorizonFetch, CircuitBreakerProofs

USE BreakerAssumption, FetchAssumption
    DEF BreakerAssumption, FetchAssumption, Breakers, CircuitStates

-----------------------------------------------------------------------------
(* The inductive invariant.                                                *)

\* TypeOK without the breaker, which has an invariant of its own.
Typed ==
    /\ options \in Options
    /\ pc \in {"idle", "attempt", "flight", "sleep"}
    /\ who \in Accounts
    /\ endpoint \in Endpoints
    /\ attempt \in Nat
    /\ waited \in Nat
    /\ firstError \in Errors \cup {"none"}
    /\ outcome \in Endpoints \cup Errors \cup {"none", "blocked"}
    /\ spent \in Nat
    /\ cache \in [Accounts -> Endpoints \cup {"empty"}]
    /\ cancelled \in BOOLEAN
    /\ lookups \in 0..MaxLookups
    /\ sent \in Nat
    /\ total \in Nat

\* Every request was counted before it left; without a breaker what is counted
\* leaves, up to the limit, and an attempt beyond the limit raises the count
\* above it for good.
Counted ==
    /\ MaxRequests > 0 => total <= spent /\ total <= MaxRequests
    /\ MaxRequests > 0 /\ ~options.breaker =>
          /\ spent <= MaxRequests => total = spent
          /\ spent > MaxRequests => total = MaxRequests
    /\ outcome = "budget" => MaxRequests > 0 /\ spent > MaxRequests

\* Each attempt sent at most one request, and each sleep, the present one
\* included, is followed by one attempt.
Looped ==
    /\ attempt <= MaxRetries
    /\ pc = "sleep" => attempt < MaxRetries /\ waited <= (attempt + 1) * MaxDelay
    /\ pc # "sleep" => waited <= attempt * MaxDelay
    /\ waited <= MaxTotalWait
    /\ sent <= attempt + 1
    /\ pc = "attempt" => sent <= attempt

IInv == Typed /\ Fits(cb) /\ Counted /\ Looped /\ NetworkBound

-----------------------------------------------------------------------------
(* Arithmetic of the sleeps.                                               *)

LEMMA Monotone == ASSUME NEW a \in Nat, NEW b \in Nat, NEW c \in Nat, a <= b
                  PROVE  a * c <= b * c
  BY SMT

LEMMA OneSleepMore == ASSUME NEW a \in Nat, NEW c \in Nat, NEW w \in Nat, NEW d \in Nat,
                             w <= a * c, d <= c
                      PROVE  w + d <= (a + 1) * c
  <1>1. (a + 1) * c = a * c + c
    BY SMT
  <1>2. a * c \in Nat
    BY SMT
  <1> QED BY <1>1, <1>2

\* Whatever the header says, no sleep is longer than retryMaxDelayMs.
LEMMA DelayCapped == ASSUME NEW w \in Delays, NEW header, IsDelay(w, header)
                     PROVE  w \in Nat /\ w <= MaxDelay
  <1>1. w \in Nat
    BY DEF Delays, NoHeader
  <1> DEFINE wish == IF header = NoHeader THEN BaseDelay * 2 ^ attempt ELSE header
  <1>2. w = IF wish < MaxDelay THEN wish ELSE MaxDelay
    BY DEF IsDelay
  <1> HIDE DEF wish
  <1> QED BY <1>1, <1>2

-----------------------------------------------------------------------------
(* What the parts of a step do to the loop variables.                      *)

Loop == <<pc, who, endpoint, attempt, waited, firstError, outcome, sent>>

\* The conjuncts of the invariant that speak of the loop.
LoopOK ==
    /\ pc \in {"idle", "attempt", "flight", "sleep"}
    /\ who \in Accounts
    /\ endpoint \in Endpoints
    /\ attempt \in Nat /\ waited \in Nat /\ sent \in Nat
    /\ firstError \in Errors \cup {"none"}
    /\ outcome \in Endpoints \cup Errors \cup {"none", "blocked"}
    /\ Looped
    /\ Separate => endpoint = "primary" /\ outcome # "fallback"

LEMMA LoopOfIInv == IInv => LoopOK
  BY DEF IInv, Typed, LoopOK, NetworkBound

LEMMA BeginKeeps == ASSUME NEW a \in Accounts, NEW e \in Endpoints,
                           NEW error \in Errors \cup {"none"},
                           LoopOK, Begin(a, e, error), UNCHANGED options,
                           Separate => e = "primary"
                    PROVE  LoopOK'
  <1>1. 0 * MaxDelay = 0
    BY SMT
  <1> QED BY <1>1 DEF Begin, LoopOK, Looped, Separate

LEMMA FinishKeeps == ASSUME NEW result \in Endpoints \cup Errors \cup {"blocked"},
                            LoopOK, Finish(result), pc # "sleep", UNCHANGED options,
                            Separate => result # "fallback"
                     PROVE  LoopOK'
  BY DEF Finish, LoopOK, Looped, call, Separate

LEMMA ThrowKeeps == ASSUME NEW error \in Errors, LoopOK, Throw(error), pc # "sleep", UNCHANGED options
                    PROVE  LoopOK'
  <1>1. error # "fallback" /\ error \in Endpoints \cup Errors \cup {"blocked"}
    BY DEF Errors, Retryable
  <1>2. CASE endpoint = "primary" /\ MayFallBack(error)
    <2>1. Begin(who, "fallback", error) /\ who \in Accounts /\ "fallback" \in Endpoints
      BY <1>2 DEF Throw, LoopOK, Endpoints
    <2>2. ~Separate
      BY <1>2 DEF MayFallBack, Separate
    <2> QED BY <2>1, <2>2, BeginKeeps
  <1>3. CASE ~(endpoint = "primary" /\ MayFallBack(error))
    <2>1. Finish("blocked") \/ Finish(error)
      BY <1>3 DEF Throw, LoopOK, Endpoints
    <2> QED BY <1>1, <2>1, FinishKeeps
  <1> QED BY <1>2, <1>3

LEMMA RetryKeeps == ASSUME NEW header, NEW waits \in Errors, NEW last \in Errors,
                           LoopOK, pc = "flight", RetryOr(header, waits, last), UNCHANGED options
                    PROVE  LoopOK'
  <1>1. CASE Throw(waits) \/ Throw(last)
    BY <1>1, ThrowKeeps
  <1>2. CASE /\ MayRetry
             /\ \E w \in Delays : /\ IsDelay(w, header) /\ WithinWait(w)
                                  /\ waited' = waited + w
             /\ pc' = "sleep"
             /\ UNCHANGED <<who, endpoint, attempt, firstError, outcome, sent>>
    <2>1. PICK w \in Delays : IsDelay(w, header) /\ WithinWait(w) /\ waited' = waited + w
      BY <1>2
    <2>2. w \in Nat /\ w <= MaxDelay
      BY <2>1, DelayCapped
    <2>3. waited + w <= (attempt + 1) * MaxDelay
      BY <2>2, OneSleepMore DEF LoopOK, Looped
    <2>4. waited' \in Nat /\ waited' <= MaxTotalWait /\ waited' <= (attempt' + 1) * MaxDelay
      BY <1>2, <2>1, <2>2, <2>3 DEF WithinWait, LoopOK
    <2> QED BY <1>2, <2>4 DEF LoopOK, Looped, MayRetry, Separate
  <1> QED BY <1>1, <1>2 DEF RetryOr

\* Only an error that is thrown ends a lookup with it.
LEMMA ThrowResult == ASSUME NEW error, Throw(error)
                     PROVE  outcome' \in {outcome, error, "blocked"}
  BY DEF Throw, Begin, Finish

LEMMA RetryResult == ASSUME NEW header, NEW waits, NEW last, RetryOr(header, waits, last)
                     PROVE  outcome' \in {outcome, waits, last, "blocked"}
  BY ThrowResult DEF RetryOr

-----------------------------------------------------------------------------
\* What a step that leaves the rest alone has to show.
LEMMA Assemble == ASSUME IInv, LoopOK', Fits(cb)', Counted', UNCHANGED options,
                         spent' \in Nat, total' \in Nat, cancelled' \in BOOLEAN,
                         lookups' \in 0..MaxLookups,
                         cache' \in [Accounts -> Endpoints \cup {"empty"}],
                         Separate =>
                             \A a \in Accounts : cache'[a] # "fallback"
                  PROVE  IInv'
  BY DEF IInv, Typed, LoopOK, NetworkBound, Separate

LEMMA InductiveInit == Init => IInv
  <1> SUFFICES ASSUME Init PROVE IInv
    OBVIOUS
  <1>1. Typed
    <2>1. cache \in [Accounts -> Endpoints \cup {"empty"}]
      BY DEF Init
    <2>2. 0 \in 0..MaxLookups
      OBVIOUS
    <2> QED BY <2>1, <2>2 DEF Init, Typed, Endpoints
  <1>2. Fits(cb)
    BY NewFits DEF Init
  <1>3. Looped
    <2>1. 0 * MaxDelay = 0
      BY SMT
    <2> QED BY <2>1 DEF Init, Looped
  <1>4. Counted /\ NetworkBound
    BY DEF Init, Counted, NetworkBound, Endpoints, Separate
  <1> QED BY <1>1, <1>2, <1>3, <1>4 DEF IInv

\* The loop, the breaker and the counters after a step of the retry loop.
LEMMA StepKeeps == ASSUME IInv, Step PROVE IInv'
  <1> USE DEF Errors, Retryable
  <1>9. options' = options
    BY DEF Step
  <1>0. LoopOK /\ Fits(cb) /\ Typed /\ Counted /\ NetworkBound
    BY LoopOfIInv DEF IInv
  <1>1. Fits(cb)'
    <2>1. cb' \in {cb, Refreshed(cb), AfterSuccess(cb), AfterFailure(cb)}
      BY DEF Step, Stop, OverBudget, ShortCircuit, Send, Answer, Served, BodyLost, NotFound,
             Busy, Refuse, Lost, BadCertificate, Abort, WakeUp, Resolved, Rejected
    <2> QED BY <1>0, <2>1, RefreshedFits, SuccessFits, FailureFits
  <1>2. cancelled' = cancelled /\ lookups' = lookups
    BY DEF Step, Stop, OverBudget, ShortCircuit, Send, Answer, Served, BodyLost, NotFound,
           Busy, Refuse, Lost, BadCertificate, Abort, WakeUp
  <1>3. Step /\ ~OverBudget => outcome' = outcome \/ outcome' # "budget"
    <2>1. CASE Stop \/ ShortCircuit \/ NotFound \/ Refuse \/ BadCertificate \/ Abort
      BY <2>1, ThrowResult DEF Stop, ShortCircuit, NotFound, Refuse, BadCertificate, Abort
    <2>2. CASE Send \/ WakeUp
      BY <2>2 DEF Send, WakeUp
    <2>3. CASE Served
      BY <1>0, <2>3 DEF Served, Finish, LoopOK, Endpoints
    <2>4. CASE BodyLost \/ Lost
      <3>1. PICK kind \in {"timeout", "network"} : RetryOr(NoHeader, kind, kind)
        BY <2>4 DEF BodyLost, Lost
      <3> QED BY <3>1, RetryResult
    <2>5. CASE Busy
      BY <2>5, RetryResult DEF Busy
    <2> QED BY <2>1, <2>2, <2>3, <2>4, <2>5 DEF Step, Answer
  <1>4. Counted' /\ spent' \in Nat /\ total' \in Nat
    <2>1. CASE Send
      BY <1>0, <1>9, <2>1 DEF Send, Exceeded, Record, Counted, Typed
    <2>2. CASE OverBudget
      BY <1>0, <1>9, <2>2 DEF OverBudget, Exceeded, Record, Counted, Typed
    <2>3. CASE ShortCircuit
      <3>1. options.breaker
        BY <2>3 DEF ShortCircuit, Blocked
      <3>2. outcome' = outcome \/ outcome' # "budget"
        BY <2>3, ThrowResult DEF ShortCircuit
      <3> QED BY <1>0, <1>9, <2>3, <3>1, <3>2 DEF ShortCircuit, Record, Counted, Typed
    <2>4. CASE spent' = spent /\ total' = total /\ ~OverBudget
      BY <1>0, <1>3, <1>9, <2>4 DEF Counted, Typed
    <2> QED BY <2>1, <2>2, <2>3, <2>4
            DEF Step, Stop, Answer, Served, BodyLost, NotFound,
                Busy, Refuse, Lost, BadCertificate, Abort, WakeUp
  <1>5. /\ cache' \in [Accounts -> Endpoints \cup {"empty"}]
        /\ Separate => \A a \in Accounts : cache'[a] # "fallback"
    <2>1. CASE Served
      BY <1>0, <2>1 DEF Served, Typed, NetworkBound
    <2>2. CASE cache' = cache
      BY <1>0, <2>2 DEF Typed, NetworkBound
    <2> QED BY <2>1, <2>2
            DEF Step, Stop, OverBudget, ShortCircuit, Send, Answer, BodyLost, NotFound,
                Busy, Refuse, Lost, BadCertificate, Abort, WakeUp
  <1>6. LoopOK'
    <2>1. CASE Stop \/ OverBudget \/ ShortCircuit \/ NotFound \/ Refuse \/ BadCertificate \/ Abort
      BY <1>0, <1>9, <2>1, ThrowKeeps
         DEF Stop, OverBudget, ShortCircuit, NotFound, Refuse, BadCertificate, Abort
    <2>2. CASE Send
      BY <1>0, <1>9, <2>2 DEF Send, LoopOK, Looped, call, Separate
    <2>3. CASE Served
      <3>1. endpoint \in Endpoints /\ (Separate => endpoint # "fallback")
        BY <1>0 DEF LoopOK
      <3> QED BY <1>0, <1>9, <2>3, <3>1, FinishKeeps DEF Served
    <2>4. CASE BodyLost \/ Lost
      <3>1. PICK kind \in {"timeout", "network"} : RetryOr(NoHeader, kind, kind)
        BY <2>4 DEF BodyLost, Lost
      <3>2. pc = "flight" /\ kind \in Errors
        BY <2>4 DEF BodyLost, Lost
      <3> QED BY <1>0, <1>9, <3>1, <3>2, RetryKeeps
    <2>5. CASE Busy
      <3>1. PICK header \in RetryAfters : RetryOr(header, "waits", "busy")
        BY <2>5 DEF Busy
      <3> QED BY <1>0, <1>9, <2>5, <3>1, RetryKeeps DEF Busy
    <2>6. CASE WakeUp
      BY <1>0, <1>9, <2>6 DEF WakeUp, LoopOK, Looped, Separate
    <2> QED BY <2>1, <2>2, <2>3, <2>4, <2>5, <2>6 DEF Step, Answer
  <1> QED BY <1>0, <1>1, <1>2, <1>4, <1>5, <1>6, <1>9, Assemble DEF Typed

LEMMA LookupKeeps == ASSUME IInv, NEW a \in Accounts, Lookup(a), UNCHANGED options PROVE IInv'
  <1>0. LoopOK /\ Fits(cb) /\ Typed /\ Counted /\ NetworkBound
    BY LoopOfIInv DEF IInv
  <1>1. LoopOK'
    <2>1. CASE Finish("cancelled")
      BY <1>0, <2>1, FinishKeeps DEF Lookup, Errors
    <2>2. CASE cache[a] # "empty" /\ Finish(cache[a])
      <3>1. cache[a] \in Endpoints /\ (Separate => cache[a] # "fallback")
        BY <1>0, <2>2 DEF Typed, NetworkBound
      <3> QED BY <1>0, <2>2, <3>1, FinishKeeps DEF Lookup
    <2>3. CASE Begin(a, "primary", "none")
      BY <1>0, <2>3, BeginKeeps DEF Endpoints
    <2> QED BY <2>1, <2>2, <2>3 DEF Lookup
  <1>2. Fits(cb)' /\ Counted'
    <2>1. outcome' = outcome \/ outcome' # "budget"
      BY <1>0 DEF Lookup, Begin, Finish, Typed, Endpoints
    <2> QED BY <1>0, <2>1 DEF Lookup, Counted
  <1>3. lookups' \in 0..MaxLookups
    BY <1>0 DEF Lookup, Typed
  <1>4. Separate => \A b \in Accounts : cache'[b] # "fallback"
    BY <1>0 DEF Lookup, NetworkBound
  <1> QED BY <1>0, <1>1, <1>2, <1>3, <1>4, Assemble DEF Lookup, Typed

LEMMA InductiveStep == IInv /\ [Next]_vars => IInv'
  <1> SUFFICES ASSUME IInv, [Next]_vars PROVE IInv'
    OBVIOUS
  <1>0. LoopOK /\ Fits(cb) /\ Typed /\ Counted /\ NetworkBound
    BY LoopOfIInv DEF IInv
  <1>1. CASE Step
    BY <1>1, StepKeeps
  <1>2. ASSUME NEW a \in Accounts, Lookup(a), UNCHANGED options PROVE IInv'
    BY <1>2, LookupKeeps
  <1>3. ASSUME NEW a \in Accounts, Expire(a), UNCHANGED options PROVE IInv'
    <2>1. LoopOK' /\ Fits(cb)' /\ Counted'
      BY <1>0, <1>3 DEF Expire, LoopOK, Looped, Counted, call, Separate
    <2>2. /\ cache' \in [Accounts -> Endpoints \cup {"empty"}]
          /\ Separate => \A b \in Accounts : cache'[b] # "fallback"
      BY <1>0, <1>3 DEF Expire, Typed, NetworkBound
    <2> QED BY <1>0, <1>3, <2>1, <2>2, Assemble DEF Expire, Typed
  <1>4. CASE (Cancel \/ Tick \/ UNCHANGED vars) /\ UNCHANGED options
    <2>1. Fits(cb)'
      BY <1>0, <1>4, AgedFits DEF Cancel, Tick, vars
    <2>2. LoopOK' /\ Counted'
      BY <1>0, <1>4 DEF Cancel, Tick, vars, LoopOK, Looped, Counted, call, Separate
    <2>3. Separate => \A b \in Accounts : cache'[b] # "fallback"
      BY <1>0, <1>4 DEF Cancel, Tick, vars, NetworkBound
    <2> QED BY <1>0, <1>4, <2>1, <2>2, <2>3, Assemble DEF Cancel, Tick, vars, Typed
  <1> QED BY <1>1, <1>2, <1>3, <1>4 DEF Next, vars

LEMMA Inductive == Spec => []IInv
  BY InductiveInit, InductiveStep, PTL DEF Spec

-----------------------------------------------------------------------------
\* The run never sends more than horizon_max_requests requests, and without a
\* breaker it reports an exhausted budget only when it sent that many.
THEOREM BudgetHolds == Spec => []BudgetIsExact
  <1>1. IInv => BudgetIsExact
    BY DEF IInv, Counted, BudgetIsExact, Typed
  <1> QED BY <1>1, Inductive, PTL

\* The documented worst case of one endpoint, for any max_retries, delays,
\* total wait and Retry-After values.
THEOREM WorstCaseHolds == Spec => []WorstCase
  <1>1. IInv => WorstCase
    <2> SUFFICES ASSUME IInv PROVE WorstCase
      OBVIOUS
    <2>1. /\ attempt \in Nat /\ waited \in Nat /\ sent \in Nat
          /\ attempt <= MaxRetries /\ sent <= attempt + 1 /\ waited <= MaxTotalWait
      BY DEF IInv, Typed, Looped
    <2>2. waited <= MaxRetries * MaxDelay
      <3>1. CASE pc = "sleep"
        <4>1. attempt + 1 \in Nat /\ attempt + 1 <= MaxRetries /\ waited <= (attempt + 1) * MaxDelay
          BY <2>1, <3>1 DEF IInv, Looped
        <4>2. (attempt + 1) * MaxDelay <= MaxRetries * MaxDelay
          BY <4>1, Monotone
        <4> QED BY <2>1, <4>1, <4>2
      <3>2. CASE pc # "sleep"
        <4>1. waited <= attempt * MaxDelay
          BY <3>2 DEF IInv, Looped
        <4>2. attempt * MaxDelay <= MaxRetries * MaxDelay
          BY <2>1, Monotone
        <4> QED BY <2>1, <4>1, <4>2
      <3> QED BY <3>1, <3>2
    <2> QED BY <2>1, <2>2 DEF WorstCase
  <1> QED BY <1>1, Inductive, PTL

\* Without the opt-in no account of another network is asked for, returned or
\* cached.
THEOREM NetworkHolds == Spec => []NetworkBound
  <1>1. IInv => NetworkBound
    BY DEF IInv
  <1> QED BY <1>1, Inductive, PTL

-----------------------------------------------------------------------------
(* The breaker and the requests that were lost.                            *)

\* A closed breaker has counted no more failures than requests were lost in a
\* row, one that is not closed was opened by FailureThreshold of them, and an
\* open one has seen no answer since.
Earned ==
    /\ lost \in Nat /\ tripped \in BOOLEAN
    /\ cb.state = "closed" => cb.failures <= lost
    /\ cb.state # "closed" => tripped
    /\ cb.state = "open" => lost > 0
    /\ ~options.breaker => cb.state = "closed" /\ cb.failures = 0
    /\ pc = "flight" => cb.state # "open"
    /\ CircuitIsEarned

\* A refreshed breaker is the same one or has become half-open.
LEMMA RefreshedState ==
    ASSUME NEW b, Fits(b)
    PROVE  \/ Refreshed(b) = b
           \/ b.state = "open" /\ Refreshed(b).state = "half-open"
  <1>1. CASE b.state = "open" /\ b.elapsed >= RecoveryTimeout
    <2>1. PICK m : m = [b EXCEPT !.state = "half-open"]
      OBVIOUS
    <2>2. PICK n : n = [m EXCEPT !.successes = 0]
      OBVIOUS
    <2>3. m.state = "half-open" /\ m \in Breakers
      BY <2>1 DEF Fits
    <2>4. n.state = "half-open"
      BY <2>2, <2>3
    <2>5. Refreshed(b) = n
      BY <1>1, <2>1, <2>2 DEF Refreshed
    <2> QED BY <1>1, <2>4, <2>5
  <1>2. CASE ~(b.state = "open" /\ b.elapsed >= RecoveryTimeout)
    BY <1>2 DEF Refreshed
  <1> QED BY <1>1, <1>2

\* The clock changes neither the state nor the failures.
LEMMA AgedState == ASSUME NEW b, Fits(b)
                   PROVE  Aged(b).state = b.state /\ Aged(b).failures = b.failures
  BY DEF Fits, Aged

\* An answer clears the failures and never opens.
LEMMA SuccessState ==
    ASSUME NEW b, Fits(b), b.state # "open"
    PROVE  /\ AfterSuccess(b).state # "open"
           /\ AfterSuccess(b).state = "closed" => AfterSuccess(b).failures = 0
           /\ AfterSuccess(b).state = "half-open" => b.state = "half-open"
  <1>1. CASE b.state = "closed"
    <2>1. AfterSuccess(b) = [b EXCEPT !.failures = 0]
      BY <1>1 DEF AfterSuccess
    <2> QED BY <1>1, <2>1 DEF Fits
  <1>2. CASE b.state = "half-open" /\ b.successes + 1 < SuccessThreshold
    <2>1. AfterSuccess(b) = [b EXCEPT !.successes = @ + 1]
      BY <1>2 DEF AfterSuccess, Fits
    <2> QED BY <1>2, <2>1 DEF Fits
  <1>3. CASE b.state = "half-open" /\ ~(b.successes + 1 < SuccessThreshold)
    <2>1. b.successes + 1 >= SuccessThreshold
      BY <1>3 DEF Fits
    <2>2. AfterSuccess(b) = NewBreaker
      BY <1>3, <2>1 DEF AfterSuccess
    <2> QED BY <2>2 DEF NewBreaker
  <1> QED BY <1>1, <1>2, <1>3 DEF Fits

\* A loss opens a closed breaker at the threshold and a half-open one at once.
LEMMA FailureState ==
    ASSUME NEW b, Fits(b), b.state # "open"
    PROVE  /\ AfterFailure(b).state \in {"closed", "open"}
           /\ AfterFailure(b).state = "closed" =>
                 b.state = "closed" /\ AfterFailure(b).failures <= b.failures + 1
           /\ AfterFailure(b).state = "open" =>
                 b.state = "half-open" \/ b.failures + 1 >= FailureThreshold
  <1>1. CASE b.state = "half-open"
    <2>1. PICK m : m = [b EXCEPT !.state = "open"]
      OBVIOUS
    <2>2. PICK n : n = [m EXCEPT !.elapsed = 0]
      OBVIOUS
    <2>3. PICK o : o = [n EXCEPT !.successes = 0]
      OBVIOUS
    <2>4. m \in Breakers /\ m.state = "open"
      BY <2>1 DEF Fits
    <2>5. n \in Breakers /\ n.state = "open"
      BY <2>2, <2>4
    <2>6. o.state = "open"
      BY <2>3, <2>5
    <2>7. AfterFailure(b) = o
      BY <1>1, <2>1, <2>2, <2>3 DEF AfterFailure
    <2> QED BY <1>1, <2>6, <2>7
  <1>2. CASE b.state = "closed" /\ b.failures + 1 >= FailureThreshold
    <2>0. b \in Breakers /\ OneMore(b.failures) \in 0..MaxFailures
      BY DEF Fits, OneMore
    <2>1. AfterFailure(b) = [[[b EXCEPT !.state = "open"] EXCEPT !.elapsed = 0]
                               EXCEPT !.failures = OneMore(b.failures)]
      BY <1>2, <2>0 DEF AfterFailure
    <2>2. AfterFailure(b).state = "open"
      BY <2>0, <2>1
    <2> QED BY <1>2, <2>2
  <1>3. CASE b.state = "closed" /\ b.failures + 1 < FailureThreshold
    <2>1. AfterFailure(b) = [b EXCEPT !.failures = OneMore(@)]
      BY <1>3 DEF AfterFailure, Fits
    <2>2. b.failures \in Nat /\ b.failures <= MaxFailures
      BY DEF Fits
    <2>3. OneMore(b.failures) <= b.failures + 1
      BY <2>2 DEF OneMore
    <2>4. AfterFailure(b).state = "closed" /\ AfterFailure(b).failures = OneMore(b.failures)
      BY <1>3, <2>1 DEF Fits
    <2> QED BY <1>3, <2>3, <2>4
  <1>4. b.failures \in Nat
    BY DEF Fits
  <1> QED BY <1>1, <1>2, <1>3, <1>4 DEF Fits

\* A thrown error starts the fallback or is what the lookup ends with.
LEMMA ThrowEnds == ASSUME NEW error, Throw(error)
                   PROVE  pc' = "attempt" \/ (pc' = "idle" /\ outcome' \in {error, "blocked"})
  BY DEF Throw, Begin, Finish

LEMMA RetryEnds == ASSUME NEW header, NEW waits, NEW last, RetryOr(header, waits, last)
                   PROVE  \/ pc' \in {"attempt", "sleep"}
                          \/ pc' = "idle" /\ outcome' \in {waits, last, "blocked"}
  BY ThrowEnds DEF RetryOr

\* After the answer to a request, or its loss, the breaker and the history
\* agree again, whatever the retry loop does next.
LEMMA AnswerKeepsEarned ==
    ASSUME IInv, Earned, pc = "flight", Resolved \/ Rejected, UNCHANGED options,
           pc' \in {"idle", "attempt", "sleep"},
           pc' = "idle" => outcome' # "circuit"
    PROVE  Earned'
  <1>1. Fits(cb) /\ cb.state # "open"
    BY DEF IInv, Earned
  <1>2. CASE Resolved /\ options.breaker
    <2>1. /\ cb' = AfterSuccess(cb) /\ lost' = 0 /\ tripped' = tripped
      BY <1>2 DEF Resolved
    <2>2. /\ cb'.state # "open"
          /\ cb'.state = "closed" => cb'.failures = 0
          /\ cb'.state = "half-open" => cb.state = "half-open"
      BY <1>1, <2>1, SuccessState
    <2>3. Fits(cb')
      BY <1>1, <2>1, SuccessFits
    <2> QED BY <1>2, <2>1, <2>2, <2>3 DEF Earned, CircuitIsEarned, Fits
  <1>3. CASE Resolved /\ ~options.breaker
    BY <1>3 DEF Earned, CircuitIsEarned, Resolved
  <1>4. CASE Rejected /\ options.breaker
    <2>1. /\ cb' = AfterFailure(cb) /\ lost' = lost + 1
          /\ tripped' = (tripped \/ lost + 1 >= FailureThreshold)
      BY <1>4 DEF Rejected
    <2>2. /\ cb'.state \in {"closed", "open"}
          /\ cb'.state = "closed" => cb.state = "closed" /\ cb'.failures <= cb.failures + 1
          /\ cb'.state = "open" => cb.state = "half-open" \/ cb.failures + 1 >= FailureThreshold
      BY <1>1, <2>1, FailureState
    <2>3. lost \in Nat /\ tripped \in BOOLEAN /\ cb.failures \in Nat
      BY <1>1 DEF Earned, Fits
    <2>4. Fits(cb')
      BY <1>1, <2>1, FailureFits
    <2>5. cb'.failures \in Nat
      BY <2>4 DEF Fits
    <2>6. cb'.state = "closed" => cb'.failures <= lost'
      BY <2>1, <2>2, <2>3, <2>5 DEF Earned
    <2>7. cb'.state # "closed" => tripped'
      <3>1. SUFFICES ASSUME cb'.state # "closed" PROVE tripped'
        OBVIOUS
      <3>2. CASE cb.state = "half-open"
        BY <2>1, <3>2 DEF Earned
      <3>3. CASE cb.state # "half-open"
        <4>1. cb.state = "closed" /\ cb.failures + 1 >= FailureThreshold
          BY <1>1, <2>2, <3>1, <3>3 DEF Fits
        <4>2. lost + 1 >= FailureThreshold
          BY <2>3, <4>1 DEF Earned
        <4> QED BY <2>1, <4>2
      <3> QED BY <3>2, <3>3
    <2>8. lost' \in Nat /\ lost' > 0 /\ tripped' \in BOOLEAN
      BY <2>1, <2>3
    <2> QED BY <1>4, <2>6, <2>7, <2>8 DEF Earned, CircuitIsEarned
  <1>5. CASE Rejected /\ ~options.breaker
    <2>1. lost' = lost + 1 /\ tripped' = (tripped \/ lost + 1 >= FailureThreshold) /\ cb' = cb
      BY <1>5 DEF Rejected
    <2>2. lost \in Nat /\ tripped \in BOOLEAN /\ cb.state = "closed" /\ cb.failures = 0
      BY <1>5 DEF Earned
    <2>3. lost' \in Nat /\ cb'.failures <= lost' /\ tripped' \in BOOLEAN
      BY <2>1, <2>2
    <2> QED BY <1>5, <2>1, <2>2, <2>3 DEF Earned, CircuitIsEarned
  <1> QED BY <1>2, <1>3, <1>4, <1>5

LEMMA EarnedStep == IInv /\ Earned /\ [Next]_vars => Earned'
  <1> SUFFICES ASSUME IInv, Earned, [Next]_vars PROVE Earned'
    OBVIOUS
  <1> USE DEF Errors, Retryable
  <1>0. Fits(cb) /\ Typed
    BY DEF IInv
  <1>1. CASE Stop /\ UNCHANGED options
    BY <1>1, ThrowEnds DEF Stop, Earned, CircuitIsEarned
  <1>2. CASE OverBudget /\ UNCHANGED options
    BY <1>2, ThrowEnds DEF OverBudget, Earned, CircuitIsEarned
  <1>3. CASE ShortCircuit /\ UNCHANGED options
    <2>1. cb.state = "open"
      BY <1>0, <1>3, RefreshedState DEF ShortCircuit, Blocked
    <2> QED BY <1>3, <2>1, ThrowEnds DEF ShortCircuit, Earned, CircuitIsEarned
  <1>4. CASE Send /\ UNCHANGED options
    <2>1. CASE options.breaker
      <3>1. cb' = Refreshed(cb) /\ cb'.state # "open"
        BY <1>4, <2>1 DEF Send, Blocked
      <3>2. \/ cb' = cb
            \/ cb.state = "open" /\ cb'.state = "half-open"
        BY <1>0, <3>1, RefreshedState
      <3> QED BY <1>4, <2>1, <3>1, <3>2 DEF Send, Earned, CircuitIsEarned
    <2>2. CASE ~options.breaker
      BY <1>4, <2>2 DEF Send, Earned, CircuitIsEarned
    <2> QED BY <2>1, <2>2
  <1>5. CASE Answer /\ UNCHANGED options
    <2>1. pc = "flight" /\ (Resolved \/ Rejected)
      BY <1>5 DEF Answer, Served, BodyLost, NotFound, Busy, Refuse, Lost, BadCertificate, Abort
    <2>2. pc' \in {"idle", "attempt", "sleep"} /\ (pc' = "idle" => outcome' # "circuit")
      <3>1. CASE NotFound \/ Refuse \/ BadCertificate \/ Abort
        BY <3>1, ThrowEnds DEF NotFound, Refuse, BadCertificate, Abort
      <3>2. CASE Served
        BY <1>0, <3>2 DEF Served, Finish, Typed, Endpoints
      <3>3. CASE BodyLost \/ Lost
        <4>1. PICK kind \in {"timeout", "network"} : RetryOr(NoHeader, kind, kind)
          BY <3>3 DEF BodyLost, Lost
        <4> QED BY <4>1, RetryEnds
      <3>4. CASE Busy
        BY <3>4, RetryEnds DEF Busy
      <3> QED BY <1>5, <3>1, <3>2, <3>3, <3>4 DEF Answer
    <2> QED BY <1>5, <2>1, <2>2, AnswerKeepsEarned
  <1>6. CASE WakeUp /\ UNCHANGED options
    BY <1>6 DEF WakeUp, Earned, CircuitIsEarned
  <1>7. ASSUME NEW a \in Accounts, Lookup(a), UNCHANGED options PROVE Earned'
    BY <1>0, <1>7 DEF Lookup, Begin, Finish, Typed, Endpoints, Earned, CircuitIsEarned
  <1>8. ASSUME NEW a \in Accounts, Expire(a), UNCHANGED options PROVE Earned'
    BY <1>8 DEF Expire, Earned, CircuitIsEarned
  <1>9. CASE Tick /\ UNCHANGED options
    <2>1. cb'.state = cb.state /\ cb'.failures = cb.failures
      BY <1>0, <1>9, AgedState DEF Tick
    <2> QED BY <1>9, <2>1 DEF Tick, Earned, CircuitIsEarned
  <1>10. CASE (Cancel /\ UNCHANGED options) \/ UNCHANGED vars
    BY <1>10 DEF Cancel, vars, Earned, CircuitIsEarned
  <1> QED BY <1>1, <1>2, <1>3, <1>4, <1>5, <1>6, <1>7, <1>8, <1>9, <1>10
          DEF Next, Step

LEMMA EarnedAlways == Spec => []Earned
  <1>1. Init => Earned
    <2>1. NewBreaker.state = "closed" /\ NewBreaker.failures = 0
      BY DEF NewBreaker
    <2> SUFFICES ASSUME Init PROVE Earned
      OBVIOUS
    <2>2. cb.state = "closed" /\ cb.failures = 0
      BY <2>1 DEF Init
    <2>3. lost = 0 /\ cb.failures <= lost
      BY <2>2 DEF Init
    <2>4. tripped \in BOOLEAN /\ pc = "idle" /\ outcome = "none"
      BY DEF Init
    <2> QED BY <2>2, <2>3, <2>4 DEF Earned, CircuitIsEarned
  <1> QED BY <1>1, EarnedStep, Inductive, PTL DEF Spec

\* The variables keep their types in every configuration.
THEOREM TypeCorrect == Spec => []TypeOK
  <1>1. IInv /\ Earned => TypeOK
    BY DEF IInv, Typed, Fits, Earned, TypeOK
  <1> QED BY <1>1, Inductive, EarnedAlways, PTL

\* A lookup is refused as CIRCUIT_OPEN only after FailureThreshold requests in
\* a row were lost and while nothing has been answered since, for every
\* threshold, recovery time, budget and number of lookups.
THEOREM CircuitHolds == Spec => []CircuitIsEarned
  <1>1. Earned => CircuitIsEarned
    BY DEF Earned
  <1> QED BY <1>1, EarnedAlways, PTL
=============================================================================
