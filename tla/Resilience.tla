------------------------------ MODULE Resilience ------------------------------
(* The command-line check of one account and the helpers it is built from     *)
(* (src/resilience.ts): runCliCheck asks a Horizon with retryWithBackoff and  *)
(* then, when that gave no verdict, a second one; RateLimiter is the token    *)
(* bucket the same file exports. The servers are those of HttpMockMatrix, the *)
(* program's own table of how a Horizon answers, and "live", which answers    *)
(* anything. Delays are in tenths of the first delay, so that jitter of ten   *)
(* per cent is a whole number.                                                *)
EXTENDS Integers, FiniteSetsExt

CONSTANTS
  Scenarios,        \* how a server behaves
  MaxRetries,       \* RetryPolicy.maxRetries
  MaxDelay,         \* RetryPolicy.maxDelayMs
  MaxTotalWait,     \* RetryPolicy.maxTotalWaitMs
  FlakyFailCount,   \* answers a flaky server gets wrong
  Capacity, Rate,   \* the bucket: its size, tokens per second
  MaxSecond         \* bound: seconds the limiter is watched

ASSUME ResilienceAssumption ==
  /\ Scenarios \subseteq {"success", "not_found", "rate_limit", "server_error", "bad_gateway", "gateway_timeout",
                         "timeout", "network_error", "always_fail", "live", "flaky_then_success"}
  /\ {MaxRetries, MaxDelay, MaxTotalWait, FlakyFailCount, Capacity, Rate, MaxSecond} \subseteq Nat

VARIABLES
  check,      \* the check being run
  answered,     \* calls each server has answered in this check
  last,       \* the last status each server answered, "none" if none
  bucket,     \* tokens and the time of the last refill
  second,     \* the clock the limiter reads
  granted     \* tokens granted up to the end of each second, since the last reset

resilienceVars == <<check, answered, last, bucket, second, granted>>

Servers == {"primary", "secondary"}
InitialDelay == 10

-----------------------------------------------------------------------------
(* HttpMockMatrix: what call number n of a server answers. A status of        *)
(* "error" is a rejected fetch, and so is the abort after policy.timeoutMs.   *)
StatusOf == [success |-> {"200"}, not_found |-> {"404"}, rate_limit |-> {"429"}, server_error |-> {"503"},
             bad_gateway |-> {"502"}, gateway_timeout |-> {"504"}, timeout |-> {"error"},
             network_error |-> {"error"}, always_fail |-> {"503"},
             live |-> {"200", "404", "400", "429", "502", "503", "error"}]
Answers(scenario, n) ==
  IF scenario = "flaky_then_success"
  THEN IF n <= FlakyFailCount THEN StatusOf["rate_limit"] ELSE StatusOf["success"]
  ELSE StatusOf[scenario]

(* A transient status is thrown inside the retried function; 503 is not one.  *)
Thrown(status) == status \in {"429", "502", "504", "error"}

calculateBackoffDelay(attempt) == Min({InitialDelay * 2 ^ attempt, MaxDelay})
(* addJitter: within ten per cent of the delay, never above the cap.          *)
addJitter(delay) == {Min({d, MaxDelay}) : d \in {delay - delay \div 10, delay, delay + delay \div 10}}

OverBudget(waited, delay) == delay > MaxDelay \/ waited + delay > MaxTotalWait

-----------------------------------------------------------------------------
NotStarted == [phase |-> "idle"]
NewBucket == [tokens |-> Capacity, at |-> 0]

ResilienceInit ==
  /\ check = NotStarted
  /\ answered = [s \in Servers |-> 0]
  /\ last = [s \in Servers |-> "none"]
  /\ bucket = NewBucket /\ second = 0
  /\ granted = [t \in 0..MaxSecond |-> 0]

(* runCliCheck is called with one or two endpoints and a network switch.      *)
StartCheck ==
  /\ check.phase = "idle"
  /\ \E primary, secondary \in Scenarios, backup, same, cross \in BOOLEAN :
       check' = [phase |-> "asking", at |-> "primary", scenario |-> [primary |-> primary, secondary |-> secondary],
                 configured |-> backup, sameNetwork |-> same, cross |-> cross,
                 attempt |-> 0, waited |-> 0, status |-> "none", retries |-> 0, secondaryRetries |-> 0,
                 used |-> "primary", failedOver |-> FALSE]
  /\ UNCHANGED <<answered, last, bucket, second, granted>>

MayFailOver(c) == /\ c.status \notin {"200", "404"} /\ c.configured
                  /\ c.sameNetwork \/ c.cross

(* Mutation of Concluded: the URL that answered is not recorded.              *)
ConcludedOnPrimary(c) ==
  IF c.at = "primary" /\ MayFailOver(c)
  THEN [c EXCEPT !.at = "secondary", !.attempt = 0, !.waited = 0]
  ELSE IF c.at = "secondary" /\ c.status \in {"200", "404"}
  THEN [c EXCEPT !.phase = "done", !.failedOver = TRUE, !.retries = @ + c.secondaryRetries]
  ELSE [c EXCEPT !.phase = "done"]
(* The retried calls to one server are over, by an answer or by exhaustion.   *)
Concluded(c) ==
  IF c.at = "primary" /\ MayFailOver(c)
  THEN [c EXCEPT !.at = "secondary", !.attempt = 0, !.waited = 0]
  ELSE IF c.at = "secondary" /\ c.status \in {"200", "404"}
  THEN [c EXCEPT !.phase = "done", !.failedOver = TRUE, !.used = "secondary", !.retries = @ + c.secondaryRetries]
  ELSE [c EXCEPT !.phase = "done"]
(* Exhaustion also counts the retries made on the secondary.                  *)
GivenUp(c) == IF c.at = "primary" THEN Concluded(c)
              ELSE [c EXCEPT !.phase = "done", !.retries = @ + c.secondaryRetries]

(* shouldRetry counts the retry before the budget is looked at.               *)
Counted(c) == IF c.at = "primary" THEN [c EXCEPT !.retries = c.attempt + 1]
              ELSE [c EXCEPT !.secondaryRetries = c.attempt + 1]

(* One fetch: statusCode keeps its value when the fetch is rejected.          *)
AnswerFetch ==
  /\ check.phase = "asking"
  /\ \E status \in Answers(check.scenario[check.at], answered[check.at] + 1) :
       LET heard == IF status = "error" THEN check ELSE [check EXCEPT !.status = status] IN
       /\ last' = [last EXCEPT ![check.at] = IF status = "error" THEN @ ELSE status]
       /\ answered' = [answered EXCEPT ![check.at] = @ + 1]
       /\ IF ~Thrown(status) THEN check' = Concluded(heard)
          ELSE IF check.attempt >= MaxRetries THEN check' = GivenUp(heard)
          ELSE \E delay \in addJitter(calculateBackoffDelay(check.attempt)) :
                 check' = IF OverBudget(check.waited, delay) THEN GivenUp(Counted(heard))
                          ELSE [Counted(heard) EXCEPT !.phase = "waiting", !.waited = @ + delay]
  /\ UNCHANGED <<bucket, second, granted>>

WakeUp ==
  /\ check.phase = "waiting"
  /\ check' = [check EXCEPT !.phase = "asking", !.attempt = @ + 1]
  /\ UNCHANGED <<answered, last, bucket, second, granted>>

-----------------------------------------------------------------------------
(* RateLimiter. Every call refills first, from the time since the last refill.*)
(* Mutation of refill: the bucket is not capped at its capacity.              *)
refillUncapped(b) == [tokens |-> b.tokens + (second - b.at) * Rate, at |-> second]
refill(b) == [tokens |-> Min({Capacity, b.tokens + (second - b.at) * Rate}), at |-> second]

tryConsume ==
  /\ \E n \in 1..Capacity :
       LET b == refill(bucket) IN
       /\ bucket' = IF b.tokens >= n THEN [b EXCEPT !.tokens = @ - n] ELSE b
       /\ granted' = IF b.tokens >= n THEN [t \in 0..MaxSecond |-> IF t < second THEN granted[t] ELSE granted[t] + n]
                   ELSE granted
  /\ UNCHANGED <<check, answered, last, second>>

(* waitTimeMs and getAvailableTokens refill and change nothing else.          *)
waitTimeMs ==
  /\ bucket' = refill(bucket)
  /\ UNCHANGED <<check, answered, last, second, granted>>

reset ==
  /\ bucket' = [tokens |-> Capacity, at |-> second]
  /\ granted' = [t \in 0..MaxSecond |-> 0]
  /\ UNCHANGED <<check, answered, last, second>>

PassSecond ==
  /\ second < MaxSecond
  /\ second' = second + 1
  /\ UNCHANGED <<check, answered, last, bucket, granted>>

CheckNext == StartCheck \/ AnswerFetch \/ WakeUp
LimiterNext == tryConsume \/ waitTimeMs \/ reset \/ PassSecond
ResilienceNext == CheckNext \/ LimiterNext
ResilienceSpec == ResilienceInit /\ [][ResilienceNext]_resilienceVars

-----------------------------------------------------------------------------
(* The endpoint a finished check names is the one that gave its verdict: a    *)
(* reachable account was seen there by its last answer, and an answer of the  *)
(* second endpoint counts only on the same network or where that is allowed.  *)
VerdictIsOfItsEndpoint ==
  check.phase = "done" =>
    /\ check.status = "200" => last[check.used] = "200"
    /\ check.status = "404" => last[check.used] = "404"
    /\ answered["secondary"] > 0 => check.sameNetwork \/ check.cross
    /\ check.failedOver => last["primary"] \notin {"200", "404"}

(* However the jitter falls, the waits on one endpoint stay within the total  *)
(* of the policy, and no endpoint is asked more than MaxRetries + 1 times.    *)
WaitsAreBounded ==
  check.phase # "idle" =>
    /\ check.waited <= MaxTotalWait
    /\ \A s \in Servers : answered[s] <= MaxRetries + 1

(* Over any stretch of time the limiter grants no more than a full bucket and *)
(* what is refilled in that time, whatever calls were refused before it.      *)
GrantedBefore(t) == IF t = 0 THEN 0 ELSE granted[t - 1]
RateIsKept ==
  \A from \in 0..second : \A to \in from..second :
    granted[to] - GrantedBefore(from) <= Capacity + Rate * (to - from)

(* A check that ends says what was seen, where, and after bounded waiting     *)
(* (runCliCheck over retryWithBackoff).                                       *)
CheckIsSound == VerdictIsOfItsEndpoint /\ WaitsAreBounded
=============================================================================
