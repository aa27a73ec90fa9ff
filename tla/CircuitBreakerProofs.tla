------------------------ MODULE CircuitBreakerProofs ------------------------
(***************************************************************************)
(* The breaker's counters fit its state and an open circuit stays open      *)
(* until the recovery timeout, for every threshold, every timeout and every *)
(* number of calls in flight.                                               *)
(***************************************************************************)
EXTENDS CircuitBreaker, TLAPS

-----------------------------------------------------------------------------
(* Every rule of the breaker takes a breaker whose counters fit its state   *)
(* to another one.                                                         *)

\* A breaker whose counters fit its state.
Fits(b) ==
    /\ b \in Breakers
    /\ b.state = "closed" => b.failures < FailureThreshold /\ b.successes = 0
    /\ b.state = "open" => b.failures >= FailureThreshold /\ b.successes = 0
    /\ b.state = "half-open" => /\ b.failures >= FailureThreshold
                                /\ b.successes < SuccessThreshold
                                /\ b.elapsed >= RecoveryTimeout

USE BreakerAssumption DEF BreakerAssumption, Breakers, CircuitStates

LEMMA NewFits == Fits(NewBreaker)
  BY DEF Fits, NewBreaker

LEMMA RefreshedFits == ASSUME NEW b, Fits(b) PROVE Fits(Refreshed(b))
  <1>1. CASE b.state = "open" /\ b.elapsed >= RecoveryTimeout
    <2>1. PICK m : m = [b EXCEPT !.state = "half-open"]
      OBVIOUS
    <2>2. PICK n : n = [m EXCEPT !.successes = 0]
      OBVIOUS
    <2>3. /\ m \in Breakers /\ m.state = "half-open"
          /\ m.failures = b.failures /\ m.elapsed = b.elapsed
      BY <2>1 DEF Fits
    <2>4. /\ n \in Breakers /\ n.state = "half-open" /\ n.successes = 0
          /\ n.failures = b.failures /\ n.elapsed = b.elapsed
      BY <2>2, <2>3
    <2>5. Refreshed(b) = n
      BY <1>1, <2>1, <2>2 DEF Refreshed
    <2> QED BY <1>1, <2>4, <2>5 DEF Fits
  <1>2. CASE ~(b.state = "open" /\ b.elapsed >= RecoveryTimeout)
    BY <1>2 DEF Refreshed
  <1> QED BY <1>1, <1>2

LEMMA AgedFits == ASSUME NEW b, Fits(b) PROVE Fits(Aged(b))
  BY DEF Fits, Aged

LEMMA SuccessFits == ASSUME NEW b, Fits(b) PROVE Fits(AfterSuccess(b))
  <1>1. b.state \in {"closed", "open", "half-open"}
    BY DEF Fits
  <1>2. CASE b.state = "closed"
    <2>1. PICK n : n = [b EXCEPT !.failures = 0]
      OBVIOUS
    <2>2. /\ n \in Breakers
          /\ n.state = b.state /\ n.successes = b.successes /\ n.failures = 0
      BY <2>1 DEF Fits
    <2>3. AfterSuccess(b) = n
      BY <1>2, <2>1 DEF AfterSuccess
    <2> QED BY <1>2, <2>2, <2>3 DEF Fits
  <1>3. CASE b.state = "open"
    BY <1>3 DEF Fits, AfterSuccess
  <1>4. CASE b.state = "half-open" /\ b.successes + 1 >= SuccessThreshold
    <2>1. AfterSuccess(b) = NewBreaker
      BY <1>4 DEF Fits, AfterSuccess
    <2> QED BY <2>1, NewFits
  <1>5. CASE b.state = "half-open" /\ b.successes + 1 < SuccessThreshold
    <2>1. AfterSuccess(b) = [b EXCEPT !.successes = @ + 1]
      BY <1>5 DEF Fits, AfterSuccess
    <2> QED BY <1>5, <2>1 DEF Fits
  <1> QED BY <1>1, <1>2, <1>3, <1>4, <1>5 DEF Fits

LEMMA FailureFits == ASSUME NEW b, Fits(b) PROVE Fits(AfterFailure(b))
  <1>1. b \in Breakers /\ OneMore(b.failures) \in 0..MaxFailures /\ OneMore(b.failures) >= b.failures
        /\ (b.failures < FailureThreshold => OneMore(b.failures) = b.failures + 1)
    BY DEF Fits, OneMore
  <1>2. ASSUME NEW f \in {b.failures, OneMore(b.failures)}, f >= FailureThreshold, NEW n,
               n = [[[[b EXCEPT !.failures = f] EXCEPT !.successes = 0] EXCEPT !.state = "open"]
                     EXCEPT !.elapsed = 0]
        PROVE  Fits(n)
    <2>1. PICK x : x = [b EXCEPT !.failures = f]
      OBVIOUS
    <2>2. x \in Breakers /\ x.failures = f
      BY <1>1, <1>2, <2>1
    <2>3. PICK y : y = [x EXCEPT !.successes = 0]
      OBVIOUS
    <2>4. y \in Breakers /\ y.failures = f /\ y.successes = 0
      BY <2>2, <2>3
    <2>5. PICK z : z = [y EXCEPT !.state = "open"]
      OBVIOUS
    <2>6. z \in Breakers /\ z.failures = f /\ z.successes = 0 /\ z.state = "open"
      BY <2>4, <2>5
    <2>7. n = [z EXCEPT !.elapsed = 0]
      BY <1>2, <2>1, <2>3, <2>5
    <2>8. n \in Breakers /\ n.failures = f /\ n.successes = 0 /\ n.state = "open"
      BY <2>6, <2>7
    <2> QED BY <1>2, <2>8 DEF Fits
  <1>3. CASE b.state = "half-open"
    <2>1. AfterFailure(b) = [[[b EXCEPT !.state = "open"] EXCEPT !.elapsed = 0] EXCEPT !.successes = 0]
      BY <1>3 DEF AfterFailure
    <2>2. AfterFailure(b) = [[[[b EXCEPT !.failures = b.failures] EXCEPT !.successes = 0]
                                EXCEPT !.state = "open"] EXCEPT !.elapsed = 0]
      BY <1>1, <2>1
    <2>3. b.failures >= FailureThreshold
      BY <1>3 DEF Fits
    <2> QED BY <1>2, <2>2, <2>3
  <1>4. CASE b.state = "closed" /\ b.failures + 1 >= FailureThreshold
    <2>1. AfterFailure(b) = [[[b EXCEPT !.state = "open"] EXCEPT !.elapsed = 0]
                               EXCEPT !.failures = OneMore(b.failures)]
      BY <1>1, <1>4 DEF AfterFailure
    <2>2. b.successes = 0
      BY <1>4 DEF Fits
    <2>3. AfterFailure(b) = [[[[b EXCEPT !.failures = OneMore(b.failures)] EXCEPT !.successes = 0]
                                EXCEPT !.state = "open"] EXCEPT !.elapsed = 0]
      BY <1>1, <2>1, <2>2
    <2>4. OneMore(b.failures) >= FailureThreshold
      BY <1>1, <1>4
    <2> QED BY <1>2, <2>3, <2>4
  <1>5. CASE b.state = "open" \/ (b.state = "closed" /\ b.failures + 1 < FailureThreshold)
    <2>1. PICK n : n = [b EXCEPT !.failures = OneMore(b.failures)]
      OBVIOUS
    <2>2. /\ n \in Breakers /\ n.state = b.state /\ n.successes = b.successes
          /\ n.failures = OneMore(b.failures)
      BY <1>1, <2>1
    <2>3. AfterFailure(b) = n
      BY <1>1, <1>5, <2>1 DEF AfterFailure
    <2>4. b.state = "closed" => n.failures < FailureThreshold
      BY <1>1, <1>5, <2>2
    <2>5. b.state = "open" => n.failures >= FailureThreshold
      BY <1>1, <2>2 DEF Fits
    <2> QED BY <1>5, <2>2, <2>3, <2>4, <2>5 DEF Fits
  <1> QED BY <1>1, <1>5, <1>3, <1>4

-----------------------------------------------------------------------------
(* Calls in flight.                                                        *)

\* A call in flight remembers a gate that let it through.
BreakerInv == Fits(breaker) /\ BreakerTypeOK

LEMMA BreakerStarts == BreakerInit => BreakerInv
  BY NewFits DEF BreakerInit, BreakerInv, BreakerTypeOK, Fits

LEMMA BreakerKeeps == BreakerInv /\ [BreakerNext]_breakerVars => BreakerInv'
  <1> SUFFICES ASSUME BreakerInv, [BreakerNext]_breakerVars PROVE BreakerInv'
    OBVIOUS
  <1>1. Fits(breaker')
    BY NewFits, RefreshedFits, AgedFits, SuccessFits, FailureFits
       DEF BreakerInv, BreakerNext, breakerVars, Enter, Succeed, Fail, Look, Reset, TimerTick, Turn
  <1>2. breaker' \in Breakers
    BY <1>1 DEF Fits
  <1>3. inFlight' \in [Calls -> {"idle", "closed", "half-open"}]
    <2>1. ASSUME NEW c \in Calls, Enter(c) PROVE inFlight' \in [Calls -> {"idle", "closed", "half-open"}]
      BY <1>2, <2>1 DEF Enter, BreakerInv, BreakerTypeOK
    <2> QED BY <2>1 DEF BreakerInv, BreakerTypeOK, BreakerNext, breakerVars, Succeed, Fail, Look, Reset, TimerTick, Turn
  <1>4. healthy' \in BOOLEAN /\ rejected' \in [Calls -> BOOLEAN]
    BY DEF BreakerInv, BreakerTypeOK, BreakerNext, breakerVars, Enter, Succeed, Fail, Look, Reset, TimerTick, Turn
  <1> QED BY <1>1, <1>2, <1>3, <1>4 DEF BreakerInv, BreakerTypeOK

LEMMA BreakerHolds == BreakerSpec => []BreakerInv
  BY BreakerStarts, BreakerKeeps, PTL DEF BreakerSpec

-----------------------------------------------------------------------------
\* The breaker's fields keep their types whatever calls are in flight.
THEOREM BreakerTyped == BreakerSpec => []BreakerTypeOK
  <1>1. BreakerInv => BreakerTypeOK
    BY DEF BreakerInv
  <1> QED BY <1>1, BreakerHolds, PTL

\* Counters and state of CircuitBreaker agree in every reachable state, also
\* when results arrive in a state in which their call did not start.
THEOREM CountersAgree == BreakerSpec => []CountersFitState
  <1>1. BreakerInv => CountersFitState
    BY DEF BreakerInv, Fits, CountersFitState
  <1> QED BY <1>1, BreakerHolds, PTL

\* The circuit leaves "open" only by the recovery timeout or by a reset.
THEOREM OpenStaysOpen == BreakerSpec => OpenUntilRecovery
  <1>1. BreakerInv /\ [BreakerNext]_breakerVars =>
          [breaker.state = "open" /\ breaker'.state # "open" =>
             \/ breaker'.state = "half-open" /\ breaker.elapsed = RecoveryTimeout
             \/ breaker' = NewBreaker /\ inFlight' = inFlight]_breakerVars
    <2> SUFFICES ASSUME BreakerInv, [BreakerNext]_breakerVars, breaker.state = "open", breaker'.state # "open"
                 PROVE  \/ breaker'.state = "half-open" /\ breaker.elapsed = RecoveryTimeout
                        \/ breaker' = NewBreaker /\ inFlight' = inFlight
      OBVIOUS
    <2>1. breaker \in Breakers
      BY DEF BreakerInv, Fits
    <2>2. CASE Reset
      BY <2>2 DEF Reset
    <2>3. CASE breaker' = Refreshed(breaker)
      BY <2>1, <2>3 DEF Refreshed
    <2>4. breaker' # AfterSuccess(breaker) /\ breaker' # AfterFailure(breaker) /\ breaker' # Aged(breaker) /\ breaker' # breaker
      BY <2>1 DEF AfterSuccess, AfterFailure, Aged
    <2> QED BY <2>2, <2>3, <2>4 DEF BreakerNext, breakerVars, Enter, Succeed, Fail, Look, TimerTick, Turn
  <1> QED BY <1>1, BreakerHolds, PTL DEF BreakerSpec, OpenUntilRecovery

\* An open circuit lets no call through and its recovery timer only advances.
THEOREM OpenBlocks == BreakerSpec => OpenShortCircuits
  <1>1. BreakerInv /\ [BreakerNext]_breakerVars =>
          [breaker.state = "open" /\ breaker'.state = "open" =>
             /\ \A c \in Calls : inFlight[c] = "idle" => inFlight'[c] = "idle"
             /\ breaker'.elapsed >= breaker.elapsed]_breakerVars
    <2> SUFFICES ASSUME BreakerInv, [BreakerNext]_breakerVars, breaker.state = "open", breaker'.state = "open"
                 PROVE  /\ \A c \in Calls : inFlight[c] = "idle" => inFlight'[c] = "idle"
                        /\ breaker'.elapsed >= breaker.elapsed
      OBVIOUS
    <2>1. breaker \in Breakers /\ inFlight \in [Calls -> {"idle", "closed", "half-open"}]
      BY DEF BreakerInv, Fits, BreakerTypeOK
    <2>2. \A c \in Calls : inFlight[c] = "idle" => inFlight'[c] = "idle"
      BY <2>1 DEF BreakerNext, breakerVars, Enter, Succeed, Fail, Look, Reset, TimerTick, Turn
    <2>3. breaker' # NewBreaker
      BY DEF NewBreaker
    <2>4. \/ breaker' = breaker \/ breaker' = Refreshed(breaker) \/ breaker' = AfterSuccess(breaker)
          \/ breaker' = AfterFailure(breaker) \/ breaker' = Aged(breaker)
      BY <2>3 DEF BreakerNext, breakerVars, Enter, Succeed, Fail, Look, Reset, TimerTick, Turn
    <2>5. breaker'.elapsed >= breaker.elapsed
      <3>1. breaker.elapsed \in Nat
        BY <2>1
      <3>2. CASE breaker' = Refreshed(breaker)
        <4>1. ~(breaker.elapsed >= RecoveryTimeout)
          BY <2>1, <3>2 DEF Refreshed
        <4> QED BY <3>1, <3>2, <4>1 DEF Refreshed
      <3>3. CASE breaker' = AfterFailure(breaker)
        <4>1. breaker' = [breaker EXCEPT !.failures = OneMore(@)]
          BY <3>3 DEF AfterFailure
        <4> QED BY <2>1, <3>1, <4>1
      <3>4. CASE breaker' = AfterSuccess(breaker)
        <4>1. breaker' = breaker
          BY <3>4 DEF AfterSuccess
        <4> QED BY <3>1, <4>1
      <3>5. CASE breaker' = Aged(breaker)
        BY <2>1, <3>1, <3>5 DEF Aged
      <3> QED BY <2>4, <3>1, <3>2, <3>3, <3>4, <3>5
    <2> QED BY <2>2, <2>5
  <1> QED BY <1>1, BreakerHolds, PTL DEF BreakerSpec, OpenShortCircuits

\* An open circuit of CircuitBreaker is respected by every call in flight, for
\* every threshold and recovery timeout.
THEOREM OpenHolds == BreakerSpec => OpenIsRespected
  BY OpenStaysOpen, OpenBlocks DEF OpenIsRespected
=============================================================================
