----------------------------- MODULE FundingWait -----------------------------
(***************************************************************************)
(* How run looks a contributor up while the account may not be funded yet: *)
(* fetchAccount alone, or polled by waitForFundedAccount until the account *)
(* is there (wait_until_funded; src/horizon.ts, src/index.ts).  The rules  *)
(* of one lookup (delays, endpoints, breaker) are module HorizonFetch; here *)
(* a lookup is its requests, each of which takes some time.                *)
(***************************************************************************)
EXTENDS Integers

CONSTANTS
    WaitOptions,     \* the inputs: [wait, timeout, interval, maxRetries]
    DefaultRetries,  \* DEFAULT_MAX_RETRIES of fetchAccount
    LongestRequest,  \* bound: how long a request takes, with the sleep before it
    FundingTimes     \* when the account may get funded

ASSUME FundingAssumption ==
    /\ \A o \in WaitOptions :
          /\ o.wait \in BOOLEAN
          /\ {o.timeout, o.maxRetries} \subseteq Nat /\ o.interval \in Nat \ {0}
    /\ DefaultRetries \in Nat /\ LongestRequest \in Nat
    /\ FundingTimes \subseteq Nat

VARIABLES
    waitOptions,  \* the inputs of this run
    fundedAt,     \* when the account gets onto the ledger
    sinceStart,   \* Date.now() - start
    waiting,      \* where the run stands, or how its lookup ended
    lookupFrom,   \* when the present lookup began
    wakeAt,       \* when the sleep is over
    tries,        \* requests of the present lookup
    aborted       \* signal.aborted

fundingVars == <<waitOptions, fundedAt, sinceStart, waiting, lookupFrom, wakeAt, tries, aborted>>

NoWait == [wait |-> FALSE, timeout |-> 0, interval |-> 1, maxRetries |-> 0]

FundingInit ==
    /\ waitOptions = NoWait
    /\ fundedAt = 0 /\ sinceStart = 0 /\ lookupFrom = 0 /\ wakeAt = 0 /\ tries = 0
    /\ waiting = "start"
    /\ aborted = FALSE

StartLookup ==
    /\ waiting = "start"
    /\ waitOptions' \in WaitOptions
    /\ fundedAt' \in FundingTimes
    /\ waiting' = "asking"
    /\ UNCHANGED <<sinceStart, lookupFrom, wakeAt, tries, aborted>>

\* waitForFundedAccount passes its own options on, among them a maxRetries run
\* never set, and the spread in run lets it replace the input.
LookupRetries == IF waitOptions.wait THEN DefaultRetries ELSE waitOptions.maxRetries

\* Mutation of Nap: the sleep is not cut at the deadline.
NapWhole(elapsed) == waitOptions.interval

\* Math.min(pollIntervalMs, timeoutMs - elapsedMs).
Nap(elapsed) ==
    IF waitOptions.interval < waitOptions.timeout - elapsed THEN waitOptions.interval
                                                            ELSE waitOptions.timeout - elapsed

\* A 404 ends the wait at the deadline, and a lookup without waiting at once;
\* to a cancelled job run reports the cancellation instead.
NotThere(elapsed) ==
    /\ waiting' = IF waitOptions.wait /\ elapsed < waitOptions.timeout THEN "sleeping"
                  ELSE IF aborted THEN "cancelled" ELSE "unfunded"
    /\ wakeAt' = IF waiting' = "sleeping" THEN elapsed + Nap(elapsed) ELSE wakeAt

\* A request is answered: with the account or a 404 as the ledger was at some
\* moment of it, or with an error, which is retried within the lookup.
Request ==
    /\ waiting = "asking" /\ ~aborted
    /\ \E d \in 0..LongestRequest :
          /\ sinceStart' = sinceStart + d
          /\ tries' = tries + 1
          /\ \/ fundedAt <= sinceStart + d /\ waiting' = "account" /\ UNCHANGED wakeAt
             \/ fundedAt > sinceStart /\ NotThere(sinceStart + d)
             \/ waiting' = "error" /\ UNCHANGED wakeAt
             \/ tries < LookupRetries /\ UNCHANGED <<waiting, wakeAt>>
    /\ UNCHANGED <<waitOptions, fundedAt, lookupFrom, aborted>>

\* The same with a job that was cancelled while the request was out.
LateRequest ==
    /\ waiting = "asking" /\ aborted
    /\ \/ fundedAt <= sinceStart /\ waiting' = "account" /\ UNCHANGED wakeAt
       \/ fundedAt > sinceStart /\ NotThere(sinceStart)
       \/ waiting' = "cancelled" /\ UNCHANGED wakeAt
    /\ UNCHANGED <<waitOptions, fundedAt, sinceStart, lookupFrom, tries, aborted>>

\* cancellableSleep is over by its timer: the next poll.
PollNext ==
    /\ waiting = "sleeping" /\ ~aborted
    /\ sinceStart' = wakeAt
    /\ lookupFrom' = wakeAt
    /\ tries' = 0
    /\ waiting' = "asking"
    /\ UNCHANGED <<waitOptions, fundedAt, wakeAt, aborted>>

\* ... or by the signal: the loop stops at its top.
StopPolling ==
    /\ waiting = "sleeping" /\ aborted
    /\ waiting' = "cancelled"
    /\ UNCHANGED <<waitOptions, fundedAt, sinceStart, lookupFrom, wakeAt, tries, aborted>>

\* SIGINT or SIGTERM, at any moment of a request or a sleep.
CancelWait ==
    /\ waiting \in {"asking", "sleeping"} /\ ~aborted
    /\ aborted' = TRUE
    /\ sinceStart' \in sinceStart..(IF waiting = "sleeping" THEN wakeAt ELSE sinceStart + LongestRequest)
    /\ UNCHANGED <<waitOptions, fundedAt, waiting, lookupFrom, wakeAt, tries>>

FundingNext == StartLookup \/ Request \/ LateRequest \/ PollNext \/ StopPolling \/ CancelWait

FundingSpec == FundingInit /\ [][FundingNext]_fundingVars

-----------------------------------------------------------------------------
\* The verdict "not funded" is only given when the account was not funded as
\* the last lookup began, a waiting run gives it at the deadline and not
\* before, its last lookup begins by the deadline, and a cancelled run never
\* gives it ("Polls ... until funded or wait_until_funded_timeout_ms elapses").
FundingIsNotMissed ==
    /\ waiting = "unfunded" =>
          /\ fundedAt > lookupFrom /\ ~aborted
          /\ waitOptions.wait => sinceStart >= waitOptions.timeout
    /\ waitOptions.wait => lookupFrom <= waitOptions.timeout

\* "Retries up to max_retries times": no lookup sends more requests to its
\* endpoint than max_retries and the first one.
RetriesAsConfigured == tries <= waitOptions.maxRetries + 1
=============================================================================
