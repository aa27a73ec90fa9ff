# TrustBridge action: TLA+ specifications and proofs

TrustBridge is a GitHub action. When somebody is assigned to an issue, it looks
the contributor's Stellar account up on a Horizon server, checks that the
account is funded, trusts the asset and keeps the XLM reserve, publishes the
verdict as outputs, posts a report on the issue, labels it, and may unassign a
contributor who is not ready. This directory models the parts of it that are
hard to test: several workflow runs on one issue, calls that fail half way,
retries and fallbacks under one request budget, the order of the steps of a
run, and what successive runs make of each other's reports, artifacts and
caches. Paths below are relative to the repository; the sources are
TypeScript modules under `src/`.

## 1. The system

| Part | Source | State | Operations | What is hard |
|---|---|---|---|---|
| Action run | `src/index.ts` | inputs, the validation result, outputs | gate, lookup, wait, Friendbot, gates on the verdict, batch, report, outputs, unassign, setFailed | a step fails and the run goes on with an older result |
| Settings | `src/inputs.ts`, `configReader.ts`, `validation.ts`, `roster.ts` | two files, an assignee map | read, validate, merge, look up | layers that are absent, rejected or edited |
| Account fetch | `src/horizon.ts`, `src/resilience.ts` | retry counters, wait total, budget counter, cache, breaker, abort signal | attempt, sleep, fallback, count, cache | timeouts, retries, cancellation, one budget for everything |
| Wait for funding | `src/horizon.ts`, `src/index.ts` | deadline, present lookup | poll, sleep, cancel | the deadline falls into a request or a sleep |
| Circuit breaker | `src/resilience.ts` | state, failure and success counters, time of opening | execute, getState, reset | results that arrive in another state than they were asked in |
| Account checks | `src/checks.ts`, `assets.ts`, `validation.ts` (reserve engine) | none (functions of one account) | rows, reason, remediation, reserve, home domain | rounding, precedence of reasons, repairs that are left out |
| Batch | `src/batch.ts` | rows, counters, summary | parse, one lookup per address, summarise | budget ends in the middle, counters in step with rows |
| Report text | `src/comment.ts` | the posted text, the report file | compose, shorten, post | the size limit, in bytes |
| Sticky comment | `src/comment.ts` | the comments of the issue | search, update, create, re-read, merge, delete, reply | concurrent runs, three-call merge, failures in between |
| Snooze | `src/snooze.ts`, `comment.ts` | the marker of the newest report, reactions | search, withhold, update, add | clocks that differ, reactions between two calls |
| Labels | `src/horizon.ts` | the labels of the issue | list pages, remove stale, add | read and write in separate calls, concurrent runs |
| Previous run | `src/delta.ts` | artifacts of earlier runs | build, discover, download, compare | masked addresses, unreadable or expired artifacts |
| Check run, board | `src/checks-run.ts`, `projects.ts` | check runs, one board item | create, read, add, set | one call of several fails, an answer is lost, runs overlap |
| Webhook | `src/webhook.ts` | signing keys of both sides | sign, deliver, verify | keys are replaced while requests are under way |
| Account cache | `src/cache.ts` | entries with expiry, persistent backend | get, set, delete, clear, restore | what was restored gets a new time to live |
| stellar.toml pin | `src/toml.ts` | one cache for all readers | fetch, compare | readers with other pins and times |
| Retry helpers, rate limiter, CLI check | `src/resilience.ts` | tokens, waits of the present check | retry, fail over, consume, refill | total wait, the verdict of the wrong endpoint |
| Plugins | `src/plugin*.ts`, `corePlugins.ts` | registry | load, register, run | order of files, repeated ids |
| Federation, Soroban, SSRF guard, wording, SARIF, logging | see `PROJECT.json` | none | conversions | text |

How they interact: `run` calls the account fetch, the checks, the batch, the
report, the labels, check run and board. One `RateBudgetTracker`, one account
cache and one abort signal are shared by the lookups of a run; a circuit
breaker may be passed to the lookups of library users (the action creates
none). Runs know nothing of each other and meet only on the issue: in its
comments, reactions and labels. Delta, webhook, preflight, plugins, the
merge of configuration files and the CLI check are exported and tested, and
not called by `run` at this commit: they are modelled (but preflight, which is
single requests) for their library callers.

### What makes the parts correct

- Comments: an issue that has a TrustBridge comment never loses the oldest one;
  racing runs merge into the same comment; interleaving alone leaves no
  duplicate; the issue shows a report once one was written.
- Snooze: a run is silent only when the window or a person's reaction allows
  it, a pass is never silent, and a repeated failure within the window is.
- Report text: shortening keeps the marker the next run searches for, the core
  sections and the notice.
- Labels: runs that agree leave exactly their label; nobody's other label goes.
- Fetch: never more requests than the budget; waiting is bounded whatever the
  server's Retry-After says; a lookup is refused by the breaker only after
  requests were really lost in a row; no account of another network is
  returned or cached.
- Waiting: "not funded" is said at the deadline only, of an account that was
  not funded as the last lookup began, and never to a cancelled job.
- Breaker: counters and state agree, an open circuit stays open until its
  timeout, and it closes for good once the endpoint is healthy.
- Checks: a valid verdict is true to the limit, the exact minimum and the
  reserve, every place that computes a reserve agrees, the reason belongs to a
  failing row, and who follows the remediation passes.
- Run: `ready = true` is backed by answers of this run; nobody is unassigned
  but for what the run learned of the account; the job's end agrees with
  `ready`; it ends.
- Batch: one row per address, counters that add up, a budget that is kept.
- Channels: a run is told what became of its check run and its status, and both
  show one verdict, whatever failed and whichever run wrote last.
- Services: one precedence of settings, no stale value beyond its time, only
  the pinned file, no signed delivery refused during a rotation, no burst above the
  rate, no order of files that changes the result.

## 2. The modules

| Module | Models | Constants | Proofs |
|---|---|---|---|
| `StickyComment` | `upsertIssueComment` and its helpers, runs in a race | runs, modes, page size and cap, faults | `StickyCommentProofs` |
| `ReportPromise` | abstract: what the snooze window promises to readers | threads, window, skew | |
| `ReportHistory` | the snooze rules, `postDiscussionComment`, the snooze part of `upsertIssueComment`; implements `ReportPromise` | threads, window, skew, callers | `ReportHistoryProofs` |
| `ReportText` | `formatCommentBody`, `fitCommentBodyToLimit`, report file | limits, inputs | `ReportingProofs` |
| `BreakerRules` | the rules of `CircuitBreaker` as operators on its fields | thresholds, timeout | `CircuitBreakerProofs` |
| `CircuitBreaker` | `execute` with calls in flight | call slots | `CircuitBreakerProofs` |
| `HorizonFetch` | `fetchAccount`, `fetchAccountOnce`; uses `BreakerRules` | retry settings, budget, fallback, breaker | `HorizonFetchProofs` |
| `FundingWait` | `waitForFundedAccount` as `run` calls it | options, length of a request | `ServicesProofs` |
| `IssueLabels` | `applyWalletLabels`, `applyReadyLabels` | runs, labels, page size, faults | `IssueLabelsProofs` |
| `ActionRun` | `run` | families of inputs | `ActionRunProofs` |
| `BatchValidation` | `parseBatchAddresses`, `runBatchValidation`, `buildBatchSummary` | lists, configurations | `ReportingProofs` |
| `AccountChecks` | `runAccountChecks`, the results of failed lookups, the three computations of a reserve, repairs | accounts, configurations | `ReportingProofs` |
| `PreviousRun` | artifacts, discovery, delta, address warning | owners, check lists, faults | `ReportingProofs` |
| `Publishing` | check run, project board | runs, results, boards | `ReportingProofs` |
| `Settings` | reading, validating and merging settings, assignee map | workflows, files, rosters | `ServicesProofs` |
| `PluginRun` | registry, loader, runner | modules, times | `ServicesProofs` |
| `WebhookDelivery` | credentials, delivery, verification | runs, receivers, keys | `ServicesProofs` |
| `CacheStore` | `SimpleCache` with the Actions-cache backend | times to live | `ServicesProofs` |
| `StellarToml` | `fetchTomlWithCache`, `validateTomlHash` | readers, pins, times | `ServicesProofs` |
| `Resilience` | `runCliCheck`, `retryWithBackoff`, `RateLimiter` | scenarios, policy, bucket | `ServicesProofs` |

Each `MC...` module extends what it instantiates with the small sets that the
`.cfg` files name. `MCHorizonFetch` adds the breaker on its own to the lookups;
`MCReporting` brings the six modules from an account to what the outside sees
of it together, `MCServices` the eight parts around a run. The modules of such a
run share no variable: a behaviour follows one of them, named by `part`, so the
states add up instead of multiplying. Real composition is where state is
shared: `HorizonFetch` runs its breaker by `BreakerRules`, and `ReportHistory`
instantiates `ReportPromise` over its own variables.

In `PROJECT.json`, `map` gives the source lines of every definition. A
definition with the comment "Mutation of X" is a plausible mistake in X; it is
used nowhere, but each checked property fails when X is replaced by one of them.

### Correspondence

Common to all: what JavaScript does between two `await`s is one action, and
every awaited call is an action of its own, with its outcomes (and its failure,
if the name is in `Faults`) as alternatives. Text is a token or a small set.

`StickyComment`. A comment is its id; GitHub hands ids out in increasing order.
`thread` is what is on the issue, `trust` the ids of TrustBridge comments,
`shows` the run whose report a body holds. `pc` is the await of a run:
`find` (`findStickyComment`, last match), `parent` and `recheck`
(`findFirstTrustBridgeComment`, first match), `update`, `create`, `merge` and
`discard` (`reconcileDuplicateStickyComment`). Searches read page by page from a
cursor, up to `MaxPages`; GraphQL falls back to REST, which has no cap. Whether
the snooze window holds is a choice here; `ReportHistory` has its rules.

`ReportHistory`. One run after another posts to a thread: an issue, a
discussion, or a comment of it. A report is its snooze marker (verdict and
time by the clock of the runner, which may be `Skew` ahead). A search may fail or
stop before the comment (`FoundInDiscussion`); on an issue, text and reactions
come by calls of their own and either may be missing (`FoundOnIssue`). A comment
carries a set of reactions. People and bots react between any two calls.
`ReportPromise` knows none of this: a run shows its report, is silent for one of
two reasons, or loses it.

`ReportText`. A text is a sequence of characters with a section and one or two
bytes. `Build` lists the sections of `formatCommentBody` in their order with
their conditions; `formatCommentBody` and `fitCommentBodyToLimit` are the two cuts;
`Post` is what `run` does with the text and the report file. The checklist is one
of the sections; which of its boxes are ticked is left out (section 5).

`BreakerRules`, `CircuitBreaker`. `cb` holds the fields of the class, with the
time since opening capped at the recovery timeout (nothing distinguishes longer
times) and failures capped at `MaxFailures` (nothing distinguishes more than the
threshold). `Enter` is `execute` up to `await fn()`, `Succeed` and `Fail` what
follows it.

`HorizonFetch`. `Lookup` is the entry of `fetchAccount`: abort, cache, primary.
`Stop`, `OverBudget`, `ShortCircuit`, `Send` are one turn of the retry loop up to
the request, in the order of the code; the answers (`Served`, `BodyLost`,
`NotFound`, `Busy`, `Refuse`, `Lost`, `BadCertificate`, `Abort`) are its end.
`RetryOr` decides between a sleep and an error, `Throw` between error, refusal
to cross networks, and fallback. An account is the endpoint that served it,
delays are small numbers, and jitter does not exist in the code. Cancellation,
cache expiry and clock interleave with every step.

`FundingWait`. Time since the start of the wait is counted; a request takes up
to `LongestRequest` and sees the ledger as it was at some moment of it. A
lookup here is its requests only, its rules being `HorizonFetch`.

`IssueLabels`. `labels` is a sequence because pages are cut from it; a run
reads (`List`), removes what it saw and does not want (`RemoveStale`), and adds
its target unless it saw it (`ToAdd`, `AddTarget`), first for the wallet labels
and then for the pass and fail labels. `WalletInput` is what `run` passes.

`ActionRun`. `config` is the inputs of a run; `pc` follows `run` from the
milestone gate to `setFailed`. A lookup is one step with an outcome, its inside
being `HorizonFetch`; posting is one step, its inside being `StickyComment`. The
ledger changes between the steps. `result` keeps which checks failed, `valid`
and the reason code, which is what the later steps look at.

`BatchValidation`. A lookup is one step that makes one or more requests; the
tracker counts them, and counts the one it refuses as well. When a lookup runs
out of budget, its row and the rows after it are exhausted one by one. The
caller is a library user or `run`, which passes a reduced configuration
(`fromRun`).

`AccountChecks`. XLM is counted in base reserves, assets in stroops with
minimums as fine as a tenth of one, which is what rounding is about. A reserve is
computed in three places: for the checks, by the reserve engine of
`validation.ts`, and for `generateValidationReport`; `ReservesAgree` compares them. `Look` is
a lookup and its result, `Repair` the contributor following one remediation.

`PreviousRun`. `archive` holds the completed runs; the search goes newest
first with `cursor`; any of its calls may fail. An address is an account or the
hash of one. A deflated artifact is unreadable, as in the code; an
error that is thrown ends the search.

`Publishing`. A run first makes its check run, then sets the board. `step` is the
call it waits for, `context` whether it has the ids that each channel needs.
Every call may be refused or fail after it took effect, and the check run be
aborted; `told` is what the caller learns, `setter` the run whose status the
board took last.

`Settings`. A text is a token of which the parsers know whether it is a URL, a
number, a truth and so on. `ReadInputs` is what `run` does; `MergeLayers`,
`ResolveAliases` and `LookUpAssignee` are the exported pipeline.

`PluginRun`, `WebhookDelivery`, `CacheStore`, `StellarToml`, `Resilience`. One
action per exported operation, and one per awaited call; outside events
(restart of the runner, key changes of the operators, the issuer's
publications, the clocks) are actions of the environment.

## 3. The runs

Seven runs pass, five end in a counterexample (section 5).

| Run | Instance | Shows |
|---|---|---|
| `sticky_faults` | 3 runs of any mode, 2 earlier comments, pages of 1 and a cap of 2 pages, every call may fail | oldest comment survives, mergers agree, a report stays, replies keep their root, only a failed call (or a thread beyond the cap) leaves a duplicate |
| `sticky_live` | 2 runs, one deletion by a person, every call may fail | every run ends |
| `fetch_budget` | 4 lookups of 2 accounts, 4 requests, 2 retries, three settings of fallback, breaker and cache; 3 calls on a breaker with thresholds 2 | budget, worst case, network, no refusal by the breaker that was not earned, recovery, termination |
| `labels_two` | 2 runs, pages of 1, up to 2 labels at first, every call may fail | agreement, other labels, undisturbed runs, termination |
| `run_all` | families of inputs for the gates, the start, waiting and posting | backed verdicts, causes of unassignment, job result, termination |
| `reporting_parts` | accounts with up to 5 rounds of repair; texts around a limit of 29 bytes; 2 artifacts; 2 publishing runs; batches of 3 entries and 3 requests; 3 runs or reactions on threads | verdict, reason and remediation; shortening; comparison; channels; rows, budget; promise of the snooze window (refinement) and silence of repeats |
| `services_parts` | 2 edits of files; 5 plugin modules, two of them spellings of one path; 2 runs, 2 receivers, 3 keys; a clock of 6; 2 readers of stellar.toml; 3 scenarios on 2 endpoints; bucket of 3; waits up to 5 | layers, addresses, listing order, deliveries, staleness, pins, the CLI check, the rate, funding is not missed |
| `sticky_three` (violation) | 3 sticky runs, no faults | the promise that all runs converge on one comment fails with a third run |
| `labels_outage` (violation) | 1 run after an outage | the issue says `wallet: unfunded` |
| `run_outage` (violation) | waiting and recovery | an outage unassigns |
| `run_extra` (violation) | Friendbot with `assets_json` | ready without an extra trustline |
| `funding_retries` (violation) | waiting runs with `max_retries` 0 to 2 | lookups of a waiting run are retried three times |

A property with several parts (`CommentsSurvive`, `RowsAddUp`, `ChannelsAgree`,
`ComparisonIsHonest`, `VerdictIsTrue` and so on) is the conjunction of named
parts, defined above it.

What some of them leave open: `NetworkBound` has one set of options for all
lookups of a run, so it does not cover a process whose later lookup has stricter
fallback rules than the one that filled the cache. `StalenessIsBounded` bounds the
age by the largest time to live in use and `MemoryTtl`, not by the time that the
writer of the value gave. `ReadyIsBacked` speaks of the account as it was last
fetched, not of the ledger afterwards. `RepeatIsSilent` is about callers that pass a
window, which `run` does not for its report. In `RotationIsSeamless` an hmac
receiver may still refuse a request without signatures (section 5).

Deadlock checking is off: a run, a lookup sequence, a batch or a bounded
history stops when it is done.

### Bounds

- Three runs are what the comment races need: one creates, one merges, a third
  finds the comment of either. What matters most there is proved for any number
  of runs. `MaxComments` and `MaxInitial` let a thread exceed the search window
  of two pages of one comment, which is the case that the cap is about. The
  liveness check has two: with three it takes more than a quarter of an hour.
- Breaker threshold 2 separates "one failure" from "tripped"; three calls let
  one enter closed, one half-open and one be rejected.
- A budget of 4 ends within the retries of a second lookup, before and after the
  change of endpoint; Retry-After is absent, zero, small and above the cap.
- Pages of one label make every list of two shift under its reader.
- A run's inputs come in families, each varying the inputs one question
  depends on. `MaxPolls` of 2 makes waiting repeat. Batch lists of three hold a
  repetition, a blank and a malformed address around a row that exhausts.
- Five rounds let an account be activated, trusted, authorized, funded and
  looked at once more. Minimums of 0 and 11 tenths of a stroop are an exact and
  a rounded one. A limit of 29 bytes lets the remediation be kept, cut at a line
  end, and dropped, and a text of many sections be cut hard.
- Three events on a thread are a failing report, a reaction or second run, and
  a run that meets both; a window of 2 with a skew of 1 ends inside the time of 3.
- Three keys are two rotations, the second begun while the first is under way.
  A clock of 6 outlives an entry, its restored copy and the next one.
- A total wait of 5.7 first delays ends between the second and third retry with
  some jitter and lets all three happen with other.
- `FundingWait` has a wait whose interval does not divide its timeout, one whose
  requests are longer than the interval, one without time, and no wait.
- `Max...` constants bound what is unbounded in the system; only guards of the
  environment mention them, and `MaxFailures` is a cap that no rule can see.

### Fairness

Weak fairness of the steps of each run and lookup: every request in the
code has a timeout that rejects it, every sleep has a timer, and the event loop
runs what is ready. Nothing is assumed of people, of the ledger, of which
answers come, or of one run with respect to another. For the breaker's recovery,
time passes (`TimerTick`), callers come back (`Enter`) and a call that was sent
resolves or rejects; recovery itself is claimed only when the endpoint stays
healthy from some moment on. `reporting_parts` and `services_parts` check safety
and state no fairness.

## 4. The proofs

Every invariant and action property that a passing run checks is stated by a
theorem. The theorems hold for every value of the constants that the named
assumptions allow. These type the constants, name the kinds an input or a fault
can be of, and say three things more, which the code has: `LimitsAssumption`
orders the two size limits (64000 and 65536 in the code; at least 16 of the
model's characters, room for the sections and the notice), `PublishingAssumption`
has a valid result pass all its checks, and `PluginAssumption` has two spellings
of one path lead to one file. TLC evaluates them. What a theorem assumes beyond
them is given below.

`StickyCommentProofs` (from `ConstantsAssumption`, for any set of runs):
`TypeCorrect`, `OldestIsKept`, `MergesAgree`, `ReportStays`, `ReplyRootKept`,
from these `NothingIsDestroyed`, and `DuplicatesExplained`.
The type invariant is inductive. The others are not: that a merge never targets
the wrong comment depends on what a half-finished search has skipped. The
invariant `IInv` therefore says that, unless a person has deleted a comment, the
oldest TrustBridge comment is on the thread, no search that looks for the first
match has a TrustBridge comment behind its cursor, and every merge in progress
targets the oldest comment and owns a later one. `FirstOnPage` and
`NextPagePasses` carry this over a page, `DiscardKeeps` over a deletion. That a
duplicate has a reason needs to know what the page cap means for the thread:
`DupInv` adds that a search has passed at least a full page of comments for
each page it counted (`PagesPassed`), so that one that gives up proves that
the oldest comment lies beyond the cap (`FirstBeyond`).

`ReportHistoryProofs` (from `HistoryAssumption`): `HistoryKeepsPromise`, that
`ReportHistory` implements `ReportPromise` under the mapping `verdict <-
body.verdict`: every step is a step of the promise or a stutter. The step that
needs an argument is a silent run, since the promise speaks of the newest
report and of the reactions under it when the run decides, while the run has
read them earlier, perhaps with nothing or only a part of it found. The
invariant `HistoryInv` says that a failing verdict that was read is that of the
newest report, and that the reactions it read have stood under it (`ReadStands`).
`RepeatsStaySilent` proves `RepeatIsSilent` for callers that pass the settings
(`Callers = {"library"}`) with a window above 0: with 0 snoozing is off, and
`run` itself passes no window for its report.

`CircuitBreakerProofs` (from `BreakerAssumption`) first proves that each rule
keeps `Fits`, the agreement of counters and state, and gets `BreakerTyped`,
`CountersAgree`, `OpenStaysOpen`, `OpenBlocks` and `OpenHolds` from it;
`HorizonFetchProofs` reuses the lemmas for a breaker inside a lookup.

`HorizonFetchProofs` (from `FetchAssumption` and `BreakerAssumption`):
`TypeCorrect`, `BudgetHolds`, `WorstCaseHolds`, `NetworkHolds`, `CircuitHolds`.
The budget needs that the requests sent never exceed the counter, since every
request is counted before it leaves; the worst case needs that waiting is at
most `attempt * MaxDelay` (one more during a sleep) and that the requests of the
loop are at most `attempt + 1`; the network rule needs that the cache holds no
account of a forbidden endpoint. `CircuitHolds` ties the breaker's counters to a
history of the requests of all lookups: in `Earned`, a closed breaker has
counted no more failures than requests were lost in a row, one that is not
closed was opened by `FailureThreshold` of them, and an open one has seen no
answer since; a request never starts while the breaker is open, so no answer
can come in that state.

`IssueLabelsProofs` (from `LabelsAssumption`, for any set of runs):
`TypeCorrect`, `AloneExact`, `OthersKept`, `RunsExact`, and the convergence of
agreeing runs, `StatesConverge`, `VerdictsConverge`, `AgreeingConverge`. That a
run alone is exact needs the pages: the part of the list it has read is what
its pages cover (`Alone`), and an undisturbed removal empties what it collected.
Convergence needs to know who will clean up: as long as a stale label is on the
issue, nobody has written yet, or a run that is removing has collected it
(`Cleaner`), or, for the second function, some run has yet to come to it
(`WillMeet`). These three theorems assume `LabelsApart`, that the
labels of the two functions differ. The code does not enforce it: with
`pass_label` set to one of the wallet labels the second function may put back
what the first of another run removed.

`ActionRunProofs` (from `RunAssumption`, for any set of configurations and any
number of polls): `TypeCorrect`, `ReadyBacked`, `UnassignmentIsCaused`,
`JobAgrees`. Most of these are not inductive, since the verdict, the outputs and
the job are written at different steps. The invariant `IInv` ties each to `pc`: a
valid result is backed by the gates passed so far (`Backed`), an outage of the
first lookup is known only once the result is final, with a reason code that
unassignment exempts (`OutageKept`), and `ready` is set only by the steps that
come after the result (`ReadyOK`). `WithCheckType` shows that a further gate can
only take validity away. `UnassignmentIsCaused` adds `Caused`: from each gate on, a
result that is not valid has a cause in what the run has learned of the account,
and an outage that is listed has none that unassigns.

`ReportingProofs` covers the modules of `reporting_parts` but `ReportHistory`.

- Batch (`BatchAssumption`): `BatchBudgetHolds`, `ValidRowsHold`, `CountersHold`,
  `RowsHold`. `BatchInv` relates the tracker's counter to the requests sent
  (equal, or one ahead with the budget used up) and every row to what was seen
  for it; `CountInv` has the counters as cardinalities of the valid and the other
  rows; `RowsInv` has the rows as those of the first addresses, which hold every
  entry of the list once (`Parsed`), and the buckets as sizes of sets of rows.
- Checks (`AccountAssumption`): `VerdictsHold`, `ReasonsHold`, `RemediationHolds`.
  A verdict that found an account is what `runAccountChecks` makes of the account
  as it is (`AccountInv`); the rest is arithmetic on stroops, rounding included.
  Following the remediation repairs in an order: `StageOK` says that after
  the first round the trustline is there, after the second it is authorized
  and has its reserve, after the third its limit and balance. The fourth look
  finds all of it, so the theorem assumes `MaxRounds >= 4`, without which the
  history ends before.
- Report text (`LimitsAssumption`): `ShorteningHolds`, `ReportFileIsUnused`. A
  text posted is what the two cuts make of its input (`ReportInv`). The argument
  is about prefixes: characters of one byte that end a line within the limit are
  lost by neither cut (`FirmStays`), and the marker, the heading and the core
  sections are such a prefix. `ReportFileIsUnused` is a divergence (section 5).
- Check run and board (`PublishingAssumption`): `ChannelsHold`. The check
  run and the status of one verdict are written by calls far apart, with those
  of other runs in between. `ChannelsInv` says of every run
  what it may have been told by the step it has come to and which check run it
  has by then (`RunSound`), of every check run that its run still has the result
  it was made of (`CheckSound`), and of the status that its setter is over and
  that it is this run's verdict (`ItemSound`).
- Previous run (`PreviousAssumption`): `ComparisonsHold`. `PreviousInv` has every
  artifact come of a run, and the search at `cursor` have looked at every newer
  one. The rest is about lists of labels: which checks turned and which are new.

`ServicesProofs` covers the modules of `services_parts`.

- `CacheIsFresh` (`CacheAssumption`). `CacheInv` is the age of what is stored: in
  the backend at most its time to live, in the store `MemoryTtl` more, since a
  restored value starts anew.
- `PinHolds` (`TomlAssumption`): only bodies of the domain are cached, and what a
  reader is told satisfies its pin and its time to live.
- `DeliveriesAccepted` (`WebhookAssumption`): throughout a rotation every receiver
  accepts a key that the workflow signs with (`KeyShared`), and a signed request
  under way was signed with a key that receivers still accept (`RequestsOK`).
  Unsigned requests are refused by an hmac receiver; the theorem says that only
  those are, and why they carry no signature.
- `ChecksAreSound`, `RateHolds` (`ResilienceAssumption`). A check that goes on has
  heard no verdict (`Undecided`), and attempts bound its requests
  (`WithinPolicy`). For the bucket, `RateInv` speaks of all seconds at once: from
  any second up to the last refill, what was granted and what is left came
  from a full bucket and the refills since.
- `LayersAgreeAlways`, `AssigneeOwnsAddress` (`SettingsAssumption`): what is
  offered was made of the workflow at hand and the files of now
  (`SettingsInv`); `FileGives` says when a file gives a field.
- `OrderNeverMatters` (`PluginAssumption`). How many entries of a list are below a
  rank, or up to it, does not depend on their order (`PermutedRanks`); these
  numbers decide the rank at each place of the sorted list (`SortedAt`, from
  `PlaceTaken`: each place belongs to one entry), and with the rank what loads.
- `FundingHolds` (`FundingAssumption`). `WaitInv` has a lookup begin no later than
  the present and by the deadline, and a sleep never reach past the deadline: a
  poll at the deadline is what keeps an account funded during the last sleep
  from being missed.

What a recursive function gives for every list (the entries of a batch, the bytes
of a text, the finite sets that are counted) is proved by induction in the form
of sets: the numbers for which it fails have a least one (`LeastNat`), and that
one is shown not to fail.

Only model-checked: liveness and everything under fairness (`RunsEnd`,
`Recovers`, `LookupEnds`, `LabellingEnds`, `RunEnds`), since the prover has no
rules for fairness and ENABLED. The five counterexamples are TLC's as well.

## 5. Divergences

Five runs end in a counterexample that the code really has (`findings` in
`PROJECT.json`): two racing runs and a third (`sticky_three`), the label after an
outage (`labels_outage`), unassignment after an outage (`run_outage`),
`assets_json` after Friendbot (`run_extra`), and `max_retries` of a waiting run
(`funding_retries`). Others met while reading, which no run keeps:

- `src/resilience.ts:405` lets any number of probes through while half-open;
  `README.md:431` speaks of a single one. The model lets them through.
- `src/horizon.ts:599` counts a request that an open circuit then rejects, so a
  budget error is only claimed to be earned without a breaker.
- `src/horizon.ts:1112` falls back after errors that are never retried, and
  `:1150` replaces the primary's error when crossing networks is refused;
  `README.md:529` and `:531` say otherwise. The model does what the code does.
- Two runs with different findings may leave two wallet labels (`README.md:374`).
- `src/index.ts:816` and `:832` start a batch without the request budget and the
  strict home-domain mode of the run.
- With `sticky_comment`, the default, the report replaces the batch summary of the
  same run, also when `comment_mode` asked for a comment of its own for the
  summary: the mode does not reach the report (`src/index.ts:902`). Without
  `sticky_comment` both stay.
- An issuer that cannot be fetched is reported as `HOME_DOMAIN_MISSING`
  (`src/horizon.ts:1254`). A strict home domain that fails with stellar.toml
  fetching on has reason `FAILED` and no step of remediation.
- `run` passes no existing text of the comment to `formatCommentBody`, so boxes that
  people ticked are empty again after the next report. For callers that do pass
  it, `[X]` matches the pattern and is read as empty (`src/markdown.ts:401`), where
  `src/markdown.ts:337` says "permissive about whitespace and case", and a box that
  a report ticked itself stays ticked after its check fails again.
- `src/delta.ts:329` says "checks that previously passed now fail" also when the
  only failing check is new: `src/delta.ts:151` counts a check without a previous
  result as newly failed. `ComparisonIsHonest` claims of the sentence that it is
  never missing when a check turned, and that it is false only in this case.
- In hmac mode a request that was given a token leaves with the token and
  without signatures (`src/webhook.ts:609`), while `docs/USAGE.md:3115` and `:3127`
  say that with `webhook_secret` set every request is signed: a receiver that
  verifies signatures answers `NO_SIGNATURE`. Without `webhook_secret` the request
  is unsigned, as `docs/USAGE.md:3123` says. `RotationIsSeamless` claims that
  only these are refused.
- A report that was shortened never has its file: `formatCommentBody` returns at
  most `MAX_COMMENT_LENGTH` bytes (`src/comment.ts:175`), so the branch of `run`
  for more than `COMMENT_SIZE_LIMIT_BYTES` (`src/index.ts:951`) is not taken and
  `full_report_path` stays empty. `docs/USAGE.md:1502` and `README.md:131` promise
  the file. `ReportFileIsUnused` proves it for any limits in that order.
- A check-run call that was aborted after GitHub wrote leaves a check run
  (`src/checks-run.ts:211`); `src/checks-run.ts:147` says that an abort "during the
  API call" leaves none. The model tells the caller "cancelled" in both cases.
- A zip entry is inflated with `inflateSync`, which expects a zlib header: a
  compressed artifact is never readable. Discovery filters neither by issue nor
  by workflow, and labels that repeat give changes that nobody made.
- Two muxed addresses over one account compare as different, and a masked muxed
  address does not conform to the webhook's schema.
- A restored cache entry replaces a newer one that was set while the restore
  was under way, and the entry of an Actions cache is never overwritten.
- Freshness (`age < ttl`) and cache (`now > expiresAt`) differ at the boundary.
- 503 is not retried by the CLI check (`docs/ERROR_HANDLING.md:233` has it like
  429), and `retries` counts a retry before the wait budget refuses it.
- The settings file is validated by `run` and never merged; a path outside the
  workspace is silently ignored (`src/index.ts:527` speaks of failing fast).
- `skip_if_maintainer` never applies: `action.yml` gives `skip_for_maintainers` the
  default `'false'`, which counts as given.
- A plugin's own `timeoutMs` is not used (`src/plugin.ts:109`), and an empty
  registry is valid.

## 6. Not modelled, and the plan

`PROJECT.json` lists every part with its reason. Not modelled: federation and
Soroban lookups, `preflight.ts`, `freshness.ts` and `codeowners.ts` (not called by
the action); the ticks of the checklist and the content of the webhook's payload;
URL classification, SARIF, translations, badges and step summary (conversions
of what was decided elsewhere); logging, metrics and tracing (nothing reads
them); the composite actions (one shell condition each); the unused copy in
`trustbridge-action/src` and the bundle in `dist`.

What is left of the plan, in its order:

1. An abstract thread ("a report is shown, the oldest comment stays") that
   `StickyComment` implements; an abstract lookup that `HorizonFetch` implements
   and `ActionRun` and `FundingWait` use.
2. `ActionRun` with the verdicts of `AccountChecks` instead of sets of failed
   checks.

To check: `tlc -config MCSticky_faults.cfg MCStickyComment` (and so on);
to prove: `tlapm StickyCommentProofs.tla`.
