----------------------------- MODULE ActionRun -----------------------------
(***************************************************************************)
(* run (src/index.ts): one run of the action for one address.  The awaits   *)
(* split it into steps; between two steps the ledger may change and the job *)
(* may be cancelled.  The account lookup is one step with an outcome (what  *)
(* it does inside is module HorizonFetch), a comment is one step (module    *)
(* StickyComment), and the labels are module IssueLabels.                   *)
(*                                                                          *)
(* The checks of an account are abstracted to the set of those that fail:   *)
(* the primary trustline, the issuer's home domain, stellar.toml and the    *)
(* trustlines of assets_json; "lookup" stands for an account that could not *)
(* be checked.                                                              *)
(***************************************************************************)
EXTENDS Naturals, Sequences

CONSTANTS
    Configs,     \* the inputs and events a run may be started with
    MaxPolls     \* bound: polls that fit in wait_until_funded_timeout_ms

ConfigFields ==
    [milestones: SUBSET {"m1", "m2"}, milestone: {"none", "m1", "m2"},
     failOnSkip: BOOLEAN, inputsOk: BOOLEAN, onIssue: BOOLEAN,
     wait: BOOLEAN, budget: BOOLEAN,
     useFriendbot: BOOLEAN, testnet: BOOLEAN, friendbotAllowed: BOOLEAN,
     home: BOOLEAN, strict: BOOLEAN, domain: {"right", "wrong", "unset"},
     tomlFetch: BOOLEAN, pin: BOOLEAN, extraAssets: BOOLEAN,
     batch: {"none", "listed", "malformed"},
     post: BOOLEAN, sticky: BOOLEAN, mode: {"unset", "sticky", "new"},
     unassign: BOOLEAN, failOnMissing: BOOLEAN]

ASSUME RunAssumption ==
    /\ MaxPolls \in Nat
    /\ Configs \subseteq ConfigFields

VARIABLES
    config,      \* the inputs of this run, and the event that started it
    ledger,      \* the contributor's account on the ledger
    signal,      \* jobController.signal.aborted
    pc,          \* the step run has come to
    polls,       \* polls of waitForFundedAccount
    account,     \* the account Horizon returned
    issuer,      \* issuerAccount: its home domain
    toml,        \* what runStellarTomlCheck returned
    result,      \* the ValidationResult
    friendbot,   \* friendbotCalled
    thread,      \* the texts of the TrustBridge comments on the issue
    ready,       \* the ready output
    unassigned,  \* the assignees have been removed
    job,         \* "running", "succeeded" or "failed"
    outcome,     \* history: what the first lookup came to
    refetched    \* history: what the lookup after Friendbot came to

inputs == <<config, issuer, toml, outcome, refetched>>
effects == <<thread, ready, unassigned>>
vars == <<config, ledger, signal, pc, polls, account, issuer, toml, result, friendbot,
          thread, ready, unassigned, job, outcome, refetched>>

Ledgers == {l \in [funded: BOOLEAN, trust: BOOLEAN, extra: BOOLEAN] : l.trust \/ l.extra => l.funded}

NoAccount == [funded |-> FALSE, trust |-> FALSE, extra |-> FALSE]

\* The reason codes of a lookup that gave no account; Listed are those
\* handleAutoUnassign exempts.
Listed == {"HORIZON_ERROR", "HORIZON_TIMEOUT", "RATE_BUDGET_EXHAUSTED"}
Outages == Listed \cup {"HORIZON_WAIT_BUDGET_EXHAUSTED"}

Reasons == Outages \cup
    {"none", "SUCCESS", "ACCOUNT_NOT_FUNDED", "TRUSTLINE_MISSING", "HOME_DOMAIN_MISMATCH",
     "HOME_DOMAIN_MISSING", "EXTRA_TRUSTLINE_MISSING", "FAILED"}

Checks == {"lookup", "trustline", "domain", "toml", "extra"}

Results == [failed: SUBSET Checks, valid: BOOLEAN, reason: Reasons]

\* The texts of the TrustBridge comments on an issue, oldest first.
Threads == Seq({"earlier", "summary", "report"})

-----------------------------------------------------------------------------
(* Results.                                                                *)

\* Every result has valid = every check passed.
Verdict(failed, reason) == [failed |-> failed, valid |-> failed = {}, reason |-> reason]

NoResult == [failed |-> {"lookup"}, valid |-> FALSE, reason |-> "none"]

\* horizonFailureResult and rateBudgetExhaustedResult.
Failure(code) == Verdict({"lookup"}, code)

Unfunded == Verdict({"lookup"}, "ACCOUNT_NOT_FUNDED")

\* Mutation of DomainBlocks: an issuer that could not be fetched passes.
DomainBlocksIfSeen == config.home /\ config.strict /\ issuer \in {"wrong", "unset"}

\* evaluateHomeDomain: an unavailable issuer counts as a missing domain.
DomainBlocks == config.home /\ config.strict /\ issuer # "right"

\* runAccountChecks.
Checked ==
    Verdict({c \in {"trustline"} : ~account.trust} \cup {c \in {"domain"} : DomainBlocks},
            IF ~account.trust THEN "TRUSTLINE_MISSING"
            ELSE IF ~DomainBlocks THEN "SUCCESS"
            ELSE IF config.tomlFetch THEN "FAILED"
            ELSE IF issuer = "wrong" THEN "HOME_DOMAIN_MISMATCH" ELSE "HOME_DOMAIN_MISSING")

\* A further check is pushed, valid recomputed, and SUCCESS replaced.
WithCheck(r, check, fails, code) ==
    LET failed == IF fails THEN r.failed \cup {check} ELSE r.failed
    IN  Verdict(failed, IF failed # {} /\ r.reason = "SUCCESS" THEN code ELSE r.reason)

-----------------------------------------------------------------------------
Init ==
    /\ config \in Configs
    /\ ledger \in Ledgers
    /\ signal = FALSE
    /\ pc = "gate"
    /\ polls = 0
    /\ account = NoAccount
    /\ issuer = "unasked"
    /\ toml = "skipped"
    /\ result = NoResult
    /\ friendbot = FALSE
    /\ thread \in {<<>>, <<"earlier">>}
    /\ ready = "unset"
    /\ unassigned = FALSE
    /\ job = "running"
    /\ outcome = "none"
    /\ refetched = "none"

End(how) == pc' = "done" /\ job' = how

\* evaluateMilestoneGate.
ShouldSkip == config.milestones # {} /\ config.milestone \notin config.milestones

Skip ==
    /\ pc = "gate" /\ ShouldSkip
    /\ End(IF config.failOnSkip THEN "failed" ELSE "succeeded")
    /\ ready' = "false"
    /\ UNCHANGED <<inputs, ledger, signal, polls, account, result, friendbot, thread,
                   unassigned>>

\* An input that does not parse ends the run before any request.
ReadInputs ==
    /\ pc = "gate" /\ ~ShouldSkip
    /\ IF config.inputsOk THEN pc' = "lookup" /\ UNCHANGED job ELSE End("failed")
    /\ UNCHANGED <<inputs, effects, ledger, signal, polls, account, result, friendbot>>

-----------------------------------------------------------------------------
(* The account, its issuer and Friendbot.                                  *)

\* What a lookup of the account may come to now.
Outcomes ==
    IF signal THEN {"cancelled"}
    ELSE {IF ledger.funded THEN "account" ELSE "notFound"}
         \cup {o \in Outages : o = "RATE_BUDGET_EXHAUSTED" => config.budget}

WantsFriendbot == config.useFriendbot /\ config.testnet /\ ~friendbot

LookupFound ==
    /\ pc = "lookup" /\ "account" \in Outcomes
    /\ outcome' = "account"
    /\ account' = ledger
    /\ pc' = "issuer"
    /\ UNCHANGED <<config, issuer, toml, refetched, effects, ledger, signal, polls, result,
                   friendbot, job>>

\* Mutation of PollAgain: the wait starts anew when it runs out.
PollForever ==
    /\ pc = "lookup" /\ config.wait /\ "notFound" \in Outcomes
    /\ polls' = IF polls < MaxPolls THEN polls + 1 ELSE 0
    /\ UNCHANGED <<inputs, effects, ledger, signal, pc, account, result, friendbot, job>>

\* waitForFundedAccount: not found, and time is left.
PollAgain ==
    /\ pc = "lookup" /\ config.wait /\ "notFound" \in Outcomes /\ polls < MaxPolls
    /\ polls' = polls + 1
    /\ UNCHANGED <<inputs, effects, ledger, signal, pc, account, result, friendbot, job>>

\* A 404 without waiting, or when the wait is over.  A poll may take longer
\* than the time that was left.
LookupMissing ==
    /\ pc = "lookup" /\ "notFound" \in Outcomes
    /\ outcome' = "notFound"
    /\ result' = Unfunded
    /\ friendbot' = (friendbot \/ WantsFriendbot)
    /\ pc' = IF WantsFriendbot THEN "friendbot" ELSE "batch"
    /\ UNCHANGED <<config, issuer, toml, refetched, effects, ledger, signal, polls, account, job>>

\* The catch of run: a cancelled lookup is reported as a Horizon failure.
LookupFails ==
    /\ pc = "lookup"
    /\ \E o \in Outcomes \ {"account", "notFound"} :
          /\ outcome' = o
          /\ result' = Failure(IF o = "cancelled" THEN "HORIZON_ERROR" ELSE o)
    /\ pc' = "batch"
    /\ UNCHANGED <<config, issuer, toml, refetched, effects, ledger, signal, polls, account,
                   friendbot, job>>

\* callFriendbot resolves: it has funded the account, perhaps on another
\* test network, and said so.
FriendbotFunds ==
    /\ pc = "friendbot" /\ config.friendbotAllowed
    /\ ledger' \in {ledger, [ledger EXCEPT !.funded = TRUE]}
    /\ pc' = "refetch"
    /\ UNCHANGED <<inputs, effects, signal, polls, account, result, friendbot, job>>

\* callFriendbot reports a failure: refused, or timed out with the account
\* funded all the same.
FriendbotFails ==
    /\ pc = "friendbot"
    /\ ledger' \in IF config.friendbotAllowed
                   THEN {ledger, [ledger EXCEPT !.funded = TRUE]} ELSE {ledger}
    /\ pc' = "batch"
    /\ UNCHANGED <<inputs, effects, signal, polls, account, result, friendbot, job>>

\* The account is fetched again; an error leaves the unfunded result.
Refetch ==
    /\ pc = "refetch"
    /\ \E o \in Outcomes :
          /\ refetched' = o
          /\ account' = IF o = "account" THEN ledger ELSE account
          /\ pc' = IF o = "account" THEN "issuer" ELSE "batch"
    /\ UNCHANGED <<config, issuer, toml, outcome, effects, ledger, signal, polls, result,
                   friendbot, job>>

\* fetchHomeDomainIssuerAccount: every error becomes null.
FetchIssuer ==
    /\ pc = "issuer"
    /\ issuer' \in IF ~config.home THEN {"unasked"}
                   ELSE {"unavailable"} \cup {d \in {config.domain} : ~signal}
    /\ pc' = "checks"
    /\ UNCHANGED <<config, toml, outcome, refetched, effects, ledger, signal, polls, account,
                   result, friendbot, job>>

\* After Friendbot the run goes on without the two gates below.
RunAccountChecks ==
    /\ pc = "checks"
    /\ result' = Checked
    /\ pc' = IF friendbot THEN "batch" ELSE "toml"
    /\ UNCHANGED <<inputs, effects, ledger, signal, polls, account, friendbot, job>>

TomlBlocks(t) == t = "failed" /\ (config.pin \/ config.strict)

\* stellar.toml; skipped when no domain is known.
TomlGate ==
    /\ pc = "toml"
    /\ IF config.home /\ config.tomlFetch
       THEN /\ toml' \in {"ok", "failed"} \cup {t \in {"skipped"} : issuer \in {"unset", "unavailable"}}
            /\ result' = IF toml' = "skipped" THEN result
                         ELSE WithCheck(result, "toml", TomlBlocks(toml'), "FAILED")
       ELSE UNCHANGED <<toml, result>>
    /\ pc' = "extra"
    /\ UNCHANGED <<config, issuer, outcome, refetched, effects, ledger, signal, polls, account,
                   friendbot, job>>

\* The trustlines of assets_json.
ExtraGate ==
    /\ pc = "extra"
    /\ result' = IF config.extraAssets
                 THEN WithCheck(result, "extra", ~account.extra, "EXTRA_TRUSTLINE_MISSING")
                 ELSE result
    /\ pc' = "batch"
    /\ UNCHANGED <<inputs, effects, ledger, signal, polls, account, friendbot, job>>

-----------------------------------------------------------------------------
(* The effects.                                                            *)

CanPost == config.post /\ config.onIssue

\* resolveCommentMode; a reply is a new comment, like mode "new".
EffectiveMode(mode) == IF mode # "unset" THEN mode ELSE IF config.sticky THEN "sticky" ELSE "new"

\* upsertIssueComment: a sticky text replaces the last TrustBridge comment; a
\* new comment is made in another mode, if there is none, and if the lookup or
\* the update fails.
Posted(text, mode) ==
    {Append(thread, text)} \cup
    {[thread EXCEPT ![Len(thread)] = text] : i \in {j \in {1} : mode = "sticky" /\ thread # <<>>}}

\* stellar_addresses is parsed outside of any try.
NoBatch ==
    /\ pc = "batch" /\ config.batch = "none"
    /\ pc' = "comment"
    /\ UNCHANGED <<inputs, effects, ledger, signal, polls, account, result, friendbot, job>>

BadBatch ==
    /\ pc = "batch" /\ config.batch = "malformed"
    /\ End("failed")
    /\ UNCHANGED <<inputs, effects, ledger, signal, polls, account, result, friendbot>>

\* The addresses are checked and the summary is posted, or not: posting is
\* off, the update is snoozed, or a GitHub call fails.
BatchSummary ==
    /\ pc = "batch" /\ config.batch = "listed"
    /\ \/ CanPost /\ thread' \in Posted("summary", EffectiveMode(config.mode))
       \/ UNCHANGED thread
    /\ pc' = "comment"
    /\ UNCHANGED <<inputs, ledger, signal, polls, account, result, friendbot, ready, unassigned, job>>

\* The report of the run is posted with the sticky_comment input alone.
PostReport ==
    /\ pc = "comment"
    /\ \/ CanPost /\ thread' \in Posted("report", EffectiveMode("unset"))
       \/ UNCHANGED thread
    /\ pc' = "outputs"
    /\ UNCHANGED <<inputs, ledger, signal, polls, account, result, friendbot, ready, unassigned, job>>

SetOutputs ==
    /\ pc = "outputs"
    /\ ready' = IF result.valid THEN "true" ELSE "false"
    /\ pc' = "unassign"
    /\ UNCHANGED <<inputs, ledger, signal, polls, account, result, friendbot, thread, unassigned, job>>

\* Mutation of MayUnassign: the request budget is not an outage.
MayUnassignOnBudget ==
    /\ config.unassign /\ config.onIssue /\ ~result.valid
    /\ result.reason \notin {"HORIZON_ERROR", "HORIZON_TIMEOUT"}

\* The guards of handleAutoUnassign.
MayUnassign ==
    /\ config.unassign /\ config.onIssue /\ ~result.valid
    /\ result.reason \notin {"HORIZON_ERROR", "HORIZON_TIMEOUT", "TLS_ERROR", "RATE_BUDGET_EXHAUSTED"}

AutoUnassign ==
    /\ pc = "unassign"
    /\ unassigned' \in {FALSE} \cup {b \in {TRUE} : MayUnassign}
    /\ pc' = "finish"
    /\ UNCHANGED <<inputs, ledger, signal, polls, account, result, friendbot, thread, ready, job>>

\* Mutation of Finish: setFailed only for an account that was found.
FinishLenient ==
    /\ pc = "finish"
    /\ End(IF account.funded /\ ~result.valid /\ config.failOnMissing THEN "failed" ELSE "succeeded")
    /\ UNCHANGED <<inputs, effects, ledger, signal, polls, account, result, friendbot>>

Finish ==
    /\ pc = "finish"
    /\ End(IF ~result.valid /\ config.failOnMissing THEN "failed" ELSE "succeeded")
    /\ UNCHANGED <<inputs, effects, ledger, signal, polls, account, result, friendbot>>

-----------------------------------------------------------------------------
(* The ledger and the job.                                                 *)

\* The contributor or the issuer changes the account; a change after the last
\* lookup of the run is left out, nothing reads it.
LedgerChanges ==
    /\ pc \in {"gate", "lookup", "friendbot", "refetch"}
    /\ ledger' \in Ledgers
    /\ UNCHANGED <<inputs, effects, signal, pc, polls, account, result, friendbot, job>>

\* SIGINT or SIGTERM.
Cancel ==
    /\ pc # "done" /\ ~signal
    /\ signal' = TRUE
    /\ UNCHANGED <<inputs, effects, ledger, pc, polls, account, result, friendbot, job>>

RunStep ==
    \/ Skip \/ ReadInputs
    \/ LookupFound \/ PollAgain \/ LookupMissing \/ LookupFails
    \/ FriendbotFunds \/ FriendbotFails \/ Refetch
    \/ FetchIssuer \/ RunAccountChecks \/ TomlGate \/ ExtraGate
    \/ NoBatch \/ BadBatch \/ BatchSummary \/ PostReport \/ SetOutputs
    \/ AutoUnassign \/ Finish

Next == RunStep \/ LedgerChanges \/ Cancel

Spec == Init /\ [][Next]_vars

\* Every await of run ends: each request has a timeout, each sleep a length.
FairSpec == Spec /\ WF_vars(RunStep)

-----------------------------------------------------------------------------
(* Properties.                                                             *)

TypeOK ==
    /\ config \in Configs
    /\ ledger \in Ledgers
    /\ signal \in BOOLEAN
    /\ pc \in {"gate", "lookup", "friendbot", "refetch", "issuer", "checks", "toml", "extra",
               "batch", "comment", "outputs", "unassign", "finish", "done"}
    /\ polls \in 0..MaxPolls
    /\ account \in Ledgers
    /\ issuer \in {"unasked", "right", "wrong", "unset", "unavailable"}
    /\ toml \in {"skipped", "ok", "failed"}
    /\ result \in Results
    /\ friendbot \in BOOLEAN
    /\ thread \in Threads
    /\ ready \in {"unset", "true", "false"}
    /\ unassigned \in BOOLEAN
    /\ job \in {"running", "succeeded", "failed"}
    /\ outcome \in Outages \cup {"none", "account", "notFound", "cancelled"}
    /\ refetched \in Outages \cup {"none", "account", "notFound", "cancelled"}

\* ready = true is backed by what Horizon answered in this run: the account was
\* returned with the primary trustline, in strict mode the issuer was returned
\* with the right domain, and unless Friendbot stepped in, the trustlines of
\* assets_json were there and no blocking stellar.toml failure was seen.
ReadyIsBacked ==
    ready = "true" =>
        /\ account.funded /\ account.trust
        /\ config.home /\ config.strict => issuer = "right"
        /\ ~friendbot => /\ config.extraAssets => account.extra
                         /\ toml = "failed" => ~config.pin /\ ~config.strict

\* The account Horizon returned fails one of the run's checks; an issuer that
\* could not be fetched counts as one without the domain in strict mode, and
\* after Friendbot the last two gates are not asked.
Lacking ==
    /\ account.funded
    /\ \/ ~account.trust
       \/ DomainBlocks
       \/ ~friendbot /\ (TomlBlocks(toml) \/ (config.extraAssets /\ ~account.extra))

\* The assignees are removed only for what this run learned of the account: it
\* was not found and no later lookup found it, or it was found and lacks
\* something. An outage, a spent request budget or a cancellation of the
\* lookup costs nobody the assignment, whatever the run does afterwards; the
\* one outage that does is HORIZON_WAIT_BUDGET_EXHAUSTED, which
\* handleAutoUnassign does not list.
UnassignedForCause ==
    unassigned =>
        \/ Lacking
        \/ outcome = "notFound" /\ refetched # "account"
        \/ outcome = "HORIZON_WAIT_BUDGET_EXHAUSTED"

\* With fail_on_missing a job succeeds only if the run was skipped by the
\* milestone gate or ready is true; no job fails with ready = true; and a job
\* that succeeds has always set ready, which workflows gate on.
JobMatchesReady ==
    pc = "done" =>
        /\ job = "succeeded" /\ config.failOnMissing => ready = "true" \/ ShouldSkip
        /\ ready = "true" => job = "succeeded"
        /\ job = "succeeded" => ready # "unset"

\* A run ends, however long the account stays unfunded.
RunEnds == <>(pc = "done")

\* "Never unassigns on transient Horizon infrastructure/connectivity errors":
\* no outage of a lookup costs the assignment.
OutageKeepsAssignee == outcome \in Outages \/ refetched \in Outages => ~unassigned

\* "`ready` reflects all required trustlines, not just the primary one."
ReadyReflectsAllTrustlines == ready = "true" /\ config.extraAssets => account.extra
=============================================================================
