--------------------------- MODULE AccountChecks ---------------------------
(***************************************************************************)
(* The verdict on one account, src/checks.ts, src/assets.ts and the        *)
(* reserve engine of src/validation.ts, and what a contributor can do      *)
(* about it: an account is looked up and checked, its owner follows the    *)
(* remediation, and it is checked again.                                   *)
(*                                                                         *)
(* XLM is counted in base reserves of 0.5 XLM, assets in stroops; the      *)
(* minimum of an asset may be finer than a stroop (Fine parts of one).     *)
(***************************************************************************)
EXTENDS Integers, FiniteSets, Sequences, SequencesExt, FiniteSetsExt

CONSTANTS
    CheckConfigs,  \* the configurations (CheckConfig)
    Wallets,       \* the accounts of the contributor
    Issuers,       \* home_domain of the issuer: "" has none, "unread" no answer
    MaxRounds      \* bound: how often an account is checked

\* A trustline, an account on the ledger, and the inputs that matter here
\* (HorizonBalance, HorizonAccount, CheckConfig).
Lines == [exists : BOOLEAN, authorized : BOOLEAN, clawback : BOOLEAN, limit : Nat, balance : Nat]
Ledger == [funded : {TRUE}, xlm : Nat, subentries : Nat, sponsoring : Nat, sponsored : Nat, line : Lines, claimables : Nat]
Inputs == [sac : BOOLEAN, policy : {"fail", "warn", "ignore"}, clawbackStrict : BOOLEAN, floor : Nat, minAsset : Nat,
           minLimit : {"unset", "zero", "two"}, domainMode : {"off", "warn", "strict"}, expected : STRING,
           toml : BOOLEAN, claimables : {"ignore", "count"}, open : BOOLEAN]

ASSUME AccountAssumption == CheckConfigs \subseteq Inputs /\ Wallets \subseteq Ledger /\ MaxRounds \in Nat

VARIABLES
    checkConfig,   \* the inputs of the workflow
    wallet,        \* the account on the ledger
    verdict,       \* the newest ValidationResult
    rounds         \* how often it was checked

accountVars == <<checkConfig, wallet, verdict, rounds>>

Fine == 10
NoLine == [exists |-> FALSE, authorized |-> TRUE, clawback |-> FALSE, limit |-> 0, balance |-> 0]
NotFunded == [funded |-> FALSE]
NotChecked == [outcome |-> "none"]

-----------------------------------------------------------------------------
(* What is read from the account.                                          *)

\* findTrustlineBalance, hasTrustline: a credit line of this code and issuer.
\* Horizon names only classic issuers, so it never matches a contract.
LineOf(account, cfg) == IF cfg.sac THEN NoLine ELSE account.line

\* computeProtocolMinReserve, in base reserves.
computeProtocolMinReserve(account) ==
    Max({0, 2 + account.subentries + account.sponsoring - account.sponsored})

buildReserveRequirement(account, cfg) == Max({computeProtocolMinReserve(account), cfg.floor})

\* Mutation of toStroops: the digits beyond a stroop are dropped.
toStroopsFloor(minimum) == minimum \div Fine

\* toStroops(.., 'ceil'): the smallest number of stroops that is enough.
toStroops(minimum) == (minimum + Fine - 1) \div Fine

\* evaluateHomeDomain: without an expected domain any domain is good.
evaluateHomeDomain(issuer, cfg) ==
    IF issuer \in {"", "unread"} THEN "missing"
    ELSE IF cfg.expected \notin {"", issuer} THEN "mismatch" ELSE "valid"

\* What runAccountChecks derives before it decides anything.
Facts(account, issuer, cfg) ==
    LET line == LineOf(account, cfg)
        outcome == evaluateHomeDomain(issuer, cfg)
        unauthorized == line.exists /\ ~line.authorized /\ cfg.policy = "fail"
    IN [line |-> line,
        unauthorized |-> unauthorized,
        trustline |-> line.exists /\ ~unauthorized,
        clawback |-> line.exists /\ line.clawback /\ cfg.clawbackStrict,
        reserve |-> account.xlm >= buildReserveRequirement(account, cfg),
        missingXlm |-> Max({0, buildReserveRequirement(account, cfg) - account.xlm}),
        minimum |-> toStroops(cfg.minAsset),
        balance |-> line.balance >= toStroops(cfg.minAsset),
        limit |-> cfg.minLimit \in {"unset", "zero"} \/ line.limit >= 2,
        domain |-> outcome,
        domainFails |-> cfg.domainMode = "strict" /\ outcome # "valid",
        domainBlocks |-> cfg.domainMode = "strict" /\ outcome # "valid" /\ ~cfg.toml]

-----------------------------------------------------------------------------
(* The rows of the report, the codes of the failed ones, and the reason.   *)

Row(label, passed) == [label |-> label, passed |-> passed]

RowsIf(condition, row) == IF condition THEN <<row>> ELSE <<>>

AccountRows(f, account, cfg) ==
    <<Row("Account funded", TRUE), Row("trustline", f.trustline), Row("XLM reserve", f.reserve)>>
    \o RowsIf(cfg.minLimit # "unset", Row("Trustline limit", f.trustline /\ f.limit))
    \o RowsIf(f.minimum > 0, Row("minimum balance", f.balance \/ ~f.trustline))
    \o RowsIf(f.clawback, Row("clawback safety", FALSE))
    \o RowsIf(cfg.domainMode # "off", Row("home domain", ~f.domainFails))
    \o RowsIf(cfg.claimables = "count" /\ account.claimables > 0, Row("Claimable balances", TRUE))

\* The rows of a lookup that gave no account: all fail, except that nothing is
\* said against the home domain.
FailureRows(first, cfg, claimables) ==
    <<Row(first, FALSE), Row("trustline", FALSE), Row("XLM reserve", FALSE)>>
    \o RowsIf(cfg.minAsset > 0, Row("minimum balance", FALSE))
    \o RowsIf(cfg.claimables = "count" /\ claimables > 0, Row("Claimable balances", TRUE))
    \o RowsIf(cfg.domainMode # "off", Row("home domain", TRUE))

Passes(rows) == \A i \in DOMAIN rows : rows[i].passed

\* getFailedCheckLabels, buildValidationGate.
FailedLabels(rows) == {rows[i].label : i \in {j \in DOMAIN rows : ~rows[j].passed}}

\* Mutation of AccountReason: the reserve is looked at before the trustline.
AccountReasonReserveFirst(f, rows, cfg) ==
    IF Passes(rows) THEN "SUCCESS"
    ELSE IF ~f.reserve THEN "RESERVE_TOO_LOW"
    ELSE IF f.unauthorized THEN "TRUSTLINE_UNAUTHORIZED" ELSE "TRUSTLINE_MISSING"

\* The first that holds, in the order of the code.
AccountReason(f, rows, cfg) ==
    IF Passes(rows) THEN "SUCCESS"
    ELSE IF f.unauthorized THEN "TRUSTLINE_UNAUTHORIZED"
    ELSE IF cfg.sac THEN "SAC_ISSUER_NOT_VERIFIABLE"
    ELSE IF f.clawback THEN "CLAWBACK_BLOCKED"
    ELSE IF ~f.trustline THEN "TRUSTLINE_MISSING"
    ELSE IF ~f.reserve THEN "RESERVE_TOO_LOW"
    ELSE IF ~f.limit THEN "TRUSTLINE_LIMIT_TOO_LOW"
    ELSE IF f.domainBlocks /\ f.domain = "mismatch" THEN "HOME_DOMAIN_MISMATCH"
    ELSE IF f.domainBlocks THEN "HOME_DOMAIN_MISSING"
    ELSE "FAILED"

\* What a failing report can ask for.
Steps(f) ==
    {s \in {"authorize", "addTrustline", "sendXlm", "raiseLimit", "acquire", "leaveClawback", "fixDomain"} :
        CASE s = "authorize" -> f.unauthorized
          [] s = "addTrustline" -> ~f.trustline /\ ~f.unauthorized
          [] s = "sendXlm" -> ~f.reserve
          [] s = "raiseLimit" -> f.trustline /\ ~f.limit
          [] s = "acquire" -> f.trustline /\ ~f.balance
          [] s = "leaveClawback" -> f.clawback
          [] s = "fixDomain" -> f.domainBlocks}

\* Mutation of Remediation: the limit is not mentioned.
RemediationNoLimit(f, rows) == IF Passes(rows) THEN {} ELSE Steps(f) \ {"raiseLimit"}

Remediation(f, rows) == IF Passes(rows) THEN {} ELSE Steps(f)

Result(outcome, rows, reason, steps) ==
    [outcome |-> outcome, rows |-> rows, reason |-> reason, steps |-> steps, domain |-> "skipped"]

runAccountChecks(account, issuer, cfg) ==
    LET f == Facts(account, issuer, cfg)
        rows == AccountRows(f, account, cfg)
    IN [Result("found", rows, AccountReason(f, rows, cfg), Remediation(f, rows))
        EXCEPT !.domain = f.domain]

unfundedAccountResult(cfg, claimables) ==
    Result("unfunded", FailureRows("Account funded", cfg, claimables), "ACCOUNT_NOT_FUNDED", {"activate", "addTrustline"})

Outage(code, rows) == Result("outage", rows, code, {"retry"})

\* The code is read back from the words of the error.
horizonFailureResult(cfg) ==
    {Outage(code, FailureRows("Horizon availability", cfg, 0)) :
        code \in {"HORIZON_ERROR", "HORIZON_TIMEOUT", "HORIZON_WAIT_BUDGET_EXHAUSTED"}}

circuitOpenFailureResult(cfg) == Outage("CIRCUIT_OPEN", FailureRows("Horizon availability", cfg, 0))

rateBudgetExhaustedResult(cfg) == Outage("RATE_BUDGET_EXHAUSTED", FailureRows("Horizon availability", cfg, 0))

\* Only the first three rows.
tlsFailureResult(cfg) == Outage("TLS_ERROR", SubSeq(FailureRows("TLS verification", cfg, 0), 1, 3))

-----------------------------------------------------------------------------
(* The helpers other callers use on the same account.                      *)

\* deriveAssetReasonCode, evaluateAssetReasonCodes for the primary asset.
deriveAssetReasonCode(line, cfg) ==
    IF ~line.exists THEN "TRUSTLINE_MISSING"
    ELSE IF line.clawback /\ cfg.clawbackStrict THEN "CLAWBACK_BLOCKED" ELSE "SUCCESS"

\* calculateRecommendedReserve and generateValidationReport: one reserve per
\* trustline, whoever sponsors it, and no other entry.
calculateRecommendedReserve(trustlines) == 2 + trustlines

ReportedReserve(account, cfg) ==
    Max({cfg.floor, calculateRecommendedReserve(IF account.line.exists THEN 1 ELSE 0)})

\* The reserve engine of validation.ts, for callers that keep a buffer.
computeBaseReserveRequirement(account) ==
    Max({0, 2 + account.subentries + account.sponsoring - account.sponsored})

\* validateDynamicReserve: whether the account meets the reserve and a buffer,
\* and by less than one base reserve.
validateDynamicReserve(account, buffer) ==
    LET rest == account.xlm - (computeBaseReserveRequirement(account) + buffer)
    IN [valid |-> rest >= 0, thin |-> rest = 0]

computeEffectiveReserveRequirement(account, cfg, buffer) ==
    Max({cfg.floor, computeBaseReserveRequirement(account) + buffer})

-----------------------------------------------------------------------------
(* The contributor.  Each step of the remediation does what it says: XLM   *)
(* and assets arrive in the amount named, and a new trustline takes a      *)
(* reserve and has the largest limit.                                      *)

NewLine(cfg) == [NoLine EXCEPT !.exists = TRUE, !.limit = 2, !.authorized = cfg.open]

Follow(steps, account, cfg) ==
    IF "activate" \in steps
    THEN [funded |-> TRUE, xlm |-> 2, subentries |-> 1, sponsoring |-> 0, sponsored |-> 0,
          line |-> NewLine(cfg), claimables |-> 0]
    ELSE LET f == Facts(account, "d1", cfg)
             line == IF "addTrustline" \in steps THEN NewLine(cfg) ELSE account.line
         IN [account EXCEPT
              !.subentries = IF "addTrustline" \in steps THEN @ + 1 ELSE @,
              !.xlm = IF "sendXlm" \in steps THEN @ + f.missingXlm ELSE @,
              !.line = [line EXCEPT
                   !.authorized = @ \/ "authorize" \in steps,
                   !.limit = IF "raiseLimit" \in steps THEN 2 ELSE @,
                   !.balance = IF "acquire" \in steps THEN f.minimum ELSE @]]

-----------------------------------------------------------------------------
AccountInit ==
    /\ checkConfig = [sac |-> FALSE]
    /\ wallet = NotFunded
    /\ verdict = NotChecked
    /\ rounds = 0

\* The workflow starts on some account with some inputs.
Configure ==
    /\ rounds = 0
    /\ checkConfig' \in CheckConfigs
    /\ wallet' \in Wallets \cup {NotFunded}
    /\ rounds' = 1
    /\ UNCHANGED verdict

Look ==
    /\ rounds \in 1..MaxRounds
    /\ verdict = NotChecked
    /\ \/ /\ wallet.funded
          /\ \E issuer \in Issuers : verdict' = runAccountChecks(wallet, issuer, checkConfig)
       \/ /\ ~wallet.funded
          /\ \E n \in 0..1 : verdict' = unfundedAccountResult(checkConfig, n)
       \/ verdict' \in horizonFailureResult(checkConfig) \cup
                      {circuitOpenFailureResult(checkConfig), rateBudgetExhaustedResult(checkConfig), tlsFailureResult(checkConfig)}
    /\ UNCHANGED <<checkConfig, wallet, rounds>>

\* The owner follows the steps; the maintainer leaves the strict modes.
Repair ==
    /\ verdict # NotChecked /\ rounds < MaxRounds
    /\ ~Passes(verdict.rows)
    /\ rounds' = IF verdict.outcome = "outage" THEN rounds ELSE rounds + 1
    /\ wallet' = IF verdict.outcome = "outage" THEN wallet ELSE Follow(verdict.steps, wallet, checkConfig)
    /\ checkConfig' = [checkConfig EXCEPT
          !.clawbackStrict = @ /\ "leaveClawback" \notin verdict.steps,
          !.domainMode = IF "fixDomain" \in verdict.steps THEN "warn" ELSE @]
    /\ verdict' = NotChecked

AccountNext == Configure \/ Look \/ Repair

AccountSpec == AccountInit /\ [][AccountNext]_accountVars

-----------------------------------------------------------------------------
(* Properties.                                                             *)

Found == verdict.outcome = "found"

\* A valid account can receive the asset: whatever the policies leave open,
\* it has the trustline, the limit, the exact minimum in parts finer than a
\* stroop, and the reserve the protocol and the input ask for.
ValidCanReceive ==
    Found /\ Passes(verdict.rows) =>
        /\ wallet.line.exists /\ ~checkConfig.sac
        /\ checkConfig.policy = "fail" => wallet.line.authorized
        /\ checkConfig.clawbackStrict => ~wallet.line.clawback
        /\ wallet.line.balance * Fine >= checkConfig.minAsset
        /\ checkConfig.minLimit = "two" => wallet.line.limit >= 2
        /\ wallet.xlm >= checkConfig.floor
        /\ wallet.xlm + wallet.sponsored >= 2 + wallet.subentries + wallet.sponsoring

\* The reason code of a result belongs to a row that fails in it
\* (schemas/reason-codes.json), and a trustline that exists is never said to
\* be missing.
RowOfReason ==
    [TRUSTLINE_UNAUTHORIZED |-> "trustline", SAC_ISSUER_NOT_VERIFIABLE |-> "trustline",
     TRUSTLINE_MISSING |-> "trustline", CLAWBACK_BLOCKED |-> "clawback safety",
     RESERVE_TOO_LOW |-> "XLM reserve", TRUSTLINE_LIMIT_TOO_LOW |-> "Trustline limit",
     HOME_DOMAIN_MISMATCH |-> "home domain", HOME_DOMAIN_MISSING |-> "home domain"]

ReasonIsShown ==
    Found =>
        /\ verdict.reason = "SUCCESS" <=> FailedLabels(verdict.rows) = {}
        /\ verdict.reason \in DOMAIN RowOfReason => RowOfReason[verdict.reason] \in FailedLabels(verdict.rows)
        /\ verdict.reason = "TRUSTLINE_MISSING" => ~wallet.line.exists
        /\ verdict.reason = "RESERVE_TOO_LOW" => deriveAssetReasonCode(wallet.line, checkConfig) = "SUCCESS"

\* Who follows the remediation gets there: an account that was missing or
\* failing passes after at most four rounds (activate, authorize, reserve and
\* balance), unless the issuer is a contract, or a strict home domain with
\* stellar.toml fetching fails, for which the code lists no step.
RemediationSuffices ==
    Found /\ rounds = MaxRounds /\ ~checkConfig.sac =>
        FailedLabels(verdict.rows) \subseteq (IF checkConfig.domainMode = "strict" THEN {"home domain"} ELSE {})

\* The places of the code that compute a reserve agree.  The reserve engine
\* without a buffer asks for what the checks ask for; an account it finds
\* valid, and without a thin margin, keeps the protocol's minimum when it adds
\* an entry; and for an account whose only entry is the trustline and which
\* nobody sponsors, generateValidationReport asks for the same.
ReservesAgree ==
    LET short == "XLM reserve" \in FailedLabels(verdict.rows)
        ample == LET r == validateDynamicReserve(wallet, 0) IN r.valid /\ ~r.thin
    IN Found =>
        /\ short <=> wallet.xlm < computeEffectiveReserveRequirement(wallet, checkConfig, 0)
        /\ ample => wallet.xlm >= computeProtocolMinReserve([wallet EXCEPT !.subentries = @ + 1])
        /\ (/\ wallet.sponsored = 0 /\ wallet.sponsoring = 0
            /\ wallet.subentries = (IF wallet.line.exists THEN 1 ELSE 0)) =>
              (short <=> wallet.xlm < ReportedReserve(wallet, checkConfig))

\* What a valid verdict says about an account is true, and the places of the
\* code that compute a reserve say the same (runAccountChecks,
\* computeEffectiveReserveRequirement, generateValidationReport).
VerdictIsTrue == ValidCanReceive /\ ReservesAgree
=============================================================================
