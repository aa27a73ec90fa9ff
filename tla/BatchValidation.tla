-------------------------- MODULE BatchValidation --------------------------
(***************************************************************************)
(* parseBatchAddresses, runBatchValidation and buildBatchSummary            *)
(* (src/batch.ts): a list of addresses is looked up one after another; each *)
(* gives a row, and the rows give the summary and the counters.  A lookup   *)
(* is one step with the requests it made and its outcome (its retries are   *)
(* module HorizonFetch); the ledger may change between lookups, so each     *)
(* sees any account.                                                        *)
(*                                                                          *)
(* The caller is either a user of the library, who passes every option, or  *)
(* run (src/index.ts), which passes a reduced configuration.                *)
(***************************************************************************)
EXTENDS Naturals, Sequences, FiniteSets, SequencesExt

CONSTANTS
    Addresses,      \* well-formed addresses
    RawLists,       \* the lists that stellar_addresses may contain
    BatchConfigs,   \* the configurations of the batch
    MaxPerLookup    \* bound: requests of one lookup, retries included

Blank == ""         \* an entry without characters
Malformed == "bad"  \* an entry that is no Stellar address

\* horizon_max_requests (0 for no budget), home_domain_check_enabled,
\* home_domain_check_mode = strict, clawback_strict_mode, and whether the
\* caller is run of src/index.ts.
BatchOptions == [budget: Nat, home: BOOLEAN, strict: BOOLEAN, clawback: BOOLEAN, fromRun: BOOLEAN]

ASSUME BatchAssumption ==
    /\ RawLists \subseteq Seq(Addresses \cup {Blank, Malformed})
    /\ Blank \notin Addresses /\ Malformed \notin Addresses
    /\ BatchConfigs \subseteq BatchOptions
    /\ MaxPerLookup \in Nat \ {0}

VARIABLES
    batchConfig,  \* the options of this batch
    phase,        \* where it stands: "parse", "issuer", "rows", "exhausted", ...
    raw,          \* the entries of stellar_addresses
    addresses,    \* the parsed list
    issuerDomain, \* the home domain of issuerAccount
    rows,         \* results
    spent,        \* RateBudgetTracker.count
    passed,       \* counter batch_address_passed
    failed,       \* counter batch_address_failed
    summary,      \* the BatchSummary
    requests,     \* history: requests sent to Horizon
    seen          \* history: what the lookup of each row returned

batchVars == <<batchConfig, phase, raw, addresses, issuerDomain, rows, spent, passed, failed, summary, requests, seen>>

\* What the checks tell apart in an account.  extraClaw: the trustline of an
\* assets_json entry has clawback enabled.
Accounts == {a \in [trust: BOOLEAN, reserve: BOOLEAN, clawback: BOOLEAN, extraClaw: BOOLEAN] :
                a.clawback => a.trust}

Clauses == {"trustline", "reserve", "clawback", "domain", "budget", "unfunded", "horizon", "invalid"}

Codes == {"SUCCESS", "INVALID_ADDRESS", "ACCOUNT_NOT_FUNDED", "HORIZON_ERROR",
          "RATE_BUDGET_EXHAUSTED", "CLAWBACK_STRICT_MODE", "TRUSTLINE_MISSING",
          "RESERVE_TOO_LOW", "HOME_DOMAIN_MISMATCH", "HOME_DOMAIN_MISSING", "FAILED"}

-----------------------------------------------------------------------------
(* What the caller passes.                                                 *)

\* run passes neither the tracker nor home_domain_check_mode,
\* expected_home_domain, clawback_strict_mode and the extra assets.
Tracked == batchConfig.budget > 0 /\ ~batchConfig.fromRun
DomainStrict == batchConfig.home /\ batchConfig.strict /\ ~batchConfig.fromRun
Clawbacks == batchConfig.clawback /\ ~batchConfig.fromRun

-----------------------------------------------------------------------------
(* The list.                                                               *)

\* Blank entries and repetitions go, the order stays.
Keep(kept, entry) ==
    IF entry = Blank \/ entry \in ToSet(kept) THEN kept ELSE Append(kept, entry)

Parsed(list) ==
    LET kept[n \in 0..Len(list)] == IF n = 0 THEN <<>> ELSE Keep(kept[n - 1], list[n])
    IN  kept[Len(list)]

-----------------------------------------------------------------------------
(* The rows.                                                               *)

BatchRow(address, valid, code, reasons) ==
    [address |-> address, valid |-> valid, code |-> code, reasons |-> reasons]

\* Mutation of ClawbackFails: the extra assets are not looked at.
ClawbackFailsPrimary(account) == Clawbacks /\ account.clawback

\* collectClawbackStrictAssets found something.
ClawbackFails(account) == Clawbacks /\ (account.clawback \/ account.extraClaw)

DomainFails == DomainStrict /\ issuerDomain # "right"

\* runAccountChecks and the row made of it. A home domain is named only if the
\* primary asset has no other failure: its own clawback hides it, that of an
\* extra asset does not.
Reasons(account) ==
    {r \in Clauses :
        \/ r = "trustline" /\ ~account.trust
        \/ r = "reserve" /\ ~account.reserve
        \/ r = "clawback" /\ ClawbackFails(account)
        \/ r = "domain" /\ DomainFails /\ account.trust /\ account.reserve
                          /\ ~(Clawbacks /\ account.clawback)}

\* deriveBatchReasonCode; the home domain has its code only if nothing else
\* failed, which runAccountChecks sees to.
CodeOf(account) ==
    CASE ClawbackFails(account) -> "CLAWBACK_STRICT_MODE"
      [] ~ClawbackFails(account) /\ ~account.trust -> "TRUSTLINE_MISSING"
      [] ~ClawbackFails(account) /\ account.trust /\ ~account.reserve -> "RESERVE_TOO_LOW"
      [] OTHER -> IF DomainFails
                  THEN IF issuerDomain = "wrong" THEN "HOME_DOMAIN_MISMATCH" ELSE "HOME_DOMAIN_MISSING"
                  ELSE "SUCCESS"

CheckedRow(address, account) ==
    BatchRow(address, Reasons(account) = {}, CodeOf(account), Reasons(account))

ExhaustedRow(address) == BatchRow(address, FALSE, "RATE_BUDGET_EXHAUSTED", {"budget"})

-----------------------------------------------------------------------------
BatchInit ==
    /\ batchConfig = [budget |-> 0, home |-> FALSE, strict |-> FALSE, clawback |-> FALSE, fromRun |-> FALSE]
    /\ phase = "parse"
    /\ raw = <<>>
    /\ addresses = <<>>
    /\ issuerDomain = "unasked"
    /\ rows = <<>>
    /\ spent = 0
    /\ passed = 0
    /\ failed = 0
    /\ summary = [total |-> 0, passed |-> 0, failed |-> 0, buckets |-> <<>>]
    /\ requests = 0
    /\ seen = <<>>

\* A caller passes its options and a list; parseBatchAddresses throws on a list
\* without entries.
Parse ==
    /\ phase = "parse"
    /\ batchConfig' \in BatchConfigs
    /\ raw' \in RawLists
    /\ addresses' = Parsed(raw')
    /\ phase' = IF addresses' = <<>> THEN "rejected" ELSE "issuer"
    /\ UNCHANGED <<issuerDomain, rows, spent, passed, failed, summary, requests, seen>>

HasRemainingBudget == ~Tracked \/ spent < batchConfig.budget

\* Mutation of WithinBudget: one request too many is let through.
WithinBudgetLoose(n) == Tracked => spent + n <= batchConfig.budget + 1

\* A lookup that makes n requests; it is cut short by the budget, the last of
\* the requests having been counted and not sent.
WithinBudget(n) == Tracked => spent + n <= batchConfig.budget

CountRequests(n) ==
    /\ requests' = requests + n
    /\ spent' = IF Tracked THEN spent + n ELSE spent

CountToLimit ==
    /\ requests' = requests + (batchConfig.budget - spent)
    /\ spent' = batchConfig.budget + 1

\* The issuer is fetched once; every failure becomes null.
FetchIssuer ==
    /\ phase = "issuer"
    /\ phase' = "rows"
    /\ \/ /\ ~batchConfig.home
          /\ UNCHANGED <<issuerDomain, spent, requests>>
       \/ /\ batchConfig.home
          /\ \E n \in 1..MaxPerLookup : WithinBudget(n) /\ CountRequests(n)
          /\ issuerDomain' \in {"right", "wrong", "unset", "unavailable"}
       \/ /\ batchConfig.home /\ ~WithinBudget(MaxPerLookup)
          /\ CountToLimit
          /\ issuerDomain' = "unavailable"
    /\ UNCHANGED <<batchConfig, raw, addresses, rows, passed, failed, summary, seen>>

Current == addresses[Len(rows) + 1]
MoreRows == phase = "rows" /\ Len(rows) < Len(addresses)

AddRow(row, account) ==
    /\ rows' = Append(rows, row)
    /\ seen' = Append(seen, account)
    /\ passed' = passed + (IF row.valid THEN 1 ELSE 0)
    /\ failed' = failed + (IF row.valid THEN 0 ELSE 1)
    /\ UNCHANGED <<batchConfig, raw, addresses, issuerDomain, summary>>

NoAccount == [trust |-> FALSE, reserve |-> FALSE, clawback |-> FALSE, extraClaw |-> FALSE]

\* Mutation of RowInvalid: a malformed address is not counted.
RowInvalidUncounted ==
    /\ MoreRows /\ Current = Malformed
    /\ rows' = Append(rows, BatchRow(Current, FALSE, "INVALID_ADDRESS", {"invalid"}))
    /\ seen' = Append(seen, NoAccount)
    /\ UNCHANGED <<batchConfig, phase, raw, addresses, issuerDomain, spent, passed, failed, summary, requests>>

\* A malformed address never reaches Horizon.
RowInvalid ==
    /\ MoreRows /\ Current = Malformed
    /\ AddRow(BatchRow(Current, FALSE, "INVALID_ADDRESS", {"invalid"}), NoAccount)
    /\ UNCHANGED <<phase, spent, requests>>

RowChecked ==
    /\ MoreRows /\ Current # Malformed /\ HasRemainingBudget
    /\ \E n \in 1..MaxPerLookup : WithinBudget(n) /\ CountRequests(n)
    /\ \E account \in Accounts : AddRow(CheckedRow(Current, account), account)
    /\ UNCHANGED phase

\* A 404, or any other error of the lookup.
RowFailed ==
    /\ MoreRows /\ Current # Malformed /\ HasRemainingBudget
    /\ \E n \in 1..MaxPerLookup : WithinBudget(n) /\ CountRequests(n)
    /\ \/ AddRow(BatchRow(Current, FALSE, "ACCOUNT_NOT_FUNDED", {"unfunded"}), NoAccount)
       \/ AddRow(BatchRow(Current, FALSE, "HORIZON_ERROR", {"horizon"}), NoAccount)
    /\ UNCHANGED phase

\* The budget is spent before the lookup, or in the middle of its retries.
RowExhausted ==
    /\ MoreRows /\ Current # Malformed
    /\ \/ ~HasRemainingBudget /\ UNCHANGED <<spent, requests>>
       \/ HasRemainingBudget /\ ~WithinBudget(MaxPerLookup) /\ CountToLimit
    /\ AddRow(ExhaustedRow(Current), NoAccount)
    /\ phase' = "exhausted"

\* The addresses that follow, malformed ones too, are marked without a lookup.
ExhaustRest ==
    /\ phase = "exhausted" /\ Len(rows) < Len(addresses)
    /\ AddRow(ExhaustedRow(Current), NoAccount)
    /\ UNCHANGED <<phase, spent, requests>>

RowsDone ==
    /\ phase \in {"rows", "exhausted"} /\ Len(rows) = Len(addresses)
    /\ phase' = "summary"
    /\ UNCHANGED <<batchConfig, raw, addresses, issuerDomain, rows, spent, passed, failed, summary, requests, seen>>

-----------------------------------------------------------------------------
(* The summary.                                                            *)

Buckets == {"accountNotFunded", "invalidAddress", "horizonError", "clawbackStrict",
            "trustlineMissing", "reserveInsufficient"}

\* The taxonomy, read off the words of failureReason.
InBucket(row, bucket) ==
    CASE bucket = "clawbackStrict" -> "clawback" \in row.reasons
      [] bucket = "accountNotFunded" -> "unfunded" \in row.reasons
      [] bucket = "invalidAddress" -> "invalid" \in row.reasons
      [] bucket = "horizonError" -> "horizon" \in row.reasons
      [] bucket = "trustlineMissing" -> "trustline" \in row.reasons /\ "clawback" \notin row.reasons
      [] bucket = "reserveInsufficient" -> "reserve" \in row.reasons /\ "clawback" \notin row.reasons

\* buildBatchSummary.
Summarise ==
    /\ phase = "summary"
    /\ LET good == {i \in DOMAIN rows : rows[i].valid}
           bad  == DOMAIN rows \ good
       IN  summary' = [total |-> Len(rows), passed |-> Cardinality(good), failed |-> Cardinality(bad),
                       buckets |-> [b \in Buckets |-> Cardinality({i \in bad : InBucket(rows[i], b)})]]
    /\ phase' = "done"
    /\ UNCHANGED <<batchConfig, raw, addresses, issuerDomain, rows, spent, passed, failed, requests, seen>>

BatchNext ==
    \/ Parse \/ FetchIssuer
    \/ RowInvalid \/ RowChecked \/ RowFailed \/ RowExhausted \/ ExhaustRest \/ RowsDone
    \/ Summarise

BatchSpec == BatchInit /\ [][BatchNext]_batchVars

-----------------------------------------------------------------------------
(* Properties.                                                             *)

\* The rows are the addresses of the list, each once and in its order, also
\* when the budget ends the loop early ("deduplicated", and a row for each).
RowPerAddress ==
    /\ \A i \in DOMAIN rows : rows[i].address = addresses[i]
    /\ \A i, j \in DOMAIN rows : rows[i].address = rows[j].address => i = j
    /\ phase = "done" => {rows[i].address : i \in DOMAIN rows} = ToSet(raw) \ {Blank}

\* batch_address_passed + batch_address_failed = batch_size (Issue #777): each
\* row counts toward exactly one, between any two lookups and in the summary.
CountersAddUp ==
    /\ passed + failed = Len(rows)
    /\ passed = Cardinality({i \in DOMAIN rows : rows[i].valid})
    /\ phase = "done" =>
          /\ summary.total = Len(addresses)
          /\ summary.passed = passed /\ summary.failed = failed

\* A valid row stands for an account that Horizon returned for it with the
\* trustline and the reserve, and under strict policies without clawback on
\* any asset and with the right home domain.
ValidRowWasReady ==
    \A i \in DOMAIN rows : rows[i].valid =>
        /\ rows[i].code = "SUCCESS"
        /\ seen[i].trust /\ seen[i].reserve
        /\ Clawbacks => ~seen[i].clawback /\ ~seen[i].extraClaw
        /\ DomainStrict => issuerDomain = "right"

\* With a tracker the whole batch, the issuer included, keeps the request budget,
\* and a row is exhausted only when the budget was really used up.
BudgetIsKept ==
    Tracked =>
        /\ requests <= batchConfig.budget
        /\ (\E i \in DOMAIN rows : rows[i].code = "RATE_BUDGET_EXHAUSTED") => requests = batchConfig.budget

\* A clawback row is in the clawback bucket alone, and no bucket is larger
\* than the number of failed rows (Issue #725).
TaxonomyIsSound ==
    phase = "done" =>
        LET bad == {i \in DOMAIN rows : ~rows[i].valid}
            claw == {i \in bad : rows[i].code = "CLAWBACK_STRICT_MODE"}
        IN  /\ summary.buckets["clawbackStrict"] = Cardinality(claw)
            /\ \A b \in Buckets \ {"clawbackStrict"} :
                  summary.buckets[b] + summary.buckets["clawbackStrict"] <= Cardinality(bad)

\* Rows, counters and summary describe the same list, on every path through
\* the loop of runBatchValidation.
RowsAddUp == RowPerAddress /\ CountersAddUp /\ TaxonomyIsSound
=============================================================================
