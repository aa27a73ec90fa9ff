--------------------------- MODULE ReportingProofs ---------------------------
(***************************************************************************)
(* From an account to what the outside is told of it: the parts of         *)
(* MCReporting, for every value of the constants.                          *)
(*   runBatchValidation keeps the request budget, a valid row stands for a *)
(*     ready account, and rows, counters and summary describe the list;    *)
(*   runAccountChecks calls no account ready that is not, shows the reason *)
(*     it gives, and whoever follows its remediation ends ready;           *)
(*   the check run and the board say what the verdict says;                *)
(*   the comparison with the previous run is between runs of one address;  *)
(*   a shortened report keeps its marker and its sections.                 *)
(* Facts on lists are proved by induction on numbers, which starts from    *)
(* the least of a set of numbers.                                          *)
(***************************************************************************)
EXTENDS AccountChecks, ReportText, BatchValidation, Publishing, PreviousRun,
        TLAPS, SequenceTheorems, FiniteSetTheorems, FunctionTheorems, WellFoundedInduction

\* The rows, and what was seen for each.
IsList(s) == \E S : s \in Seq(S)

ListsOK == IsList(rows) /\ IsList(seen) /\ Len(rows) = Len(seen)

Start == {"parse", "issuer", "rejected"}

OptionsOK == batchConfig \in BatchConfigs \/ (phase = "parse" /\ batchConfig.budget = 0)

\* The tracker counts every request, and one more than there were when it
\* stopped a lookup.
SpentOK ==
    /\ requests \in Nat /\ spent \in Nat
    /\ phase \in {"parse", "issuer"} => requests = 0 /\ spent = 0
    /\ Tracked => \/ spent <= batchConfig.budget /\ requests = spent
                  \/ spent = batchConfig.budget + 1 /\ requests = batchConfig.budget

RowsStart == phase \in Start => rows = <<>> /\ seen = <<>>

\* Rows are exhausted after the budget only, and each valid row has its account.
ExhaustedOK ==
    /\ phase = "exhausted" => (Tracked => requests = batchConfig.budget)
    /\ Tracked => \A i \in DOMAIN rows : rows[i].code = "RATE_BUDGET_EXHAUSTED" => requests = batchConfig.budget

BatchInv == ListsOK /\ OptionsOK /\ SpentOK /\ RowsStart /\ ExhaustedOK /\ ValidRowWasReady

-----------------------------------------------------------------------------
(* Lists.                                                                  *)

LEMMA EmptyList == IsList(<<>>) /\ Len(<<>>) = 0 /\ DOMAIN <<>> = {}
  <1>1. <<>> \in Seq({})
    OBVIOUS
  <1> QED BY <1>1 DEF IsList

LEMMA ListGrows == ASSUME NEW s, IsList(s), NEW e
    PROVE /\ IsList(Append(s, e))
          /\ Len(s) \in Nat
          /\ Len(Append(s, e)) = Len(s) + 1
          /\ DOMAIN s = 1..Len(s) /\ DOMAIN Append(s, e) = 1..(Len(s) + 1)
          /\ \A i \in 1..Len(s) : Append(s, e)[i] = s[i]
          /\ Append(s, e)[Len(s) + 1] = e
  <1>1. PICK S : s \in Seq(S)
    BY DEF IsList
  <1>2. s \in Seq(S \cup {e}) /\ e \in S \cup {e}
    BY <1>1
  <1>3. Append(s, e) \in Seq(S \cup {e})
    BY <1>2, AppendProperties
  <1> QED BY <1>1, <1>2, <1>3, AppendProperties DEF IsList

\* A new row r with its account a, as AddRow adds it.
LEMMA RowAdded == ASSUME ListsOK, NEW r, NEW a, AddRow(r, a)
    PROVE /\ ListsOK'
          /\ \A i \in DOMAIN rows' :
                \/ i \in DOMAIN rows /\ rows'[i] = rows[i] /\ seen'[i] = seen[i]
                \/ i \notin DOMAIN rows /\ rows'[i] = r /\ seen'[i] = a
          /\ UNCHANGED <<batchConfig, issuerDomain>>
  <1>1. rows' = Append(rows, r) /\ seen' = Append(seen, a)
    BY DEF AddRow
  <1>2. /\ IsList(rows') /\ IsList(seen') /\ Len(rows) \in Nat
        /\ DOMAIN rows = 1..Len(rows) /\ DOMAIN rows' = 1..(Len(rows) + 1)
        /\ Len(rows') = Len(rows) + 1 /\ Len(seen') = Len(rows) + 1
        /\ \A i \in 1..Len(rows) : rows'[i] = rows[i] /\ seen'[i] = seen[i]
        /\ rows'[Len(rows) + 1] = r /\ seen'[Len(rows) + 1] = a
    BY <1>1, ListGrows DEF ListsOK
  <1>3. ListsOK'
    BY <1>2 DEF ListsOK
  <1>4. \A i \in DOMAIN rows' : i \in DOMAIN rows \/ (i = Len(rows) + 1 /\ i \notin DOMAIN rows)
    BY <1>2
  <1>5. ASSUME NEW i \in DOMAIN rows'
        PROVE \/ i \in DOMAIN rows /\ rows'[i] = rows[i] /\ seen'[i] = seen[i]
              \/ i \notin DOMAIN rows /\ rows'[i] = r /\ seen'[i] = a
    BY <1>2, <1>4, <1>5
  <1> QED BY <1>3, <1>5 DEF AddRow

-----------------------------------------------------------------------------
(* The budget.                                                             *)

LEMMA Types == ASSUME OptionsOK PROVE batchConfig.budget \in Nat
BY BatchAssumption DEF OptionsOK, BatchOptions

\* A lookup within the budget is counted request by request.
LEMMA Counted == ASSUME OptionsOK, SpentOK, NEW n \in 1..MaxPerLookup, WithinBudget(n), CountRequests(n),
        phase' \notin {"parse", "issuer"}, UNCHANGED batchConfig
    PROVE SpentOK'
BY Types, BatchAssumption DEF SpentOK, WithinBudget, CountRequests, Tracked

\* A lookup the budget ends has spent it.
LEMMA Stopped == ASSUME OptionsOK, SpentOK, Tracked, spent <= batchConfig.budget, CountToLimit,
        phase' \notin {"parse", "issuer"}, UNCHANGED batchConfig
    PROVE SpentOK' /\ requests' = batchConfig.budget
BY Types DEF SpentOK, CountToLimit, Tracked

-----------------------------------------------------------------------------
(* A step that adds a row.                                                 *)

\* The rows stay sound if the new one is.
LEMMA RowKeeps == ASSUME BatchInv, NEW r, NEW a, AddRow(r, a), SpentOK',
        phase' \in {"rows", "exhausted"}, phase \in {"rows", "exhausted"},
        Tracked /\ requests = batchConfig.budget => requests' = batchConfig.budget,
        phase' = "exhausted" /\ Tracked => requests' = batchConfig.budget,
        r.code = "RATE_BUDGET_EXHAUSTED" => phase' = "exhausted",
        r.valid => /\ r.code = "SUCCESS"
                   /\ a.trust /\ a.reserve
                   /\ Clawbacks => ~a.clawback /\ ~a.extraClaw
                   /\ DomainStrict => issuerDomain = "right"
    PROVE BatchInv'
  <1>1. /\ ListsOK'
        /\ \A i \in DOMAIN rows' :
              \/ i \in DOMAIN rows /\ rows'[i] = rows[i] /\ seen'[i] = seen[i]
              \/ i \notin DOMAIN rows /\ rows'[i] = r /\ seen'[i] = a
        /\ UNCHANGED <<batchConfig, issuerDomain>>
    BY RowAdded DEF BatchInv
  <1>2. /\ Tracked' = Tracked /\ Clawbacks' = Clawbacks /\ DomainStrict' = DomainStrict
    BY <1>1 DEF Tracked, Clawbacks, DomainStrict
  <1>3. OptionsOK'
    BY <1>1 DEF BatchInv, OptionsOK
  <1>4. ExhaustedOK'
    <2>1. ASSUME Tracked, NEW i \in DOMAIN rows', rows'[i].code = "RATE_BUDGET_EXHAUSTED"
          PROVE requests' = batchConfig.budget
      BY <1>1, <2>1 DEF BatchInv, ExhaustedOK
    <2> QED BY <1>1, <1>2, <2>1 DEF ExhaustedOK
  <1>5. ValidRowWasReady'
    <2> SUFFICES ASSUME NEW i \in DOMAIN rows', rows'[i].valid
                 PROVE /\ rows'[i].code = "SUCCESS"
                       /\ seen'[i].trust /\ seen'[i].reserve
                       /\ Clawbacks => ~seen'[i].clawback /\ ~seen'[i].extraClaw
                       /\ DomainStrict => issuerDomain = "right"
      BY <1>1, <1>2 DEF ValidRowWasReady
    <2>1. CASE i \in DOMAIN rows /\ rows'[i] = rows[i] /\ seen'[i] = seen[i]
      BY <2>1 DEF BatchInv, ValidRowWasReady
    <2>2. CASE rows'[i] = r /\ seen'[i] = a
      BY <2>2
    <2> QED BY <1>1, <2>1, <2>2
  <1>6. RowsStart'
    BY DEF RowsStart, Start
  <1> QED BY <1>1, <1>3, <1>4, <1>5, <1>6 DEF BatchInv

\* A row of a checked account is valid for good reasons only.
LEMMA CheckedIsReady == ASSUME NEW address, NEW account
    PROVE LET r == CheckedRow(address, account)
          IN  /\ r.code # "RATE_BUDGET_EXHAUSTED"
              /\ r.valid => /\ r.code = "SUCCESS"
                            /\ account.trust /\ account.reserve
                            /\ Clawbacks => ~account.clawback /\ ~account.extraClaw
                            /\ DomainStrict => issuerDomain = "right"
  <1> DEFINE r == CheckedRow(address, account)
  <1>1. r.code = CodeOf(account) /\ (r.valid <=> Reasons(account) = {})
    BY DEF CheckedRow, BatchRow
  <1>2. CodeOf(account) # "RATE_BUDGET_EXHAUSTED"
    BY DEF CodeOf
  <1>3. ASSUME Reasons(account) = {}
        PROVE account.trust /\ account.reserve /\ ~ClawbackFails(account) /\ ~DomainFails
    <2>1. /\ "trustline" \in Clauses /\ "reserve" \in Clauses
          /\ "clawback" \in Clauses /\ "domain" \in Clauses
      BY DEF Clauses
    <2>2. account.trust /\ account.reserve /\ ~ClawbackFails(account)
      BY <1>3, <2>1 DEF Reasons
    <2> QED BY <1>3, <2>1, <2>2 DEF Reasons, ClawbackFails
  <1>4. ASSUME Reasons(account) = {} PROVE CodeOf(account) = "SUCCESS"
    BY <1>3, <1>4 DEF CodeOf
  <1> QED BY <1>1, <1>2, <1>3, <1>4 DEF ClawbackFails, DomainFails

\* Rows without a look at an account are not valid.
LEMMA FailedKeeps == ASSUME BatchInv, NEW address, NEW code, NEW reasons,
        AddRow(BatchRow(address, FALSE, code, reasons), NoAccount), SpentOK',
        phase = "rows", phase' = "rows", code # "RATE_BUDGET_EXHAUSTED",
        Tracked /\ requests = batchConfig.budget => requests' = batchConfig.budget
    PROVE BatchInv'
  <1> DEFINE r == BatchRow(address, FALSE, code, reasons)
  <1>1. ~r.valid /\ r.code = code
    <2>1. r.valid = FALSE
      BY DEF BatchRow
    <2>2. r.code = code
      BY DEF BatchRow
    <2> QED BY <2>1, <2>2
  <1> HIDE DEF r
  <1>2. AddRow(r, NoAccount)
    BY DEF r
  <1> QED BY <1>1, <1>2, RowKeeps

LEMMA ExhaustedIsInvalid == ASSUME NEW address PROVE ~ExhaustedRow(address).valid
BY DEF ExhaustedRow, BatchRow

LEMMA ExhaustedKeeps == ASSUME BatchInv, NEW address, AddRow(ExhaustedRow(address), NoAccount), SpentOK',
        phase \in {"rows", "exhausted"}, phase' = "exhausted",
        Tracked => requests' = batchConfig.budget
    PROVE BatchInv'
  <1> DEFINE r == ExhaustedRow(address)
  <1>1. ~r.valid
    BY ExhaustedIsInvalid
  <1> HIDE DEF r
  <1>2. AddRow(r, NoAccount)
    BY DEF r
  <1> QED BY <1>1, <1>2, RowKeeps

-----------------------------------------------------------------------------
(* The invariant.                                                          *)

\* As long as there are no rows, there is nothing to say of them.
LEMMA NoRows == ASSUME rows = <<>>, seen = <<>>, phase # "exhausted"
    PROVE ListsOK /\ RowsStart /\ ExhaustedOK /\ ValidRowWasReady
BY EmptyList DEF ListsOK, RowsStart, ExhaustedOK, ValidRowWasReady

LEMMA BatchStarts == BatchInit => BatchInv
  <1> SUFFICES ASSUME BatchInit PROVE BatchInv
    OBVIOUS
  <1>1. ListsOK /\ RowsStart /\ ExhaustedOK /\ ValidRowWasReady
    BY NoRows DEF BatchInit
  <1>2. OptionsOK
    BY DEF BatchInit, OptionsOK
  <1>3. SpentOK
    BY DEF BatchInit, SpentOK, Tracked
  <1> QED BY <1>1, <1>2, <1>3 DEF BatchInv

LEMMA ParseKeeps == ASSUME BatchInv, Parse PROVE BatchInv'
  <1>1. /\ phase = "parse" /\ batchConfig' \in BatchConfigs
        /\ phase' \in {"rejected", "issuer"}
        /\ UNCHANGED <<rows, seen, spent, requests>>
    BY DEF Parse
  <1>2. rows' = <<>> /\ seen' = <<>> /\ spent' = 0 /\ requests' = 0
    BY <1>1 DEF BatchInv, RowsStart, Start, SpentOK
  <1>3. OptionsOK'
    BY <1>1 DEF OptionsOK
  <1>4. batchConfig'.budget \in Nat
    BY <1>1, BatchAssumption DEF BatchOptions
  <1>5. SpentOK'
    BY <1>2, <1>4 DEF SpentOK
  <1>6. (ListsOK /\ RowsStart /\ ExhaustedOK /\ ValidRowWasReady)'
    BY <1>1, <1>2, EmptyList DEF ListsOK, RowsStart, ExhaustedOK, ValidRowWasReady
  <1> QED BY <1>3, <1>5, <1>6 DEF BatchInv

LEMMA FetchKeeps == ASSUME BatchInv, FetchIssuer PROVE BatchInv'
  <1>1. /\ phase = "issuer" /\ phase' = "rows"
        /\ UNCHANGED <<batchConfig, rows, seen>>
    BY DEF FetchIssuer
  <1>2. rows' = <<>> /\ seen' = <<>>
    BY <1>1 DEF BatchInv, RowsStart, Start
  <1>3. OptionsOK /\ OptionsOK' /\ SpentOK
    BY <1>1 DEF BatchInv, OptionsOK
  <1>4. (ListsOK /\ RowsStart /\ ExhaustedOK /\ ValidRowWasReady)'
    BY <1>1, <1>2, EmptyList DEF ListsOK, RowsStart, Start, ExhaustedOK, ValidRowWasReady
  <1>5. SpentOK'
    <2>1. CASE UNCHANGED <<spent, requests>>
      BY <1>1, <1>3, <2>1 DEF SpentOK, Tracked
    <2>2. CASE \E n \in 1..MaxPerLookup : WithinBudget(n) /\ CountRequests(n)
      BY <1>1, <1>3, <2>2, Counted
    <2>3. CASE ~WithinBudget(MaxPerLookup) /\ CountToLimit
      <3>1. Tracked /\ spent <= batchConfig.budget
        BY <1>1, <1>3, <2>3, Types DEF WithinBudget, SpentOK
      <3> QED BY <1>1, <1>3, <2>3, <3>1, Stopped
    <2> QED BY <2>1, <2>2, <2>3 DEF FetchIssuer
  <1> QED BY <1>3, <1>4, <1>5 DEF BatchInv

\* The steps of the loop.
LEMMA LoopKeeps == ASSUME BatchInv, RowInvalid \/ RowChecked \/ RowFailed \/ RowExhausted \/ ExhaustRest
    PROVE BatchInv'
  <1>i. OptionsOK /\ SpentOK /\ ExhaustedOK
    BY DEF BatchInv
  <1>1. CASE RowInvalid
    <2>1. /\ phase = "rows" /\ UNCHANGED <<phase, spent, requests, batchConfig>>
          /\ AddRow(BatchRow(Current, FALSE, "INVALID_ADDRESS", {"invalid"}), NoAccount)
      BY <1>1 DEF RowInvalid, MoreRows, AddRow
    <2>2. SpentOK'
      BY <1>i, <2>1 DEF SpentOK, Tracked
    <2> QED BY <2>1, <2>2, FailedKeeps
  <1>2. CASE RowChecked
    <2>1. /\ phase = "rows" /\ UNCHANGED <<phase, batchConfig>> /\ HasRemainingBudget
          /\ \E n \in 1..MaxPerLookup : WithinBudget(n) /\ CountRequests(n)
      BY <1>2 DEF RowChecked, MoreRows, AddRow
    <2>2. PICK account \in Accounts : AddRow(CheckedRow(Current, account), account)
      BY <1>2 DEF RowChecked
    <2>3. SpentOK'
      BY <1>i, <2>1, Counted
    <2>4. ~(Tracked /\ requests = batchConfig.budget)
      BY <1>i, <2>1, Types DEF SpentOK, HasRemainingBudget
    <2> QED BY <2>1, <2>2, <2>3, <2>4, RowKeeps, CheckedIsReady
  <1>3. CASE RowFailed
    <2>1. /\ phase = "rows" /\ UNCHANGED <<phase, batchConfig>> /\ HasRemainingBudget
          /\ \E n \in 1..MaxPerLookup : WithinBudget(n) /\ CountRequests(n)
      BY <1>3 DEF RowFailed, MoreRows, AddRow
    <2>2. PICK code \in {"ACCOUNT_NOT_FUNDED", "HORIZON_ERROR"}, reasons \in {{"unfunded"}, {"horizon"}} :
            AddRow(BatchRow(Current, FALSE, code, reasons), NoAccount)
      BY <1>3 DEF RowFailed
    <2>3. SpentOK'
      BY <1>i, <2>1, Counted
    <2>4. ~(Tracked /\ requests = batchConfig.budget)
      BY <1>i, <2>1, Types DEF SpentOK, HasRemainingBudget
    <2> QED BY <2>1, <2>2, <2>3, <2>4, FailedKeeps
  <1>4. CASE RowExhausted
    <2>1. /\ phase = "rows" /\ phase' = "exhausted" /\ UNCHANGED batchConfig
          /\ AddRow(ExhaustedRow(Current), NoAccount)
      BY <1>4 DEF RowExhausted, MoreRows, AddRow
    <2>2. SpentOK' /\ (Tracked => requests' = batchConfig.budget)
      <3>1. CASE ~HasRemainingBudget /\ UNCHANGED <<spent, requests>>
        BY <1>i, <2>1, <3>1, Types DEF SpentOK, HasRemainingBudget, Tracked
      <3>2. CASE HasRemainingBudget /\ ~WithinBudget(MaxPerLookup) /\ CountToLimit
        <4>1. Tracked /\ spent <= batchConfig.budget
          BY <1>i, <3>2, Types DEF WithinBudget, SpentOK, HasRemainingBudget
        <4> QED BY <1>i, <2>1, <3>2, <4>1, Stopped
      <3> QED BY <1>4, <3>1, <3>2 DEF RowExhausted
    <2> QED BY <2>1, <2>2, ExhaustedKeeps
  <1>5. CASE ExhaustRest
    <2>1. /\ phase = "exhausted" /\ UNCHANGED <<phase, spent, requests, batchConfig>>
          /\ AddRow(ExhaustedRow(Current), NoAccount)
      BY <1>5 DEF ExhaustRest, AddRow
    <2>2. SpentOK' /\ (Tracked => requests' = batchConfig.budget)
      BY <1>i, <2>1 DEF SpentOK, ExhaustedOK, Tracked
    <2> QED BY <2>1, <2>2, ExhaustedKeeps
  <1> QED BY <1>1, <1>2, <1>3, <1>4, <1>5

LEMMA BatchKeeps == BatchInv /\ [BatchNext]_batchVars => BatchInv'
  <1> SUFFICES ASSUME BatchInv, [BatchNext]_batchVars PROVE BatchInv'
    OBVIOUS
  <1>1. CASE Parse
    BY <1>1, ParseKeeps
  <1>2. CASE FetchIssuer
    BY <1>2, FetchKeeps
  <1>3. CASE RowInvalid \/ RowChecked \/ RowFailed \/ RowExhausted \/ ExhaustRest
    BY <1>3, LoopKeeps
  <1>4. CASE RowsDone \/ Summarise \/ UNCHANGED batchVars
    <2>1. /\ UNCHANGED <<batchConfig, issuerDomain, rows, spent, requests, seen>>
          /\ phase' = phase \/ (phase \notin {"parse", "issuer", "rejected"} /\ phase' \in {"summary", "done"})
      BY <1>4 DEF RowsDone, Summarise, batchVars
    <2>2. Tracked' = Tracked /\ Clawbacks' = Clawbacks /\ DomainStrict' = DomainStrict
      BY <2>1 DEF Tracked, Clawbacks, DomainStrict
    <2>3. OptionsOK' /\ SpentOK' /\ RowsStart'
      BY <2>1, <2>2 DEF BatchInv, OptionsOK, SpentOK, RowsStart, Start
    <2>4. ListsOK' /\ ExhaustedOK'
      BY <2>1, <2>2 DEF BatchInv, ListsOK, ExhaustedOK
    <2>5. ValidRowWasReady'
      BY <2>1, <2>2 DEF BatchInv, ValidRowWasReady
    <2> QED BY <2>3, <2>4, <2>5 DEF BatchInv
  <1> QED BY <1>1, <1>2, <1>3, <1>4 DEF BatchNext

\* The request budget of a tracked batch (src/batch.ts, RateBudgetTracker in
\* src/resilience.ts), for every budget and list: it is never exceeded, and
\* rows are given up only once all of it was spent.
THEOREM BatchBudgetHolds == BatchSpec => []BudgetIsKept
  <1>1. BatchInv => BudgetIsKept
    BY Types DEF BatchInv, SpentOK, ExhaustedOK, BudgetIsKept
  <1> QED BY BatchStarts, BatchKeeps, <1>1, PTL DEF BatchSpec

\* A row of runBatchValidation is valid only for an account that Horizon
\* returned with trustline and reserve, under the policies of the caller.
THEOREM ValidRowsHold == BatchSpec => []ValidRowWasReady
  <1>1. BatchInv => ValidRowWasReady
    BY DEF BatchInv
  <1> QED BY BatchStarts, BatchKeeps, <1>1, PTL DEF BatchSpec

-----------------------------------------------------------------------------
(* The counters.                                                           *)

GoodRows == {i \in DOMAIN rows : rows[i].valid}
BadRows  == DOMAIN rows \ GoodRows

CountersOK ==
    /\ passed \in Nat /\ failed \in Nat
    /\ IsFiniteSet(GoodRows) /\ passed = Cardinality(GoodRows)
    /\ IsFiniteSet(BadRows) /\ failed = Cardinality(BadRows)
    /\ passed + failed = Len(rows)
    /\ phase \in {"summary", "done"} => Len(rows) = Len(addresses)
    /\ phase = "done" => summary.total = Len(rows) /\ summary.passed = passed /\ summary.failed = failed

CountInv == ListsOK /\ RowsStart /\ CountersOK

LEMMA CountStarts == BatchInit => CountInv
  <1> SUFFICES ASSUME BatchInit PROVE CountInv
    OBVIOUS
  <1>1. ListsOK /\ RowsStart
    BY NoRows DEF BatchInit
  <1>2. GoodRows = {} /\ BadRows = {}
    BY EmptyList DEF BatchInit, GoodRows, BadRows
  <1>3. CountersOK
    BY <1>2, EmptyList, FS_EmptySet DEF BatchInit, CountersOK
  <1> QED BY <1>1, <1>3 DEF CountInv

\* Each row counts for one of the two.
LEMMA RowCounts == ASSUME CountInv, NEW r, NEW a, AddRow(r, a), phase' \in {"rows", "exhausted"}
    PROVE CountInv'
  <1>1. rows' = Append(rows, r) /\ IsList(rows)
    BY DEF AddRow, CountInv, ListsOK
  <1> DEFINE n == Len(rows) + 1
  <1>2. /\ n \in Nat /\ Len(rows) \in Nat /\ Len(rows') = n
        /\ DOMAIN rows = 1..Len(rows) /\ DOMAIN rows' = 1..n
        /\ \A i \in 1..Len(rows) : rows'[i] = rows[i]
        /\ rows'[n] = r
    BY <1>1, ListGrows
  <1>3. n \notin GoodRows /\ n \notin BadRows
    BY <1>2 DEF GoodRows, BadRows
  <1>4. CASE r.valid
    <2>1. GoodRows' = GoodRows \cup {n} /\ BadRows' = BadRows
      BY <1>2, <1>4 DEF GoodRows, BadRows
    <2>2. /\ IsFiniteSet(GoodRows') /\ Cardinality(GoodRows') = passed + 1
          /\ IsFiniteSet(BadRows') /\ Cardinality(BadRows') = failed
      BY <1>3, <2>1, FS_AddElement DEF CountInv, CountersOK
    <2>3. passed' = passed + 1 /\ failed' = failed
      BY <1>4 DEF AddRow, CountInv, CountersOK
    <2>4. CountersOK'
      BY <1>2, <2>2, <2>3 DEF CountInv, CountersOK
    <2> QED BY <2>4, RowAdded DEF CountInv, RowsStart, Start
  <1>5. CASE ~r.valid
    <2>1. GoodRows' = GoodRows /\ BadRows' = BadRows \cup {n}
      BY <1>2, <1>5 DEF GoodRows, BadRows
    <2>2. /\ IsFiniteSet(GoodRows') /\ Cardinality(GoodRows') = passed
          /\ IsFiniteSet(BadRows') /\ Cardinality(BadRows') = failed + 1
      BY <1>3, <2>1, FS_AddElement DEF CountInv, CountersOK
    <2>3. passed' = passed /\ failed' = failed + 1
      BY <1>5 DEF AddRow, CountInv, CountersOK
    <2>4. CountersOK'
      BY <1>2, <2>2, <2>3 DEF CountInv, CountersOK
    <2> QED BY <2>4, RowAdded DEF CountInv, RowsStart, Start
  <1> QED BY <1>4, <1>5

LEMMA CountKeeps == CountInv /\ [BatchNext]_batchVars => CountInv'
  <1> SUFFICES ASSUME CountInv, [BatchNext]_batchVars PROVE CountInv'
    OBVIOUS
  <1>1. CASE UNCHANGED <<rows, seen, passed, failed>> /\ phase' \in {"rejected", "issuer", "rows"} /\ phase \in Start
    BY <1>1 DEF CountInv, ListsOK, RowsStart, CountersOK, GoodRows, BadRows
  <1>2. CASE RowsDone
    BY <1>2 DEF RowsDone, CountInv, ListsOK, RowsStart, Start, CountersOK, GoodRows, BadRows
  <1>3. CASE Summarise
    <2>1. /\ UNCHANGED <<rows, seen, passed, failed, addresses>> /\ phase = "summary" /\ phase' = "done"
          /\ summary'.total = Len(rows)
          /\ summary'.passed = Cardinality(GoodRows) /\ summary'.failed = Cardinality(BadRows)
      BY <1>3 DEF Summarise, GoodRows, BadRows
    <2>2. GoodRows' = GoodRows /\ BadRows' = BadRows
      BY <2>1 DEF GoodRows, BadRows
    <2> QED BY <2>1, <2>2 DEF CountInv, ListsOK, RowsStart, Start, CountersOK
  <1>4. CASE UNCHANGED batchVars
    BY <1>4 DEF batchVars, CountInv, ListsOK, RowsStart, CountersOK, GoodRows, BadRows
  <1>5. ASSUME NEW r, NEW a, AddRow(r, a), phase' \in {"rows", "exhausted"} PROVE CountInv'
    BY <1>5, RowCounts
  <1>6. CASE RowInvalid \/ RowChecked \/ RowFailed \/ RowExhausted \/ ExhaustRest
    <2>1. phase' \in {"rows", "exhausted"}
      BY <1>6 DEF RowInvalid, RowChecked, RowFailed, RowExhausted, ExhaustRest, MoreRows
    <2>2. \E r, a : AddRow(r, a)
      <3>1. CASE RowInvalid
        BY <3>1 DEF RowInvalid
      <3>2. CASE RowChecked
        BY <3>2 DEF RowChecked
      <3>3. CASE RowFailed
        BY <3>3 DEF RowFailed
      <3>4. CASE RowExhausted
        BY <3>4 DEF RowExhausted
      <3>5. CASE ExhaustRest
        BY <3>5 DEF ExhaustRest
      <3> QED BY <1>6, <3>1, <3>2, <3>3, <3>4, <3>5
    <2> QED BY <1>5, <2>1, <2>2
  <1>7. CASE Parse
    BY <1>1, <1>7 DEF Parse, Start
  <1>8. CASE FetchIssuer
    BY <1>1, <1>8 DEF FetchIssuer, Start
  <1> QED BY <1>2, <1>3, <1>4, <1>6, <1>7, <1>8 DEF BatchNext

\* batch_address_passed and batch_address_failed (src/batch.ts, Issue #777):
\* between any two lookups they add up to the rows there are, and the summary
\* repeats them.
THEOREM CountersHold == BatchSpec => []CountersAddUp
  <1>1. CountInv => CountersAddUp
    BY DEF CountInv, CountersOK, CountersAddUp, GoodRows
  <1> QED BY CountStarts, CountKeeps, <1>1, PTL DEF BatchSpec

-----------------------------------------------------------------------------
(* Induction.                                                              *)

\* A set of numbers that is not empty has a least one.
LEMMA LeastNat ==
    ASSUME NEW T \in SUBSET Nat, T # {}
    PROVE  \E x \in T : \A y \in T : x <= y
  <1>1. IsWellFoundedOn(OpToRel(<, Nat), Nat)
    BY NatLessThanWellFounded
  <1>2. PICK x \in T : \A y \in T : ~(<<y, x>> \in OpToRel(<, Nat))
    BY <1>1, WFMin
  <1>3. \A y \in T : ~(y < x)
    BY <1>2 DEF OpToRel
  <1>4. ASSUME NEW y \in T PROVE x <= y
    <2>1. x \in Nat /\ y \in Nat /\ ~(y < x)
      BY <1>2, <1>3
    <2> QED BY <2>1
  <1> QED BY <1>4

LEMMA Induction ==
    ASSUME NEW S, 0 \in S, \A n \in Nat : n \in S => n + 1 \in S
    PROVE  Nat \subseteq S
  <1> DEFINE T == Nat \ S
  <1>1. SUFFICES ASSUME T # {} PROVE FALSE
    OBVIOUS
  <1>2. T \in SUBSET Nat
    OBVIOUS
  <1>3. PICK x \in T : \A y \in T : x <= y
    BY <1>1, <1>2, LeastNat
  <1>4. x \in Nat /\ x # 0 /\ x \notin S
    BY <1>3
  <1>5. x - 1 \in Nat /\ ~(x <= x - 1) /\ (x - 1) + 1 = x
    BY <1>4
  <1>6. x - 1 \in S
    BY <1>3, <1>5
  <1> QED BY <1>4, <1>5, <1>6

-----------------------------------------------------------------------------
(* What the parser keeps.                                                  *)

Entries == Addresses \cup {Blank, Malformed}

KeptUpTo(list) ==
    CHOOSE kept : kept = [n \in 0..Len(list) |-> IF n = 0 THEN <<>> ELSE Keep(kept[n - 1], list[n])]

\* The function Parsed defines by recursion exists.
LEMMA KeptExists ==
    ASSUME NEW list \in Seq(Entries)
    PROVE  /\ Parsed(list) = KeptUpTo(list)[Len(list)]
           /\ KeptUpTo(list) = [n \in 0..Len(list) |-> IF n = 0 THEN <<>> ELSE Keep(KeptUpTo(list)[n - 1], list[n])]
  <1>1. Parsed(list) = KeptUpTo(list)[Len(list)]
    BY DEF Parsed, KeptUpTo
  <1> DEFINE Solves(g, m) == g = [n \in 0..m |-> IF n = 0 THEN <<>> ELSE Keep(g[n - 1], list[n])]
             S == {m \in Nat : \E g : Solves(g, m)}
  <1>2. 0 \in S
    <2> DEFINE g == [n \in 0..0 |-> <<>>]
    <2>1. g = [n \in 0..0 |-> IF n = 0 THEN <<>> ELSE Keep(g[n - 1], list[n])]
      OBVIOUS
    <2> HIDE DEF g
    <2> QED BY <2>1
  <1>3. ASSUME NEW m \in Nat, m \in S PROVE m + 1 \in S
    <2>1. PICK g : Solves(g, m)
      BY <1>3
    <2> DEFINE next == Keep(g[m], list[m + 1])
               h == [n \in 0..(m + 1) |-> IF n = m + 1 THEN next ELSE g[n]]
    <2>2. \A n \in 0..m : g[n] = IF n = 0 THEN <<>> ELSE Keep(g[n - 1], list[n])
      BY <2>1
    <2>3. \A n \in 0..(m + 1) : h[n] = IF n = 0 THEN <<>> ELSE Keep(h[n - 1], list[n])
      <3> SUFFICES ASSUME NEW n \in 0..(m + 1) PROVE h[n] = IF n = 0 THEN <<>> ELSE Keep(h[n - 1], list[n])
        OBVIOUS
      <3>1. CASE n = m + 1
        <4>1. n # 0 /\ n - 1 = m /\ m \in 0..(m + 1) /\ m # m + 1
          BY <3>1
        <4>2. h[n - 1] = g[m] /\ h[n] = next
          BY <3>1, <4>1
        <4> QED BY <3>1, <4>1, <4>2
      <3>2. CASE n # m + 1
        <4>1. n \in 0..m /\ h[n] = g[n]
          BY <3>2
        <4>2. n # 0 => n - 1 \in 0..(m + 1) /\ n - 1 # m + 1
          BY <4>1
        <4>3. n # 0 => h[n - 1] = g[n - 1]
          BY <4>2
        <4> QED BY <2>2, <4>1, <4>3
      <3> QED BY <3>1, <3>2
    <2>4. h = [n \in 0..(m + 1) |-> h[n]]
      OBVIOUS
    <2> HIDE DEF h
    <2>5. Solves(h, m + 1)
      BY <2>3, <2>4
    <2> QED BY <2>5
  <1>4. Len(list) \in S
    <2>1. Len(list) \in Nat
      OBVIOUS
    <2> HIDE DEF S
    <2> QED BY <1>2, <1>3, <2>1, Induction
  <1>5. PICK g : Solves(g, Len(list))
    BY <1>4
  <1>6. KeptUpTo(list) = [n \in 0..Len(list) |-> IF n = 0 THEN <<>> ELSE Keep(KeptUpTo(list)[n - 1], list[n])]
    BY <1>5 DEF KeptUpTo
  <1> QED BY <1>1, <1>6

NoRepeats(s) == \A i, j \in DOMAIN s : s[i] = s[j] => i = j

\* One entry more.
LEMMA KeepHolds ==
    ASSUME NEW kept \in Seq(Entries), NoRepeats(kept), NEW entry \in Entries
    PROVE  /\ Keep(kept, entry) \in Seq(Entries) /\ NoRepeats(Keep(kept, entry))
           /\ ToSet(Keep(kept, entry)) = IF entry = Blank THEN ToSet(kept) ELSE ToSet(kept) \cup {entry}
  <1>1. CASE entry = Blank \/ entry \in ToSet(kept)
    BY <1>1 DEF Keep
  <1>2. CASE ~(entry = Blank \/ entry \in ToSet(kept))
    <2> DEFINE more == Append(kept, entry)
    <2>1. Keep(kept, entry) = more
      BY <1>2 DEF Keep
    <2>2. /\ more \in Seq(Entries) /\ Len(kept) \in Nat /\ Len(more) = Len(kept) + 1
          /\ DOMAIN kept = 1..Len(kept) /\ DOMAIN more = 1..(Len(kept) + 1)
          /\ \A i \in 1..Len(kept) : more[i] = kept[i]
          /\ more[Len(kept) + 1] = entry
      BY AppendProperties
    <2> HIDE DEF more
    <2>3. \A i \in DOMAIN kept : kept[i] # entry
      BY <1>2 DEF ToSet
    <2>4. NoRepeats(more)
      BY <2>2, <2>3 DEF NoRepeats
    <2>5. ToSet(more) = ToSet(kept) \cup {entry}
      BY <2>2 DEF ToSet
    <2> QED BY <1>2, <2>1, <2>2, <2>4, <2>5
  <1> QED BY <1>1, <1>2

\* parseBatchAddresses keeps every entry once, and no blank one.
LEMMA ParsedIs ==
    ASSUME NEW list \in Seq(Entries)
    PROVE  /\ Parsed(list) \in Seq(Entries) /\ NoRepeats(Parsed(list))
           /\ ToSet(Parsed(list)) = ToSet(list) \ {Blank}
  <1> DEFINE kept == KeptUpTo(list)
             First(n) == {list[i] : i \in 1..n}
             Kept(n) == kept[n] \in Seq(Entries) /\ NoRepeats(kept[n]) /\ ToSet(kept[n]) = First(n) \ {Blank}
             S == {n \in Nat : n <= Len(list) => Kept(n)}
  <1>1. /\ Parsed(list) = kept[Len(list)] /\ Len(list) \in Nat
        /\ \A n \in 0..Len(list) : kept[n] = IF n = 0 THEN <<>> ELSE Keep(kept[n - 1], list[n])
    <2>1. kept = [n \in 0..Len(list) |-> IF n = 0 THEN <<>> ELSE Keep(kept[n - 1], list[n])]
      BY KeptExists
    <2>2. Parsed(list) = kept[Len(list)] /\ Len(list) \in Nat
      BY KeptExists
    <2> HIDE DEF kept
    <2> QED BY <2>1, <2>2
  <1> HIDE DEF kept
  <1>2. 0 \in S
    <2>1. kept[0] = <<>> /\ First(0) = {}
      BY <1>1
    <2>2. <<>> \in Seq(Entries) /\ NoRepeats(<<>>) /\ ToSet(<<>>) = {}
      BY EmptyList DEF NoRepeats, ToSet
    <2> QED BY <2>1, <2>2
  <1>3. ASSUME NEW n \in Nat, n \in S PROVE n + 1 \in S
    <2> SUFFICES ASSUME n + 1 <= Len(list) PROVE Kept(n + 1)
      OBVIOUS
    <2>1. Kept(n) /\ n + 1 \in 1..Len(list) /\ n + 1 \in 0..Len(list) /\ n + 1 # 0 /\ (n + 1) - 1 = n
      BY <1>1, <1>3
    <2>2. kept[n + 1] = Keep(kept[n], list[n + 1]) /\ list[n + 1] \in Entries
      BY <1>1, <2>1
    <2>3. First(n + 1) = First(n) \cup {list[n + 1]}
      OBVIOUS
    <2> DEFINE more == Keep(kept[n], list[n + 1])
    <2>4. /\ more \in Seq(Entries) /\ NoRepeats(more)
          /\ ToSet(more) = IF list[n + 1] = Blank THEN ToSet(kept[n]) ELSE ToSet(kept[n]) \cup {list[n + 1]}
      BY <2>1, <2>2, KeepHolds
    <2> HIDE DEF more, First
    <2>5. ToSet(more) = First(n + 1) \ {Blank}
      BY <2>1, <2>3, <2>4
    <2> QED BY <2>2, <2>4, <2>5 DEF more
  <1>4. Len(list) \in S
    <2> HIDE DEF S
    <2> QED BY <1>1, <1>2, <1>3, Induction
  <1>5. First(Len(list)) = ToSet(list)
    BY DEF ToSet
  <1> QED BY <1>1, <1>4, <1>5

-----------------------------------------------------------------------------
(* Rows, counters and summary.                                             *)

\* The rows so far are those of the first addresses, in their order.
AddressesOK ==
    /\ raw \in Seq(Entries) /\ addresses \in Seq(Entries)
    /\ NoRepeats(addresses) /\ ToSet(addresses) = ToSet(raw) \ {Blank}
    /\ Len(rows) <= Len(addresses)
    /\ \A i \in DOMAIN rows : rows[i].address = addresses[i]

\* The code and the words of a row say the same of clawback.
RowShape(row) ==
    /\ row.code = "CLAWBACK_STRICT_MODE" <=> "clawback" \in row.reasons
    /\ "clawback" \in row.reasons => {"unfunded", "invalid", "horizon"} \cap row.reasons = {}

InBad(b) == {i \in BadRows : InBucket(rows[i], b)}

TaxonomyOK ==
    /\ \A i \in DOMAIN rows : RowShape(rows[i])
    /\ phase = "done" => \A b \in Buckets : summary.buckets[b] = Cardinality(InBad(b))

RowsInv == CountInv /\ AddressesOK /\ TaxonomyOK

LEMMA CheckedShape == ASSUME NEW address, NEW account PROVE RowShape(CheckedRow(address, account))
  <1> DEFINE r == CheckedRow(address, account)
  <1>1. r.code = CodeOf(account) /\ r.reasons = Reasons(account)
    BY DEF CheckedRow, BatchRow
  <1>2. CodeOf(account) = "CLAWBACK_STRICT_MODE" <=> ClawbackFails(account)
    BY DEF CodeOf
  <1>3. "clawback" \in Reasons(account) <=> ClawbackFails(account)
    BY DEF Reasons, Clauses
  <1>4. {"unfunded", "invalid", "horizon"} \cap Reasons(account) = {}
    BY DEF Reasons
  <1> HIDE DEF r
  <1>5. RowShape(r)
    BY <1>1, <1>2, <1>3, <1>4 DEF RowShape
  <1> QED BY <1>5 DEF r

LEMMA OtherShape ==
    ASSUME NEW address, NEW code, NEW reasons, code # "CLAWBACK_STRICT_MODE", "clawback" \notin reasons
    PROVE  RowShape(BatchRow(address, FALSE, code, reasons))
  <1> DEFINE r == BatchRow(address, FALSE, code, reasons)
  <1>1. r.code = code /\ r.reasons = reasons
    BY DEF BatchRow
  <1> HIDE DEF r
  <1>2. RowShape(r)
    BY <1>1 DEF RowShape
  <1> QED BY <1>2 DEF r

\* The row of the next address.
LEMMA RowFits ==
    ASSUME RowsInv, NEW r, NEW a, AddRow(r, a), phase' \in {"rows", "exhausted"},
           Len(rows) < Len(addresses), r.address = Current, RowShape(r)
    PROVE  RowsInv'
  <1>1. CountInv'
    BY RowCounts DEF RowsInv
  <1>2. rows' = Append(rows, r) /\ IsList(rows) /\ UNCHANGED <<raw, addresses>>
    BY DEF AddRow, RowsInv, CountInv, ListsOK
  <1>3. /\ Len(rows) \in Nat /\ Len(rows') = Len(rows) + 1
        /\ DOMAIN rows = 1..Len(rows) /\ DOMAIN rows' = 1..(Len(rows) + 1)
        /\ \A i \in 1..Len(rows) : rows'[i] = rows[i]
        /\ rows'[Len(rows) + 1] = r
    BY <1>2, ListGrows
  <1>4. Len(addresses) \in Nat
    BY DEF RowsInv, AddressesOK
  <1>5. AddressesOK'
    BY <1>2, <1>3, <1>4 DEF RowsInv, AddressesOK, Current
  <1>6. TaxonomyOK'
    BY <1>2, <1>3 DEF RowsInv, TaxonomyOK
  <1> QED BY <1>1, <1>5, <1>6 DEF RowsInv

LEMMA RowsStay ==
    ASSUME RowsInv, UNCHANGED <<rows, raw, addresses, summary>>, phase' # "done" \/ phase' = phase
    PROVE  AddressesOK' /\ TaxonomyOK'
  <1>1. BadRows' = BadRows
    BY DEF BadRows, GoodRows
  <1> QED BY <1>1 DEF RowsInv, AddressesOK, TaxonomyOK, InBad

LEMMA RowsKeep == RowsInv /\ [BatchNext]_batchVars => RowsInv'
  <1> SUFFICES ASSUME RowsInv, [BatchNext]_batchVars PROVE RowsInv'
    OBVIOUS
  <1>0. CountInv'
    BY CountKeeps DEF RowsInv
  <1>1. CASE Parse
    <2>1. /\ raw' \in Seq(Entries) /\ addresses' = Parsed(raw') /\ phase' # "done"
          /\ phase \in Start /\ UNCHANGED <<rows, summary>>
      BY <1>1, BatchAssumption DEF Parse, Start, Entries
    <2>2. addresses' \in Seq(Entries) /\ NoRepeats(addresses') /\ ToSet(addresses') = ToSet(raw') \ {Blank}
      BY <2>1, ParsedIs
    <2>3. rows' = <<>>
      BY <2>1 DEF RowsInv, CountInv, RowsStart
    <2>4. Len(rows') <= Len(addresses') /\ DOMAIN rows' = {}
      BY <2>2, <2>3, EmptyList
    <2> QED BY <1>0, <2>1, <2>2, <2>4 DEF RowsInv, AddressesOK, TaxonomyOK
  <1>2. CASE FetchIssuer \/ RowsDone \/ UNCHANGED batchVars
    <2>1. UNCHANGED <<rows, raw, addresses, summary>> /\ (phase' # "done" \/ phase' = phase)
      BY <1>2 DEF FetchIssuer, RowsDone, batchVars
    <2> QED BY <1>0, <2>1, RowsStay DEF RowsInv
  <1>3. CASE RowInvalid
    <2>1. /\ AddRow(BatchRow(Current, FALSE, "INVALID_ADDRESS", {"invalid"}), NoAccount)
          /\ phase' = "rows" /\ Len(rows) < Len(addresses)
      BY <1>3 DEF RowInvalid, MoreRows
    <2> DEFINE r == BatchRow(Current, FALSE, "INVALID_ADDRESS", {"invalid"})
    <2>2. RowShape(r) /\ r.address = Current
      BY OtherShape DEF BatchRow
    <2> HIDE DEF r
    <2>3. AddRow(r, NoAccount)
      BY <2>1 DEF r
    <2> QED BY <2>1, <2>2, <2>3, RowFits
  <1>4. CASE RowChecked
    <2>1. phase' = "rows" /\ Len(rows) < Len(addresses)
      BY <1>4 DEF RowChecked, MoreRows
    <2>2. PICK account \in Accounts : AddRow(CheckedRow(Current, account), account)
      BY <1>4 DEF RowChecked
    <2> DEFINE r == CheckedRow(Current, account)
    <2>3. RowShape(r) /\ r.address = Current
      BY CheckedShape DEF CheckedRow, BatchRow
    <2> HIDE DEF r
    <2>4. AddRow(r, account)
      BY <2>2 DEF r
    <2> QED BY <2>1, <2>3, <2>4, RowFits
  <1>5. CASE RowFailed
    <2>1. phase' = "rows" /\ Len(rows) < Len(addresses)
      BY <1>5 DEF RowFailed, MoreRows
    <2>2. PICK code \in {"ACCOUNT_NOT_FUNDED", "HORIZON_ERROR"}, reasons \in {{"unfunded"}, {"horizon"}} :
            AddRow(BatchRow(Current, FALSE, code, reasons), NoAccount)
      BY <1>5 DEF RowFailed
    <2> DEFINE r == BatchRow(Current, FALSE, code, reasons)
    <2>3. "clawback" \notin reasons /\ code # "CLAWBACK_STRICT_MODE"
      OBVIOUS
    <2>4. RowShape(r) /\ r.address = Current
      BY <2>3, OtherShape DEF BatchRow
    <2> HIDE DEF r
    <2>5. AddRow(r, NoAccount)
      BY <2>2 DEF r
    <2> QED BY <2>1, <2>4, <2>5, RowFits
  <1>6. CASE RowExhausted \/ ExhaustRest
    <2>1. AddRow(ExhaustedRow(Current), NoAccount) /\ phase' = "exhausted" /\ Len(rows) < Len(addresses)
      BY <1>6 DEF RowExhausted, ExhaustRest, MoreRows
    <2> DEFINE r == ExhaustedRow(Current)
    <2>2. RowShape(r) /\ r.address = Current
      BY OtherShape DEF ExhaustedRow, BatchRow
    <2> HIDE DEF r
    <2>3. AddRow(r, NoAccount)
      BY <2>1 DEF r
    <2> QED BY <2>1, <2>2, <2>3, RowFits
  <1>7. CASE Summarise
    <2>1. /\ UNCHANGED <<rows, raw, addresses>>
          /\ summary'.buckets = [b \in Buckets |-> Cardinality({i \in BadRows : InBucket(rows[i], b)})]
      BY <1>7 DEF Summarise, GoodRows, BadRows
    <2>2. BadRows' = BadRows
      BY <2>1 DEF BadRows, GoodRows
    <2>3. \A b \in Buckets : summary'.buckets[b] = Cardinality(InBad(b)')
      BY <2>1, <2>2 DEF InBad
    <2>4. AddressesOK' /\ \A i \in DOMAIN rows' : RowShape(rows'[i])
      BY <2>1 DEF RowsInv, AddressesOK, TaxonomyOK
    <2> QED BY <1>0, <2>3, <2>4 DEF RowsInv, TaxonomyOK
  <1> QED BY <1>1, <1>2, <1>3, <1>4, <1>5, <1>6, <1>7 DEF BatchNext

\* Two buckets of the taxonomy share no row if one is the clawback bucket.
LEMMA BucketsApart ==
    ASSUME RowsInv, phase = "done"
    PROVE  TaxonomyIsSound
  <1> DEFINE bad == {i \in DOMAIN rows : ~rows[i].valid}
             claw == {i \in bad : rows[i].code = "CLAWBACK_STRICT_MODE"}
  <1>1. bad = BadRows /\ IsFiniteSet(bad)
    BY DEF RowsInv, CountInv, CountersOK, BadRows, GoodRows
  <1>2. claw = InBad("clawbackStrict")
    BY <1>1 DEF RowsInv, TaxonomyOK, RowShape, InBad, InBucket
  <1>3. "clawbackStrict" \in Buckets /\ \A b \in Buckets : summary.buckets[b] = Cardinality(InBad(b))
    BY DEF RowsInv, TaxonomyOK, Buckets
  <1>4. ASSUME NEW b \in Buckets \ {"clawbackStrict"}
        PROVE  summary.buckets[b] + summary.buckets["clawbackStrict"] <= Cardinality(bad)
    <2> DEFINE here == InBad(b)
               there == InBad("clawbackStrict")
    <2>1. here \subseteq bad /\ there \subseteq bad
      BY <1>1 DEF InBad
    <2>2. here \cap there = {}
      <3> SUFFICES ASSUME NEW i \in BadRows, InBucket(rows[i], b), InBucket(rows[i], "clawbackStrict") PROVE FALSE
        BY DEF InBad
      <3>1. i \in DOMAIN rows
        BY DEF BadRows
      <3>2. "clawback" \in rows[i].reasons /\ {"unfunded", "invalid", "horizon"} \cap rows[i].reasons = {}
        BY <3>1 DEF InBucket, RowsInv, TaxonomyOK, RowShape
      <3>3. b \in {"accountNotFunded", "invalidAddress", "horizonError", "trustlineMissing", "reserveInsufficient"}
        BY DEF Buckets
      <3> QED BY <3>2, <3>3 DEF InBucket
    <2> HIDE DEF here, there, bad
    <2>3. IsFiniteSet(here) /\ IsFiniteSet(there) /\ IsFiniteSet(here \cup there)
      BY <1>1, <2>1, FS_Subset, FS_Union
    <2>4. Cardinality(here \cup there) <= Cardinality(bad)
      BY <1>1, <2>1, FS_Subset
    <2>5. Cardinality(here \cup there) = Cardinality(here) + Cardinality(there)
      <3>1. Cardinality(here \cup there) = Cardinality(here) + Cardinality(there) - Cardinality(here \cap there)
        BY <2>3, FS_Union
      <3>2. Cardinality(here) \in Nat /\ Cardinality(there) \in Nat /\ Cardinality(here \cap there) = 0
        BY <2>2, <2>3, FS_CardinalityType, FS_EmptySet
      <3> QED BY <3>1, <3>2
    <2>6. summary.buckets[b] = Cardinality(here) /\ summary.buckets["clawbackStrict"] = Cardinality(there)
      BY <1>3 DEF here, there
    <2> QED BY <2>4, <2>5, <2>6
  <1> QED BY <1>2, <1>3, <1>4 DEF TaxonomyIsSound

\* Rows, counters and summary describe the parsed list, on every path through
\* the loop, for every list, budget and set of options: each address has one
\* row, in the order of the list, also where the budget ends the loop.
THEOREM RowsHold == BatchSpec => []RowsAddUp
  <1>1. BatchInit => RowsInv
    <2> SUFFICES ASSUME BatchInit PROVE RowsInv
      OBVIOUS
    <2>1. raw = <<>> /\ addresses = <<>> /\ rows = <<>> /\ phase = "parse"
      BY DEF BatchInit
    <2>2. <<>> \in Seq(Entries) /\ NoRepeats(<<>>) /\ ToSet(<<>>) = {}
      BY EmptyList DEF NoRepeats, ToSet
    <2> QED BY <2>1, <2>2, CountStarts, EmptyList DEF RowsInv, AddressesOK, TaxonomyOK
  <1>2. RowsInv => RowsAddUp
    <2> SUFFICES ASSUME RowsInv PROVE RowsAddUp
      OBVIOUS
    <2>1. CountersAddUp
      BY DEF RowsInv, CountInv, CountersOK, CountersAddUp, GoodRows
    <2>2. TaxonomyIsSound
      BY BucketsApart DEF TaxonomyIsSound
    <2>3. /\ DOMAIN rows = 1..Len(rows) /\ DOMAIN addresses = 1..Len(addresses)
          /\ Len(rows) \in Nat /\ Len(addresses) \in Nat /\ Len(rows) <= Len(addresses)
      BY ListGrows DEF RowsInv, CountInv, ListsOK, AddressesOK
    <2>4. \A i \in DOMAIN rows : rows[i].address = addresses[i] /\ i \in DOMAIN addresses
      BY <2>3 DEF RowsInv, AddressesOK
    <2>5. \A i, j \in DOMAIN rows : rows[i].address = rows[j].address => i = j
      BY <2>4 DEF RowsInv, AddressesOK, NoRepeats
    <2>6. ASSUME phase = "done" PROVE {rows[i].address : i \in DOMAIN rows} = ToSet(raw) \ {Blank}
      <3>1. DOMAIN rows = DOMAIN addresses
        BY <2>3, <2>6 DEF RowsInv, CountInv, CountersOK
      <3>2. {rows[i].address : i \in DOMAIN rows} = ToSet(addresses)
        BY <2>4, <3>1 DEF ToSet
      <3> QED BY <3>2 DEF RowsInv, AddressesOK
    <2>7. RowPerAddress
      BY <2>4, <2>5, <2>6 DEF RowPerAddress
    <2> QED BY <2>1, <2>2, <2>7 DEF RowsAddUp
  <1> QED BY <1>1, <1>2, RowsKeep, PTL DEF BatchSpec

-----------------------------------------------------------------------------
(* The checks of an account: what the rows say.                            *)

LEMMA RowsJoin ==
    ASSUME NEW s, NEW t, IsList(s), IsList(t)
    PROVE  IsList(s \o t) /\ FailedLabels(s \o t) = FailedLabels(s) \cup FailedLabels(t)
  <1>1. PICK S : s \in Seq(S)
    BY DEF IsList
  <1>2. PICK T : t \in Seq(T)
    BY DEF IsList
  <1>3. s \in Seq(S \cup T) /\ t \in Seq(S \cup T)
    BY <1>1, <1>2
  <1>4. /\ s \o t \in Seq(S \cup T) /\ Len(s \o t) = Len(s) + Len(t) /\ Len(s) \in Nat /\ Len(t) \in Nat
        /\ \A i \in 1..Len(s) : (s \o t)[i] = s[i]
        /\ \A i \in 1..Len(t) : (s \o t)[Len(s) + i] = t[i]
    BY <1>3
  <1>5. DOMAIN s = 1..Len(s) /\ DOMAIN t = 1..Len(t) /\ DOMAIN (s \o t) = 1..(Len(s) + Len(t))
    BY <1>1, <1>2, <1>4
  <1> DEFINE both == s \o t
  <1>6. IsList(both)
    BY <1>4 DEF IsList
  <1> HIDE DEF both
  <1>7. ASSUME NEW label \in FailedLabels(both) PROVE label \in FailedLabels(s) \cup FailedLabels(t)
    <2>1. PICK i \in DOMAIN both : ~both[i].passed /\ label = both[i].label
      BY <1>7 DEF FailedLabels
    <2>2. CASE i \in 1..Len(s)
      <3>1. ~s[i].passed /\ label = s[i].label /\ i \in DOMAIN s
        BY <1>4, <1>5, <2>1, <2>2 DEF both
      <3> QED BY <3>1 DEF FailedLabels
    <2>3. CASE i \notin 1..Len(s)
      <3>1. i - Len(s) \in 1..Len(t) /\ i = Len(s) + (i - Len(s))
        BY <1>4, <1>5, <2>1, <2>3 DEF both
      <3>2. ~t[i - Len(s)].passed /\ label = t[i - Len(s)].label /\ i - Len(s) \in DOMAIN t
        BY <1>4, <1>5, <2>1, <3>1 DEF both
      <3> QED BY <3>2 DEF FailedLabels
    <2> QED BY <2>2, <2>3
  <1>8. ASSUME NEW label \in FailedLabels(s) PROVE label \in FailedLabels(both)
    <2>1. PICK i \in DOMAIN s : ~s[i].passed /\ label = s[i].label
      BY <1>8 DEF FailedLabels
    <2>2. i \in DOMAIN both /\ both[i] = s[i]
      BY <1>4, <1>5, <2>1 DEF both
    <2> QED BY <2>1, <2>2 DEF FailedLabels
  <1>9. ASSUME NEW label \in FailedLabels(t) PROVE label \in FailedLabels(both)
    <2>1. PICK i \in DOMAIN t : ~t[i].passed /\ label = t[i].label
      BY <1>9 DEF FailedLabels
    <2>2. Len(s) + i \in DOMAIN both /\ both[Len(s) + i] = t[i]
      BY <1>4, <1>5, <2>1 DEF both
    <2> QED BY <2>1, <2>2 DEF FailedLabels
  <1> QED BY <1>6, <1>7, <1>8, <1>9 DEF both

LEMMA RowFailsIf ==
    ASSUME NEW condition, NEW label, NEW good
    PROVE  /\ IsList(RowsIf(condition, Row(label, good)))
           /\ FailedLabels(RowsIf(condition, Row(label, good))) = IF condition /\ ~good THEN {label} ELSE {}
  <1> DEFINE r == Row(label, good)
  <1>1. r.label = label /\ (r.passed <=> good)
    BY DEF Row
  <1> HIDE DEF r
  <1>2. CASE condition
    <2>1. RowsIf(condition, r) = <<r>>
      BY <1>2 DEF RowsIf
    <2>2. <<r>> \in Seq({r}) /\ DOMAIN <<r>> = {1} /\ <<r>>[1] = r
      OBVIOUS
    <2> DEFINE one == <<r>>
    <2> HIDE DEF one
    <2>3. FailedLabels(one) = IF ~good THEN {label} ELSE {}
      <3>1. DOMAIN one = {1} /\ one[1] = r
        BY <2>2 DEF one
      <3> QED BY <1>1, <3>1 DEF FailedLabels
    <2> QED BY <1>2, <2>1, <2>2, <2>3 DEF r, one, IsList
  <1>3. CASE ~condition
    <2>1. RowsIf(condition, r) = <<>>
      BY <1>3 DEF RowsIf
    <2>2. FailedLabels(<<>>) = {}
      BY EmptyList DEF FailedLabels
    <2> QED BY <1>3, <2>1, <2>2, EmptyList DEF r
  <1> QED BY <1>2, <1>3

LEMMA FirstRows ==
    ASSUME NEW a, NEW b
    PROVE  LET first == <<Row("Account funded", TRUE), Row("trustline", a), Row("XLM reserve", b)>>
           IN  /\ IsList(first)
               /\ FailedLabels(first) = (IF ~a THEN {"trustline"} ELSE {}) \cup (IF ~b THEN {"XLM reserve"} ELSE {})
  <1> DEFINE ra == Row("trustline", a)
             rb == Row("XLM reserve", b)
             rf == Row("Account funded", TRUE)
             first == <<rf, ra, rb>>
  <1>1. rf.passed
    BY DEF Row
  <1>2. ra.label = "trustline" /\ (ra.passed <=> a) /\ rb.label = "XLM reserve" /\ (rb.passed <=> b)
    BY DEF Row
  <1> HIDE DEF ra, rb, rf
  <1>3. first \in Seq({rf, ra, rb}) /\ DOMAIN first = {1, 2, 3} /\ first[1] = rf /\ first[2] = ra /\ first[3] = rb
    OBVIOUS
  <1>4. IsList(first)
    BY <1>3 DEF IsList
  <1> HIDE DEF first
  <1>5. {j \in DOMAIN first : ~first[j].passed} = (IF ~a THEN {2} ELSE {}) \cup (IF ~b THEN {3} ELSE {})
    BY <1>1, <1>2, <1>3
  <1>6. FailedLabels(first) = (IF ~a THEN {"trustline"} ELSE {}) \cup (IF ~b THEN {"XLM reserve"} ELSE {})
    BY <1>2, <1>3, <1>5 DEF FailedLabels
  <1> QED BY <1>4, <1>6 DEF first, rf, ra, rb

\* Which labels fail, one by one.
Failures(f, cfg) ==
    (IF ~f.trustline THEN {"trustline"} ELSE {})
    \cup (IF ~f.reserve THEN {"XLM reserve"} ELSE {})
    \cup (IF cfg.minLimit # "unset" /\ ~(f.trustline /\ f.limit) THEN {"Trustline limit"} ELSE {})
    \cup (IF f.minimum > 0 /\ ~(f.balance \/ ~f.trustline) THEN {"minimum balance"} ELSE {})
    \cup (IF f.clawback THEN {"clawback safety"} ELSE {})
    \cup (IF cfg.domainMode # "off" /\ f.domainFails THEN {"home domain"} ELSE {})

LEMMA FailuresAre ==
    ASSUME NEW f, NEW account, NEW cfg
    PROVE  /\ FailedLabels(AccountRows(f, account, cfg)) = Failures(f, cfg)
           /\ Passes(AccountRows(f, account, cfg)) <=> Failures(f, cfg) = {}
  <1> DEFINE first    == <<Row("Account funded", TRUE), Row("trustline", f.trustline), Row("XLM reserve", f.reserve)>>
             limit    == RowsIf(cfg.minLimit # "unset", Row("Trustline limit", f.trustline /\ f.limit))
             minimum  == RowsIf(f.minimum > 0, Row("minimum balance", f.balance \/ ~f.trustline))
             clawback == RowsIf(f.clawback, Row("clawback safety", FALSE))
             domain   == RowsIf(cfg.domainMode # "off", Row("home domain", ~f.domainFails))
             claims   == RowsIf(cfg.claimables = "count" /\ account.claimables > 0, Row("Claimable balances", TRUE))
             all      == first \o limit \o minimum \o clawback \o domain \o claims
  <1>1. /\ IsList(first)
        /\ FailedLabels(first) = (IF ~f.trustline THEN {"trustline"} ELSE {}) \cup (IF ~f.reserve THEN {"XLM reserve"} ELSE {})
    BY FirstRows
  <1>2. /\ IsList(limit)
        /\ FailedLabels(limit) = IF cfg.minLimit # "unset" /\ ~(f.trustline /\ f.limit) THEN {"Trustline limit"} ELSE {}
    BY RowFailsIf
  <1>3. /\ IsList(minimum)
        /\ FailedLabels(minimum) = IF f.minimum > 0 /\ ~(f.balance \/ ~f.trustline) THEN {"minimum balance"} ELSE {}
    BY RowFailsIf
  <1>4. /\ IsList(clawback)
        /\ FailedLabels(clawback) = IF f.clawback /\ ~FALSE THEN {"clawback safety"} ELSE {}
    BY RowFailsIf
  <1>5. /\ IsList(domain)
        /\ FailedLabels(domain) = IF cfg.domainMode # "off" /\ ~(~f.domainFails) THEN {"home domain"} ELSE {}
    BY RowFailsIf
  <1>6. /\ IsList(claims)
        /\ FailedLabels(claims) = IF (cfg.claimables = "count" /\ account.claimables > 0) /\ ~TRUE THEN {"Claimable balances"} ELSE {}
    BY RowFailsIf
  <1>7. AccountRows(f, account, cfg) = all
    BY DEF AccountRows
  <1> HIDE DEF first, limit, minimum, clawback, domain, claims
  <1>8. /\ IsList(first \o limit)
        /\ FailedLabels(first \o limit) = FailedLabels(first) \cup FailedLabels(limit)
    BY <1>1, <1>2, RowsJoin
  <1>9. /\ IsList((first \o limit) \o minimum)
        /\ FailedLabels((first \o limit) \o minimum) = FailedLabels(first \o limit) \cup FailedLabels(minimum)
    BY <1>3, <1>8, RowsJoin
  <1>10. /\ IsList(((first \o limit) \o minimum) \o clawback)
         /\ FailedLabels(((first \o limit) \o minimum) \o clawback) = FailedLabels((first \o limit) \o minimum) \cup FailedLabels(clawback)
    BY <1>4, <1>9, RowsJoin
  <1>11. /\ IsList((((first \o limit) \o minimum) \o clawback) \o domain)
         /\ FailedLabels((((first \o limit) \o minimum) \o clawback) \o domain)
               = FailedLabels(((first \o limit) \o minimum) \o clawback) \cup FailedLabels(domain)
    BY <1>5, <1>10, RowsJoin
  <1>12. FailedLabels(all) = FailedLabels((((first \o limit) \o minimum) \o clawback) \o domain) \cup FailedLabels(claims)
    BY <1>6, <1>11, RowsJoin
  <1> HIDE DEF all
  <1>13. FailedLabels(all) = Failures(f, cfg)
    BY <1>1, <1>2, <1>3, <1>4, <1>5, <1>6, <1>8, <1>9, <1>10, <1>11, <1>12 DEF Failures
  <1>14. Passes(all) <=> FailedLabels(all) = {}
    BY DEF Passes, FailedLabels
  <1> QED BY <1>7, <1>13, <1>14

-----------------------------------------------------------------------------
(* What is derived from an account, and the verdict.                       *)

\* The fields of Facts.
LEMMA FactsAre ==
    ASSUME NEW account, NEW issuer, NEW cfg
    PROVE  LET f == Facts(account, issuer, cfg)
               line == LineOf(account, cfg)
           IN  /\ f.unauthorized <=> line.exists /\ ~line.authorized /\ cfg.policy = "fail"
               /\ f.trustline <=> line.exists /\ ~(line.exists /\ ~line.authorized /\ cfg.policy = "fail")
               /\ f.clawback <=> line.exists /\ line.clawback /\ cfg.clawbackStrict
               /\ f.reserve <=> account.xlm >= buildReserveRequirement(account, cfg)
               /\ f.missingXlm = Max({0, buildReserveRequirement(account, cfg) - account.xlm})
               /\ f.minimum = toStroops(cfg.minAsset)
               /\ f.balance <=> line.balance >= toStroops(cfg.minAsset)
               /\ f.limit <=> cfg.minLimit \in {"unset", "zero"} \/ line.limit >= 2
               /\ f.domainFails <=> cfg.domainMode = "strict" /\ f.domain # "valid"
               /\ f.domainBlocks <=> cfg.domainMode = "strict" /\ f.domain # "valid" /\ ~cfg.toml
  <1> DEFINE f == Facts(account, issuer, cfg)
             line == LineOf(account, cfg)
  <1>1. f.unauthorized <=> line.exists /\ ~line.authorized /\ cfg.policy = "fail"
    BY DEF Facts
  <1>2. f.trustline <=> line.exists /\ ~(line.exists /\ ~line.authorized /\ cfg.policy = "fail")
    BY DEF Facts
  <1>3. f.clawback <=> line.exists /\ line.clawback /\ cfg.clawbackStrict
    BY DEF Facts
  <1>4. f.reserve <=> account.xlm >= buildReserveRequirement(account, cfg)
    BY DEF Facts
  <1>5. f.missingXlm = Max({0, buildReserveRequirement(account, cfg) - account.xlm})
    BY DEF Facts
  <1>6. f.minimum = toStroops(cfg.minAsset)
    BY DEF Facts
  <1>7. f.balance <=> line.balance >= toStroops(cfg.minAsset)
    BY DEF Facts
  <1>8. f.limit <=> cfg.minLimit \in {"unset", "zero"} \/ line.limit >= 2
    BY DEF Facts
  <1>9. f.domainFails <=> cfg.domainMode = "strict" /\ f.domain # "valid"
    BY DEF Facts
  <1>10. f.domainBlocks <=> cfg.domainMode = "strict" /\ f.domain # "valid" /\ ~cfg.toml
    BY DEF Facts
  <1> QED BY <1>1, <1>2, <1>3, <1>4, <1>5, <1>6, <1>7, <1>8, <1>9, <1>10

LEMMA LineIs ==
    ASSUME NEW account \in Ledger, NEW cfg
    PROVE  /\ LineOf(account, cfg) \in Lines
           /\ ~cfg.sac => LineOf(account, cfg) = account.line
           /\ cfg.sac => ~LineOf(account, cfg).exists
  <1>1. NoLine \in Lines /\ ~NoLine.exists
    <2>1. NoLine \in Lines
      BY DEF NoLine, Lines
    <2>2. ~NoLine.exists
      BY DEF NoLine
    <2> QED BY <2>1, <2>2
  <1> QED BY <1>1 DEF LineOf, Ledger

LEMMA ReserveIs ==
    ASSUME NEW account \in Ledger, NEW cfg \in Inputs
    PROVE  LET need == buildReserveRequirement(account, cfg)
               least == 2 + account.subentries + account.sponsoring - account.sponsored
           IN  /\ need \in Nat
               /\ need >= cfg.floor /\ need >= least
               /\ need = cfg.floor \/ need = least \/ (need = 0 /\ least <= 0)
  <1> DEFINE least == 2 + account.subentries + account.sponsoring - account.sponsored
  <1>1. least \in Int /\ cfg.floor \in Nat
    BY DEF Ledger, Inputs
  <1>2. computeProtocolMinReserve(account) = IF least <= 0 THEN 0 ELSE least
    <2>1. computeProtocolMinReserve(account) = Max({0, least})
      BY DEF computeProtocolMinReserve
    <2> HIDE DEF least
    <2> QED BY <1>1, <2>1 DEF Max
  <1> HIDE DEF least
  <1>3. buildReserveRequirement(account, cfg) = Max({IF least <= 0 THEN 0 ELSE least, cfg.floor})
    BY <1>2 DEF buildReserveRequirement
  <1>4. LET need == Max({IF least <= 0 THEN 0 ELSE least, cfg.floor})
        IN  /\ need \in Nat /\ need >= cfg.floor /\ need >= least
            /\ need = cfg.floor \/ need = least \/ (need = 0 /\ least <= 0)
    <2>1. CASE least <= 0
      BY <1>1, <2>1 DEF Max
    <2>2. CASE ~(least <= 0)
      BY <1>1, <2>2 DEF Max
    <2> QED BY <2>1, <2>2
  <1> QED BY <1>3, <1>4 DEF least

LEMMA MinimumIs ==
    ASSUME NEW cfg \in Inputs
    PROVE  /\ toStroops(cfg.minAsset) \in Nat
           /\ cfg.minAsset <= toStroops(cfg.minAsset) * Fine
  <1> DEFINE minimum == cfg.minAsset
  <1>1. minimum \in Nat
    BY DEF Inputs
  <1> HIDE DEF minimum
  <1>2. toStroops(minimum) = (minimum + 9) \div 10
    BY <1>1 DEF toStroops, Fine
  <1>3. (minimum + 9) \div 10 \in Nat /\ minimum <= ((minimum + 9) \div 10) * 10
    BY <1>1
  <1> QED BY <1>2, <1>3 DEF minimum, Fine

\* A verdict that found an account is about the account as it is.
FoundOK == Found => /\ wallet \in Ledger
                    /\ \E issuer \in Issuers : verdict = runAccountChecks(wallet, issuer, checkConfig)

\* The steps a verdict lists, by its outcome.
StepsOK ==
    /\ verdict # NotChecked => verdict.outcome \in {"found", "unfunded", "outage"}
    /\ verdict # NotChecked /\ verdict.outcome = "unfunded" => verdict.steps = {"activate", "addTrustline"} /\ ~wallet.funded
    /\ verdict # NotChecked /\ verdict.outcome = "outage" => verdict.steps = {"retry"}

TypedOK ==
    /\ rounds \in Nat
    /\ rounds = 0 => verdict = NotChecked
    /\ rounds > 0 => checkConfig \in Inputs /\ wallet \in Ledger \cup {NotFunded}

AccountInv == TypedOK /\ StepsOK /\ FoundOK

LEMMA ResultIs ==
    ASSUME NEW outcome, NEW list, NEW reason, NEW steps
    PROVE  LET r == Result(outcome, list, reason, steps) IN
           r.outcome = outcome /\ r.rows = list /\ r.reason = reason /\ r.steps = steps
BY DEF Result

LEMMA CheckedIs ==
    ASSUME NEW account, NEW issuer, NEW cfg
    PROVE  LET f == Facts(account, issuer, cfg)
               v == runAccountChecks(account, issuer, cfg)
           IN  /\ v.outcome = "found"
               /\ v.rows = AccountRows(f, account, cfg)
               /\ v.reason = AccountReason(f, AccountRows(f, account, cfg), cfg)
               /\ v.steps = Remediation(f, AccountRows(f, account, cfg))
  <1> DEFINE f == Facts(account, issuer, cfg)
             list == AccountRows(f, account, cfg)
             r == Result("found", list, AccountReason(f, list, cfg), Remediation(f, list))
  <1>1. runAccountChecks(account, issuer, cfg) = [r EXCEPT !.domain = f.domain]
    BY DEF runAccountChecks
  <1>2. /\ r.outcome = "found" /\ r.rows = list /\ r.reason = AccountReason(f, list, cfg)
        /\ r.steps = Remediation(f, list)
    BY ResultIs
  <1>3. [r EXCEPT !.domain = f.domain].outcome = r.outcome /\ [r EXCEPT !.domain = f.domain].rows = r.rows
        /\ [r EXCEPT !.domain = f.domain].reason = r.reason /\ [r EXCEPT !.domain = f.domain].steps = r.steps
    BY DEF Result
  <1> HIDE DEF r, f, list
  <1> QED BY <1>1, <1>2, <1>3 DEF f, list

LEMMA NewLineIs ==
    ASSUME NEW cfg \in Inputs
    PROVE  /\ NewLine(cfg) \in Lines
           /\ NewLine(cfg).exists /\ ~NewLine(cfg).clawback /\ NewLine(cfg).limit = 2
  <1> DEFINE n == NewLine(cfg)
  <1>1. n = [NoLine EXCEPT !.exists = TRUE, !.limit = 2, !.authorized = cfg.open]
    BY DEF NewLine
  <1>2. cfg.open \in BOOLEAN
    BY DEF Inputs
  <1> HIDE DEF n
  <1>3. n.exists
    BY <1>1 DEF NoLine
  <1>4. ~n.clawback
    BY <1>1 DEF NoLine
  <1>5. n.limit = 2
    BY <1>1 DEF NoLine
  <1>6. n \in Lines
    <2>1. NoLine \in Lines
      BY DEF NoLine, Lines
    <2> QED BY <1>1, <1>2, <2>1 DEF Lines
  <1> QED BY <1>3, <1>4, <1>5, <1>6 DEF n

\* What the owner's steps make of an account that is funded.
LEMMA FollowIs ==
    ASSUME NEW account \in Ledger, NEW cfg \in Inputs, NEW steps, "activate" \notin steps
    PROVE  LET after == Follow(steps, account, cfg)
               f == Facts(account, "d1", cfg)
               line == IF "addTrustline" \in steps THEN NewLine(cfg) ELSE account.line
           IN  /\ after \in Ledger
               /\ after.line.exists = line.exists /\ after.line.clawback = line.clawback
               /\ after.line.authorized <=> line.authorized \/ "authorize" \in steps
               /\ after.line.limit = IF "raiseLimit" \in steps THEN 2 ELSE line.limit
               /\ after.line.balance = IF "acquire" \in steps THEN toStroops(cfg.minAsset) ELSE line.balance
               /\ after.xlm = IF "sendXlm" \in steps THEN account.xlm + f.missingXlm ELSE account.xlm
               /\ after.subentries = IF "addTrustline" \in steps THEN account.subentries + 1 ELSE account.subentries
               /\ after.sponsoring = account.sponsoring /\ after.sponsored = account.sponsored
               /\ f.missingXlm \in Nat /\ account.xlm + f.missingXlm >= buildReserveRequirement(account, cfg)
  <1> DEFINE f == Facts(account, "d1", cfg)
             line == IF "addTrustline" \in steps THEN NewLine(cfg) ELSE account.line
             authorized == line.authorized \/ "authorize" \in steps
             limit == IF "raiseLimit" \in steps THEN 2 ELSE line.limit
             balance == IF "acquire" \in steps THEN f.minimum ELSE line.balance
             newLine == [line EXCEPT !.authorized = authorized, !.limit = limit, !.balance = balance]
             subentries == IF "addTrustline" \in steps THEN account.subentries + 1 ELSE account.subentries
             xlm == IF "sendXlm" \in steps THEN account.xlm + f.missingXlm ELSE account.xlm
             after == [account EXCEPT !.subentries = subentries, !.xlm = xlm, !.line = newLine]
  <1>1. Follow(steps, account, cfg) = after
    BY DEF Follow
  <1>2. line \in Lines
    BY NewLineIs DEF Ledger
  <1>3. f.minimum = toStroops(cfg.minAsset) /\ toStroops(cfg.minAsset) \in Nat
    BY FactsAre, MinimumIs
  <1>4. f.missingXlm \in Nat /\ account.xlm + f.missingXlm >= buildReserveRequirement(account, cfg)
    <2>1. f.missingXlm = Max({0, buildReserveRequirement(account, cfg) - account.xlm})
      BY FactsAre
    <2>2. buildReserveRequirement(account, cfg) \in Nat /\ account.xlm \in Nat
      BY ReserveIs DEF Ledger
    <2> HIDE DEF f
    <2> QED BY <2>1, <2>2 DEF Max
  <1> HIDE DEF f, line
  <1>5. authorized \in BOOLEAN /\ limit \in Nat /\ balance \in Nat
    BY <1>2, <1>3 DEF Lines
  <1>6. xlm \in Nat /\ subentries \in Nat
    BY <1>4 DEF Ledger
  <1> HIDE DEF authorized, limit, balance, xlm, subentries
  <1>7. /\ newLine \in Lines
        /\ newLine.exists = line.exists /\ newLine.clawback = line.clawback
        /\ newLine.limit = limit /\ newLine.balance = balance
    BY <1>2, <1>5 DEF Lines
  <1>8. newLine.authorized = authorized
    BY <1>2, <1>5 DEF Lines
  <1> HIDE DEF newLine
  <1>9. /\ after \in Ledger
        /\ after.line = newLine /\ after.xlm = xlm /\ after.subentries = subentries
        /\ after.sponsoring = account.sponsoring /\ after.sponsored = account.sponsored
    BY <1>6, <1>7 DEF Ledger
  <1> HIDE DEF after
  <1> DEFINE done == Follow(steps, account, cfg)
  <1>10. /\ done \in Ledger /\ done.line = newLine /\ done.xlm = xlm /\ done.subentries = subentries
         /\ done.sponsoring = account.sponsoring /\ done.sponsored = account.sponsored
    BY <1>1, <1>9
  <1> HIDE DEF done
  <1>11. /\ done.line.exists = line.exists /\ done.line.clawback = line.clawback
         /\ done.line.limit = limit /\ done.line.balance = balance
    BY <1>7, <1>10
  <1>12. done.line.authorized <=> line.authorized \/ "authorize" \in steps
    BY <1>8, <1>10 DEF authorized
  <1>13. /\ done \in Ledger
         /\ done.line.exists = line.exists /\ done.line.clawback = line.clawback
         /\ done.line.authorized <=> line.authorized \/ "authorize" \in steps
         /\ done.line.limit = IF "raiseLimit" \in steps THEN 2 ELSE line.limit
         /\ done.line.balance = IF "acquire" \in steps THEN toStroops(cfg.minAsset) ELSE line.balance
         /\ done.xlm = IF "sendXlm" \in steps THEN account.xlm + f.missingXlm ELSE account.xlm
         /\ done.subentries = IF "addTrustline" \in steps THEN account.subentries + 1 ELSE account.subentries
         /\ done.sponsoring = account.sponsoring /\ done.sponsored = account.sponsored
         /\ f.missingXlm \in Nat /\ account.xlm + f.missingXlm >= buildReserveRequirement(account, cfg)
    BY <1>3, <1>4, <1>10, <1>11, <1>12 DEF limit, balance, xlm, subentries
  <1> QED BY <1>13 DEF done, f, line

LEMMA ActivateIs ==
    ASSUME NEW account, NEW cfg \in Inputs, NEW steps, "activate" \in steps
    PROVE  LET after == Follow(steps, account, cfg) IN
           after \in Ledger /\ after.line = NewLine(cfg)
BY NewLineIs DEF Follow, Ledger

LEMMA StepsAre ==
    ASSUME NEW f
    PROVE  /\ "authorize" \in Steps(f) <=> f.unauthorized
           /\ "addTrustline" \in Steps(f) <=> ~f.trustline /\ ~f.unauthorized
           /\ "sendXlm" \in Steps(f) <=> ~f.reserve
           /\ "raiseLimit" \in Steps(f) <=> f.trustline /\ ~f.limit
           /\ "acquire" \in Steps(f) <=> f.trustline /\ ~f.balance
           /\ "leaveClawback" \in Steps(f) <=> f.clawback
           /\ "activate" \notin Steps(f)
BY DEF Steps

LEMMA LookIs ==
    ASSUME AccountInv, Look
    PROVE  /\ UNCHANGED <<checkConfig, wallet, rounds>> /\ rounds \in Nat \ {0}
           /\ \/ /\ wallet.funded
                 /\ \E issuer \in Issuers : verdict' = runAccountChecks(wallet, issuer, checkConfig)
              \/ verdict'.outcome = "unfunded" /\ verdict'.steps = {"activate", "addTrustline"} /\ ~wallet.funded
              \/ verdict'.outcome = "outage" /\ verdict'.steps = {"retry"}
  <1>1. UNCHANGED <<checkConfig, wallet, rounds>> /\ rounds \in Nat \ {0}
    BY AccountAssumption DEF Look, AccountInv, TypedOK
  <1>2. CASE wallet.funded /\ \E issuer \in Issuers : verdict' = runAccountChecks(wallet, issuer, checkConfig)
    BY <1>1, <1>2
  <1>3. CASE ~wallet.funded /\ \E n \in 0..1 : verdict' = unfundedAccountResult(checkConfig, n)
    <2>1. \A n : unfundedAccountResult(checkConfig, n).outcome = "unfunded"
                 /\ unfundedAccountResult(checkConfig, n).steps = {"activate", "addTrustline"}
      BY DEF unfundedAccountResult, Result
    <2> QED BY <1>1, <1>3, <2>1
  <1>4. CASE verdict' \in horizonFailureResult(checkConfig) \cup
                 {circuitOpenFailureResult(checkConfig), rateBudgetExhaustedResult(checkConfig), tlsFailureResult(checkConfig)}
    <2>1. \E code, list : verdict' = Outage(code, list)
      BY <1>4 DEF horizonFailureResult, circuitOpenFailureResult, rateBudgetExhaustedResult, tlsFailureResult
    <2>2. \A code, list : Outage(code, list).outcome = "outage" /\ Outage(code, list).steps = {"retry"}
      BY DEF Outage, Result
    <2> QED BY <1>1, <2>1, <2>2
  <1> QED BY <1>2, <1>3, <1>4 DEF Look

\* After an outage nothing is repaired; otherwise the round counts and the
\* owner follows the verdict.
LEMMA RepairIs ==
    ASSUME AccountInv, Repair
    PROVE  /\ checkConfig \in Inputs /\ checkConfig' \in Inputs /\ wallet \in Ledger \cup {NotFunded}
           /\ verdict' = NotChecked /\ rounds \in Nat \ {0}
           /\ checkConfig'.clawbackStrict <=> checkConfig.clawbackStrict /\ "leaveClawback" \notin verdict.steps
           /\ \A field \in {"sac", "policy", "floor", "minAsset", "minLimit"} : checkConfig'[field] = checkConfig[field]
           /\ \/ verdict.outcome = "outage" /\ verdict.steps = {"retry"} /\ UNCHANGED <<rounds, wallet>>
              \/ /\ rounds' = rounds + 1 /\ verdict.outcome = "unfunded" /\ ~wallet.funded
                 /\ wallet' \in Ledger /\ wallet'.line = NewLine(checkConfig)
              \/ /\ rounds' = rounds + 1 /\ wallet \in Ledger
                 /\ \E issuer \in Issuers : verdict.steps = Steps(Facts(wallet, issuer, checkConfig))
                 /\ wallet' = Follow(verdict.steps, wallet, checkConfig)
  <1>1. verdict # NotChecked /\ verdict' = NotChecked /\ ~Passes(verdict.rows)
    BY DEF Repair
  <1>2. rounds \in Nat \ {0} /\ checkConfig \in Inputs /\ wallet \in Ledger \cup {NotFunded}
    BY <1>1 DEF AccountInv, TypedOK
  <1> DEFINE strict == checkConfig.clawbackStrict /\ "leaveClawback" \notin verdict.steps
             mode == IF "fixDomain" \in verdict.steps THEN "warn" ELSE checkConfig.domainMode
  <1>3. checkConfig' = [checkConfig EXCEPT !.clawbackStrict = strict, !.domainMode = mode]
    BY DEF Repair
  <1>4. strict \in BOOLEAN /\ mode \in {"off", "warn", "strict"}
    BY <1>2 DEF Inputs
  <1>5. /\ checkConfig' \in Inputs
        /\ checkConfig'.clawbackStrict = strict
        /\ \A field \in {"sac", "policy", "floor", "minAsset", "minLimit"} : checkConfig'[field] = checkConfig[field]
    <2> HIDE DEF strict, mode
    <2>1. checkConfig' \in Inputs
      BY <1>2, <1>3, <1>4 DEF Inputs
    <2>2. checkConfig'.clawbackStrict = strict
      BY <1>2, <1>3, <1>4 DEF Inputs
    <2>3. \A field \in {"sac", "policy", "floor", "minAsset", "minLimit"} : checkConfig'[field] = checkConfig[field]
      BY <1>2, <1>3, <1>4 DEF Inputs
    <2> QED BY <2>1, <2>2, <2>3
  <1>6. CASE verdict.outcome = "outage"
    BY <1>1, <1>2, <1>5, <1>6 DEF Repair, AccountInv, StepsOK
  <1>7. CASE verdict.outcome = "unfunded"
    <2>1. /\ rounds' = rounds + 1 /\ ~wallet.funded /\ "activate" \in verdict.steps
          /\ wallet' = Follow(verdict.steps, wallet, checkConfig)
      BY <1>1, <1>7 DEF Repair, AccountInv, StepsOK
    <2>2. wallet' \in Ledger /\ wallet'.line = NewLine(checkConfig)
      BY <1>2, <2>1, ActivateIs
    <2> QED BY <1>1, <1>2, <1>5, <1>7, <2>1, <2>2
  <1>8. CASE verdict.outcome = "found"
    <2>1. wallet \in Ledger /\ rounds' = rounds + 1 /\ wallet' = Follow(verdict.steps, wallet, checkConfig)
      BY <1>8 DEF Repair, AccountInv, FoundOK, Found
    <2>2. PICK issuer \in Issuers : verdict = runAccountChecks(wallet, issuer, checkConfig)
      BY <1>8 DEF AccountInv, FoundOK, Found
    <2> DEFINE f == Facts(wallet, issuer, checkConfig)
               list == AccountRows(f, wallet, checkConfig)
    <2>3. verdict.rows = list /\ verdict.steps = Remediation(f, list)
      BY <2>2, CheckedIs
    <2> HIDE DEF list
    <2>4. verdict.steps = Steps(f)
      BY <1>1, <2>3 DEF Remediation
    <2> QED BY <1>1, <1>2, <1>5, <2>1, <2>4
  <1> QED BY <1>1, <1>6, <1>7, <1>8 DEF AccountInv, StepsOK

LEMMA AccountKeeps == AccountInv /\ [AccountNext]_accountVars => AccountInv'
  <1> SUFFICES ASSUME AccountInv, [AccountNext]_accountVars PROVE AccountInv'
    OBVIOUS
  <1>1. CASE Configure
    <2>1. /\ rounds = 0 /\ rounds' = 1 /\ verdict' = NotChecked
          /\ checkConfig' \in Inputs /\ wallet' \in Ledger \cup {NotFunded}
      BY <1>1, AccountAssumption DEF Configure, AccountInv, TypedOK
    <2>2. NotChecked.outcome = "none"
      BY DEF NotChecked
    <2> QED BY <2>1, <2>2 DEF AccountInv, TypedOK, StepsOK, FoundOK, Found
  <1>2. CASE Look
    <2>1. UNCHANGED <<checkConfig, wallet, rounds>> /\ rounds \in Nat \ {0}
      BY <1>2, LookIs
    <2>2. TypedOK'
      BY <2>1 DEF AccountInv, TypedOK
    <2>3. CASE wallet.funded /\ \E issuer \in Issuers : verdict' = runAccountChecks(wallet, issuer, checkConfig)
      <3>1. wallet \in Ledger
        <4>1. ~NotFunded.funded
          BY DEF NotFunded
        <4> QED BY <2>1, <2>3, <4>1 DEF AccountInv, TypedOK
      <3>2. verdict'.outcome = "found"
        BY <2>3, CheckedIs
      <3> QED BY <2>1, <2>2, <2>3, <3>1, <3>2 DEF AccountInv, StepsOK, FoundOK, Found
    <2>4. CASE \/ verdict'.outcome = "unfunded" /\ verdict'.steps = {"activate", "addTrustline"} /\ ~wallet.funded
               \/ verdict'.outcome = "outage" /\ verdict'.steps = {"retry"}
      BY <2>1, <2>2, <2>4 DEF AccountInv, StepsOK, FoundOK, Found
    <2> QED BY <1>2, <2>3, <2>4, LookIs
  <1>3. CASE Repair
    <2>1. /\ checkConfig' \in Inputs /\ wallet \in Ledger \cup {NotFunded}
          /\ verdict' = NotChecked /\ rounds \in Nat \ {0}
      BY <1>3, RepairIs
    <2>2. rounds' \in Nat \ {0} /\ wallet' \in Ledger \cup {NotFunded}
      <3>1. CASE UNCHANGED <<rounds, wallet>>
        BY <2>1, <3>1
      <3>2. CASE rounds' = rounds + 1 /\ wallet' \in Ledger
        BY <2>1, <3>2
      <3>3. CASE /\ rounds' = rounds + 1 /\ wallet \in Ledger
                 /\ \E issuer \in Issuers : verdict.steps = Steps(Facts(wallet, issuer, checkConfig))
                 /\ wallet' = Follow(verdict.steps, wallet, checkConfig)
        <4>1. "activate" \notin verdict.steps
          BY <3>3, StepsAre
        <4>2. checkConfig \in Inputs
          BY <1>3, RepairIs
        <4> QED BY <2>1, <3>3, <4>1, <4>2, FollowIs
      <3> QED BY <1>3, <3>1, <3>2, <3>3, RepairIs
    <2>3. NotChecked.outcome = "none"
      BY DEF NotChecked
    <2> QED BY <2>1, <2>2, <2>3 DEF AccountInv, TypedOK, StepsOK, FoundOK, Found
  <1>4. CASE UNCHANGED accountVars
    BY <1>4 DEF AccountInv, TypedOK, StepsOK, FoundOK, Found, accountVars
  <1> QED BY <1>1, <1>2, <1>3, <1>4 DEF AccountNext

LEMMA AccountStarts == AccountInit => AccountInv
  <1>1. NotChecked.outcome = "none"
    BY DEF NotChecked
  <1> QED BY <1>1 DEF AccountInit, AccountInv, TypedOK, StepsOK, FoundOK, Found

-----------------------------------------------------------------------------
(* What a verdict is worth.                                                *)

LEMMA FoundVerdict ==
    ASSUME AccountInv, Found
    PROVE  /\ wallet \in Ledger /\ checkConfig \in Inputs
           /\ \E issuer \in Issuers :
                 LET f == Facts(wallet, issuer, checkConfig) IN
                 /\ FailedLabels(verdict.rows) = Failures(f, checkConfig)
                 /\ Passes(verdict.rows) <=> Failures(f, checkConfig) = {}
                 /\ verdict.reason = AccountReason(f, verdict.rows, checkConfig)
                 /\ verdict.steps = Remediation(f, verdict.rows)
  <1>1. wallet \in Ledger /\ checkConfig \in Inputs
    <2>1. NotChecked.outcome = "none"
      BY DEF NotChecked
    <2> QED BY <2>1 DEF AccountInv, TypedOK, FoundOK, Found
  <1>2. PICK issuer \in Issuers : verdict = runAccountChecks(wallet, issuer, checkConfig)
    BY DEF AccountInv, FoundOK
  <1> DEFINE f == Facts(wallet, issuer, checkConfig)
             list == AccountRows(f, wallet, checkConfig)
  <1>3. verdict.rows = list /\ verdict.reason = AccountReason(f, list, checkConfig) /\ verdict.steps = Remediation(f, list)
    BY <1>2, CheckedIs
  <1>4. FailedLabels(list) = Failures(f, checkConfig) /\ (Passes(list) <=> Failures(f, checkConfig) = {})
    BY FailuresAre
  <1> HIDE DEF f, list
  <1>5. /\ FailedLabels(verdict.rows) = Failures(f, checkConfig)
        /\ Passes(verdict.rows) <=> Failures(f, checkConfig) = {}
        /\ verdict.reason = AccountReason(f, verdict.rows, checkConfig)
        /\ verdict.steps = Remediation(f, verdict.rows)
    BY <1>3, <1>4
  <1> QED BY <1>1, <1>5 DEF f

LEMMA ReasonsAreShown == AccountInv => ReasonIsShown
  <1> SUFFICES ASSUME AccountInv, Found PROVE ReasonIsShown
    BY DEF ReasonIsShown
  <1> DEFINE account == wallet
             cfg == checkConfig
             failing == FailedLabels(verdict.rows)
             reason == verdict.reason
  <1>1. account \in Ledger /\ cfg \in Inputs
    BY FoundVerdict
  <1>2. PICK issuer \in Issuers :
           LET f == Facts(account, issuer, cfg) IN
           /\ failing = Failures(f, cfg)
           /\ Passes(verdict.rows) <=> Failures(f, cfg) = {}
           /\ reason = AccountReason(f, verdict.rows, cfg)
    BY FoundVerdict
  <1> DEFINE f == Facts(account, issuer, cfg)
             line == LineOf(account, cfg)
  <1>3. /\ f.unauthorized <=> line.exists /\ ~line.authorized /\ cfg.policy = "fail"
        /\ f.trustline <=> line.exists /\ ~f.unauthorized
        /\ f.clawback <=> line.exists /\ line.clawback /\ cfg.clawbackStrict
        /\ f.limit <=> cfg.minLimit \in {"unset", "zero"} \/ line.limit >= 2
        /\ f.domainFails <=> cfg.domainMode = "strict" /\ f.domain # "valid"
        /\ f.domainBlocks <=> cfg.domainMode = "strict" /\ f.domain # "valid" /\ ~cfg.toml
    BY FactsAre
  <1>4. (~cfg.sac => line = account.line) /\ (cfg.sac => ~line.exists)
    BY <1>1, LineIs
  <1>5. /\ failing = Failures(f, cfg) /\ (Passes(verdict.rows) <=> failing = {})
        /\ reason = AccountReason(f, verdict.rows, cfg)
    BY <1>2
  <1> HIDE DEF f, line, failing, reason
  <1>6. reason = "SUCCESS" <=> failing = {}
    BY <1>5 DEF AccountReason
  <1>7. /\ reason = "TRUSTLINE_UNAUTHORIZED" => "trustline" \in failing
        /\ reason = "SAC_ISSUER_NOT_VERIFIABLE" => "trustline" \in failing
        /\ reason = "TRUSTLINE_MISSING" => "trustline" \in failing
        /\ reason = "CLAWBACK_BLOCKED" => "clawback safety" \in failing
        /\ reason = "RESERVE_TOO_LOW" => "XLM reserve" \in failing
        /\ reason = "TRUSTLINE_LIMIT_TOO_LOW" => "Trustline limit" \in failing
        /\ reason = "HOME_DOMAIN_MISMATCH" => "home domain" \in failing
        /\ reason = "HOME_DOMAIN_MISSING" => "home domain" \in failing
    <2>1. f.unauthorized \/ cfg.sac => ~f.trustline
      BY <1>3, <1>4
    <2>2. ~f.trustline => "trustline" \in failing
      BY <1>5 DEF Failures
    <2>3. f.clawback => "clawback safety" \in failing
      BY <1>5 DEF Failures
    <2>4. ~f.reserve => "XLM reserve" \in failing
      BY <1>5 DEF Failures
    <2>5. ~f.limit => "Trustline limit" \in failing
      <3>1. ~f.limit => cfg.minLimit # "unset"
        BY <1>3
      <3> QED BY <1>5, <3>1 DEF Failures
    <2>6. f.domainBlocks => "home domain" \in failing
      <3>1. f.domainBlocks => f.domainFails /\ cfg.domainMode # "off"
        BY <1>3
      <3> QED BY <1>5, <3>1 DEF Failures
    <2> QED BY <1>5, <2>1, <2>2, <2>3, <2>4, <2>5, <2>6 DEF AccountReason
  <1>8. reason = "TRUSTLINE_MISSING" => ~account.line.exists
    <2>1. reason = "TRUSTLINE_MISSING" => ~f.unauthorized /\ ~cfg.sac /\ ~f.trustline
      BY <1>5 DEF AccountReason
    <2> QED BY <1>3, <1>4, <2>1
  <1>9. reason = "RESERVE_TOO_LOW" => deriveAssetReasonCode(account.line, cfg) = "SUCCESS"
    <2>1. reason = "RESERVE_TOO_LOW" => ~cfg.sac /\ f.trustline /\ ~f.clawback
      BY <1>5 DEF AccountReason
    <2> QED BY <1>3, <1>4, <2>1 DEF deriveAssetReasonCode
  <1>10. reason \in DOMAIN RowOfReason => RowOfReason[reason] \in failing
    <2>1. DOMAIN RowOfReason = {"TRUSTLINE_UNAUTHORIZED", "SAC_ISSUER_NOT_VERIFIABLE", "TRUSTLINE_MISSING", "CLAWBACK_BLOCKED",
                               "RESERVE_TOO_LOW", "TRUSTLINE_LIMIT_TOO_LOW", "HOME_DOMAIN_MISMATCH", "HOME_DOMAIN_MISSING"}
      BY DEF RowOfReason
    <2>2. /\ RowOfReason["TRUSTLINE_UNAUTHORIZED"] = "trustline" /\ RowOfReason["SAC_ISSUER_NOT_VERIFIABLE"] = "trustline"
          /\ RowOfReason["TRUSTLINE_MISSING"] = "trustline" /\ RowOfReason["CLAWBACK_BLOCKED"] = "clawback safety"
          /\ RowOfReason["RESERVE_TOO_LOW"] = "XLM reserve" /\ RowOfReason["TRUSTLINE_LIMIT_TOO_LOW"] = "Trustline limit"
          /\ RowOfReason["HOME_DOMAIN_MISMATCH"] = "home domain" /\ RowOfReason["HOME_DOMAIN_MISSING"] = "home domain"
      BY DEF RowOfReason
    <2> QED BY <1>7, <2>1, <2>2
  <1> QED BY <1>6, <1>8, <1>9, <1>10 DEF ReasonIsShown, failing, reason

LEMMA VerdictsAreTrue == AccountInv => VerdictIsTrue
  <1> SUFFICES ASSUME AccountInv, Found PROVE VerdictIsTrue
    BY DEF VerdictIsTrue, ValidCanReceive, ReservesAgree
  <1> DEFINE account == wallet
             cfg == checkConfig
             failing == FailedLabels(verdict.rows)
             need == buildReserveRequirement(account, cfg)
             minimum == toStroops(cfg.minAsset)
  <1>1. account \in Ledger /\ cfg \in Inputs
    BY FoundVerdict
  <1>2. PICK issuer \in Issuers :
           LET f == Facts(account, issuer, cfg) IN
           /\ failing = Failures(f, cfg)
           /\ Passes(verdict.rows) <=> Failures(f, cfg) = {}
    BY FoundVerdict
  <1> DEFINE f == Facts(account, issuer, cfg)
             line == LineOf(account, cfg)
  <1>3. /\ f.unauthorized <=> line.exists /\ ~line.authorized /\ cfg.policy = "fail"
        /\ f.trustline <=> line.exists /\ ~f.unauthorized
        /\ f.clawback <=> line.exists /\ line.clawback /\ cfg.clawbackStrict
        /\ f.reserve <=> account.xlm >= need
        /\ f.minimum = minimum
        /\ f.balance <=> line.balance >= minimum
    BY FactsAre
  <1>12. f.limit <=> cfg.minLimit \in {"unset", "zero"} \/ line.limit >= 2
    BY FactsAre
  <1>4. /\ ~cfg.sac => line = account.line
        /\ cfg.sac => ~line.exists
    BY <1>1, LineIs
  <1>5. failing = Failures(f, cfg) /\ (Passes(verdict.rows) <=> failing = {})
    BY <1>2
  <1>6. /\ need \in Nat /\ need >= cfg.floor
        /\ need >= 2 + account.subentries + account.sponsoring - account.sponsored
        /\ \/ need = cfg.floor
           \/ need = 2 + account.subentries + account.sponsoring - account.sponsored
           \/ need = 0 /\ 2 + account.subentries + account.sponsoring - account.sponsored <= 0
    BY <1>1, ReserveIs
  <1>7. minimum \in Nat /\ cfg.minAsset <= minimum * Fine
    BY <1>1, MinimumIs
  <1>8. /\ account.xlm \in Nat /\ account.subentries \in Nat /\ account.sponsoring \in Nat /\ account.sponsored \in Nat
        /\ account.line.balance \in Nat /\ cfg.floor \in Nat /\ cfg.minAsset \in Nat
    BY <1>1 DEF Ledger, Lines, Inputs
  <1> HIDE DEF f, line, failing, need, minimum
  <1>9. ASSUME failing = {}
        PROVE  /\ account.line.exists /\ ~cfg.sac
               /\ cfg.policy = "fail" => account.line.authorized
               /\ cfg.clawbackStrict => ~account.line.clawback
               /\ account.line.balance * Fine >= cfg.minAsset
               /\ cfg.minLimit = "two" => account.line.limit >= 2
               /\ account.xlm >= cfg.floor
               /\ account.xlm + account.sponsored >= 2 + account.subentries + account.sponsoring
    <2>1. f.trustline /\ f.reserve /\ ~f.clawback /\ (f.minimum > 0 => f.balance)
      BY <1>5, <1>9 DEF Failures
    <2>2. line.exists /\ ~cfg.sac /\ line = account.line
      BY <1>3, <1>4, <2>1
    <2>3. account.line.balance >= minimum
      BY <1>3, <1>7, <1>8, <2>1, <2>2
    <2>4. account.line.balance * Fine >= cfg.minAsset
      BY <1>7, <1>8, <2>3 DEF Fine
    <2>5. account.xlm >= cfg.floor /\ account.xlm + account.sponsored >= 2 + account.subentries + account.sponsoring
      BY <1>3, <1>6, <1>8, <2>1
    <2>6. ASSUME cfg.minLimit = "two" PROVE account.line.limit >= 2
      <3>1. cfg.minLimit \notin {"unset", "zero"}
        BY <2>6
      <3>2. f.limit
        BY <1>5, <1>9, <2>1, <3>1 DEF Failures
      <3> QED BY <1>12, <2>2, <3>1, <3>2
    <2> QED BY <1>3, <2>1, <2>2, <2>4, <2>5, <2>6
  <1>10. ValidCanReceive
    BY <1>5, <1>9 DEF ValidCanReceive, failing
  <1>11. ReservesAgree
    <2>1. "XLM reserve" \in failing <=> ~(account.xlm >= need)
      BY <1>3, <1>5 DEF Failures
    <2>2. ASSUME account.sponsored = 0, account.sponsoring = 0, account.subentries = (IF account.line.exists THEN 1 ELSE 0)
          PROVE  need = ReportedReserve(account, cfg)
      <3>1. ReportedReserve(account, cfg) = Max({cfg.floor, 2 + account.subentries})
        BY <2>2 DEF ReportedReserve, calculateRecommendedReserve
      <3>2. need = IF cfg.floor >= 2 + account.subentries THEN cfg.floor ELSE 2 + account.subentries
        BY <1>6, <1>8, <2>2
      <3>3. \A a, b \in Nat : Max({a, b}) = IF a >= b THEN a ELSE b
        BY DEF Max
      <3> QED BY <1>8, <3>1, <3>2, <3>3
    <2>3. account.xlm < need <=> ~(account.xlm >= need)
      BY <1>6, <1>8
    <2>4. "XLM reserve" \in failing <=> account.xlm < need
      BY <2>1, <2>3
    <2>9. computeProtocolMinReserve(account) \in Int
      <3>1. \A n \in Int : Max({0, n}) \in Int
        BY DEF Max
      <3>2. 2 + account.subentries + account.sponsoring - account.sponsored \in Int
        BY <1>8
      <3> QED BY <3>1, <3>2 DEF computeProtocolMinReserve
    <2>5. computeProtocolMinReserve(account) = computeBaseReserveRequirement(account)
      BY DEF computeProtocolMinReserve, computeBaseReserveRequirement
    <2>6. need = computeEffectiveReserveRequirement(account, cfg, 0)
      <3>1. computeBaseReserveRequirement(account) + 0 = computeProtocolMinReserve(account)
        BY <2>5, <2>9
      <3>2. computeEffectiveReserveRequirement(account, cfg, 0) = Max({cfg.floor, computeProtocolMinReserve(account)})
        BY <3>1 DEF computeEffectiveReserveRequirement
      <3>3. need = Max({computeProtocolMinReserve(account), cfg.floor})
        BY DEF need, buildReserveRequirement
      <3>4. {cfg.floor, computeProtocolMinReserve(account)} = {computeProtocolMinReserve(account), cfg.floor}
        OBVIOUS
      <3> QED BY <3>2, <3>3, <3>4
    <2>7. ASSUME validateDynamicReserve(account, 0).valid, ~validateDynamicReserve(account, 0).thin
          PROVE  account.xlm >= computeProtocolMinReserve([account EXCEPT !.subentries = @ + 1])
      <3> DEFINE after == [account EXCEPT !.subentries = @ + 1]
                 least == 2 + account.subentries + account.sponsoring - account.sponsored
      <3>1. /\ after.subentries = account.subentries + 1
            /\ after.sponsoring = account.sponsoring /\ after.sponsored = account.sponsored
        BY <1>1 DEF Ledger
      <3>2. computeProtocolMinReserve(after) = Max({0, least + 1})
        <4>1. 2 + after.subentries + after.sponsoring - after.sponsored = least + 1
          BY <1>8, <3>1
        <4> QED BY <4>1 DEF computeProtocolMinReserve
      <3>3. computeProtocolMinReserve(account) = Max({0, least})
        BY DEF computeProtocolMinReserve
      <3>4. account.xlm - (computeProtocolMinReserve(account) + 0) >= 0 /\ account.xlm - (computeProtocolMinReserve(account) + 0) # 0
        BY <2>5, <2>7 DEF validateDynamicReserve
      <3>5. least \in Int
        BY <1>8
      <3> HIDE DEF least, after
      <3>6. \A n \in Int : Max({0, n}) = IF n >= 0 THEN n ELSE 0
        BY DEF Max
      <3>7. /\ Max({0, least}) = IF least >= 0 THEN least ELSE 0
            /\ Max({0, least + 1}) = IF least + 1 >= 0 THEN least + 1 ELSE 0
        BY <3>5, <3>6
      <3>8. account.xlm >= computeProtocolMinReserve(after)
        BY <1>8, <3>2, <3>3, <3>4, <3>5, <3>7
      <3> QED BY <3>8 DEF after
    <2>8. ReservesAgree
      BY <2>2, <2>4, <2>6, <2>7 DEF ReservesAgree, failing
    <2> QED BY <2>8
  <1> QED BY <1>10, <1>11 DEF VerdictIsTrue

\* A result of runAccountChecks without a failed row is one of an account that
\* can receive the asset, and the reserve it asks for is the one the reserve
\* engine and generateValidationReport ask for, for every account and
\* configuration.
THEOREM VerdictsHold == AccountSpec => []VerdictIsTrue
  <1> QED BY AccountStarts, AccountKeeps, VerdictsAreTrue, PTL DEF AccountSpec

\* The reason code of a result belongs to a row that fails in it, and never
\* says that a trustline is missing that is there.
THEOREM ReasonsHold == AccountSpec => []ReasonIsShown
  <1> QED BY AccountStarts, AccountKeeps, ReasonsAreShown, PTL DEF AccountSpec

\* How far the remediation has come by the round that begins: after the first
\* the trustline is there, after the second it is authorized and has its
\* reserve, after the third it has its limit and balance.
LineOK == wallet \in Ledger /\ wallet.line.exists /\ ~(wallet.line.clawback /\ checkConfig.clawbackStrict)
HeldOK == (checkConfig.policy = "fail" => wallet.line.authorized) /\ wallet.xlm >= buildReserveRequirement(wallet, checkConfig)
FilledOK == /\ checkConfig.minLimit \in {"unset", "zero"} \/ wallet.line.limit >= 2
            /\ wallet.line.balance >= toStroops(checkConfig.minAsset)

StageOK == ~checkConfig.sac /\ rounds >= 2 => /\ LineOK
                                              /\ rounds >= 3 => HeldOK
                                              /\ rounds >= 4 => FilledOK

\* One round of remediation, as far as the account had come.
LEMMA RoundHelps ==
    ASSUME AccountInv, StageOK, Repair, rounds' = rounds + 1, wallet \in Ledger, ~checkConfig.sac,
           NEW issuer, verdict.steps = Steps(Facts(wallet, issuer, checkConfig)),
           wallet' = Follow(verdict.steps, wallet, checkConfig)
    PROVE  StageOK'
  <1> DEFINE account == wallet
             cfg == checkConfig
             now == checkConfig'
             steps == verdict.steps
             after == wallet'
             f == Facts(account, issuer, cfg)
             need == buildReserveRequirement(account, cfg)
             line == IF "addTrustline" \in steps THEN NewLine(cfg) ELSE account.line
             minimum == toStroops(cfg.minAsset)
  <1>1. /\ cfg \in Inputs /\ now \in Inputs /\ rounds \in Nat \ {0}
        /\ now.clawbackStrict <=> cfg.clawbackStrict /\ "leaveClawback" \notin steps
        /\ now.sac = cfg.sac /\ now.policy = cfg.policy /\ now.floor = cfg.floor
        /\ now.minAsset = cfg.minAsset /\ now.minLimit = cfg.minLimit
    BY RepairIs
  <1>2. /\ "authorize" \in steps <=> f.unauthorized
        /\ "addTrustline" \in steps <=> ~f.trustline /\ ~f.unauthorized
        /\ "sendXlm" \in steps <=> ~f.reserve
        /\ "raiseLimit" \in steps <=> f.trustline /\ ~f.limit
        /\ "acquire" \in steps <=> f.trustline /\ ~f.balance
        /\ "leaveClawback" \in steps <=> f.clawback
        /\ "activate" \notin steps
    BY StepsAre
  <1>3. /\ f.unauthorized <=> account.line.exists /\ ~account.line.authorized /\ cfg.policy = "fail"
        /\ f.trustline <=> account.line.exists /\ ~f.unauthorized
        /\ f.clawback <=> account.line.exists /\ account.line.clawback /\ cfg.clawbackStrict
        /\ f.reserve <=> account.xlm >= need
        /\ f.balance <=> account.line.balance >= minimum
        /\ f.limit <=> cfg.minLimit \in {"unset", "zero"} \/ account.line.limit >= 2
    <2>1. LineOf(account, cfg) = account.line
      BY LineIs
    <2> QED BY <2>1, FactsAre
  <1>4. /\ after \in Ledger
        /\ after.line.exists = line.exists /\ after.line.clawback = line.clawback
        /\ after.line.authorized <=> line.authorized \/ "authorize" \in steps
        /\ after.line.limit = IF "raiseLimit" \in steps THEN 2 ELSE line.limit
        /\ after.line.balance = IF "acquire" \in steps THEN minimum ELSE line.balance
        /\ after.xlm = IF "sendXlm" \in steps THEN account.xlm + Facts(account, "d1", cfg).missingXlm ELSE account.xlm
        /\ after.subentries = IF "addTrustline" \in steps THEN account.subentries + 1 ELSE account.subentries
        /\ after.sponsoring = account.sponsoring /\ after.sponsored = account.sponsored
        /\ account.xlm + Facts(account, "d1", cfg).missingXlm >= need
    BY <1>1, <1>2, FollowIs
  <1>5. /\ NewLine(cfg).exists /\ ~NewLine(cfg).clawback /\ minimum \in Nat /\ line \in Lines
        /\ account.line.limit \in Nat /\ account.line.balance \in Nat
    BY <1>1, NewLineIs, MinimumIs DEF Ledger, Lines
  <1>6. toStroops(now.minAsset) = minimum
    BY <1>1
  <1>7. "addTrustline" \notin steps => line = account.line /\ buildReserveRequirement(after, now) = need
    BY <1>1, <1>4 DEF buildReserveRequirement, computeProtocolMinReserve
  <1>8. "addTrustline" \in steps <=> ~account.line.exists
    BY <1>2, <1>3
  <1> DEFINE sent == Facts(account, "d1", cfg).missingXlm
             needed == buildReserveRequirement(after, now)
  <1> HIDE DEF f, need, line, minimum, steps, after, now, sent, needed
  <1>9. LineOK'
    <2>1. after \in Ledger /\ after.line.exists
      <3>1. line.exists
        BY <1>5, <1>8 DEF line
      <3> QED BY <1>4, <3>1
    <2>2. ~(after.line.clawback /\ now.clawbackStrict)
      <3>1. CASE account.line.exists
        <4>1. account.line.clawback /\ cfg.clawbackStrict => ~now.clawbackStrict
          BY <1>1, <1>2, <1>3, <3>1
        <4>2. after.line.clawback = account.line.clawback
          BY <1>4, <1>7, <1>8, <3>1
        <4> QED BY <1>1, <4>1, <4>2
      <3>2. CASE ~account.line.exists
        <4>1. line = NewLine(cfg)
          BY <1>8, <3>2 DEF line
        <4> QED BY <1>4, <1>5, <4>1
      <3> QED BY <3>1, <3>2
    <2> QED BY <2>1, <2>2 DEF LineOK, after, now
  <1>10. ASSUME account.line.exists PROVE HeldOK'
    <2>1. "addTrustline" \notin steps /\ line = account.line /\ needed = need
      BY <1>7, <1>8, <1>10 DEF needed
    <2>2. now.policy = "fail" => after.line.authorized
      BY <1>1, <1>2, <1>3, <1>4, <1>10, <2>1
    <2>3. after.xlm >= needed
      <3>1. CASE f.reserve
        BY <1>2, <1>3, <1>4, <2>1, <3>1
      <3>2. CASE ~f.reserve
        BY <1>2, <1>4, <2>1, <3>2 DEF sent
      <3> QED BY <3>1, <3>2
    <2> QED BY <2>2, <2>3 DEF HeldOK, after, now, needed
  <1>11. ASSUME account.line.exists, cfg.policy = "fail" => account.line.authorized PROVE FilledOK'
    <2>1. "addTrustline" \notin steps /\ line = account.line /\ f.trustline
      BY <1>3, <1>7, <1>8, <1>11
    <2>2. now.minLimit \in {"unset", "zero"} \/ after.line.limit >= 2
      <3>1. CASE f.limit
        BY <1>1, <1>2, <1>3, <1>4, <2>1, <3>1
      <3>2. CASE ~f.limit
        BY <1>2, <1>4, <2>1, <3>2
      <3> QED BY <3>1, <3>2
    <2>3. after.line.balance >= minimum
      <3>1. CASE f.balance
        BY <1>2, <1>3, <1>4, <2>1, <3>1
      <3>2. CASE ~f.balance
        BY <1>2, <1>4, <1>5, <2>1, <3>2
      <3> QED BY <3>1, <3>2
    <2> QED BY <1>6, <2>2, <2>3 DEF FilledOK, after, now
  <1>12. rounds' >= 3 => HeldOK'
    BY <1>1, <1>10 DEF StageOK, LineOK
  <1>13. rounds' >= 4 => FilledOK'
    BY <1>1, <1>11 DEF StageOK, LineOK, HeldOK
  <1> QED BY <1>9, <1>12, <1>13 DEF StageOK

LEMMA StageKeeps == AccountInv /\ StageOK /\ [AccountNext]_accountVars => StageOK'
  <1> SUFFICES ASSUME AccountInv, StageOK, [AccountNext]_accountVars PROVE StageOK'
    OBVIOUS
  <1>1. CASE Configure
    BY <1>1 DEF Configure, StageOK
  <1>2. CASE Look \/ UNCHANGED accountVars
    <2>1. UNCHANGED <<checkConfig, wallet, rounds>>
      BY <1>2 DEF Look, accountVars
    <2> QED BY <2>1 DEF StageOK, LineOK, HeldOK, FilledOK
  <1>3. CASE Repair
    <2> SUFFICES ASSUME ~checkConfig'.sac PROVE StageOK'
      BY DEF StageOK
    <2>1. /\ rounds \in Nat \ {0} /\ checkConfig \in Inputs
          /\ checkConfig'.clawbackStrict <=> checkConfig.clawbackStrict /\ "leaveClawback" \notin verdict.steps
          /\ checkConfig'.sac = checkConfig.sac /\ checkConfig'.policy = checkConfig.policy
          /\ checkConfig'.floor = checkConfig.floor /\ checkConfig'.minAsset = checkConfig.minAsset
          /\ checkConfig'.minLimit = checkConfig.minLimit
      BY <1>3, RepairIs
    <2>2. CASE UNCHANGED <<rounds, wallet>>
      <3>1. buildReserveRequirement(wallet', checkConfig') = buildReserveRequirement(wallet, checkConfig)
        BY <2>1, <2>2 DEF buildReserveRequirement
      <3>2. /\ LineOK => LineOK'
            /\ HeldOK => HeldOK'
            /\ FilledOK => FilledOK'
        BY <2>1, <2>2, <3>1 DEF LineOK, HeldOK, FilledOK
      <3> QED BY <2>1, <2>2, <3>2 DEF StageOK
    <2>3. CASE rounds' = rounds + 1 /\ ~wallet.funded /\ wallet' \in Ledger /\ wallet'.line = NewLine(checkConfig)
      <3>1. rounds = 1
        <4>1. wallet \notin Ledger
          BY <2>3 DEF Ledger
        <4> QED BY <2>1, <4>1 DEF StageOK, LineOK
      <3>2. LineOK'
        BY <2>1, <2>3, NewLineIs DEF LineOK
      <3> QED BY <2>3, <3>1, <3>2 DEF StageOK
    <2>4. CASE /\ rounds' = rounds + 1 /\ wallet \in Ledger
               /\ \E issuer \in Issuers : verdict.steps = Steps(Facts(wallet, issuer, checkConfig))
               /\ wallet' = Follow(verdict.steps, wallet, checkConfig)
      BY <1>3, <2>1, <2>4, RoundHelps
    <2> QED BY <1>3, <2>2, <2>3, <2>4, RepairIs
  <1> QED BY <1>1, <1>2, <1>3 DEF AccountNext

LEMMA FourRounds == ASSUME MaxRounds >= 4, AccountInv, StageOK PROVE RemediationSuffices
  <1> SUFFICES ASSUME Found, rounds = MaxRounds, ~checkConfig.sac
      PROVE  FailedLabels(verdict.rows) \subseteq (IF checkConfig.domainMode = "strict" THEN {"home domain"} ELSE {})
    BY DEF RemediationSuffices
  <1> DEFINE account == wallet
             cfg == checkConfig
             failing == FailedLabels(verdict.rows)
             need == buildReserveRequirement(account, cfg)
             minimum == toStroops(cfg.minAsset)
  <1>1. account \in Ledger /\ cfg \in Inputs
    BY FoundVerdict
  <1>2. PICK issuer \in Issuers :
           LET f == Facts(account, issuer, cfg) IN failing = Failures(f, cfg)
    BY FoundVerdict
  <1> DEFINE f == Facts(account, issuer, cfg)
  <1>3. /\ f.unauthorized <=> account.line.exists /\ ~account.line.authorized /\ cfg.policy = "fail"
        /\ f.trustline <=> account.line.exists /\ ~f.unauthorized
        /\ f.clawback <=> account.line.exists /\ account.line.clawback /\ cfg.clawbackStrict
        /\ f.reserve <=> account.xlm >= need
        /\ f.balance <=> account.line.balance >= minimum
        /\ f.limit <=> cfg.minLimit \in {"unset", "zero"} \/ account.line.limit >= 2
        /\ f.domainFails <=> cfg.domainMode = "strict" /\ f.domain # "valid"
    <2>1. LineOf(account, cfg) = account.line
      BY <1>1, LineIs
    <2> QED BY <2>1, FactsAre
  <1>4. LineOK /\ HeldOK /\ FilledOK
    BY AccountAssumption DEF StageOK
  <1>5. failing = Failures(f, cfg)
    BY <1>2
  <1> HIDE DEF f, failing, need, minimum
  <1>6. f.trustline /\ f.reserve /\ f.limit /\ f.balance /\ ~f.clawback
    BY <1>3, <1>4 DEF LineOK, HeldOK, FilledOK, need, minimum
  <1>7. failing = IF cfg.domainMode # "off" /\ f.domainFails THEN {"home domain"} ELSE {}
    BY <1>5, <1>6 DEF Failures
  <1>8. f.domainFails => cfg.domainMode = "strict"
    BY <1>3
  <1> QED BY <1>7, <1>8 DEF failing

\* Who follows the remediation gets there within four rounds, whatever the
\* account was and whichever outages came between: the checks of the code and
\* the steps its report lists fit together.
THEOREM RemediationHolds == ASSUME MaxRounds >= 4 PROVE AccountSpec => []RemediationSuffices
  <1>1. AccountInit => AccountInv /\ StageOK
    BY AccountStarts DEF AccountInit, StageOK
  <1>2. AccountInv /\ StageOK /\ [AccountNext]_accountVars => (AccountInv /\ StageOK)'
    BY AccountKeeps, StageKeeps
  <1>3. AccountInv /\ StageOK => RemediationSuffices
    BY FourRounds
  <1> QED BY <1>1, <1>2, <1>3, PTL DEF AccountSpec

-----------------------------------------------------------------------------
(* The Check Run and the board.                                            *)

PublishingSteps == {"start", "check", "check asked", "check written", "board", "add", "set", "over"}
CheckAnswers == {"none", "created", "skipped", "403", "failed", "cancelled"}
BoardAnswers == {"none", "updated", "skipped", "failed"}
ToldType == [check : CheckAnswers, board : BoardAnswers]
ItemType == [on : BOOLEAN, status : {"none", "pass", "fail"}]

\* What holds of one run: what it was told is so, and it sets the status of
\* an item that is there.
RunSound(p) ==
    /\ step[p] # "start" => result[p] \in Results
    /\ step[p] \in {"start", "check", "check asked", "check written"} => told[p].check = "none"
    /\ step[p] = "check written" \/ told[p].check = "created" => \E c \in checkRuns : c.by = p
    /\ told[p].check \in {"skipped", "403"} => \A c \in checkRuns : c.by # p
    /\ told[p].board = "updated" => item.status # "none"
    /\ step[p] = "set" => item.on

\* A Check Run says what the result of its run says, which no longer changes.
CheckSound(c) ==
    /\ c.by \in Publishers /\ step[c.by] \notin {"start", "check", "check asked"}
    /\ c.conclusion = determineCheckConclusion(result[c.by])
    /\ c.annotations = Annotations(result[c.by])

\* A status on the board is the verdict of a run that is over.
ItemSound ==
    item.status # "none" =>
        /\ setter \in Publishers /\ step[setter] = "over" /\ item.on
        /\ item.status = Verdict(result[setter])

ChannelsInv ==
    /\ step \in [Publishers -> PublishingSteps]
    /\ result \in [Publishers -> Results \cup {NoResult}]
    /\ told \in [Publishers -> ToldType]
    /\ item \in ItemType
    /\ \A p \in Publishers : RunSound(p)
    /\ \A c \in checkRuns : CheckSound(c)
    /\ ItemSound

LEMMA GotoIs ==
    ASSUME NEW p \in Publishers, NEW to \in PublishingSteps, step \in [Publishers -> PublishingSteps], Goto(p, to)
    PROVE  /\ step' \in [Publishers -> PublishingSteps]
           /\ \A q \in Publishers : step'[q] = IF q = p THEN to ELSE step[q]
  BY DEF Goto

LEMMA TellCheckIs ==
    ASSUME NEW p \in Publishers, told \in [Publishers -> ToldType], NEW a \in CheckAnswers, TellCheck(p, a)
    PROVE  /\ told' \in [Publishers -> ToldType]
           /\ told'[p].check = a /\ told'[p].board = told[p].board
           /\ \A q \in Publishers \ {p} : told'[q] = told[q]
  <1>1. told' = [told EXCEPT ![p] = [told[p] EXCEPT !.check = a]]
    BY DEF TellCheck
  <1>2. told[p] \in ToldType
    OBVIOUS
  <1>3. [told[p] EXCEPT !.check = a] = [check |-> a, board |-> told[p].board]
    BY <1>2 DEF ToldType
  <1>4. [check |-> a, board |-> told[p].board] \in ToldType
    BY <1>2 DEF ToldType
  <1> QED BY <1>1, <1>3, <1>4

LEMMA TellBoardIs ==
    ASSUME NEW p \in Publishers, told \in [Publishers -> ToldType], NEW a \in BoardAnswers, TellBoard(p, a)
    PROVE  /\ told' \in [Publishers -> ToldType]
           /\ told'[p].check = told[p].check /\ told'[p].board = a
           /\ \A q \in Publishers \ {p} : told'[q] = told[q]
  <1>1. told' = [told EXCEPT ![p] = [told[p] EXCEPT !.board = a]]
    BY DEF TellBoard
  <1>2. told[p] \in ToldType
    OBVIOUS
  <1>3. [told[p] EXCEPT !.board = a] = [check |-> told[p].check, board |-> a]
    BY <1>2 DEF ToldType
  <1>4. [check |-> told[p].check, board |-> a] \in ToldType
    BY <1>2 DEF ToldType
  <1> QED BY <1>1, <1>3, <1>4

\* A step of run p after its result is known that writes no Check Run, and
\* takes neither the item nor its status off the board.
LEMMA ChannelStep ==
    ASSUME ChannelsInv, NEW p \in Publishers, NEW to \in PublishingSteps \ {"start", "check", "check asked"},
           Goto(p, to), step[p] # "start",
           told' \in [Publishers -> ToldType], \A q \in Publishers \ {p} : told'[q] = told[q],
           UNCHANGED <<result, checkRuns>>,
           item' \in ItemType, item.on => item'.on, item.status # "none" => item'.status # "none",
           RunSound(p)',
           ItemSound'
    PROVE  ChannelsInv'
  <1>1. /\ step' \in [Publishers -> PublishingSteps]
        /\ \A q \in Publishers : step'[q] = IF q = p THEN to ELSE step[q]
    BY GotoIs DEF ChannelsInv
  <1>2. ASSUME NEW q \in Publishers \ {p} PROVE RunSound(q)'
    <2>1. RunSound(q) /\ step'[q] = step[q] /\ told'[q] = told[q] /\ result'[q] = result[q] /\ checkRuns' = checkRuns
      BY <1>1 DEF ChannelsInv
    <2> QED BY <2>1 DEF RunSound
  <1>3. \A c \in checkRuns' : CheckSound(c)'
    BY <1>1 DEF ChannelsInv, CheckSound
  <1> QED BY <1>1, <1>2, <1>3 DEF ChannelsInv

\* The status on the board is that of another run than one that is not over.
LEMMA ItemStays ==
    ASSUME ChannelsInv, NEW p \in Publishers, NEW to \in PublishingSteps, Goto(p, to), step[p] # "over",
           UNCHANGED <<result, setter>>, item'.status = item.status, item.on => item'.on
    PROVE  ItemSound'
  <1>1. \A q \in Publishers : step'[q] = IF q = p THEN to ELSE step[q]
    BY GotoIs DEF ChannelsInv
  <1> QED BY <1>1 DEF ChannelsInv, ItemSound

\* Before its Check Run is written, a run has none and has been told nothing.
LEMMA NothingYet ==
    ASSUME ChannelsInv, NEW p \in Publishers, step[p] \in {"check", "check asked"}
    PROVE  told[p].check = "none" /\ \A c \in checkRuns : c.by # p
  <1>1. RunSound(p)
    BY DEF ChannelsInv
  <1>2. told[p].check = "none"
    BY <1>1 DEF RunSound
  <1>3. ASSUME NEW c \in checkRuns PROVE c.by # p
    <2>1. CheckSound(c)
      BY DEF ChannelsInv
    <2>2. step[c.by] \notin {"start", "check", "check asked"}
      BY <2>1 DEF CheckSound
    <2> QED BY <2>2
  <1> QED BY <1>2, <1>3

LEMMA ChannelsKeep == ChannelsInv /\ [PublishingNext]_publishingVars => ChannelsInv'
  <1> SUFFICES ASSUME ChannelsInv, [PublishingNext]_publishingVars PROVE ChannelsInv'
    OBVIOUS
  <1>1. ASSUME NEW p \in Publishers, Publish(p) PROVE ChannelsInv'
    <2>1. PICK r \in Results, to \in {"check", "board"} :
            result' = [result EXCEPT ![p] = r] /\ Goto(p, to)
      BY <1>1 DEF Publish
    <2>2. step[p] = "start" /\ UNCHANGED <<checkRuns, item, told, setter>>
      BY <1>1 DEF Publish
    <2>3. /\ step' \in [Publishers -> PublishingSteps] /\ result' \in [Publishers -> Results \cup {NoResult}]
          /\ \A q \in Publishers : step'[q] = IF q = p THEN to ELSE step[q]
          /\ \A q \in Publishers : result'[q] = IF q = p THEN r ELSE result[q]
      <3>1. to \in PublishingSteps
        BY DEF PublishingSteps
      <3>2. step' \in [Publishers -> PublishingSteps] /\ \A q \in Publishers : step'[q] = IF q = p THEN to ELSE step[q]
        BY <2>1, <3>1, GotoIs DEF ChannelsInv
      <3>3. result' \in [Publishers -> Results \cup {NoResult}] /\ \A q \in Publishers : result'[q] = IF q = p THEN r ELSE result[q]
        BY <2>1 DEF ChannelsInv
      <3> QED BY <3>2, <3>3
    <2>4. ASSUME NEW q \in Publishers PROVE RunSound(q)'
      <3>1. RunSound(q) /\ told'[q] = told[q] /\ checkRuns' = checkRuns /\ item' = item
        BY <2>2 DEF ChannelsInv
      <3>2. CASE q = p
        <4>1. told[p].check = "none"
          BY <2>2, <3>1, <3>2 DEF RunSound
        <4>2. step'[p] = to /\ result'[p] \in Results
          BY <2>3
        <4> QED BY <3>1, <3>2, <4>1, <4>2 DEF RunSound
      <3>3. CASE q # p
        <4>1. step'[q] = step[q] /\ result'[q] = result[q]
          BY <2>3, <3>3
        <4> QED BY <3>1, <4>1 DEF RunSound
      <3> QED BY <3>2, <3>3
    <2>5. \A c \in checkRuns' : CheckSound(c)'
      BY <2>2, <2>3 DEF ChannelsInv, CheckSound
    <2>6. ItemSound'
      BY <2>2, <2>3 DEF ChannelsInv, ItemSound
    <2> QED BY <2>2, <2>3, <2>4, <2>5, <2>6 DEF ChannelsInv
  <1>2. ASSUME NEW p \in Publishers, RequestCheck(p) PROVE ChannelsInv'
    <2>1. step[p] = "check" /\ UNCHANGED <<result, checkRuns, item, setter>>
      BY <1>2 DEF RequestCheck
    <2>2. told[p].check = "none" /\ \A c \in checkRuns : c.by # p
      BY <2>1, NothingYet
    <2>3. CASE Goto(p, "check asked") /\ UNCHANGED told
      <3>1. /\ step' \in [Publishers -> PublishingSteps]
            /\ \A q \in Publishers : step'[q] = IF q = p THEN "check asked" ELSE step[q]
        BY <2>3, GotoIs DEF ChannelsInv, PublishingSteps
      <3>2. ASSUME NEW q \in Publishers PROVE RunSound(q)'
        <4>1. /\ RunSound(q) /\ told'[q] = told[q] /\ result'[q] = result[q]
              /\ checkRuns' = checkRuns /\ item' = item
          BY <2>1, <2>3 DEF ChannelsInv
        <4>2. step'[q] = step[q] \/ (step[q] = "check" /\ step'[q] = "check asked")
          <5>1. CASE q = p
            BY <2>1, <3>1, <5>1
          <5>2. CASE q # p
            BY <3>1, <5>2
          <5> QED BY <5>1, <5>2
        <4> QED BY <4>1, <4>2 DEF RunSound
      <3>3. \A c \in checkRuns' : CheckSound(c)'
        BY <2>1, <2>2, <3>1 DEF ChannelsInv, CheckSound
      <3>4. ItemSound'
        BY <2>1, <3>1 DEF ChannelsInv, ItemSound
      <3> QED BY <2>1, <2>3, <3>1, <3>2, <3>3, <3>4 DEF ChannelsInv
    <2>4. ASSUME NEW a \in {"cancelled", "skipped"}, TellCheck(p, a), Goto(p, "board") PROVE ChannelsInv'
      <3>1. a \in CheckAnswers /\ "board" \in PublishingSteps \ {"start", "check", "check asked"}
        BY DEF CheckAnswers, PublishingSteps
      <3>2. /\ told' \in [Publishers -> ToldType] /\ told'[p].check = a /\ told'[p].board = told[p].board
            /\ \A q \in Publishers \ {p} : told'[q] = told[q]
        BY <2>4, <3>1, TellCheckIs DEF ChannelsInv
      <3>3. step'[p] = "board"
        BY <2>4, <3>1, GotoIs DEF ChannelsInv
      <3>4. RunSound(p)'
        BY <2>1, <2>2, <3>2, <3>3 DEF ChannelsInv, RunSound
      <3>5. ItemSound'
        BY <2>1, <2>4, <3>1, ItemStays
      <3>6. item' \in ItemType
        BY <2>1 DEF ChannelsInv
      <3> QED BY <2>1, <2>4, <3>1, <3>2, <3>4, <3>5, <3>6, ChannelStep
    <2> QED BY <1>2, <2>3, <2>4 DEF RequestCheck
  <1>3. ASSUME NEW p \in Publishers, WriteCheck(p) PROVE ChannelsInv'
    <2>1. step[p] = "check asked" /\ UNCHANGED <<result, item, setter>>
      BY <1>3 DEF WriteCheck
    <2>2. told[p].check = "none" /\ \A c \in checkRuns : c.by # p
      BY <2>1, NothingYet
    <2> DEFINE new == [by |-> p, conclusion |-> determineCheckConclusion(result[p]), annotations |-> Annotations(result[p])]
    <2>3. CASE checkRuns' = checkRuns \cup {new} /\ Goto(p, "check written") /\ UNCHANGED told
      <3>1. /\ new.by = p /\ new.conclusion = determineCheckConclusion(result[p])
            /\ new.annotations = Annotations(result[p])
        OBVIOUS
      <3> HIDE DEF new
      <3>2. /\ step' \in [Publishers -> PublishingSteps]
            /\ \A q \in Publishers : step'[q] = IF q = p THEN "check written" ELSE step[q]
        BY <2>3, GotoIs DEF ChannelsInv, PublishingSteps
      <3>3. ASSUME NEW q \in Publishers PROVE RunSound(q)'
        <4>0. RunSound(q) /\ told'[q] = told[q] /\ result'[q] = result[q] /\ item' = item
          BY <2>1, <2>3 DEF ChannelsInv
        <4>1. CASE q = p
          <5>1. step'[q] = "check written" /\ new \in checkRuns' /\ new.by = q /\ told[q].check = "none"
            BY <2>2, <2>3, <3>1, <3>2, <4>1
          <5>2. step[q] = "check asked"
            BY <2>1, <4>1
          <5> QED BY <4>0, <5>1, <5>2 DEF RunSound
        <4>2. CASE q # p
          <5>1. step'[q] = step[q]
            BY <3>2, <4>2
          <5>2. \A c \in checkRuns' : c \in checkRuns \/ c.by # q
            BY <2>3, <3>1, <4>2
          <5>3. checkRuns \subseteq checkRuns'
            BY <2>3
          <5> QED BY <4>0, <5>1, <5>2, <5>3 DEF RunSound
        <4> QED BY <4>1, <4>2
      <3>4. ASSUME NEW c \in checkRuns' PROVE CheckSound(c)'
        <4>1. CASE c = new
          BY <2>1, <3>1, <3>2, <4>1 DEF CheckSound
        <4>2. CASE c \in checkRuns
          <5>1. CheckSound(c)
            BY <4>2 DEF ChannelsInv
          <5>2. step'[c.by] = step[c.by] \/ step'[c.by] = "check written"
            BY <3>2, <5>1 DEF CheckSound
          <5> QED BY <2>1, <5>1, <5>2 DEF CheckSound
        <4> QED BY <2>3, <4>1, <4>2
      <3>5. ItemSound'
        BY <2>1, <3>2 DEF ChannelsInv, ItemSound
      <3> QED BY <2>1, <2>3, <3>2, <3>3, <3>4, <3>5 DEF ChannelsInv
    <2>4. ASSUME NEW a \in {"403", "failed"}, TellCheck(p, a), Goto(p, "board"), UNCHANGED checkRuns PROVE ChannelsInv'
      <3>1. a \in CheckAnswers /\ "board" \in PublishingSteps \ {"start", "check", "check asked"}
        BY DEF CheckAnswers, PublishingSteps
      <3>2. /\ told' \in [Publishers -> ToldType] /\ told'[p].check = a /\ told'[p].board = told[p].board
            /\ \A q \in Publishers \ {p} : told'[q] = told[q]
        BY <2>4, <3>1, TellCheckIs DEF ChannelsInv
      <3>3. step'[p] = "board"
        BY <2>4, <3>1, GotoIs DEF ChannelsInv
      <3>4. RunSound(p)'
        BY <2>1, <2>2, <2>4, <3>2, <3>3 DEF ChannelsInv, RunSound
      <3>5. ItemSound'
        BY <2>1, <2>4, <3>1, ItemStays
      <3>6. item' \in ItemType
        BY <2>1 DEF ChannelsInv
      <3> QED BY <2>1, <2>4, <3>1, <3>2, <3>4, <3>5, <3>6, ChannelStep
    <2> QED BY <1>3, <2>3, <2>4 DEF WriteCheck
  <1>4. ASSUME NEW p \in Publishers, AnswerCheck(p) PROVE ChannelsInv'
    <2>1. /\ step[p] \in {"check asked", "check written"} /\ Goto(p, "board")
          /\ UNCHANGED <<result, checkRuns, item, setter>>
      BY <1>4 DEF AnswerCheck
    <2>2. PICK a \in {"created", "failed", "cancelled"} : TellCheck(p, a) /\ (a = "created" => step[p] = "check written")
      BY <1>4 DEF AnswerCheck
    <2>3. a \in CheckAnswers /\ "board" \in PublishingSteps \ {"start", "check", "check asked"}
      BY DEF CheckAnswers, PublishingSteps
    <2>4. /\ told' \in [Publishers -> ToldType] /\ told'[p].check = a /\ told'[p].board = told[p].board
          /\ \A q \in Publishers \ {p} : told'[q] = told[q]
      BY <2>2, <2>3, TellCheckIs DEF ChannelsInv
    <2>5. step'[p] = "board"
      BY <2>1, <2>3, GotoIs DEF ChannelsInv
    <2>6. RunSound(p)'
      BY <2>1, <2>2, <2>4, <2>5 DEF ChannelsInv, RunSound
    <2>7. ItemSound'
      BY <2>1, <2>3, ItemStays
    <2>8. item' \in ItemType
      BY <2>1 DEF ChannelsInv
    <2> QED BY <2>1, <2>3, <2>4, <2>6, <2>7, <2>8, ChannelStep
  <1>5. ASSUME NEW p \in Publishers, ReadFields(p) \/ AddItem(p) PROVE ChannelsInv'
    <2>1. step[p] \in {"board", "add"} /\ UNCHANGED <<result, checkRuns, setter>>
      BY <1>5 DEF ReadFields, AddItem
    <2>2. /\ item' \in ItemType /\ item'.status = item.status /\ (item.on => item'.on)
          /\ UNCHANGED item \/ item'.on
      <3>1. CASE UNCHANGED item
        BY <3>1 DEF ChannelsInv
      <3>2. CASE item' = [item EXCEPT !.on = TRUE]
        BY <3>2 DEF ChannelsInv, ItemType
      <3> QED BY <1>5, <3>1, <3>2 DEF ReadFields, AddItem
    <2>3. CASE \E how \in {"skipped", "failed"} : Leave(p, how)
      <3>1. PICK how \in {"skipped", "failed"} : TellBoard(p, how) /\ Goto(p, "over")
        BY <2>3 DEF Leave
      <3>2. how \in BoardAnswers /\ "over" \in PublishingSteps \ {"start", "check", "check asked"}
        BY DEF BoardAnswers, PublishingSteps
      <3>3. /\ told' \in [Publishers -> ToldType] /\ told'[p].check = told[p].check /\ told'[p].board = how
            /\ \A q \in Publishers \ {p} : told'[q] = told[q]
        BY <3>1, <3>2, TellBoardIs DEF ChannelsInv
      <3>4. step'[p] = "over"
        BY <3>1, <3>2, GotoIs DEF ChannelsInv
      <3>5. RunSound(p)'
        BY <2>1, <3>3, <3>4 DEF ChannelsInv, RunSound
      <3>6. ItemSound'
        BY <2>1, <2>2, <3>1, <3>2, ItemStays
      <3> QED BY <2>1, <2>2, <3>1, <3>2, <3>3, <3>5, <3>6, ChannelStep
    <2>4. CASE UNCHANGED told /\ \/ Goto(p, "add")
                                 \/ Goto(p, "set") /\ item'.on
      <3>1. PICK to \in {"add", "set"} : Goto(p, to) /\ (to = "set" => item'.on)
        BY <2>4
      <3>2. to \in PublishingSteps \ {"start", "check", "check asked"}
        BY DEF PublishingSteps
      <3>3. step'[p] = to
        BY <3>1, <3>2, GotoIs DEF ChannelsInv
      <3>4. RunSound(p)'
        BY <2>1, <2>2, <2>4, <3>1, <3>3 DEF ChannelsInv, RunSound
      <3>5. ItemSound'
        BY <2>1, <2>2, <3>1, <3>2, ItemStays
      <3>6. told' \in [Publishers -> ToldType] /\ \A q \in Publishers \ {p} : told'[q] = told[q]
        BY <2>4 DEF ChannelsInv
      <3> QED BY <2>1, <2>2, <3>1, <3>2, <3>4, <3>5, <3>6, ChannelStep
    <2>5. CASE ReadFields(p)
      BY <2>3, <2>4, <2>5 DEF ReadFields
    <2>6. CASE AddItem(p)
      <3>1. item' = [item EXCEPT !.on = TRUE] => item'.on
        BY DEF ChannelsInv, ItemType
      <3> QED BY <2>3, <2>4, <2>6, <3>1 DEF AddItem
    <2> QED BY <1>5, <2>5, <2>6
  <1>6. ASSUME NEW p \in Publishers, SetStatus(p) PROVE ChannelsInv'
    <2>1. step[p] = "set" /\ UNCHANGED <<result, checkRuns>> /\ item.on
      BY <1>6 DEF SetStatus, ChannelsInv, RunSound
    <2>2. PICK how \in {"updated", "failed"} : TellBoard(p, how) /\ Goto(p, "over")
      BY <1>6 DEF SetStatus, Leave
    <2>3. "over" \in PublishingSteps \ {"start", "check", "check asked"} /\ how \in BoardAnswers
      BY DEF PublishingSteps, BoardAnswers
    <2>4. /\ told' \in [Publishers -> ToldType] /\ told'[p].check = told[p].check /\ told'[p].board = how
          /\ \A q \in Publishers \ {p} : told'[q] = told[q]
      BY <2>2, <2>3, TellBoardIs DEF ChannelsInv
    <2>5. step'[p] = "over"
      BY <2>2, <2>3, GotoIs DEF ChannelsInv
    <2>6. CASE Leave(p, "failed") /\ UNCHANGED <<item, setter>>
      <3>1. how = "failed"
        <4>1. TellBoard(p, "failed") /\ "failed" \in BoardAnswers
          BY <2>6 DEF Leave, BoardAnswers
        <4>2. told'[p].board = "failed"
          BY <4>1, TellBoardIs DEF ChannelsInv
        <4> QED BY <2>4, <4>2
      <3>2. RunSound(p)'
        BY <2>1, <2>4, <2>5, <2>6, <3>1 DEF ChannelsInv, RunSound
      <3>3. ItemSound'
        BY <2>1, <2>2, <2>3, <2>6, ItemStays
      <3>4. item' \in ItemType
        BY <2>6 DEF ChannelsInv
      <3> QED BY <2>1, <2>2, <2>3, <2>4, <2>6, <3>2, <3>3, <3>4, ChannelStep
    <2>7. CASE item' = [item EXCEPT !.status = Verdict(result[p])] /\ setter' = p
      <3>1. Verdict(result[p]) \in {"pass", "fail"}
        BY DEF Verdict
      <3>2. item' \in ItemType /\ item'.on /\ item'.status = Verdict(result[p]) /\ item'.status # "none"
        BY <2>1, <2>7, <3>1 DEF ChannelsInv, ItemType
      <3>3. RunSound(p)'
        BY <2>1, <2>4, <2>5, <3>2 DEF ChannelsInv, RunSound
      <3>4. ItemSound'
        BY <2>1, <2>5, <2>7, <3>2 DEF ItemSound
      <3> QED BY <2>1, <2>2, <2>3, <2>4, <3>2, <3>3, <3>4, ChannelStep
    <2> QED BY <1>6, <2>6, <2>7 DEF SetStatus
  <1>7. CASE EditBoard \/ UNCHANGED publishingVars \/ \E p \in Publishers : Abort(p)
    <2>1. UNCHANGED <<step, result, checkRuns, item, told, setter>>
      BY <1>7 DEF EditBoard, publishingVars, Abort
    <2> QED BY <2>1 DEF ChannelsInv, RunSound, CheckSound, ItemSound
  <1> QED BY <1>1, <1>2, <1>3, <1>4, <1>5, <1>6, <1>7 DEF PublishingNext

LEMMA AnnotationsAre ==
    ASSUME NEW r \in Results
    PROVE  /\ DOMAIN Annotations(r) \subseteq DOMAIN r.checks
           /\ \A i \in DOMAIN Annotations(r) : Annotations(r)[i].level = Level(r, r.checks[i])
  <1> DEFINE n == Min({Len(r.checks), MaxAnnotations})
             note(i) == [label |-> r.checks[i].label, level |-> Level(r, r.checks[i])]
             notes == [i \in 1..n |-> note(i)]
  <1>1. Len(r.checks) \in Nat /\ DOMAIN r.checks = 1..Len(r.checks) /\ MaxAnnotations \in Nat
    BY PublishingAssumption DEF PublishingAssumption
  <1>2. n \in Nat /\ n <= Len(r.checks)
    BY <1>1 DEF Min
  <1>3. Annotations(r) = notes /\ DOMAIN notes = 1..n
    BY DEF Annotations
  <1> HIDE DEF n
  <1>4. \A i \in 1..n : notes[i].level = Level(r, r.checks[i])
    OBVIOUS
  <1> QED BY <1>1, <1>2, <1>3, <1>4

\* Whichever calls fail, are cancelled or lose their answer, and in whichever
\* order the calls of several runs and the edits of people come: a run is told
\* of its Check Run what is so, the status of the board is that of one run,
\* whose Check Run does not contradict it, and runs that agree leave what they
\* agree on.  For any number of runs, results and boards.
THEOREM ChannelsHold == PublishingSpec => []ChannelsAgree
  <1>1. PublishingInit => ChannelsInv
    <2> SUFFICES ASSUME PublishingInit PROVE ChannelsInv
      OBVIOUS
    <2>1. Untold \in ToldType /\ Untold.check = "none" /\ Untold.board = "none"
      BY DEF Untold, ToldType, CheckAnswers, BoardAnswers
    <2>2. item \in ItemType /\ item.status = "none"
      BY DEF PublishingInit, ItemType
    <2>3. \A p \in Publishers : step[p] = "start" /\ told[p] = Untold
      BY DEF PublishingInit
    <2> QED BY <2>1, <2>2, <2>3 DEF PublishingInit, ChannelsInv, PublishingSteps, RunSound, ItemSound
  <1>2. ChannelsInv => ChannelsAgree
    <2> SUFFICES ASSUME ChannelsInv PROVE ChannelsAgree
      OBVIOUS
    <2>1. ASSUME NEW c \in checkRuns
          PROVE  /\ c.conclusion = "success" <=> Verdict(result[c.by]) = "pass"
                 /\ c.conclusion = "success" => \A i \in DOMAIN c.annotations : c.annotations[i].level # "failure"
      <3> DEFINE r == result[c.by]
      <3>1. r \in Results /\ c.conclusion = determineCheckConclusion(r) /\ c.annotations = Annotations(r)
        BY <2>1 DEF ChannelsInv, CheckSound, RunSound
      <3> HIDE DEF r
      <3>2. c.conclusion = "success" <=> r.valid
        BY <3>1 DEF determineCheckConclusion
      <3>3. r.valid => \A i \in DOMAIN r.checks : Level(r, r.checks[i]) # "failure"
        BY <3>1, PublishingAssumption DEF PublishingAssumption, Level
      <3>4. Verdict(r) = "pass" <=> r.valid
        BY DEF Verdict
      <3> QED BY <3>1, <3>2, <3>3, <3>4, AnnotationsAre DEF r
    <2>2. CheckRunsAsTold
      BY <2>1 DEF ChannelsInv, RunSound, CheckRunsAsTold
    <2>3. BoardMatchesCheckRun
      BY <2>1 DEF ChannelsInv, ItemSound, BoardMatchesCheckRun
    <2>4. AgreeingRunsAgree
      <3> SUFFICES ASSUME Publishers # {},
                          \A p \in Publishers : told[p] = [check |-> "created", board |-> "updated"],
                          NEW shown \in {"success", "failure"},
                          \A c \in checkRuns : c.conclusion = shown
          PROVE  item.status # "none" /\ (item.status = "pass" <=> shown = "success")
        BY DEF AgreeingRunsAgree
      <3>0. \A p \in Publishers : RunSound(p) /\ told[p].check = "created" /\ told[p].board = "updated"
        BY DEF ChannelsInv
      <3>1. item.status # "none"
        BY <3>0 DEF RunSound
      <3>2. setter \in Publishers /\ item.status = Verdict(result[setter])
        BY <3>1 DEF ChannelsInv, ItemSound
      <3>3. PICK c \in checkRuns : c.by = setter
        BY <3>0, <3>2 DEF RunSound
      <3> QED BY <2>1, <3>1, <3>2, <3>3
    <2> QED BY <2>2, <2>3, <2>4 DEF ChannelsAgree
  <1> QED BY <1>1, <1>2, ChannelsKeep, PTL DEF PublishingSpec

-----------------------------------------------------------------------------
(* The comparison with the run before.                                     *)

Validated == [owner : Owners, checks : CheckLists, private : BOOLEAN]

\* What is in the archive came of a run; what is compared is a usable artifact
\* of the archive; the API search has looked at every run newer than cursor.
PreviousInv ==
    /\ IsList(archive)
    /\ \A i \in DOMAIN archive : \E run \in Validated : archive[i] \in Uploads(run)
    /\ progress # "idle" => present \in Validated /\ cursor \in 0..Len(archive)
    /\ progress = "search" => previous = NoArtifact
    /\ previous # NoArtifact => \E i \in DOMAIN archive : previous = archive[i] /\ Usable(previous)
    /\ progress # "idle" /\ source = "api" =>
          /\ \A i \in (cursor + 1)..Len(archive) :
                i \in skipped \/ archive[i].kind # "json" \/ archive[i].packed = "deflated"
          /\ previous # NoArtifact => previous = archive[cursor]

LEMMA UploadIs ==
    ASSUME NEW run \in Validated, NEW a \in Uploads(run), Usable(a)
    PROVE  /\ a.address = IF run.private THEN Hashed(run.owner) ELSE Plain(run.owner)
           /\ a.checks = run.checks
           /\ a.private = run.private
  <1>1. PICK how \in {"stored", "deflated"} : a = [buildValidationArtifact(run) EXCEPT !.packed = how]
    BY DEF Uploads, Usable, NoArtifact
  <1> QED BY <1>1 DEF buildValidationArtifact

LEMMA ExtractedIs ==
    ASSUME NEW a
    PROVE  /\ Usable(extractFromZip(a)) => extractFromZip(a) = a /\ a.kind = "json"
           /\ ~Usable(extractFromZip(a)) => a.kind # "json" \/ a.packed = "deflated"
  <1>1. ~Usable(NoArtifact)
    BY DEF Usable, NoArtifact
  <1> QED BY <1>1 DEF extractFromZip, Usable

LEMMA PreviousKeeps == PreviousInv /\ [PreviousNext]_previousVars => PreviousInv'
  <1> SUFFICES ASSUME PreviousInv, [PreviousNext]_previousVars PROVE PreviousInv'
    OBVIOUS
  <1>0. Len(archive) \in Nat /\ DOMAIN archive = 1..Len(archive)
    BY ListGrows DEF PreviousInv
  <1>1. CASE Validate
    <2>1. UNCHANGED archive /\ cursor' = Len(archive) /\ previous' = NoArtifact /\ present' \in Validated
      BY <1>1 DEF Validate, Validated
    <2> QED BY <1>0, <2>1 DEF PreviousInv
  <1>2. CASE Discover
    <2> DEFINE a == extractFromZip(archive[cursor])
    <2>1. /\ progress = "search" /\ source = "api" /\ progress' # "idle"
          /\ UNCHANGED <<archive, present, source>> /\ cursor \in 0..Len(archive)
      BY <1>2 DEF Discover, Ends, PreviousInv
    <2>2. CASE Ends(NoArtifact)
      BY <2>1, <2>2 DEF Ends, PreviousInv
    <2>3. CASE cursor > 0 /\ Usable(a) /\ Ends(a)
      <3>1. a = archive[cursor] /\ cursor \in DOMAIN archive
        BY <1>0, <2>1, <2>3, ExtractedIs
      <3> HIDE DEF a
      <3> QED BY <2>1, <2>3, <3>1 DEF Ends, PreviousInv
    <2>4. CASE /\ cursor > 0 /\ cursor' = cursor - 1 /\ UNCHANGED previous /\ skipped \subseteq skipped'
               /\ ~Usable(a) \/ cursor \in skipped'
      <3>1. cursor \in skipped' \/ archive[cursor].kind # "json" \/ archive[cursor].packed = "deflated"
        BY <2>4, ExtractedIs
      <3>2. \A i \in (cursor' + 1)..Len(archive) : i = cursor \/ i \in (cursor + 1)..Len(archive)
        BY <1>0, <2>1, <2>4
      <3>3. \A i \in (cursor' + 1)..Len(archive) :
               i \in skipped' \/ archive[i].kind # "json" \/ archive[i].packed = "deflated"
        BY <2>1, <2>4, <3>1, <3>2 DEF PreviousInv
      <3>4. previous = NoArtifact
        BY <1>2, <2>1 DEF PreviousInv
      <3>5. cursor' \in 0..Len(archive)
        BY <1>0, <2>1, <2>4
      <3> QED BY <2>1, <2>4, <3>3, <3>4, <3>5 DEF PreviousInv
    <2> QED BY <1>2, <2>2, <2>3, <2>4 DEF Discover
  <1>3. CASE Load
    <2>1. /\ progress = "search" /\ source = "path" /\ progress' = "compared"
          /\ UNCHANGED <<archive, present, source, cursor, skipped>>
      BY <1>3 DEF Load, Ends
    <2>2. PICK a \in {NoArtifact} \cup {archive[i] : i \in DOMAIN archive} :
             previous' = IF Usable(a) THEN a ELSE NoArtifact
      BY <1>3 DEF Load, Ends
    <2>3. previous' # NoArtifact => \E i \in DOMAIN archive : previous' = archive[i] /\ Usable(previous')
      BY <2>2 DEF Usable, NoArtifact
    <2> QED BY <2>1, <2>3 DEF PreviousInv
  <1>4. CASE Upload
    <2>1. progress = "compared" /\ progress' = "idle" /\ previous' = NoArtifact
      BY <1>4 DEF Upload
    <2>2. PICK artifact \in Uploads(present) : archive' = Append(archive, artifact)
      BY <1>4 DEF Upload
    <2>3. /\ IsList(archive') /\ DOMAIN archive' = 1..(Len(archive) + 1)
          /\ \A i \in 1..Len(archive) : archive'[i] = archive[i]
          /\ archive'[Len(archive) + 1] = artifact
      BY <2>2, ListGrows DEF PreviousInv
    <2>4. ASSUME NEW i \in DOMAIN archive' PROVE \E run \in Validated : archive'[i] \in Uploads(run)
      <3>1. CASE i = Len(archive) + 1
        BY <2>1, <2>3, <3>1 DEF PreviousInv
      <3>2. CASE i \in 1..Len(archive)
        BY <1>0, <2>3, <3>2 DEF PreviousInv, Uploads
      <3> QED BY <1>0, <2>3, <3>1, <3>2
    <2> QED BY <2>1, <2>3, <2>4 DEF PreviousInv
  <1>5. CASE UNCHANGED previousVars
    BY <1>5 DEF PreviousInv, previousVars, Uploads
  <1> QED BY <1>1, <1>2, <1>3, <1>4, <1>5 DEF PreviousNext

\* Without a label that stands for two checks the last check of a label is
\* its only one.
LEMMA PriorIs ==
    ASSUME NEW checks \in CheckLists, Distinct(checks)
    PROVE  /\ \A label : Prior(checks, label) \in {"new", "passed", "failed"}
           /\ \A label : Prior(checks, label) = "failed" <=> label \in Failing(checks)
           /\ \A i \in DOMAIN checks : Prior(checks, checks[i].label) = IF checks[i].passed THEN "passed" ELSE "failed"
  <1>1. DOMAIN checks \subseteq Nat
    <2>1. DOMAIN checks = 1..Len(checks) /\ Len(checks) \in Nat
      BY PreviousAssumption DEF PreviousAssumption
    <2> QED BY <2>1
  <1>2. ASSUME NEW i \in DOMAIN checks
        PROVE  Prior(checks, checks[i].label) = IF checks[i].passed THEN "passed" ELSE "failed"
    <2>1. {j \in DOMAIN checks : checks[j].label = checks[i].label} = {i}
      BY DEF Distinct
    <2>2. Max({i}) = i
      BY <1>1 DEF Max
    <2> QED BY <2>1, <2>2 DEF Prior
  <1>3. ASSUME NEW label, label \notin {checks[i].label : i \in DOMAIN checks}
        PROVE  Prior(checks, label) = "new"
    BY <1>3 DEF Prior
  <1>4. ASSUME NEW label
        PROVE  Prior(checks, label) = "failed" <=> label \in Failing(checks)
    <2>1. CASE label \notin {checks[i].label : i \in DOMAIN checks}
      BY <1>3, <2>1 DEF Failing
    <2>2. CASE label \in {checks[i].label : i \in DOMAIN checks}
      <3>1. PICK i \in DOMAIN checks : label = checks[i].label
        BY <2>2
      <3>2. \A j \in DOMAIN checks : checks[j].label = label => j = i
        BY <3>1 DEF Distinct
      <3>3. label \in Failing(checks) <=> ~checks[i].passed
        BY <3>1, <3>2 DEF Failing
      <3> QED BY <1>2, <3>1, <3>3
    <2> QED BY <2>1, <2>2
  <1>5. \A label : Prior(checks, label) \in {"new", "passed", "failed"}
    BY DEF Prior
  <1> QED BY <1>2, <1>4, <1>5

LEMMA DeltaIs ==
    ASSUME NEW before, NEW checks, before # <<>>
    PROVE  LET d == computeValidationDelta(before, checks) IN
           /\ formatDeltaMarkdown(d) = "previously passed, now fail" <=> NewlyFailed(before, checks) # {}
           /\ formatDeltaMarkdown(d) = "newly passing, no new failures" =>
                 NewlyFailed(before, checks) = {} /\ NewlyPassed(before, checks) # {}
           /\ NewlyFailed(before, checks) = {} /\ NewlyPassed(before, checks) = {} =>
                 /\ formatDeltaMarkdown(d) = "none"
                 /\ d.unchanged = Len(checks) - Cardinality({}) - Cardinality({})
  <1> DEFINE d == computeValidationDelta(before, checks)
  <1>1. /\ d.regressed <=> NewlyFailed(before, checks) # {}
        /\ d.improved <=> NewlyPassed(before, checks) # {}
        /\ d.unchanged = Len(checks) - Cardinality(NewlyPassed(before, checks)) - Cardinality(NewlyFailed(before, checks))
    BY DEF computeValidationDelta
  <1> HIDE DEF d
  <1>2. formatDeltaMarkdown(d) = "previously passed, now fail" <=> d.regressed
    BY DEF formatDeltaMarkdown
  <1>3. formatDeltaMarkdown(d) = "newly passing, no new failures" => ~d.regressed /\ d.improved
    BY DEF formatDeltaMarkdown
  <1>4. ~d.regressed /\ ~d.improved => formatDeltaMarkdown(d) = "none"
    BY DEF formatDeltaMarkdown
  <1>5. /\ formatDeltaMarkdown(d) = "previously passed, now fail" <=> NewlyFailed(before, checks) # {}
        /\ formatDeltaMarkdown(d) = "newly passing, no new failures" =>
              NewlyFailed(before, checks) = {} /\ NewlyPassed(before, checks) # {}
        /\ NewlyFailed(before, checks) = {} /\ NewlyPassed(before, checks) = {} =>
              /\ formatDeltaMarkdown(d) = "none"
              /\ d.unchanged = Len(checks) - Cardinality({}) - Cardinality({})
    BY <1>1, <1>2, <1>3, <1>4
  <1> QED BY <1>5 DEF d

\* What passes and what fails among distinct labels: a label that is there
\* does one of the two.
LEMMA PassOrFail ==
    ASSUME NEW checks \in CheckLists, Distinct(checks)
    PROVE  /\ Passing(checks) \cap Failing(checks) = {}
           /\ Labels(checks) = Passing(checks) \cup Failing(checks)
           /\ \A label : Prior(checks, label) = "passed" <=> label \in Passing(checks)
  <1>1. Passing(checks) \cap Failing(checks) = {} /\ Labels(checks) = Passing(checks) \cup Failing(checks)
    BY DEF Passing, Failing, Labels, Distinct
  <1>2. ASSUME NEW label PROVE Prior(checks, label) = "passed" <=> label \in Passing(checks)
    <2>1. CASE label \notin Labels(checks)
      <3>1. Prior(checks, label) = "new"
        BY <2>1 DEF Prior, Labels
      <3> QED BY <1>1, <2>1, <3>1
    <2>2. CASE label \in Labels(checks)
      <3>1. PICK i \in DOMAIN checks : label = checks[i].label
        BY <2>2 DEF Labels
      <3>2. \A j \in DOMAIN checks : checks[j].label = label => j = i
        BY <3>1 DEF Distinct
      <3>3. label \in Passing(checks) <=> checks[i].passed
        BY <3>1, <3>2 DEF Passing
      <3>4. Prior(checks, label) = IF checks[i].passed THEN "passed" ELSE "failed"
        BY <3>1, PriorIs
      <3> QED BY <3>3, <3>4
    <2> QED BY <2>1, <2>2
  <1> QED BY <1>1, <1>2

LEMMA DeltasAreHonest == PreviousInv => DeltaIsHonest
  <1> SUFFICES ASSUME PreviousInv, Compared, Distinct(present.checks), Distinct(previous.checks), previous.checks # <<>>
      PROVE  DeltaIsHonest
    BY DEF DeltaIsHonest
  <1> DEFINE now == present.checks
             before == previous.checks
             d == computeValidationDelta(before, now)
             sentence == formatDeltaMarkdown(d)
  <1>1. now \in CheckLists
    BY DEF PreviousInv, Compared, Validated
  <1>2. before \in CheckLists
    <2>1. PICK run \in Validated : previous \in Uploads(run) /\ Usable(previous)
      BY DEF PreviousInv, Compared
    <2>2. before = run.checks
      BY <2>1, UploadIs
    <2> QED BY <2>1, <2>2 DEF Validated
  <1>3. Distinct(now) /\ Distinct(before) /\ before # <<>>
    OBVIOUS
  <1> HIDE DEF now, before
  <1>4. NewlyFailed(before, now) = {} <=> Failing(now) \subseteq Failing(before)
    <2>1. \A i \in DOMAIN now : Prior(before, now[i].label) \in {"new", "passed"} <=> now[i].label \notin Failing(before)
      BY <1>2, <1>3, PriorIs
    <2> QED BY <2>1 DEF NewlyFailed, Failing
  <1>5. NewlyPassed(before, now) = {} <=> Passing(now) \subseteq Passing(before)
    <2>1. \A i \in DOMAIN now : Prior(before, now[i].label) \in {"new", "failed"} <=> now[i].label \notin Passing(before)
      <3>1. \A i \in DOMAIN now : Prior(before, now[i].label) \in {"new", "passed", "failed"}
        BY <1>2, <1>3, PriorIs
      <3>2. \A i \in DOMAIN now : Prior(before, now[i].label) = "passed" <=> now[i].label \in Passing(before)
        BY <1>2, <1>3, PassOrFail
      <3> QED BY <3>1, <3>2
    <2> QED BY <2>1 DEF NewlyPassed, Passing
  <1>6. ASSUME now = before PROVE NewlyFailed(before, now) = {} /\ NewlyPassed(before, now) = {}
    BY <1>4, <1>5, <1>6
  <1>7. Len(now) - Cardinality({}) - Cardinality({}) = Len(now)
    <2>1. Cardinality({}) = 0
      BY FS_EmptySet
    <2>2. Len(now) \in Nat
      BY <1>1, PreviousAssumption DEF PreviousAssumption
    <2> QED BY <2>1, <2>2
  <1>8. /\ sentence = "previously passed, now fail" <=> ~(Failing(now) \subseteq Failing(before))
        /\ sentence = "newly passing, no new failures" =>
              Failing(now) \subseteq Failing(before) /\ ~(Passing(now) \subseteq Passing(before))
        /\ now = before => sentence = "none" /\ d.unchanged = Len(now)
    BY <1>3, <1>4, <1>5, <1>6, <1>7, DeltaIs
  <1>9. /\ Passing(before) \cap Failing(before) = {}
        /\ Labels(before) = Passing(before) \cup Failing(before)
    BY <1>2, <1>3, PassOrFail
  <1> HIDE DEF d, sentence
  <1>10. /\ Failing(now) \cap Passing(before) # {} => ~(Failing(now) \subseteq Failing(before))
         /\ ~(Failing(now) \subseteq Failing(before)) =>
               Failing(now) \cap Passing(before) # {} \/ ~(Failing(now) \subseteq Labels(before))
    BY <1>9
  <1>11. /\ sentence = "previously passed, now fail" <=> ~(Failing(now) \subseteq Failing(before))
         /\ Failing(now) \cap Passing(before) # {} => sentence = "previously passed, now fail"
         /\ sentence = "previously passed, now fail" =>
               Failing(now) \cap Passing(before) # {} \/ ~(Failing(now) \subseteq Labels(before))
         /\ sentence = "newly passing, no new failures" =>
               /\ Failing(now) \subseteq Failing(before)
               /\ ~(Passing(now) \subseteq Passing(before))
         /\ now = before => sentence = "none" /\ d.unchanged = Len(now)
    BY <1>8, <1>10
  <1> QED BY <1>11 DEF sentence, d, now, before, DeltaIsHonest

LEMMA WarningsAreRight == PreviousInv => AddressWarning
  <1> SUFFICES ASSUME PreviousInv, Compared PROVE AddressWarning
    BY DEF AddressWarning
  <1>1. PICK run \in Validated : previous \in Uploads(run) /\ Usable(previous)
    BY DEF PreviousInv, Compared
  <1>2. /\ previous.address = IF run.private THEN Hashed(run.owner) ELSE Plain(run.owner)
        /\ previous.private = run.private
    BY <1>1, UploadIs
  <1>3. previous.address.of = run.owner /\ (previous.address = Plain(present.owner) <=> ~run.private /\ run.owner = present.owner)
    BY <1>2 DEF Hashed, Plain
  <1>4. detectAddressChange(present, previous) <=>
           IF present.private THEN run.owner # present.owner ELSE run.private \/ run.owner # present.owner
    BY <1>3 DEF detectAddressChange, Compared
  <1> QED BY <1>2, <1>3, <1>4 DEF AddressWarning

\* Whatever was uploaded, lost, edited or compressed since, and whichever
\* calls fail, what discoverPreviousValidationArtifact finds is the newest
\* artifact that could be read; no check that turned bad is passed over, and
\* the sentence about it is true unless a failing check is new; the warning
\* comes for another account.  For any accounts, lists of checks and number of
\* runs.
THEOREM ComparisonsHold == PreviousSpec => []ComparisonIsHonest
  <1>1. PreviousInit => PreviousInv
    BY EmptyList DEF PreviousInit, PreviousInv
  <1>2. PreviousInv => NewestIsCompared
    <2> SUFFICES ASSUME PreviousInv, Compared, source = "api"
        PROVE /\ previous = archive[cursor] /\ previous.kind = "json"
              /\ \A i \in (cursor + 1)..Len(archive) :
                    i \in skipped \/ archive[i].kind # "json" \/ archive[i].packed = "deflated"
      BY DEF NewestIsCompared
    <2>1. progress # "idle" /\ previous # NoArtifact
      BY DEF Compared
    <2> QED BY <2>1 DEF PreviousInv, Usable
  <1>3. PreviousInv => ComparisonIsHonest
    BY <1>2, DeltasAreHonest, WarningsAreRight DEF ComparisonIsHonest
  <1> QED BY <1>1, <1>3, PreviousKeeps, PTL DEF PreviousSpec

-----------------------------------------------------------------------------
(* The text of the report.                                                 *)

\* What the parts of a report can be.
SectionNames ==
    {"marker", "header", "results", "authorization", "circuit", "checklist", "freshness", "passphrase", "delta",
     "gate", "balances", "assets", "setup", "links", "sep7", "sep10", "sponsorship",
     "config", "outputs", "metrics", "diagnostics", "template", "footer", "row", "remedyHeading"}
Letters == [part : SectionNames \cup {"remedy", "remedyEnd", "cut", "notice"}, width : {1, 2}, newline : BOOLEAN]
Texts == Seq(Letters)

LEMMA TextIs == ASSUME NEW t \in Texts
    PROVE /\ Len(t) \in Nat /\ DOMAIN t = 1..Len(t)
          /\ \A i \in 1..Len(t) : t[i] \in Letters /\ t[i].width \in {1, 2}
  <1>1. Len(t) \in Nat /\ DOMAIN t = 1..Len(t) /\ \A i \in 1..Len(t) : t[i] \in Letters
    BY LenProperties, ElementOfSeq DEF Texts
  <1> QED BY <1>1 DEF Letters

\* The bytes of a prefix are between its length and twice its length.
LEMMA PrefixIs == ASSUME NEW t, NEW n \in Nat
    PROVE /\ PrefixBytes(t, n) \in Nat /\ n <= PrefixBytes(t, n)
          /\ \A m \in 0..n : PrefixBytes(t, m) <= PrefixBytes(t, n)
          /\ PrefixBytes(t, 0) = 0
          /\ IsFiniteSet({i \in 1..n : t[i].width = 2})
          /\ Cardinality({i \in 1..n : t[i].width = 2}) \in Nat
  <1> DEFINE wide(m) == {i \in 1..m : t[i].width = 2}
  <1>1. ASSUME NEW m \in Nat PROVE IsFiniteSet(wide(m)) /\ Cardinality(wide(m)) \in Nat
    <2>1. IsFiniteSet(1..m)
      BY FS_Interval
    <2>2. wide(m) \in SUBSET (1..m)
      OBVIOUS
    <2>3. IsFiniteSet(wide(m))
      BY <2>1, <2>2, FS_Subset
    <2> QED BY <2>3, FS_CardinalityType
  <1>2. ASSUME NEW m \in 0..n PROVE Cardinality(wide(m)) <= Cardinality(wide(n))
    <2>1. wide(m) \in SUBSET wide(n)
      OBVIOUS
    <2> QED BY <1>1, <2>1, FS_Subset
  <1>3. wide(0) = {}
    OBVIOUS
  <1>4. Cardinality(wide(0)) = 0
    BY <1>3, FS_EmptySet
  <1>5. \A m \in Nat : PrefixBytes(t, m) = m + Cardinality(wide(m))
    BY DEF PrefixBytes
  <1> HIDE DEF wide
  <1>6. /\ PrefixBytes(t, n) \in Nat /\ n <= PrefixBytes(t, n)
        /\ \A m \in 0..n : PrefixBytes(t, m) <= PrefixBytes(t, n)
        /\ PrefixBytes(t, 0) = 0
    BY <1>1, <1>2, <1>4, <1>5
  <1> QED BY <1>1, <1>6 DEF wide

\* They depend on that prefix only.
LEMMA PrefixesAgree == ASSUME NEW s, NEW t, NEW n \in Nat, \A i \in 1..n : s[i] = t[i]
    PROVE PrefixBytes(s, n) = PrefixBytes(t, n)
  <1>1. {i \in 1..n : s[i].width = 2} = {i \in 1..n : t[i].width = 2}
    OBVIOUS
  <1> QED BY <1>1 DEF PrefixBytes

\* And they are its length if no character is wide.
LEMMA NarrowIs == ASSUME NEW t, NEW n \in Nat, \A i \in 1..n : t[i].width = 1
    PROVE PrefixBytes(t, n) = n
  <1>1. {i \in 1..n : t[i].width = 2} = {}
    OBVIOUS
  <1>2. Cardinality({i \in 1..n : t[i].width = 2}) = 0
    BY <1>1, FS_EmptySet
  <1> QED BY <1>2 DEF PrefixBytes

\* Joined texts.
LEMMA Joined == ASSUME NEW a \in Texts, NEW b \in Texts
    PROVE /\ a \o b \in Texts /\ Len(a \o b) = Len(a) + Len(b)
          /\ \A i \in 1..Len(a) : (a \o b)[i] = a[i]
          /\ \A i \in 1..Len(b) : (a \o b)[i + Len(a)] = b[i]
          /\ Parts(a \o b) = Parts(a) \cup Parts(b)
  <1>1. /\ a \o b \in Texts /\ Len(a \o b) = Len(a) + Len(b)
        /\ \A i \in 1..Len(a) + Len(b) : (a \o b)[i] = IF i <= Len(a) THEN a[i] ELSE b[i - Len(a)]
    BY ConcatProperties DEF Texts
  <1>2. Len(a) \in Nat /\ Len(b) \in Nat /\ DOMAIN a = 1..Len(a) /\ DOMAIN b = 1..Len(b)
        /\ DOMAIN (a \o b) = 1..(Len(a) + Len(b))
    BY <1>1, TextIs
  <1>3. /\ \A i \in 1..Len(a) : (a \o b)[i] = a[i]
        /\ \A i \in 1..Len(b) : (a \o b)[i + Len(a)] = b[i]
    BY <1>1, <1>2
  <1>4. ASSUME NEW p \in Parts(a \o b) PROVE p \in Parts(a) \cup Parts(b)
    <2>1. PICK i \in 1..(Len(a) + Len(b)) : p = (a \o b)[i].part
      BY <1>2, <1>4 DEF Parts
    <2>2. CASE i <= Len(a)
      BY <1>2, <1>3, <2>1, <2>2 DEF Parts
    <2>3. CASE ~(i <= Len(a))
      <3>1. i - Len(a) \in 1..Len(b) /\ (a \o b)[i] = b[i - Len(a)]
        BY <1>1, <1>2, <2>3
      <3> QED BY <1>2, <2>1, <3>1 DEF Parts
    <2> QED BY <2>2, <2>3
  <1>5. Parts(a) \subseteq Parts(a \o b)
    <2>1. 1..Len(a) \subseteq 1..(Len(a) + Len(b))
      BY <1>2
    <2> QED BY <1>2, <1>3, <2>1 DEF Parts
  <1>6. ASSUME NEW p \in Parts(b) PROVE p \in Parts(a \o b)
    <2>1. PICK i \in 1..Len(b) : p = b[i].part
      BY <1>2, <1>6 DEF Parts
    <2>2. i + Len(a) \in 1..(Len(a) + Len(b)) /\ (a \o b)[i + Len(a)] = b[i]
      BY <1>2, <1>3
    <2> QED BY <1>2, <2>1, <2>2 DEF Parts
  <1> QED BY <1>1, <1>3, <1>4, <1>5, <1>6

LEMMA BytesAdd == ASSUME NEW a \in Texts, NEW b \in Texts
    PROVE Bytes(a \o b) = Bytes(a) + Bytes(b) /\ Bytes(a) \in Nat /\ Bytes(b) \in Nat
  <1> DEFINE c == a \o b
             la == Len(a)
             lb == Len(b)
             A == {i \in 1..la : a[i].width = 2}
             B == {i \in 1..lb : b[i].width = 2}
             C == {i \in 1..(la + lb) : c[i].width = 2}
             D == {i \in C : i > la}
             f == [i \in B |-> i + la]
  <1>1. /\ Len(c) = la + lb /\ la \in Nat /\ lb \in Nat
        /\ \A i \in 1..la : c[i] = a[i]
        /\ \A i \in 1..lb : c[i + la] = b[i]
    BY Joined, TextIs
  <1> HIDE DEF c, la, lb
  <1>2. IsFiniteSet(A) /\ IsFiniteSet(B) /\ Cardinality(A) \in Nat /\ Cardinality(B) \in Nat
    BY <1>1, PrefixIs
  <1>3. f \in Bijection(B, D)
    <2>1. \A i \in B : i + la \in D
      BY <1>1
    <2>2. \A d \in D : d - la \in B /\ (d - la) + la = d
      <3>1. ASSUME NEW d \in D PROVE d - la \in 1..lb /\ (d - la) + la = d
        BY <1>1
      <3>2. ASSUME NEW d \in D PROVE c[d] = b[d - la]
        BY <1>1, <3>1
      <3> QED BY <3>1, <3>2
    <2>3. f \in [B -> D]
      BY <2>1
    <2>4. \A i, j \in B : f[i] = f[j] => i = j
      BY <1>1
    <2>5. \A d \in D : \E i \in B : f[i] = d
      BY <2>2
    <2> QED BY <2>3, <2>4, <2>5 DEF Bijection, Injection, Surjection, IsInjective
  <1>4. IsFiniteSet(D) /\ Cardinality(D) = Cardinality(B)
    BY <1>2, <1>3, FS_Bijection DEF ExistsBijection
  <1>5. C = A \cup D
    BY <1>1
  <1>6. A \cap D = {}
    BY <1>1
  <1>7. Bytes(c) = la + lb + Cardinality(C)
    BY <1>1 DEF Bytes, PrefixBytes
  <1>8. Bytes(a) = la + Cardinality(A) /\ Bytes(b) = lb + Cardinality(B)
    BY DEF Bytes, PrefixBytes, la, lb
  <1> HIDE DEF A, B, C, D
  <1>9. Cardinality(C) = Cardinality(A) + Cardinality(D)
    <2>1. Cardinality(A \cup D) = Cardinality(A) + Cardinality(D) - Cardinality(A \cap D)
      BY <1>2, <1>4, FS_Union
    <2>2. Cardinality(A \cap D) = 0
      BY <1>6, FS_EmptySet
    <2> QED BY <1>2, <1>4, <1>5, <2>1, <2>2
  <1>10. Bytes(c) = Bytes(a) + Bytes(b) /\ Bytes(a) \in Nat /\ Bytes(b) \in Nat
    BY <1>1, <1>2, <1>4, <1>9, <1>7, <1>8
  <1> QED BY <1>10 DEF c

\* A section that is complete stays so among others.
LEMMA StaysComplete == ASSUME NEW a \in Texts, NEW b \in Texts, NEW p
    PROVE Complete(p, a) \/ Complete(p, b) => Complete(p, a \o b)
  <1>1. /\ DOMAIN a = 1..Len(a) /\ DOMAIN b = 1..Len(b) /\ Len(a) \in Nat /\ Len(b) \in Nat
        /\ DOMAIN (a \o b) = 1..(Len(a) + Len(b))
        /\ \A i \in 1..Len(a) : (a \o b)[i] = a[i]
        /\ \A i \in 1..Len(b) : (a \o b)[i + Len(a)] = b[i]
    BY Joined, TextIs
  <1>2. /\ \A i \in DOMAIN a : i \in DOMAIN (a \o b)
        /\ \A i \in DOMAIN b : i + Len(a) \in DOMAIN (a \o b)
    BY <1>1
  <1> QED BY <1>1, <1>2 DEF Complete

-----------------------------------------------------------------------------
(* The sections.                                                           *)

\* Each name is a character and a line end.
LEMMA TextOfIs == ASSUME NEW names \in Seq(SectionNames)
    PROVE /\ TextOf(names) \in Texts
          /\ Len(TextOf(names)) = 2 * Len(names)
          /\ Bytes(TextOf(names)) = 2 * Len(names)
          /\ \A k \in 1..Len(names) : TextOf(names)[2 * k - 1] = Char(names[k], 1) /\ TextOf(names)[2 * k] = Newline(names[k])
          /\ \A i \in 1..2 * Len(names) : TextOf(names)[i].width = 1 /\ TextOf(names)[i].part \in SectionNames
  <1> DEFINE n == Len(names)
             t == TextOf(names)
  <1>1. n \in Nat /\ 2 * n \in Nat /\ \A k \in 1..n : names[k] \in SectionNames
    BY LenProperties, ElementOfSeq
  <1>2. \A i \in 1..2 * n : (i + 1) \div 2 \in 1..n
    BY <1>1
  <1>4. /\ DOMAIN t = 1..2 * n
        /\ \A i \in 1..2 * n : t[i] = IF i % 2 = 1 THEN Char(names[(i + 1) \div 2], 1) ELSE Newline(names[(i + 1) \div 2])
    BY DEF TextOf
  <1> HIDE DEF n, t
  <1>5. ASSUME NEW i \in 1..2 * n PROVE t[i] \in Letters /\ t[i].width = 1 /\ t[i].part \in SectionNames
    <2>1. PICK p \in SectionNames : t[i] = IF i % 2 = 1 THEN Char(p, 1) ELSE Newline(p)
      BY <1>1, <1>2, <1>4
    <2>2. Char(p, 1) \in Letters /\ Newline(p) \in Letters
      BY DEF Letters, Char, Newline
    <2>3. /\ Char(p, 1).width = 1 /\ Newline(p).width = 1
          /\ Char(p, 1).part = p /\ Newline(p).part = p
      BY DEF Char, Newline
    <2> QED BY <2>1, <2>2, <2>3
  <1>6. t \in Seq(Letters) /\ Len(t) = 2 * n
    <2>1. t = [i \in 1..2 * n |-> t[i]]
      BY <1>4 DEF t, TextOf, n
    <2> QED BY <1>1, <1>5, <2>1
  <1>7. Bytes(t) = 2 * n
    BY <1>1, <1>5, <1>6, NarrowIs DEF Bytes
  <1>8. ASSUME NEW k \in 1..n PROVE t[2 * k - 1] = Char(names[k], 1) /\ t[2 * k] = Newline(names[k])
    <2>1. 2 * k - 1 \in 1..2 * n /\ 2 * k \in 1..2 * n
      BY <1>1
    <2>2. (2 * k - 1) % 2 = 1 /\ ((2 * k - 1) + 1) \div 2 = k
      BY <1>1
    <2>3. (2 * k) % 2 = 0 /\ ((2 * k) + 1) \div 2 = k
      BY <1>1
    <2> QED BY <1>4, <2>1, <2>2, <2>3
  <1> QED BY <1>5, <1>6, <1>7, <1>8 DEF n, t, Texts

\* So each is complete, and nothing else is there.
LEMMA NamesAreComplete == ASSUME NEW names \in Seq(SectionNames)
    PROVE /\ Parts(TextOf(names)) \subseteq SectionNames
          /\ \A p \in Parts(TextOf(names)) : Complete(p, TextOf(names))
  <1> DEFINE t == TextOf(names)
             n == Len(names)
  <1>1. /\ n \in Nat /\ DOMAIN t = 1..2 * n
        /\ \A k \in 1..n : t[2 * k - 1] = Char(names[k], 1) /\ t[2 * k] = Newline(names[k])
        /\ \A i \in 1..2 * n : t[i].part \in SectionNames
    BY TextOfIs, TextIs, LenProperties
  <1>2. ASSUME NEW i \in 1..2 * n PROVE t[i].part = names[(i + 1) \div 2] /\ (i + 1) \div 2 \in 1..n
    <2>1. (i + 1) \div 2 \in 1..n
      BY <1>1
    <2>2. t[i] = IF i % 2 = 1 THEN Char(names[(i + 1) \div 2], 1) ELSE Newline(names[(i + 1) \div 2])
      BY DEF TextOf
    <2> QED BY <2>1, <2>2 DEF Char, Newline
  <1> HIDE DEF t, n
  <1>3. ASSUME NEW p \in Parts(t) PROVE Complete(p, t)
    <2>1. PICK i \in 1..2 * n : p = t[i].part
      BY <1>1, <1>3 DEF Parts
    <2>2. PICK k \in 1..n : p = names[k]
      BY <1>2, <2>1
    <2>3. 2 * k - 1 \in DOMAIN t /\ 2 * k \in DOMAIN t
      BY <1>1
    <2> QED BY <1>1, <2>2, <2>3 DEF Complete
  <1>4. Parts(t) \subseteq SectionNames
    BY <1>1 DEF Parts
  <1> QED BY <1>3, <1>4 DEF t

\* The lists of names.
LEMMA NamesJoin == ASSUME NEW a \in Seq(SectionNames), NEW b \in Seq(SectionNames)
    PROVE a \o b \in Seq(SectionNames) /\ Len(a \o b) = Len(a) + Len(b) /\ Len(a) \in Nat /\ Len(b) \in Nat
BY ConcatProperties, LenProperties

LEMMA ShownIs == ASSUME NEW in, NEW name \in SectionNames
    PROVE Shown(in, name) \in Seq(SectionNames) /\ Len(Shown(in, name)) \in {0, 1}
  <1>1. <<name>> \in Seq(SectionNames) /\ Len(<<name>>) = 1 /\ <<>> \in Seq(SectionNames) /\ Len(<<>>) = 0
    OBVIOUS
  <1> QED BY <1>1 DEF Shown

LEMMA OpeningIs == ASSUME NEW in
    PROVE /\ OpeningSections(in) \in Seq(SectionNames)
          /\ Len(OpeningSections(in)) >= 3 /\ Len(OpeningSections(in)) <= 5
          /\ OpeningSections(in)[1] = "marker"
  <1> DEFINE a == <<"marker", "header", "results">>
             b == IF "unauthorized" \in in.flags /\ in.policy # "ignore" THEN <<"authorization">> ELSE <<>>
             c == Shown(in, "circuit")
  <1>1. a \in Seq(SectionNames) /\ Len(a) = 3 /\ a[1] = "marker"
    BY DEF SectionNames
  <1>2. <<"authorization">> \in Seq(SectionNames) /\ Len(<<"authorization">>) = 1
        /\ <<>> \in Seq(SectionNames) /\ Len(<<>>) = 0
    BY DEF SectionNames
  <1>3. b \in Seq(SectionNames) /\ Len(b) \in {0, 1}
    BY <1>2
  <1>4. c \in Seq(SectionNames) /\ Len(c) \in {0, 1}
    BY ShownIs DEF SectionNames
  <1> HIDE DEF a, b, c
  <1>5. a \o b \in Seq(SectionNames) /\ Len(a \o b) = 3 + Len(b)
    BY <1>1, <1>3, NamesJoin
  <1>6. (a \o b)[1] = "marker"
    BY <1>1, <1>3, ConcatProperties
  <1>7. (a \o b) \o c \in Seq(SectionNames) /\ Len((a \o b) \o c) = 3 + Len(b) + Len(c)
    BY <1>4, <1>5, NamesJoin
  <1>8. ((a \o b) \o c)[1] = "marker"
    BY <1>3, <1>4, <1>5, <1>6, ConcatProperties
  <1>9. OpeningSections(in) = (a \o b) \o c
    BY DEF OpeningSections, a, b, c
  <1>10. Len((a \o b) \o c) >= 3 /\ Len((a \o b) \o c) <= 5
    <2>1. \A m, n \in {0, 1} : 3 + m + n >= 3 /\ 3 + m + n <= 5
      OBVIOUS
    <2> QED BY <1>3, <1>4, <1>7, <2>1
  <1> QED BY <1>7, <1>8, <1>9, <1>10

LEMMA RestIs == ASSUME NEW in
    PROVE /\ StateSections(in) \in Seq(SectionNames)
          /\ VerdictSections(in) \in Seq(SectionNames)
          /\ SponsorSections(in) \in Seq(SectionNames)
          /\ ClosingSections(in) \in Seq(SectionNames)
  <1>1. \A name \in SectionNames : Shown(in, name) \in Seq(SectionNames)
    BY ShownIs
  <1>2. ASSUME NEW a \in SectionNames, NEW b \in SectionNames
        PROVE <<a>> \in Seq(SectionNames) /\ <<a, b>> \in Seq(SectionNames) /\ <<>> \in Seq(SectionNames)
    OBVIOUS
  <1>3. StateSections(in) \in Seq(SectionNames)
    <2> DEFINE a == Shown(in, "checklist")
               b == Shown(in, "freshness")
               c == Shown(in, "passphrase")
               d == Shown(in, "delta")
    <2>1. a \in Seq(SectionNames) /\ b \in Seq(SectionNames) /\ c \in Seq(SectionNames) /\ d \in Seq(SectionNames)
      BY <1>1 DEF SectionNames
    <2>2. StateSections(in) = ((a \o b) \o c) \o d
      BY DEF StateSections
    <2> HIDE DEF a, b, c, d
    <2> QED BY <2>1, <2>2, NamesJoin
  <1>4. VerdictSections(in) \in Seq(SectionNames)
    <2> DEFINE a == <<"gate", "balances">>
               b == Shown(in, "assets")
               c == <<"setup", "links">>
               d == IF "privacy" \in in.flags THEN <<>> ELSE Shown(in, "sep7")
               e == Shown(in, "sep10")
    <2>1. a \in Seq(SectionNames) /\ b \in Seq(SectionNames) /\ c \in Seq(SectionNames) /\ e \in Seq(SectionNames)
      BY <1>1, <1>2 DEF SectionNames
    <2>2. d \in Seq(SectionNames)
      BY <1>1, <1>2 DEF SectionNames
    <2>3. VerdictSections(in) = (((a \o b) \o c) \o d) \o e
      BY DEF VerdictSections
    <2> HIDE DEF a, b, c, d, e
    <2> QED BY <2>1, <2>2, <2>3, NamesJoin
  <1>5. SponsorSections(in) \in Seq(SectionNames)
    BY <1>1 DEF SponsorSections, SectionNames
  <1>6. ClosingSections(in) \in Seq(SectionNames)
    <2> DEFINE a == <<"config", "outputs">>
               b == Shown(in, "metrics")
               c == Shown(in, "diagnostics")
               d == Shown(in, "template")
               e == <<"footer">>
    <2>1. a \in Seq(SectionNames) /\ b \in Seq(SectionNames) /\ c \in Seq(SectionNames) /\ d \in Seq(SectionNames)
          /\ e \in Seq(SectionNames)
      BY <1>1, <1>2 DEF SectionNames
    <2>2. ClosingSections(in) = (((a \o b) \o c) \o d) \o e
      BY DEF ClosingSections
    <2> HIDE DEF a, b, c, d, e
    <2> QED BY <2>1, <2>2, NamesJoin
  <1> QED BY <1>3, <1>4, <1>5, <1>6

-----------------------------------------------------------------------------
(* The report that is built.                                               *)

Sections(in) == OpeningSections(in) \o StateSections(in) \o VerdictSections(in) \o SponsorSections(in)

\* The names before the remediation: the marker first.
LEMMA SectionsAre == ASSUME NEW in
    PROVE /\ Sections(in) \in Seq(SectionNames)
          /\ Len(Sections(in)) \in Nat /\ Len(Sections(in)) >= 3
          /\ Sections(in)[1] = "marker"
  <1> DEFINE a == OpeningSections(in)
             b == StateSections(in)
             c == VerdictSections(in)
             d == SponsorSections(in)
  <1>1. /\ a \in Seq(SectionNames) /\ b \in Seq(SectionNames) /\ c \in Seq(SectionNames) /\ d \in Seq(SectionNames)
        /\ Len(a) >= 3 /\ Len(a) <= 5 /\ a[1] = "marker"
    BY OpeningIs, RestIs
  <1>2. Sections(in) = ((a \o b) \o c) \o d
    BY DEF Sections
  <1> HIDE DEF a, b, c, d
  <1>3. /\ a \o b \in Seq(SectionNames) /\ Len(a \o b) = Len(a) + Len(b)
        /\ Len(a) \in Nat /\ Len(b) \in Nat /\ Len(c) \in Nat /\ Len(d) \in Nat
    BY <1>1, NamesJoin
  <1>4. (a \o b) \o c \in Seq(SectionNames) /\ Len((a \o b) \o c) = Len(a \o b) + Len(c)
    BY <1>1, <1>3, NamesJoin
  <1>5. ((a \o b) \o c) \o d \in Seq(SectionNames) /\ Len(((a \o b) \o c) \o d) = Len((a \o b) \o c) + Len(d)
    BY <1>1, <1>4, NamesJoin
  <1>6. Len(Sections(in)) = Len(a) + Len(b) + Len(c) + Len(d)
    BY <1>2, <1>3, <1>4, <1>5
  <1>7. Len(a) >= 3 /\ Len(a) <= 5
    BY <1>1
  <1>8. ASSUME NEW k \in 1..(Len(a) + Len(b)) PROVE (((a \o b) \o c) \o d)[k] = (a \o b)[k]
    <2>1. ((a \o b) \o c)[k] = (a \o b)[k]
      BY <1>1, <1>3, ConcatProperties
    <2>2. (((a \o b) \o c) \o d)[k] = ((a \o b) \o c)[k]
      BY <1>1, <1>3, <1>4, ConcatProperties
    <2> QED BY <2>1, <2>2
  <1>9. (a \o b)[1] = "marker"
    BY <1>1, <1>3, ConcatProperties
  <1>10. 1 \in 1..(Len(a) + Len(b)) /\ Len(Sections(in)) \in Nat /\ Len(Sections(in)) >= 3
    BY <1>3, <1>6, <1>7
  <1>11. Sections(in)[1] = "marker"
    BY <1>2, <1>8, <1>9, <1>10
  <1> QED BY <1>2, <1>5, <1>10, <1>11

\* The beginning and the end are the same whatever the remediation is.
Opening(in) == TextOf(Sections(in))
Closing(in) == TextOf(ClosingSections(in))

Remedy == Seq(RemedyChars)

LEMMA RemedyIs == ASSUME NEW chars \in Remedy
    PROVE /\ chars \in Texts
          /\ RemediationText(chars) \in Texts
          /\ Parts(RemediationText(chars)) \cap {"cut"} = {}
          /\ Bytes(RemediationText(chars)) = IF chars = <<>> THEN 0 ELSE Bytes(chars) + 3
          /\ Bytes(chars) \in Nat
  <1> DEFINE heading == TextOf(<<"remedyHeading">>)
             end == <<Newline("remedyEnd")>>
  <1>1. \A c \in RemedyChars : c \in Letters /\ c.part = "remedy"
    BY DEF RemedyChars, Letters
  <1>2. chars \in Texts /\ \A i \in 1..Len(chars) : chars[i].part = "remedy"
    BY <1>1, SeqMonotonic, ElementOfSeq DEF Texts, Remedy
  <1>3. heading \in Texts /\ Bytes(heading) = 2 /\ Parts(heading) \subseteq SectionNames
    <2> DEFINE names == <<"remedyHeading">>
    <2>1. names \in Seq(SectionNames) /\ Len(names) = 1
      BY DEF SectionNames
    <2> HIDE DEF names
    <2>2. /\ TextOf(names) \in Texts /\ Bytes(TextOf(names)) = 2 * Len(names)
          /\ Parts(TextOf(names)) \subseteq SectionNames
      BY <2>1, TextOfIs, NamesAreComplete
    <2>3. Bytes(TextOf(names)) = 2
      BY <2>1, <2>2
    <2> QED BY <2>2, <2>3 DEF names
  <1>4. end \in Texts /\ Len(end) = 1 /\ end[1].width = 1 /\ end[1].part = "remedyEnd"
    BY DEF Newline, Letters, Texts
  <1>5. Bytes(end) = 1
    BY <1>4, NarrowIs DEF Bytes
  <1>6. "cut" \notin Parts(end)
    BY <1>4, TextIs DEF Parts
  <1>7. "cut" \notin Parts(chars)
    BY <1>2, TextIs DEF Parts
  <1>8. "cut" \notin SectionNames
    BY DEF SectionNames
  <1> HIDE DEF heading, end
  <1>9. heading \o chars \in Texts /\ Bytes(heading \o chars) = Bytes(heading) + Bytes(chars)
        /\ Parts(heading \o chars) = Parts(heading) \cup Parts(chars) /\ Bytes(chars) \in Nat
    BY <1>2, <1>3, Joined, BytesAdd
  <1>10. (heading \o chars) \o end \in Texts
         /\ Bytes((heading \o chars) \o end) = Bytes(heading \o chars) + Bytes(end)
         /\ Parts((heading \o chars) \o end) = Parts(heading \o chars) \cup Parts(end)
    BY <1>4, <1>9, Joined, BytesAdd
  <1>11. CASE chars = <<>>
    <2>1. RemediationText(chars) = <<>>
      BY <1>11 DEF RemediationText
    <2>2. <<>> \in Texts /\ Len(<<>>) = 0 /\ Parts(<<>>) = {}
      BY TextIs DEF Texts, Parts
    <2>3. Bytes(<<>>) = 0
      BY <2>2, PrefixIs DEF Bytes
    <2> QED BY <1>2, <1>9, <1>11, <2>1, <2>2, <2>3
  <1>12. CASE chars # <<>>
    <2>1. RemediationText(chars) = (heading \o chars) \o end
      BY <1>12 DEF RemediationText, heading, end
    <2>2. Bytes((heading \o chars) \o end) = Bytes(chars) + 3
      BY <1>3, <1>5, <1>9, <1>10
    <2>3. "cut" \notin Parts((heading \o chars) \o end)
      BY <1>3, <1>6, <1>7, <1>8, <1>9, <1>10
    <2> QED BY <1>2, <1>9, <1>10, <1>12, <2>1, <2>2, <2>3
  <1> QED BY <1>11, <1>12

\* A report is a text without a cut; its sections, but the remediation, are
\* complete, and it has the bytes of its parts.
LEMMA BuildIs == ASSUME NEW in, NEW chars \in Remedy
    PROVE /\ Build(in, chars) \in Texts
          /\ "cut" \notin Parts(Build(in, chars))
          /\ Opening(in) \in Texts
          /\ Len(Build(in, chars)) >= Len(Opening(in))
          /\ \A i \in 1..Len(Opening(in)) : Build(in, chars)[i] = Opening(in)[i]
          /\ \A p \in Parts(Opening(in)) \cup Parts(Closing(in)) : Complete(p, Build(in, chars))
          /\ Bytes(Build(in, chars)) = Bytes(Opening(in)) + Bytes(Closing(in)) + Bytes(RemediationText(chars))
          /\ Parts(Build(in, <<>>)) = Parts(Opening(in)) \cup Parts(Closing(in))
          /\ Bytes(Opening(in)) \in Nat /\ Bytes(Closing(in)) \in Nat
  <1> DEFINE a == Opening(in)
             r == RemediationText(chars)
             c == Closing(in)
  <1>1. /\ a \in Texts /\ \A p \in Parts(a) : Complete(p, a)
        /\ Parts(a) \subseteq SectionNames
    BY SectionsAre, TextOfIs, NamesAreComplete DEF Opening
  <1>2. /\ c \in Texts /\ \A p \in Parts(c) : Complete(p, c)
        /\ Parts(c) \subseteq SectionNames
    BY RestIs, TextOfIs, NamesAreComplete DEF Closing
  <1>3. r \in Texts /\ "cut" \notin Parts(r)
    BY RemedyIs
  <1>4. "cut" \notin SectionNames
    BY DEF SectionNames
  <1>5. Build(in, chars) = (a \o r) \o c
    BY DEF Build, Opening, Closing, Sections
  <1>6. Build(in, <<>>) = (a \o <<>>) \o c
    BY DEF Build, Opening, Closing, Sections, RemediationText
  <1>7. <<>> \in Texts /\ Parts(<<>>) = {}
    BY TextIs DEF Texts, Parts
  <1> HIDE DEF a, r, c
  <1>8. /\ a \o r \in Texts /\ Len(a \o r) = Len(a) + Len(r) /\ Parts(a \o r) = Parts(a) \cup Parts(r)
        /\ \A i \in 1..Len(a) : (a \o r)[i] = a[i]
        /\ Bytes(a \o r) = Bytes(a) + Bytes(r)
        /\ Bytes(a) \in Nat /\ Bytes(r) \in Nat
        /\ Len(a) \in Nat /\ Len(r) \in Nat /\ Len(c) \in Nat
    BY <1>1, <1>2, <1>3, Joined, BytesAdd, TextIs
  <1>9. /\ (a \o r) \o c \in Texts /\ Len((a \o r) \o c) = Len(a \o r) + Len(c)
        /\ Parts((a \o r) \o c) = Parts(a \o r) \cup Parts(c)
        /\ \A i \in 1..Len(a \o r) : ((a \o r) \o c)[i] = (a \o r)[i]
        /\ Bytes((a \o r) \o c) = Bytes(a \o r) + Bytes(c)
        /\ Bytes(c) \in Nat
    BY <1>2, <1>8, Joined, BytesAdd
  <1>10. ASSUME NEW p \in Parts(a) \cup Parts(c) PROVE Complete(p, (a \o r) \o c)
    <2>1. CASE p \in Parts(a)
      BY <1>1, <1>2, <1>3, <1>8, <2>1, StaysComplete
    <2>2. CASE p \in Parts(c)
      BY <1>2, <1>8, <2>2, StaysComplete
    <2> QED BY <2>1, <2>2
  <1>11. Parts((a \o <<>>) \o c) = Parts(a) \cup Parts(c)
    <2>1. a \o <<>> \in Texts /\ Parts(a \o <<>>) = Parts(a)
      BY <1>1, <1>7, Joined
    <2> QED BY <1>2, <2>1, Joined
  <1>12. "cut" \notin Parts((a \o r) \o c)
    BY <1>1, <1>2, <1>3, <1>4, <1>8, <1>9
  <1>13. Bytes((a \o r) \o c) = Bytes(a) + Bytes(c) + Bytes(r)
    BY <1>8, <1>9
  <1>14. /\ Len((a \o r) \o c) >= Len(a)
         /\ \A i \in 1..Len(a) : ((a \o r) \o c)[i] = a[i]
    BY <1>8, <1>9
  <1> QED BY <1>1, <1>5, <1>6, <1>8, <1>9, <1>10, <1>11, <1>12, <1>13, <1>14 DEF a, r, c

-----------------------------------------------------------------------------
(* What a cut keeps.                                                       *)

\* The greatest of some numbers up to n.
LEMMA GreatestIs == ASSUME NEW n \in Nat, NEW S \in SUBSET (0..n), S # {}
    PROVE Max(S) \in S /\ \A k \in S : k <= Max(S)
  <1> DEFINE T == {n - k : k \in S}
  <1>1. T \in SUBSET Nat /\ T # {}
    <2>1. \A k \in S : n - k \in Nat
      OBVIOUS
    <2> QED BY <2>1
  <1>2. PICK x \in T : \A y \in T : x <= y
    BY <1>1, LeastNat
  <1>3. PICK k \in S : x = n - k
    BY <1>2
  <1>4. ASSUME NEW j \in S PROVE k >= j
    <2>1. n - j \in T
      OBVIOUS
    <2>2. n - k <= n - j
      BY <1>2, <1>3, <2>1
    <2> QED BY <2>2
  <1>5. Max(S) \in S /\ \A j \in S : Max(S) >= j
    BY <1>4 DEF Max
  <1>6. S \subseteq Int
    OBVIOUS
  <1> QED BY <1>5, <1>6

LEMMA PrefixText == ASSUME NEW t \in Texts, NEW m \in 0..Len(t)
    PROVE /\ SubSeq(t, 1, m) \in Texts
          /\ Len(SubSeq(t, 1, m)) = m
          /\ \A i \in 1..m : SubSeq(t, 1, m)[i] = t[i]
          /\ Bytes(SubSeq(t, 1, m)) = PrefixBytes(t, m)
          /\ \A k \in 1..m : PrefixBytes(SubSeq(t, 1, m), k) = PrefixBytes(t, k)
          /\ \A k \in 0..m : SubSeq(SubSeq(t, 1, m), 1, k) = SubSeq(t, 1, k)
          /\ m = Len(t) => SubSeq(t, 1, m) = t
  <1> DEFINE p == SubSeq(t, 1, m)
  <1>1. Len(t) \in Nat /\ \A i \in 1..Len(t) : t[i] \in Letters
    BY TextIs
  <1>2. m \in Nat /\ m <= Len(t) /\ \A i \in 1..m : t[i] \in Letters
    BY <1>1
  <1>3. p \in Seq(Letters) /\ Len(p) = (IF 1 <= m THEN m - 1 + 1 ELSE 0) /\ \A i \in 1..(m - 1 + 1) : p[i] = t[1 + i - 1]
    BY <1>2, SubSeqProperties
  <1> HIDE DEF p
  <1>4. Len(p) = m /\ \A i \in 1..m : p[i] = t[i]
    BY <1>2, <1>3
  <1>5. Bytes(p) = PrefixBytes(t, m)
    BY <1>2, <1>4, PrefixesAgree DEF Bytes
  <1>6. ASSUME NEW k \in 1..m PROVE PrefixBytes(p, k) = PrefixBytes(t, k)
    BY <1>2, <1>4, PrefixesAgree
  <1>7. ASSUME NEW k \in 0..m PROVE SubSeq(p, 1, k) = SubSeq(t, 1, k)
    <2>1. k \in Nat /\ k <= m /\ (\A i \in 1..k : p[i] \in Letters) /\ (\A i \in 1..k : t[i] \in Letters)
      BY <1>2, <1>4
    <2>2. /\ SubSeq(p, 1, k) \in Seq(Letters) /\ Len(SubSeq(p, 1, k)) = (IF 1 <= k THEN k - 1 + 1 ELSE 0)
          /\ \A i \in 1..(k - 1 + 1) : SubSeq(p, 1, k)[i] = p[1 + i - 1]
      BY <2>1, SubSeqProperties
    <2>3. /\ SubSeq(t, 1, k) \in Seq(Letters) /\ Len(SubSeq(t, 1, k)) = (IF 1 <= k THEN k - 1 + 1 ELSE 0)
          /\ \A i \in 1..(k - 1 + 1) : SubSeq(t, 1, k)[i] = t[1 + i - 1]
      BY <2>1, SubSeqProperties
    <2>4. Len(SubSeq(p, 1, k)) = k /\ Len(SubSeq(t, 1, k)) = k
      BY <2>1, <2>2, <2>3
    <2>5. \A i \in 1..k : SubSeq(p, 1, k)[i] = SubSeq(t, 1, k)[i]
      BY <1>4, <2>1, <2>2, <2>3
    <2> QED BY <2>2, <2>3, <2>4, <2>5, SeqEqual
  <1>8. m = Len(t) => p = t
    BY SubSeqFull DEF Texts, p
  <1> QED BY <1>3, <1>4, <1>5, <1>6, <1>7, <1>8 DEF p, Texts

\* A prefix within the limit, with every character when all of them are.
LEMMA TakenIs == ASSUME NEW t \in Texts, NEW limit \in Int
    PROVE \E m \in 0..Len(t) :
             /\ takeUtf8Prefix(t, limit) = SubSeq(t, 1, m)
             /\ m = 0 \/ PrefixBytes(t, m) <= limit
             /\ \A n \in 1..Len(t) : PrefixBytes(t, n) <= limit => n <= m
  <1> DEFINE S == {n \in 0..Len(t) : n = 0 \/ PrefixBytes(t, n) <= limit}
  <1>1. Len(t) \in Nat
    BY TextIs
  <1>2. S \in SUBSET (0..Len(t)) /\ 0 \in S
    BY <1>1
  <1>3. Max(S) \in S /\ \A k \in S : k <= Max(S)
    BY <1>1, <1>2, GreatestIs
  <1>4. \A n \in 1..Len(t) : PrefixBytes(t, n) <= limit => n \in S
    OBVIOUS
  <1>5. takeUtf8Prefix(t, limit) = SubSeq(t, 1, Max(S))
    BY DEF takeUtf8Prefix
  <1>6. Max(S) \in 0..Len(t) /\ (Max(S) = 0 \/ PrefixBytes(t, Max(S)) <= limit)
    BY <1>3
  <1> HIDE DEF S
  <1> QED BY <1>3, <1>4, <1>5, <1>6

\* A cut keeps every line that fits, and cuts nothing off a text that fits.
LEMMA CutIs == ASSUME NEW t \in Texts, NEW limit \in Int
    PROVE \E m \in 0..Len(t) :
             /\ takeUtf8PrefixAtLineBoundary(t, limit) = SubSeq(t, 1, m)
             /\ m = 0 \/ PrefixBytes(t, m) <= limit
             /\ \A n \in 1..Len(t) : t[n].newline /\ PrefixBytes(t, n) <= limit => n <= m
             /\ Bytes(t) <= limit => m = Len(t)
  <1>1. PICK w \in 0..Len(t) :
             /\ takeUtf8Prefix(t, limit) = SubSeq(t, 1, w)
             /\ w = 0 \/ PrefixBytes(t, w) <= limit
             /\ \A n \in 1..Len(t) : PrefixBytes(t, n) <= limit => n <= w
    BY TakenIs
  <1> DEFINE p == SubSeq(t, 1, w)
             ends == {n \in 1..Len(p) : p[n].newline}
  <1>2. Len(t) \in Nat /\ w \in Nat /\ w <= Len(t)
    BY TextIs
  <1>3. /\ p \in Texts /\ Len(p) = w
        /\ \A i \in 1..w : p[i] = t[i]
        /\ \A k \in 0..w : SubSeq(p, 1, k) = SubSeq(t, 1, k)
        /\ w = Len(t) => p = t
    BY PrefixText
  <1>4. takeUtf8PrefixAtLineBoundary(t, limit) = IF p = t \/ ends = {} THEN p ELSE SubSeq(p, 1, Max(ends))
    BY <1>1 DEF takeUtf8PrefixAtLineBoundary
  <1>5. ASSUME Bytes(t) <= limit PROVE w = Len(t)
    <2>1. CASE Len(t) = 0
      BY <1>2, <2>1
    <2>2. CASE Len(t) # 0
      <3>1. Len(t) \in 1..Len(t) /\ PrefixBytes(t, Len(t)) <= limit
        BY <1>2, <1>5, <2>2 DEF Bytes
      <3> QED BY <1>1, <1>2, <3>1
    <2> QED BY <2>1, <2>2
  <1>6. \A n \in 1..Len(t) : t[n].newline /\ PrefixBytes(t, n) <= limit => n \in ends
    BY <1>1, <1>2, <1>3
  <1>7. ends \in SUBSET (0..w)
    BY <1>2, <1>3
  <1>8. CASE p = t \/ ends = {}
    BY <1>1, <1>4, <1>5, <1>8
  <1>9. CASE ~(p = t \/ ends = {})
    <2> DEFINE m == Max(ends)
    <2>1. m \in ends /\ \A k \in ends : k <= m
      BY <1>2, <1>7, <1>9, GreatestIs
    <2>2. takeUtf8PrefixAtLineBoundary(t, limit) = SubSeq(p, 1, m)
      BY <1>4, <1>9
    <2> HIDE DEF m
    <2>3. m \in Nat /\ m >= 1 /\ m <= w /\ m \in 0..w /\ m \in 0..Len(t) /\ w # 0
      BY <1>2, <1>3, <2>1
    <2>4. SubSeq(p, 1, m) = SubSeq(t, 1, m)
      BY <1>3, <2>3
    <2>5. \A n \in 1..Len(t) : t[n].newline /\ PrefixBytes(t, n) <= limit => n <= m
      BY <1>6, <2>1
    <2>6. PrefixBytes(t, m) <= limit
      <3>1. PrefixBytes(t, w) <= limit
        BY <1>1, <2>3
      <3>2. /\ PrefixBytes(t, m) <= PrefixBytes(t, w)
            /\ PrefixBytes(t, w) \in Nat
        BY <1>2, <2>3, PrefixIs
      <3>3. PrefixBytes(t, m) \in Nat
        BY <2>3, PrefixIs
      <3> QED BY <3>1, <3>2, <3>3
    <2>7. ~(Bytes(t) <= limit)
      BY <1>3, <1>5, <1>9
    <2> QED BY <2>2, <2>3, <2>4, <2>5, <2>6, <2>7
  <1> QED BY <1>8, <1>9

-----------------------------------------------------------------------------
(* The text that is posted.                                                *)

\* The first n characters are narrow, and end a line: no cut loses them.
Firm(t, n) == t \in Texts /\ n <= Len(t) /\ (\A i \in 1..n : t[i].width = 1) /\ t[n].newline

LEMMA FirmStays ==
    ASSUME NEW t, NEW n \in Nat, n >= 1, Firm(t, n), NEW limit \in Int, n <= limit, NEW end \in Texts
    PROVE LET c == takeUtf8PrefixAtLineBoundary(t, limit) \o end IN
          /\ Firm(c, n) /\ \A i \in 1..n : c[i] = t[i]
          /\ Bytes(c) <= limit + Bytes(end) /\ Bytes(c) \in Nat
          /\ Bytes(t) <= limit => c = t \o end
          /\ \A p \in Parts(end) : p \in Parts(c)
  <1> DEFINE k == takeUtf8PrefixAtLineBoundary(t, limit)
  <1>1. t \in Texts /\ Len(t) \in Nat /\ n <= Len(t)
    BY TextIs DEF Firm
  <1>2. PICK m \in 0..Len(t) :
             /\ k = SubSeq(t, 1, m)
             /\ m = 0 \/ PrefixBytes(t, m) <= limit
             /\ \A j \in 1..Len(t) : t[j].newline /\ PrefixBytes(t, j) <= limit => j <= m
             /\ Bytes(t) <= limit => m = Len(t)
    BY <1>1, CutIs
  <1> HIDE DEF k
  <1>3. PrefixBytes(t, n) = n
    BY NarrowIs DEF Firm
  <1>4. n <= m
    <2>1. n \in 1..Len(t) /\ t[n].newline /\ PrefixBytes(t, n) <= limit
      BY <1>1, <1>3 DEF Firm
    <2> QED BY <1>2, <2>1
  <1>5. m \in Nat /\ m # 0
    BY <1>1, <1>4
  <1>6. /\ k \in Texts /\ Len(k) = m /\ \A i \in 1..m : k[i] = t[i]
        /\ Bytes(k) = PrefixBytes(t, m)
        /\ m = Len(t) => k = t
    BY <1>1, <1>2, PrefixText
  <1>7. /\ k \o end \in Texts /\ Len(k \o end) = Len(k) + Len(end)
        /\ \A i \in 1..Len(k) : (k \o end)[i] = k[i]
        /\ Parts(k \o end) = Parts(k) \cup Parts(end)
        /\ Bytes(k \o end) = Bytes(k) + Bytes(end) /\ Bytes(k) \in Nat /\ Bytes(end) \in Nat
        /\ Len(end) \in Nat
    BY <1>6, Joined, BytesAdd, TextIs
  <1>8. \A i \in 1..n : (k \o end)[i] = t[i]
    BY <1>4, <1>5, <1>6, <1>7
  <1>9. n <= Len(k \o end)
    BY <1>4, <1>5, <1>6, <1>7
  <1>10. Firm(k \o end, n)
    <2>1. n \in 1..n
      OBVIOUS
    <2> QED BY <1>7, <1>8, <1>9, <2>1 DEF Firm
  <1>11. Bytes(k \o end) <= limit + Bytes(end) /\ Bytes(k \o end) \in Nat
    <2>1. Bytes(k) <= limit
      BY <1>2, <1>5, <1>6
    <2> QED BY <1>7, <2>1
  <1>12. Bytes(t) <= limit => k \o end = t \o end
    BY <1>2, <1>6
  <1> QED BY <1>7, <1>8, <1>10, <1>11, <1>12 DEF k

LEMMA EndsAre ==
    /\ Suffix \in Texts /\ Bytes(Suffix) = 2 /\ "cut" \in Parts(Suffix)
    /\ Notice \in Texts /\ Bytes(Notice) = 4 /\ "cut" \in Parts(Notice)
  <1>1. Suffix \in Texts /\ Len(Suffix) = 2 /\ (\A i \in 1..2 : Suffix[i].width = 1) /\ Suffix[1].part = "cut"
    BY DEF Suffix, Texts, Letters, Char, Newline
  <1>2. Notice \in Texts /\ Len(Notice) = 4 /\ (\A i \in 1..4 : Notice[i].width = 1) /\ Notice[3].part = "cut"
    BY DEF Notice, Texts, Letters, Char, Newline
  <1>3. 1 \in DOMAIN Suffix /\ 3 \in DOMAIN Notice
    BY <1>1, <1>2, TextIs
  <1>4. Bytes(Suffix) = 2 /\ Bytes(Notice) = 4
    BY <1>1, <1>2, NarrowIs DEF Bytes
  <1>5. "cut" \in Parts(Suffix) /\ "cut" \in Parts(Notice)
    BY <1>1, <1>2, <1>3 DEF Parts
  <1> QED BY <1>1, <1>2, <1>4, <1>5

\* The text a reader of the report relies on is firm.
LEMMA OpeningIsFirm == ASSUME NEW in, NEW chars \in Remedy
    PROVE /\ Firm(Build(in, chars), 2)
          /\ Build(in, chars)[1].part = "marker"
  <1> DEFINE names == Sections(in)
             o == Opening(in)
             b == Build(in, chars)
  <1>1. /\ names \in Seq(SectionNames) /\ Len(names) \in Nat /\ Len(names) >= 3 /\ names[1] = "marker"
    BY SectionsAre
  <1>2. /\ Len(o) = 2 * Len(names)
        /\ \A k \in 1..Len(names) : o[2 * k - 1] = Char(names[k], 1) /\ o[2 * k] = Newline(names[k])
        /\ \A i \in 1..2 * Len(names) : o[i].width = 1
    BY <1>1, TextOfIs DEF Opening
  <1>3. b \in Texts /\ Len(b) >= Len(o) /\ (\A i \in 1..Len(o) : b[i] = o[i]) /\ Len(b) \in Nat
    BY BuildIs, TextIs
  <1> HIDE DEF names, o, b
  <1>4. ASSUME NEW k \in 1..Len(names)
        PROVE Firm(b, 2 * k) /\ b[2 * k - 1].part = names[k] /\ b[2 * k].part = names[k]
    <2>1. 2 * k <= Len(o) /\ 2 * k \in 1..Len(o) /\ 2 * k - 1 \in 1..Len(o) /\ 2 * k \in Nat
      BY <1>1, <1>2
    <2>2. b[2 * k - 1] = Char(names[k], 1) /\ b[2 * k] = Newline(names[k])
      BY <1>2, <1>3, <2>1
    <2>3. ASSUME NEW i \in 1..2 * k PROVE b[i].width = 1
      <3>1. i \in 1..Len(o) /\ i \in 1..2 * Len(names)
        BY <1>1, <1>2
      <3> QED BY <1>2, <1>3, <3>1
    <2>4. 2 * k <= Len(b)
      BY <1>3, <2>1
    <2>5. Newline(names[k]).newline /\ Newline(names[k]).part = names[k] /\ Char(names[k], 1).part = names[k]
      BY DEF Newline, Char
    <2> QED BY <1>3, <2>2, <2>3, <2>4, <2>5 DEF Firm
  <1>5. 1 \in 1..Len(names) /\ 2 * 1 = 2 /\ 2 * 1 - 1 = 1
    BY <1>1
  <1>6. Firm(b, 2) /\ b[1].part = "marker"
    BY <1>1, <1>4, <1>5
  <1> QED BY <1>6 DEF b

\* Only the remediation is shortened when the rest leaves it room.
LEMMA RemedyShortens == ASSUME NEW in, NEW remedy \in Remedy
    PROVE LET chars == takeUtf8Prefix(remedy, RemediationBudget(in))
              bare == Bytes(Build(in, <<>>)) IN
          /\ chars \in Remedy
          /\ bare <= SafeLimit - 2 => Bytes(Build(in, chars)) <= SafeLimit - 2
  <1> DEFINE one == <<Char("remedy", 1)>>
             bare == Bytes(Build(in, <<>>))
             budget == RemediationBudget(in)
             chars == takeUtf8Prefix(remedy, budget)
             beside == Bytes(Opening(in)) + Bytes(Closing(in))
  <1>1. beside \in Nat
    <2>1. <<>> \in Remedy
      BY DEF Remedy
    <2>2. Bytes(Opening(in)) \in Nat /\ Bytes(Closing(in)) \in Nat
      BY <2>1, BuildIs
    <2> QED BY <2>2
  <1>2. \A c \in Remedy : Bytes(Build(in, c)) = beside + (IF c = <<>> THEN 0 ELSE Bytes(c) + 3)
    BY BuildIs, RemedyIs
  <1>3. \A c \in Remedy : Bytes(c) \in Nat /\ c \in Texts
    BY RemedyIs
  <1>4. one \in Remedy /\ one # <<>> /\ Bytes(one) = 1
    <2>1. one \in Remedy /\ Len(one) = 1 /\ one[1].width = 1
      BY DEF Remedy, RemedyChars, Char
    <2>2. one # <<>>
      OBVIOUS
    <2>3. \A i \in 1..1 : one[i].width = 1
      BY <2>1
    <2>4. PrefixBytes(one, 1) = 1
      BY <2>3, NarrowIs
    <2> QED BY <2>1, <2>2, <2>4 DEF Bytes
  <1>5. <<>> \in Remedy
    BY DEF Remedy
  <1>6. budget = SafeLimit - Bytes(Suffix) - bare - (Bytes(Build(in, one)) - bare - 1)
    BY DEF RemediationBudget
  <1> HIDE DEF one, bare, budget, chars, beside
  <1>7. bare = beside
    BY <1>1, <1>2, <1>5 DEF bare
  <1>8. Bytes(Build(in, one)) = beside + 4
    BY <1>1, <1>2, <1>4
  <1>9. SafeLimit \in Nat
    BY LimitsAssumption
  <1>10. budget = SafeLimit - 5 - beside /\ budget \in Int
    BY <1>1, <1>6, <1>7, <1>8, <1>9, EndsAre
  <1>11. PICK m \in 0..Len(remedy) :
            chars = SubSeq(remedy, 1, m) /\ (m = 0 \/ PrefixBytes(remedy, m) <= budget)
    BY <1>3, <1>10, TakenIs DEF chars
  <1>12. Len(remedy) \in Nat /\ \A i \in 1..Len(remedy) : remedy[i] \in RemedyChars
    BY LenProperties, ElementOfSeq DEF Remedy
  <1>13. chars \in Remedy
    <2>1. \A i \in 1..m : remedy[i] \in RemedyChars
      BY <1>12
    <2>2. m \in Int
      BY <1>12
    <2> QED BY <1>11, <2>1, <2>2, SubSeqProperties DEF Remedy
  <1>14. Bytes(chars) = PrefixBytes(remedy, m) /\ Len(chars) = m
    BY <1>3, <1>11, PrefixText
  <1>15. ASSUME bare <= SafeLimit - 2 PROVE Bytes(Build(in, chars)) <= SafeLimit - 2
    <2>1. CASE chars = <<>>
      BY <1>1, <1>2, <1>7, <1>13, <1>15, <2>1
    <2>2. CASE chars # <<>>
      <3>1. m # 0
        BY <1>13, <1>14, <2>2, EmptySeq DEF Remedy
      <3>2. Bytes(chars) <= budget
        BY <1>11, <1>14, <3>1
      <3>3. Bytes(Build(in, chars)) = beside + (Bytes(chars) + 3)
        BY <1>2, <1>13, <2>2
      <3>4. Bytes(chars) \in Nat
        BY <1>3, <1>13
      <3> QED BY <1>1, <1>9, <1>10, <3>2, <3>3, <3>4
    <2> QED BY <2>1, <2>2
  <1> QED BY <1>13, <1>15 DEF chars, bare, budget

\* What formatCommentBody returns: the whole report, or a beginning of it
\* with the notice of a cut; the sections are complete if they fit.
LEMMA FormattedIs == ASSUME NEW in \in Reported
    PROVE LET t == formatCommentBody(in) IN
          /\ Firm(t, 2) /\ t[1].part = "marker"
          /\ Bytes(t) <= SafeLimit /\ Bytes(t) \in Nat
          /\ t = Build(in, in.remediation) \/ "cut" \in Parts(t)
          /\ Bytes(Build(in, <<>>)) <= SafeLimit - 2 =>
                \A p \in Parts(Build(in, <<>>)) : Complete(p, t)
  <1> DEFINE full == Build(in, in.remediation)
             chars == takeUtf8Prefix(in.remediation, RemediationBudget(in))
             short == Build(in, chars)
             t == formatCommentBody(in)
             bare == Bytes(Build(in, <<>>))
  <1>1. in.remediation \in Remedy
    BY DEF Reported, Remedy
  <1>2. chars \in Remedy /\ (bare <= SafeLimit - 2 => Bytes(short) <= SafeLimit - 2)
    BY <1>1, RemedyShortens
  <1>3. t = IF Bytes(full) <= SafeLimit THEN full
            ELSE takeUtf8PrefixAtLineBoundary(short, SafeLimit - Bytes(Suffix)) \o Suffix
    BY DEF formatCommentBody
  <1>4. SafeLimit \in Nat /\ SafeLimit >= 6 /\ SafeLimit - Bytes(Suffix) = SafeLimit - 2
    BY LimitsAssumption, EndsAre
  <1>5. \A c \in Remedy : Bytes(Build(in, c)) \in Nat
    BY BuildIs, RemedyIs, TextIs, PrefixIs DEF Bytes
  <1>6. \A c \in Remedy : \A p \in Parts(Build(in, <<>>)) : Complete(p, Build(in, c))
    BY BuildIs
  <1> HIDE DEF full, short, t, bare, chars
  <1>7. CASE Bytes(full) <= SafeLimit
    <2>1. t = full
      BY <1>3, <1>7
    <2>2. Firm(full, 2) /\ full[1].part = "marker"
      BY <1>1, OpeningIsFirm DEF full
    <2>3. Bytes(full) \in Nat /\ \A p \in Parts(Build(in, <<>>)) : Complete(p, full)
      BY <1>1, <1>5, <1>6 DEF full
    <2> QED BY <1>7, <2>1, <2>2, <2>3 DEF t, full
  <1>8. CASE ~(Bytes(full) <= SafeLimit)
    <2> DEFINE limit == SafeLimit - 2
    <2>1. t = takeUtf8PrefixAtLineBoundary(short, limit) \o Suffix
      BY <1>3, <1>4, <1>8
    <2>2. limit \in Int /\ limit >= 2
      BY <1>4
    <2> HIDE DEF limit
    <2>3. Firm(short, 2) /\ short[1].part = "marker"
      BY <1>2, OpeningIsFirm DEF short
    <2>4. /\ Firm(t, 2) /\ \A i \in 1..2 : t[i] = short[i]
          /\ Bytes(t) <= limit + Bytes(Suffix) /\ Bytes(t) \in Nat
          /\ Bytes(short) <= limit => t = short \o Suffix
          /\ \A p \in Parts(Suffix) : p \in Parts(t)
      <3>1. 2 \in Nat /\ 2 >= 1 /\ 2 <= limit
        BY <2>2
      <3> QED BY <2>1, <2>2, <2>3, <3>1, FirmStays, EndsAre
    <2>5. Firm(t, 2) /\ t[1].part = "marker"
      BY <2>3, <2>4
    <2>6. Bytes(t) <= SafeLimit /\ Bytes(t) \in Nat
      <3>1. Bytes(t) <= limit + 2 /\ Bytes(t) \in Nat
        BY <2>4, EndsAre
      <3> QED BY <1>4, <3>1 DEF limit
    <2>7. "cut" \in Parts(t)
      BY <2>4, EndsAre
    <2>8. ASSUME bare <= SafeLimit - 2, NEW p \in Parts(Build(in, <<>>)) PROVE Complete(p, t)
      <3>1. Bytes(short) <= limit
        BY <1>2, <2>8 DEF limit
      <3>2. t = short \o Suffix
        BY <2>4, <3>1
      <3>3. Complete(p, short) /\ short \in Texts
        BY <1>2, <1>6, <2>3 DEF short, Firm
      <3> QED BY <3>2, <3>3, StaysComplete, EndsAre
    <2> QED BY <2>5, <2>6, <2>7, <2>8 DEF t, bare
  <1> QED BY <1>7, <1>8

-----------------------------------------------------------------------------
(* Successive reports.                                                     *)

\* The text composed for an input, and the text there would be without limits.
ComposedOf(in) == IF in.batch > 0 THEN BatchText(in.batch) ELSE formatCommentBody(in)
WholeOf(in) == IF in.batch > 0 THEN BatchText(in.batch) ELSE Build(in, in.remediation)

\* A text posted is what its input makes of it; no report file was written.
InputOK == input \in Reported
TextsOK ==
    /\ composed # <<>> => composed = ComposedOf(input)
    /\ Posted => comment = fitCommentBodyToLimit(ComposedOf(input))
FileOK == reportFile = "none"
ReportInv == InputOK /\ TextsOK /\ FileOK

LEMMA BatchTextIs == ASSUME NEW count \in Nat, count > 0
    PROVE Firm(BatchText(count), 2) /\ "cut" \notin Parts(BatchText(count))
  <1> DEFINE names == [i \in 1..count |-> "row"]
  <1>1. names \in Seq(SectionNames) /\ Len(names) = count /\ \A k \in 1..count : names[k] = "row"
    BY DEF SectionNames
  <1>2. BatchText(count) = TextOf(names)
    BY DEF BatchText
  <1> HIDE DEF names
  <1>3. /\ TextOf(names) \in Texts /\ Len(TextOf(names)) = 2 * count
        /\ \A k \in 1..Len(names) : TextOf(names)[2 * k - 1] = Char(names[k], 1) /\ TextOf(names)[2 * k] = Newline(names[k])
        /\ Parts(TextOf(names)) \subseteq SectionNames
    BY <1>1, TextOfIs, NamesAreComplete
  <1>4. 1 \in 1..Len(names) /\ 2 * 1 - 1 = 1 /\ 2 * 1 = 2
    BY <1>1
  <1>5. TextOf(names)[1] = Char(names[1], 1) /\ TextOf(names)[2] = Newline(names[1])
    BY <1>3, <1>4
  <1>6. \A i \in 1..2 : i = 1 \/ i = 2
    OBVIOUS
  <1>7. Char(names[1], 1).width = 1 /\ Newline(names[1]).width = 1 /\ Newline(names[1]).newline
    BY DEF Char, Newline
  <1>8. 2 <= Len(TextOf(names))
    BY <1>3
  <1>9. "cut" \notin SectionNames
    BY DEF SectionNames
  <1> QED BY <1>2, <1>3, <1>5, <1>6, <1>7, <1>8, <1>9 DEF Firm

\* What is composed begins firmly; only a batch can be above the limit.
LEMMA ComposedIs == ASSUME NEW in \in Reported
    PROVE /\ Firm(ComposedOf(in), 2) /\ ComposedOf(in)[1].part = WholeOf(in)[1].part
          /\ ComposedOf(in) = WholeOf(in) \/ "cut" \in Parts(ComposedOf(in))
          /\ "cut" \notin Parts(WholeOf(in))
          /\ Bytes(ComposedOf(in)) \in Nat
          /\ ~(in.batch > 0) => Bytes(ComposedOf(in)) <= HardLimit
          /\ ComposedOf(in) # <<>>
  <1>1. /\ Firm(ComposedOf(in), 2) /\ ComposedOf(in)[1].part = WholeOf(in)[1].part
        /\ ComposedOf(in) = WholeOf(in) \/ "cut" \in Parts(ComposedOf(in))
        /\ "cut" \notin Parts(WholeOf(in))
        /\ ~(in.batch > 0) => Bytes(ComposedOf(in)) <= HardLimit
    <2>1. CASE in.batch > 0
      <3>1. in.batch \in Nat
        BY DEF Reported
      <3>2. Firm(BatchText(in.batch), 2) /\ "cut" \notin Parts(BatchText(in.batch))
        BY <2>1, <3>1, BatchTextIs
      <3>3. ComposedOf(in) = BatchText(in.batch) /\ WholeOf(in) = BatchText(in.batch)
        BY <2>1 DEF ComposedOf, WholeOf
      <3> QED BY <2>1, <3>2, <3>3
    <2>2. CASE ~(in.batch > 0)
      <3>1. ComposedOf(in) = formatCommentBody(in) /\ WholeOf(in) = Build(in, in.remediation)
        BY <2>2 DEF ComposedOf, WholeOf
      <3>2. in.remediation \in Remedy
        BY DEF Reported, Remedy
      <3>3. Build(in, in.remediation)[1].part = "marker" /\ "cut" \notin Parts(Build(in, in.remediation))
        BY <3>2, OpeningIsFirm, BuildIs
      <3>4. /\ Firm(formatCommentBody(in), 2) /\ formatCommentBody(in)[1].part = "marker"
            /\ formatCommentBody(in) = Build(in, in.remediation) \/ "cut" \in Parts(formatCommentBody(in))
            /\ Bytes(formatCommentBody(in)) <= SafeLimit /\ Bytes(formatCommentBody(in)) \in Nat
        BY FormattedIs
      <3>5. Bytes(formatCommentBody(in)) <= HardLimit
        BY <3>4, LimitsAssumption
      <3> QED BY <3>1, <3>3, <3>4, <3>5
    <2> QED BY <2>1, <2>2
  <1>2. ComposedOf(in) \in Texts /\ 2 <= Len(ComposedOf(in)) /\ Len(ComposedOf(in)) \in Nat
    BY <1>1, TextIs DEF Firm
  <1>3. Bytes(ComposedOf(in)) \in Nat
    BY <1>2, PrefixIs DEF Bytes
  <1>4. ComposedOf(in) # <<>>
    BY <1>2
  <1> QED BY <1>1, <1>3, <1>4

\* A composed text that is posted.
LEMMA FittedIs == ASSUME NEW in \in Reported
    PROVE LET c == fitCommentBodyToLimit(ComposedOf(in)) IN
          /\ Bytes(c) <= HardLimit
          /\ c[1].part = WholeOf(in)[1].part
          /\ "cut" \in Parts(c) <=> c # WholeOf(in)
          /\ ~(in.batch > 0) => c = ComposedOf(in)
          /\ c # <<>>
  <1> DEFINE t == ComposedOf(in)
             c == fitCommentBodyToLimit(t)
             limit == HardLimit - Bytes(Notice)
             k == takeUtf8PrefixAtLineBoundary(t, limit) \o Notice
             whole == WholeOf(in)
  <1>1. /\ Firm(t, 2) /\ t[1].part = whole[1].part
        /\ t = whole \/ "cut" \in Parts(t)
        /\ "cut" \notin Parts(whole)
        /\ Bytes(t) \in Nat
        /\ ~(in.batch > 0) => Bytes(t) <= HardLimit
        /\ t # <<>>
    BY ComposedIs
  <1>2. c = IF Bytes(t) <= HardLimit THEN t ELSE k
    BY DEF fitCommentBodyToLimit
  <1>3. HardLimit \in Nat /\ HardLimit >= 6 /\ limit \in Int /\ limit >= 2 /\ limit = HardLimit - 4
    BY LimitsAssumption, EndsAre
  <1>4. Notice \in Texts /\ Bytes(Notice) = 4 /\ "cut" \in Parts(Notice)
    BY EndsAre
  <1> HIDE DEF t, c, limit, whole
  <1>5. CASE Bytes(t) <= HardLimit
    <2>1. c = t
      BY <1>2, <1>5
    <2> QED BY <1>1, <1>5, <2>1 DEF c, t, whole
  <1>6. CASE ~(Bytes(t) <= HardLimit)
    <2>1. c = k
      BY <1>2, <1>6
    <2>2. /\ Firm(k, 2) /\ \A i \in 1..2 : k[i] = t[i]
          /\ Bytes(k) <= limit + Bytes(Notice) /\ Bytes(k) \in Nat
          /\ \A p \in Parts(Notice) : p \in Parts(k)
      <3>1. Firm(t, 2) /\ limit \in Int /\ Notice \in Texts
        BY <1>1, <1>3, <1>4
      <3>2. 2 \in Nat /\ 2 >= 1 /\ 2 <= limit
        BY <1>3
      <3> QED BY <3>1, <3>2, FirmStays
    <2> HIDE DEF k
    <2>3. Bytes(k) <= HardLimit
      BY <1>3, <1>4, <2>2
    <2>4. k[1] = t[1] /\ "cut" \in Parts(k)
      BY <1>4, <2>2
    <2>5. k # <<>>
      <3>1. k \in Texts /\ 2 <= Len(k)
        BY <2>2 DEF Firm
      <3> QED BY <3>1
    <2>6. k # whole
      BY <1>1, <2>4
    <2>7. in.batch > 0
      BY <1>1, <1>6
    <2> QED BY <1>1, <2>1, <2>3, <2>4, <2>5, <2>6, <2>7 DEF c, t, whole
  <1> QED BY <1>5, <1>6

LEMMA ReportStarts == ReportInit => ReportInv
  <1> SUFFICES ASSUME ReportInit PROVE ReportInv
    OBVIOUS
  <1>1. input \in Reported
    <2> DEFINE none == <<>>
    <2>1. none \in Seq(RemedyChars)
      OBVIOUS
    <2>2. {} \in SUBSET STRING
      OBVIOUS
    <2>3. input = [flags |-> {}, policy |-> "warn", remediation |-> none, batch |-> 0]
      BY DEF ReportInit
    <2> HIDE DEF none
    <2> QED BY <2>1, <2>2, <2>3 DEF Reported
  <1>2. ~(input.batch > 0)
    BY DEF ReportInit
  <1> QED BY <1>1, <1>2 DEF ReportInit, ReportInv, InputOK, TextsOK, FileOK, Posted

LEMMA ReportKeeps == ReportInv /\ [ReportNext]_reportVars => ReportInv'
  <1> SUFFICES ASSUME ReportInv, [ReportNext]_reportVars PROVE ReportInv'
    OBVIOUS
  <1> USE DEF ReportInv
  <1>1. CASE Compose
    <2>1. PICK in \in ReportInputs : input' = in /\ composed' = ComposedOf(in)
      BY <1>1 DEF Compose, ComposedOf
    <2>2. in \in Reported
      BY LimitsAssumption
    <2>3. composed' # <<>>
      BY <2>1, <2>2, ComposedIs
    <2>4. InputOK'
      BY <2>1, <2>2 DEF InputOK
    <2>5. TextsOK'
      BY <2>1, <2>3 DEF TextsOK, Posted
    <2> QED BY <1>1, <2>4, <2>5 DEF Compose, FileOK
  <1>2. CASE Post
    <2>1. UNCHANGED input /\ composed' = <<>> /\ comment' = fitCommentBodyToLimit(ComposedOf(input))
      BY <1>2 DEF Post, TextsOK
    <2>2. InputOK'
      BY <2>1 DEF InputOK
    <2>3. TextsOK'
      BY <2>1 DEF TextsOK, Posted
    <2>4. ~(Bytes(composed) > HardLimit /\ input.batch = 0)
      <3>1. composed = ComposedOf(input) /\ input \in Reported
        BY <1>2 DEF Post, TextsOK, InputOK
      <3>2. Bytes(composed) \in Nat /\ (~(input.batch > 0) => Bytes(composed) <= HardLimit)
        BY <3>1, ComposedIs
      <3> QED BY <3>2, LimitsAssumption
    <2>5. FileOK'
      BY <1>2, <2>4 DEF Post, FileOK
    <2> QED BY <2>2, <2>3, <2>5
  <1>3. CASE UNCHANGED reportVars
    BY <1>3 DEF reportVars, InputOK, TextsOK, FileOK, Posted
  <1> QED BY <1>1, <1>2, <1>3 DEF ReportNext

LEMMA PostedIsSafe == ReportInv => ShorteningIsSafe
  <1> SUFFICES ASSUME ReportInv, Posted PROVE PostedFits /\ CoreSurvives
    BY DEF ShorteningIsSafe, PostedFits, CoreSurvives
  <1>1. comment = fitCommentBodyToLimit(ComposedOf(input)) /\ input \in Reported
    BY DEF ReportInv, TextsOK, InputOK
  <1>2. /\ Bytes(comment) <= HardLimit
        /\ comment[1].part = WholeOf(input)[1].part
        /\ "cut" \in Parts(comment) <=> comment # WholeOf(input)
        /\ ~(input.batch > 0) => comment = ComposedOf(input)
    BY <1>1, FittedIs
  <1>3. PostedFits
    BY <1>2 DEF PostedFits, WholeOf
  <1>4. CoreSurvives
    <2> SUFFICES ASSUME input.batch = 0, Bytes(Build(input, <<>>)) <= SafeLimit - Bytes(Suffix)
                 PROVE \A part \in Parts(Build(input, <<>>)) : Complete(part, comment)
      BY DEF CoreSurvives
    <2>1. comment = formatCommentBody(input)
      BY <1>2 DEF ComposedOf
    <2>2. Bytes(Build(input, <<>>)) <= SafeLimit - 2
      BY EndsAre
    <2> QED BY <1>1, <2>1, <2>2, FormattedIs
  <1> QED BY <1>3, <1>4

\* Whatever the remediation, the flags and the limits are, what is posted
\* fits, begins with the marker, says when it was cut, and has all its
\* sections as long as they fit without the remediation.
THEOREM ShorteningHolds == ReportSpec => []ShorteningIsSafe
  <1>1. ReportSpec => []ReportInv
    BY ReportStarts, ReportKeeps, PTL DEF ReportSpec
  <1> QED BY <1>1, PostedIsSafe, PTL

\* The full report is never written to a file: formatCommentBody returns at
\* most MAX_COMMENT_LENGTH bytes, and run writes the file above
\* COMMENT_SIZE_LIMIT_BYTES only (index.ts:951), which is not less.
THEOREM ReportFileIsUnused == ReportSpec => [](reportFile = "none")
  <1>1. ReportSpec => []ReportInv
    BY ReportStarts, ReportKeeps, PTL DEF ReportSpec
  <1>2. ReportInv => reportFile = "none"
    BY DEF ReportInv, FileOK
  <1> QED BY <1>1, <1>2, PTL
=============================================================================
