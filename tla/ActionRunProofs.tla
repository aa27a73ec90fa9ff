--------------------------- MODULE ActionRunProofs ---------------------------
(***************************************************************************)
(* Safety of run (src/index.ts) for every configuration and any number of   *)
(* polls.  The verdict is not inductive by itself: that a published ready   *)
(* is backed rests on where in the run the result was made, so the          *)
(* invariant ties the result, the outputs and the job to pc.                *)
(***************************************************************************)
EXTENDS ActionRun, TLAPS

\* Steps at which no verdict has been reached yet.
Open == {"gate", "lookup", "friendbot", "refetch", "issuer", "checks"}

\* The last steps, after SetOutputs.
Published == {"unassign", "finish", "done"}

\* Steps after the result is final.
Final == {"batch", "comment", "outputs"} \cup Published

VerdictOK ==
    /\ result.valid = (result.failed = {})
    /\ pc \in Open => ~result.valid

\* A valid result is backed by what the gates passed so far have seen.
Backed ==
    result.valid =>
        /\ account.funded /\ account.trust
        /\ config.home /\ config.strict => issuer = "right"
        /\ (~friendbot /\ pc \notin {"toml", "extra"}) => (config.extraAssets => account.extra)
        /\ (~friendbot /\ pc # "toml") => (toml = "failed" => ~config.pin /\ ~config.strict)

\* An outage of the first lookup leaves a reason code that handleAutoUnassign
\* exempts, and no later step replaces it.
OutageKept ==
    outcome \in Listed \cup {"cancelled"} => /\ pc \in Final
                                             /\ result.reason \in Listed
                                             /\ ~unassigned

\* The gates that follow Friendbot are never reached.
FriendbotGates == pc \in {"toml", "extra"} => ~friendbot

TomlLate == pc \in Open \cup {"toml"} => toml = "skipped"

UnassignedLate == unassigned => pc \in {"finish", "done"}

\* ready is set by SetOutputs (or by the milestone gate) and never before.
ReadyOK ==
    /\ pc \notin Published => ready = "unset"
    /\ pc \in {"unassign", "finish"} => ready = IF result.valid THEN "true" ELSE "false"
    /\ ready = "true" => result.valid

\* A result that is not valid has a cause in what the run has learned: a
\* lookup that gave no account, or an account that lacks something.
Caused ==
    /\ unassigned => ~result.valid
    /\ pc \in {"friendbot", "refetch"} => outcome = "notFound" /\ refetched = "none"
    /\ pc \in {"issuer", "checks", "toml", "extra"} => account.funded /\ outcome # "none"
    /\ pc \in {"gate", "lookup"} => outcome = "none" /\ refetched = "none"
    /\ pc \in {"toml", "extra"} /\ ~result.valid => Lacking
    /\ pc \in Final /\ ~result.valid =>
          \/ Lacking
          \/ outcome = "none"
          \/ outcome = "notFound" /\ refetched # "account"
          \/ outcome \in Outages \cup {"cancelled"}
    /\ pc \in Final /\ outcome = "none" => pc = "done" /\ ~unassigned

IInv == /\ TypeOK /\ VerdictOK /\ Backed
        /\ OutageKept /\ TomlLate /\ FriendbotGates /\ UnassignedLate
        /\ ReadyOK /\ JobMatchesReady

-----------------------------------------------------------------------------
(* Results.                                                                *)

\* Every result is valid exactly if no check failed, and has the right type.
LEMMA VerdictType ==
  ASSUME NEW failed \in SUBSET Checks, NEW reason \in Reasons
  PROVE  /\ Verdict(failed, reason) \in Results
         /\ Verdict(failed, reason).failed = failed
         /\ Verdict(failed, reason).valid = (failed = {})
         /\ Verdict(failed, reason).reason = reason
  BY DEF Verdict, Results

\* Adding a check keeps earlier failures: the new result is valid only if the
\* old one was and the check passed.
LEMMA WithCheckType ==
  ASSUME NEW r \in Results,
         NEW check \in Checks, NEW fails \in BOOLEAN, NEW code \in Reasons
  PROVE  LET w == WithCheck(r, check, fails, code)
         IN  /\ w \in Results
             /\ w.valid = (w.failed = {})
             /\ w.valid => r.failed = {} /\ ~fails
  <1> DEFINE failed == IF fails THEN r.failed \cup {check} ELSE r.failed
             reason == IF failed # {} /\ r.reason = "SUCCESS" THEN code ELSE r.reason
  <1>1. failed \in SUBSET Checks /\ reason \in Reasons
    BY DEF Results
  <1>2. WithCheck(r, check, fails, code) = Verdict(failed, reason)
    BY DEF WithCheck
  <1>3. failed = {} => r.failed = {} /\ ~fails
    OBVIOUS
  <1> HIDE DEF failed, reason
  <1>4. /\ Verdict(failed, reason) \in Results
        /\ Verdict(failed, reason).failed = failed
        /\ Verdict(failed, reason).valid = (failed = {})
    BY <1>1, VerdictType
  <1> QED BY <1>2, <1>3, <1>4

\* A result becomes invalid only by the check that fails.
LEMMA WithCheckInvalid ==
  ASSUME NEW r \in Results,
         NEW check \in Checks, NEW fails \in BOOLEAN, NEW code \in Reasons
  PROVE  ~WithCheck(r, check, fails, code).valid => r.failed # {} \/ fails
  <1> DEFINE failed == IF fails THEN r.failed \cup {check} ELSE r.failed
             reason == IF failed # {} /\ r.reason = "SUCCESS" THEN code ELSE r.reason
  <1>1. failed \in SUBSET Checks /\ reason \in Reasons
    BY DEF Results
  <1>2. WithCheck(r, check, fails, code) = Verdict(failed, reason)
    BY DEF WithCheck
  <1>3. failed # {} => r.failed # {} \/ fails
    OBVIOUS
  <1> HIDE DEF failed, reason
  <1>4. Verdict(failed, reason).valid = (failed = {})
    BY <1>1, VerdictType
  <1> QED BY <1>2, <1>3, <1>4

\* runAccountChecks: a valid result means the trustline and, in strict mode,
\* the right issuer.
LEMMA CheckedType ==
  ASSUME TypeOK
  PROVE  /\ Checked \in Results
         /\ Checked.valid = (Checked.failed = {})
         /\ Checked.valid => account.trust /\ ~DomainBlocks
  <1> DEFINE failed == {c \in {"trustline"} : ~account.trust} \cup {c \in {"domain"} : DomainBlocks}
             reason == IF ~account.trust THEN "TRUSTLINE_MISSING"
                       ELSE IF ~DomainBlocks THEN "SUCCESS"
                       ELSE IF config.tomlFetch THEN "FAILED"
                       ELSE IF issuer = "wrong" THEN "HOME_DOMAIN_MISMATCH" ELSE "HOME_DOMAIN_MISSING"
  <1>1. failed \in SUBSET Checks
    BY DEF Checks
  <1>2. reason \in Reasons
    BY DEF Reasons
  <1>3. failed = {} => account.trust /\ ~DomainBlocks
    OBVIOUS
  <1>4. Checked = Verdict(failed, reason)
    BY DEF Checked
  <1> HIDE DEF failed, reason
  <1>5. /\ Verdict(failed, reason) \in Results
        /\ Verdict(failed, reason).failed = failed
        /\ Verdict(failed, reason).valid = (failed = {})
    BY <1>1, <1>2, VerdictType
  <1> QED BY <1>3, <1>4, <1>5

\* runAccountChecks fails only for the trustline or the issuer's domain.
LEMMA CheckedInvalid == ~Checked.valid => ~account.trust \/ DomainBlocks
  BY DEF Checked, Verdict

-----------------------------------------------------------------------------
(* The initial states and the steps.                                       *)

\* A run that has not started satisfies the invariant: no verdict, no output.
LEMMA InductiveInit == Init => IInv
  <1> SUFFICES ASSUME Init PROVE IInv
    OBVIOUS
  <1>1. NoResult \in Results
    BY DEF NoResult, Results, Checks, Reasons
  <1>2. NoAccount \in Ledgers
    BY DEF NoAccount, Ledgers
  <1>3. <<>> \in Threads /\ <<"earlier">> \in Threads
    BY DEF Threads
  <1>4. thread \in Threads
    BY <1>3 DEF Init
  <1>5. MaxPolls \in Nat /\ polls \in 0..MaxPolls
    BY RunAssumption DEF RunAssumption, Init
  <1>6. TypeOK
    BY <1>1, <1>2, <1>4, <1>5 DEF Init, TypeOK
  <1> QED
    BY <1>6 DEF Init, IInv, VerdictOK, Backed, OutageKept, UnassignedLate, TomlLate, FriendbotGates, ReadyOK,
                JobMatchesReady, NoResult, Open, Published, Listed

\* What a text posted on the issue leaves there.
LEMMA PostedType ==
  ASSUME thread \in Threads,
         NEW text \in {"summary", "report"}, NEW mode
  PROVE  Posted(text, mode) \subseteq Threads
  <1>1. Append(thread, text) \in Threads
    BY DEF Threads
  <1>2. thread # <<>> => [thread EXCEPT ![Len(thread)] = text] \in Threads
    BY DEF Threads
  <1> QED BY <1>1, <1>2 DEF Posted

\* The type of the outcome of a lookup.
LEMMA OutcomesType == Outcomes \subseteq Outages \cup {"account", "notFound", "cancelled"}
  BY DEF Outcomes

\* Every step keeps the types: what it reads outside the run (the ledger, the
\* outcome of a request, the comments of the issue) has the type it expects.
LEMMA TypeStep == TypeOK /\ [Next]_vars => TypeOK'
  <1> SUFFICES ASSUME TypeOK, [Next]_vars PROVE TypeOK'
    OBVIOUS
  <1> USE DEF inputs, effects
  <1>1. CASE UNCHANGED vars
    BY <1>1 DEF TypeOK, vars
  <1>2. CASE Skip
    BY <1>2 DEF TypeOK, Skip, End
  <1>3. CASE ReadInputs
    BY <1>3 DEF TypeOK, ReadInputs, End
  <1>4. CASE LookupFound
    BY <1>4 DEF TypeOK, LookupFound
  <1>5. CASE PollAgain
    BY <1>5, RunAssumption DEF TypeOK, PollAgain, RunAssumption
  <1>6. CASE LookupMissing
    <2>1. Unfunded \in Results
      BY VerdictType DEF Unfunded, Checks, Reasons
    <2> QED BY <1>6, <2>1 DEF TypeOK, LookupMissing
  <1>7. CASE LookupFails
    <2>1. PICK o \in Outcomes \ {"account", "notFound"} :
             /\ outcome' = o
             /\ result' = Failure(IF o = "cancelled" THEN "HORIZON_ERROR" ELSE o)
      BY <1>7 DEF LookupFails
    <2>2. o \in Outages \cup {"cancelled"}
      BY OutcomesType
    <2>3. result' \in Results
      <3> DEFINE code == IF o = "cancelled" THEN "HORIZON_ERROR" ELSE o
      <3>1. code \in Reasons /\ {"lookup"} \in SUBSET Checks
        BY <2>2 DEF Reasons, Outages, Listed, Checks
      <3> HIDE DEF code
      <3> QED BY <2>1, <3>1, VerdictType DEF Failure, code
    <2> QED BY <1>7, <2>1, <2>2, <2>3 DEF TypeOK, LookupFails
  <1>8. CASE FriendbotFunds \/ FriendbotFails
    <2>1. ledger' \in Ledgers
      <3>1. [ledger EXCEPT !.funded = TRUE] \in Ledgers
        BY DEF TypeOK, Ledgers
      <3> QED BY <1>8, <3>1 DEF TypeOK, FriendbotFunds, FriendbotFails
    <2> QED BY <1>8, <2>1 DEF TypeOK, FriendbotFunds, FriendbotFails
  <1>9. CASE Refetch
    <2>1. refetched' \in Outages \cup {"none", "account", "notFound", "cancelled"}
      BY <1>9, OutcomesType DEF Refetch
    <2> QED BY <1>9, <2>1 DEF TypeOK, Refetch
  <1>10. CASE FetchIssuer
    <2>1. config.domain \in {"right", "wrong", "unset"}
      BY RunAssumption DEF RunAssumption, TypeOK, ConfigFields
    <2> QED BY <1>10, <2>1 DEF TypeOK, FetchIssuer
  <1>11. CASE RunAccountChecks
    BY <1>11, CheckedType DEF TypeOK, RunAccountChecks
  <1>12. CASE TomlGate
    <2>1. toml' \in {"skipped", "ok", "failed"}
      BY <1>12 DEF TypeOK, TomlGate
    <2>2. result' \in Results
      <3>1. TomlBlocks(toml') \in BOOLEAN
        BY DEF TomlBlocks
      <3>2. WithCheck(result, "toml", TomlBlocks(toml'), "FAILED")
              \in Results
        BY <3>1, WithCheckType DEF TypeOK, Checks, Reasons
      <3> QED BY <1>12, <3>2 DEF TypeOK, TomlGate
    <2> QED BY <1>12, <2>1, <2>2 DEF TypeOK, TomlGate
  <1>13. CASE ExtraGate
    <2>1. WithCheck(result, "extra", ~account.extra, "EXTRA_TRUSTLINE_MISSING")
            \in Results
      BY WithCheckType DEF TypeOK, Checks, Reasons
    <2> QED BY <1>13, <2>1 DEF TypeOK, ExtraGate
  <1>14. CASE NoBatch
    BY <1>14 DEF TypeOK, NoBatch
  <1>15. CASE BadBatch
    BY <1>15 DEF TypeOK, BadBatch, End
  <1>16. CASE BatchSummary
    <2>1. thread' \in Threads
      <3>1. Posted("summary", EffectiveMode(config.mode)) \subseteq Threads
        BY PostedType DEF TypeOK
      <3> QED BY <1>16, <3>1 DEF TypeOK, BatchSummary
    <2>2. /\ pc' = "comment"
          /\ UNCHANGED <<inputs, ledger, signal, polls, account, result, friendbot, ready,
                         unassigned, job>>
      BY <1>16 DEF BatchSummary
    <2> QED BY <2>1, <2>2 DEF TypeOK
  <1>17. CASE PostReport
    <2>1. thread' \in Threads
      <3>1. Posted("report", EffectiveMode("unset")) \subseteq Threads
        BY PostedType DEF TypeOK
      <3> QED BY <1>17, <3>1 DEF TypeOK, PostReport
    <2> QED BY <1>17, <2>1 DEF TypeOK, PostReport
  <1>18. CASE SetOutputs
    BY <1>18 DEF TypeOK, SetOutputs
  <1>19. CASE AutoUnassign
    <2>1. unassigned' \in BOOLEAN
      BY <1>19 DEF AutoUnassign
    <2>2. /\ pc' = "finish"
          /\ UNCHANGED <<inputs, ledger, signal, polls, account, result, friendbot, thread, ready, job>>
      BY <1>19 DEF AutoUnassign
    <2> QED BY <2>1, <2>2 DEF TypeOK
  <1>20. CASE Finish
    BY <1>20 DEF TypeOK, Finish, End
  <1>21. CASE LedgerChanges
    BY <1>21 DEF TypeOK, LedgerChanges
  <1>22. CASE Cancel
    BY <1>22 DEF TypeOK, Cancel
  <1> QED
    BY <1>1, <1>2, <1>3, <1>4, <1>5, <1>6, <1>7, <1>8, <1>9, <1>10, <1>11, <1>12, <1>13, <1>14,
       <1>15, <1>16, <1>17, <1>18, <1>19, <1>20, <1>21, <1>22 DEF Next, RunStep

\* One case per step.  TomlGate and ExtraGate may only take validity away; a
\* step that leaves the result alone only has to move pc the right way.
LEMMA InductiveStep == IInv /\ [Next]_vars => IInv'
  <1> SUFFICES ASSUME IInv, [Next]_vars PROVE IInv'
    OBVIOUS
  <1>0. TypeOK'
    BY TypeStep DEF IInv
  <1> USE <1>0 DEF inputs, effects, IInv, Open, Published, Final, VerdictOK, Backed, OutageKept,
                   TomlLate, FriendbotGates, UnassignedLate, ReadyOK, JobMatchesReady, ShouldSkip
  <1>1. CASE UNCHANGED vars
    BY <1>1 DEF vars
  <1>2. CASE Skip
    BY <1>2 DEF Skip, End
  <1>3. CASE ReadInputs
    BY <1>3 DEF ReadInputs, End
  <1>4. CASE LookupFound
    BY <1>4 DEF LookupFound, Listed
  <1>5. CASE PollAgain
    BY <1>5 DEF PollAgain
  <1>6. CASE LookupMissing
    BY <1>6 DEF LookupMissing, Listed, Unfunded, Verdict
  <1>7. CASE LookupFails
    <2>1. PICK o \in Outcomes \ {"account", "notFound"} :
             /\ outcome' = o
             /\ result' = Failure(IF o = "cancelled" THEN "HORIZON_ERROR" ELSE o)
      BY <1>7 DEF LookupFails
    <2>2. result'.failed # {} /\ result'.valid = FALSE
      BY <2>1 DEF Failure, Verdict
    <2>3. outcome' \in Listed \cup {"cancelled"} => result'.reason \in Listed
      BY <2>1 DEF Failure, Verdict, Listed
    <2> QED
      BY <1>7, <2>2, <2>3 DEF LookupFails
  <1>8. CASE FriendbotFunds \/ FriendbotFails
    BY <1>8 DEF FriendbotFunds, FriendbotFails
  <1>9. CASE Refetch
    BY <1>9 DEF Refetch
  <1>10. CASE FetchIssuer
    BY <1>10 DEF FetchIssuer
  <1>11. CASE RunAccountChecks
    BY <1>11, CheckedType DEF RunAccountChecks, DomainBlocks, Ledgers, TypeOK
  <1>12. CASE TomlGate
    <2>1. /\ result'.valid = (result'.failed = {})
          /\ result'.valid => result.valid /\ (toml' = "failed" => ~config.pin /\ ~config.strict)
      <3> DEFINE asked == config.home /\ config.tomlFetch /\ toml' # "skipped"
      <3>1. CASE ~asked
        <4>1. result' = result /\ toml' # "failed"
          BY <1>12, <3>1 DEF TomlGate
        <4> QED BY <4>1
      <3>2. CASE asked
        <4> DEFINE w == WithCheck(result, "toml", TomlBlocks(toml'), "FAILED")
        <4>1. result' = w
          BY <1>12, <3>2 DEF TomlGate
        <4>2. TomlBlocks(toml') \in BOOLEAN /\ result \in Results
          BY DEF TomlBlocks, TypeOK
        <4>3. w.valid = (w.failed = {}) /\ (w.valid => result.failed = {} /\ ~TomlBlocks(toml'))
          BY <4>2, WithCheckType DEF Checks, Reasons
        <4> HIDE DEF w
        <4> QED BY <4>1, <4>3 DEF TomlBlocks
      <3> QED BY <3>1, <3>2
    <2>2. /\ pc = "toml" /\ pc' = "extra"
          /\ UNCHANGED <<config, issuer, outcome, refetched, effects, account, friendbot, job>>
      BY <1>12 DEF TomlGate
    <2> QED
      BY <2>1, <2>2
  <1>13. CASE ExtraGate
    <2>1. /\ result'.valid = (result'.failed = {})
          /\ result'.valid => result.valid /\ (config.extraAssets => account.extra)
      <3> DEFINE missing == ~account.extra
                 w == WithCheck(result, "extra", missing, "EXTRA_TRUSTLINE_MISSING")
      <3>1. result' = IF config.extraAssets THEN w ELSE result
        BY <1>13 DEF ExtraGate
      <3>2. missing \in BOOLEAN /\ result \in Results /\ (~missing => account.extra)
        BY DEF TypeOK
      <3> HIDE DEF missing
      <3>3. w.valid = (w.failed = {}) /\ (w.valid => result.failed = {} /\ ~missing)
        BY <3>2, WithCheckType DEF Checks, Reasons
      <3> HIDE DEF w
      <3> QED BY <3>1, <3>2, <3>3
    <2>2. /\ pc = "extra" /\ pc' = "batch"
          /\ UNCHANGED <<config, issuer, toml, outcome, refetched, effects, account, friendbot, job>>
      BY <1>13 DEF ExtraGate
    <2> QED
      BY <2>1, <2>2
  <1>14. CASE NoBatch \/ BadBatch \/ BatchSummary \/ PostReport
    BY <1>14 DEF NoBatch, BadBatch, BatchSummary, PostReport, End
  <1>18. CASE SetOutputs
    BY <1>18 DEF SetOutputs
  <1>19. CASE AutoUnassign
    BY <1>19 DEF AutoUnassign, MayUnassign, Listed
  <1>20. CASE Finish
    BY <1>20 DEF Finish, End
  <1>21. CASE LedgerChanges \/ Cancel
    BY <1>21 DEF LedgerChanges, Cancel
  <1> QED
    BY <1>1, <1>2, <1>3, <1>4, <1>5, <1>6, <1>7, <1>8, <1>9, <1>10, <1>11, <1>12, <1>13, <1>14,
       <1>18, <1>19, <1>20, <1>21 DEF Next, RunStep

\* The gates: what makes a result invalid is what the account lacks, and a
\* verdict that was valid stays so unless a gate fails.
LEMMA CausedStep == IInv /\ Caused /\ [Next]_vars => Caused'
  <1> SUFFICES ASSUME IInv, Caused, [Next]_vars PROVE Caused'
    OBVIOUS
  <1>0. TypeOK /\ TypeOK'
    BY TypeStep DEF IInv
  <1> USE <1>0 DEF inputs, effects, Open, Published, Final, Caused
  <1>1. CASE UNCHANGED vars
    BY <1>1 DEF vars, Lacking, DomainBlocks, TomlBlocks
  <1>2. CASE Skip \/ ReadInputs
    BY <1>2 DEF Skip, ReadInputs, End, IInv, UnassignedLate, Lacking, DomainBlocks, TomlBlocks
  <1>4. CASE LookupFound
    <2>1. ledger.funded
      BY <1>4 DEF LookupFound, Outcomes, Outages, Listed
    <2> QED BY <1>4, <2>1 DEF LookupFound, IInv, UnassignedLate
  <1>5. CASE PollAgain
    BY <1>5 DEF PollAgain
  <1>6. CASE LookupMissing
    BY <1>6 DEF LookupMissing, IInv, UnassignedLate
  <1>7. CASE LookupFails
    <2>1. outcome' \in Outages \cup {"cancelled"}
      BY <1>7, OutcomesType DEF LookupFails
    <2>2. outcome' # "none"
      BY <2>1 DEF Outages, Listed
    <2> QED BY <1>7, <2>1, <2>2 DEF LookupFails, IInv, UnassignedLate
  <1>8. CASE FriendbotFunds \/ FriendbotFails
    BY <1>8 DEF FriendbotFunds, FriendbotFails
  <1>9. CASE Refetch
    <2>1. PICK o \in Outcomes : /\ refetched' = o
                                /\ account' = IF o = "account" THEN ledger ELSE account
                                /\ pc' = IF o = "account" THEN "issuer" ELSE "batch"
      BY <1>9 DEF Refetch
    <2>2. o = "account" => ledger.funded
      BY DEF Outcomes, Outages, Listed
    <2> QED BY <1>9, <2>1, <2>2 DEF Refetch, IInv, UnassignedLate
  <1>10. CASE FetchIssuer
    BY <1>10 DEF FetchIssuer, IInv, UnassignedLate
  <1>11. CASE RunAccountChecks
    <2>1. ~Checked.valid => ~account.trust \/ DomainBlocks
      BY CheckedInvalid
    <2>2. pc = "checks" /\ account.funded /\ ~unassigned /\ outcome # "none"
      BY <1>11 DEF RunAccountChecks, IInv, UnassignedLate
    <2>3. /\ result' = Checked /\ pc' = IF friendbot THEN "batch" ELSE "toml"
          /\ UNCHANGED <<config, issuer, toml, account, friendbot, outcome, refetched, unassigned>>
      BY <1>11 DEF RunAccountChecks
    <2>4. ~result'.valid => Lacking'
      BY <2>1, <2>2, <2>3 DEF Lacking, DomainBlocks
    <2> QED BY <2>2, <2>3, <2>4
  <1>12. CASE TomlGate
    <2>1. /\ pc = "toml" /\ pc' = "extra"
          /\ UNCHANGED <<config, issuer, account, friendbot, outcome, refetched, unassigned>>
      BY <1>12 DEF TomlGate
    <2>2. account.funded /\ ~unassigned /\ ~friendbot
      BY <2>1 DEF IInv, UnassignedLate, FriendbotGates
    <2>3. ~result'.valid => ~result.valid \/ TomlBlocks(toml')
      <3>1. CASE result' = result
        BY <3>1
      <3>2. CASE result' = WithCheck(result, "toml", TomlBlocks(toml'), "FAILED")
        <4>1. TomlBlocks(toml') \in BOOLEAN /\ result \in Results
          BY DEF TomlBlocks, TypeOK
        <4> DEFINE w == WithCheck(result, "toml", TomlBlocks(toml'), "FAILED")
        <4>2. ~w.valid => result.failed # {} \/ TomlBlocks(toml')
          BY <4>1, WithCheckInvalid DEF Checks, Reasons
        <4> HIDE DEF w
        <4>3. result' = w
          BY <3>2 DEF w
        <4> QED BY <4>2, <4>3 DEF IInv, VerdictOK
      <3> QED BY <1>12, <3>1, <3>2 DEF TomlGate
    <2>4. ~result.valid => ~account.trust \/ DomainBlocks \/ TomlBlocks(toml) \/ (config.extraAssets /\ ~account.extra)
      BY <2>1 DEF Lacking
    <2>5. TomlBlocks(toml) => FALSE
      BY <2>1 DEF TomlBlocks, IInv, TomlLate
    <2>6. ~result'.valid => Lacking'
      BY <2>1, <2>2, <2>3, <2>4, <2>5 DEF Lacking, DomainBlocks, TomlBlocks
    <2> QED BY <2>1, <2>2, <2>6
  <1>13. CASE ExtraGate
    <2>1. /\ pc = "extra" /\ pc' = "batch"
          /\ UNCHANGED <<config, issuer, toml, account, friendbot, outcome, refetched, unassigned>>
      BY <1>13 DEF ExtraGate
    <2>2. account.funded /\ ~unassigned /\ ~friendbot
      BY <2>1 DEF IInv, UnassignedLate, FriendbotGates
    <2>3. ~result'.valid => ~result.valid \/ (config.extraAssets /\ ~account.extra)
      <3>1. CASE result' = result
        BY <3>1
      <3>2. CASE config.extraAssets
        <4> DEFINE missing == ~account.extra
                   w == WithCheck(result, "extra", missing, "EXTRA_TRUSTLINE_MISSING")
        <4>1. missing \in BOOLEAN /\ result \in Results /\ (missing => ~account.extra)
          BY DEF TypeOK
        <4>2. result' = w
          BY <1>13, <3>2 DEF ExtraGate
        <4> HIDE DEF missing
        <4>3. ~w.valid => result.failed # {} \/ missing
          BY <4>1, WithCheckInvalid DEF Checks, Reasons
        <4> HIDE DEF w
        <4> QED BY <3>2, <4>1, <4>2, <4>3 DEF IInv, VerdictOK
      <3> QED BY <1>13, <3>1, <3>2 DEF ExtraGate
    <2>4. ~result'.valid => Lacking'
      BY <2>1, <2>2, <2>3 DEF Lacking, DomainBlocks, TomlBlocks
    <2>5. outcome # "none"
      BY <2>1 DEF IInv
    <2> QED BY <2>1, <2>2, <2>4, <2>5
  <1>14. CASE NoBatch \/ BadBatch \/ BatchSummary \/ PostReport
    <2>1. UNCHANGED <<config, issuer, toml, account, friendbot, outcome, refetched, result, unassigned>>
      BY <1>14 DEF NoBatch, BadBatch, BatchSummary, PostReport
    <2>2. pc \in Final \ {"done"} /\ pc' \in Final /\ ~unassigned
      BY <1>14 DEF NoBatch, BadBatch, BatchSummary, PostReport, End, IInv, UnassignedLate
    <2>3. Lacking' = Lacking
      BY <2>1 DEF Lacking, DomainBlocks, TomlBlocks
    <2> QED BY <2>1, <2>2, <2>3
  <1>18. CASE SetOutputs \/ AutoUnassign \/ Finish
    <2>1. UNCHANGED <<config, issuer, toml, account, friendbot, outcome, refetched, result>>
      BY <1>18 DEF SetOutputs, AutoUnassign, Finish
    <2>2. pc \in Final \ {"done"} /\ pc' \in Final
      BY <1>18 DEF SetOutputs, AutoUnassign, Finish, End
    <2>3. unassigned' => unassigned \/ ~result.valid
      BY <1>18 DEF SetOutputs, AutoUnassign, MayUnassign, Finish
    <2>4. Lacking' = Lacking
      BY <2>1 DEF Lacking, DomainBlocks, TomlBlocks
    <2> QED BY <2>1, <2>2, <2>3, <2>4
  <1>21. CASE LedgerChanges \/ Cancel
    <2>1. UNCHANGED <<config, issuer, toml, account, friendbot, outcome, refetched, result, unassigned, pc>>
      BY <1>21 DEF LedgerChanges, Cancel
    <2>2. Lacking' = Lacking
      BY <2>1 DEF Lacking, DomainBlocks, TomlBlocks
    <2> QED BY <2>1, <2>2
  <1> QED
    BY <1>1, <1>2, <1>4, <1>5, <1>6, <1>7, <1>8, <1>9, <1>10, <1>11, <1>12, <1>13, <1>14,
       <1>18, <1>21 DEF Next, RunStep

-----------------------------------------------------------------------------
(* The theorems.                                                           *)

LEMMA Invariant == Spec => [](IInv /\ Caused)
  <1>1. Init => IInv /\ Caused
    BY InductiveInit DEF Init, Caused, NoResult, Final, Published
  <1>2. IInv /\ Caused /\ [Next]_vars => IInv' /\ Caused'
    BY InductiveStep, CausedStep
  <1> QED BY <1>1, <1>2, PTL DEF Spec

\* Every variable of a run keeps its type, whatever inputs it is given: no
\* step of run leaves a result, an output or a comment of another shape.
THEOREM TypeCorrect == Spec => []TypeOK
  <1>1. IInv => TypeOK
    BY DEF IInv
  <1> QED BY <1>1, Invariant, PTL

\* ready = true is backed by what Horizon answered in this run, for every
\* combination of inputs: no path through the gates, Friendbot or the batch
\* publishes a verdict the checks did not give (setActionOutputs in run).
THEOREM ReadyBacked == Spec => []ReadyIsBacked
  <1>1. IInv => ReadyIsBacked
    BY DEF IInv, ReadyOK, Backed, Published, ReadyIsBacked
  <1> QED BY <1>1, Invariant, PTL

\* No configuration and no path through Friendbot, the gates and the batch
\* costs a contributor the assignment without a cause Horizon gave in this
\* run, except for HORIZON_WAIT_BUDGET_EXHAUSTED (handleAutoUnassign).
THEOREM UnassignmentIsCaused == Spec => []UnassignedForCause
  <1>1. IInv /\ Caused => UnassignedForCause
    <2> SUFFICES ASSUME IInv, Caused, unassigned PROVE UnassignedForCause
      BY DEF UnassignedForCause
    <2>1. pc \in Final /\ ~result.valid /\ outcome # "none"
      BY DEF IInv, UnassignedLate, Caused, Final, Published
    <2>2. outcome \notin Listed \cup {"cancelled"}
      BY DEF IInv, OutageKept
    <2> QED BY <2>1, <2>2 DEF IInv, Caused, UnassignedForCause, Outages
  <1> QED BY <1>1, Invariant, PTL

\* The result of the job agrees with the ready output for every configuration:
\* with fail_on_missing no job is green without ready or a skip, and none is
\* red with it (the end of run).
THEOREM JobAgrees == Spec => []JobMatchesReady
  <1>1. IInv => JobMatchesReady
    BY DEF IInv
  <1> QED BY <1>1, Invariant, PTL

=============================================================================
