----------------------------- MODULE MCReporting -----------------------------
(* From an account to what the outside sees of it: the checks of an account,  *)
(* the rows of a batch, the text of the report, the comparison with the       *)
(* previous run, the reports of successive runs, and the check run and        *)
(* project board. The six share no variable, so each behaviour follows one of *)
(* them, named by part, and the states add up.                                *)
EXTENDS AccountChecks, ReportText, PreviousRun, Publishing, BatchValidation, ReportHistory

VARIABLE part

Line(authorized, clawback, limit, balance) ==
  [exists |-> TRUE, authorized |-> authorized, clawback |-> clawback, limit |-> limit, balance |-> balance]
MCWallets ==
  {w \in [funded : {TRUE}, xlm : {0, 2, 4}, subentries : {0, 1, 2}, sponsoring : {0, 1}, sponsored : {0, 2},
          line : {NoLine, Line(TRUE, FALSE, 2, 1), Line(FALSE, TRUE, 1, 0), Line(TRUE, TRUE, 1, 1), Line(TRUE, FALSE, 2, 2)},
          claimables : {0, 1}] :
     w.line.exists => w.subentries > 0}
BaseConfig == [sac |-> FALSE, policy |-> "warn", clawbackStrict |-> FALSE, floor |-> 3, minAsset |-> 0, minLimit |-> "unset",
          domainMode |-> "off", expected |-> "", toml |-> FALSE, claimables |-> "ignore", open |-> TRUE]
MCConfigs ==
  {[BaseConfig EXCEPT !.policy = p, !.clawbackStrict = k, !.floor = fl, !.minAsset = a, !.minLimit = l] :
     p \in {"fail", "warn"}, k \in BOOLEAN, fl \in {0, 3}, a \in {0, 11}, l \in {"unset", "zero", "two"}}
  \cup {[BaseConfig EXCEPT !.domainMode = d[1], !.expected = d[2], !.toml = d[3], !.claimables = d[4], !.open = o] :
     d \in {<<"strict", "d1", FALSE, "ignore">>, <<"strict", "", TRUE, "ignore">>, <<"off", "", FALSE, "count">>}, o \in BOOLEAN}
  \cup {[BaseConfig EXCEPT !.sac = TRUE, !.domainMode = "warn", !.expected = "d1"],
        [BaseConfig EXCEPT !.policy = "ignore", !.domainMode = "warn"]}

Widths == {<<>>, <<1>>, <<2, 1>>, <<1, 2, 2, 1>>, <<2, 2, 2, 2, 2>>}
Remedies == {[i \in DOMAIN w |-> Char("remedy", w[i])] : w \in Widths}
Everything == {"checklist", "circuit", "freshness", "passphrase", "delta", "assets", "sep7", "privacy", "sep10", "diagnostics", "template"}
MCInputs ==
  [flags : SUBSET {"checklist", "unauthorized", "metrics"}, policy : {"fail", "ignore"}, remediation : Remedies,
   batch : {0}]
  \cup [flags : {Everything, {"sep7"}}, policy : {"warn"}, remediation : Remedies, batch : {0}]
  \cup [flags : {{}}, policy : {"warn"}, remediation : {<<>>}, batch : {3, 16}]

CheckRow(label, good) == [label |-> label, passed |-> good]
MCChecks == {<<>>, <<CheckRow("a", TRUE)>>, <<CheckRow("a", FALSE)>>, <<CheckRow("a", TRUE), CheckRow("b", TRUE)>>,
             <<CheckRow("a", TRUE), CheckRow("b", FALSE)>>, <<CheckRow("b", FALSE), CheckRow("b", TRUE)>>}

MCResults ==
  {[checks |-> <<CheckRow("home domain", TRUE)>>, valid |-> TRUE, domainWarning |-> TRUE],
   [checks |-> <<CheckRow("home domain", TRUE)>>, valid |-> FALSE, domainWarning |-> FALSE],
   [checks |-> <<CheckRow("account", TRUE), CheckRow("trustline", FALSE), CheckRow("home domain", TRUE)>>, valid |-> FALSE, domainWarning |-> FALSE]}
MCBoards == {[field |-> "missing", options |-> {}], [field |-> "select", options |-> {"pass"}],
             [field |-> "text", options |-> {}]}

Entries == Addresses \cup {Blank, Malformed}
MCLists == {<<>>} \cup {<<a>> : a \in Entries} \cup {<<a, b>> : a, b \in Entries} \cup {<<a, b, c>> : a, b, c \in Entries}
BaseBatch == [budget |-> 3, home |-> FALSE, strict |-> FALSE, clawback |-> TRUE, fromRun |-> FALSE]
\* A library caller without and with the strict policies, and the action.
MCBatchConfigs == {BaseBatch, [BaseBatch EXCEPT !.home = TRUE, !.strict = TRUE],
                   [BaseBatch EXCEPT !.home = TRUE, !.strict = TRUE, !.clawback = FALSE, !.fromRun = TRUE]}

Init ==
  /\ part \in {"checks", "text", "previous", "publishing", "batch", "history"}
  /\ AccountInit /\ ReportInit /\ PreviousInit /\ PublishingInit /\ BatchInit /\ HistoryInit
  /\ part # "publishing" => board.field = "missing"
Next ==
  \/ part = "checks" /\ AccountNext
       /\ UNCHANGED <<part, reportVars, previousVars, publishingVars, batchVars, historyVars>>
  \/ part = "text" /\ ReportNext
       /\ UNCHANGED <<part, accountVars, previousVars, publishingVars, batchVars, historyVars>>
  \/ part = "previous" /\ PreviousNext
       /\ UNCHANGED <<part, accountVars, reportVars, publishingVars, batchVars, historyVars>>
  \/ part = "publishing" /\ PublishingNext
       /\ UNCHANGED <<part, accountVars, reportVars, previousVars, batchVars, historyVars>>
  \/ part = "batch" /\ BatchNext
       /\ UNCHANGED <<part, accountVars, reportVars, previousVars, publishingVars, historyVars>>
  \/ part = "history" /\ HistoryNext
       /\ UNCHANGED <<part, accountVars, reportVars, previousVars, publishingVars, batchVars>>
=============================================================================
