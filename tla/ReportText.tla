----------------------------- MODULE ReportText -----------------------------
(***************************************************************************)
(* The text of the report: formatCommentBody with its sections and its     *)
(* shortening, the limit of the posted body, and the report file           *)
(* (src/comment.ts, src/index.ts).  The checklist is one of the sections;  *)
(* which of its boxes are ticked is not part of the model.                 *)
(*                                                                         *)
(* A text is a sequence of characters, each with the section it belongs to *)
(* and its bytes.  A section is one character and a line end; only the     *)
(* remediation is longer.                                                  *)
(***************************************************************************)
EXTENDS Integers, Sequences, FiniteSets, FiniteSetsExt

CONSTANTS
    ReportInputs,  \* the results and settings a report is built from
    SafeLimit,     \* MAX_COMMENT_LENGTH
    HardLimit,     \* COMMENT_SIZE_LIMIT_BYTES
    MaxReports     \* bound: how many reports there are

\* A remediation is any text that is no section itself.
RemedyChars == [part : {"remedy"}, width : {1, 2}, newline : BOOLEAN]
Reported == [flags : SUBSET STRING, policy : {"fail", "warn", "ignore"}, remediation : Seq(RemedyChars),
             batch : Nat]

\* The limits leave room for the marker and a notice.
ASSUME LimitsAssumption ==
    /\ SafeLimit \in Nat /\ HardLimit \in Nat /\ 6 <= SafeLimit /\ SafeLimit <= HardLimit
    /\ ReportInputs \subseteq Reported

VARIABLES
    input,       \* what the present report is built from
    composed,    \* the text formatCommentBody returned
    comment,     \* the text of the sticky comment
    reportFile,  \* of the full report: "none", "written" or "failed"
    reports      \* how many reports were composed

reportVars == <<input, composed, comment, reportFile, reports>>

-----------------------------------------------------------------------------
(* Bytes, and prefixes that fit.                                           *)

Char(part, width) == [part |-> part, width |-> width, newline |-> FALSE]
Newline(part) == [part |-> part, width |-> 1, newline |-> TRUE]

\* A character takes one or two bytes.
PrefixBytes(text, n) == n + Cardinality({i \in 1..n : text[i].width = 2})
Bytes(text) == PrefixBytes(text, Len(text))

\* takeUtf8Prefix: characters are never split.
takeUtf8Prefix(text, limit) ==
    SubSeq(text, 1, Max({n \in 0..Len(text) : n = 0 \/ PrefixBytes(text, n) <= limit}))

\* takeUtf8PrefixAtLineBoundary: up to the last line end of that prefix.
takeUtf8PrefixAtLineBoundary(text, limit) ==
    LET prefix == takeUtf8Prefix(text, limit)
        ends == {n \in 1..Len(prefix) : prefix[n].newline}
    IN IF prefix = text \/ ends = {} THEN prefix ELSE SubSeq(prefix, 1, Max(ends))

-----------------------------------------------------------------------------
(* The sections, in their order.  in.flags are the optional ones whose     *)
(* input or result is there.                                               *)

Shown(in, name) == IF name \in in.flags THEN <<name>> ELSE <<>>

\* Marker, schema version, snooze marker and header; results; the banners.
\* The banner on authorization is for an unauthorized trustline unless the
\* policy ignores it.
OpeningSections(in) ==
    <<"marker", "header", "results">>
    \o (IF "unauthorized" \in in.flags /\ in.policy # "ignore" THEN <<"authorization">> ELSE <<>>)
    \o Shown(in, "circuit")

\* Checklist unless it is switched off; data quality; delta.
StateSections(in) ==
    Shown(in, "checklist") \o Shown(in, "freshness") \o Shown(in, "passphrase") \o Shown(in, "delta")

\* The gate with the reason code, balances, assets, setup cost, links.  The
\* deep links need the address and are left out in privacy mode.
VerdictSections(in) ==
    <<"gate", "balances">> \o Shown(in, "assets") \o <<"setup", "links">>
    \o (IF "privacy" \in in.flags THEN <<>> ELSE Shown(in, "sep7"))
    \o Shown(in, "sep10")

SponsorSections(in) == Shown(in, "sponsorship")

\* Configuration, outputs, metrics, diagnostics, template and footer.
ClosingSections(in) ==
    <<"config", "outputs">> \o Shown(in, "metrics") \o Shown(in, "diagnostics") \o Shown(in, "template") \o <<"footer">>

TextOf(names) ==
    [i \in 1..2 * Len(names) |->
        LET n == names[(i + 1) \div 2] IN IF i % 2 = 1 THEN Char(n, 1) ELSE Newline(n)]

RemediationText(chars) ==
    IF chars = <<>> THEN <<>>
    ELSE TextOf(<<"remedyHeading">>) \o chars \o <<Newline("remedyEnd")>>

\* buildWithRemediation.
Build(in, chars) ==
    TextOf(OpeningSections(in) \o StateSections(in) \o VerdictSections(in) \o SponsorSections(in))
    \o RemediationText(chars) \o TextOf(ClosingSections(in))

Suffix == <<Char("cut", 1), Newline("cut")>>

\* What is left for the remediation, beside its heading and line end.
RemediationBudget(in) ==
    LET bare == Bytes(Build(in, <<>>)) IN
    SafeLimit - Bytes(Suffix) - bare - (Bytes(Build(in, <<Char("remedy", 1)>>)) - bare - 1)

\* formatCommentBody: the remediation is shortened first, then the text.
formatCommentBody(in) ==
    LET full == Build(in, in.remediation) IN
    IF Bytes(full) <= SafeLimit THEN full
    ELSE takeUtf8PrefixAtLineBoundary(
             Build(in, takeUtf8Prefix(in.remediation, RemediationBudget(in))), SafeLimit - Bytes(Suffix))
         \o Suffix

Notice == <<Char("notice", 1), Newline("notice"), Char("cut", 1), Newline("cut")>>

\* Mutation of fitCommentBodyToLimit: the notice is put on top of the limit.
fitCommentBodyToLimitAndNotice(text) ==
    IF Bytes(text) <= HardLimit THEN text
    ELSE takeUtf8PrefixAtLineBoundary(text, HardLimit) \o Notice

\* buildTruncatedCommentBody, which fitCommentBodyToLimit calls on a text
\* above the limit of GitHub.
fitCommentBodyToLimit(text) ==
    IF Bytes(text) <= HardLimit THEN text
    ELSE takeUtf8PrefixAtLineBoundary(text, HardLimit - Bytes(Notice)) \o Notice

\* The summary of a batch, a line for each address and one for the table.
BatchText(rows) == TextOf([i \in 1..rows |-> "row"])

Parts(text) == {text[i].part : i \in DOMAIN text}

\* A section is there from its first character to its last line end.
Complete(part, text) ==
    \E i, j \in DOMAIN text : text[i] = Char(part, 1) /\ text[j] = Newline(part)

-----------------------------------------------------------------------------
ReportInit ==
    /\ input = [flags |-> {}, policy |-> "warn", remediation |-> <<>>, batch |-> 0]
    /\ composed = <<>>
    /\ comment = <<>>
    /\ reportFile = "none"
    /\ reports = 0

Compose ==
    /\ composed = <<>> /\ reports < MaxReports
    /\ reports' = reports + 1
    /\ \E in \in ReportInputs :
          /\ input' = in
          /\ composed' = IF in.batch > 0 THEN BatchText(in.batch) ELSE formatCommentBody(in)
    /\ reportFile' = "none"
    /\ UNCHANGED comment

\* The sticky comment is written, and the report file, by the size of the
\* text that was composed; writeFullReport may fail, which is a warning.
Post ==
    /\ composed # <<>>
    /\ comment' = fitCommentBodyToLimit(composed)
    /\ reportFile' \in IF Bytes(composed) > HardLimit /\ input.batch = 0
                       THEN {"written", "failed"} ELSE {"none"}
    /\ composed' = <<>>
    /\ UNCHANGED <<input, reports>>

ReportNext == Compose \/ Post

ReportSpec == ReportInit /\ [][ReportNext]_reportVars

-----------------------------------------------------------------------------
(* Properties.                                                             *)

Posted == comment # <<>> /\ composed = <<>>

\* What is posted fits, is still recognised by its marker, and says so when
\* something was cut.
PostedFits ==
    Posted =>
        LET whole == IF input.batch > 0 THEN BatchText(input.batch) ELSE Build(input, input.remediation) IN
        /\ Bytes(comment) <= HardLimit
        /\ comment[1].part = whole[1].part
        /\ "cut" \in Parts(comment) <=> comment # whole

\* Only the remediation is shortened as long as the rest fits ("oversized
\* remediation was shortened to preserve core checklist sections").
CoreSurvives ==
    Posted /\ input.batch = 0 /\ Bytes(Build(input, <<>>)) <= SafeLimit - Bytes(Suffix) =>
        \A part \in Parts(Build(input, <<>>)) : Complete(part, comment)

\* Shortening a report never costs its marker, its sections or the notice
\* (formatCommentBody, then fitCommentBodyToLimit).
ShorteningIsSafe == PostedFits /\ CoreSurvives
=============================================================================
