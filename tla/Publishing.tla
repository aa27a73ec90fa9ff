----------------------------- MODULE Publishing -----------------------------
(***************************************************************************)
(* What a run publishes beside its comment: the Check Run                  *)
(* (src/checks-run.ts), then the status on a project board                 *)
(* (src/projects.ts).  Several runs publish for one issue; the API may     *)
(* refuse, fail after it has done what was asked, or lose the answer; a    *)
(* library caller may cancel the Check Run at any time (run passes no      *)
(* signal).                                                                *)
(*                                                                         *)
(* A result is a list of checks, each [label, passed], and its verdict.    *)
(* The board is one item: whether it is there and its status.              *)
(***************************************************************************)
EXTENDS Integers, Sequences, FiniteSetsExt

CONSTANTS
    Publishers, \* the runs
    Results,    \* results: [checks, valid, domainWarning]
    Boards,     \* boards: [field, options], the kind and options of the status field
    MaxAnnotations \* 50: what one request of the Checks API takes

\* A valid result has no check that failed (checks.ts).
ASSUME PublishingAssumption ==
    /\ \A r \in Results :
          /\ r.checks \in Seq({r.checks[i] : i \in DOMAIN r.checks}) /\ r.valid \in BOOLEAN
          /\ r.valid => \A i \in DOMAIN r.checks : r.checks[i].passed
    /\ MaxAnnotations \in Nat

VARIABLES
    board,      \* its fields and the options of its status field
    item,       \* [on, status] of the issue on the board
    checkRuns,  \* the Check Runs GitHub holds: [by, conclusion, annotations]
    step,       \* of each run: the call it waits for
    result,     \* of each run: its result
    context,    \* of each run: whether it has what each channel needs
    known,      \* of each run: the board as it read it
    setter,     \* history: the run whose status the board took last
    cancelled,  \* runs whose signal is aborted
    told        \* of each run: what Check Run and board came to

publishingVars == <<board, item, checkRuns, step, result, context, known, setter, cancelled, told>>

NoBoard == [field |-> "unread", options |-> {}]
NoResult == [checks |-> <<>>, valid |-> FALSE, domainWarning |-> FALSE]
Untold == [check |-> "none", board |-> "none"]
NoContext == [check |-> FALSE, board |-> FALSE]
NobodyYet == "nobody"

Verdict(r) == IF r.valid THEN "pass" ELSE "fail"

-----------------------------------------------------------------------------
PublishingInit ==
    /\ board \in Boards
    /\ item = [on |-> FALSE, status |-> "none"]
    /\ checkRuns = {}
    /\ step = [p \in Publishers |-> "start"]
    /\ result = [p \in Publishers |-> NoResult]
    /\ context = [p \in Publishers |-> NoContext]
    /\ known = [p \in Publishers |-> NoBoard]
    /\ setter = NobodyYet
    /\ cancelled = {}
    /\ told = [p \in Publishers |-> Untold]

Goto(p, where) == step' = [step EXCEPT ![p] = where]
TellCheck(p, answer) == told' = [told EXCEPT ![p].check = answer]
TellBoard(p, answer) == told' = [told EXCEPT ![p].board = answer]

\* A run has its result.  A Check Run needs the id and the repository of the
\* run and is made with use_check_runs only; the board needs its id, a status,
\* a token and the node of the issue.
Publish(p) ==
    /\ step[p] = "start"
    /\ \E r \in Results, c \in [check : BOOLEAN, board : BOOLEAN], useCheckRuns \in BOOLEAN :
          /\ result' = [result EXCEPT ![p] = r]
          /\ context' = [context EXCEPT ![p] = c]
          /\ Goto(p, IF useCheckRuns THEN "check" ELSE "board")
    /\ UNCHANGED <<board, item, checkRuns, known, setter, cancelled, told>>

-----------------------------------------------------------------------------
(* checks-run.ts.                                                          *)

\* Mutation of determineCheckConclusion: the rows are looked at again.
determineCheckConclusionOfRows(r) ==
    IF \A i \in DOMAIN r.checks : r.checks[i].passed THEN "success" ELSE "failure"

determineCheckConclusion(r) == IF r.valid THEN "success" ELSE "failure"

\* buildCheckAnnotations: one per check; a home domain that only warns stands
\* out though its row passes.
Level(r, c) ==
    IF ~c.passed THEN "failure"
    ELSE IF r.domainWarning /\ c.label = "home domain" THEN "warning" ELSE "notice"

\* Only the first rows, as many as the API takes.
Annotations(r) ==
    [i \in 1..Min({Len(r.checks), MaxAnnotations}) |->
        [label |-> r.checks[i].label, level |-> Level(r, r.checks[i])]]

\* createCheckRun: the signal is looked at before the request is made, and
\* nothing is asked without a run id, an owner and a repository.
RequestCheck(p) ==
    /\ step[p] = "check"
    /\ \/ p \in cancelled /\ TellCheck(p, "cancelled") /\ Goto(p, "board")
       \/ ~context[p].check /\ p \notin cancelled /\ TellCheck(p, "skipped") /\ Goto(p, "board")
       \/ context[p].check /\ p \notin cancelled /\ Goto(p, "check asked") /\ UNCHANGED told
    /\ UNCHANGED <<board, item, checkRuns, result, context, known, setter, cancelled>>

\* GitHub writes the Check Run, or refuses.
WriteCheck(p) ==
    /\ step[p] = "check asked"
    /\ \/ /\ checkRuns' = checkRuns \cup
                {[by |-> p, conclusion |-> determineCheckConclusion(result[p]),
                  annotations |-> Annotations(result[p])]}
          /\ Goto(p, "check written")
          /\ UNCHANGED told
       \/ \E refusal \in {"403", "failed"} :
             /\ p \notin cancelled
             /\ TellCheck(p, refusal)
             /\ Goto(p, "board")
             /\ UNCHANGED checkRuns
    /\ UNCHANGED <<board, item, result, context, known, setter, cancelled>>

\* The answer, or an error instead of it: an abort is told as a cancellation,
\* whatever GitHub has done.
AnswerCheck(p) ==
    /\ \/ step[p] = "check written" /\ TellCheck(p, "created")
       \/ step[p] = "check written" /\ p \notin cancelled /\ TellCheck(p, "failed")
       \/ step[p] \in {"check asked", "check written"} /\ p \in cancelled /\ TellCheck(p, "cancelled")
    /\ Goto(p, "board")
    /\ UNCHANGED <<board, item, checkRuns, result, context, known, setter, cancelled>>

Abort(p) ==
    /\ step[p] \in {"check", "check asked", "check written"}
    /\ cancelled' = cancelled \cup {p}
    /\ UNCHANGED <<board, item, checkRuns, step, result, context, known, setter, told>>

-----------------------------------------------------------------------------
(* projects.ts: updateProjectV2Status.                                     *)

Leave(p, how) == TellBoard(p, how) /\ Goto(p, "over")

\* The fields of the project.
ReadFields(p) ==
    /\ step[p] = "board"
    /\ \/ ~context[p].board /\ Leave(p, "skipped") /\ UNCHANGED known
       \/ context[p].board /\ Leave(p, "failed") /\ UNCHANGED known
       \/ /\ context[p].board
          /\ known' = [known EXCEPT ![p] = board]
          /\ IF board.field = "missing" THEN Leave(p, "failed") ELSE Goto(p, "add") /\ UNCHANGED told
    /\ UNCHANGED <<board, item, checkRuns, result, context, setter, cancelled>>

\* The item is added, whether or not it was there, before the option is
\* looked up.
AddItem(p) ==
    /\ step[p] = "add"
    /\ \/ Leave(p, "failed") /\ UNCHANGED item
       \/ /\ item' = [item EXCEPT !.on = TRUE]
          /\ \/ Leave(p, "failed")
             \/ IF known[p].field = "select" /\ Verdict(result[p]) \notin known[p].options
                THEN Leave(p, "failed")
                ELSE Goto(p, "set") /\ UNCHANGED told
    /\ UNCHANGED <<board, checkRuns, result, context, known, setter, cancelled>>

\* The status is set; GitHub refuses an option, or a kind of field, that is
\* gone by now.
SetStatus(p) ==
    /\ step[p] = "set"
    /\ \/ Leave(p, "failed") /\ UNCHANGED <<item, setter>>
       \/ /\ board.field = known[p].field
          /\ board.field = "select" => Verdict(result[p]) \in board.options
          /\ item' = [item EXCEPT !.status = Verdict(result[p])]
          /\ setter' = p
          /\ \E how \in {"updated", "failed"} : Leave(p, how)
    /\ UNCHANGED <<board, checkRuns, result, context, known, cancelled>>

\* People edit the fields of the board.
EditBoard ==
    /\ \E b \in Boards : board' = b
    /\ UNCHANGED <<item, checkRuns, step, result, context, known, setter, cancelled, told>>

PublishingNext ==
    \/ \E p \in Publishers :
          \/ Publish(p)
          \/ RequestCheck(p) \/ WriteCheck(p) \/ AnswerCheck(p) \/ Abort(p)
          \/ ReadFields(p) \/ AddItem(p) \/ SetStatus(p)
    \/ EditBoard

PublishingSpec == PublishingInit /\ [][PublishingNext]_publishingVars

-----------------------------------------------------------------------------
(* Properties.                                                             *)

\* What a run is told of its Check Run is so, whichever call failed or was
\* cancelled: "created" is there, what was refused or skipped is not, and a
\* success has no failing annotation (createCheckRun).
CheckRunsAsTold ==
    /\ \A p \in Publishers :
          /\ told[p].check = "created" => \E c \in checkRuns : c.by = p
          /\ told[p].check \in {"skipped", "403"} => \A c \in checkRuns : c.by # p
    /\ \A c \in checkRuns : c.conclusion = "success" =>
          \A i \in DOMAIN c.annotations : c.annotations[i].level # "failure"

\* The status of the board is that of one run which the board has had its
\* item of, and the Check Run of that run, if there is one, says the same.
BoardMatchesCheckRun ==
    item.status # "none" =>
        /\ setter \in Publishers /\ item.on
        /\ \A c \in checkRuns : c.by = setter =>
              (c.conclusion = "success" <=> item.status = "pass")

\* Runs that are all told that both channels are written, and whose Check Runs
\* all say the same, leave that on the board, in whichever order their calls
\* came.
AgreeingRunsAgree ==
    Publishers # {} /\ (\A p \in Publishers : told[p] = [check |-> "created", board |-> "updated"]) =>
        \A shown \in {"success", "failure"} :
            (\A c \in checkRuns : c.conclusion = shown) =>
                item.status # "none" /\ (item.status = "pass" <=> shown = "success")

\* Check Run and board show one verdict (createCheckRun,
\* updateProjectV2Status, run).
ChannelsAgree == CheckRunsAsTold /\ BoardMatchesCheckRun /\ AgreeingRunsAgree
=============================================================================
