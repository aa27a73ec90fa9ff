--------------------------- MODULE ReportPromise ---------------------------
(***************************************************************************)
(* What the snooze window promises to the readers of a thread (the header   *)
(* of src/snooze.ts): every run answers with a report, except that a run    *)
(* which failed may stay silent for a while after an earlier failing report *)
(* or after somebody asked for silence with a reaction.  A run that passed  *)
(* is never silent.  How a run finds the earlier report, and what may go    *)
(* wrong on the way, is left to module ReportHistory.                       *)
(***************************************************************************)
EXTENDS Integers

CONSTANTS
    Places,    \* the threads a report may be posted to
    Window,    \* snoozeWindowMs
    Skew       \* how far the clock of a runner may be ahead

VARIABLES
    now,       \* the time at GitHub
    last,      \* the newest report of each thread: its verdict and its time
    asked,     \* when somebody reacted to it
    verdict,   \* of the latest run
    answer     \* what the latest run came to

promise == <<now, last, asked, verdict, answer>>

NoReport == [verdict |-> "none", at |-> 0]

Verdicts == {"pass", "fail", "unmarked"}

Init ==
    /\ now = 0
    /\ last \in [Places -> {NoReport}]
    /\ asked = [p \in Places |-> {}]
    /\ verdict = "none"
    /\ answer = "none"

Tick == now' = now + 1 /\ UNCHANGED <<last, asked, verdict, answer>>

\* Somebody reacts to the newest report, or takes the reaction back: what
\* was asked once may have been seen by a run.
Ask(p) ==
    /\ asked' = [asked EXCEPT ![p] = @ \cup {now}]
    /\ UNCHANGED <<now, last, verdict, answer>>

\* A run starts and has not answered yet.
Start == answer' = "none" /\ verdict' \in Verdicts /\ UNCHANGED <<now, last, asked>>

\* The run shows its report, as an update or as a new comment.
Show(p) ==
    /\ \E t \in 0..(now + Skew) : last' = [last EXCEPT ![p] = [verdict |-> verdict, at |-> t]]
    /\ asked' \in {asked, [asked EXCEPT ![p] = {}]}
    /\ answer' = "shown"
    /\ UNCHANGED <<now, verdict>>

\* The reasons for silence.
FailedLately(p) == last[p].verdict = "fail" /\ now < last[p].at + Window

AskedLately(p) == \E t \in asked[p] : now < t + Window

Stay(p) ==
    /\ verdict # "pass"
    /\ FailedLately(p) \/ AskedLately(p)
    /\ answer' = "silent"
    /\ UNCHANGED <<now, last, asked, verdict>>

\* The calls to GitHub failed: the run answers nothing and says so in its log.
Lose == answer' = "lost" /\ UNCHANGED <<now, last, asked, verdict>>

Next ==
    \/ Tick
    \/ Start
    \/ Lose
    \/ \E p \in Places : Ask(p) \/ Show(p) \/ Stay(p)

Spec == Init /\ [][Next]_promise
=============================================================================
