--------------------------- MODULE ReportHistory ---------------------------
(***************************************************************************)
(* Successive reports on one issue and on one discussion under the rules of *)
(* the snooze window (src/snooze.ts): postDiscussionComment with its        *)
(* helpers, and the snooze part of upsertIssueComment (src/comment.ts).     *)
(* One run follows another; people react, and time passes, between any two  *)
(* calls of a run.  Runs that race, and how an issue is searched, are the   *)
(* subject of module StickyComment.                                         *)
(*                                                                          *)
(* A report is abstracted to its snooze marker: the verdict and the time at *)
(* which formatCommentBody wrote it, by the clock of its runner.  A batch   *)
(* summary has no marker.  A new comment follows the older ones, so the     *)
(* last match of a search is the newest report.                             *)
(***************************************************************************)
EXTENDS Integers

CONSTANTS
    Threads,   \* the top-level comments people have posted to the discussion
    Window,    \* snooze_window_minutes
    Skew,      \* how far the clock of a runner may be ahead
    Callers,   \* "library": passes the snooze settings; "run": does not
    MaxEvents, \* bound: how many runs and reactions there are
    MaxTime    \* bound: when time stops

ASSUME HistoryAssumption ==
    /\ Window \in Nat
    /\ Skew \in Nat
    /\ MaxEvents \in Nat
    /\ MaxTime \in Nat
    /\ Callers \subseteq {"library", "run"}

VARIABLES
    now,        \* the time at GitHub
    last,       \* the newest TrustBridge comment of each thread
    reactions,  \* the reactions that stand under it
    pc,         \* the call the present run waits for
    trigger,    \* the comment that started it: resolveDiscussionCommentTarget
    place,      \* the thread it posts to: replyToId
    body,       \* its own text: the snooze marker
    opts,       \* its options
    found,      \* existingComment, with the reactions that came with it
    events,     \* how many runs and reactions there have been
    answer,     \* what it came to
    asked       \* history: reactions that ever stood under the newest comment

issue == <<last, reactions, asked>>
run   == <<trigger, place, body, opts, found, events>>
historyVars  == <<now, last, reactions, pc, trigger, place, body, opts, found, events, answer, asked>>

Top == "top"
Issue == "issue"
Places == Threads \cup {Top, Issue}

NoReport == [verdict |-> "none", at |-> 0]
Reports  == [verdict : {"pass", "fail", "unmarked"}, at : Nat]

Reactions == [by : {"person", "bot"}, content : {"eyes", "heart"}, at : 0..MaxTime]

Nothing == [report |-> NoReport, reactions |-> {}]
NoEvent == [kind |-> "event", thread |-> Top]
NoOptions == [caller |-> "run", sticky |-> TRUE, force |-> FALSE, ahead |-> 0]

-----------------------------------------------------------------------------
(* snooze.ts.                                                              *)

isSnoozeReaction(r) == r.content = "eyes"

\* The marker of a failing report, while the window lasts.  The report of a
\* runner whose clock is ahead is younger than it should be, even negative.
evaluateSnoozeState(passed, marker, clock) ==
    /\ ~passed
    /\ marker.verdict = "fail"
    /\ clock - marker.at < Window

\* Mutation of evaluateReactionSnooze: the reactions of bots count.
evaluateReactionSnoozeOfAny(passed, seen, clock) ==
    LET eligible == {r \in seen : isSnoozeReaction(r)} IN
    /\ ~passed
    /\ \E r \in eligible :
          /\ \A other \in eligible : other.at <= r.at
          /\ clock - r.at \in 0..(Window - 1)

\* The latest eligible reaction counts, if it is not in the future.
evaluateReactionSnooze(passed, seen, clock) ==
    LET eligible == {r \in seen : r.by = "person" /\ isSnoozeReaction(r)} IN
    /\ ~passed
    /\ \E r \in eligible :
          /\ \A other \in eligible : other.at <= r.at
          /\ clock - r.at \in 0..(Window - 1)

evaluateCombinedSnoozeState(passed, marker, seen, clock) ==
    \/ evaluateReactionSnooze(passed, seen, clock)
    \/ evaluateSnoozeState(passed, marker, clock)

-----------------------------------------------------------------------------
HistoryInit ==
    /\ now = 0
    /\ last = [p \in Places |-> NoReport]
    /\ reactions = [p \in Places |-> {}]
    /\ pc = "idle"
    /\ trigger = NoEvent
    /\ place = Top
    /\ body = NoReport
    /\ opts = NoOptions
    /\ found = Nothing
    /\ events = 0
    /\ answer = "none"
    /\ asked = [p \in Places |-> {}]

\* The clock of the runner.
Clock == now + opts.ahead

\* A run is over and its locals are gone.
Return(how) ==
    /\ pc' = "idle"
    /\ answer' = how
    /\ trigger' = NoEvent /\ place' = Top /\ opts' = NoOptions /\ found' = Nothing
    /\ UNCHANGED <<body, events>>

\* A run has its verdict, builds its text and posts it.  trigger is the
\* event: an issue, a discussion, a top-level comment of it, or a reply.  The
\* action itself posts to issues only.
Begin ==
    /\ pc = "idle" /\ events < MaxEvents
    /\ events' = events + 1
    /\ opts' \in [caller : Callers, sticky : BOOLEAN, force : BOOLEAN, ahead : {0, Skew}]
    /\ \E v \in {"pass", "fail", "unmarked"} : body' = [verdict |-> v, at |-> now + opts'.ahead]
    /\ trigger' \in [kind : {"event"}, thread : {Issue} \cup {t \in {Top} : opts'.caller # "run"}]
                    \cup [kind : {"comment", "reply"}, thread : {t \in Threads : opts'.caller # "run"}]
    /\ found' = Nothing
    /\ answer' = "none"
    /\ pc' = "parent"
    /\ UNCHANGED <<now, issue, place>>

\* resolveDiscussionReplyToId: the parent of a reply is looked up, and the
\* report goes to the top level when that fails.
ResolveReplyTo ==
    /\ pc = "parent"
    /\ place' \in {trigger.thread} \cup {t \in {Top} : trigger.kind = "reply"}
    /\ pc' = IF opts.sticky THEN "find" ELSE "add"
    /\ UNCHANGED <<now, issue, trigger, body, opts, found, events, answer>>

\* findStickyDiscussionComment: the text comes with its reactions.
FoundInDiscussion(p) == [report |-> last[p], reactions |-> reactions[p]]

\* upsertIssueComment: the text and the reactions are fetched by calls of their
\* own; one that fails leaves no text, or no reactions.
FoundOnIssue ==
    [report : {last[Issue]} \cup {[verdict |-> "unmarked", at |-> 0] : p \in {q \in {Issue} : last[q] # NoReport}},
     reactions : {reactions[Issue], {}}]

\* A lookup that fails, or stops at the page limit before the comment, finds
\* nothing.
FindSticky ==
    /\ pc = "find"
    /\ found' \in {Nothing} \cup IF place = Issue THEN FoundOnIssue ELSE {FoundInDiscussion(place)}
    /\ pc' = IF found'.report = NoReport THEN "add" ELSE "snooze"
    /\ UNCHANGED <<now, issue, trigger, place, body, opts, events, answer>>

\* Mutation of SnoozeOn: the window is passed on only if it was forced.
SnoozeOnInverted == opts.caller = "library" /\ Window > 0 /\ opts.force

\* run passes the window for its batch summary, and leaves it at the default
\* of 0 for its report.
SnoozeOn ==
    /\ opts.caller = "library" \/ body.verdict = "unmarked"
    /\ Window > 0
    /\ ~opts.force

\* A text without the marker of a pass counts as a failure.
Withheld ==
    /\ SnoozeOn
    /\ evaluateCombinedSnoozeState(body.verdict = "pass", found.report, found.reactions, Clock)

Snooze ==
    /\ pc = "snooze"
    /\ IF Withheld THEN Return("silent") ELSE pc' = "update" /\ UNCHANGED <<run, answer>>
    /\ UNCHANGED <<now, issue>>

\* updateDiscussionComment; the reactions stay.  A failure makes a new comment.
Update ==
    /\ pc = "update"
    /\ \/ /\ last' = [last EXCEPT ![place] = body]
          /\ Return("shown")
       \/ /\ pc' = "add"
          /\ UNCHANGED <<last, run, answer>>
    /\ UNCHANGED <<now, reactions, asked>>

\* addDiscussionComment; its error is left to the caller, which warns.
Add ==
    /\ pc = "add"
    /\ \/ /\ last' = [last EXCEPT ![place] = body]
          /\ reactions' = [reactions EXCEPT ![place] = {}]
          /\ asked' = [asked EXCEPT ![place] = {}]
          /\ Return("shown")
       \/ Return("lost") /\ UNCHANGED issue
    /\ UNCHANGED now

Run == Begin \/ ResolveReplyTo \/ FindSticky \/ Snooze \/ Update \/ Add

\* A person or a bot reacts to the newest report, or one takes a reaction back.
React ==
    /\ events < MaxEvents
    /\ events' = events + 1
    /\ \E p \in {q \in Places : last[q] # NoReport} :
          \/ \E r \in {q \in Reactions : q.at = now} :
                /\ reactions' = [reactions EXCEPT ![p] = @ \cup {r}]
                /\ asked' = IF r.by = "person" /\ isSnoozeReaction(r)
                            THEN [asked EXCEPT ![p] = @ \cup {now}] ELSE asked
          \/ \E r \in reactions[p] : reactions' = [reactions EXCEPT ![p] = @ \ {r}] /\ UNCHANGED asked
    /\ UNCHANGED <<now, last, pc, trigger, place, body, opts, found, answer>>

TimePasses ==
    /\ now < MaxTime
    /\ now' = now + 1
    /\ UNCHANGED <<issue, pc, run, answer>>

HistoryNext == Run \/ React \/ TimePasses

HistorySpec == HistoryInit /\ [][HistoryNext]_historyVars

-----------------------------------------------------------------------------
(* Properties.                                                             *)

\* The reports of a discussion keep the promise of the snooze window.
Promise == INSTANCE ReportPromise WITH verdict <- body.verdict

PromiseKept == Promise!Spec

\* A sticky report that fails is not shown while the newest report, as the
\* run read it, fails as well and is younger than the window
\* (snooze_window_minutes in action.yml, the snooze trigger in snooze.ts).
RepeatIsSilent ==
    [][~(/\ answer' = "shown" /\ answer # "shown"
         /\ opts.sticky /\ ~opts.force
         /\ body.verdict = "fail" /\ found.report.verdict = "fail"
         /\ Clock - found.report.at < Window)]_historyVars
=============================================================================
