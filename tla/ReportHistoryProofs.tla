------------------------- MODULE ReportHistoryProofs -------------------------
(* The reports of successive runs implement the promise of the snooze window  *)
(* (module ReportPromise), for every window, clock skew and number of runs.   *)
(* The step that needs an argument is a silent run: what it read of the       *)
(* newest report must still be so when it decides.  That is the invariant:    *)
(* the verdict it read is that of the newest report, and the reactions it     *)
(* read have stood under that report.                                         *)
EXTENDS ReportHistory, TLAPS

IsMarker(b) == b = [verdict |-> b.verdict, at |-> b.at] /\ b.at \in Nat

Asks(r) == r.by = "person" /\ isSnoozeReaction(r)

HistoryTypes ==
    /\ now \in Nat
    /\ last = [p \in Places |-> last[p]]
    /\ \A p \in Places : IsMarker(last[p])
    /\ reactions = [p \in Places |-> reactions[p]]
    /\ asked \in [Places -> SUBSET Nat]
    /\ place \in Places /\ trigger.thread \in Places
    /\ opts.ahead \in {0, Skew}

\* The marker of a run is at most Skew ahead of the time it was written at.
MarkerInTime == IsMarker(body) /\ body.at <= now + Skew

\* Who asks for silence is remembered while the newest report stays.
AskedSeen == \A p \in Places : \A r \in reactions[p] : Asks(r) => r.at \in asked[p]

\* What the run read holds when it decides.
ReadStands ==
    pc = "snooze" =>
        /\ found.report.verdict = "fail" => found.report = last[place]
        /\ \A r \in found.reactions : Asks(r) => r.at \in asked[place]

HistoryInv == HistoryTypes /\ MarkerInTime /\ AskedSeen /\ ReadStands

-----------------------------------------------------------------------------
LEMMA Constants ==
    /\ Window \in Nat /\ Skew \in Nat
    /\ Top \in Places /\ Issue \in Places
    /\ IsMarker(NoReport) /\ NoReport.verdict = "none" /\ NoReport.at = 0
    /\ NoEvent.thread = Top /\ NoOptions.ahead = 0
    /\ Nothing.report = NoReport /\ Nothing.reactions = {}
BY HistoryAssumption DEF Places, NoReport, IsMarker, NoEvent, NoOptions, Nothing

LEMMA HistoryStarts == HistoryInit => HistoryInv
  <1> SUFFICES ASSUME HistoryInit PROVE HistoryInv
    OBVIOUS
  <1>1. HistoryTypes
    BY Constants DEF HistoryInit, HistoryTypes
  <1>2. MarkerInTime
    BY Constants DEF HistoryInit, MarkerInTime
  <1> QED BY <1>1, <1>2 DEF HistoryInit, HistoryInv, AskedSeen, ReadStands

\* A run that is over has its locals reset.
LEMMA ReturnResets == ASSUME NEW how, Return(how)
    PROVE /\ pc' = "idle" /\ trigger'.thread \in Places /\ place' \in Places /\ opts'.ahead \in {0, Skew}
          /\ answer' = how /\ UNCHANGED body
BY Constants DEF Return

LEMMA HistoryKeeps == HistoryInv /\ [HistoryNext]_historyVars => HistoryInv'
  <1> SUFFICES ASSUME HistoryInv, [HistoryNext]_historyVars PROVE HistoryInv'
    OBVIOUS
  <1>c. Window \in Nat /\ Skew \in Nat
    BY Constants
  <1>1. CASE UNCHANGED historyVars
    BY <1>1 DEF historyVars, issue, run, HistoryInv, HistoryTypes, MarkerInTime, AskedSeen, ReadStands
  <1>2. CASE Begin
    <2>1. opts'.ahead \in {0, Skew}
      BY <1>2 DEF Begin
    <2>2. IsMarker(body') /\ body'.at = now + opts'.ahead
      BY <1>2, <2>1, <1>c DEF Begin, IsMarker, HistoryInv, HistoryTypes
    <2>3. trigger'.thread \in Places
      BY <1>2 DEF Begin, Places
    <2>4. pc' = "parent" /\ UNCHANGED <<now, last, reactions, asked, place>>
      BY <1>2 DEF Begin, issue
    <2>5. MarkerInTime'
      BY <2>1, <2>2, <2>4, <1>c DEF HistoryInv, HistoryTypes, MarkerInTime
    <2> QED BY <2>1, <2>3, <2>4, <2>5 DEF HistoryInv, HistoryTypes, AskedSeen, ReadStands
  <1>3. CASE ResolveReplyTo
    <2>1. place' \in Places
      BY <1>3, Constants DEF ResolveReplyTo, HistoryInv, HistoryTypes
    <2> QED BY <1>3, <2>1 DEF ResolveReplyTo, issue, HistoryInv, HistoryTypes, MarkerInTime, AskedSeen, ReadStands
  <1>4. CASE FindSticky
    <2>1. UNCHANGED <<now, last, reactions, asked, trigger, place, body, opts>>
      BY <1>4 DEF FindSticky, issue
    <2>2. CASE found' = Nothing
      BY <1>4, <2>2, Constants DEF FindSticky, issue, HistoryInv, HistoryTypes, MarkerInTime, AskedSeen, ReadStands
    <2>3. CASE found' # Nothing
      <3>1. /\ found'.report = last[place] \/ found'.report = [verdict |-> "unmarked", at |-> 0]
            /\ found'.reactions = reactions[place] \/ found'.reactions = {}
        BY <1>4, <2>3 DEF FindSticky, FoundOnIssue, FoundInDiscussion
      <3>2. ReadStands'
        BY <2>1, <3>1 DEF HistoryInv, HistoryTypes, AskedSeen, ReadStands
      <3> QED BY <2>1, <3>2 DEF HistoryInv, HistoryTypes, MarkerInTime, AskedSeen
    <2> QED BY <2>2, <2>3
  <1>5. CASE Snooze
    <2>1. UNCHANGED <<now, last, reactions, asked, body>> /\ pc' # "snooze"
      BY <1>5, ReturnResets DEF Snooze, issue, run
    <2>2. trigger'.thread \in Places /\ place' \in Places /\ opts'.ahead \in {0, Skew}
      BY <1>5, ReturnResets DEF Snooze, run, HistoryInv, HistoryTypes
    <2> QED BY <2>1, <2>2 DEF HistoryInv, HistoryTypes, MarkerInTime, AskedSeen, ReadStands
  <1>6. CASE Update
    <2>1. UNCHANGED <<now, reactions, asked, body>> /\ pc' # "snooze"
      BY <1>6, ReturnResets DEF Update, run
    <2>2. trigger'.thread \in Places /\ place' \in Places /\ opts'.ahead \in {0, Skew}
      BY <1>6, ReturnResets DEF Update, run, HistoryInv, HistoryTypes
    <2>3. last' = last \/ last' = [last EXCEPT ![place] = body]
      BY <1>6 DEF Update
    <2>4. last' = [p \in Places |-> last'[p]] /\ \A p \in Places : IsMarker(last'[p])
      BY <2>3 DEF HistoryInv, HistoryTypes, MarkerInTime
    <2> QED BY <2>1, <2>2, <2>4 DEF HistoryInv, HistoryTypes, MarkerInTime, AskedSeen, ReadStands
  <1>7. CASE Add
    <2>1. UNCHANGED <<now, body>> /\ pc' # "snooze"
      BY <1>7, ReturnResets DEF Add
    <2>2. trigger'.thread \in Places /\ place' \in Places /\ opts'.ahead \in {0, Skew}
      BY <1>7, ReturnResets DEF Add
    <2>3. \/ UNCHANGED issue
          \/ /\ last' = [last EXCEPT ![place] = body]
             /\ reactions' = [reactions EXCEPT ![place] = {}]
             /\ asked' = [asked EXCEPT ![place] = {}]
      BY <1>7 DEF Add
    <2>4. last' = [p \in Places |-> last'[p]] /\ \A p \in Places : IsMarker(last'[p])
      BY <2>3 DEF issue, HistoryInv, HistoryTypes, MarkerInTime
    <2>5. reactions' = [p \in Places |-> reactions'[p]] /\ asked' \in [Places -> SUBSET Nat]
      BY <2>3 DEF issue, HistoryInv, HistoryTypes
    <2>6. AskedSeen'
      BY <2>3 DEF issue, HistoryInv, HistoryTypes, AskedSeen
    <2> QED BY <2>1, <2>2, <2>4, <2>5, <2>6 DEF HistoryInv, HistoryTypes, MarkerInTime, ReadStands
  <1>8. CASE React
    <2>1. UNCHANGED <<now, last, pc, trigger, place, body, opts, found>>
      BY <1>8 DEF React
    <2>2. PICK p \in Places :
            \/ \E r \in {q \in Reactions : q.at = now} :
                  /\ reactions' = [reactions EXCEPT ![p] = @ \cup {r}]
                  /\ asked' = IF r.by = "person" /\ isSnoozeReaction(r)
                              THEN [asked EXCEPT ![p] = @ \cup {now}] ELSE asked
            \/ \E r \in reactions[p] : reactions' = [reactions EXCEPT ![p] = @ \ {r}] /\ UNCHANGED asked
      BY <1>8 DEF React
    <2>3. CASE \E r \in reactions[p] : reactions' = [reactions EXCEPT ![p] = @ \ {r}] /\ UNCHANGED asked
      BY <2>1, <2>3 DEF HistoryInv, HistoryTypes, MarkerInTime, AskedSeen, ReadStands
    <2>4. CASE \E r \in {q \in Reactions : q.at = now} :
                  /\ reactions' = [reactions EXCEPT ![p] = @ \cup {r}]
                  /\ asked' = IF r.by = "person" /\ isSnoozeReaction(r)
                              THEN [asked EXCEPT ![p] = @ \cup {now}] ELSE asked
      <3>1. PICK r \in {q \in Reactions : q.at = now} :
              /\ reactions' = [reactions EXCEPT ![p] = @ \cup {r}]
              /\ asked' = IF r.by = "person" /\ isSnoozeReaction(r)
                          THEN [asked EXCEPT ![p] = @ \cup {now}] ELSE asked
        BY <2>4
      <3>2. /\ asked' \in [Places -> SUBSET Nat]
            /\ \A q \in Places : asked[q] \subseteq asked'[q]
            /\ Asks(r) => now \in asked'[p]
        BY <3>1 DEF HistoryInv, HistoryTypes, Asks
      <3>3. r.at = now
        BY <3>1
      <3>4. reactions' = [q \in Places |-> reactions'[q]]
        BY <3>1 DEF HistoryInv, HistoryTypes
      <3>5. AskedSeen'
        BY <3>1, <3>2, <3>3 DEF HistoryInv, HistoryTypes, AskedSeen
      <3>6. ReadStands'
        BY <2>1, <3>2 DEF HistoryInv, HistoryTypes, ReadStands
      <3> QED BY <2>1, <3>2, <3>4, <3>5, <3>6 DEF HistoryInv, HistoryTypes, MarkerInTime
    <2> QED BY <2>2, <2>3, <2>4
  <1>9. CASE TimePasses
    <2>1. now' = now + 1 /\ UNCHANGED <<last, reactions, asked, pc, trigger, place, body, opts, found>>
      BY <1>9 DEF TimePasses, issue, run
    <2> QED BY <2>1, <1>c DEF HistoryInv, HistoryTypes, MarkerInTime, AskedSeen, ReadStands, IsMarker
  <1> QED BY <1>1, <1>2, <1>3, <1>4, <1>5, <1>6, <1>7, <1>8, <1>9 DEF HistoryNext, Run

-----------------------------------------------------------------------------
(* The refinement, one step of the promise for one of the code.            *)

LEMMA StartsAsPromised == HistoryInit => Promise!Init
  <1> SUFFICES ASSUME HistoryInit PROVE Promise!Init
    OBVIOUS
  <1>1. body.verdict = "none"
    BY Constants DEF HistoryInit
  <1>2. Promise!NoReport = NoReport
    BY DEF Promise!NoReport, NoReport
  <1> QED BY <1>1, <1>2 DEF HistoryInit, Promise!Init

\* A step that touches nothing the promise speaks of.
LEMMA Silent == ASSUME UNCHANGED <<now, last, asked, body, answer>> PROVE UNCHANGED Promise!promise
BY DEF Promise!promise

\* A run that posts its report shows it.
LEMMA ShowsAsPromised == ASSUME HistoryInv, last' = [last EXCEPT ![place] = body],
        asked' = asked \/ asked' = [asked EXCEPT ![place] = {}], answer' = "shown", UNCHANGED <<now, body>>
    PROVE Promise!Next
  <1>1. body = [verdict |-> body.verdict, at |-> body.at] /\ body.at \in 0..(now + Skew)
    BY Constants DEF HistoryInv, HistoryTypes, MarkerInTime, IsMarker
  <1>2. last' = [last EXCEPT ![place] = [verdict |-> body.verdict, at |-> body.at]]
    BY <1>1
  <1>3. Promise!Show(place)
    BY <1>1, <1>2 DEF Promise!Show
  <1> QED BY <1>3 DEF Promise!Next, HistoryInv, HistoryTypes

\* A run is silent only for a reason that still holds.
LEMMA StaysAsPromised == ASSUME HistoryInv, pc = "snooze", Withheld, answer' = "silent",
        UNCHANGED <<now, last, asked, body>>
    PROVE Promise!Next
  <1>1. body.verdict # "pass"
    BY DEF Withheld, evaluateCombinedSnoozeState, evaluateReactionSnooze, evaluateSnoozeState
  <1>2. /\ now \in Nat /\ Window \in Nat /\ Clock \in Nat /\ Clock >= now
        /\ place \in Places /\ asked[place] \subseteq Nat /\ last[place].at \in Nat
    BY Constants DEF HistoryInv, HistoryTypes, Clock, IsMarker
  <1>3. Promise!FailedLately(place) \/ Promise!AskedLately(place)
    <2>1. CASE evaluateSnoozeState(body.verdict = "pass", found.report, Clock)
      <3>1. found.report.verdict = "fail" /\ Clock - found.report.at < Window
        BY <2>1 DEF evaluateSnoozeState
      <3>2. found.report = last[place]
        BY <3>1 DEF HistoryInv, ReadStands
      <3>3. now < last[place].at + Window
        BY <1>2, <3>1, <3>2
      <3> QED BY <3>1, <3>2, <3>3 DEF Promise!FailedLately
    <2>2. CASE evaluateReactionSnooze(body.verdict = "pass", found.reactions, Clock)
      <3>1. PICK r \in found.reactions : Asks(r) /\ Clock - r.at \in 0..(Window - 1)
        BY <2>2 DEF evaluateReactionSnooze, Asks
      <3>2. r.at \in asked[place]
        BY <3>1 DEF HistoryInv, ReadStands
      <3>3. now < r.at + Window
        BY <1>2, <3>1, <3>2
      <3> QED BY <3>2, <3>3 DEF Promise!AskedLately
    <2> QED BY <2>1, <2>2 DEF Withheld, evaluateCombinedSnoozeState
  <1>4. Promise!Stay(place)
    BY <1>1, <1>3 DEF Promise!Stay
  <1> QED BY <1>2, <1>4 DEF Promise!Next

LEMMA StepsAsPromised == HistoryInv /\ [HistoryNext]_historyVars => [Promise!Next]_Promise!promise
  <1> SUFFICES ASSUME HistoryInv, [HistoryNext]_historyVars PROVE Promise!Next \/ UNCHANGED Promise!promise
    OBVIOUS
  <1>1. CASE UNCHANGED historyVars
    BY <1>1, Silent DEF historyVars, issue, run
  <1>2. CASE Begin
    <2>1. PICK v \in {"pass", "fail", "unmarked"} : body' = [verdict |-> v, at |-> now + opts'.ahead]
      BY <1>2 DEF Begin
    <2>2. body'.verdict \in Promise!Verdicts
      BY <2>1 DEF Promise!Verdicts
    <2>3. Promise!Start
      BY <1>2, <2>2 DEF Begin, issue, Promise!Start
    <2> QED BY <2>3 DEF Promise!Next
  <1>3. CASE ResolveReplyTo
    BY <1>3, Silent DEF ResolveReplyTo, issue
  <1>4. CASE FindSticky
    BY <1>4, Silent DEF FindSticky, issue
  <1>5. CASE Snooze
    <2>1. CASE Withheld
      BY <1>5, <2>1, ReturnResets, StaysAsPromised DEF Snooze, issue
    <2>2. CASE ~Withheld
      BY <1>5, <2>2, Silent DEF Snooze, issue, run
    <2> QED BY <2>1, <2>2
  <1>6. CASE Update
    <2>1. CASE last' = [last EXCEPT ![place] = body] /\ Return("shown")
      BY <1>6, <2>1, ReturnResets, ShowsAsPromised DEF Update
    <2>2. CASE UNCHANGED <<last, run, answer>>
      BY <1>6, <2>2, Silent DEF Update, run
    <2> QED BY <1>6, <2>1, <2>2 DEF Update
  <1>7. CASE Add
    <2>1. CASE last' = [last EXCEPT ![place] = body] /\ asked' = [asked EXCEPT ![place] = {}] /\ Return("shown")
      BY <1>7, <2>1, ReturnResets, ShowsAsPromised DEF Add
    <2>2. CASE Return("lost") /\ UNCHANGED issue
      <3>1. Promise!Lose
        BY <1>7, <2>2, ReturnResets DEF Add, issue, Promise!Lose
      <3> QED BY <3>1 DEF Promise!Next
    <2> QED BY <1>7, <2>1, <2>2 DEF Add
  <1>8. CASE React
    <2>1. UNCHANGED <<now, last, body, answer>>
      BY <1>8 DEF React
    <2>2. asked' = asked \/ \E p \in Places : asked' = [asked EXCEPT ![p] = @ \cup {now}]
      BY <1>8 DEF React
    <2>3. CASE asked' = asked
      BY <2>1, <2>3, Silent
    <2>4. CASE \E p \in Places : asked' = [asked EXCEPT ![p] = @ \cup {now}]
      BY <2>1, <2>4 DEF Promise!Ask, Promise!Next
    <2> QED BY <2>2, <2>3, <2>4
  <1>9. CASE TimePasses
    <2>1. Promise!Tick
      BY <1>9 DEF TimePasses, issue, run, Promise!Tick
    <2> QED BY <2>1 DEF Promise!Next
  <1> QED BY <1>1, <1>2, <1>3, <1>4, <1>5, <1>6, <1>7, <1>8, <1>9 DEF HistoryNext, Run

\* The reports of postDiscussionComment and upsertIssueComment (src/comment.ts)
\* keep the promise of the snooze window: a run that passes is never silent,
\* and a silent one has a reason that holds at that moment.
THEOREM HistoryKeepsPromise == HistorySpec => PromiseKept
  <1>1. Promise!Init /\ [][Promise!Next]_Promise!promise => Promise!Spec
    BY DEF Promise!Spec
  <1> QED BY HistoryStarts, HistoryKeeps, StartsAsPromised, StepsAsPromised, <1>1, PTL DEF HistorySpec, PromiseKept

-----------------------------------------------------------------------------
(* No repeated failure within the window, for callers that pass the window. *)

Repeats == opts.sticky /\ ~opts.force /\ body.verdict = "fail" /\ found.report.verdict = "fail"

\* A report that is about to be shown has passed the window before.
WindowPassed ==
    /\ pc # "idle" => opts.caller = "library"
    /\ IsMarker(found.report)
    /\ pc \in {"update", "add"} /\ Repeats => Clock - found.report.at >= Window

LEMMA WindowStarts == HistoryInit => WindowPassed
  <1> SUFFICES ASSUME HistoryInit PROVE WindowPassed
    OBVIOUS
  <1>1. pc = "idle" /\ found.report = NoReport
    BY Constants DEF HistoryInit
  <1> QED BY <1>1, Constants DEF WindowPassed

LEMMA ReturnForgets == ASSUME NEW how, Return(how) PROVE WindowPassed'
  <1>1. pc' = "idle" /\ found'.report = NoReport
    BY Constants DEF Return
  <1> QED BY <1>1, Constants DEF WindowPassed

LEMMA WindowKeeps == ASSUME Callers = {"library"}, Window > 0, HistoryInv, WindowPassed, [HistoryNext]_historyVars
    PROVE WindowPassed'
  <1>c. /\ now \in Nat /\ opts.ahead \in Nat /\ Window \in Nat /\ Clock \in Nat
        /\ found.report.at \in Nat
    BY Constants DEF HistoryInv, HistoryTypes, Clock, WindowPassed, IsMarker
  <1>1. CASE UNCHANGED historyVars
    BY <1>1 DEF historyVars, issue, run, WindowPassed, Repeats, Clock
  <1>2. CASE Begin
    <2>1. opts'.caller = "library" /\ pc' = "parent" /\ found'.report = NoReport
      BY <1>2, Constants DEF Begin
    <2> QED BY <2>1, Constants DEF WindowPassed
  <1>3. CASE ResolveReplyTo
    <2>1. /\ pc # "idle" /\ pc' = (IF opts.sticky THEN "find" ELSE "add")
          /\ UNCHANGED <<opts, body, found>>
      BY <1>3 DEF ResolveReplyTo
    <2> QED BY <2>1 DEF WindowPassed, Repeats
  <1>4. CASE FindSticky
    <2>1. /\ pc # "idle" /\ UNCHANGED <<opts, body>>
          /\ pc' = (IF found'.report = NoReport THEN "add" ELSE "snooze")
      BY <1>4 DEF FindSticky
    <2>2. IsMarker(found'.report)
      <3>1. \/ found' = Nothing
            \/ found'.report = last[place]
            \/ found'.report = [verdict |-> "unmarked", at |-> 0]
        BY <1>4 DEF FindSticky, FoundOnIssue, FoundInDiscussion
      <3> QED BY <3>1, Constants DEF HistoryInv, HistoryTypes, IsMarker
    <2>3. ~(pc' \in {"update", "add"} /\ Repeats')
      BY <2>1, Constants DEF Repeats
    <2>4. opts'.caller = "library"
      BY <2>1 DEF WindowPassed
    <2> QED BY <2>2, <2>3, <2>4 DEF WindowPassed
  <1>5. CASE Snooze
    <2>1. CASE Withheld
      BY <1>5, <2>1, ReturnForgets DEF Snooze
    <2>2. CASE ~Withheld
      <3>1. pc = "snooze" /\ pc' = "update" /\ UNCHANGED <<now, opts, body, found>>
        BY <1>5, <2>2 DEF Snooze, run, issue
      <3>2. ASSUME Repeats PROVE Clock - found.report.at >= Window
        <4>1. SnoozeOn
          BY <3>1, <3>2 DEF SnoozeOn, Repeats, WindowPassed
        <4>2. ~evaluateSnoozeState(body.verdict = "pass", found.report, Clock)
          BY <2>2, <4>1 DEF Withheld, evaluateCombinedSnoozeState
        <4>3. ~(Clock - found.report.at < Window)
          BY <3>2, <4>2 DEF evaluateSnoozeState, Repeats
        <4> QED BY <4>3, <1>c
      <3>3. Repeats' => Clock' - found'.report.at >= Window
        BY <3>1, <3>2 DEF Repeats, Clock
      <3> QED BY <3>1, <3>3 DEF WindowPassed
    <2> QED BY <2>1, <2>2
  <1>6. CASE Update
    <2>1. CASE Return("shown")
      BY <2>1, ReturnForgets
    <2>2. CASE pc' = "add" /\ UNCHANGED run
      BY <1>6, <2>2 DEF Update, run, WindowPassed, Repeats, Clock
    <2> QED BY <1>6, <2>1, <2>2 DEF Update
  <1>7. CASE Add
    BY <1>7, ReturnForgets DEF Add
  <1>8. CASE React
    BY <1>8 DEF React, WindowPassed, Repeats, Clock
  <1>9. CASE TimePasses
    <2>1. now' = now + 1 /\ UNCHANGED <<pc, body, opts, found>>
      BY <1>9 DEF TimePasses, run
    <2>2. Clock' = Clock + 1
      BY <2>1, <1>c DEF Clock
    <2> QED BY <2>1, <2>2, <1>c DEF WindowPassed, Repeats
  <1> QED BY <1>1, <1>2, <1>3, <1>4, <1>5, <1>6, <1>7, <1>8, <1>9 DEF HistoryNext, Run

\* Only Update and Add show a report.
LEMMA ShownBy == ASSUME HistoryNext, answer' = "shown", answer # "shown" PROVE Update \/ Add
BY ReturnResets DEF HistoryNext, Run, Begin, ResolveReplyTo, FindSticky, Snooze, React, TimePasses

LEMMA RepeatsAreSilent == ASSUME HistoryInv, WindowPassed, [HistoryNext]_historyVars
    PROVE [~(/\ answer' = "shown" /\ answer # "shown"
             /\ opts.sticky /\ ~opts.force
             /\ body.verdict = "fail" /\ found.report.verdict = "fail"
             /\ Clock - found.report.at < Window)]_historyVars
  <1> SUFFICES ASSUME HistoryNext, answer' = "shown", answer # "shown", Repeats
               PROVE ~(Clock - found.report.at < Window)
    BY DEF Repeats, historyVars
  <1>1. pc \in {"update", "add"}
    BY ShownBy DEF Update, Add
  <1>2. Clock - found.report.at >= Window
    BY <1>1 DEF WindowPassed
  <1> QED BY <1>2, Constants DEF HistoryInv, HistoryTypes, Clock, WindowPassed, IsMarker

\* The snooze settings of a library caller: as long as the window lasts, a
\* sticky report that fails like the one before it is not shown.
THEOREM RepeatsStaySilent ==
    Callers = {"library"} /\ Window > 0 => (HistorySpec => RepeatIsSilent)
  <1> SUFFICES ASSUME Callers = {"library"}, Window > 0 PROVE HistorySpec => RepeatIsSilent
    OBVIOUS
  <1>1. HistoryInit => HistoryInv /\ WindowPassed
    BY HistoryStarts, WindowStarts
  <1>2. HistoryInv /\ WindowPassed /\ [HistoryNext]_historyVars => (HistoryInv /\ WindowPassed)'
    BY HistoryKeeps, WindowKeeps
  <1>3. HistoryInv /\ WindowPassed /\ [HistoryNext]_historyVars =>
          [~(/\ answer' = "shown" /\ answer # "shown"
             /\ opts.sticky /\ ~opts.force
             /\ body.verdict = "fail" /\ found.report.verdict = "fail"
             /\ Clock - found.report.at < Window)]_historyVars
    BY RepeatsAreSilent
  <1> QED BY <1>1, <1>2, <1>3, PTL DEF HistorySpec, RepeatIsSilent
=============================================================================
