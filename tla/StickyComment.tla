--------------------------- MODULE StickyComment ---------------------------
(***************************************************************************)
(* The sticky issue comment (src/comment.ts: upsertIssueComment and the     *)
(* helpers it awaits).  Several workflow runs of the action work on one     *)
(* issue at the same time: each looks for an earlier TrustBridge comment,   *)
(* updates it or creates one, and, when it had to create one, re-reads the  *)
(* thread to merge its comment into the oldest.  Every call to GitHub is an *)
(* await, so every call is an action of its own and the runs interleave     *)
(* between them.                                                            *)
(*                                                                          *)
(* A comment is its REST id, which GitHub hands out in increasing order.    *)
(* Bodies are abstracted to the run whose report they show; the wall clock  *)
(* of the snooze window is abstracted to a choice (see Snooze).             *)
(***************************************************************************)
EXTENDS Integers, FiniteSets

CONSTANTS
    Runs,          \* the workflow runs on this issue
    Modes,         \* the comment_mode values the runs may have
    PageSize,      \* comments on one GraphQL page (100 in the code)
    MaxPages,      \* MAX_STICKY_COMMENT_SEARCH_PAGES (10 in the code)
    Faults,        \* the GitHub calls that may fail
    SnoozeOn,      \* whether snooze_window_minutes is set and force_comment is not
    MaxInitial,    \* bound: comments on the issue before the first run
    MaxComments,   \* bound: highest id the people on the issue bring it to
    MaxRemovals    \* bound: comments a person deletes

NoComment == 0

ASSUME ConstantsAssumption ==
    /\ Modes \subseteq {"sticky", "new", "reply"}
    /\ PageSize \in Nat \ {0}
    /\ MaxPages \in Nat \ {0}
    /\ Faults \subseteq {"graphql", "rest", "update", "create", "delete"}
    /\ SnoozeOn \in BOOLEAN
    /\ MaxInitial \in Nat
    /\ MaxComments \in Nat
    /\ MaxRemovals \in Nat

VARIABLES
    \* the issue
    thread,    \* ids of the comments now on the issue
    trust,     \* ids that were ever TrustBridge comments (isTrustBridgeComment)
    lastId,    \* highest comment id handed out
    shows,     \* for each id in trust, the run whose report the body holds
    removals,  \* how many comments people deleted
    \* the runs
    mode,      \* effectiveMode of each run
    pc,        \* the await at which each run stands
    cursor,    \* the id after which its search goes on
    pages,     \* pages its search has read
    hit,       \* lastMatchId, then existingCommentId or parentCommentId
    mine,      \* id of the comment it created
    target,    \* canonicalId it merges into
    ret,       \* PostedIssueComment.id it returned
    lapse      \* history: its merge was cut off by a failed call

issue  == <<thread, trust, lastId, shows, removals>>
search == <<cursor, pages, hit>>
vars   == <<thread, trust, lastId, shows, removals, mode, pc, cursor, pages,
            hit, mine, target, ret, lapse>>

Earlier == "earlier"     \* the report of a run before the modelled ones

Stages == {"start", "find", "update", "parent", "create", "recheck", "merge",
           "discard", "done", "failed"}

-----------------------------------------------------------------------------
(* One page of a search: the next PageSize comments after the cursor.      *)

Unread(r) == {c \in thread : c > cursor[r]}

\* p is the page the GraphQL query after r's cursor returns.
IsPage(r, p) ==
    /\ p \subseteq Unread(r)
    /\ \A c \in p, d \in Unread(r) : d < c => d \in p
    /\ \/ p = Unread(r) /\ Cardinality(p) <= PageSize
       \/ Cardinality(p) = PageSize

Pages(r) == {p \in SUBSET Unread(r) : IsPage(r, p)}

IsFirst(c, s) == c \in s /\ \A d \in s : c <= d
IsLast(c, s)  == c \in s /\ \A d \in s : d <= c

\* hasNextPage holds and the page cap is not reached yet.
GoesOn(r, p) == p # Unread(r) /\ pages[r] + 1 < MaxPages

\* The search moves to the page after p.
NextPage(r, p) ==
    /\ \E c \in p : IsLast(c, p) /\ cursor' = [cursor EXCEPT ![r] = c]
    /\ pages' = [pages EXCEPT ![r] = @ + 1]

\* The search of r is over: the next one starts at the first page.
EndSearch(r) ==
    /\ cursor' = [cursor EXCEPT ![r] = 0]
    /\ pages' = [pages EXCEPT ![r] = 0]

Goto(r, stage) == pc' = [pc EXCEPT ![r] = stage]

-----------------------------------------------------------------------------
Init ==
    /\ lastId \in 0..MaxInitial
    /\ thread = 1..lastId
    /\ trust \in SUBSET thread
    /\ shows = [c \in trust |-> Earlier]
    /\ removals = 0
    /\ mode \in [Runs -> Modes]
    /\ pc = [r \in Runs |-> "start"]
    /\ cursor = [r \in Runs |-> 0]
    /\ pages = [r \in Runs |-> 0]
    /\ hit = [r \in Runs |-> NoComment]
    /\ mine = [r \in Runs |-> NoComment]
    /\ target = [r \in Runs |-> NoComment]
    /\ ret = [r \in Runs |-> NoComment]
    /\ lapse = [r \in Runs |-> FALSE]

\* upsertIssueComment is called; only the sticky mode looks for a comment to
\* update, only the reply mode looks for a parent.
Start(r) ==
    /\ pc[r] = "start"
    /\ Goto(r, CASE mode[r] = "sticky" -> "find"
                 [] mode[r] = "reply"  -> "parent"
                 [] mode[r] = "new"    -> "create")
    /\ UNCHANGED <<issue, search, mode, mine, target, ret, lapse>>

\* What findStickyComment hands to the sticky branch: the id of a comment to
\* update, or nothing, which means a new comment.
Found(r, c) ==
    /\ hit' = [hit EXCEPT ![r] = c]
    /\ Goto(r, IF c = NoComment THEN "create" ELSE "update")
    /\ EndSearch(r)

\* findStickyComment reads one GraphQL page and keeps the last match.
FindPage(r) ==
    /\ pc[r] = "find"
    /\ \E p \in Pages(r), best \in trust \cup {NoComment} :
          /\ IF p \cap trust = {} THEN best = hit[r] ELSE IsLast(best, p \cap trust)
          /\ IF GoesOn(r, p)
             THEN /\ NextPage(r, p)
                  /\ hit' = [hit EXCEPT ![r] = best]
                  /\ UNCHANGED pc
             ELSE Found(r, best)
    /\ UNCHANGED <<issue, mode, mine, target, ret, lapse>>

\* A page after the first comes back without nodes: the search ends with what
\* it has (graphqlHandled is already set).
FindCutShort(r) ==
    /\ pc[r] = "find" /\ pages[r] > 0 /\ "graphql" \in Faults
    /\ Found(r, hit[r])
    /\ UNCHANGED <<issue, mode, mine, target, ret, lapse>>

\* GraphQL throws: REST lists the whole thread, without a page cap, and the
\* last match wins.
FindByRest(r) ==
    /\ pc[r] = "find" /\ "graphql" \in Faults
    /\ \E best \in trust \cup {NoComment} :
          /\ IF thread \cap trust = {} THEN best = NoComment
                                       ELSE IsLast(best, thread \cap trust)
          /\ Found(r, best)
    /\ UNCHANGED <<issue, mode, mine, target, ret, lapse>>

\* REST throws as well: a warning, then a new comment.
FindFails(r) ==
    /\ pc[r] = "find" /\ {"graphql", "rest"} \subseteq Faults
    /\ Found(r, NoComment)
    /\ UNCHANGED <<issue, mode, mine, target, ret, lapse>>

-----------------------------------------------------------------------------
(* findFirstTrustBridgeComment, used for the parent of a reply and for the *)
(* re-read of a run that created a comment.                                *)

FirstSearch(r) == pc[r] \in {"parent", "recheck"}

\* What the first search hands back.  A parent that was not found (or whose
\* lookup failed) gives a plain comment.  In the re-read, no comment or the
\* run's own one means there is nothing to merge; cut says that the search
\* gave up before the end because a call failed.
FirstFound(r, c, cut) ==
    /\ EndSearch(r)
    /\ \/ /\ pc[r] = "parent"
          /\ hit' = [hit EXCEPT ![r] = c]
          /\ Goto(r, "create")
          /\ UNCHANGED <<target, lapse>>
       \/ /\ pc[r] = "recheck"
          /\ c \in {NoComment, mine[r]}
          /\ Goto(r, "done")
          /\ lapse' = [lapse EXCEPT ![r] = cut]
          /\ UNCHANGED <<hit, target>>
       \/ /\ pc[r] = "recheck"
          /\ c \notin {NoComment, mine[r]}
          /\ target' = [target EXCEPT ![r] = c]
          /\ Goto(r, "merge")
          /\ UNCHANGED <<hit, lapse>>

\* One page: the first match ends the search.
FirstPage(r) ==
    /\ FirstSearch(r)
    /\ \E p \in Pages(r) :
          \/ /\ p \cap trust # {}
             /\ \E c \in p : IsFirst(c, p \cap trust) /\ FirstFound(r, c, FALSE)
          \/ /\ p \cap trust = {} /\ GoesOn(r, p)
             /\ NextPage(r, p)
             /\ UNCHANGED <<hit, pc, target, lapse>>
          \/ /\ p \cap trust = {} /\ ~GoesOn(r, p)
             /\ FirstFound(r, NoComment, FALSE)
    /\ UNCHANGED <<issue, mode, mine, ret>>

FirstCutShort(r) ==
    /\ FirstSearch(r) /\ pages[r] > 0 /\ "graphql" \in Faults
    /\ FirstFound(r, NoComment, TRUE)
    /\ UNCHANGED <<issue, mode, mine, ret>>

\* Mutation of FirstByRest: the REST branch takes the last match.
LastByRest(r) ==
    /\ FirstSearch(r) /\ "graphql" \in Faults
    /\ \E c \in thread \cap trust :
          /\ IsLast(c, thread \cap trust)
          /\ FirstFound(r, c, FALSE)
    /\ UNCHANGED <<issue, mode, mine, ret>>

FirstByRest(r) ==
    /\ FirstSearch(r) /\ "graphql" \in Faults
    /\ \E c \in trust \cup {NoComment} :
          /\ IF thread \cap trust = {} THEN c = NoComment
                                       ELSE IsFirst(c, thread \cap trust)
          /\ FirstFound(r, c, FALSE)
    /\ UNCHANGED <<issue, mode, mine, ret>>

FirstFails(r) ==
    /\ FirstSearch(r) /\ {"graphql", "rest"} \subseteq Faults
    /\ FirstFound(r, NoComment, TRUE)
    /\ UNCHANGED <<issue, mode, mine, ret>>

-----------------------------------------------------------------------------
(* The writes.                                                             *)

\* updateComment on c succeeded: its body now holds r's report.
WriteReport(r, c) ==
    /\ c \in thread
    /\ shows' = [shows EXCEPT ![c] = r]

\* updateComment on c failed: a fault, or c is gone by now.
WriteFails(c) == "update" \in Faults \/ c \notin thread

\* The snooze window is active for a failing report: the comment found stays
\* as it is and its id is returned.  Which markers, reactions and results make
\* it active is a matter of the clock, so any run may be snoozed.
Snooze(r) ==
    /\ pc[r] = "update" /\ SnoozeOn
    /\ ret' = [ret EXCEPT ![r] = hit[r]]
    /\ Goto(r, "done")
    /\ UNCHANGED <<issue, search, mode, mine, target, lapse>>

Update(r) ==
    /\ pc[r] = "update"
    /\ WriteReport(r, hit[r])
    /\ ret' = [ret EXCEPT ![r] = hit[r]]
    /\ Goto(r, "done")
    /\ UNCHANGED <<thread, trust, lastId, removals, search, mode, mine, target, lapse>>

\* Mutation of UpdateFails: look the comment up again instead of creating one.
UpdateRetries(r) ==
    /\ pc[r] = "update"
    /\ WriteFails(hit[r])
    /\ Goto(r, "find")
    /\ UNCHANGED <<issue, search, mode, mine, target, ret, lapse>>

\* "falling back to a new comment"
UpdateFails(r) ==
    /\ pc[r] = "update"
    /\ WriteFails(hit[r])
    /\ Goto(r, "create")
    /\ UNCHANGED <<issue, search, mode, mine, target, ret, lapse>>

\* Mutation of Create: the duplicate is never reconciled (before issue 790).
CreateOnly(r) ==
    /\ pc[r] = "create"
    /\ lastId' = lastId + 1
    /\ thread' = thread \cup {lastId + 1}
    /\ trust' = trust \cup {lastId + 1}
    /\ shows' = [c \in trust' |-> IF c = lastId + 1 THEN r ELSE shows[c]]
    /\ mine' = [mine EXCEPT ![r] = lastId + 1]
    /\ ret' = [ret EXCEPT ![r] = lastId + 1]
    /\ Goto(r, "done")
    /\ UNCHANGED <<removals, search, mode, target, lapse>>

\* createComment; only a sticky run re-reads the thread afterwards.
Create(r) ==
    /\ pc[r] = "create"
    /\ lastId' = lastId + 1
    /\ thread' = thread \cup {lastId + 1}
    /\ trust' = trust \cup {lastId + 1}
    /\ shows' = [c \in trust' |-> IF c = lastId + 1 THEN r ELSE shows[c]]
    /\ mine' = [mine EXCEPT ![r] = lastId + 1]
    /\ ret' = [ret EXCEPT ![r] = lastId + 1]
    /\ Goto(r, IF mode[r] = "sticky" THEN "recheck" ELSE "done")
    /\ UNCHANGED <<removals, search, mode, target, lapse>>

\* createComment throws: so does upsertIssueComment.
CreateFails(r) ==
    /\ pc[r] = "create" /\ "create" \in Faults
    /\ Goto(r, "failed")
    /\ UNCHANGED <<issue, search, mode, mine, target, ret, lapse>>

\* reconcileDuplicateStickyComment writes the body to the oldest comment ...
Merge(r) ==
    /\ pc[r] = "merge"
    /\ WriteReport(r, target[r])
    /\ ret' = [ret EXCEPT ![r] = target[r]]
    /\ Goto(r, "discard")
    /\ UNCHANGED <<thread, trust, lastId, removals, search, mode, mine, target, lapse>>

\* ... or keeps its own comment when it cannot ...
MergeFails(r) ==
    /\ pc[r] = "merge"
    /\ WriteFails(target[r])
    /\ lapse' = [lapse EXCEPT ![r] = TRUE]
    /\ Goto(r, "done")
    /\ UNCHANGED <<issue, search, mode, mine, target, ret>>

\* Mutation of Discard: the comment it merged into is deleted.
DiscardTarget(r) ==
    /\ pc[r] = "discard"
    /\ thread' = thread \ {target[r]}
    /\ Goto(r, "done")
    /\ UNCHANGED <<trust, lastId, shows, removals, search, mode, mine, target, ret, lapse>>

\* ... and deletes the comment it created (a 404 when it is gone already) ...
Discard(r) ==
    /\ pc[r] = "discard"
    /\ thread' = thread \ {mine[r]}
    /\ Goto(r, "done")
    /\ UNCHANGED <<trust, lastId, shows, removals, search, mode, mine, target, ret, lapse>>

\* ... or leaves it there.
DiscardFails(r) ==
    /\ pc[r] = "discard" /\ "delete" \in Faults
    /\ lapse' = [lapse EXCEPT ![r] = TRUE]
    /\ Goto(r, "done")
    /\ UNCHANGED <<issue, search, mode, mine, target, ret>>

-----------------------------------------------------------------------------
(* The people on the issue.                                                *)

PersonComments ==
    /\ lastId < MaxComments
    /\ lastId' = lastId + 1
    /\ thread' = thread \cup {lastId + 1}
    /\ UNCHANGED <<trust, shows, removals, search, mode, pc, mine, target, ret, lapse>>

PersonDeletes ==
    /\ removals < MaxRemovals
    /\ \E c \in thread : thread' = thread \ {c}
    /\ removals' = removals + 1
    /\ UNCHANGED <<trust, lastId, shows, search, mode, pc, mine, target, ret, lapse>>

-----------------------------------------------------------------------------
FindStep(r)  == FindPage(r) \/ FindCutShort(r) \/ FindByRest(r) \/ FindFails(r)
FirstStep(r) == FirstPage(r) \/ FirstCutShort(r) \/ FirstByRest(r) \/ FirstFails(r)
WriteStep(r) == \/ Snooze(r) \/ Update(r) \/ UpdateFails(r)
                \/ Create(r) \/ CreateFails(r)
                \/ Merge(r) \/ MergeFails(r)
                \/ Discard(r) \/ DiscardFails(r)

RunStep(r) == Start(r) \/ FindStep(r) \/ FirstStep(r) \/ WriteStep(r)

Next == (\E r \in Runs : RunStep(r)) \/ PersonComments \/ PersonDeletes

Spec == Init /\ [][Next]_vars

\* The event loop of a run goes on as long as its calls are answered (or fail).
FairSpec == Spec /\ \A r \in Runs : WF_vars(RunStep(r))

-----------------------------------------------------------------------------
(* Properties.                                                             *)

TypeOK ==
    /\ lastId \in Nat
    /\ thread \subseteq 1..lastId
    /\ trust \subseteq 1..lastId
    /\ shows \in [trust -> Runs \cup {Earlier}]
    /\ removals \in Nat
    /\ mode \in [Runs -> Modes]
    /\ pc \in [Runs -> Stages]
    /\ cursor \in [Runs -> 0..lastId]
    /\ pages \in [Runs -> Nat]
    /\ hit \in [Runs -> trust \cup {NoComment}]
    /\ mine \in [Runs -> trust \cup {NoComment}]
    /\ target \in [Runs -> trust \cup {NoComment}]
    /\ ret \in [Runs -> trust \cup {NoComment}]
    /\ lapse \in [Runs -> BOOLEAN]

\* Whatever the runs do concurrently and whichever calls fail, they never
\* delete the oldest TrustBridge comment of the issue: a thread that got a
\* TrustBridge comment keeps one (upsertIssueComment never leaves an issue
\* without its report unless a person deletes it).
OldestSurvives ==
    removals = 0 => \A c \in trust : IsFirst(c, trust) => c \in thread

\* All runs that merge at the same time merge into the same comment, the
\* oldest one, and each of them discards a later comment of its own
\* (reconcileDuplicateStickyComment: two runs never discard each other's).
MergersAgree ==
    removals = 0 =>
        \A r \in Runs : pc[r] \in {"merge", "discard"} =>
            IsFirst(target[r], trust) /\ target[r] < mine[r]

\* Once a run has written its report, the issue shows the report of some run
\* at every later moment: a comment is only discarded after the oldest one has
\* been rewritten.
SomeReportShown ==
    (removals = 0 /\ \E c \in trust : shows[c] \in Runs) =>
        \E c \in trust \cap thread : shows[c] \in Runs

\* The oldest TrustBridge comment lies beyond the pages a search reads.
BeyondSearch ==
    \E c \in trust \cap thread :
        /\ IsFirst(c, trust \cap thread)
        /\ Cardinality({d \in thread : d <= c}) > PageSize * MaxPages

\* A duplicate that a sticky run leaves behind is always the work of a failed
\* call of that very run (or of a thread longer than the search window):
\* interleaving alone never produces one (issue 790).
NoUnexplainedDuplicate ==
    removals = 0 =>
        \A r \in Runs :
            (mode[r] = "sticky" /\ pc[r] = "done" /\ mine[r] \in thread) =>
                \/ IsFirst(mine[r], trust \cap thread)
                \/ lapse[r]
                \/ BeyondSearch

\* The comment a reply links to is never discarded by a racing sticky run: the
\* root that findFirstTrustBridgeComment picked stays on the issue.
ReplyRootStays ==
    removals = 0 =>
        \A r \in Runs : (mode[r] = "reply" /\ hit[r] # NoComment) => hit[r] \in thread

\* What concurrent runs may never destroy, whichever of their calls fail: the
\* oldest TrustBridge comment, the last report shown, and the root a reply of
\* another run links to (reconcileDuplicateStickyComment deletes a comment).
CommentsSurvive == OldestSurvives /\ SomeReportShown /\ ReplyRootStays

\* "all runs converge on the oldest comment and the issue keeps exactly one
\* TrustBridge comment": when every run has ended, each has returned the
\* oldest comment and no other one is left.
RunsConvergeOnOldest ==
    (\A r \in Runs : pc[r] = "done") =>
        /\ \A r \in Runs : IsFirst(ret[r], trust \cap thread)
        /\ Cardinality(trust \cap thread) = 1

\* A run that has begun ends, whatever fails: no failed call is retried without
\* bound and no search goes on for ever.
RunsEnd == \A r \in Runs : pc[r] # "start" ~> pc[r] \in {"done", "failed"}
=============================================================================
