------------------------ MODULE StickyCommentProofs ------------------------
(***************************************************************************)
(* What the sticky comment keeps for any number of runs, any page size     *)
(* and page cap, any set of failing calls and any thread: the oldest       *)
(* comment survives, concurrent merges agree on it, a report stays         *)
(* readable, a reply's root stays, and a duplicate that stays has its      *)
(* reason: a failed call, or a thread beyond the cap.                      *)
(***************************************************************************)
EXTENDS StickyComment, TLAPS, FiniteSetTheorems, WellFoundedInduction

\* No run finds a TrustBridge comment gone without an older one being there.
Anchored == \A d \in trust : \E e \in trust \cap thread : e <= d

\* A search for the first comment has not passed any TrustBridge comment.
NothingPassed ==
    \A r \in Runs : FirstSearch(r) => \A c \in trust \cap thread : c > cursor[r]

MergeTargets ==
    \A r \in Runs : pc[r] \in {"merge", "discard"} =>
        IsFirst(target[r], trust) /\ target[r] < mine[r]

\* A run deletes its comment only after the oldest one shows a run's report.
Rewritten == \A r \in Runs : pc[r] = "discard" => shows[target[r]] \in Runs

ReplyRoots ==
    \A r \in Runs : (mode[r] = "reply" /\ hit[r] # NoComment) => IsFirst(hit[r], trust)

Shown ==
    (\E c \in trust : shows[c] \in Runs) => \E c \in trust \cap thread : shows[c] \in Runs

StageOK ==
    \A r \in Runs :
        /\ pc[r] \in {"find", "update"} => mode[r] = "sticky"
        /\ pc[r] = "parent" => mode[r] = "reply"
        /\ pc[r] \in {"recheck", "merge", "discard"} => mine[r] \in trust
        /\ pc[r] \in {"start", "update", "create"} => cursor[r] = 0

Undisturbed == Anchored /\ NothingPassed /\ MergeTargets /\ Rewritten /\ ReplyRoots /\ Shown

IInv == TypeOK /\ StageOK /\ (removals = 0 => Undisturbed)

USE DEF NoComment, issue, search

-----------------------------------------------------------------------------
\* The type invariant of the sticky comment protocol is inductive by itself:
\* the ids a run holds (hit, mine, target, ret) are always TrustBridge comments.
LEMMA TypeInit == Init => TypeOK
  BY ConstantsAssumption DEF ConstantsAssumption, Init, TypeOK, Stages, Earlier

LEMMA FoundType ==
  ASSUME TypeOK, NEW r \in Runs, NEW c \in trust \cup {NoComment}, Found(r, c)
  PROVE  /\ hit' \in [Runs -> trust \cup {NoComment}]
         /\ pc' \in [Runs -> Stages]
         /\ cursor' \in [Runs -> 0..lastId]
         /\ pages' \in [Runs -> Nat]
  BY DEF TypeOK, Found, Goto, EndSearch, Stages

LEMMA NextPageType ==
  ASSUME TypeOK, NEW r \in Runs, NEW p \in Pages(r), NextPage(r, p)
  PROVE  /\ cursor' \in [Runs -> 0..lastId]
         /\ pages' \in [Runs -> Nat]
  BY DEF TypeOK, NextPage, Pages, IsPage, Unread, IsLast

LEMMA FirstFoundType ==
  ASSUME TypeOK, NEW r \in Runs, NEW c \in trust \cup {NoComment}, NEW cut \in BOOLEAN,
         FirstFound(r, c, cut)
  PROVE  /\ hit' \in [Runs -> trust \cup {NoComment}]
         /\ target' \in [Runs -> trust \cup {NoComment}]
         /\ lapse' \in [Runs -> BOOLEAN]
         /\ pc' \in [Runs -> Stages]
         /\ cursor' \in [Runs -> 0..lastId]
         /\ pages' \in [Runs -> Nat]
  BY DEF TypeOK, FirstFound, Goto, EndSearch, Stages

LEMMA TypeStep == TypeOK /\ [Next]_vars => TypeOK'
  <1> SUFFICES ASSUME TypeOK, [Next]_vars PROVE TypeOK'
    OBVIOUS
  <1>1. CASE UNCHANGED vars
    BY <1>1 DEF TypeOK, vars
  <1>2. ASSUME NEW r \in Runs, Start(r) PROVE TypeOK'
    BY <1>2, ConstantsAssumption DEF TypeOK, Start, Goto, Stages, ConstantsAssumption
  <1>3. ASSUME NEW r \in Runs, FindStep(r) PROVE TypeOK'
    <2>1. CASE FindPage(r)
      <3>1. PICK p \in Pages(r), best \in trust \cup {NoComment} :
              IF GoesOn(r, p)
              THEN NextPage(r, p) /\ hit' = [hit EXCEPT ![r] = best] /\ UNCHANGED pc
              ELSE Found(r, best)
        BY <2>1 DEF FindPage
      <3>2. CASE GoesOn(r, p)
        BY <2>1, <3>1, <3>2, NextPageType DEF FindPage, TypeOK
      <3>3. CASE ~GoesOn(r, p)
        BY <2>1, <3>1, <3>3, FoundType DEF FindPage, TypeOK
      <3> QED BY <3>2, <3>3
    <2>2. CASE FindCutShort(r)
      BY <2>2, FoundType DEF FindCutShort, TypeOK
    <2>3. CASE FindByRest(r)
      BY <2>3, FoundType DEF FindByRest, TypeOK
    <2>4. CASE FindFails(r)
      BY <2>4, FoundType DEF FindFails, TypeOK
    <2> QED BY <1>3, <2>1, <2>2, <2>3, <2>4 DEF FindStep
  <1>4. ASSUME NEW r \in Runs, FirstStep(r) PROVE TypeOK'
    <2>1. CASE FirstPage(r)
      <3>1. PICK p \in Pages(r) :
              \/ \E c \in p : IsFirst(c, p \cap trust) /\ FirstFound(r, c, FALSE)
              \/ NextPage(r, p) /\ UNCHANGED <<hit, pc, target, lapse>>
              \/ FirstFound(r, NoComment, FALSE)
        BY <2>1 DEF FirstPage
      <3>2. CASE \E c \in p : IsFirst(c, p \cap trust) /\ FirstFound(r, c, FALSE)
        BY <2>1, <3>2, FirstFoundType DEF FirstPage, TypeOK, IsFirst
      <3>3. CASE NextPage(r, p) /\ UNCHANGED <<hit, pc, target, lapse>>
        BY <2>1, <3>3, NextPageType DEF FirstPage, TypeOK
      <3>4. CASE FirstFound(r, NoComment, FALSE)
        BY <2>1, <3>4, FirstFoundType DEF FirstPage, TypeOK
      <3> QED BY <3>1, <3>2, <3>3, <3>4
    <2>2. CASE FirstCutShort(r)
      BY <2>2, FirstFoundType DEF FirstCutShort, TypeOK
    <2>3. CASE FirstByRest(r)
      BY <2>3, FirstFoundType DEF FirstByRest, TypeOK
    <2>4. CASE FirstFails(r)
      BY <2>4, FirstFoundType DEF FirstFails, TypeOK
    <2> QED BY <1>4, <2>1, <2>2, <2>3, <2>4 DEF FirstStep
  <1>5. ASSUME NEW r \in Runs, WriteStep(r) PROVE TypeOK'
    <2>1. CASE Snooze(r) \/ UpdateFails(r) \/ CreateFails(r) \/ MergeFails(r) \/ DiscardFails(r)
      BY <2>1 DEF TypeOK, Snooze, UpdateFails, CreateFails, MergeFails, DiscardFails, Goto, Stages
    <2>2. CASE Update(r)
      BY <2>2 DEF TypeOK, Update, WriteReport, Goto, Stages
    <2>3. CASE Create(r)
      BY <2>3 DEF TypeOK, Create, Goto, Stages
    <2>4. CASE Merge(r)
      BY <2>4 DEF TypeOK, Merge, WriteReport, Goto, Stages
    <2>5. CASE Discard(r)
      BY <2>5 DEF TypeOK, Discard, Goto, Stages
    <2> QED BY <1>5, <2>1, <2>2, <2>3, <2>4, <2>5 DEF WriteStep
  <1>6. CASE PersonComments
    BY <1>6 DEF TypeOK, PersonComments
  <1>7. CASE PersonDeletes
    BY <1>7 DEF TypeOK, PersonDeletes
  <1> QED BY <1>1, <1>2, <1>3, <1>4, <1>5, <1>6, <1>7 DEF Next, RunStep

\* The variables of the protocol keep their types in every reachable state, for
\* every number of runs and every bound (no id held by a run is ever invented).
THEOREM TypeCorrect == Spec => []TypeOK
  BY TypeInit, TypeStep, PTL DEF Spec

-----------------------------------------------------------------------------
(* The searches for the first comment.                                     *)

\* The first match on the page after the cursor is the oldest of all.
LEMMA FirstOnPage ==
  ASSUME TypeOK, Anchored, NothingPassed,
         NEW r \in Runs, FirstSearch(r), NEW p \in Pages(r),
         NEW c \in p, IsFirst(c, p \cap trust)
  PROVE  IsFirst(c, trust)
  <1>1. c \in trust
    BY DEF IsFirst
  <1>2. ASSUME NEW d \in trust PROVE c <= d
    <2>1. PICK e \in trust \cap thread : e <= d
      BY DEF Anchored
    <2>2. e \in Unread(r)
      BY <2>1 DEF NothingPassed, Unread
    <2>3. c <= e
      BY <1>1, <2>1, <2>2 DEF Pages, IsPage, IsFirst, TypeOK
    <2> QED BY <1>1, <2>1, <2>3 DEF TypeOK
  <1> QED BY <1>1, <1>2 DEF IsFirst

\* Going on to the next page passes no TrustBridge comment.
LEMMA NextPagePasses ==
  ASSUME TypeOK, NothingPassed, NEW r \in Runs, FirstSearch(r),
         NEW p \in Pages(r), p \cap trust = {}, NextPage(r, p)
  PROVE  \A c \in trust \cap thread : c > cursor'[r]
  <1> SUFFICES ASSUME NEW c \in trust \cap thread PROVE c > cursor'[r]
    OBVIOUS
  <1>1. PICK k \in p : IsLast(k, p) /\ cursor' = [cursor EXCEPT ![r] = k]
    BY DEF NextPage
  <1>2. c \in Unread(r) /\ c \notin p
    BY DEF NothingPassed, Unread
  <1>3. ~(c < k) /\ c # k
    BY <1>1, <1>2 DEF Pages, IsPage
  <1>4. cursor'[r] = k
    BY <1>1 DEF TypeOK
  <1>5. k \in Int /\ c \in Int
    BY <1>1 DEF TypeOK, Pages, IsPage, Unread
  <1> QED BY <1>3, <1>4, <1>5

\* The first match in the whole thread is the oldest of all.
LEMMA FirstInThread ==
  ASSUME TypeOK, Anchored, NEW c, IsFirst(c, thread \cap trust)
  PROVE  IsFirst(c, trust)
  BY DEF TypeOK, Anchored, IsFirst

\* The oldest comment is still on the issue.
LEMMA OldestInThread ==
  ASSUME TypeOK, Anchored, NEW c \in trust, IsFirst(c, trust)
  PROVE  c \in thread
  <1>1. PICK e \in trust \cap thread : e <= c
    BY DEF Anchored
  <1>2. c <= e
    BY <1>1 DEF IsFirst
  <1>3. c = e
    BY <1>1, <1>2 DEF TypeOK
  <1> QED BY <1>1, <1>3

\* What the end of a first search does to the clauses about the runs.
LEMMA FirstFoundKeeps ==
  ASSUME TypeOK, StageOK, Undisturbed, NEW r \in Runs, FirstSearch(r), NEW cut \in BOOLEAN,
         NEW c \in trust \cup {NoComment}, c # NoComment => IsFirst(c, trust),
         FirstFound(r, c, cut), UNCHANGED <<issue, mode, mine, ret>>
  PROVE  Undisturbed'
  <1>1. Anchored' /\ Shown'
    BY DEF Anchored, Shown, Undisturbed
  <1>2. NothingPassed'
    BY DEF NothingPassed, Undisturbed, FirstFound, FirstSearch, EndSearch, Goto, TypeOK
  <1>3. MergeTargets'
    <2> SUFFICES ASSUME NEW s \in Runs, pc'[s] \in {"merge", "discard"}
                 PROVE  IsFirst(target'[s], trust) /\ target'[s] < mine[s]
      BY DEF MergeTargets
    <2>1. CASE s # r
      BY <2>1 DEF Undisturbed, MergeTargets, FirstFound, Goto, TypeOK
    <2>2. CASE s = r
      <3>1. /\ pc[r] = "recheck" /\ c \notin {NoComment, mine[r]}
            /\ target' = [target EXCEPT ![r] = c]
        BY <2>2 DEF FirstFound, Goto, TypeOK
      <3>2. mine[r] \in trust /\ IsFirst(c, trust) /\ target'[r] = c
        <4>1. mine[r] \in trust
          BY <3>1 DEF StageOK
        <4>2. IsFirst(c, trust) /\ target'[r] = c
          BY <3>1 DEF TypeOK
        <4> QED BY <4>1, <4>2
      <3>3. c <= mine[r] /\ c # mine[r] /\ c \in Int /\ mine[r] \in Int
        <4>1. c <= mine[r] /\ c # mine[r]
          BY <3>1, <3>2 DEF IsFirst
        <4>2. c \in trust /\ mine[r] \in trust
          BY <3>2 DEF IsFirst
        <4>3. \A d \in trust : d \in Int
          BY DEF TypeOK
        <4> QED BY <4>1, <4>2, <4>3
      <3> QED BY <2>2, <3>2, <3>3
    <2> QED BY <2>1, <2>2
  <1>4. Rewritten'
    BY DEF Rewritten, Undisturbed, FirstFound, Goto, TypeOK
  <1>5. ReplyRoots'
    BY DEF ReplyRoots, Undisturbed, FirstFound, Goto, TypeOK
  <1> QED BY <1>1, <1>2, <1>3, <1>4, <1>5 DEF Undisturbed

-----------------------------------------------------------------------------
(* The inductive invariant.                                                *)

LEMMA StageStep == TypeOK /\ StageOK /\ [Next]_vars => StageOK'
  <1> SUFFICES ASSUME TypeOK, StageOK, [Next]_vars PROVE StageOK'
    OBVIOUS
  <1> USE DEF TypeOK, StageOK, Goto
  <1>1. CASE UNCHANGED vars
    BY <1>1 DEF vars
  <1>2. ASSUME NEW r \in Runs, Start(r) PROVE StageOK'
    BY <1>2, ConstantsAssumption DEF Start, ConstantsAssumption
  <1>3. ASSUME NEW r \in Runs, FindStep(r) PROVE StageOK'
    <2>1. pc[r] = "find" /\ mode[r] = "sticky" /\ mode' = mode /\ mine' = mine /\ trust' = trust
      BY <1>3 DEF FindStep, FindPage, FindCutShort, FindByRest, FindFails
    <2>2. \A s \in Runs : s # r => pc'[s] = pc[s] /\ cursor'[s] = cursor[s]
      BY <1>3 DEF FindStep, FindPage, FindCutShort, FindByRest, FindFails, Found, NextPage, EndSearch
    <2>3. \/ pc'[r] = "find"
          \/ pc'[r] \in {"create", "update"} /\ cursor'[r] = 0
      BY <1>3, <2>1 DEF FindStep, FindPage, FindCutShort, FindByRest, FindFails, Found, EndSearch
    <2> QED BY <2>1, <2>2, <2>3
  <1>4. ASSUME NEW r \in Runs, FirstStep(r) PROVE StageOK'
    <2>1. FirstSearch(r) /\ mode' = mode /\ mine' = mine /\ trust' = trust
      BY <1>4 DEF FirstStep, FirstPage, FirstCutShort, FirstByRest, FirstFails
    <2>2. \A s \in Runs : s # r => pc'[s] = pc[s] /\ cursor'[s] = cursor[s]
      BY <1>4 DEF FirstStep, FirstPage, FirstCutShort, FirstByRest, FirstFails, FirstFound,
                  NextPage, EndSearch
    <2>3. \/ pc'[r] = pc[r]
          \/ pc'[r] = "create" /\ cursor'[r] = 0
          \/ pc'[r] = "done"
          \/ pc'[r] = "merge" /\ pc[r] = "recheck"
      BY <1>4, <2>1 DEF FirstStep, FirstPage, FirstCutShort, FirstByRest, FirstFails, FirstFound,
                        EndSearch
    <2> QED BY <2>1, <2>2, <2>3 DEF FirstSearch
  <1>5. ASSUME NEW r \in Runs, WriteStep(r) PROVE StageOK'
    <2>1. CASE Create(r)
      BY <2>1 DEF Create
    <2>2. CASE ~Create(r)
      BY <1>5, <2>2 DEF WriteStep, Snooze, Update, UpdateFails, CreateFails, Merge, MergeFails,
                        Discard, DiscardFails
    <2> QED BY <2>1, <2>2
  <1>6. CASE PersonComments \/ PersonDeletes
    BY <1>6 DEF PersonComments, PersonDeletes
  <1> QED BY <1>1, <1>2, <1>3, <1>4, <1>5, <1>6 DEF Next, RunStep

\* Steps that change neither the issue nor anything a first search or a merge
\* relies on.
LEMMA QuietStep ==
  ASSUME TypeOK, Undisturbed, NEW r \in Runs, UNCHANGED <<issue, mode, mine, target>>,
         \A s \in Runs : s # r => pc'[s] = pc[s] /\ cursor'[s] = cursor[s] /\ hit'[s] = hit[s],
         pc'[r] \in {"find", "parent", "update", "create", "done", "failed"},
         pc'[r] = "parent" => pc[r] = "start" /\ cursor'[r] = 0,
         mode[r] = "reply" => hit'[r] = hit[r]
  PROVE  Undisturbed'
  <1>1. Anchored' /\ Shown'
    BY DEF Anchored, Shown, Undisturbed
  <1>2. NothingPassed'
    <2> SUFFICES ASSUME NEW s \in Runs, FirstSearch(s)', NEW c \in trust \cap thread
                 PROVE  c > cursor'[s]
      BY DEF NothingPassed
    <2>1. CASE s = r
      BY <2>1 DEF FirstSearch, TypeOK
    <2>2. CASE s # r
      BY <2>2 DEF NothingPassed, Undisturbed, FirstSearch
    <2> QED BY <2>1, <2>2
  <1>3. MergeTargets' /\ Rewritten'
    BY DEF MergeTargets, Rewritten, Undisturbed
  <1>4. ReplyRoots'
    BY DEF ReplyRoots, Undisturbed
  <1> QED BY <1>1, <1>2, <1>3, <1>4 DEF Undisturbed

LEMMA UndisturbedInit == Init => Undisturbed
  <1> SUFFICES ASSUME Init PROVE Undisturbed
    OBVIOUS
  <1>1. trust \subseteq thread /\ \A c \in trust : c \in Int
    BY ConstantsAssumption DEF Init, ConstantsAssumption
  <1>2. Anchored /\ Shown
    BY <1>1 DEF Anchored, Shown
  <1>3. NothingPassed /\ MergeTargets /\ Rewritten /\ ReplyRoots
    BY DEF Init, NothingPassed, FirstSearch, MergeTargets, Rewritten, ReplyRoots
  <1> QED BY <1>2, <1>3 DEF Undisturbed

LEMMA FindStepKeeps ==
  ASSUME TypeOK, StageOK, Undisturbed, NEW r \in Runs, FindStep(r)
  PROVE  Undisturbed'
  <1>1. pc[r] = "find" /\ mode[r] = "sticky" /\ UNCHANGED <<issue, mode, mine, target>>
    BY DEF FindStep, FindPage, FindCutShort, FindByRest, FindFails, StageOK
  <1>2. \A s \in Runs : s # r => pc'[s] = pc[s] /\ cursor'[s] = cursor[s] /\ hit'[s] = hit[s]
    BY DEF FindStep, FindPage, FindCutShort, FindByRest, FindFails, Found, NextPage, EndSearch,
           Goto, TypeOK
  <1>3. pc'[r] \in {"find", "create", "update"}
    BY <1>1 DEF FindStep, FindPage, FindCutShort, FindByRest, FindFails, Found, Goto, TypeOK
  <1> QED BY <1>1, <1>2, <1>3, QuietStep

LEMMA FirstStepKeeps ==
  ASSUME TypeOK, StageOK, Undisturbed, NEW r \in Runs, FirstStep(r)
  PROVE  Undisturbed'
  <1>1. FirstSearch(r) /\ UNCHANGED <<issue, mode, mine, ret>>
    BY DEF FirstStep, FirstPage, FirstCutShort, FirstByRest, FirstFails
  <1>2. CASE FirstPage(r)
    <2>1. PICK p \in Pages(r) :
            \/ \E c \in p : IsFirst(c, p \cap trust) /\ FirstFound(r, c, FALSE)
            \/ p \cap trust = {} /\ NextPage(r, p) /\ UNCHANGED <<hit, pc, target, lapse>>
            \/ FirstFound(r, NoComment, FALSE)
      BY <1>2 DEF FirstPage
    <2>2. ASSUME NEW c \in p, IsFirst(c, p \cap trust), FirstFound(r, c, FALSE)
          PROVE  Undisturbed'
      <3>1. c \in trust /\ IsFirst(c, trust)
        BY <1>1, <2>2, FirstOnPage DEF Undisturbed, IsFirst
      <3> QED BY <1>1, <2>2, <3>1, FirstFoundKeeps
    <2>3. CASE p \cap trust = {} /\ NextPage(r, p) /\ UNCHANGED <<hit, pc, target, lapse>>
      <3>1. \A c \in trust \cap thread : c > cursor'[r]
        BY <1>1, <2>3, NextPagePasses DEF Undisturbed
      <3>2. \A s \in Runs : s # r => cursor'[s] = cursor[s]
        BY <2>3 DEF NextPage, TypeOK
      <3>3. NothingPassed'
        BY <1>1, <2>3, <3>1, <3>2 DEF NothingPassed, Undisturbed, FirstSearch
      <3>4. Anchored' /\ MergeTargets' /\ Rewritten' /\ ReplyRoots' /\ Shown'
        BY <1>1, <2>3 DEF Undisturbed, Anchored, MergeTargets, Rewritten, ReplyRoots, Shown
      <3> QED BY <3>3, <3>4 DEF Undisturbed
    <2>4. CASE FirstFound(r, NoComment, FALSE)
      BY <1>1, <2>4, FirstFoundKeeps
    <2> QED BY <2>1, <2>2, <2>3, <2>4
  <1>3. CASE FirstCutShort(r) \/ FirstFails(r)
    <2>1. FirstFound(r, NoComment, TRUE)
      BY <1>3 DEF FirstCutShort, FirstFails
    <2> QED BY <1>1, <2>1, FirstFoundKeeps
  <1>4. CASE FirstByRest(r)
    <2>1. PICK c \in trust \cup {NoComment} :
            /\ IF thread \cap trust = {} THEN c = NoComment ELSE IsFirst(c, thread \cap trust)
            /\ FirstFound(r, c, FALSE)
      BY <1>4 DEF FirstByRest
    <2>2. c # NoComment => IsFirst(c, trust)
      BY <2>1, FirstInThread DEF Undisturbed
    <2> QED BY <1>1, <2>1, <2>2, FirstFoundKeeps
  <1> QED BY <1>2, <1>3, <1>4 DEF FirstStep

\* Writing a run's report to a comment of the thread.
LEMMA WriteKeeps ==
  ASSUME TypeOK, Undisturbed, NEW r \in Runs, NEW c \in trust, WriteReport(r, c),
         UNCHANGED <<thread, trust, removals, mode, mine, target, cursor, hit>>,
         \A s \in Runs : s # r => pc'[s] = pc[s],
         \/ pc'[r] = "done"
         \/ pc'[r] = "discard" /\ pc[r] = "merge" /\ c = target[r]
  PROVE  Undisturbed'
  <1>1. c \in thread /\ shows'[c] = r /\ \A d \in trust : d # c => shows'[d] = shows[d]
    BY DEF WriteReport, TypeOK
  <1>2. Anchored' /\ Shown'
    BY <1>1 DEF Anchored, Shown, Undisturbed
  <1>3. NothingPassed'
    BY DEF NothingPassed, Undisturbed, FirstSearch
  <1>4. MergeTargets'
    BY DEF MergeTargets, Undisturbed
  <1>5. Rewritten'
    <2> SUFFICES ASSUME NEW s \in Runs, pc'[s] = "discard" PROVE shows'[target[s]] \in Runs
      BY DEF Rewritten
    <2>1. CASE s = r
      BY <1>1, <2>1
    <2>2. CASE s # r
      <3>1. shows[target[s]] \in Runs /\ target[s] \in trust
        BY <2>2 DEF Rewritten, MergeTargets, Undisturbed, IsFirst
      <3> QED BY <1>1, <3>1
    <2> QED BY <2>1, <2>2
  <1>6. ReplyRoots'
    BY DEF ReplyRoots, Undisturbed
  <1> QED BY <1>2, <1>3, <1>4, <1>5, <1>6 DEF Undisturbed

\* A new comment is younger than all others.
LEMMA CreateKeeps ==
  ASSUME TypeOK, StageOK, Undisturbed, NEW r \in Runs, Create(r)
  PROVE  Undisturbed'
  <1> DEFINE n == lastId + 1
  <1>1. /\ thread' = thread \cup {n} /\ trust' = trust \cup {n} /\ n \in Nat
        /\ \A c \in trust \cup thread : c \in Nat /\ c < n
    BY DEF Create, TypeOK
  <1>2. shows'[n] = r /\ \A c \in trust : shows'[c] = shows[c]
    BY <1>1 DEF Create
  <1>3. /\ \A s \in Runs : s # r => pc'[s] = pc[s] /\ mine'[s] = mine[s]
        /\ pc[r] = "create" /\ pc'[r] \in {"recheck", "done"} /\ UNCHANGED <<cursor, hit, target, mode>>
    BY DEF Create, Goto, TypeOK
  <1>4. \A c \in trust : IsFirst(c, trust) => IsFirst(c, trust')
    BY <1>1 DEF IsFirst
  <1> HIDE DEF n
  <1>5. Anchored'
    BY <1>1 DEF Anchored, Undisturbed
  <1>6. NothingPassed'
    <2> SUFFICES ASSUME NEW s \in Runs, FirstSearch(s)', NEW c \in trust' \cap thread'
                 PROVE  c > cursor[s]
      BY <1>3 DEF NothingPassed
    <2>1. cursor[s] \in Nat /\ cursor[s] < n
      BY DEF TypeOK, n
    <2>2. CASE c = n
      BY <1>1, <2>1, <2>2
    <2>3. CASE c # n /\ s # r
      BY <1>1, <1>3, <2>3 DEF NothingPassed, Undisturbed, FirstSearch
    <2>4. CASE c # n /\ s = r
      <3>1. cursor[s] = 0
        BY <1>3, <2>4 DEF StageOK
      <3>2. c \in trust
        BY <1>1, <2>4
      <3>3. c > 0
        BY <3>2 DEF TypeOK
      <3> QED BY <3>1, <3>3
    <2> QED BY <2>2, <2>3, <2>4
  <1>7. MergeTargets'
    BY <1>3, <1>4 DEF MergeTargets, Undisturbed, IsFirst
  <1>8. Rewritten'
    BY <1>2, <1>3 DEF Rewritten, MergeTargets, Undisturbed, IsFirst
  <1>9. ReplyRoots'
    BY <1>3, <1>4 DEF ReplyRoots, Undisturbed, IsFirst
  <1>10. Shown'
    BY <1>1, <1>2 DEF Shown
  <1> QED BY <1>5, <1>6, <1>7, <1>8, <1>9, <1>10 DEF Undisturbed

\* Discarding the younger comment of a merge loses neither the oldest comment nor
\* the last report.
LEMMA DiscardKeeps ==
  ASSUME TypeOK, Undisturbed, NEW r \in Runs, Discard(r)
  PROVE  Undisturbed'
  <1>1. /\ thread' = thread \ {mine[r]}
        /\ \A s \in Runs : s # r => pc'[s] = pc[s]
        /\ pc[r] = "discard" /\ pc'[r] = "done"
        /\ UNCHANGED <<trust, shows, cursor, hit, mine, target, mode>>
    BY DEF Discard, Goto, TypeOK
  <1>2. IsFirst(target[r], trust) /\ target[r] < mine[r] /\ shows[target[r]] \in Runs
    BY <1>1 DEF MergeTargets, Rewritten, Undisturbed
  <1>3. target[r] \in trust \cap thread'
    <2>1. target[r] \in trust
      BY <1>2 DEF IsFirst
    <2>2. target[r] \in thread
      BY <1>2, <2>1, OldestInThread DEF Undisturbed
    <2>3. target[r] # mine[r]
      <3>1. \A d \in trust : d \in Int
        BY DEF TypeOK
      <3> QED BY <1>2, <2>1, <3>1
    <2> QED BY <1>1, <2>1, <2>2, <2>3
  <1>4. Anchored'
    BY <1>1, <1>2, <1>3 DEF Anchored, IsFirst
  <1>5. Shown'
    BY <1>1, <1>2, <1>3 DEF Shown
  <1>6. NothingPassed'
    BY <1>1 DEF NothingPassed, Undisturbed, FirstSearch
  <1>7. MergeTargets' /\ Rewritten' /\ ReplyRoots'
    BY <1>1 DEF MergeTargets, Rewritten, ReplyRoots, Undisturbed
  <1> QED BY <1>4, <1>5, <1>6, <1>7 DEF Undisturbed

LEMMA WriteStepKeeps ==
  ASSUME TypeOK, StageOK, Undisturbed, NEW r \in Runs, WriteStep(r)
  PROVE  Undisturbed'
  <1>1. CASE Snooze(r) \/ UpdateFails(r) \/ CreateFails(r) \/ MergeFails(r) \/ DiscardFails(r)
    <2>1. /\ UNCHANGED <<issue, mode, mine, target, cursor, hit>>
          /\ \A s \in Runs : s # r => pc'[s] = pc[s]
          /\ pc'[r] \in {"create", "done", "failed"}
      BY <1>1 DEF Snooze, UpdateFails, CreateFails, MergeFails, DiscardFails, Goto, TypeOK
    <2> QED BY <2>1, QuietStep
  <1>2. CASE Update(r)
    <2>1. hit[r] \in trust
      BY <1>2 DEF Update, WriteReport, TypeOK
    <2> QED BY <1>2, <2>1, WriteKeeps DEF Update, Goto, TypeOK
  <1>3. CASE Merge(r)
    <2>1. target[r] \in trust
      BY <1>3 DEF Merge, WriteReport, TypeOK
    <2> QED BY <1>3, <2>1, WriteKeeps DEF Merge, Goto, TypeOK
  <1>4. CASE Create(r)
    BY <1>4, CreateKeeps
  <1>5. CASE Discard(r)
    BY <1>5, DiscardKeeps
  <1> QED BY <1>1, <1>2, <1>3, <1>4, <1>5 DEF WriteStep

LEMMA InductiveStep == IInv /\ [Next]_vars => IInv'
  <1> SUFFICES ASSUME IInv, [Next]_vars PROVE IInv'
    OBVIOUS
  <1>1. TypeOK' /\ StageOK'
    BY TypeStep, StageStep DEF IInv
  <1>2. ASSUME removals' = 0 PROVE Undisturbed'
    <2>1. ~PersonDeletes
      BY <1>2 DEF PersonDeletes, IInv, TypeOK
    <2>2. CASE UNCHANGED vars
      <3>1. Undisturbed
        BY <1>2, <2>2 DEF IInv, vars
      <3> QED BY <2>2, <3>1 DEF vars, Undisturbed, Anchored, NothingPassed, FirstSearch, MergeTargets,
                             Rewritten, ReplyRoots, Shown
    <2>3. CASE PersonComments
      <3>1. Undisturbed /\ \A c \in trust \cap thread : c \in trust \cap thread'
        BY <1>2, <2>3 DEF IInv, PersonComments
      <3>2. \A c \in trust : c <= lastId /\ c # lastId + 1
        BY DEF IInv, TypeOK
      <3> QED BY <2>3, <3>1, <3>2 DEF PersonComments, Undisturbed, Anchored, NothingPassed,
                 FirstSearch, MergeTargets, Rewritten, ReplyRoots, Shown
    <2>4. ASSUME NEW r \in Runs, RunStep(r) PROVE Undisturbed'
      <3>1. removals' = removals
        BY <2>4 DEF RunStep, Start, FindStep, FindPage, FindCutShort, FindByRest, FindFails,
                    FirstStep, FirstPage, FirstCutShort, FirstByRest, FirstFails, WriteStep, Snooze,
                    Update, UpdateFails, Create, CreateFails, Merge, MergeFails, Discard, DiscardFails
      <3>2. TypeOK /\ StageOK /\ Undisturbed
        BY <1>2, <3>1 DEF IInv
      <3>3. CASE Start(r)
        <4>1. /\ UNCHANGED <<issue, mode, mine, target, cursor, hit>> /\ pc[r] = "start"
              /\ \A s \in Runs : s # r => pc'[s] = pc[s]
              /\ pc'[r] \in {"find", "parent", "create"} /\ cursor[r] = 0
          BY <3>2, <3>3, ConstantsAssumption DEF Start, Goto, TypeOK, StageOK, ConstantsAssumption
        <4> QED BY <3>2, <4>1, QuietStep
      <3> QED BY <2>4, <3>2, <3>3, FindStepKeeps, FirstStepKeeps, WriteStepKeeps DEF RunStep
    <2> QED BY <2>1, <2>2, <2>3, <2>4 DEF Next
  <1> QED BY <1>1, <1>2 DEF IInv

LEMMA Inductive == Spec => []IInv
  <1>1. Init => IInv
    <2>1. Init => StageOK
      BY DEF Init, StageOK
    <2> QED BY <2>1, TypeInit, UndisturbedInit DEF IInv
  <1> QED BY <1>1, InductiveStep, PTL DEF Spec

-----------------------------------------------------------------------------
\* upsertIssueComment never deletes the oldest TrustBridge comment, for every
\* number of concurrent runs and whichever calls fail.
THEOREM OldestIsKept == Spec => []OldestSurvives
  <1>1. IInv => OldestSurvives
    BY OldestInThread DEF IInv, Undisturbed, OldestSurvives
  <1> QED BY <1>1, Inductive, PTL

\* Runs that reconcile at the same time (reconcileDuplicateStickyComment) merge
\* into one and the same comment, older than each of their own.
THEOREM MergesAgree == Spec => []MergersAgree
  <1>1. IInv => MergersAgree
    BY DEF IInv, Undisturbed, MergeTargets, MergersAgree
  <1> QED BY <1>1, Inductive, PTL

\* Once upsertIssueComment has written a report, some report is on the issue.
THEOREM ReportStays == Spec => []SomeReportShown
  <1>1. IInv => SomeReportShown
    BY DEF IInv, Undisturbed, Shown, SomeReportShown
  <1> QED BY <1>1, Inductive, PTL

\* The comment a reply links to (comment_mode reply) is never deleted by a run.
THEOREM ReplyRootKept == Spec => []ReplyRootStays
  <1>1. IInv => ReplyRootStays
    BY OldestInThread DEF IInv, Undisturbed, ReplyRoots, ReplyRootStays, IsFirst
  <1> QED BY <1>1, Inductive, PTL

\* The deletion that ends a reconciliation destroys nothing that other runs
\* rely on, for every number of concurrent runs and whichever calls fail.
THEOREM NothingIsDestroyed == Spec => []CommentsSurvive
  <1>1. OldestSurvives /\ SomeReportShown /\ ReplyRootStays => CommentsSurvive
    BY DEF CommentsSurvive
  <1> QED BY <1>1, OldestIsKept, ReportStays, ReplyRootKept, PTL
-----------------------------------------------------------------------------
(* Duplicates.                                                             *)

Upto(c) == {d \in thread : d <= c}

\* The first TrustBridge comment lies behind more comments than a search reads.
FirstBeyond == \E c \in trust : IsFirst(c, trust) /\ Cardinality(Upto(c)) > PageSize * MaxPages

\* What a first search has passed is at least a full page for each it counted,
\* and no TrustBridge comment, so it is still there; a run that has not
\* created a comment has none.
PagesPassed ==
    \A r \in Runs :
        /\ FirstSearch(r) => Cardinality(Upto(cursor[r])) >= PageSize * pages[r]
        /\ pc[r] \in {"start", "update", "create"} => pages[r] = 0
        /\ pc[r] \in {"start", "find", "update", "parent", "create"} => mine[r] = NoComment

Explained ==
    \A r \in Runs : mode[r] = "sticky" /\ pc[r] = "done" /\ mine[r] \in thread =>
        IsFirst(mine[r], trust) \/ lapse[r] \/ FirstBeyond

DupInv == IInv /\ (removals = 0 => PagesPassed /\ Explained)

\* A set of comments that is not empty has an oldest one.
LEMMA LeastOf ==
    ASSUME NEW T \in SUBSET Nat, T # {}
    PROVE  \E x \in T : \A y \in T : x <= y
  <1>1. PICK x \in T : \A y \in T : ~(<<y, x>> \in OpToRel(<, Nat))
    BY NatLessThanWellFounded, WFMin
  <1>2. \A y \in T : ~(y < x)
    BY <1>1 DEF OpToRel
  <1>3. ASSUME NEW y \in T PROVE x <= y
    <2>1. x \in Nat /\ y \in Nat /\ ~(y < x)
      BY <1>1, <1>2
    <2> QED BY <2>1
  <1> QED BY <1>3

LEMMA IdsFinite == ASSUME NEW n \in Nat, NEW s, s \subseteq 1..n PROVE IsFiniteSet(s)
  <1>1. IsFiniteSet(1..n)
    BY FS_Interval
  <1> QED BY <1>1, FS_Subset

LEMMA UptoFinite ==
    ASSUME TypeOK, NEW c
    PROVE  IsFiniteSet(thread) /\ IsFiniteSet(Upto(c)) /\ Cardinality(Upto(c)) \in Nat
  <1>1. IsFiniteSet(thread)
    BY IdsFinite DEF TypeOK
  <1>2. IsFiniteSet(Upto(c))
    BY <1>1, FS_Subset DEF Upto
  <1> QED BY <1>1, <1>2, FS_CardinalityType

\* Pages times their size.
LEMMA PageProducts ==
    ASSUME NEW n \in Nat
    PROVE  /\ PageSize * n \in Nat /\ PageSize * 0 = 0
           /\ PageSize * (n + 1) = PageSize * n + PageSize
           /\ n + 1 >= MaxPages => PageSize * (n + 1) >= PageSize * MaxPages
           /\ PageSize \in Nat /\ PageSize * MaxPages \in Nat
  <1>1. PageSize \in Nat /\ MaxPages \in Nat
    BY ConstantsAssumption DEF ConstantsAssumption
  <1>2. PageSize * n \in Nat /\ PageSize * (n + 1) = PageSize * n + PageSize
    BY <1>1
  <1>3. ASSUME n + 1 >= MaxPages PROVE PageSize * (n + 1) >= PageSize * MaxPages
    <2>1. PageSize * (n + 1 - MaxPages) \in Nat
      BY <1>1, <1>3
    <2>2. PageSize * (n + 1) = PageSize * MaxPages + PageSize * (n + 1 - MaxPages)
      BY <1>1
    <2> QED BY <1>1, <2>1, <2>2
  <1> QED BY <1>1, <1>2, <1>3

\* A page without a TrustBridge comment adds what is on it.
LEMMA PagePassed ==
    ASSUME TypeOK, NEW r \in Runs, NEW p \in Pages(r), NEW c, Upto(cursor[r]) \cup p \subseteq Upto(c)
    PROVE  /\ Cardinality(Upto(c)) >= Cardinality(Upto(cursor[r])) + Cardinality(p)
           /\ Cardinality(p) \in Nat
           /\ c \in thread \ (Upto(cursor[r]) \cup p) => Cardinality(Upto(c)) > Cardinality(Upto(cursor[r])) + Cardinality(p)
  <1> DEFINE old == Upto(cursor[r])
             new == Upto(c)
  <1>1. p \subseteq thread /\ \A d \in p : d > cursor[r]
    BY DEF Pages, IsPage, Unread
  <1>2. old \cap p = {}
    <2>1. cursor[r] \in Int /\ \A d \in thread : d \in Int
      BY DEF TypeOK
    <2>2. \A d \in old : d <= cursor[r] /\ d \in thread
      BY DEF Upto
    <2> QED BY <1>1, <2>1, <2>2
  <1>3. /\ IsFiniteSet(p) /\ IsFiniteSet(old) /\ IsFiniteSet(new)
        /\ Cardinality(p) \in Nat /\ Cardinality(old) \in Nat /\ Cardinality(new) \in Nat
    BY <1>1, UptoFinite, FS_Subset, FS_CardinalityType
  <1> DEFINE both == old \cup p
  <1>4. IsFiniteSet(both) /\ Cardinality(both) = Cardinality(old) + Cardinality(p)
    BY <1>2, <1>3, FS_Union, FS_EmptySet
  <1>5. both \subseteq new
    OBVIOUS
  <1>6. c \in thread \ both => c \in new
    BY DEF Upto, TypeOK
  <1> HIDE DEF old, new, both
  <1>7. Cardinality(both) <= Cardinality(new) /\ (Cardinality(both) = Cardinality(new) => both = new)
    BY <1>3, <1>5, FS_Subset
  <1>8. Cardinality(new) >= Cardinality(old) + Cardinality(p)
    BY <1>3, <1>4, <1>7
  <1>9. c \in thread \ both => Cardinality(new) > Cardinality(old) + Cardinality(p)
    BY <1>3, <1>4, <1>6, <1>7
  <1> QED BY <1>3, <1>8, <1>9 DEF old, new, both

\* A search that ends at the page cap leaves the first comment beyond it.
LEMMA CapLeavesBeyond ==
    ASSUME TypeOK, StageOK, Undisturbed, PagesPassed, NEW r \in Runs, pc[r] = "recheck",
           NEW p \in Pages(r), p \cap trust = {}, ~GoesOn(r, p)
    PROVE  FirstBeyond
  <1>1. mine[r] \in trust
    BY DEF StageOK
  <1>2. PICK e \in trust \cap thread : e <= mine[r]
    BY <1>1 DEF Undisturbed, Anchored
  <1>3. e \in Unread(r) \ p
    BY <1>2 DEF Undisturbed, NothingPassed, FirstSearch, Unread
  <1>4. Cardinality(p) = PageSize /\ pages[r] + 1 >= MaxPages /\ pages[r] \in Nat
    <2>1. Cardinality(p) = PageSize
      BY <1>3 DEF Pages, IsPage
    <2>2. ~(pages[r] + 1 < MaxPages) /\ pages[r] \in Nat
      BY <1>3 DEF GoesOn, TypeOK
    <2> QED BY <2>1, <2>2, ConstantsAssumption DEF ConstantsAssumption
  <1>5. PICK c \in trust \cap thread : IsFirst(c, trust \cap thread)
    <2>1. trust \cap thread \subseteq Nat /\ trust \cap thread # {}
      BY <1>2 DEF TypeOK
    <2>2. \E c \in trust \cap thread : \A d \in trust \cap thread : c <= d
      BY <2>1, LeastOf
    <2> QED BY <2>2 DEF IsFirst
  <1>6. IsFirst(c, trust)
    BY <1>5, FirstInThread DEF Undisturbed, IsFirst
  <1>7. Upto(cursor[r]) \cup p \subseteq Upto(c) /\ c \in thread \ (Upto(cursor[r]) \cup p)
    <2>1. c > cursor[r] /\ c \in Unread(r) /\ c \notin p
      BY <1>5 DEF Undisturbed, NothingPassed, FirstSearch, Unread
    <2>2. \A d \in p : d <= c
      <3>1. \A d \in p : ~(c < d)
        BY <2>1 DEF Pages, IsPage
      <3> QED BY <1>5, <3>1 DEF Pages, IsPage, Unread, TypeOK
    <2>3. \A d \in Upto(cursor[r]) : d <= c /\ d # c /\ d \in thread
      BY <2>1 DEF Upto, TypeOK
    <2>4. p \subseteq thread
      BY DEF Pages, IsPage, Unread
    <2> QED BY <1>5, <2>1, <2>2, <2>3, <2>4 DEF Upto
  <1>8. Cardinality(Upto(c)) > Cardinality(Upto(cursor[r])) + Cardinality(p)
    BY <1>7, PagePassed
  <1>9. Cardinality(Upto(cursor[r])) >= PageSize * pages[r]
    BY DEF PagesPassed, FirstSearch
  <1>10. Cardinality(Upto(c)) > PageSize * MaxPages
    <2>1. Cardinality(Upto(c)) \in Nat /\ Cardinality(Upto(cursor[r])) \in Nat
      BY UptoFinite
    <2> DEFINE read == PageSize * pages[r]
               next == PageSize * (pages[r] + 1)
               cap == PageSize * MaxPages
    <2>2. read \in Nat /\ next = read + PageSize /\ next >= cap /\ PageSize \in Nat /\ cap \in Nat
      BY <1>4, PageProducts
    <2>3. Cardinality(Upto(cursor[r])) >= read
      BY <1>9
    <2> HIDE DEF read, next, cap
    <2>4. Cardinality(Upto(c)) > cap
      BY <1>4, <1>8, <2>1, <2>2, <2>3
    <2> QED BY <2>4 DEF cap
  <1> QED BY <1>5, <1>6, <1>10 DEF FirstBeyond

\* How far the first comment is stays as it is, as long as nothing up to it is
\* deleted and what is added comes after it.
LEMMA BeyondStays ==
    ASSUME TypeOK, TypeOK', FirstBeyond, trust \subseteq trust', \A d \in trust' \ trust : d > lastId,
           \A c \in trust : IsFirst(c, trust) => \A d \in thread : d <= c => d \in thread'
    PROVE  FirstBeyond'
  <1>1. PICK c \in trust : IsFirst(c, trust) /\ Cardinality(Upto(c)) > PageSize * MaxPages
    BY DEF FirstBeyond
  <1>2. c \in trust' /\ IsFirst(c, trust')
    BY <1>1 DEF IsFirst, TypeOK
  <1> DEFINE before == {d \in thread : d <= c}
             after == {d \in thread' : d <= c}
  <1>3. before \subseteq after
    BY <1>1
  <1>4. IsFiniteSet(after) /\ Cardinality(after) \in Nat
    <2>1. IsFiniteSet(thread')
      BY IdsFinite DEF TypeOK
    <2> QED BY <2>1, FS_Subset, FS_CardinalityType
  <1>5. Cardinality(before) \in Nat
    BY UptoFinite DEF Upto
  <1> HIDE DEF before, after
  <1>6. Cardinality(before) <= Cardinality(after)
    BY <1>3, <1>4, FS_Subset
  <1>7. Cardinality(after) > PageSize * MaxPages
    <2>1. PageSize * MaxPages \in Nat
      BY ConstantsAssumption DEF ConstantsAssumption
    <2> QED BY <1>1, <1>4, <1>5, <1>6, <2>1 DEF before, Upto
  <1> QED BY <1>2, <1>7 DEF FirstBeyond, Upto, after

\* What was passed stays: a run discards a TrustBridge comment only.
LEMMA PassedStays ==
    ASSUME TypeOK, TypeOK', NEW c, \A d \in Upto(c) : d \in thread'
    PROVE  Cardinality(Upto(c)) <= Cardinality({d \in thread' : d <= c}) /\ Cardinality({d \in thread' : d <= c}) \in Nat
  <1> DEFINE after == {d \in thread' : d <= c}
  <1>1. IsFiniteSet(after) /\ Cardinality(after) \in Nat
    <2>1. IsFiniteSet(thread')
      BY IdsFinite DEF TypeOK
    <2> QED BY <2>1, FS_Subset, FS_CardinalityType
  <1>2. Upto(c) \subseteq after
    BY DEF Upto
  <1> HIDE DEF after
  <1>3. Cardinality(Upto(c)) <= Cardinality(after)
    BY <1>1, <1>2, FS_Subset
  <1> QED BY <1>1, <1>3 DEF after

\* The steps of run r, as far as the others are concerned.
LEMMA OthersExplained ==
    ASSUME IInv, IInv', removals = 0, removals' = 0, PagesPassed, Explained,
           trust \subseteq trust', \A d \in trust' \ trust : d > lastId,
           \A d \in thread' \ thread : d > lastId,
           \A d \in thread \ thread' : d \in trust /\ ~IsFirst(d, trust),
           NEW s \in Runs, UNCHANGED <<mode[s], pc[s], cursor[s], pages[s], mine[s], lapse[s]>>
    PROVE  /\ FirstSearch(s)' => Cardinality({d \in thread' : d <= cursor'[s]}) >= PageSize * pages'[s]
           /\ mode'[s] = "sticky" /\ pc'[s] = "done" /\ mine'[s] \in thread' =>
                 IsFirst(mine'[s], trust') \/ lapse'[s] \/ FirstBeyond'
  <1>t. TypeOK /\ TypeOK' /\ Undisturbed
    BY DEF IInv
  <1>1. ASSUME FirstSearch(s)'
        PROVE  Cardinality({d \in thread' : d <= cursor'[s]}) >= PageSize * pages'[s]
    <2>1. FirstSearch(s) /\ cursor'[s] = cursor[s] /\ pages'[s] = pages[s]
      BY <1>1 DEF FirstSearch
    <2>2. \A d \in Upto(cursor[s]) : d \in thread'
      BY <1>t, <2>1 DEF Undisturbed, NothingPassed, Upto, TypeOK
    <2>3. Cardinality(Upto(cursor[s])) >= PageSize * pages[s]
      BY <2>1 DEF PagesPassed
    <2>4. pages[s] \in Nat
      BY <1>t DEF TypeOK
    <2>5. /\ Cardinality(Upto(cursor[s])) <= Cardinality({d \in thread' : d <= cursor[s]})
          /\ Cardinality({d \in thread' : d <= cursor[s]}) \in Nat /\ Cardinality(Upto(cursor[s])) \in Nat
      BY <1>t, <2>2, PassedStays, UptoFinite
    <2> DEFINE read == PageSize * pages[s]
               after == Cardinality({d \in thread' : d <= cursor[s]})
    <2>6. read \in Nat
      BY <2>4, PageProducts
    <2>7. Cardinality(Upto(cursor[s])) >= read /\ Cardinality(Upto(cursor[s])) <= after /\ after \in Nat
      BY <2>3, <2>5
    <2> HIDE DEF read, after
    <2>8. after >= read
      BY <2>5, <2>6, <2>7
    <2> QED BY <2>1, <2>8 DEF after, read
  <1>2. ASSUME mode'[s] = "sticky", pc'[s] = "done", mine'[s] \in thread'
        PROVE  IsFirst(mine'[s], trust') \/ lapse'[s] \/ FirstBeyond'
    <2>1. mine[s] \in thread
      <3>1. mine[s] = NoComment \/ mine[s] \in 1..lastId
        BY <1>t DEF TypeOK
      <3>2. mine[s] \in 1..lastId'
        BY <1>2, <1>t DEF TypeOK
      <3>3. mine[s] \in 1..lastId /\ lastId \in Nat
        BY <1>t, <3>1, <3>2 DEF TypeOK
      <3>4. ~(mine[s] > lastId)
        BY <3>3
      <3> QED BY <1>2, <3>4
    <2>2. IsFirst(mine[s], trust) \/ lapse[s] \/ FirstBeyond
      BY <1>2, <2>1 DEF Explained
    <2>3. ASSUME IsFirst(mine[s], trust) PROVE IsFirst(mine'[s], trust')
      <3>1. \A d \in trust : d \in 1..lastId
        BY <1>t DEF TypeOK
      <3>2. mine[s] \in 1..lastId /\ lastId \in Nat
        BY <1>t, <2>3, <3>1 DEF IsFirst, TypeOK
      <3>3. \A d \in trust' : d > lastId \/ d \in trust
        OBVIOUS
      <3>4. \A d \in trust' : d \in Nat
        BY <1>t DEF TypeOK
      <3>5. \A d \in trust' : mine[s] <= d
        BY <2>3, <3>2, <3>3, <3>4 DEF IsFirst
      <3> QED BY <2>3, <3>5 DEF IsFirst
    <2>4. FirstBeyond => FirstBeyond'
      <3>1. ASSUME NEW c \in trust, IsFirst(c, trust), NEW d \in thread, d <= c PROVE d \in thread'
        BY <1>t, <3>1 DEF IsFirst, TypeOK
      <3> QED BY <1>t, <3>1, BeyondStays
    <2> QED BY <2>2, <2>3, <2>4
  <1> QED BY <1>1, <1>2

\* What a step has to keep for run r.
RunExplained(r) ==
    /\ FirstSearch(r) => Cardinality(Upto(cursor[r])) >= PageSize * pages[r]
    /\ pc[r] \in {"start", "update", "create"} => pages[r] = 0
    /\ pc[r] \in {"start", "find", "update", "parent", "create"} => mine[r] = NoComment
    /\ mode[r] = "sticky" /\ pc[r] = "done" /\ mine[r] \in thread =>
          IsFirst(mine[r], trust) \/ lapse[r] \/ FirstBeyond

LEMMA AllExplained == PagesPassed /\ Explained <=> \A r \in Runs : RunExplained(r)
BY DEF PagesPassed, Explained, RunExplained

\* A search begins with nothing passed.
LEMMA NothingYet ==
    ASSUME NEW n \in Nat, NEW s, s \subseteq 1..n
    PROVE  Cardinality({d \in s : d <= 0}) >= PageSize * 0
  <1> DEFINE none == {d \in s : d <= 0}
             zero == PageSize * 0
  <1>1. \A d \in s : ~(d <= 0)
    OBVIOUS
  <1>2. none = {}
    BY <1>1
  <1>3. zero = 0 /\ Cardinality({}) = 0
    BY PageProducts, FS_EmptySet
  <1> HIDE DEF none, zero
  <1>4. Cardinality(none) >= zero
    BY <1>2, <1>3
  <1> QED BY <1>4 DEF none, zero

LEMMA NoneIsNotThere == ASSUME TypeOK PROVE NoComment \notin thread
BY DEF TypeOK

LEMMA StartExplains ==
    ASSUME IInv, IInv', NEW r \in Runs, RunExplained(r), Start(r) PROVE RunExplained(r)'
  <1>1. /\ pc[r] = "start" /\ pc'[r] \in {"find", "parent", "create"}
        /\ UNCHANGED <<issue, cursor, pages, mine, mode, lapse>>
    BY ConstantsAssumption DEF Start, Goto, IInv, TypeOK, ConstantsAssumption
  <1>2. cursor'[r] = 0 /\ pages'[r] = 0 /\ mine'[r] = NoComment
    BY <1>1 DEF RunExplained, IInv, StageOK
  <1>3. Cardinality({d \in thread' : d <= cursor'[r]}) >= PageSize * pages'[r]
    <2>1. lastId' \in Nat /\ thread' \subseteq 1..lastId'
      BY DEF IInv, TypeOK
    <2>2. Cardinality({d \in thread' : d <= 0}) >= PageSize * 0
      BY <2>1, NothingYet
    <2> QED BY <1>2, <2>2
  <1> QED BY <1>1, <1>2, <1>3 DEF RunExplained, Upto

LEMMA FindExplains ==
    ASSUME IInv, NEW r \in Runs, RunExplained(r), FindStep(r) PROVE RunExplained(r)'
  <1>1. pc[r] = "find" /\ mine' = mine
    BY DEF FindStep, FindPage, FindCutShort, FindByRest, FindFails
  <1>2. pc'[r] = "find" \/ (pc'[r] \in {"create", "update"} /\ pages'[r] = 0)
    BY <1>1 DEF FindStep, FindPage, FindCutShort, FindByRest, FindFails, Found, Goto, EndSearch, IInv, TypeOK
  <1> QED BY <1>1, <1>2 DEF RunExplained, FirstSearch

\* The end of a first search: a parent, a merge, or nothing to merge.
LEMMA FirstFoundExplains ==
    ASSUME IInv, NEW r \in Runs, RunExplained(r), FirstSearch(r), NEW c, NEW cut \in BOOLEAN, FirstFound(r, c, cut),
           UNCHANGED <<issue, mode, mine>>,
           pc[r] = "recheck" /\ c \in {NoComment, mine[r]} => cut \/ FirstBeyond \/ IsFirst(mine[r], trust)
    PROVE  RunExplained(r)'
  <1>1. pages'[r] = 0
    BY DEF FirstFound, EndSearch, IInv, TypeOK
  <1>2. CASE pc[r] = "parent" /\ pc'[r] = "create"
    BY <1>1, <1>2 DEF RunExplained, FirstSearch
  <1>3. CASE pc[r] = "recheck" /\ c \in {NoComment, mine[r]} /\ pc'[r] = "done" /\ lapse'[r] = cut
    <2>1. cut \/ FirstBeyond \/ IsFirst(mine[r], trust)
      BY <1>3
    <2>2. FirstBeyond' = FirstBeyond
      BY DEF FirstBeyond, Upto
    <2> QED BY <1>3, <2>1, <2>2 DEF RunExplained, FirstSearch
  <1>4. CASE pc'[r] = "merge"
    BY <1>4 DEF RunExplained, FirstSearch
  <1> QED BY <1>2, <1>3, <1>4 DEF FirstFound, Goto, IInv, TypeOK

LEMMA FirstExplains ==
    ASSUME IInv, IInv', Undisturbed, PagesPassed, NEW r \in Runs, RunExplained(r), FirstStep(r)
    PROVE  RunExplained(r)'
  <1>1. FirstSearch(r) /\ UNCHANGED <<issue, mode, mine>> /\ TypeOK /\ StageOK
    BY DEF FirstStep, FirstPage, FirstCutShort, FirstByRest, FirstFails, IInv
  <1>2. CASE FirstPage(r)
    <2>1. PICK p \in Pages(r) :
            \/ p \cap trust # {} /\ \E c \in p : IsFirst(c, p \cap trust) /\ FirstFound(r, c, FALSE)
            \/ p \cap trust = {} /\ GoesOn(r, p) /\ NextPage(r, p) /\ UNCHANGED <<hit, pc, target, lapse>>
            \/ p \cap trust = {} /\ ~GoesOn(r, p) /\ FirstFound(r, NoComment, FALSE)
      BY <1>2 DEF FirstPage
    <2>2. ASSUME NEW c \in p, IsFirst(c, p \cap trust), FirstFound(r, c, FALSE) PROVE RunExplained(r)'
      <3>1. IsFirst(c, trust)
        BY <1>1, <2>2, FirstOnPage DEF Undisturbed
      <3>2. c # NoComment
        BY <1>1, <3>1 DEF IsFirst, TypeOK
      <3> QED BY <1>1, <2>2, <3>1, <3>2, FirstFoundExplains
    <2>3. CASE p \cap trust = {} /\ GoesOn(r, p) /\ NextPage(r, p) /\ UNCHANGED <<hit, pc, target, lapse>>
      <3>1. PICK k \in p : IsLast(k, p) /\ cursor' = [cursor EXCEPT ![r] = k] /\ pages' = [pages EXCEPT ![r] = @ + 1]
        BY <2>3 DEF NextPage
      <3>2. cursor'[r] = k /\ pages'[r] = pages[r] + 1 /\ pages[r] \in Nat
        BY <1>1, <3>1 DEF TypeOK
      <3>3. p \subseteq thread /\ \A d \in p : d <= k /\ d > cursor[r]
        BY <3>1 DEF Pages, IsPage, Unread, IsLast
      <3>4. Upto(cursor[r]) \cup p \subseteq Upto(k)
        <4>1. \A d \in Upto(cursor[r]) : d <= k
          BY <1>1, <3>1, <3>3 DEF Upto, TypeOK
        <4> QED BY <3>3, <4>1 DEF Upto
      <3>5. Cardinality(p) = PageSize
        BY <2>3 DEF GoesOn, Pages, IsPage
      <3>6. Cardinality(Upto(k)) >= Cardinality(Upto(cursor[r])) + PageSize
        BY <1>1, <3>4, <3>5, PagePassed
      <3>7. Cardinality(Upto(cursor[r])) >= PageSize * pages[r]
        BY <1>1 DEF PagesPassed
      <3>8. Cardinality(Upto(k)) >= PageSize * (pages[r] + 1)
        <4>1. Cardinality(Upto(k)) \in Nat /\ Cardinality(Upto(cursor[r])) \in Nat
          BY <1>1, UptoFinite
        <4> DEFINE read == PageSize * pages[r]
                   next == PageSize * (pages[r] + 1)
        <4>2. read \in Nat /\ next = read + PageSize /\ PageSize \in Nat
          BY <3>2, PageProducts
        <4>3. Cardinality(Upto(cursor[r])) >= read
          BY <3>7
        <4> HIDE DEF read, next
        <4>4. Cardinality(Upto(k)) >= next
          BY <3>6, <4>1, <4>2, <4>3
        <4> QED BY <4>4 DEF next
      <3>9. (Cardinality(Upto(cursor[r])) >= PageSize * pages[r])'
        BY <1>1, <3>2, <3>8 DEF Upto
      <3> QED BY <1>1, <2>3, <3>9 DEF RunExplained, FirstSearch
    <2>4. CASE p \cap trust = {} /\ ~GoesOn(r, p) /\ FirstFound(r, NoComment, FALSE)
      <3>1. pc[r] = "recheck" => FirstBeyond
        BY <1>1, <2>4, CapLeavesBeyond
      <3> QED BY <1>1, <2>4, <3>1, FirstFoundExplains
    <2> QED BY <2>1, <2>2, <2>3, <2>4
  <1>3. CASE FirstCutShort(r) \/ FirstFails(r)
    <2>1. FirstFound(r, NoComment, TRUE)
      BY <1>3 DEF FirstCutShort, FirstFails
    <2> QED BY <1>1, <2>1, FirstFoundExplains
  <1>4. CASE FirstByRest(r)
    <2>1. PICK c \in trust \cup {NoComment} :
            /\ IF thread \cap trust = {} THEN c = NoComment ELSE IsFirst(c, thread \cap trust)
            /\ FirstFound(r, c, FALSE)
      BY <1>4 DEF FirstByRest
    <2>2. ASSUME pc[r] = "recheck", c \in {NoComment, mine[r]} PROVE IsFirst(mine[r], trust)
      <3>1. mine[r] \in trust
        BY <1>1, <2>2 DEF StageOK
      <3>2. thread \cap trust # {}
        BY <3>1 DEF Undisturbed, Anchored
      <3>3. IsFirst(c, trust) /\ c # NoComment
        <4>1. IsFirst(c, thread \cap trust)
          BY <2>1, <3>2
        <4>2. IsFirst(c, trust)
          BY <1>1, <4>1, FirstInThread DEF Undisturbed
        <4>3. c \in 1..lastId
          BY <1>1, <4>1 DEF IsFirst, TypeOK
        <4> QED BY <4>2, <4>3
      <3> QED BY <2>2, <3>3
    <2> QED BY <1>1, <2>1, <2>2, FirstFoundExplains
  <1> QED BY <1>2, <1>3, <1>4 DEF FirstStep

LEMMA WriteExplains ==
    ASSUME IInv, IInv', NEW r \in Runs, RunExplained(r), WriteStep(r) PROVE RunExplained(r)'
  <1>t. TypeOK /\ TypeOK' /\ StageOK
    BY DEF IInv
  <1>1. CASE Snooze(r) \/ Update(r)
    <2>1. pc[r] = "update" /\ pc'[r] = "done" /\ UNCHANGED <<thread, mine>>
      BY <1>1, <1>t DEF Snooze, Update, Goto, TypeOK
    <2>2. mine'[r] \notin thread'
      BY <1>t, <2>1, NoneIsNotThere DEF RunExplained
    <2> QED BY <2>1, <2>2 DEF RunExplained, FirstSearch
  <1>2. CASE UpdateFails(r) \/ CreateFails(r)
    <2>1. /\ pc[r] \in {"update", "create"} /\ pc'[r] \in {"create", "failed"} /\ UNCHANGED <<mine, pages>>
      BY <1>2, <1>t DEF UpdateFails, CreateFails, Goto, TypeOK
    <2> QED BY <2>1 DEF RunExplained, FirstSearch
  <1>3. CASE Create(r)
    <2>1. /\ pc[r] = "create" /\ UNCHANGED <<cursor, pages, mode>>
          /\ pc'[r] = IF mode[r] = "sticky" THEN "recheck" ELSE "done"
      BY <1>3, <1>t DEF Create, Goto, TypeOK
    <2>2. cursor'[r] = 0 /\ pages'[r] = 0
      BY <1>t, <2>1 DEF RunExplained, StageOK
    <2>3. Cardinality({d \in thread' : d <= cursor'[r]}) >= PageSize * pages'[r]
      <3>1. lastId' \in Nat /\ thread' \subseteq 1..lastId'
        BY <1>t DEF TypeOK
      <3>2. Cardinality({d \in thread' : d <= 0}) >= PageSize * 0
        BY <3>1, NothingYet
      <3> QED BY <2>2, <3>2
    <2> QED BY <2>1, <2>3 DEF RunExplained, Upto
  <1>4. CASE Merge(r)
    <2>1. pc'[r] = "discard"
      BY <1>4, <1>t DEF Merge, Goto, TypeOK
    <2> QED BY <2>1 DEF RunExplained, FirstSearch
  <1>5. CASE MergeFails(r) \/ DiscardFails(r)
    <2>1. pc'[r] = "done" /\ lapse'[r]
      BY <1>5, <1>t DEF MergeFails, DiscardFails, Goto, TypeOK
    <2> QED BY <2>1 DEF RunExplained, FirstSearch
  <1>6. CASE Discard(r)
    <2>1. pc'[r] = "done" /\ mine'[r] \notin thread'
      BY <1>6, <1>t DEF Discard, Goto, TypeOK
    <2> QED BY <2>1 DEF RunExplained, FirstSearch
  <1> QED BY <1>1, <1>2, <1>3, <1>4, <1>5, <1>6 DEF WriteStep

\* A run changes the issue by a comment that is the newest, or by discarding
\* one that is not the first; it leaves the other runs alone.
LEMMA RunOnIssue ==
    ASSUME IInv, Undisturbed, NEW r \in Runs, RunStep(r)
    PROVE  /\ trust \subseteq trust' /\ \A d \in trust' \ trust : d > lastId
           /\ \A d \in thread' \ thread : d > lastId
           /\ \A d \in thread \ thread' : d \in trust /\ ~IsFirst(d, trust)
           /\ \A s \in Runs : s # r => UNCHANGED <<mode[s], pc[s], cursor[s], pages[s], mine[s], lapse[s]>>
  <1>t. TypeOK /\ StageOK
    BY DEF IInv
  <1>1. CASE Create(r)
    <2>1. thread' = thread \cup {lastId + 1} /\ trust' = trust \cup {lastId + 1} /\ lastId \in Nat
      BY <1>1, <1>t DEF Create, TypeOK
    <2>2. \A s \in Runs : s # r => UNCHANGED <<mode[s], pc[s], cursor[s], pages[s], mine[s], lapse[s]>>
      BY <1>1, <1>t DEF Create, Goto, TypeOK
    <2> QED BY <2>1, <2>2
  <1>2. CASE Discard(r)
    <2>1. /\ thread' = thread \ {mine[r]} /\ UNCHANGED trust /\ pc[r] = "discard"
          /\ \A s \in Runs : s # r => UNCHANGED <<mode[s], pc[s], cursor[s], pages[s], mine[s], lapse[s]>>
      BY <1>2, <1>t DEF Discard, Goto, TypeOK
    <2>2. mine[r] \in trust /\ IsFirst(target[r], trust) /\ target[r] < mine[r]
      BY <1>t, <2>1 DEF StageOK, Undisturbed, MergeTargets
    <2>3. ~IsFirst(mine[r], trust)
      <3>1. target[r] \in trust /\ \A d \in trust : d \in Int
        BY <1>t, <2>2 DEF IsFirst, TypeOK
      <3>2. ~(mine[r] <= target[r])
        BY <2>2, <3>1
      <3> QED BY <3>1, <3>2 DEF IsFirst
    <2> QED BY <2>1, <2>2, <2>3
  <1>3. CASE ~Create(r) /\ ~Discard(r)
    <2>1. UNCHANGED <<thread, trust, mode>>
      BY <1>3 DEF RunStep, Start, FindStep, FindPage, FindCutShort, FindByRest, FindFails, FirstStep, FirstPage,
                  FirstCutShort, FirstByRest, FirstFails, WriteStep, Snooze, Update, UpdateFails, CreateFails,
                  Merge, MergeFails, DiscardFails
    <2>2. \A s \in Runs : s # r => UNCHANGED <<pc[s], cursor[s], pages[s], mine[s], lapse[s]>>
      <3>1. CASE Start(r)
        BY <1>t, <3>1 DEF Start, Goto, TypeOK
      <3>2. CASE FindStep(r)
        BY <1>t, <3>2 DEF FindStep, FindPage, FindCutShort, FindByRest, FindFails, Found, NextPage, EndSearch, Goto, TypeOK
      <3>3. CASE FirstStep(r)
        BY <1>t, <3>3 DEF FirstStep, FirstPage, FirstCutShort, FirstByRest, FirstFails, FirstFound, NextPage, EndSearch,
                          Goto, TypeOK
      <3>4. CASE WriteStep(r)
        BY <1>3, <1>t, <3>4 DEF WriteStep, Snooze, Update, UpdateFails, CreateFails, Merge, MergeFails, DiscardFails,
                                Goto, TypeOK
      <3> QED BY <3>1, <3>2, <3>3, <3>4 DEF RunStep
    <2> QED BY <2>1, <2>2
  <1> QED BY <1>1, <1>2, <1>3

LEMMA DupStep == DupInv /\ [Next]_vars => DupInv'
  <1> SUFFICES ASSUME DupInv, [Next]_vars PROVE DupInv'
    OBVIOUS
  <1>1. IInv'
    BY InductiveStep DEF DupInv
  <1> SUFFICES ASSUME removals' = 0 PROVE (\A s \in Runs : RunExplained(s))'
    BY <1>1 DEF DupInv, PagesPassed, Explained, RunExplained
  <1>2. removals = 0
    <2>1. UNCHANGED removals \/ removals' = removals + 1
      <3>1. CASE PersonDeletes \/ PersonComments \/ UNCHANGED vars
        BY <3>1 DEF PersonDeletes, PersonComments, vars
      <3>2. ASSUME NEW r \in Runs, RunStep(r) PROVE UNCHANGED removals
        BY <3>2 DEF RunStep, Start, FindStep, FindPage, FindCutShort, FindByRest, FindFails, FirstStep, FirstPage,
                    FirstCutShort, FirstByRest, FirstFails, WriteStep, Snooze, Update, UpdateFails, Create,
                    CreateFails, Merge, MergeFails, Discard, DiscardFails
      <3> QED BY <3>1, <3>2 DEF Next
    <2> QED BY <2>1 DEF DupInv, IInv, TypeOK
  <1>3. IInv /\ TypeOK /\ Undisturbed /\ PagesPassed /\ Explained /\ \A s \in Runs : RunExplained(s)
    BY <1>2, AllExplained DEF DupInv, IInv
  <1>4. ASSUME trust \subseteq trust', \A d \in trust' \ trust : d > lastId,
               \A d \in thread' \ thread : d > lastId,
               \A d \in thread \ thread' : d \in trust /\ ~IsFirst(d, trust),
               NEW s \in Runs, UNCHANGED <<mode[s], pc[s], cursor[s], pages[s], mine[s], lapse[s]>>
        PROVE  RunExplained(s)'
    <2>1. /\ FirstSearch(s)' => Cardinality({d \in thread' : d <= cursor'[s]}) >= PageSize * pages'[s]
          /\ mode'[s] = "sticky" /\ pc'[s] = "done" /\ mine'[s] \in thread' =>
                IsFirst(mine'[s], trust') \/ lapse'[s] \/ FirstBeyond'
      BY <1>1, <1>2, <1>3, <1>4, OthersExplained
    <2>2. /\ pc'[s] \in {"start", "update", "create"} => pages'[s] = 0
          /\ pc'[s] \in {"start", "find", "update", "parent", "create"} => mine'[s] = NoComment
      BY <1>3, <1>4 DEF RunExplained
    <2> QED BY <2>1, <2>2 DEF RunExplained, Upto
  <1>5. CASE UNCHANGED vars
    BY <1>3, <1>4, <1>5 DEF vars
  <1>6. CASE PersonComments
    <2>1. thread' = thread \cup {lastId + 1} /\ UNCHANGED <<trust, mode, pc, cursor, pages, mine, lapse>> /\ lastId \in Nat
      BY <1>3, <1>6 DEF PersonComments, TypeOK
    <2> QED BY <1>4, <2>1
  <1>7. CASE PersonDeletes
    BY <1>3, <1>7 DEF PersonDeletes, TypeOK
  <1>8. ASSUME NEW r \in Runs, RunStep(r) PROVE (\A s \in Runs : RunExplained(s))'
    <2>1. RunExplained(r)'
      BY <1>1, <1>3, <1>8, StartExplains, FindExplains, FirstExplains, WriteExplains DEF RunStep
    <2>2. ASSUME NEW s \in Runs, s # r PROVE RunExplained(s)'
      BY <1>3, <1>4, <1>8, <2>2, RunOnIssue
    <2> QED BY <2>1, <2>2
  <1> QED BY <1>5, <1>6, <1>7, <1>8 DEF Next

\* A second TrustBridge comment that a sticky run leaves behind is the work of
\* a failed call of that run, or of a thread longer than the search reads:
\* whatever the interleaving, reconcileDuplicateStickyComment removes the rest.
THEOREM DuplicatesExplained == Spec => []NoUnexplainedDuplicate
  <1>1. Init => DupInv
    <2> SUFFICES ASSUME Init PROVE DupInv
      OBVIOUS
    <2>1. IInv
      <3>1. StageOK
        BY DEF Init, StageOK
      <3> QED BY <3>1, TypeInit, UndisturbedInit DEF IInv
    <2>2. PagesPassed /\ Explained
      BY DEF Init, PagesPassed, Explained, FirstSearch
    <2> QED BY <2>1, <2>2 DEF DupInv
  <1>2. DupInv => NoUnexplainedDuplicate
    <2> SUFFICES ASSUME DupInv, removals = 0, NEW r \in Runs, mode[r] = "sticky", pc[r] = "done", mine[r] \in thread
                 PROVE  IsFirst(mine[r], trust \cap thread) \/ lapse[r] \/ BeyondSearch
      BY DEF NoUnexplainedDuplicate
    <2>1. TypeOK /\ Undisturbed /\ (IsFirst(mine[r], trust) \/ lapse[r] \/ FirstBeyond)
      BY DEF DupInv, IInv, Explained
    <2>2. IsFirst(mine[r], trust) => IsFirst(mine[r], trust \cap thread)
      BY DEF IsFirst
    <2>3. FirstBeyond => BeyondSearch
      BY <2>1, OldestInThread DEF FirstBeyond, BeyondSearch, Upto, IsFirst, Undisturbed
    <2> QED BY <2>1, <2>2, <2>3
  <1> QED BY <1>1, <1>2, DupStep, PTL DEF Spec
=============================================================================
