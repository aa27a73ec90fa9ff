------------------------- MODULE IssueLabelsProofs -------------------------
(***************************************************************************)
(* Runs that agree converge on their labels, and a run that works alone is  *)
(* exact: for any number of runs, any labels on the issue, any page size    *)
(* and any failing calls.                                                   *)
(***************************************************************************)
EXTENDS IssueLabels, SequenceTheorems, TLAPS

\* What convergence needs of the configuration: the labels of the two
\* functions are apart.  With pass_label set to a wallet label the second
\* function could put back what the first one removed.
LabelsApart == ReadyLabels \cap AllWalletLabels = {}

Names == ToSet(labels)

\* The labels on the first n places of the issue.
UpTo(n) == {labels[i] : i \in {j \in DOMAIN labels : j <= n}}

-----------------------------------------------------------------------------
(* The inductive invariants.                                               *)

\* The labels that the function a run is in treats as stale.
StaleLabels(r) == IF stage[r] = "wallet" THEN AllWalletLabels \ {WalletTarget(r)}
                                         ELSE ReadyLabels \ {ReadyTarget(r)}

\* A run removes stale labels only, and has read nothing before its first page.
Tidy ==
    \A r \in Runs :
        /\ todo[r] \subseteq StaleLabels(r)
        /\ stage[r] = "done" => pc[r] = "list"
        /\ pc[r] = "list" => todo[r] = {}
        /\ pc[r] = "list" /\ page[r] = 0 => current[r] = {}
        /\ pc[r] = "add" => Target(r) # NoLabel

IInv == TypeOK /\ Tidy

\* What an undisturbed run knows of the issue.
Alone(r) ==
    (stage[r] = "wallet" /\ ~disturbed[r] /\ ~lapse[r]) =>
        /\ pc[r] = "list" => current[r] = UpTo(page[r] * PageSize)
        /\ pc[r] = "remove" =>
              /\ (Names \cap AllWalletLabels) \ {WalletTarget(r)} \subseteq todo[r]
              /\ WalletTarget(r) \in current[r] => On(WalletTarget(r))
        /\ pc[r] = "add" => Names \cap AllWalletLabels \subseteq {WalletTarget(r)}

AllAlone == \A r \in Runs : Alone(r)

SameState == WalletLabels /\ \A r, s \in Runs : seen_by[r] = seen_by[s]
SomeLapse == \E r \in Runs : lapse[r]

\* While runs that agree on the state T are at work, either none has written
\* yet, or one of them is about to remove all that is stale, or nothing is.
NoneWrote == \A r \in Runs : /\ stage[r] = "wallet" /\ pc[r] = "list"
                             /\ current[r] = UpTo(page[r] * PageSize)
StaleWallet(q) == (Names \cap AllWalletLabels) \ {WalletTarget(q)}
Cleaner(q) == \E r \in Runs : /\ stage[r] = "wallet" /\ pc[r] = "remove"
                              /\ StaleWallet(q) \subseteq todo[r]
TargetKept(r) ==
    /\ stage[r] = "wallet" /\ WalletTarget(r) \in current[r] => On(WalletTarget(r))
    /\ stage[r] # "wallet" => On(WalletTarget(r))
StateInv ==
    SameState => \/ SomeLapse
                 \/ \A q \in Runs : /\ NoneWrote \/ Cleaner(q) \/ StaleWallet(q) = {}
                                    /\ TargetKept(q)

\* A stale ready label is gone, or a run has yet to come to it or to remove it.
SameVerdict == \A r, s \in Runs : valid[r] = valid[s]
WillMeet(r, f) ==
    \/ stage[r] = "wallet"
    \/ stage[r] = "ready" /\ pc[r] = "remove" /\ f \in todo[r]
    \/ /\ stage[r] = "ready" /\ pc[r] = "list"
       /\ f \in current[r] \/ f \notin UpTo(page[r] * PageSize)
VerdictKept(r) ==
    /\ stage[r] = "ready" /\ ReadyTarget(r) \in current[r] => On(ReadyTarget(r))
    /\ stage[r] = "done" /\ ReadyTarget(r) # NoLabel => On(ReadyTarget(r))
VerdictInv ==
    SameVerdict =>
        \/ SomeLapse
        \/ \A q \in Runs :
              /\ \A f \in ReadyLabels \ {ReadyTarget(q)} : On(f) => \E r \in Runs : WillMeet(r, f)
              /\ VerdictKept(q)

-----------------------------------------------------------------------------
(* Sequences of labels.                                                    *)

\* RemoveAt keeps all elements but one.
LEMMA RemoveAtSet ==
    ASSUME NEW S, NEW s \in Seq(S), IsInjective(s), NEW k \in DOMAIN s
    PROVE  /\ RemoveAt(s, k) \in Seq(S)
           /\ IsInjective(RemoveAt(s, k))
           /\ ToSet(RemoveAt(s, k)) = ToSet(s) \ {s[k]}
  <1> DEFINE n == Len(s)
             t == RemoveAt(s, k)
  <1>1. n \in Nat /\ DOMAIN s = 1..n /\ k \in 1..n
    OBVIOUS
  <1>2. /\ SubSeq(s, 1, k - 1) \in Seq(S) /\ Len(SubSeq(s, 1, k - 1)) = k - 1
        /\ \A i \in 1..(k - 1) : SubSeq(s, 1, k - 1)[i] = s[i]
    BY <1>1
  <1>3. /\ SubSeq(s, k + 1, n) \in Seq(S) /\ Len(SubSeq(s, k + 1, n)) = n - k
        /\ \A i \in 1..(n - k) : SubSeq(s, k + 1, n)[i] = s[k + i]
    BY <1>1
  <1> DEFINE u == SubSeq(s, 1, k - 1)
             v == SubSeq(s, k + 1, n)
  <1>10. t = u \o v
    BY DEF RemoveAt
  <1> HIDE DEF t, u, v
  <1>11. /\ u \o v \in Seq(S) /\ Len(u \o v) = Len(u) + Len(v)
        /\ \A i \in 1 .. Len(u) + Len(v) : (u \o v)[i] = IF i <= Len(u) THEN u[i] ELSE v[i - Len(u)]
    BY <1>2, <1>3, ConcatProperties DEF u, v
  <1>12. Len(u) = k - 1 /\ Len(v) = n - k
    BY <1>2, <1>3 DEF u, v
  <1>4. t \in Seq(S) /\ Len(t) = n - 1
    BY <1>1, <1>10, <1>11, <1>12
  <1>5. DOMAIN t = 1..(n - 1)
    BY <1>1, <1>4
  <1>6. \A i \in 1..(n - 1) : t[i] = IF i < k THEN s[i] ELSE s[i + 1]
    <2> SUFFICES ASSUME NEW i \in 1..(n - 1) PROVE t[i] = IF i < k THEN s[i] ELSE s[i + 1]
      OBVIOUS
    <2>1. t[i] = IF i <= k - 1 THEN u[i] ELSE v[i - (k - 1)]
      BY <1>1, <1>10, <1>11, <1>12
    <2>2. CASE i < k
      <3>1. i \in 1..(k - 1)
        BY <1>1, <2>2
      <3>2. u[i] = s[i]
        BY <1>2, <3>1 DEF u
      <3> QED BY <1>1, <2>1, <2>2, <3>2
    <2>3. CASE ~(i < k)
      <3>1. i - (k - 1) \in 1..(n - k) /\ k + (i - (k - 1)) = i + 1
        BY <1>1, <2>3
      <3>2. v[i - (k - 1)] = s[i + 1]
        BY <1>3, <3>1 DEF v
      <3> QED BY <1>1, <2>1, <2>3, <3>2
    <2> QED BY <2>2, <2>3
  <1>7. IsInjective(t)
    BY <1>1, <1>5, <1>6 DEF IsInjective
  <1>8. ToSet(t) \subseteq ToSet(s) \ {s[k]}
    BY <1>1, <1>5, <1>6 DEF ToSet, IsInjective
  <1>9. ToSet(s) \ {s[k]} \subseteq ToSet(t)
    <2> SUFFICES ASSUME NEW i \in 1..n, s[i] # s[k] PROVE \E j \in 1..(n - 1) : t[j] = s[i]
      BY <1>1, <1>5 DEF ToSet
    <2>1. CASE i < k
      BY <1>1, <1>6, <2>1
    <2>2. CASE i > k
      <3>1. i - 1 \in 1..(n - 1) /\ ~(i - 1 < k) /\ (i - 1) + 1 = i
        BY <1>1, <2>2
      <3> QED BY <1>6, <3>1
    <2> QED BY <1>1, <2>1, <2>2
  <1> QED BY <1>4, <1>7, <1>8, <1>9 DEF t

LEMMA AppendSet ==
    ASSUME NEW S, NEW s \in Seq(S), IsInjective(s), NEW x \in S, x \notin ToSet(s)
    PROVE  /\ Append(s, x) \in Seq(S)
           /\ IsInjective(Append(s, x))
           /\ ToSet(Append(s, x)) = ToSet(s) \cup {x}
  <1> DEFINE n == Len(s)
             t == Append(s, x)
  <1>1. n \in Nat /\ DOMAIN s = 1..n /\ t \in Seq(S) /\ DOMAIN t = 1..(n + 1)
    OBVIOUS
  <1>2. t[n + 1] = x /\ \A i \in 1..n : t[i] = s[i]
    OBVIOUS
  <1>3. IsInjective(t)
    BY <1>1, <1>2 DEF IsInjective, ToSet
  <1>4. ToSet(t) = ToSet(s) \cup {x}
    BY <1>1, <1>2 DEF ToSet
  <1> QED BY <1>1, <1>3, <1>4

\* What removeLabel leaves on the issue.
LEMMA WithoutSet ==
    ASSUME TypeOK, NEW l
    PROVE  /\ Without(l) \in Seq(Labels) /\ IsInjective(Without(l))
           /\ ToSet(Without(l)) = Names \ {l}
  <1>1. CASE On(l)
    <2>1. PICK k \in DOMAIN labels : labels[k] = l /\ Without(l) = RemoveAt(labels, k)
      BY <1>1 DEF On, ToSet, Without
    <2> QED BY <2>1, RemoveAtSet DEF TypeOK, Names
  <1>2. CASE ~On(l)
    BY <1>2 DEF Without, On, TypeOK, Names
  <1> QED BY <1>1, <1>2

\* Reading one page more.
LEMMA NextPage ==
    ASSUME TypeOK, NEW k \in Nat
    PROVE  /\ UpTo(k * PageSize) \cup PageOf(k + 1) = UpTo((k + 1) * PageSize)
           /\ PageOf(k + 1) \subseteq Names
           /\ Len(labels) < (k + 1) * PageSize => UpTo((k + 1) * PageSize) = Names
           /\ UpTo(0) = {}
  <1> DEFINE n == Len(labels)
             a == k * PageSize
             b == (k + 1) * PageSize
             e == IF b < n THEN b ELSE n
  <1>1. a \in Nat /\ b \in Nat /\ b = a + PageSize /\ PageSize \in Nat \ {0} /\ ((k + 1) - 1) * PageSize = a
    BY LabelsAssumption DEF LabelsAssumption
  <1>2. n \in Nat /\ DOMAIN labels = 1..n /\ labels \in Seq(Labels)
    BY DEF TypeOK
  <1>3. PageOf(k + 1) = ToSet(SubSeq(labels, a + 1, e))
    BY <1>1 DEF PageOf
  <1> HIDE DEF a, b
  <1>4. ToSet(SubSeq(labels, a + 1, e)) = {labels[i] : i \in (a + 1)..e}
    <2>1. CASE a + 1 <= e
      <3> DEFINE t == SubSeq(labels, a + 1, e)
      <3>1. DOMAIN t = 1..(e - a) /\ \A i \in 1..(e - a) : t[i] = labels[a + i]
        BY <1>1, <1>2, <2>1
      <3>2. ASSUME NEW i \in (a + 1)..e PROVE \E j \in 1..(e - a) : t[j] = labels[i]
        <4>1. i - a \in 1..(e - a) /\ a + (i - a) = i
          BY <1>1, <1>2
        <4> QED BY <3>1, <4>1
      <3>3. ASSUME NEW j \in 1..(e - a) PROVE \E i \in (a + 1)..e : t[j] = labels[i]
        <4>1. a + j \in (a + 1)..e
          BY <1>1, <1>2
        <4> QED BY <3>1, <4>1
      <3> HIDE DEF t
      <3>4. ToSet(t) = {t[j] : j \in 1..(e - a)}
        BY <3>1 DEF ToSet
      <3>5. ToSet(t) = {labels[i] : i \in (a + 1)..e}
        BY <3>2, <3>3, <3>4
      <3> QED BY <3>5 DEF t
    <2>2. CASE ~(a + 1 <= e)
      <3>1. SubSeq(labels, a + 1, e) = <<>>
        BY <1>1, <1>2, <2>2
      <3>2. (a + 1)..e = {}
        BY <1>1, <1>2, <2>2
      <3>3. ToSet(<< >>) = {}
        BY DEF ToSet
      <3> QED BY <3>1, <3>2, <3>3
    <2> QED BY <2>1, <2>2
  <1>5. UpTo(a) \cup {labels[i] : i \in (a + 1)..e} = UpTo(b)
    BY <1>1, <1>2 DEF UpTo
  <1>6. {labels[i] : i \in (a + 1)..e} \subseteq Names
    BY <1>1, <1>2 DEF Names, ToSet
  <1>7. n < b => UpTo(b) = Names
    BY <1>1, <1>2 DEF UpTo, Names, ToSet
  <1>8. UpTo(0) = {}
    BY <1>2 DEF UpTo
  <1> QED BY <1>3, <1>4, <1>5, <1>6, <1>7, <1>8 DEF a, b

-----------------------------------------------------------------------------
(* Types and tidiness.                                                     *)

LEMMA TargetKnown ==
    ASSUME NEW r \in Runs
    PROVE  WalletTarget(r) \in AllWalletLabels /\ ReadyTarget(r) \in ReadyLabels \cup {NoLabel}
  BY DEF WalletTarget, DeriveWalletLabel, AllWalletLabels, ReadyTarget, ReadyLabels

LEMMA IInvInit == Init => IInv
  <1> SUFFICES ASSUME Init PROVE IInv
    OBVIOUS
  <1>1. labels \in Seq(Labels) /\ IsInjective(labels)
    <2>1. PICK m \in 0..MaxInitial : labels \in [1..m -> Labels]
      BY DEF Init, SeqOf
    <2> QED BY <2>1, LabelsAssumption DEF Init, LabelsAssumption
  <1>2. TypeOK
    BY <1>1 DEF Init, TypeOK, FirstStage, AfterWallet
  <1>3. Tidy
    BY DEF Init, Tidy
  <1> QED BY <1>2, <1>3 DEF IInv

\* Leaving a function keeps the types and starts the next one from nothing.
LEMMA LeaveKeeps ==
    ASSUME IInv, NEW q \in Runs, Leave(q), UNCHANGED <<seen_by, valid>>
    PROVE  /\ stage' \in [Runs -> {"wallet", "ready", "done"}]
           /\ pc' \in [Runs -> {"list", "remove", "add"}]
           /\ page' \in [Runs -> Nat]
           /\ current' \in [Runs -> SUBSET Labels]
           /\ todo' \in [Runs -> SUBSET Labels]
           /\ Tidy'
  <1>1. TypeOK /\ Tidy
    BY DEF IInv
  <1>2. /\ stage' \in [Runs -> {"wallet", "ready", "done"}]
        /\ pc' \in [Runs -> {"list", "remove", "add"}]
        /\ page' \in [Runs -> Nat]
        /\ current' \in [Runs -> SUBSET Labels]
        /\ todo' \in [Runs -> SUBSET Labels]
    BY <1>1 DEF TypeOK, Leave, Goto, AfterWallet
  <1>3. Tidy'
    BY <1>1 DEF TypeOK, Leave, Goto, Tidy, StaleLabels, Target, WalletTarget, ReadyTarget
  <1> QED BY <1>2, <1>3

\* What a run knows after one page more.
ReadBy(q) == current[q] \cup PageOf(page[q] + 1)

\* Reading a page: the last one tells the run what to remove.
LEMMA ListDoes ==
    ASSUME IInv, NEW q \in Runs, List(q)
    PROVE  /\ stage[q] # "done" /\ pc[q] = "list" /\ page[q] \in Nat
           /\ UNCHANGED <<labels, seen_by, valid, stage, lapse>>
           /\ current' = [current EXCEPT ![q] = ReadBy(q)]
           /\ ReadBy(q) \subseteq Labels
           /\ StaleOf(q, ReadBy(q)) = StaleLabels(q) \cap ReadBy(q)
           /\ disturbed' \in [Runs -> BOOLEAN]
           /\ \A r \in Runs \ {q} : disturbed'[r] = disturbed[r]
           /\ page[q] # 0 => disturbed'[q] = disturbed[q]
           /\ \/ /\ Len(labels) < (page[q] + 1) * PageSize
                 /\ todo' = [todo EXCEPT ![q] = StaleLabels(q) \cap ReadBy(q)]
                 /\ pc' = [pc EXCEPT ![q] = "remove"]
                 /\ page' = [page EXCEPT ![q] = 0]
              \/ page' = [page EXCEPT ![q] = page[q] + 1] /\ UNCHANGED <<todo, pc>>
  <1>1. TypeOK /\ page[q] \in Nat
    BY DEF IInv, TypeOK
  <1>2. ReadBy(q) \subseteq Labels
    <2>1. Names \subseteq Labels /\ current[q] \subseteq Labels
      BY <1>1 DEF TypeOK, Names, ToSet
    <2> QED BY <1>1, <2>1, NextPage DEF ReadBy
  <1>3. StaleOf(q, ReadBy(q)) = StaleLabels(q) \cap ReadBy(q)
    BY DEF StaleOf, StaleLabels, Target, List
  <1>4. disturbed' = [disturbed EXCEPT ![q] = @ /\ page[q] > 0]
    BY DEF List
  <1>5. disturbed' \in [Runs -> BOOLEAN] /\ \A r \in Runs \ {q} : disturbed'[r] = disturbed[r]
    BY <1>1, <1>4 DEF TypeOK
  <1>6. page[q] # 0 => disturbed'[q] = disturbed[q]
    <2>1. page[q] # 0 => page[q] > 0
      BY <1>1
    <2>2. disturbed'[q] = (disturbed[q] /\ page[q] > 0) /\ disturbed[q] \in BOOLEAN
      BY <1>1, <1>4 DEF TypeOK
    <2> QED BY <2>1, <2>2
  <1>7. \/ /\ Len(labels) < (page[q] + 1) * PageSize
           /\ todo' = [todo EXCEPT ![q] = StaleOf(q, ReadBy(q))]
           /\ pc' = [pc EXCEPT ![q] = "remove"]
           /\ page' = [page EXCEPT ![q] = 0]
        \/ page' = [page EXCEPT ![q] = page[q] + 1] /\ UNCHANGED <<todo, pc>>
    BY Zenon DEF List, Goto, ReadBy
  <1>8. /\ stage[q] # "done" /\ pc[q] = "list"
        /\ UNCHANGED <<labels, seen_by, valid, stage, lapse>>
        /\ current' = [current EXCEPT ![q] = ReadBy(q)]
    BY DEF List, ReadBy
  <1> QED BY <1>1, <1>2, <1>3, <1>5, <1>6, <1>7, <1>8

LEMMA IInvKeeps == ASSUME IInv, [Next]_vars PROVE IInv'
  <1>1. TypeOK /\ Tidy
    BY DEF IInv
  <1> USE DEF Goto
  <1>2. CASE UNCHANGED vars
    BY <1>1, <1>2 DEF vars, IInv, TypeOK, Tidy, StaleLabels, Target, WalletTarget, ReadyTarget
  <1>3. ASSUME NEW q \in Runs, List(q) PROVE IInv'
    <2> DEFINE read == ReadBy(q)
               stale == StaleLabels(q) \cap read
    <2>1. /\ stage[q] # "done" /\ pc[q] = "list" /\ page[q] \in Nat
          /\ UNCHANGED <<labels, seen_by, valid, stage, lapse>>
          /\ current' = [current EXCEPT ![q] = read]
          /\ read \subseteq Labels /\ stale \subseteq Labels
          /\ disturbed' \in [Runs -> BOOLEAN]
          /\ \/ /\ todo' = [todo EXCEPT ![q] = stale]
                /\ pc' = [pc EXCEPT ![q] = "remove"]
                /\ page' = [page EXCEPT ![q] = 0]
             \/ page' = [page EXCEPT ![q] = page[q] + 1] /\ UNCHANGED <<todo, pc>>
      BY <1>3, ListDoes
    <2>2. stale \subseteq StaleLabels(q)
      OBVIOUS
    <2> HIDE DEF read, stale
    <2>3. page' \in [Runs -> Nat]
      BY <1>1, <2>1 DEF TypeOK
    <2>4. page[q] + 1 # 0
      BY <2>1
    <2>5. TypeOK'
      BY <1>1, <2>1, <2>3 DEF TypeOK
    <2>6. \A r \in Runs : StaleLabels(r)' = StaleLabels(r) /\ Target(r)' = Target(r)
      BY <2>1 DEF StaleLabels, Target, WalletTarget, ReadyTarget
    <2>7. Tidy'
      <3>1. CASE UNCHANGED <<todo, pc>> /\ page' = [page EXCEPT ![q] = page[q] + 1]
        BY <1>1, <2>1, <2>4, <2>6, <3>1 DEF TypeOK, Tidy
      <3>2. CASE /\ todo' = [todo EXCEPT ![q] = stale]
                 /\ pc' = [pc EXCEPT ![q] = "remove"]
                 /\ page' = [page EXCEPT ![q] = 0]
        BY <1>1, <2>1, <2>2, <2>6, <3>2 DEF TypeOK, Tidy
      <3> QED BY <2>1, <3>1, <3>2
    <2> QED BY <2>5, <2>7 DEF IInv
  <1>4. ASSUME NEW q \in Runs, ListFails(q) \/ AddFails(q) PROVE IInv'
    BY <1>1, <1>4, LeaveKeeps DEF ListFails, AddFails, TypeOK, IInv
  <1>5. ASSUME NEW q \in Runs, RemoveStale(q) PROVE IInv'
    <2>1. labels' \in Seq(Labels) /\ IsInjective(labels')
      BY <1>1, <1>5, WithoutSet DEF RemoveStale
    <2>2. PICK l : todo' = [todo EXCEPT ![q] = @ \ {l}]
      BY <1>5 DEF RemoveStale
    <2>3. todo' \in [Runs -> SUBSET Labels] /\ \A r \in Runs : todo'[r] \subseteq todo[r]
      BY <1>1, <2>2 DEF TypeOK
    <2>4. disturbed' \in [Runs -> BOOLEAN]
      BY <1>1, <1>5 DEF TypeOK, RemoveStale, Disturb, Begun
    <2>5. TypeOK'
      BY <1>1, <1>5, <2>1, <2>3, <2>4 DEF TypeOK, RemoveStale
    <2>6. Tidy'
      BY <1>1, <1>5, <2>3 DEF TypeOK, RemoveStale, Tidy, StaleLabels, Target, WalletTarget, ReadyTarget
    <2> QED BY <2>5, <2>6 DEF IInv
  <1>6. ASSUME NEW q \in Runs, RemoveFails(q) PROVE IInv'
    <2>1. TypeOK'
      BY <1>1, <1>6 DEF TypeOK, RemoveFails
    <2>2. Tidy'
      BY <1>1, <1>6 DEF TypeOK, RemoveFails, Tidy, StaleLabels, Target, WalletTarget, ReadyTarget
    <2> QED BY <2>1, <2>2 DEF IInv
  <1>7. ASSUME NEW q \in Runs, ToAdd(q) PROVE IInv'
    <2>1. CASE Leave(q)
      BY <1>1, <1>7, <2>1, LeaveKeeps DEF ToAdd, TypeOK, IInv
    <2>2. CASE Target(q) # NoLabel /\ pc' = [pc EXCEPT ![q] = "add"] /\ UNCHANGED <<stage, page, current, todo>>
      <3>1. stage[q] # "done"
        BY <1>1, <1>7 DEF ToAdd, Tidy
      <3>2. TypeOK'
        BY <1>1, <1>7, <2>2 DEF ToAdd, TypeOK
      <3>3. Tidy'
        BY <1>1, <1>7, <2>2, <3>1 DEF ToAdd, TypeOK, Tidy, StaleLabels, Target, WalletTarget, ReadyTarget
      <3> QED BY <3>2, <3>3 DEF IInv
    <2> QED BY <1>7, <2>1, <2>2 DEF ToAdd
  <1>8. ASSUME NEW q \in Runs, AddTarget(q) PROVE IInv'
    <2>1. labels' \in Seq(Labels) /\ IsInjective(labels')
      <3>1. Target(q) \in Labels
        BY <1>1, <1>8, TargetKnown DEF AddTarget, Tidy, Target, Labels
      <3> QED BY <1>1, <1>8, <3>1, AppendSet DEF AddTarget, TypeOK, On
    <2>2. disturbed' \in [Runs -> BOOLEAN]
      BY <1>1, <1>8 DEF AddTarget, Disturb, Begun, TypeOK
    <2> QED BY <1>1, <1>8, <2>1, <2>2, LeaveKeeps DEF AddTarget, TypeOK, IInv
  <1> QED BY <1>2, <1>3, <1>4, <1>5, <1>6, <1>7, <1>8 DEF Next, RunStep

LEMMA Inductive == Spec => []IInv
  <1>1. IInv /\ [Next]_vars => IInv'
    BY IInvKeeps
  <1> QED BY IInvInit, <1>1, PTL DEF Spec

\* The variables keep their types, and no label is on the issue twice.
THEOREM TypeCorrect == Spec => []TypeOK
  <1>1. IInv => TypeOK
    BY DEF IInv
  <1> QED BY <1>1, Inductive, PTL

-----------------------------------------------------------------------------
(* What a step of a run does to the issue and to the other runs.           *)

LEMMA OthersStand ==
    ASSUME IInv, NEW q \in Runs, RunStep(q), NEW r \in Runs \ {q}
    PROVE  /\ stage'[r] = stage[r] /\ pc'[r] = pc[r] /\ page'[r] = page[r]
           /\ current'[r] = current[r] /\ todo'[r] = todo[r] /\ lapse'[r] = lapse[r]
  <1>1. TypeOK
    BY DEF IInv
  <1>2. CASE List(q)
    BY <1>1, <1>2, ListDoes DEF TypeOK
  <1>3. CASE ListFails(q) \/ AddFails(q) \/ AddTarget(q)
    BY <1>1, <1>3 DEF TypeOK, ListFails, AddFails, AddTarget, Leave, Goto
  <1>4. CASE RemoveStale(q) \/ RemoveFails(q)
    BY <1>1, <1>4 DEF TypeOK, RemoveStale, RemoveFails
  <1>5. CASE ToAdd(q)
    BY <1>1, <1>5 DEF TypeOK, ToAdd, Leave, Goto
  <1> QED BY <1>2, <1>3, <1>4, <1>5 DEF RunStep

LEMMA SameFindings ==
    ASSUME NEW q \in Runs, RunStep(q)
    PROVE  /\ seen_by' = seen_by /\ valid' = valid
           /\ \A r \in Runs : WalletTarget(r)' = WalletTarget(r) /\ ReadyTarget(r)' = ReadyTarget(r)
  <1>1. seen_by' = seen_by /\ valid' = valid
    BY DEF RunStep, List, ListFails, RemoveStale, RemoveFails, ToAdd, AddTarget, AddFails
  <1> QED BY <1>1 DEF WalletTarget, ReadyTarget

LEMMA RemoveDoes ==
    ASSUME IInv, NEW q \in Runs, RemoveStale(q)
    PROVE  /\ pc[q] = "remove" /\ UNCHANGED <<stage, pc, page, current, lapse>>
           /\ \E l \in todo[q] : /\ todo' = [todo EXCEPT ![q] = @ \ {l}]
                                 /\ todo'[q] = todo[q] \ {l}
                                 /\ Names' = Names \ {l}
                                 /\ l \in StaleLabels(q)
  <1>1. TypeOK /\ todo[q] \subseteq StaleLabels(q)
    BY DEF IInv, Tidy
  <1>2. PICK l \in todo[q] : labels' = Without(l) /\ todo' = [todo EXCEPT ![q] = @ \ {l}]
    BY DEF RemoveStale
  <1>3. Names' = Names \ {l}
    BY <1>1, <1>2, WithoutSet DEF Names
  <1>4. todo'[q] = todo[q] \ {l}
    BY <1>1, <1>2 DEF TypeOK
  <1> QED BY <1>1, <1>2, <1>3, <1>4 DEF RemoveStale

LEMMA LeaveDoes ==
    ASSUME IInv, NEW q \in Runs, Leave(q)
    PROVE  /\ stage'[q] = IF stage[q] = "wallet" THEN AfterWallet ELSE "done"
           /\ stage'[q] \in {"ready", "done"}
           /\ pc'[q] = "list" /\ page'[q] = 0 /\ current'[q] = {} /\ todo'[q] = {}
  BY DEF IInv, TypeOK, Leave, Goto, AfterWallet

LEMMA AddDoes ==
    ASSUME IInv, NEW q \in Runs, AddTarget(q)
    PROVE  /\ pc[q] = "add" /\ Leave(q) /\ UNCHANGED lapse
           /\ Names' = Names \cup {Target(q)}
           /\ stage[q] \in {"wallet", "ready"} /\ Target(q) # NoLabel
  <1>1. TypeOK /\ Tidy
    BY DEF IInv
  <1>2. pc[q] = "add" /\ Leave(q) /\ UNCHANGED lapse
    BY DEF AddTarget
  <1>3. stage[q] \in {"wallet", "ready"} /\ Target(q) # NoLabel
    BY <1>1, <1>2 DEF Tidy, TypeOK
  <1>4. Target(q) \in Labels
    BY <1>3, TargetKnown DEF Target, Labels
  <1>5. Names' = Names \cup {Target(q)}
    <2>1. CASE On(Target(q))
      BY <2>1 DEF AddTarget, On, Names
    <2>2. CASE ~On(Target(q))
      BY <1>1, <1>4, <2>2, AppendSet DEF AddTarget, On, Names, TypeOK
    <2> QED BY <2>1, <2>2
  <1> QED BY <1>2, <1>3, <1>5

LEMMA NamesStay ==
    ASSUME NEW q \in Runs, List(q) \/ ListFails(q) \/ RemoveFails(q) \/ ToAdd(q) \/ AddFails(q)
    PROVE  labels' = labels /\ Names' = Names /\ \A n : UpTo(n)' = UpTo(n)
  <1>1. labels' = labels
    BY DEF List, ListFails, RemoveFails, ToAdd, AddFails
  <1> QED BY <1>1 DEF Names, UpTo

\* An issue loses stale labels of the run at work, and gets its target.
LEMMA NamesStep ==
    ASSUME IInv, NEW q \in Runs, RunStep(q)
    PROVE  \/ labels' = labels /\ Names' = Names
           \/ \E l \in StaleLabels(q) : Names' = Names \ {l}
           \/ Names' = Names \cup {Target(q)} /\ Target(q) # NoLabel /\ stage[q] \in {"wallet", "ready"}
  BY NamesStay, RemoveDoes, AddDoes DEF RunStep

-----------------------------------------------------------------------------
(* A run that works alone.                                                 *)

LEMMA AloneInit == ASSUME Init PROVE AllAlone
  <1>1. IInv
    BY IInvInit
  <1>2. ASSUME NEW r \in Runs PROVE current[r] = UpTo(page[r] * PageSize)
    <2>1. page[r] = 0 /\ 0 * PageSize = 0 /\ current[r] = {}
      BY LabelsAssumption DEF Init, LabelsAssumption
    <2>2. UpTo(0) = {}
      BY <1>1, NextPage DEF IInv
    <2> QED BY <2>1, <2>2
  <1> QED BY <1>2 DEF Init, AllAlone, Alone

\* A run that is disturbed stays so while others work.
LEMMA DisturbedStays ==
    ASSUME IInv, NEW q \in Runs, RunStep(q), NEW r \in Runs \ {q}, disturbed[r]
    PROVE  disturbed'[r]
  <1>1. TypeOK
    BY DEF IInv
  <1>2. CASE List(q)
    BY <1>2, ListDoes
  <1>3. CASE RemoveStale(q) \/ AddTarget(q)
    BY <1>3 DEF RemoveStale, AddTarget, Disturb
  <1>4. CASE ListFails(q) \/ RemoveFails(q) \/ ToAdd(q) \/ AddFails(q)
    BY <1>4 DEF ListFails, RemoveFails, ToAdd, AddFails
  <1> QED BY <1>2, <1>3, <1>4 DEF RunStep

LEMMA AloneKeeps == ASSUME IInv, AllAlone, [Next]_vars PROVE AllAlone'
  <1>1. TypeOK /\ Tidy /\ IInv' /\ TypeOK' /\ Tidy'
    BY IInvKeeps DEF IInv
  <1>2. CASE UNCHANGED vars
    BY <1>2 DEF vars, AllAlone, Alone, UpTo, Names, On, WalletTarget
  <1>3. ASSUME NEW q \in Runs, RunStep(q), NEW r \in Runs PROVE Alone(r)'
    <2> SUFFICES ASSUME stage'[r] = "wallet", ~disturbed'[r], ~lapse'[r]
                 PROVE  /\ pc'[r] = "list" => current'[r] = UpTo(page[r] * PageSize)'
                        /\ pc'[r] = "remove" =>
                              /\ ((Names \cap AllWalletLabels) \ {WalletTarget(r)})' \subseteq todo'[r]
                              /\ WalletTarget(r)' \in current'[r] => On(WalletTarget(r))'
                        /\ pc'[r] = "add" => (Names \cap AllWalletLabels)' \subseteq {WalletTarget(r)'}
      BY DEF Alone
    <2>1. WalletTarget(r)' = WalletTarget(r)
      BY <1>3, SameFindings
    <2>2. CASE r # q /\ labels' = labels
      <3>1. stage[r] = "wallet" /\ ~disturbed[r] /\ ~lapse[r]
        BY <1>3, <2>2, OthersStand, DisturbedStays
      <3>2. Alone(r)
        BY DEF AllAlone
      <3> QED BY <1>3, <2>1, <2>2, <3>1, <3>2, OthersStand DEF Alone, UpTo, Names, On
    <2>3. CASE r # q /\ labels' # labels
      <3>1. Disturb(q)
        BY <1>3, <2>3, NamesStay DEF RunStep, RemoveStale, AddTarget
      <3>2. ~Begun(r)
        BY <2>3, <3>1 DEF Disturb
      <3>3. pc[r] = "list" /\ page[r] = 0 /\ current[r] = {}
        BY <1>1, <3>2 DEF Begun, Tidy, TypeOK
      <3>4. pc'[r] = "list" /\ page'[r] = 0 /\ current'[r] = {}
        BY <1>3, <2>3, <3>3, OthersStand
      <3>5. 0 * PageSize = 0 /\ DOMAIN labels' = 1..Len(labels') /\ Len(labels') \in Nat
        BY <1>1, LabelsAssumption DEF LabelsAssumption, TypeOK
      <3>6. (UpTo(page[r] * PageSize))' = {}
        BY <3>4, <3>5 DEF UpTo
      <3> QED BY <3>4, <3>6
    <2>4. CASE r = q
      <3> DEFINE T == WalletTarget(q)
      <3>1. Alone(q) /\ T \in AllWalletLabels /\ T # NoLabel
        BY TargetKnown DEF AllAlone, AllWalletLabels, NoLabel
      <3> HIDE DEF T
      <3>2. CASE List(q)
        <4> DEFINE k == page[q]
        <4>1. /\ k \in Nat /\ pc[q] = "list" /\ labels' = labels /\ stage[q] = "wallet" /\ ~lapse[q]
              /\ k # 0 => ~disturbed[q]
              /\ current'[q] = ReadBy(q)
          BY <1>1, <2>4, <3>2, ListDoes DEF TypeOK
        <4>2. UpTo(0) = {} /\ 0 * PageSize = 0
          BY <1>1, NextPage, LabelsAssumption DEF LabelsAssumption
        <4>3. current[q] = UpTo(k * PageSize)
          BY <1>1, <3>1, <4>1, <4>2 DEF Alone, Tidy
        <4>4. ReadBy(q) = UpTo((k + 1) * PageSize)
          BY <1>1, <4>1, <4>3, NextPage DEF ReadBy
        <4>5. Names' = Names /\ \A n : UpTo(n)' = UpTo(n)
          BY <3>2, NamesStay
        <4>6. CASE page' = [page EXCEPT ![q] = page[q] + 1] /\ UNCHANGED <<todo, pc>>
          <5>1. page'[q] = k + 1 /\ pc'[q] = "list"
            BY <1>1, <4>1, <4>6 DEF TypeOK
          <5>2. (UpTo(page[q] * PageSize))' = UpTo((k + 1) * PageSize)
            BY <4>1, <5>1 DEF UpTo
          <5> QED BY <2>4, <4>1, <4>4, <5>1, <5>2
        <4>7. CASE /\ Len(labels) < (page[q] + 1) * PageSize
                   /\ todo' = [todo EXCEPT ![q] = StaleLabels(q) \cap ReadBy(q)]
                   /\ pc' = [pc EXCEPT ![q] = "remove"]
          <5>1. ReadBy(q) = Names
            BY <1>1, <4>1, <4>4, <4>7, NextPage
          <5>2. pc'[q] = "remove" /\ todo'[q] = (AllWalletLabels \ {T}) \cap Names
            BY <1>1, <4>1, <4>7, <5>1 DEF TypeOK, StaleLabels, T
          <5> QED BY <2>1, <2>4, <4>1, <4>5, <5>1, <5>2 DEF On, Names, T
        <4> QED BY <3>2, <4>6, <4>7, ListDoes
      <3>3. CASE RemoveStale(q)
        <4>1. PICK l \in todo[q] : /\ pc[q] = "remove" /\ UNCHANGED <<stage, pc, page, current, lapse>>
                                   /\ todo'[q] = todo[q] \ {l} /\ Names' = Names \ {l}
                                   /\ l \in StaleLabels(q)
          BY <1>1, <3>3, RemoveDoes
        <4>2. ~disturbed[q]
          BY <2>4, <3>3 DEF RemoveStale, Disturb
        <4>3. l # T
          BY <2>4, <4>1 DEF StaleLabels, T
        <4> QED BY <2>1, <2>4, <3>1, <4>1, <4>2, <4>3 DEF Alone, On, Names, T
      <3>4. CASE ToAdd(q)
        <4>1. /\ pc[q] = "remove" /\ todo[q] = {} /\ Names' = Names
              /\ ~disturbed[q] /\ ~lapse[q]
          BY <2>4, <3>4, NamesStay DEF ToAdd
        <4>2. ~Leave(q)
          BY <1>1, <2>4, LeaveDoes
        <4>3. pc' = [pc EXCEPT ![q] = "add"] /\ stage' = stage
          BY <3>4, <4>2 DEF ToAdd, Goto
        <4>4. pc'[q] = "add" /\ stage[q] = "wallet"
          BY <1>1, <2>4, <4>3 DEF TypeOK
        <4> QED BY <2>1, <2>4, <3>1, <4>1, <4>4 DEF Alone, T
      <3>5. CASE ListFails(q) \/ AddFails(q) \/ AddTarget(q)
        BY <1>1, <2>4, <3>5, LeaveDoes DEF ListFails, AddFails, AddTarget
      <3>6. CASE RemoveFails(q)
        BY <1>1, <2>4, <3>6 DEF RemoveFails, TypeOK
      <3> QED BY <1>3, <3>2, <3>3, <3>4, <3>5, <3>6 DEF RunStep
    <2> QED BY <2>2, <2>3, <2>4
  <1> QED BY <1>2, <1>3 DEF Next, AllAlone

LEMMA AllAloneHolds == Spec => [](IInv /\ AllAlone)
  <1>1. Init => IInv /\ AllAlone
    BY IInvInit, AloneInit
  <1>2. IInv /\ AllAlone /\ [Next]_vars => (IInv /\ AllAlone)'
    BY IInvKeeps, AloneKeeps
  <1> QED BY <1>1, <1>2, PTL DEF Spec

\* applyWalletLabels of a run that no other run disturbed leaves the wallet
\* label of its state and no other, however many pages it had to read.
THEOREM AloneExact == Spec => AloneIsExact
  <1>1. IInv /\ AllAlone /\ [Next]_vars =>
          [\A r \in Runs : (/\ stage[r] = "wallet" /\ stage'[r] # "wallet"
                            /\ ~lapse'[r] /\ ~disturbed[r]) =>
               ToSet(labels') \cap AllWalletLabels = {WalletTarget(r)}]_vars
    <2> SUFFICES ASSUME IInv, AllAlone, NEW r \in Runs, [Next]_vars,
                        stage[r] = "wallet", stage'[r] # "wallet", ~lapse'[r], ~disturbed[r]
                 PROVE  Names' \cap AllWalletLabels = {WalletTarget(r)}
      BY DEF Names
    <2> DEFINE T == WalletTarget(r)
    <2>1. TypeOK /\ Tidy /\ Alone(r) /\ T \in AllWalletLabels /\ T # NoLabel
      BY TargetKnown DEF IInv, AllAlone, AllWalletLabels, NoLabel
    <2>2. PICK q \in Runs : RunStep(q)
      BY DEF Next, vars
    <2>3. q = r
      BY <2>2, OthersStand
    <2> HIDE DEF T
    <2>4. CASE ToAdd(r)
      <3>1. /\ pc[r] = "remove" /\ todo[r] = {} /\ Names' = Names /\ ~lapse[r]
        BY <2>4, NamesStay DEF ToAdd
      <3>2. T \in current[r]
        BY <2>1, <2>4 DEF ToAdd, Target, T
      <3> QED BY <2>1, <3>1, <3>2 DEF Alone, On, Names, T
    <2>5. CASE AddTarget(r)
      <3>1. /\ pc[r] = "add" /\ ~lapse[r] /\ Names' = Names \cup {T}
        BY <2>5, AddDoes DEF Target, T
      <3> QED BY <2>1, <3>1 DEF Alone, T
    <2>6. CASE ListFails(r) \/ AddFails(r)
      BY <2>1, <2>6 DEF ListFails, AddFails, TypeOK
    <2>7. CASE List(r) \/ RemoveStale(r) \/ RemoveFails(r)
      BY <2>7 DEF List, RemoveStale, RemoveFails
    <2> QED BY <2>2, <2>3, <2>4, <2>5, <2>6, <2>7 DEF RunStep
  <1> QED BY <1>1, AllAloneHolds, PTL DEF Spec, AloneIsExact

\* No run takes away a label that is not one of the action's.
THEOREM OthersKept == Spec => OthersStay
  <1>1. IInv /\ [Next]_vars => [\A l \in OtherLabels : On(l) => On(l)']_vars
    <2> SUFFICES ASSUME IInv, [Next]_vars, NEW l \in OtherLabels, l \in Names PROVE l \in Names'
      BY DEF On, Names
    <2>1. CASE UNCHANGED vars
      BY <2>1 DEF vars, Names
    <2>2. ASSUME NEW q \in Runs, RunStep(q) PROVE l \in Names'
      <3>1. l \notin StaleLabels(q)
        BY LabelsAssumption DEF LabelsAssumption, StaleLabels
      <3> QED BY <2>2, <3>1, NamesStep
    <2> QED BY <2>1, <2>2 DEF Next
  <1> QED BY <1>1, Inductive, PTL DEF Spec, OthersStay

\* A run of the two label functions does its whole job and nothing beside it.
THEOREM RunsExact == Spec => EachRunIsExact
  BY AloneExact, OthersKept DEF EachRunIsExact

-----------------------------------------------------------------------------
(* Runs that agree on the state of the wallet.                             *)

LEMMA StateInit == ASSUME Init PROVE StateInv
  <1>1. IInv /\ UpTo(0) = {} /\ 0 * PageSize = 0
    BY IInvInit, NextPage, LabelsAssumption DEF IInv, LabelsAssumption
  <1> SUFFICES ASSUME SameState, NEW q \in Runs PROVE NoneWrote /\ TargetKept(q)
    BY DEF StateInv
  <1>2. \A r \in Runs : stage[r] = "wallet" /\ pc[r] = "list" /\ page[r] = 0 /\ current[r] = {}
    BY DEF Init, FirstStage, SameState
  <1> QED BY <1>1, <1>2 DEF NoneWrote, TargetKept

\* Failed calls are remembered.
LEMMA LapseStays == ASSUME IInv, NEW q \in Runs, RunStep(q), SomeLapse PROVE SomeLapse'
  <1>1. PICK r \in Runs : lapse[r]
    BY DEF SomeLapse
  <1>2. lapse'[r]
    <2>1. CASE r # q
      BY <1>1, <2>1, OthersStand
    <2>2. CASE r = q
      BY <1>1, <2>2, ListDoes
         DEF IInv, TypeOK, RunStep, ListFails, RemoveStale, RemoveFails, ToAdd, AddTarget, AddFails
    <2> QED BY <2>1, <2>2
  <1> QED BY <1>2 DEF SomeLapse

LEMMA FailureIsLapse ==
    ASSUME IInv, NEW q \in Runs, ListFails(q) \/ RemoveFails(q) \/ AddFails(q)
    PROVE  SomeLapse'
  BY DEF IInv, TypeOK, ListFails, RemoveFails, AddFails, SomeLapse

\* The label of the state that all runs found stays once it is there.
LEMMA TargetKeeps ==
    ASSUME LabelsApart, IInv, SameState, NEW q \in Runs, RunStep(q), NEW r \in Runs
    PROVE  On(WalletTarget(r)) => On(WalletTarget(r))'
  <1> DEFINE T == WalletTarget(r)
  <1>1. T' = T /\ WalletTarget(q) = T /\ T \in AllWalletLabels
    BY SameFindings, TargetKnown DEF SameState, WalletTarget
  <1> HIDE DEF T
  <1>2. T \notin StaleLabels(q)
    BY <1>1 DEF StaleLabels, LabelsApart
  <1>3. T \in Names => T \in Names'
    BY <1>2, NamesStep
  <1> QED BY <1>1, <1>3 DEF On, Names, T

LEMMA TargetKeptKeeps ==
    ASSUME LabelsApart, IInv, SameState, NEW q \in Runs, RunStep(q), NEW r \in Runs, TargetKept(r)
    PROVE  TargetKept(r)' \/ SomeLapse'
  <1> DEFINE T == WalletTarget(r)
  <1>1. /\ T' = T /\ T \in AllWalletLabels /\ T # NoLabel
        /\ On(T) => On(T)'
        /\ TypeOK
    BY SameFindings, TargetKnown, TargetKeeps DEF AllWalletLabels, NoLabel, IInv
  <1> SUFFICES /\ stage'[r] = "wallet" /\ T \in current'[r] => On(T)'
               /\ stage'[r] # "wallet" => On(T)'
               \/ SomeLapse'
    BY <1>1 DEF TargetKept
  <1>2. stage[r] = "wallet" /\ T \in current[r] => On(T)
    BY DEF TargetKept
  <1>3. stage[r] # "wallet" => On(T)
    BY DEF TargetKept
  <1> HIDE DEF T
  <1>4. CASE r # q
    BY <1>1, <1>2, <1>3, <1>4, OthersStand
  <1>5. CASE r = q /\ stage[r] # "wallet"
    BY <1>1, <1>3, <1>5
  <1>6. CASE r = q /\ stage[r] = "wallet"
    <2>1. CASE List(q)
      <3>1. stage'[q] = "wallet" /\ current'[q] = ReadBy(q) /\ Names' = Names /\ page[q] \in Nat
        BY <1>1, <1>6, <2>1, ListDoes, NamesStay DEF TypeOK
      <3>2. T \in ReadBy(q) => On(T)
        BY <1>1, <1>2, <1>6, <3>1, NextPage DEF ReadBy, On, Names
      <3> QED BY <1>1, <1>6, <3>1, <3>2
    <2>2. CASE RemoveStale(q)
      <3>1. stage'[q] = stage[q] /\ current'[q] = current[q]
        BY <2>2 DEF RemoveStale
      <3> QED BY <1>1, <1>2, <1>6, <3>1
    <2>3. CASE ToAdd(q)
      <3>1. CASE Leave(q)
        <4>1. T \in current[q]
          <5>1. pc'[q] = "list" /\ pc[q] = "remove"
            BY <1>1, <2>3, <3>1, LeaveDoes DEF ToAdd
          <5>2. Target(q) = T
            BY <1>6 DEF Target, T
          <5> QED BY <1>1, <2>3, <5>1, <5>2 DEF ToAdd, Goto, TypeOK
        <4> QED BY <1>1, <1>2, <1>6, <4>1
      <3>2. CASE UNCHANGED <<stage, page, current, todo>>
        BY <1>1, <1>2, <1>6, <3>2
      <3> QED BY <2>3, <3>1, <3>2 DEF ToAdd
    <2>4. CASE AddTarget(q)
      <3>1. T \in Names'
        BY <1>6, <2>4, AddDoes DEF Target, T
      <3> QED BY <1>1, <3>1 DEF On, Names, T
    <2>5. CASE ListFails(q) \/ RemoveFails(q) \/ AddFails(q)
      BY <2>5, FailureIsLapse
    <2> QED BY <2>1, <2>2, <2>3, <2>4, <2>5 DEF RunStep
  <1> QED BY <1>4, <1>5, <1>6

LEMMA StateKeeps == ASSUME LabelsApart, IInv, StateInv, [Next]_vars PROVE StateInv'
  <1>1. TypeOK /\ Tidy
    BY DEF IInv
  <1>2. CASE UNCHANGED vars
    BY <1>2 DEF vars, StateInv, SameState, SomeLapse, NoneWrote, Cleaner, StaleWallet, TargetKept,
                WalletTarget, UpTo, Names, On
  <1>3. ASSUME NEW q \in Runs, RunStep(q) PROVE StateInv'
    <2>1. SameState' = SameState
      BY <1>3, SameFindings DEF SameState
    <2> SUFFICES ASSUME SameState, ~SomeLapse', NEW p \in Runs
                 PROVE  /\ NoneWrote' \/ Cleaner(p)' \/ StaleWallet(p)' = {}
                        /\ TargetKept(p)'
      BY <2>1 DEF StateInv
    <2>2. ~SomeLapse
      BY <1>3, LapseStays
    <2>3. /\ NoneWrote \/ Cleaner(p) \/ StaleWallet(p) = {}
          /\ TargetKept(p)
      BY <2>2 DEF StateInv
    <2>4. TargetKept(p)'
      BY <1>3, <2>3, TargetKeptKeeps
    <2> DEFINE T == WalletTarget(p)
               W == StaleWallet(p)
    <2>5. T' = T /\ T \in AllWalletLabels /\ T # NoLabel /\ \A r \in Runs : WalletTarget(r) = T
      BY <1>3, SameFindings, TargetKnown DEF AllWalletLabels, NoLabel, SameState, WalletTarget
    <2>6. W' \subseteq W
      <3>1. Target(q) \notin AllWalletLabels \/ Target(q) = T \/ stage[q] \notin {"wallet", "ready"} \/ Target(q) = NoLabel
        BY <2>5, TargetKnown DEF Target, LabelsApart
      <3>2. Names' \subseteq Names \cup {Target(q)} /\
              (Names' \subseteq Names \/ (Target(q) # NoLabel /\ stage[q] \in {"wallet", "ready"}))
        BY <1>3, NamesStep
      <3> QED BY <2>5, <3>1, <3>2 DEF StaleWallet
    <2>7. W = {} => W' = {}
      BY <2>6
    <2>8. CASE Cleaner(p)
      <3>1. PICK r \in Runs : stage[r] = "wallet" /\ pc[r] = "remove" /\ W \subseteq todo[r]
        BY <2>8 DEF Cleaner
      <3>2. CASE r # q
        <4>1. stage'[r] = "wallet" /\ pc'[r] = "remove" /\ W' \subseteq todo'[r]
          BY <1>3, <2>6, <3>1, <3>2, OthersStand
        <4> QED BY <2>4, <4>1 DEF Cleaner
      <3>3. CASE r = q /\ RemoveStale(q)
        <4>1. PICK l \in todo[q] : /\ UNCHANGED <<stage, pc>>
                                   /\ todo'[q] = todo[q] \ {l} /\ Names' = Names \ {l}
          BY <3>3, RemoveDoes
        <4>2. l \notin W'
          BY <4>1 DEF StaleWallet
        <4>3. W' \subseteq todo'[q]
          <5> HIDE DEF W
          <5> QED BY <2>6, <3>1, <3>3, <4>1, <4>2
        <4>4. stage'[r] = "wallet" /\ pc'[r] = "remove" /\ W' \subseteq todo'[r]
          BY <3>1, <3>3, <4>1, <4>3
        <4> QED BY <2>4, <4>4 DEF Cleaner
      <3>4. CASE r = q /\ ToAdd(q)
        BY <2>4, <2>7, <3>1, <3>4 DEF ToAdd
      <3>5. CASE r = q /\ (ListFails(q) \/ RemoveFails(q) \/ AddFails(q))
        BY <3>5, FailureIsLapse
      <3>6. CASE r = q /\ (List(q) \/ AddTarget(q))
        BY <3>1, <3>6 DEF List, AddTarget
      <3> QED BY <1>3, <3>2, <3>3, <3>4, <3>5, <3>6, <2>4 DEF RunStep
    <2>9. CASE NoneWrote
      <3>1. List(q)
        <4>1. pc[q] = "list"
          BY <2>9 DEF NoneWrote
        <4>2. ~ListFails(q)
          BY FailureIsLapse
        <4> QED BY <1>3, <4>1, <4>2 DEF RunStep, RemoveStale, RemoveFails, ToAdd, AddTarget, AddFails
      <3> DEFINE k == page[q]
      <3>2. /\ k \in Nat /\ stage' = stage /\ labels' = labels /\ stage[q] = "wallet"
            /\ current'[q] = ReadBy(q)
            /\ Names' = Names /\ \A n : UpTo(n)' = UpTo(n)
        BY <1>1, <2>9, <3>1, ListDoes, NamesStay DEF TypeOK, NoneWrote
      <3>3. ReadBy(q) = UpTo((k + 1) * PageSize)
        BY <1>1, <2>9, <3>2, NextPage DEF ReadBy, NoneWrote
      <3>4. CASE page' = [page EXCEPT ![q] = page[q] + 1] /\ UNCHANGED <<todo, pc>>
        <4>1. page'[q] = k + 1
          BY <1>1, <3>4 DEF TypeOK
        <4>2. ASSUME NEW r \in Runs PROVE /\ stage'[r] = "wallet" /\ pc'[r] = "list"
                                          /\ current'[r] = (UpTo(page[r] * PageSize))'
          <5>1. CASE r = q
            <6>1. (UpTo(page[q] * PageSize))' = UpTo((k + 1) * PageSize)
              BY <3>2, <4>1 DEF UpTo
            <6> QED BY <2>9, <3>2, <3>3, <3>4, <5>1, <6>1 DEF NoneWrote
          <5>2. CASE r # q
            BY <1>3, <2>9, <3>2, <5>2, OthersStand DEF NoneWrote, UpTo
          <5> QED BY <5>1, <5>2
        <4> QED BY <2>4, <4>2 DEF NoneWrote
      <3>5. CASE /\ Len(labels) < (page[q] + 1) * PageSize
                 /\ todo' = [todo EXCEPT ![q] = StaleLabels(q) \cap ReadBy(q)]
                 /\ pc' = [pc EXCEPT ![q] = "remove"]
        <4>0. k \in Nat /\ Len(labels) < (k + 1) * PageSize
          BY <3>2, <3>5
        <4>1. ReadBy(q) = Names
          <5>1. UpTo((k + 1) * PageSize) = Names
            BY <1>1, <4>0, NextPage
          <5> QED BY <3>3, <5>1
        <4>2. pc'[q] = "remove" /\ todo'[q] = (AllWalletLabels \ {T}) \cap Names
          <5>1. StaleLabels(q) = AllWalletLabels \ {T}
            BY <2>5, <3>2 DEF StaleLabels
          <5> HIDE DEF T
          <5> QED BY <1>1, <3>5, <4>1, <5>1 DEF TypeOK
        <4>3. W' \subseteq todo'[q]
          BY <2>6, <4>2 DEF StaleWallet
        <4> QED BY <2>4, <3>2, <4>2, <4>3 DEF Cleaner
      <3> QED BY <3>1, <3>4, <3>5, ListDoes
    <2> QED BY <2>3, <2>4, <2>7, <2>8, <2>9
  <1> QED BY <1>2, <1>3 DEF Next

\* Runs that found the same account state leave exactly its wallet label.
THEOREM StatesConverge == ASSUME LabelsApart PROVE Spec => []SameStateConverges
  <1>1. Init => IInv /\ StateInv
    BY IInvInit, StateInit
  <1>2. IInv /\ StateInv /\ [Next]_vars => (IInv /\ StateInv)'
    BY IInvKeeps, StateKeeps
  <1>3. IInv /\ StateInv => SameStateConverges
    <2> SUFFICES ASSUME IInv, StateInv, WalletLabels, \A r, s \in Runs : Clean(r) /\ seen_by[r] = seen_by[s],
                        NEW q \in Runs
                 PROVE  WalletShown = {WalletTarget(q)}
      BY DEF SameStateConverges
    <2>1. SameState /\ ~SomeLapse /\ \A r \in Runs : stage[r] = "done"
      BY DEF Clean, SameState, SomeLapse
    <2>2. StaleWallet(q) = {} /\ TargetKept(q)
      BY <2>1 DEF StateInv, NoneWrote, Cleaner
    <2>3. WalletTarget(q) \in Names /\ WalletTarget(q) \in AllWalletLabels
      BY <2>1, <2>2, TargetKnown DEF TargetKept, On, Names
    <2> QED BY <2>2, <2>3 DEF WalletShown, StaleWallet, Names
  <1> QED BY <1>1, <1>2, <1>3, PTL DEF Spec

-----------------------------------------------------------------------------
(* Runs that agree on the verdict.                                         *)

LEMMA VerdictInit == ASSUME Init PROVE VerdictInv
  <1>1. IInv /\ UpTo(0) = {} /\ 0 * PageSize = 0
    BY IInvInit, NextPage, LabelsAssumption DEF IInv, LabelsAssumption
  <1> SUFFICES ASSUME NEW q \in Runs
               PROVE  /\ \A f \in ReadyLabels : WillMeet(q, f)
                      /\ VerdictKept(q)
    BY DEF VerdictInv
  <1>2. pc[q] = "list" /\ page[q] = 0 /\ current[q] = {} /\ stage[q] = FirstStage
    BY DEF Init
  <1>3. stage[q] = "wallet" \/ stage[q] = "ready" \/ ReadyLabels = {}
    BY <1>2 DEF FirstStage, AfterWallet
  <1> QED BY <1>1, <1>2, <1>3, TargetKnown DEF WillMeet, VerdictKept

\* While the runs agree on the verdict, no step puts a stale ready label on the
\* issue or takes the label of the verdict away.
LEMMA VerdictNames ==
    ASSUME LabelsApart, IInv, SameVerdict, NEW q \in Runs, RunStep(q), NEW p \in Runs
    PROVE  /\ \A f \in ReadyLabels \ {ReadyTarget(p)} : f \in Names' => f \in Names
           /\ ReadyTarget(p) # NoLabel /\ ReadyTarget(p) \in Names => ReadyTarget(p) \in Names'
           /\ SameVerdict'
           /\ ReadyTarget(p)' = ReadyTarget(p)
           /\ \A r \in Runs : ReadyTarget(r) = ReadyTarget(p)
  <1> DEFINE P == ReadyTarget(p)
  <1>1. P \in ReadyLabels \cup {NoLabel} /\ \A r \in Runs : ReadyTarget(r) = P
    BY TargetKnown DEF SameVerdict, ReadyTarget
  <1>2. WalletTarget(q) \in AllWalletLabels /\ ReadyTarget(q) = P
    BY <1>1, TargetKnown
  <1>3. SameVerdict' /\ P' = P
    BY SameFindings DEF SameVerdict
  <1> HIDE DEF P
  <1>4. P # NoLabel => P \notin StaleLabels(q)
    BY <1>1, <1>2 DEF StaleLabels, LabelsApart
  <1>5. \A f \in ReadyLabels \ {P} : stage[q] \in {"wallet", "ready"} => f # Target(q)
    BY <1>2 DEF Target, LabelsApart
  <1>6. P # NoLabel /\ P \in Names => P \in Names'
    BY <1>4, NamesStep
  <1>7. \A f \in ReadyLabels \ {P} : f \in Names' => f \in Names
    BY <1>5, NamesStep
  <1> QED BY <1>1, <1>3, <1>6, <1>7 DEF P

\* A run that leaves the first function has yet to read the issue's labels.
LEMMA LeaversMeet ==
    ASSUME IInv, IInv', NEW q \in Runs, Leave(q), stage[q] = "wallet", NEW f \in ReadyLabels
    PROVE  WillMeet(q, f)'
  <1>1. stage'[q] = "ready" /\ pc'[q] = "list" /\ page'[q] = 0
    BY LeaveDoes DEF AfterWallet
  <1>2. 0 * PageSize = 0 /\ DOMAIN labels' = 1..Len(labels') /\ Len(labels') \in Nat
    BY LabelsAssumption DEF LabelsAssumption, IInv, TypeOK
  <1>3. (UpTo(page[q] * PageSize))' = {}
    BY <1>1, <1>2 DEF UpTo
  <1> QED BY <1>1, <1>3 DEF WillMeet

\* The step of a run that was yet to meet a stale ready label.
LEMMA MeetsItself ==
    ASSUME IInv, IInv', NEW q \in Runs, RunStep(q), ~SomeLapse',
           NEW f \in ReadyLabels \ {ReadyTarget(q)}, f \in Names, f \in Names', WillMeet(q, f)
    PROVE  WillMeet(q, f)'
  <1>1. TypeOK /\ Tidy
    BY DEF IInv
  <1>2. CASE Leave(q) /\ ~List(q)
    <2>1. stage[q] = "wallet"
      <3>1. pc[q] # "list"
        BY <1>2, FailureIsLapse DEF RunStep, RemoveStale, RemoveFails, ToAdd, AddTarget, AddFails
      <3>2. pc[q] = "remove" => todo[q] = {}
        <4>1. pc'[q] = "list"
          BY <1>2, LeaveDoes
        <4> QED BY <1>2, <4>1, FailureIsLapse
                DEF RunStep, RemoveStale, RemoveFails, ToAdd, AddTarget, AddFails
      <3> QED BY <3>1, <3>2 DEF WillMeet
    <2> QED BY <1>2, <2>1, LeaversMeet
  <1>3. CASE List(q)
    <2> DEFINE k == page[q]
    <2>1. /\ k \in Nat /\ pc[q] = "list" /\ stage'[q] = stage[q]
          /\ current'[q] = ReadBy(q) /\ labels' = labels
      BY <1>1, <1>3, ListDoes DEF TypeOK
    <2>2. CASE stage[q] = "wallet"
      BY <2>1, <2>2 DEF WillMeet
    <2>3. CASE stage[q] = "ready"
      <3>1. f \in current[q] \/ f \notin UpTo(k * PageSize)
        BY <2>1, <2>3 DEF WillMeet
      <3>2. f \in ReadBy(q) \/ f \notin UpTo((k + 1) * PageSize)
        BY <1>1, <2>1, <3>1, NextPage DEF ReadBy
      <3>3. CASE page' = [page EXCEPT ![q] = page[q] + 1] /\ UNCHANGED <<todo, pc>>
        <4>1. page'[q] = k + 1
          BY <1>1, <3>3 DEF TypeOK
        <4>2. (UpTo(page[q] * PageSize))' = UpTo((k + 1) * PageSize)
          BY <2>1, <4>1 DEF UpTo
        <4> QED BY <2>1, <2>3, <3>2, <3>3, <4>2 DEF WillMeet
      <3>4. CASE /\ Len(labels) < (page[q] + 1) * PageSize
                 /\ todo' = [todo EXCEPT ![q] = StaleLabels(q) \cap ReadBy(q)]
                 /\ pc' = [pc EXCEPT ![q] = "remove"]
        <4>1. UpTo((k + 1) * PageSize) = Names
          BY <1>1, <2>1, <3>4, NextPage
        <4>2. f \in StaleLabels(q) \cap ReadBy(q)
          BY <2>3, <3>2, <4>1 DEF StaleLabels
        <4>3. pc'[q] = "remove" /\ f \in todo'[q]
          BY <1>1, <3>4, <4>2 DEF TypeOK
        <4> QED BY <2>1, <2>3, <4>3 DEF WillMeet
      <3> QED BY <1>3, <3>3, <3>4, ListDoes
    <2> QED BY <2>2, <2>3 DEF WillMeet
  <1>4. CASE RemoveStale(q)
    BY <1>4, RemoveDoes DEF WillMeet
  <1>5. CASE ToAdd(q) /\ ~Leave(q)
    BY <1>5 DEF ToAdd, WillMeet
  <1> QED BY <1>2, <1>3, <1>4, <1>5, FailureIsLapse DEF RunStep, AddTarget

\* Labels that appear at the end of the list are not met earlier.
LEMMA AppendedLast ==
    ASSUME IInv, NEW q \in Runs, AddTarget(q), NEW n \in Nat
    PROVE  (UpTo(n))' \subseteq UpTo(n) \cup {Target(q)}
  <1>1. TypeOK
    BY DEF IInv
  <1>2. CASE On(Target(q))
    BY <1>2 DEF AddTarget, UpTo
  <1>3. CASE ~On(Target(q))
    <2>1. labels' = Append(labels, Target(q))
      BY <1>3 DEF AddTarget
    <2>2. /\ Len(labels) \in Nat /\ DOMAIN labels = 1..Len(labels) /\ DOMAIN labels' = 1..(Len(labels) + 1)
          /\ labels'[Len(labels) + 1] = Target(q)
          /\ \A i \in 1..Len(labels) : labels'[i] = labels[i]
      BY <1>1, <2>1 DEF TypeOK
    <2> QED BY <2>2 DEF UpTo
  <1> QED BY <1>2, <1>3

\* The step of another run: it leaves the label to be met, or meets it itself.
LEMMA MeetsElsewhere ==
    ASSUME LabelsApart, IInv, IInv', SameVerdict, NEW q \in Runs, RunStep(q), ~SomeLapse',
           NEW r \in Runs \ {q},
           NEW f \in ReadyLabels \ {ReadyTarget(q)}, f \in Names, f \in Names', WillMeet(r, f)
    PROVE  WillMeet(r, f)' \/ WillMeet(q, f)'
  <1>1. TypeOK /\ Tidy
    BY DEF IInv
  <1>2. /\ stage'[r] = stage[r] /\ pc'[r] = pc[r] /\ page'[r] = page[r]
        /\ current'[r] = current[r] /\ todo'[r] = todo[r]
    BY OthersStand
  <1>3. CASE labels' = labels
    BY <1>2, <1>3 DEF WillMeet, UpTo
  <1>4. CASE RemoveStale(q)
    <2>1. CASE stage[q] = "wallet"
      BY <1>4, <2>1, RemoveDoes DEF WillMeet
    <2>2. CASE stage[q] # "wallet"
      <3>1. PICK l \in StaleLabels(q) : Names' = Names \ {l}
        BY <1>4, RemoveDoes
      <3>2. l \in ReadyLabels \ {ReadyTarget(q)}
        BY <2>2, <3>1 DEF StaleLabels
      <3>3. l = f
        BY <3>2 DEF ReadyLabels, ReadyTarget
      <3> QED BY <3>1, <3>3
    <2> QED BY <2>1, <2>2
  <1>5. CASE AddTarget(q)
    <2>1. CASE stage[q] = "wallet"
      BY <1>5, <2>1, AddDoes, LeaversMeet
    <2>2. CASE stage[q] # "wallet"
      <3>1. f # Target(q)
        BY <1>5, <2>2 DEF Target
      <3>2. page[r] * PageSize \in Nat
        BY <1>1, LabelsAssumption DEF TypeOK, LabelsAssumption
      <3>3. (UpTo(page[r] * PageSize))' \subseteq UpTo(page[r] * PageSize) \cup {Target(q)}
        <4> DEFINE n == page[r] * PageSize
        <4>1. n' = n /\ n \in Nat
          BY <1>2, <3>2
        <4>2. (UpTo(n))' = {labels'[i] : i \in {j \in DOMAIN labels' : j <= n}}
          BY <4>1 DEF UpTo
        <4> HIDE DEF n
        <4>3. {labels'[i] : i \in {j \in DOMAIN labels' : j <= n}} \subseteq UpTo(n) \cup {Target(q)}
          BY <1>5, <4>1, AppendedLast DEF UpTo
        <4> QED BY <4>2, <4>3 DEF n
      <3> QED BY <1>2, <3>1, <3>3 DEF WillMeet
    <2> QED BY <2>1, <2>2
  <1> QED BY <1>3, <1>4, <1>5, NamesStay DEF RunStep

\* The label of the verdict is on the issue when a run ends with it.
LEMMA VerdictKeptKeeps ==
    ASSUME LabelsApart, IInv, SameVerdict, NEW q \in Runs, RunStep(q), ~SomeLapse',
           NEW r \in Runs, VerdictKept(r)
    PROVE  VerdictKept(r)'
  <1> DEFINE P == ReadyTarget(r)
  <1>1. /\ TypeOK /\ Tidy /\ P' = P /\ P \in ReadyLabels \cup {NoLabel}
        /\ P # NoLabel /\ P \in Names => P \in Names'
    BY VerdictNames, TargetKnown DEF IInv
  <1>2. /\ stage[r] = "ready" /\ P \in current[r] => P \in Names
        /\ stage[r] = "done" /\ P # NoLabel => P \in Names
    BY DEF VerdictKept, On, Names
  <1>3. NoLabel \notin Labels
    BY LabelsAssumption DEF LabelsAssumption, Labels, AllWalletLabels, ReadyLabels, NoLabel
  <1> SUFFICES /\ stage'[r] = "ready" /\ P \in current'[r] => P \in Names'
               /\ stage'[r] = "done" /\ P # NoLabel => P \in Names'
    BY <1>1 DEF VerdictKept, On, Names
  <1> HIDE DEF P
  <1>4. CASE r # q
    <2>1. stage'[r] = stage[r] /\ current'[r] = current[r]
      BY <1>4, OthersStand
    <2>2. P \in current[r] => P # NoLabel
      BY <1>1, <1>3 DEF TypeOK
    <2> QED BY <1>1, <1>2, <2>1, <2>2
  <1>5. CASE r = q
    <2>1. CASE List(q)
      <3>1. stage'[q] = stage[q] /\ current'[q] = ReadBy(q) /\ Names' = Names /\ page[q] \in Nat
        BY <1>1, <2>1, ListDoes, NamesStay DEF TypeOK
      <3>2. P \in ReadBy(q) => P \in current[q] \/ P \in Names
        BY <1>1, <3>1, NextPage DEF ReadBy
      <3> QED BY <1>2, <1>5, <3>1, <3>2
    <2>2. CASE RemoveStale(q)
      <3>1. stage'[q] = stage[q] /\ current'[q] = current[q] /\ (P \in current[q] => P # NoLabel)
        BY <1>1, <1>3, <2>2 DEF RemoveStale, TypeOK
      <3> QED BY <1>1, <1>2, <1>5, <3>1
    <2>3. CASE ToAdd(q)
      <3>1. Names' = Names /\ pc[q] = "remove" /\ stage[q] \in {"wallet", "ready"}
        BY <1>1, <2>3, NamesStay DEF ToAdd, Tidy, TypeOK
      <3>2. CASE UNCHANGED <<stage, page, current, todo>>
        BY <1>2, <1>5, <3>1, <3>2
      <3>3. CASE Leave(q)
        <4>1. /\ stage'[q] = (IF stage[q] = "wallet" THEN AfterWallet ELSE "done")
              /\ current'[q] = {} /\ pc'[q] = "list"
          BY <3>3, LeaveDoes
        <4>2. CASE stage[q] = "wallet"
          BY <1>1, <1>5, <4>1, <4>2 DEF AfterWallet
        <4>3. CASE stage[q] = "ready"
          <5>1. P \in current[q] \cup {NoLabel}
            <6>1. Target(q) = P
              BY <1>5, <4>3 DEF Target, P
            <6> QED BY <1>1, <2>3, <3>1, <4>1, <6>1 DEF ToAdd, Goto, TypeOK
          <5> QED BY <1>2, <1>5, <3>1, <4>1, <4>3, <5>1
        <4> QED BY <3>1, <4>2, <4>3
      <3> QED BY <2>3, <3>2, <3>3 DEF ToAdd
    <2>4. CASE AddTarget(q)
      <3>1. /\ stage'[q] = (IF stage[q] = "wallet" THEN AfterWallet ELSE "done") /\ current'[q] = {}
            /\ Names' = Names \cup {Target(q)} /\ stage[q] \in {"wallet", "ready"}
        BY <2>4, AddDoes, LeaveDoes
      <3>2. CASE stage[q] = "wallet"
        BY <1>1, <1>5, <3>1, <3>2 DEF AfterWallet
      <3>3. CASE stage[q] = "ready"
        <4>1. Target(q) = P
          BY <1>5, <3>3 DEF Target, P
        <4> QED BY <1>5, <3>1, <3>3, <4>1
      <3> QED BY <3>1, <3>2, <3>3
    <2> QED BY <2>1, <2>2, <2>3, <2>4, FailureIsLapse DEF RunStep
  <1> QED BY <1>4, <1>5

LEMMA VerdictKeeps == ASSUME LabelsApart, IInv, VerdictInv, [Next]_vars PROVE VerdictInv'
  <1>1. IInv'
    BY IInvKeeps
  <1>2. CASE UNCHANGED vars
    BY <1>2 DEF vars, VerdictInv, SameVerdict, SomeLapse, WillMeet, VerdictKept, ReadyTarget, UpTo, Names, On
  <1>3. ASSUME NEW q \in Runs, RunStep(q) PROVE VerdictInv'
    <2>1. SameVerdict' = SameVerdict
      BY <1>3, SameFindings DEF SameVerdict
    <2> SUFFICES ASSUME SameVerdict, ~SomeLapse', NEW p \in Runs
                 PROVE  /\ \A f \in ReadyLabels \ {ReadyTarget(p)'} : On(f)' => \E r \in Runs : WillMeet(r, f)'
                        /\ VerdictKept(p)'
      BY <2>1 DEF VerdictInv
    <2>2. ~SomeLapse
      BY <1>3, LapseStays
    <2>3. VerdictKept(p) /\ \A f \in ReadyLabels \ {ReadyTarget(p)} : On(f) => \E r \in Runs : WillMeet(r, f)
      BY <2>2 DEF VerdictInv
    <2>4. VerdictKept(p)'
      BY <1>3, <2>3, VerdictKeptKeeps
    <2>5. /\ \A f \in ReadyLabels \ {ReadyTarget(p)} : f \in Names' => f \in Names
          /\ ReadyTarget(p)' = ReadyTarget(p) /\ ReadyTarget(q) = ReadyTarget(p)
      BY <1>3, VerdictNames
    <2>6. ASSUME NEW f \in ReadyLabels \ {ReadyTarget(p)}, f \in Names'
          PROVE  \E r \in Runs : WillMeet(r, f)'
      <3>1. f \in Names /\ f \in ReadyLabels \ {ReadyTarget(q)}
        BY <2>5, <2>6
      <3>2. PICK r \in Runs : WillMeet(r, f)
        BY <2>3, <3>1 DEF On, Names
      <3>3. CASE r = q
        BY <1>1, <1>3, <2>6, <3>1, <3>2, <3>3, MeetsItself
      <3>4. CASE r # q
        BY <1>1, <1>3, <2>6, <3>1, <3>2, <3>4, MeetsElsewhere
      <3> QED BY <3>3, <3>4
    <2> QED BY <2>4, <2>5, <2>6 DEF On, Names
  <1> QED BY <1>2, <1>3 DEF Next

\* Runs that came to the same verdict leave exactly its pass or fail label.
THEOREM VerdictsConverge == ASSUME LabelsApart PROVE Spec => []SameVerdictConverges
  <1>1. Init => IInv /\ VerdictInv
    BY IInvInit, VerdictInit
  <1>2. IInv /\ VerdictInv /\ [Next]_vars => (IInv /\ VerdictInv)'
    BY IInvKeeps, VerdictKeeps
  <1>3. IInv /\ VerdictInv => SameVerdictConverges
    <2> SUFFICES ASSUME IInv, VerdictInv, \A r, s \in Runs : Clean(r) /\ valid[r] = valid[s],
                        NEW q \in Runs
                 PROVE  Names \cap ReadyLabels = {ReadyTarget(q)} \ {NoLabel}
      BY DEF SameVerdictConverges, Names
    <2>1. SameVerdict /\ ~SomeLapse /\ \A r \in Runs : stage[r] = "done"
      BY DEF Clean, SameVerdict, SomeLapse
    <2>2. VerdictKept(q) /\ \A f \in ReadyLabels \ {ReadyTarget(q)} : ~On(f)
      BY <2>1 DEF VerdictInv, WillMeet
    <2>3. ReadyTarget(q) # NoLabel => ReadyTarget(q) \in Names
      BY <2>1, <2>2 DEF VerdictKept, On, Names
    <2>4. ReadyTarget(q) \in ReadyLabels \cup {NoLabel} /\ NoLabel \notin ReadyLabels
      BY TargetKnown DEF ReadyLabels
    <2> QED BY <2>2, <2>3, <2>4 DEF On, Names
  <1> QED BY <1>1, <1>2, <1>3, PTL DEF Spec

\* Concurrent runs of the two label functions that agree leave their own labels
\* and none of another state or verdict, in every order of their calls.
THEOREM AgreeingConverge == ASSUME LabelsApart PROVE Spec => []AgreeingRunsConverge
  <1>1. SameStateConverges /\ SameVerdictConverges => AgreeingRunsConverge
    BY DEF AgreeingRunsConverge
  <1> QED BY <1>1, StatesConverge, VerdictsConverge, PTL
=============================================================================
