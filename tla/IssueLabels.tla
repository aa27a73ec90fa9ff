---------------------------- MODULE IssueLabels ----------------------------
(***************************************************************************)
(* The labels of an issue (applyWalletLabels and applyReadyLabels of        *)
(* src/horizon.ts, called one after the other by run() in src/index.ts).    *)
(* Each run reads the issue's labels page by page, removes the labels of    *)
(* other states that it saw and adds its own unless it saw it.  Every call  *)
(* to GitHub is an await, so runs on one issue interleave between them.     *)
(*                                                                          *)
(* What a run found out about the account is its observation; names of      *)
(* labels are those of the code without the prefix "wallet: ".              *)
(***************************************************************************)
EXTENDS Integers, Sequences, SequencesExt

CONSTANTS
    Runs,           \* workflow runs on this issue
    Observations,   \* what the runs may find out
    WalletLabels,   \* auto_wallet_labels
    PassLabel,      \* pass_label, or NoLabel
    FailLabel,      \* fail_label, or NoLabel
    OtherLabels,    \* labels that are not the action's
    PageSize,       \* PER_PAGE (100 in the code)
    Faults,         \* the GitHub calls that may fail
    MaxInitial      \* bound: labels on the issue at first

NoLabel == ""

AllWalletLabels == {"funded", "unfunded", "trustline-missing", "reserve-low", "horizon-error"}

ReadyLabels == {PassLabel, FailLabel} \ {NoLabel}

Labels == AllWalletLabels \cup ReadyLabels \cup OtherLabels

ASSUME LabelsAssumption ==
    /\ Observations \subseteq {"ok", "notFound", "noTrustline", "lowReserve", "outage"}
    /\ WalletLabels \in BOOLEAN
    /\ OtherLabels \cap (AllWalletLabels \cup ReadyLabels \cup {NoLabel}) = {}
    /\ PageSize \in Nat \ {0}
    /\ Faults \subseteq {"list", "remove", "add"}
    /\ MaxInitial \in Nat

VARIABLES
    labels,     \* the issue's labels, in the order in which GitHub lists them
    seen_by,    \* observation of each run
    valid,      \* result.valid of each run
    stage,      \* "wallet", "ready" or "done": the function a run is in
    pc,         \* "list", "remove" or "add": the await at which it stands
    page,       \* pages it has read
    current,    \* currentNames
    todo,       \* stale labels it has yet to remove
    lapse,      \* history: a call of the run failed
    disturbed   \* history: another run wrote since it read its first page

vars == <<labels, seen_by, valid, stage, pc, page, current, todo, lapse, disturbed>>

On(l) == l \in ToSet(labels)

-----------------------------------------------------------------------------
(* The wallet state.                                                       *)

\* What run() passes to applyWalletLabels: the results built for a 404 and for
\* an outage both say that the account is not funded.
WalletInput(o) ==
    [accountFunded   |-> o \notin {"notFound", "outage"},
     trustlineExists |-> o \in {"ok", "lowReserve"},
     xlmReserveMet   |-> o \in {"ok", "noTrustline"},
     horizonError    |-> FALSE]

DeriveWalletLabel(in) ==
    CASE in.horizonError -> "horizon-error"
      [] ~in.horizonError /\ ~in.accountFunded -> "unfunded"
      [] ~in.horizonError /\ in.accountFunded /\ ~in.trustlineExists -> "trustline-missing"
      [] ~in.horizonError /\ in.accountFunded /\ in.trustlineExists /\ ~in.xlmReserveMet -> "reserve-low"
      [] OTHER -> "funded"

WalletTarget(r) == DeriveWalletLabel(WalletInput(seen_by[r]))
ReadyTarget(r) == IF valid[r] THEN PassLabel ELSE FailLabel

\* targetLabel of the function the run is in.
Target(r) == IF stage[r] = "wallet" THEN WalletTarget(r) ELSE ReadyTarget(r)

\* Mutation of StaleOf: the target label is not spared.
StaleAll(r, names) ==
    IF stage[r] = "wallet" THEN AllWalletLabels \cap names
                           ELSE ReadyLabels \cap names

\* The labels of other states among the names the run has read.
StaleOf(r, names) ==
    IF stage[r] = "wallet" THEN (AllWalletLabels \ {Target(r)}) \cap names
                           ELSE (ReadyLabels \ {Target(r)}) \cap names

-----------------------------------------------------------------------------
\* Without pass_label and fail_label the second function is not called.
AfterWallet == IF ReadyLabels # {} THEN "ready" ELSE "done"

FirstStage == IF WalletLabels THEN "wallet" ELSE AfterWallet

Init ==
    /\ labels \in {s \in SeqOf(Labels, MaxInitial) : IsInjective(s)}
    /\ seen_by \in [Runs -> Observations]
    /\ valid \in [Runs -> BOOLEAN]
    /\ \A r \in Runs : valid[r] => seen_by[r] = "ok"
    /\ stage = [r \in Runs |-> FirstStage]
    /\ pc = [r \in Runs |-> "list"]
    /\ page = [r \in Runs |-> 0]
    /\ current = [r \in Runs |-> {}]
    /\ todo = [r \in Runs |-> {}]
    /\ lapse = [r \in Runs |-> FALSE]
    /\ disturbed = [r \in Runs |-> FALSE]

Goto(r, where) == pc' = [pc EXCEPT ![r] = where]

\* The run's function returns and run() goes on.
Leave(r) ==
    /\ stage' = [stage EXCEPT ![r] = IF @ = "wallet" THEN AfterWallet ELSE "done"]
    /\ Goto(r, "list")
    /\ page' = [page EXCEPT ![r] = 0]
    /\ current' = [current EXCEPT ![r] = {}]
    /\ todo' = [todo EXCEPT ![r] = {}]

\* r changes the issue under the feet of the runs that are at work on it.
Begun(r) == page[r] > 0 \/ pc[r] # "list"
Disturb(r) == disturbed' = [s \in Runs |-> disturbed[s] \/ (s # r /\ Begun(s))]

\* Mutation of PageOf: the first page is read over and over.
PageFirst(k) == ToSet(SubSeq(labels, 1, IF PageSize < Len(labels) THEN PageSize ELSE Len(labels)))

\* listLabelsOnIssue, page k.
PageOf(k) ==
    ToSet(SubSeq(labels, (k - 1) * PageSize + 1,
                 IF k * PageSize < Len(labels) THEN k * PageSize ELSE Len(labels)))

\* After the last page (one with fewer labels than PageSize) the run knows
\* what to remove; what it does next does not wait for anything.
List(r) ==
    /\ stage[r] # "done" /\ pc[r] = "list"
    /\ LET names == current[r] \cup PageOf(page[r] + 1)
           last  == Len(labels) < (page[r] + 1) * PageSize
       IN  /\ current' = [current EXCEPT ![r] = names]
           /\ IF last
              THEN /\ todo' = [todo EXCEPT ![r] = StaleOf(r, names)]
                   /\ Goto(r, "remove")
                   /\ page' = [page EXCEPT ![r] = 0]
              ELSE /\ page' = [page EXCEPT ![r] = @ + 1]
                   /\ UNCHANGED <<todo, pc>>
    /\ disturbed' = [disturbed EXCEPT ![r] = @ /\ page[r] > 0]
    /\ UNCHANGED <<labels, seen_by, valid, stage, lapse>>

ListFails(r) ==
    /\ stage[r] # "done" /\ pc[r] = "list" /\ "list" \in Faults
    /\ lapse' = [lapse EXCEPT ![r] = TRUE]
    /\ Leave(r)
    /\ UNCHANGED <<labels, seen_by, valid, disturbed>>

\* The issue's labels after removeLabel: the others keep their order, and a
\* label that is gone by now gives a 404, which is swallowed.
Without(l) ==
    IF On(l) THEN RemoveAt(labels, CHOOSE i \in DOMAIN labels : labels[i] = l) ELSE labels

RemoveStale(r) ==
    /\ pc[r] = "remove"
    /\ \E l \in todo[r] :
          /\ labels' = Without(l)
          /\ todo' = [todo EXCEPT ![r] = @ \ {l}]
    /\ Disturb(r)
    /\ UNCHANGED <<seen_by, valid, stage, pc, page, current, lapse>>

RemoveFails(r) ==
    /\ pc[r] = "remove" /\ "remove" \in Faults
    /\ \E l \in todo[r] : todo' = [todo EXCEPT ![r] = @ \ {l}]
    /\ lapse' = [lapse EXCEPT ![r] = TRUE]
    /\ UNCHANGED <<labels, seen_by, valid, stage, pc, page, current, disturbed>>

\* Nothing (more) to remove: add the target, unless there is none or it was
\* seen on the issue.
ToAdd(r) ==
    /\ pc[r] = "remove" /\ todo[r] = {}
    /\ IF Target(r) \in current[r] \cup {NoLabel}
       THEN /\ Leave(r)
       ELSE /\ Goto(r, "add")
            /\ UNCHANGED <<stage, page, current, todo>>
    /\ UNCHANGED <<labels, seen_by, valid, lapse, disturbed>>

AddTarget(r) ==
    /\ pc[r] = "add"
    /\ labels' = IF On(Target(r)) THEN labels ELSE Append(labels, Target(r))
    /\ Leave(r)
    /\ Disturb(r)
    /\ UNCHANGED <<seen_by, valid, lapse>>

\* Mutation of AddFails: start over until it works.
AddRetries(r) ==
    /\ pc[r] = "add" /\ "add" \in Faults
    /\ Goto(r, "list")
    /\ UNCHANGED <<labels, seen_by, valid, stage, page, current, todo, lapse, disturbed>>

AddFails(r) ==
    /\ pc[r] = "add" /\ "add" \in Faults
    /\ lapse' = [lapse EXCEPT ![r] = TRUE]
    /\ Leave(r)
    /\ UNCHANGED <<labels, seen_by, valid, disturbed>>

RunStep(r) == \/ List(r) \/ ListFails(r) \/ RemoveStale(r) \/ RemoveFails(r)
              \/ ToAdd(r) \/ AddTarget(r) \/ AddFails(r)

Next == \E r \in Runs : RunStep(r)

Spec == Init /\ [][Next]_vars

\* Each run's event loop goes on: its calls are answered or fail.
FairSpec == Spec /\ \A r \in Runs : WF_vars(RunStep(r))

-----------------------------------------------------------------------------
(* Properties.                                                             *)

TypeOK ==
    /\ labels \in Seq(Labels) /\ IsInjective(labels)
    /\ seen_by \in [Runs -> Observations]
    /\ valid \in [Runs -> BOOLEAN]
    /\ stage \in [Runs -> {"wallet", "ready", "done"}]
    /\ pc \in [Runs -> {"list", "remove", "add"}]
    /\ page \in [Runs -> Nat]
    /\ current \in [Runs -> SUBSET Labels]
    /\ todo \in [Runs -> SUBSET Labels]
    /\ lapse \in [Runs -> BOOLEAN]
    /\ disturbed \in [Runs -> BOOLEAN]

WalletShown == ToSet(labels) \cap AllWalletLabels

Clean(r) == stage[r] = "done" /\ ~lapse[r]

\* Runs that found out the same converge: once each has ended without a failed
\* call, the issue shows their wallet label and none of another state, however
\* their reads and writes interleaved and whatever was there before.
SameStateConverges ==
    (WalletLabels /\ \A r, s \in Runs : Clean(r) /\ seen_by[r] = seen_by[s]) =>
        \A r \in Runs : WalletShown = {WalletTarget(r)}

\* The same for the pass and fail labels (applyReadyLabels).
SameVerdictConverges ==
    (\A r, s \in Runs : Clean(r) /\ valid[r] = valid[s]) =>
        \A r \in Runs :
            ToSet(labels) \cap ReadyLabels = {ReadyTarget(r)} \ {NoLabel}

\* Runs that agree leave exactly their own labels, of both kinds.
AgreeingRunsConverge == SameStateConverges /\ SameVerdictConverges

\* A run that no other run disturbed leaves the wallet label of its state and
\* no other, however many pages of labels the issue has.
AloneIsExact ==
    [][\A r \in Runs : (/\ stage[r] = "wallet" /\ stage'[r] # "wallet"
                        /\ ~lapse'[r] /\ ~disturbed[r]) =>
           ToSet(labels') \cap AllWalletLabels = {WalletTarget(r)}]_vars

\* No run takes away a label that is not one of the action's.
OthersStay == [][\A l \in OtherLabels : On(l) => On(l)']_vars

\* A run that works alone does its whole job and nothing beside it.
EachRunIsExact == AloneIsExact /\ OthersStay

\* Every run ends its labelling, whatever fails and however often the list
\* changes while it is read.
LabellingEnds == \A r \in Runs : <>(stage[r] = "done")

\* "wallet: horizon-error: Non-404 Horizon error; wallet state could not be
\* determined": what the only run on an issue leaves after an outage.
OutageIsShown ==
    (WalletLabels /\ \A r \in Runs : Clean(r) /\ seen_by[r] = "outage") =>
        WalletShown = {"horizon-error"}
=============================================================================
