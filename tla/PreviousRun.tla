---------------------------- MODULE PreviousRun ----------------------------
(***************************************************************************)
(* The validation artifact of one run and what the next run makes of it    *)
(* (src/delta.ts): how it is built, stored, found again through the        *)
(* Actions API or a path, and compared: the delta of the checks and the    *)
(* warning about a changed address.                                        *)
(*                                                                         *)
(* A check is its label and whether it passed; an address is an account,   *)
(* or the hash of one: the last 16 digits are taken to tell accounts apart.*)
(***************************************************************************)
EXTENDS Integers, Sequences, FiniteSets, FiniteSetsExt

CONSTANTS
    Owners,      \* the accounts that are validated
    CheckLists,  \* the checks of a run: sequences of [label, passed]
    ApiFaults,   \* how calls may fail: "runs", "list", "download" (refused), "thrown"
    MaxRuns      \* bound: how many runs there are

ASSUME PreviousAssumption ==
    \A checks \in CheckLists :
        /\ checks \in Seq({checks[i] : i \in DOMAIN checks})
        /\ \A i \in DOMAIN checks : checks[i].passed \in BOOLEAN

VARIABLES
    archive,    \* the completed runs, newest last: their artifact, if any
    present,    \* what the present run validated
    source,     \* where it looks: "api", "path" or "none"
    cursor,     \* the prior run it looks at, newest first
    previous,   \* the artifact it found
    skipped,    \* history: prior runs passed over because a call failed
    progress    \* "idle", "search" or "compared"

previousVars == <<archive, present, source, cursor, previous, skipped, progress>>

Nobody == "nobody"
NoArtifact == [kind |-> "none"]
NoRun == [owner |-> Nobody, checks |-> <<>>, private |-> FALSE]

-----------------------------------------------------------------------------
(* Addresses.                                                              *)

\* hashAddressForPrivacy, privacyMaskAddress.
Plain(owner) == [form |-> "plain", of |-> owner]
Hashed(owner) == [form |-> "hash", of |-> owner]

\* buildValidationArtifact: the address is hashed in privacy mode only.
buildValidationArtifact(run) ==
    [kind |-> "json", address |-> IF run.private THEN Hashed(run.owner) ELSE Plain(run.owner),
     checks |-> run.checks, private |-> run.private, packed |-> "not yet"]

\* What is found under the name after some time: the upload compresses or
\* stores, can be missing, expire, or be edited by hand.
Uploads(run) ==
    {NoArtifact, [kind |-> "expired"], [kind |-> "text"], [kind |-> "other"]}
    \cup {[buildValidationArtifact(run) EXCEPT !.packed = how] : how \in {"stored", "deflated"}}

\* extractFromZip: inflateSync expects a zlib header, which an entry of a zip
\* has not, so a compressed entry counts as not found.
extractFromZip(artifact) ==
    IF artifact.kind = "json" /\ artifact.packed = "deflated" THEN NoArtifact ELSE artifact

\* An object with a list of checks ("other" is JSON without one).
Usable(artifact) == artifact.kind = "json"

-----------------------------------------------------------------------------
(* The comparison.                                                         *)

\* previousByLabel: the last check of a label counts.
Prior(checks, label) ==
    LET at == {i \in DOMAIN checks : checks[i].label = label} IN
    IF at = {} THEN "new" ELSE IF checks[Max(at)].passed THEN "passed" ELSE "failed"

\* computeValidationDelta: the positions of the checks that turned.
NewlyFailed(before, checks) ==
    {i \in DOMAIN checks : ~checks[i].passed /\ Prior(before, checks[i].label) \in {"new", "passed"}}
NewlyPassed(before, checks) ==
    {i \in DOMAIN checks : checks[i].passed /\ Prior(before, checks[i].label) \in {"new", "failed"}}

computeValidationDelta(before, checks) ==
    IF before = <<>> THEN [improved |-> FALSE, regressed |-> FALSE, unchanged |-> 0]
    ELSE [improved |-> NewlyPassed(before, checks) # {},
          regressed |-> NewlyFailed(before, checks) # {},
          unchanged |-> Len(checks) - Cardinality(NewlyPassed(before, checks)) - Cardinality(NewlyFailed(before, checks))]

\* formatDeltaMarkdown: the sentence at its end, "one or more checks that
\* previously passed now fail" or "checks newly passing with no new failures".
formatDeltaMarkdown(d) ==
    IF d.regressed THEN "previously passed, now fail"
    ELSE IF d.improved THEN "newly passing, no new failures" ELSE "none"

\* Mutation of detectAddressChange: a plain previous address is compared with
\* a hash.
detectAddressChangeRaw(run, artifact) ==
    /\ artifact # NoArtifact
    /\ artifact.address # (IF run.private THEN Hashed(run.owner) ELSE Plain(run.owner))

\* detectAddressChange: in privacy mode both sides are hashed; without it a
\* previous hash cannot be compared and counts as a change.
detectAddressChange(run, artifact) ==
    /\ artifact # NoArtifact
    /\ IF run.private THEN artifact.address.of # run.owner
       ELSE artifact.address # Plain(run.owner)

-----------------------------------------------------------------------------
PreviousInit ==
    /\ archive = <<>>
    /\ present = NoRun
    /\ source = "none"
    /\ cursor = 0
    /\ previous = NoArtifact
    /\ skipped = {}
    /\ progress = "idle"

\* A run has its result and looks for the artifact of an earlier one.  Without
\* token, repository or path it does not look at all.
Validate ==
    /\ progress = "idle" /\ Len(archive) < MaxRuns
    /\ \E owner \in Owners, checks \in CheckLists, private \in BOOLEAN :
          present' = [owner |-> owner, checks |-> checks, private |-> private]
    /\ source' \in {"api", "path", "none"}
    /\ cursor' = Len(archive)
    /\ previous' = NoArtifact
    /\ skipped' = {}
    /\ progress' = IF source' = "none" THEN "compared" ELSE "search"
    /\ UNCHANGED archive

Ends(artifact) ==
    /\ previous' = artifact
    /\ progress' = "compared"
    /\ UNCHANGED <<cursor, skipped>>

\* discoverPreviousValidationArtifact: ten runs in all, the newest first.  A
\* listing or a download that is refused passes to the run before; a refused
\* list of runs, any call that throws (the network, an answer that is not
\* JSON), or an artifact that is not JSON ends the search with nothing.
Discover ==
    /\ progress = "search" /\ source = "api"
    /\ LET artifact == extractFromZip(archive[cursor]) IN
       \/ "runs" \in ApiFaults /\ cursor = Len(archive) /\ Ends(NoArtifact)
       \/ "thrown" \in ApiFaults /\ Ends(NoArtifact)
       \/ cursor = 0 /\ Ends(NoArtifact)
       \/ /\ cursor > 0
          /\ \/ Usable(artifact) /\ Ends(artifact)
             \/ artifact.kind = "text" /\ Ends(NoArtifact)
             \/ /\ ~Usable(artifact) /\ artifact.kind # "text"
                /\ cursor' = cursor - 1
                /\ UNCHANGED <<previous, skipped, progress>>
             \/ /\ {"list", "download"} \cap ApiFaults # {}
                /\ cursor' = cursor - 1
                /\ skipped' = skipped \cup {cursor}
                /\ UNCHANGED <<previous, progress>>
    /\ UNCHANGED <<archive, present, source>>

\* loadPreviousValidationArtifact: the file a step before has downloaded, if
\* it is there and can be read.
Load ==
    /\ progress = "search" /\ source = "path"
    /\ \E artifact \in {NoArtifact} \cup {archive[i] : i \in DOMAIN archive} :
          Ends(IF Usable(artifact) THEN artifact ELSE NoArtifact)
    /\ UNCHANGED <<archive, present, source>>

\* The report is written and the artifact uploaded.
Upload ==
    /\ progress = "compared"
    /\ \E artifact \in Uploads(present) : archive' = Append(archive, artifact)
    /\ present' = NoRun /\ source' = "none" /\ cursor' = 0
    /\ previous' = NoArtifact /\ skipped' = {}
    /\ progress' = "idle"

PreviousNext == Validate \/ Discover \/ Load \/ Upload

PreviousSpec == PreviousInit /\ [][PreviousNext]_previousVars

-----------------------------------------------------------------------------
(* Properties.                                                             *)

Compared == progress = "compared" /\ previous # NoArtifact

Distinct(checks) == \A i, j \in DOMAIN checks : checks[i].label = checks[j].label => i = j

Failing(checks) == {checks[i].label : i \in {j \in DOMAIN checks : ~checks[j].passed}}

Labels(checks) == {checks[i].label : i \in DOMAIN checks}
Passing(checks) == {checks[i].label : i \in {j \in DOMAIN checks : checks[j].passed}}

\* As long as no label stands for two checks: the sentence that checks which
\* previously passed now fail comes exactly when a check fails that did not
\* fail before, so it is never missing when it is true; it is true unless a
\* failing check is new (the code counts a new failing check as one that
\* turned, and says of it too that it previously passed); the other sentence
\* is true of both its halves; and a run that equals the previous one changes
\* nothing (computeValidationDelta, formatDeltaMarkdown).
DeltaIsHonest ==
    Compared /\ Distinct(present.checks) /\ Distinct(previous.checks) /\ previous.checks # <<>> =>
        LET d == computeValidationDelta(previous.checks, present.checks)
            turned == Failing(present.checks) \cap Passing(previous.checks)
        IN
        /\ formatDeltaMarkdown(d) = "previously passed, now fail" <=>
               ~(Failing(present.checks) \subseteq Failing(previous.checks))
        /\ turned # {} => formatDeltaMarkdown(d) = "previously passed, now fail"
        /\ formatDeltaMarkdown(d) = "previously passed, now fail" =>
               turned # {} \/ ~(Failing(present.checks) \subseteq Labels(previous.checks))
        /\ formatDeltaMarkdown(d) = "newly passing, no new failures" =>
               /\ Failing(present.checks) \subseteq Failing(previous.checks)
               /\ ~(Passing(present.checks) \subseteq Passing(previous.checks))
        /\ present.checks = previous.checks =>
               formatDeltaMarkdown(d) = "none" /\ d.unchanged = Len(present.checks)

\* The warning comes for another account, whatever the privacy settings of
\* the two runs were, and never for the same account, except when a hash of
\* the earlier run meets a run without privacy mode.
AddressWarning ==
    Compared =>
        /\ previous.address.of # present.owner => detectAddressChange(present, previous)
        /\ detectAddressChange(present, previous) /\ previous.address.of = present.owner =>
               previous.private /\ ~present.private

\* What the API search compares with is a whole artifact of a completed run,
\* and only failed calls and artifacts it cannot use were newer.
NewestIsCompared ==
    Compared /\ source = "api" =>
        /\ previous = archive[cursor] /\ previous.kind = "json"
        /\ \A i \in (cursor + 1)..Len(archive) :
              i \in skipped \/ archive[i].kind # "json" \/ archive[i].packed = "deflated"

\* The comparison is with the newest run that could be read; what it says of
\* turned checks is so but for new failing ones, and the warning about the
\* address comes for another account (discoverPreviousValidationArtifact,
\* computeValidationDelta, formatDeltaMarkdown, detectAddressChange).
ComparisonIsHonest == DeltaIsHonest /\ AddressWarning /\ NewestIsCompared
=============================================================================
