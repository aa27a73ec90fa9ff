--------------------------- MODULE ServicesProofs ---------------------------
(***************************************************************************)
(* The parts around a run, each with an inductive invariant of its own:    *)
(* the account cache, the stellar.toml of an issuer, the delivery of       *)
(* webhooks while their key is replaced, the retries and the rate          *)
(* limiter, the wait for a funded account, the settings and the roster of  *)
(* assignees, the order of an allowlist of plugins.                        *)
(***************************************************************************)
EXTENDS CacheStore, StellarToml, WebhookDelivery, Resilience, FundingWait, Settings, PluginRun,
        FiniteSetTheorems, FunctionTheorems, WellFoundedInduction, TLAPS

-----------------------------------------------------------------------------
(* The account cache.                                                      *)

\* An entry is as young as its time to live allows.
LivesWithin(entry, extra) ==
    entry # NoEntry => \E ttl \in Ttls : entry.expiresAt <= entry.data + ttl + extra

IsEntry(entry) == entry.data \in Int /\ entry.expiresAt \in Int

\* What callers and backend keep was written with one of the times to live; a
\* value that was restored into the store may have got MemoryTtl on top.
CacheInv ==
    /\ clock \in Nat
    /\ IsEntry(store) /\ IsEntry(memory) /\ IsEntry(file) /\ IsEntry(uploaded)
    /\ LivesWithin(store, MemoryTtl)
    /\ LivesWithin(memory, 0) /\ LivesWithin(file, 0) /\ LivesWithin(uploaded, 0)
    /\ StalenessIsBounded

LEMMA NoEntryKept == IsEntry(NoEntry) /\ \A extra : LivesWithin(NoEntry, extra)
  BY DEF IsEntry, NoEntry, LivesWithin

LEMMA NothingServed == ASSUME NEW x, x \in {Missing, 0} PROVE \E ttl \in Ttls : x <= ttl + MemoryTtl
  <1>1. PICK ttl \in Ttls : ttl \in Nat
    BY CacheAssumption DEF CacheAssumption
  <1>2. x <= ttl + MemoryTtl
    BY <1>1, CacheAssumption DEF CacheAssumption, Missing
  <1> QED BY <1>2

\* An entry made now with one of the times to live.
LEMMA WrittenEntry ==
    ASSUME clock \in Nat, NEW ttl \in Ttls
    PROVE  LET e == Entry(clock, ttl) IN
           IsEntry(e) /\ LivesWithin(e, 0) /\ LivesWithin(e, MemoryTtl)
  <1>1. Entry(clock, ttl).data = clock /\ Entry(clock, ttl).expiresAt = clock + ttl
    BY DEF Entry
  <1> QED BY <1>1, CacheAssumption DEF CacheAssumption, IsEntry, LivesWithin

\* Restoring an entry that has not expired.
LEMMA RestoredEntry ==
    ASSUME clock \in Nat, NEW e, IsEntry(e), e # NoEntry, LivesWithin(e, 0), ~Expired(e), Restored(e)
    PROVE  IsEntry(store') /\ LivesWithin(store', MemoryTtl) /\ StalenessIsBounded'
  <1>1. PICK ttl \in Ttls : e.expiresAt <= e.data + ttl + 0
    BY DEF LivesWithin
  <1>2. ttl \in Nat /\ MemoryTtl \in Nat /\ e.data \in Int /\ e.expiresAt \in Int
    BY CacheAssumption DEF CacheAssumption, IsEntry
  <1>3. clock <= e.data + ttl
    BY <1>1, <1>2 DEF Expired
  <1>4. store'.data = e.data /\ store'.expiresAt = clock + MemoryTtl /\ served' = clock - e.data
    BY DEF Restored, Entry, Age
  <1>5. IsEntry(store') /\ LivesWithin(store', MemoryTtl)
    BY <1>2, <1>3, <1>4 DEF IsEntry, LivesWithin
  <1>6. StalenessIsBounded'
    BY <1>2, <1>3, <1>4 DEF StalenessIsBounded
  <1> QED BY <1>5, <1>6

LEMMA CacheKeeps == CacheInv /\ [CacheNext]_cacheVars => CacheInv'
  <1> SUFFICES ASSUME CacheInv, [CacheNext]_cacheVars PROVE CacheInv'
    OBVIOUS
  <1> USE DEF CacheInv
  <1>1. CASE CacheSet
    <2>1. PICK ttl \in Ttls : /\ store' = Entry(clock, ttl)
                              /\ memory' \in {memory, Entry(clock, ttl)}
                              /\ file' \in {file, Entry(clock, ttl)}
      BY <1>1 DEF CacheSet
    <2>2. served' = 0 /\ clock' = clock /\ uploaded' = uploaded
      BY <1>1 DEF CacheSet
    <2>3. StalenessIsBounded'
      BY <2>2, NothingServed DEF StalenessIsBounded
    <2> QED BY <2>1, <2>2, <2>3, WrittenEntry
  <1>2. CASE Uploaded
    BY <1>2 DEF Uploaded, StalenessIsBounded
  <1>3. CASE CacheGet
    <2>1. CASE Expired(store)
      BY <1>3, <2>1, NoEntryKept, NothingServed DEF CacheGet, StalenessIsBounded
    <2>2. CASE ~Expired(store)
      <3>1. /\ served' = clock - store.data /\ store' = store /\ store # NoEntry
            /\ UNCHANGED <<clock, memory, file, uploaded>>
        BY <1>3, <2>2 DEF CacheGet, Age
      <3>2. PICK ttl \in Ttls : store.expiresAt <= store.data + ttl + MemoryTtl
        BY <3>1 DEF LivesWithin
      <3>3. served' <= ttl + MemoryTtl
        BY <2>2, <3>1, <3>2, CacheAssumption DEF CacheAssumption, IsEntry, Expired
      <3> QED BY <3>1, <3>3 DEF StalenessIsBounded
    <2> QED BY <2>1, <2>2
  <1>4. CASE RestoreLocal
    <2>1. clock' = clock /\ uploaded' = uploaded
      BY <1>4 DEF RestoreLocal
    <2>2. CASE memory # NoEntry /\ ~Expired(memory) /\ Restored(memory) /\ UNCHANGED <<memory, file>>
      BY <2>1, <2>2, RestoredEntry
    <2>3. CASE memory' = file /\ file # NoEntry /\ ~Expired(file) /\ Restored(file) /\ UNCHANGED file
      BY <2>1, <2>3, RestoredEntry
    <2>4. CASE memory' = NoEntry /\ served' = Missing /\ UNCHANGED <<store, file>>
      BY <2>1, <2>4, NoEntryKept, NothingServed DEF StalenessIsBounded
    <2>5. CASE file' = NoEntry /\ served' = Missing /\ UNCHANGED <<store, memory>>
      BY <2>1, <2>5, NoEntryKept, NothingServed DEF StalenessIsBounded
    <2>6. CASE UNCHANGED <<store, memory, file, served>>
      BY <2>1, <2>6 DEF StalenessIsBounded
    <2> QED BY <1>4, <2>2, <2>3, <2>4, <2>5, <2>6 DEF RestoreLocal
  <1>5. CASE RestoreUploaded
    <2>1. clock' = clock /\ uploaded' = uploaded
      BY <1>5 DEF RestoreUploaded
    <2>2. CASE served' = Missing /\ UNCHANGED <<store, memory>> /\ file' \in {file, uploaded}
      BY <2>1, <2>2, NothingServed DEF StalenessIsBounded
    <2>3. CASE /\ uploaded # NoEntry /\ ~Expired(uploaded) /\ Restored(uploaded)
               /\ memory' = uploaded /\ file' = uploaded
      BY <2>1, <2>3, RestoredEntry
    <2> QED BY <1>5, <2>2, <2>3 DEF RestoreUploaded
  <1>6. CASE CacheDelete \/ CacheClear
    BY <1>6, NoEntryKept DEF CacheDelete, CacheClear, StalenessIsBounded
  <1>7. CASE CacheRestart
    BY <1>7, NoEntryKept, NothingServed DEF CacheRestart, StalenessIsBounded
  <1>8. CASE CacheTick
    <2>1. clock' \in Nat
      BY <1>8 DEF CacheTick
    <2> QED BY <1>8, <2>1, NothingServed DEF CacheTick, StalenessIsBounded
  <1>9. CASE UNCHANGED cacheVars
    BY <1>9 DEF cacheVars, StalenessIsBounded
  <1> QED BY <1>1, <1>2, <1>3, <1>4, <1>5, <1>6, <1>7, <1>8, <1>9 DEF CacheNext

\* A value of the account cache is never older than the time its writer gave
\* it and the time a restored copy gets on top, through any chain of steps,
\* jobs, uploads and restores, also of an entry written by an earlier job.
THEOREM CacheIsFresh == CacheSpec => []StalenessIsBounded
  <1>1. CacheInit => CacheInv
    BY NoEntryKept, NothingServed DEF CacheInit, CacheInv, StalenessIsBounded
  <1>2. CacheInv => StalenessIsBounded
    BY DEF CacheInv
  <1> QED BY <1>1, <1>2, CacheKeeps, PTL DEF CacheSpec

-----------------------------------------------------------------------------
(* The stellar.toml of an issuer.                                          *)

\* Only bodies of the domain are cached, whoever asked for them.
TomlInv ==
    /\ day \in Int
    /\ cached = NotCached \/ (cached.content \in Bodies /\ cached.fetchedAt \in Int)
    /\ \A r \in Readers : reader[r].from \in Int /\ reader[r].ttl \in Int
    /\ reader = [r \in Readers |-> reader[r]]
    /\ outcome = [r \in Readers |-> outcome[r]]
    /\ PinnedBodyOnly

\* What one reader was told.
Told(o, q) ==
    o.status = "ok" =>
        /\ q.pin # "" => o.content = q.pin
        /\ o.content \in Bodies
        /\ ~o.fetched => q.from - o.cachedAt < q.ttl

LEMMA NotTold == ASSUME NEW q PROVE Told(NoOutcome, q) /\ Told(Failed, q)
                                    /\ Told([NoOutcome EXCEPT !.status = "skipped"], q)
  BY DEF Told, NoOutcome, Failed

LEMMA ClampTypes == ASSUME NEW asked \in ReaderTtls PROVE clampTomlTtl(asked) \in Int
  BY TomlAssumption DEF TomlAssumption, clampTomlTtl

LEMMA TomlKeeps == TomlInv /\ [TomlNext]_tomlVars => TomlInv'
  <1> SUFFICES ASSUME TomlInv, [TomlNext]_tomlVars PROVE TomlInv'
    OBVIOUS
  <1>t. /\ day \in Int
        /\ cached = NotCached \/ (cached.content \in Bodies /\ cached.fetchedAt \in Int)
        /\ \A r \in Readers : reader[r].from \in Int /\ reader[r].ttl \in Int
        /\ reader = [r \in Readers |-> reader[r]]
        /\ outcome = [r \in Readers |-> outcome[r]]
        /\ \A r \in Readers : Told(outcome[r], reader[r])
    BY DEF TomlInv, PinnedBodyOnly, Told
  <1>1. ASSUME NEW q \in Readers, NEW asked, NEW told,
               reader' = [reader EXCEPT ![q] = asked], outcome' = [outcome EXCEPT ![q] = told],
               asked.from \in Int, asked.ttl \in Int, Told(told, asked), day' = day,
               cached' = NotCached \/ (cached'.content \in Bodies /\ cached'.fetchedAt \in Int)
        PROVE  TomlInv'
    <2>1. \A r \in Readers : reader'[r].from \in Int /\ reader'[r].ttl \in Int
      BY <1>t, <1>1
    <2>2. \A r \in Readers : Told(outcome'[r], reader'[r])
      BY <1>t, <1>1
    <2>3. /\ reader' = [r \in Readers |-> reader'[r]]
          /\ outcome' = [r \in Readers |-> outcome'[r]]
      BY <1>t, <1>1
    <2> QED BY <1>t, <1>1, <2>1, <2>2, <2>3 DEF TomlInv, PinnedBodyOnly, Told
  <1>2. ASSUME NEW q \in Readers, Ask(q) PROVE TomlInv'
    <2>1. PICK pin \in Pins, given \in ReaderTtls, enabled \in BOOLEAN :
            LET ttl == clampTomlTtl(given) IN
            /\ reader' = [reader EXCEPT ![q] =
                   [waits |-> enabled /\ pin # "malformed" /\ ~Servable(ttl, pin),
                    pin |-> pin, ttl |-> ttl, from |-> day]]
            /\ outcome' = [outcome EXCEPT ![q] =
                   IF ~enabled THEN [NoOutcome EXCEPT !.status = "skipped"]
                   ELSE IF pin = "malformed" THEN Failed
                   ELSE IF Servable(ttl, pin) THEN Ok(cached.content, cached.fetchedAt, FALSE)
                   ELSE NoOutcome]
            /\ cached' = IF enabled /\ pin # "malformed" /\ ttl > 0 /\ ~Servable(ttl, pin)
                         THEN NotCached ELSE cached
      BY <1>2 DEF Ask
    <2> DEFINE ttl == clampTomlTtl(given)
               asked == [waits |-> enabled /\ pin # "malformed" /\ ~Servable(ttl, pin),
                         pin |-> pin, ttl |-> ttl, from |-> day]
               told == IF ~enabled THEN [NoOutcome EXCEPT !.status = "skipped"]
                       ELSE IF pin = "malformed" THEN Failed
                       ELSE IF Servable(ttl, pin) THEN Ok(cached.content, cached.fetchedAt, FALSE)
                       ELSE NoOutcome
    <2>2. ttl \in Int
      BY ClampTypes
    <2> HIDE DEF ttl
    <2>3. asked.from = day /\ asked.ttl = ttl /\ asked.pin = pin
      OBVIOUS
    <2>4. Told(told, asked)
      <3>1. CASE told = Ok(cached.content, cached.fetchedAt, FALSE) /\ Servable(ttl, pin)
        <4>1. /\ told.content = cached.content /\ told.cachedAt = cached.fetchedAt
          BY <3>1 DEF Ok
        <4>2. cached # NotCached /\ day - cached.fetchedAt \in 0..(ttl - 1) /\ PinOk(cached, pin)
          BY <3>1 DEF Servable, Live
        <4>3. cached.content \in Bodies /\ cached.fetchedAt \in Int
          BY <1>t, <4>2
        <4>4. day - cached.fetchedAt < ttl
          BY <1>t, <2>2, <4>2, <4>3
        <4> HIDE DEF asked, told
        <4> QED BY <2>3, <4>1, <4>2, <4>3, <4>4 DEF Told, PinOk
      <3>2. CASE told \in {NoOutcome, Failed, [NoOutcome EXCEPT !.status = "skipped"]}
        <4> HIDE DEF asked, told
        <4> QED BY <3>2, NotTold
      <3> QED BY <3>1, <3>2
    <2>5. cached' \in {cached, NotCached} /\ day' = day
      BY <1>2, <2>1 DEF Ask
    <2>6. reader' = [reader EXCEPT ![q] = asked] /\ outcome' = [outcome EXCEPT ![q] = told]
      BY <2>1 DEF ttl
    <2>7. asked.from \in Int /\ asked.ttl \in Int
      BY <1>t, <2>2, <2>3
    <2> HIDE DEF asked, told
    <2> QED BY <1>1, <1>t, <2>4, <2>5, <2>6, <2>7
  <1>3. ASSUME NEW q \in Readers, Answer(q) PROVE TomlInv'
    <2> DEFINE asked == [reader[q] EXCEPT !.waits = FALSE]
    <2>1. reader' = [reader EXCEPT ![q] = asked] /\ day' = day
      BY <1>3 DEF Answer
    <2>2. asked.from = reader[q].from /\ asked.ttl = reader[q].ttl /\ asked.pin = reader[q].pin
      BY <1>t
    <2> HIDE DEF asked
    <2>3. CASE site \in Bodies /\ PinOk([content |-> site], reader[q].pin)
      <3> DEFINE told == Ok(site, reader[q].from, TRUE)
      <3>1. outcome' = [outcome EXCEPT ![q] = told]
        BY <1>3, <2>3 DEF Answer
      <3>2. Told(told, asked)
        BY <2>2, <2>3 DEF Told, Ok, PinOk
      <3>3. cached' = cached \/ cached' = [content |-> site, fetchedAt |-> reader[q].from,
                                           expiresAt |-> day + reader[q].ttl]
        BY <1>3, <2>3 DEF Answer
      <3>4. cached' = NotCached \/ (cached'.content \in Bodies /\ cached'.fetchedAt \in Int)
        BY <1>t, <2>3, <3>3
      <3> HIDE DEF told
      <3> QED BY <1>1, <1>t, <2>1, <2>2, <3>1, <3>2, <3>4
    <2>4. CASE ~(site \in Bodies /\ PinOk([content |-> site], reader[q].pin))
      <3>1. outcome' = [outcome EXCEPT ![q] = Failed] /\ cached' = cached
        BY <1>3, <2>4 DEF Answer
      <3> QED BY <1>1, <1>t, <2>1, <2>2, <3>1, NotTold
    <2> QED BY <2>3, <2>4
  <1>4. CASE Publish \/ TomlTick \/ UNCHANGED tomlVars
    <2>1. day' \in Int /\ UNCHANGED <<cached, reader, outcome>>
      BY <1>t, <1>4 DEF Publish, TomlTick, tomlVars
    <2> QED BY <2>1 DEF TomlInv, PinnedBodyOnly
  <1> QED BY <1>2, <1>3, <1>4 DEF TomlNext

\* fetchTomlWithCache gives a reader with a pin the pinned body or a failure,
\* and a copy that is younger than the time this reader asked for, whatever
\* other readers put into the shared entry and however the domain changes.
THEOREM PinHolds == TomlSpec => []PinnedBodyOnly
  <1>1. TomlInit => TomlInv
    <2> SUFFICES ASSUME TomlInit PROVE TomlInv
      OBVIOUS
    <2>1. \A r \in Readers : reader[r] = Idle /\ outcome[r] = NoOutcome
      BY DEF TomlInit
    <2>2. Idle.from = 0 /\ Idle.ttl = 0 /\ NoOutcome.status = "none"
      BY DEF Idle, NoOutcome
    <2>3. /\ reader = [r \in Readers |-> reader[r]]
          /\ outcome = [r \in Readers |-> outcome[r]]
      BY DEF TomlInit
    <2>4. day \in Int /\ cached = NotCached
      BY DEF TomlInit
    <2>5. PinnedBodyOnly
      BY <2>1, <2>2 DEF PinnedBodyOnly
    <2>6. \A r \in Readers : reader[r].from \in Int /\ reader[r].ttl \in Int
      BY <2>1, <2>2
    <2> QED BY <2>3, <2>4, <2>5, <2>6 DEF TomlInv
  <1>2. TomlInv => PinnedBodyOnly
    BY DEF TomlInv
  <1> QED BY <1>1, <1>2, TomlKeeps, PTL DEF TomlSpec

-----------------------------------------------------------------------------
(* Webhooks while their key is replaced.                                   *)

Keys == ToSet(SigningKeys) \ {None}

LEMMA KeysAre == \A i \in 1..Len(SigningKeys) : SigningKeys[i] \in Keys
  BY WebhookAssumption DEF WebhookAssumption, Keys

LEMMA PairSet ==
    ASSUME NEW a, NEW b
    PROVE  ToSet(<<a>>) = {a} /\ ToSet(<<a, b>>) = {a, b}
  <1>1. DOMAIN <<a>> = {1} /\ DOMAIN <<a, b>> = {1, 2}
    OBVIOUS
  <1> QED BY <1>1 DEF ToSet

\* Every receiver accepts a key that the workflow signs with.
KeyShared ==
    \A r \in Receivers : {secret, secretPrevious} \cap (ToSet(accepted[r]) \ {None}) # {}

\* What is under way has the token its mode asks for; its signatures, if it
\* has any, would be accepted by any receiver; and it has none for one of two
\* reasons only.
RequestOK(q) ==
    /\ q.mode = "oidc" => q.bearer
    /\ q.signatures = {} => q.key = None \/ q.bearer
    /\ q.signatures # {} => \A r \in Receivers : q.signatures \cap ToSet(accepted[r]) # {}

RequestsOK == \A w \in WebhookRuns : UnderWay(w) => RequestOK(request[w])

WebhookInv ==
    /\ secret \in Keys
    /\ accepted = [r \in Receivers |-> accepted[r]]
    /\ request = [w \in WebhookRuns |-> request[w]]
    /\ KeyShared
    /\ RequestsOK
    /\ RotationIsSeamless

\* Requests stay acceptable while the receivers' keys only grow.
LEMMA KeysGrow ==
    ASSUME WebhookInv, UNCHANGED request, \A r \in Receivers : ToSet(accepted[r]) \subseteq ToSet(accepted'[r])
    PROVE  RequestsOK'
  BY DEF WebhookInv, RequestsOK, RequestOK, UnderWay

LEMMA WebhookKeeps == WebhookInv /\ [WebhookNext]_webhookVars => WebhookInv'
  <1> SUFFICES ASSUME WebhookInv, [WebhookNext]_webhookVars PROVE WebhookInv'
    OBVIOUS
  <1>t. /\ secret \in Keys /\ RotationIsSeamless /\ KeyShared /\ RequestsOK
        /\ accepted = [r \in Receivers |-> accepted[r]]
        /\ request = [w \in WebhookRuns |-> request[w]]
    BY DEF WebhookInv
  <1>1. ASSUME NEW w \in WebhookRuns, Notify(w) PROVE WebhookInv'
    <2>1. UNCHANGED <<secret, secretPrevious, accepted, refusals>>
      BY <1>1 DEF Notify
    <2>q. RotationIsSeamless'
      BY <1>t, <2>1 DEF RotationIsSeamless
    <2>2. CASE UNCHANGED request
      BY <1>t, <2>1, <2>q, <2>2 DEF WebhookInv, KeyShared, RequestsOK, RequestOK, UnderWay
    <2>3. ASSUME NEW content \in Contents, NEW mode \in {"hmac", "oidc"}, NEW key \in {secret, None}, NEW token \in BOOLEAN,
                 mode = "oidc" => token, request' = [request EXCEPT ![w] = Headers(mode, key, token)]
          PROVE  WebhookInv'
      <3> DEFINE q == Headers(mode, key, token)
                 sigs == buildWebhookSignatureHeaders(key, secretPrevious)
      <3>1. q.mode = mode /\ q.key = key /\ q.bearer = token /\ q.signatures = (IF token THEN {} ELSE sigs)
        BY DEF Headers
      <3>2. key # None => sigs = {secret, secretPrevious} \ {None} /\ secret \in sigs
        BY <1>t, <2>3 DEF buildWebhookSignatureHeaders, Keys
      <3>3. key = None => sigs = {}
        BY DEF buildWebhookSignatureHeaders
      <3>4. key # None => \A r \in Receivers : sigs \cap ToSet(accepted[r]) # {}
        BY <1>t, <3>2 DEF KeyShared
      <3> HIDE DEF q, sigs
      <3>5. RequestOK(q)
        BY <2>3, <3>1, <3>2, <3>3, <3>4 DEF RequestOK
      <3>6. request' = [request EXCEPT ![w] = q]
        BY <2>3 DEF q
      <3>7. \A v \in WebhookRuns : request'[v] = IF v = w THEN q ELSE request[v]
        BY <1>t, <3>6
      <3>8. RequestsOK'
        BY <1>t, <2>1, <3>5, <3>7 DEF RequestsOK, RequestOK, UnderWay
      <3>9. request' = [v \in WebhookRuns |-> request'[v]]
        BY <1>t, <3>6
      <3> QED BY <1>t, <2>1, <2>q, <3>8, <3>9 DEF WebhookInv, KeyShared
    <2> QED BY <1>1, <2>2, <2>3 DEF Notify
  <1>2. ASSUME NEW w \in WebhookRuns, Receive(w) \/ Lose(w) PROVE WebhookInv'
    <2>1. UNCHANGED <<secret, secretPrevious, accepted>> /\ request' = [request EXCEPT ![w] = NoRequest]
          /\ UnderWay(w)
      BY <1>2 DEF Receive, Lose
    <2>2. RotationIsSeamless'
      <3>1. CASE Lose(w)
        BY <1>t, <3>1 DEF Lose, RotationIsSeamless
      <3>2. CASE Receive(w)
        <4> DEFINE q == request[w]
        <4>1. PICK r \in Receivers :
                refusals' = refusals \cup {[reason |-> x, key |-> q.key, bearer |-> q.bearer] : x \in Refused(q, accepted[r])}
          BY <3>2 DEF Receive
        <4>2. RequestOK(q)
          BY <1>t, <2>1 DEF RequestsOK
        <4> HIDE DEF q
        <4>3. ASSUME NEW x \in Refused(q, accepted[r])
              PROVE  x = "NO_SIGNATURE" /\ (q.key = None \/ q.bearer)
          <5> DEFINE checked == verifyWebhookSignatureWithRotation(q.signatures, accepted[r])
          <5>1. q.mode # "oidc"
            BY <4>2, <4>3 DEF Refused, RequestOK
          <5>2. ~checked.valid /\ x = checked.reason
            BY <4>3, <5>1 DEF Refused
          <5>3. CASE q.signatures = {}
            <6>1. checked = [valid |-> FALSE, reason |-> "NO_SIGNATURE"]
              BY <5>3 DEF verifyWebhookSignatureWithRotation
            <6> HIDE DEF checked
            <6>2. x = "NO_SIGNATURE"
              BY <5>2, <6>1
            <6> QED BY <4>2, <5>3, <6>2 DEF RequestOK
          <5>4. CASE q.signatures # {}
            <6>1. q.signatures \cap ToSet(accepted[r]) # {}
              BY <4>2, <5>4 DEF RequestOK
            <6>2. ToSet(<< >>) = {}
              BY DEF ToSet
            <6>3. PICK i : checked = [valid |-> TRUE, matchedKeyIndex |-> i]
              BY <5>4, <6>1, <6>2 DEF verifyWebhookSignatureWithRotation
            <6> HIDE DEF checked
            <6>4. checked.valid
              BY <6>3
            <6> QED BY <5>2, <6>4
          <5> QED BY <5>3, <5>4
        <4>4. ASSUME NEW y \in refusals' PROVE y.reason = "NO_SIGNATURE" /\ (y.key = None \/ y.bearer)
          <5>1. CASE y \in refusals
            BY <1>t, <5>1 DEF RotationIsSeamless
          <5>2. ASSUME NEW x \in Refused(q, accepted[r]), y = [reason |-> x, key |-> q.key, bearer |-> q.bearer]
                PROVE  y.reason = "NO_SIGNATURE" /\ (y.key = None \/ y.bearer)
            <6>1. y.reason = x /\ y.key = q.key /\ y.bearer = q.bearer
              BY <5>2
            <6> QED BY <4>3, <6>1
          <5> QED BY <4>1, <5>1, <5>2
        <4> QED BY <4>4 DEF RotationIsSeamless
      <3> QED BY <1>2, <3>1, <3>2
    <2>3. \A v \in WebhookRuns : request'[v] = IF v = w THEN NoRequest ELSE request[v]
      BY <1>t, <2>1
    <2>4. RequestsOK'
      BY <1>t, <2>1, <2>3 DEF RequestsOK, RequestOK, UnderWay
    <2>5. request' = [v \in WebhookRuns |-> request'[v]]
      BY <1>t, <2>1
    <2> QED BY <1>t, <2>1, <2>2, <2>4, <2>5 DEF WebhookInv, KeyShared
  <1>3. ASSUME NEW q \in Receivers, AcceptNew(q) PROVE WebhookInv'
    <2>1. PICK i \in 2..Len(SigningKeys) :
            /\ accepted[q] = <<SigningKeys[i - 1]>>
            /\ accepted' = [accepted EXCEPT ![q] = <<SigningKeys[i], SigningKeys[i - 1]>>]
      BY <1>3 DEF AcceptNew
    <2>2. ToSet(accepted[q]) \subseteq ToSet(accepted'[q])
      <3>1. accepted'[q] = <<SigningKeys[i], SigningKeys[i - 1]>>
        BY <1>t, <2>1
      <3>2. /\ ToSet(<<SigningKeys[i - 1]>>) = {SigningKeys[i - 1]}
            /\ ToSet(<<SigningKeys[i], SigningKeys[i - 1]>>) = {SigningKeys[i], SigningKeys[i - 1]}
        BY PairSet
      <3> QED BY <2>1, <3>1, <3>2
    <2>3. \A r \in Receivers : ToSet(accepted[r]) \subseteq ToSet(accepted'[r])
      BY <1>t, <2>1, <2>2
    <2>4. UNCHANGED <<secret, secretPrevious, request, refusals>>
      BY <1>3 DEF AcceptNew
    <2>5. RequestsOK'
      BY <2>3, <2>4, KeysGrow
    <2>6. KeyShared'
      BY <1>t, <2>3, <2>4 DEF KeyShared
    <2>7. accepted' = [r \in Receivers |-> accepted'[r]]
      BY <1>t, <2>1
    <2> QED BY <1>t, <2>4, <2>5, <2>6, <2>7 DEF WebhookInv, RotationIsSeamless
  <1>4. ASSUME NEW q \in Receivers, DropOld(q) PROVE WebhookInv'
    <2>1. /\ accepted' = [accepted EXCEPT ![q] = <<secret>>] /\ secretPrevious = None
          /\ UNCHANGED <<secret, secretPrevious, request, refusals>>
          /\ \A w \in WebhookRuns : request[w].signatures # {} => secret \in request[w].signatures
      BY <1>4 DEF DropOld
    <2>2. \A r \in Receivers : ToSet(accepted'[r]) = IF r = q THEN {secret} ELSE ToSet(accepted[r])
      BY <1>t, <2>1, PairSet
    <2>3. RequestsOK'
      BY <1>t, <2>1, <2>2 DEF RequestsOK, RequestOK, UnderWay
    <2>4. KeyShared'
      BY <1>t, <2>1, <2>2 DEF KeyShared, Keys
    <2>5. accepted' = [r \in Receivers |-> accepted'[r]]
      BY <1>t, <2>1
    <2> QED BY <1>t, <2>1, <2>3, <2>4, <2>5 DEF WebhookInv, RotationIsSeamless
  <1>5. CASE SignWithBoth \/ SignWithNew
    <2>1. UNCHANGED <<accepted, request, refusals>> /\ \A r \in Receivers : secret \in ToSet(accepted[r])
      BY <1>5 DEF SignWithBoth, SignWithNew
    <2>2. secret' \in Keys /\ secret \in {secret', secretPrevious'}
      <3>1. CASE SignWithNew
        BY <1>t, <3>1 DEF SignWithNew
      <3>2. CASE SignWithBoth
        <4>1. PICK i \in 2..Len(SigningKeys) :
                secret = SigningKeys[i - 1] /\ secret' = SigningKeys[i] /\ secretPrevious' = SigningKeys[i - 1]
          BY <3>2 DEF SignWithBoth
        <4>2. i \in 1..Len(SigningKeys)
          BY <4>1, WebhookAssumption DEF WebhookAssumption
        <4> QED BY <4>1, <4>2, KeysAre
      <3> QED BY <1>5, <3>1, <3>2
    <2>3. KeyShared'
      BY <1>t, <2>1, <2>2 DEF KeyShared, Keys
    <2>4. RequestsOK'
      BY <2>1, KeysGrow
    <2> QED BY <1>t, <2>1, <2>2, <2>3, <2>4 DEF WebhookInv, RotationIsSeamless
  <1>6. CASE UNCHANGED webhookVars
    BY <1>6, <1>t DEF webhookVars, WebhookInv, KeyShared, RequestsOK, RequestOK, RotationIsSeamless, UnderWay
  <1> QED BY <1>1, <1>2, <1>3, <1>4, <1>5, <1>6 DEF WebhookNext

\* While the webhook secret is replaced in the documented order, a signed
\* request is accepted by every receiver it may reach, however long it is
\* under way, and one of OIDC mode always; an unsigned request of hmac mode,
\* which has no key or carries a token instead, is all that is refused.  For
\* any number of runs, receivers and keys.
THEOREM DeliveriesAccepted == WebhookSpec => []RotationIsSeamless
  <1>1. WebhookInit => WebhookInv
    <2> SUFFICES ASSUME WebhookInit PROVE WebhookInv
      OBVIOUS
    <2>1. SigningKeys[1] \in Keys
      BY KeysAre, WebhookAssumption DEF WebhookAssumption
    <2>2. KeyShared
      <3>1. \A r \in Receivers : ToSet(accepted[r]) = {secret}
        BY PairSet DEF WebhookInit
      <3> QED BY <2>1, <3>1 DEF KeyShared, Keys, WebhookInit
    <2>3. RequestsOK
      BY DEF WebhookInit, RequestsOK, UnderWay
    <2> QED BY <2>1, <2>2, <2>3 DEF WebhookInit, WebhookInv, RotationIsSeamless
  <1>2. WebhookInv => RotationIsSeamless
    BY DEF WebhookInv
  <1> QED BY <1>1, <1>2, WebhookKeeps, PTL DEF WebhookSpec

-----------------------------------------------------------------------------
(* The command-line check and its retries.                                 *)

Verdicts == {"200", "404"}
Statuses == Verdicts \cup {"none", "400", "429", "502", "503", "504"}

CheckRecords ==
    [phase : {"asking", "waiting", "done"}, at : Servers,
     scenario : [primary : Scenarios, secondary : Scenarios],
     configured : BOOLEAN, sameNetwork : BOOLEAN, cross : BOOLEAN,
     attempt : Nat, waited : Int, status : Statuses, retries : Nat, secondaryRetries : Nat,
     used : Servers, failedOver : BOOLEAN]

\* A check that goes on has heard no verdict yet, and asks the second endpoint
\* only where it may.
Undecided(c, heard, asked) ==
    /\ c.status \notin Verdicts /\ heard["primary"] \notin Verdicts
    /\ c.used = "primary" /\ c.failedOver = FALSE
    /\ c.at = "primary" => asked["secondary"] = 0
    /\ c.at = "secondary" => c.sameNetwork \/ c.cross

\* VerdictIsOfItsEndpoint of a check that is done.
Decided(c, heard, asked) ==
    /\ c.status = "200" => heard[c.used] = "200"
    /\ c.status = "404" => heard[c.used] = "404"
    /\ asked["secondary"] > 0 => c.sameNetwork \/ c.cross
    /\ c.failedOver => heard["primary"] \notin Verdicts

\* Each answer used up an attempt.
WithinPolicy(c, asked) ==
    /\ c.waited <= MaxTotalWait
    /\ \A s \in Servers : asked[s] <= MaxRetries + 1
    /\ c.phase = "asking" => c.attempt <= MaxRetries /\ asked[c.at] <= c.attempt
    /\ c.phase = "waiting" => c.attempt < MaxRetries /\ asked[c.at] <= c.attempt + 1

CheckOK(c, heard, asked) ==
    /\ c \in CheckRecords
    /\ WithinPolicy(c, asked)
    /\ c.phase # "done" => Undecided(c, heard, asked)
    /\ c.phase = "done" => Decided(c, heard, asked)

CheckInv ==
    /\ answered \in [Servers -> Nat]
    /\ last \in [Servers -> Statuses]
    /\ \/ check = NotStarted /\ \A s \in Servers : answered[s] = 0 /\ last[s] = "none"
       \/ CheckOK(check, last, answered)

LEMMA PolicyTypes ==
    MaxRetries \in Nat /\ MaxDelay \in Nat /\ MaxTotalWait \in Nat /\ FlakyFailCount \in Nat
  BY ResilienceAssumption DEF ResilienceAssumption

\* The delays are whole numbers.
LEMMA JitterTypes == ASSUME NEW n \in Nat, NEW d \in addJitter(calculateBackoffDelay(n)) PROVE d \in Int
  <1>1. \A a, b \in Int : Min({a, b}) \in Int
    BY DEF Min
  <1>2. InitialDelay * 2 ^ n \in Int
    BY DEF InitialDelay
  <1>3. calculateBackoffDelay(n) \in Int
    BY <1>1, <1>2, PolicyTypes DEF calculateBackoffDelay
  <1> DEFINE b == calculateBackoffDelay(n)
  <1> HIDE DEF b
  <1>4. \A e \in {b - b \div 10, b, b + b \div 10} : e \in Int
    BY <1>3 DEF b
  <1> QED BY <1>1, <1>4, PolicyTypes DEF addJitter, b

\* What a server answers.
LEMMA AnswerTypes ==
    ASSUME NEW scenario \in Scenarios, NEW n \in Nat, NEW status \in Answers(scenario, n)
    PROVE  /\ status \in Statuses \cup {"error"}
           /\ Thrown(status) => status \notin Verdicts
           /\ ~Thrown(status) => status # "error"
  <1>1. Thrown(status) => status \notin Verdicts
    BY DEF Thrown, Verdicts
  <1>2. ~Thrown(status) => status # "error"
    BY DEF Thrown
  <1>3. status \in Statuses \cup {"error"}
    <2>1. scenario \in {"success", "not_found", "rate_limit", "server_error", "bad_gateway", "gateway_timeout",
                        "timeout", "network_error", "always_fail", "live", "flaky_then_success"}
      BY ResilienceAssumption DEF ResilienceAssumption
    <2> QED BY <2>1 DEF Answers, StatusOf, Statuses, Verdicts
  <1> QED BY <1>1, <1>2, <1>3

\* A check that still asks, and what it has heard so far.
Heard(c, heard, asked) ==
    /\ c \in CheckRecords /\ c.phase = "asking" /\ c.used = "primary" /\ c.failedOver = FALSE
    /\ c.status \in Verdicts => heard[c.at] = c.status
    /\ c.at = "primary" /\ c.status \notin Verdicts => heard["primary"] \notin Verdicts
    /\ c.at = "secondary" => heard["primary"] \notin Verdicts
    /\ c.at = "primary" => asked["secondary"] = 0
    /\ c.at = "secondary" => c.sameNetwork \/ c.cross

\* The check d that c becomes is over, or turns to the second endpoint.
OverOrSecond(c, d, heard, asked) ==
    /\ d \in CheckRecords /\ d.waited \in {0, c.waited}
    /\ \/ /\ d.phase = "asking" /\ d.at = "secondary" /\ d.attempt = 0 /\ c.at = "primary"
          /\ Undecided(d, heard, asked)
       \/ d.phase = "done" /\ Decided(d, heard, asked)

\* The calls to one server are over.
LEMMA ConcludedHolds ==
    ASSUME NEW c, NEW heard, NEW asked, Heard(c, heard, asked)
    PROVE  OverOrSecond(c, Concluded(c), heard, asked)
  <1> USE DEF Heard, OverOrSecond
  <1> DEFINE d == Concluded(c)
  <1>1. CASE c.at = "primary" /\ MayFailOver(c)
    <2>1. d = [c EXCEPT !.at = "secondary", !.attempt = 0, !.waited = 0]
      BY <1>1 DEF Concluded
    <2>2. /\ d \in CheckRecords /\ d.waited = 0 /\ d.phase = "asking" /\ d.at = "secondary" /\ d.attempt = 0
          /\ d.status = c.status /\ d.used = c.used /\ d.failedOver = c.failedOver
          /\ d.sameNetwork = c.sameNetwork /\ d.cross = c.cross
      <3> DEFINE e == [c EXCEPT !.at = "secondary"]
                 f == [e EXCEPT !.attempt = 0]
      <3>a. e \in CheckRecords
        BY DEF CheckRecords, Servers
      <3>b. f \in CheckRecords
        <4> HIDE DEF e
        <4> QED BY <3>a DEF CheckRecords
      <3>c. d = [f EXCEPT !.waited = 0]
        BY <2>1
      <3> HIDE DEF e, f
      <3>1. d \in CheckRecords
        BY <3>b, <3>c DEF CheckRecords
      <3>2. d.waited = 0 /\ d.phase = "asking" /\ d.at = "secondary" /\ d.attempt = 0
        BY <2>1 DEF CheckRecords
      <3>3. d.status = c.status /\ d.used = c.used
        BY <2>1 DEF CheckRecords
      <3>4. d.failedOver = c.failedOver
        BY <2>1 DEF CheckRecords
      <3>5. d.sameNetwork = c.sameNetwork
        BY <2>1 DEF CheckRecords
      <3>6. d.cross = c.cross
        BY <2>1 DEF CheckRecords
      <3> QED BY <3>1, <3>2, <3>3, <3>4, <3>5, <3>6
    <2> HIDE DEF d
    <2> QED BY <1>1, <2>2 DEF Undecided, MayFailOver, Verdicts, d
  <1>2. CASE c.at = "secondary" /\ c.status \in Verdicts
    <2>1. d = [c EXCEPT !.phase = "done", !.failedOver = TRUE, !.used = "secondary", !.retries = @ + c.secondaryRetries]
      BY <1>2 DEF Concluded, Verdicts
    <2>2. /\ d \in CheckRecords /\ d.waited = c.waited /\ d.phase = "done" /\ d.used = "secondary"
          /\ d.status = c.status /\ d.sameNetwork = c.sameNetwork /\ d.cross = c.cross
      <3>1. c.retries + c.secondaryRetries \in Nat
        BY DEF CheckRecords
      <3>2. d \in CheckRecords
        BY <2>1, <3>1 DEF CheckRecords, Servers
      <3>3. d.waited = c.waited /\ d.phase = "done" /\ d.used = "secondary" /\ d.status = c.status
        BY <2>1 DEF CheckRecords
      <3>4. d.sameNetwork = c.sameNetwork
        BY <2>1 DEF CheckRecords
      <3>5. d.cross = c.cross
        BY <2>1 DEF CheckRecords
      <3> QED BY <3>2, <3>3, <3>4, <3>5
    <2> HIDE DEF d
    <2> QED BY <1>2, <2>2 DEF Decided, Verdicts, d
  <1>3. CASE ~(c.at = "primary" /\ MayFailOver(c)) /\ ~(c.at = "secondary" /\ c.status \in Verdicts)
    <2>1. d = [c EXCEPT !.phase = "done"]
      BY <1>3 DEF Concluded, Verdicts
    <2>2. /\ d \in CheckRecords /\ d.waited = c.waited /\ d.phase = "done" /\ d.used = c.used /\ d.at = c.at
          /\ d.failedOver = c.failedOver
          /\ d.status = c.status /\ d.sameNetwork = c.sameNetwork /\ d.cross = c.cross
      BY <2>1 DEF CheckRecords, Servers
    <2>3. c.at \in {"primary", "secondary"}
      BY DEF CheckRecords, Servers
    <2> HIDE DEF d
    <2> QED BY <1>3, <2>2, <2>3 DEF Decided, Verdicts, d
  <1> QED BY <1>1, <1>2, <1>3

\* The same of a server given up on.
LEMMA GivenUpHolds ==
    ASSUME NEW c, NEW heard, NEW asked, Heard(c, heard, asked), c.status \notin Verdicts
    PROVE  OverOrSecond(c, GivenUp(c), heard, asked)
  <1> DEFINE d == GivenUp(c)
  <1>1. CASE c.at = "primary"
    BY <1>1, ConcludedHolds DEF GivenUp
  <1>2. CASE c.at # "primary"
    <2>1. d = [c EXCEPT !.phase = "done", !.retries = @ + c.secondaryRetries]
      BY <1>2 DEF GivenUp
    <2>2. c.retries + c.secondaryRetries \in Nat /\ c.at = "secondary"
      BY <1>2 DEF Heard, CheckRecords, Servers
    <2>3. d \in CheckRecords
      BY <2>1, <2>2 DEF Heard, CheckRecords
    <2>4. d.waited = c.waited /\ d.phase = "done" /\ d.used = c.used /\ d.status = c.status
      BY <2>1 DEF Heard, CheckRecords
    <2>5. d.sameNetwork = c.sameNetwork
      BY <2>1 DEF Heard, CheckRecords
    <2>6. d.cross = c.cross
      BY <2>1 DEF Heard, CheckRecords
    <2>7. d.failedOver = c.failedOver
      BY <2>1 DEF Heard, CheckRecords
    <2> HIDE DEF d
    <2>8. Decided(d, heard, asked)
      BY <2>2, <2>4, <2>5, <2>6, <2>7 DEF Heard, Decided, Verdicts
    <2> QED BY <2>3, <2>4, <2>8 DEF OverOrSecond, d
  <1> QED BY <1>1, <1>2

\* What the retry count leaves alone.
LEMMA CountedHolds ==
    ASSUME NEW c \in CheckRecords
    PROVE  LET d == Counted(c) IN
           /\ d \in CheckRecords /\ d.phase = c.phase /\ d.at = c.at /\ d.attempt = c.attempt /\ d.waited = c.waited
           /\ d.status = c.status /\ d.used = c.used /\ d.failedOver = c.failedOver
           /\ d.sameNetwork = c.sameNetwork /\ d.cross = c.cross
  <1> DEFINE d == Counted(c)
  <1>1. c.attempt + 1 \in Nat
    BY DEF CheckRecords
  <1>2. d = [c EXCEPT !.retries = c.attempt + 1] \/ d = [c EXCEPT !.secondaryRetries = c.attempt + 1]
    BY DEF Counted
  <1> HIDE DEF d
  <1>3. d \in CheckRecords
    BY <1>1, <1>2 DEF CheckRecords
  <1>4. d.phase = c.phase /\ d.at = c.at /\ d.attempt = c.attempt /\ d.waited = c.waited /\ d.status = c.status /\ d.used = c.used
    BY <1>2 DEF CheckRecords
  <1>5. d.failedOver = c.failedOver
    BY <1>2 DEF CheckRecords
  <1>6. d.sameNetwork = c.sameNetwork
    BY <1>2 DEF CheckRecords
  <1>7. d.cross = c.cross
    BY <1>2 DEF CheckRecords
  <1> QED BY <1>3, <1>4, <1>5, <1>6, <1>7 DEF d

\* An answer or a rejection.
LEMMA AnswerKeeps == ASSUME CheckInv, AnswerFetch PROVE CheckInv'
  <1> DEFINE at == check.at
             asked == answered'
             new == last'
  <1>1. /\ CheckOK(check, last, answered) /\ check.phase = "asking"
        /\ answered \in [Servers -> Nat] /\ last \in [Servers -> Statuses]
    <2>1. check.phase = "asking"
      BY DEF AnswerFetch
    <2>2. NotStarted.phase # "asking"
      BY DEF NotStarted
    <2> QED BY <2>1, <2>2 DEF CheckInv
  <1>2. at \in Servers /\ check.scenario[at] \in Scenarios /\ answered[at] + 1 \in Nat
    BY <1>1 DEF CheckOK, CheckRecords, Servers
  <1>3. PICK status \in Answers(check.scenario[at], answered[at] + 1) :
          LET heard == IF status = "error" THEN check ELSE [check EXCEPT !.status = status] IN
          /\ new = [last EXCEPT ![at] = IF status = "error" THEN @ ELSE status]
          /\ asked = [answered EXCEPT ![at] = @ + 1]
          /\ IF ~Thrown(status) THEN check' = Concluded(heard)
             ELSE IF check.attempt >= MaxRetries THEN check' = GivenUp(heard)
             ELSE \E delay \in addJitter(calculateBackoffDelay(check.attempt)) :
                    check' = IF OverBudget(check.waited, delay) THEN GivenUp(Counted(heard))
                             ELSE [Counted(heard) EXCEPT !.phase = "waiting", !.waited = @ + delay]
    BY DEF AnswerFetch
  <1>4. /\ status \in Statuses \cup {"error"}
        /\ Thrown(status) => status \notin Verdicts
        /\ ~Thrown(status) => status # "error"
    BY <1>2, <1>3, AnswerTypes
  <1> DEFINE heard == IF status = "error" THEN check ELSE [check EXCEPT !.status = status]
  <1>5. /\ asked \in [Servers -> Nat] /\ new \in [Servers -> Statuses]
        /\ asked[at] = answered[at] + 1 /\ \A s \in Servers : s # at => asked[s] = answered[s] /\ new[s] = last[s]
        /\ new[at] = IF status = "error" THEN last[at] ELSE status
    BY <1>1, <1>2, <1>3, <1>4
  <1>6. /\ heard \in CheckRecords /\ heard.phase = "asking" /\ heard.at = at /\ heard.attempt = check.attempt
        /\ heard.waited = check.waited /\ heard.used = check.used /\ heard.failedOver = check.failedOver
        /\ heard.sameNetwork = check.sameNetwork /\ heard.cross = check.cross
        /\ heard.status = IF status = "error" THEN check.status ELSE status
    <2>0. check \in CheckRecords
      BY <1>1 DEF CheckOK
    <2>1. CASE status = "error"
      BY <1>1, <2>0, <2>1
    <2>2. CASE status # "error"
      <3>1. heard = [check EXCEPT !.status = status] /\ status \in Statuses
        BY <1>4, <2>2
      <3> HIDE DEF heard
      <3>2. heard \in CheckRecords
        BY <2>0, <3>1 DEF CheckRecords
      <3>3. heard.phase = check.phase /\ heard.at = check.at /\ heard.attempt = check.attempt
            /\ heard.waited = check.waited /\ heard.used = check.used /\ heard.status = status
        BY <2>0, <3>1 DEF CheckRecords
      <3>4. heard.failedOver = check.failedOver
        BY <2>0, <3>1 DEF CheckRecords
      <3>5. heard.sameNetwork = check.sameNetwork
        BY <2>0, <3>1 DEF CheckRecords
      <3>6. heard.cross = check.cross
        BY <2>0, <3>1 DEF CheckRecords
      <3> QED BY <1>1, <2>2, <3>2, <3>3, <3>4, <3>5, <3>6
    <2> QED BY <2>1, <2>2
  <1>7. /\ Thrown(status) \/ check' = Concluded(heard)
        /\ Thrown(status) /\ check.attempt >= MaxRetries => check' = GivenUp(heard)
        /\ Thrown(status) /\ ~(check.attempt >= MaxRetries) =>
             \E delay \in addJitter(calculateBackoffDelay(check.attempt)) :
               check' = IF OverBudget(check.waited, delay) THEN GivenUp(Counted(heard))
                        ELSE [Counted(heard) EXCEPT !.phase = "waiting", !.waited = @ + delay]
    BY <1>3
  <1>8. check \in CheckRecords /\ WithinPolicy(check, answered) /\ Undecided(check, last, answered)
    BY <1>1 DEF CheckOK
  <1> HIDE DEF heard, new, asked, at
  <1>9. Heard(heard, new, asked) /\ (Thrown(status) => heard.status \notin Verdicts)
    BY <1>2, <1>4, <1>5, <1>6, <1>8 DEF Heard, Undecided, Servers, Verdicts, at
  <1>10. /\ \A s \in Servers : asked[s] <= MaxRetries + 1
         /\ asked[at] <= check.attempt + 1 /\ check.attempt \in Nat /\ check.attempt <= MaxRetries
    <2>1. check.attempt \in Nat /\ check.attempt <= MaxRetries /\ answered[at] <= check.attempt
      BY <1>1, <1>8 DEF WithinPolicy, CheckRecords, at
    <2>2. asked[at] <= MaxRetries + 1 /\ asked[at] <= check.attempt + 1
      BY <1>1, <1>2, <1>5, <2>1, PolicyTypes
    <2> QED BY <1>2, <1>5, <1>8, <2>1, <2>2 DEF WithinPolicy
  <1>11. check.waited \in Int /\ check.waited <= MaxTotalWait
    BY <1>8 DEF WithinPolicy, CheckRecords
  \* Either the calls to this server are over, or the check waits.
  <1> SUFFICES CheckOK(check', new, asked)
    BY <1>5 DEF CheckInv, new, asked
  <1>12. ASSUME NEW c, OverOrSecond(c, check', new, asked), Heard(c, new, asked), c.waited = check.waited
         PROVE  CheckOK(check', new, asked)
    <2>1. check'.waited <= MaxTotalWait
      BY <1>11, <1>12, PolicyTypes DEF OverOrSecond
    <2>2. CASE check'.phase = "done" /\ Decided(check', new, asked)
      BY <1>10, <1>12, <2>1, <2>2 DEF OverOrSecond, CheckOK, WithinPolicy
    <2>3. CASE /\ check'.phase = "asking" /\ check'.at = "secondary" /\ check'.attempt = 0 /\ c.at = "primary"
               /\ Undecided(check', new, asked)
      <3>1. asked["secondary"] = 0
        BY <1>12, <2>3 DEF Heard
      <3> QED BY <1>10, <1>12, <2>1, <2>3, <3>1, PolicyTypes DEF OverOrSecond, CheckOK, WithinPolicy
    <2> QED BY <1>12, <2>2, <2>3 DEF OverOrSecond
  <1>13. CASE ~Thrown(status)
    BY <1>6, <1>7, <1>9, <1>12, <1>13, ConcludedHolds
  <1>14. CASE Thrown(status) /\ check.attempt >= MaxRetries
    BY <1>6, <1>7, <1>9, <1>12, <1>14, GivenUpHolds
  <1>15. CASE Thrown(status) /\ ~(check.attempt >= MaxRetries)
    <2> DEFINE counted == Counted(heard)
    <2>1. PICK delay \in addJitter(calculateBackoffDelay(check.attempt)) :
            check' = IF OverBudget(check.waited, delay) THEN GivenUp(counted)
                     ELSE [counted EXCEPT !.phase = "waiting", !.waited = @ + delay]
      BY <1>7, <1>15
    <2>2. /\ counted \in CheckRecords /\ counted.phase = heard.phase /\ counted.at = heard.at
          /\ counted.attempt = heard.attempt /\ counted.waited = heard.waited
          /\ counted.status = heard.status /\ counted.used = heard.used /\ counted.failedOver = heard.failedOver
          /\ counted.sameNetwork = heard.sameNetwork /\ counted.cross = heard.cross
      BY <1>6, CountedHolds
    <2> HIDE DEF counted
    <2>3. Heard(counted, new, asked) /\ counted.status \notin Verdicts
      BY <1>9, <1>15, <2>2 DEF Heard
    <2>4. CASE OverBudget(check.waited, delay)
      BY <1>6, <1>12, <2>1, <2>2, <2>3, <2>4, GivenUpHolds
    <2>5. CASE ~OverBudget(check.waited, delay)
      <3>1. delay \in Int /\ check.waited + delay <= MaxTotalWait
        BY <1>10, <1>11, <2>5, JitterTypes, PolicyTypes DEF OverBudget
      <3> DEFINE d == check'
      <3>2. d = [counted EXCEPT !.phase = "waiting", !.waited = @ + delay]
        BY <2>1, <2>5
      <3>3. counted.waited + delay \in Int
        BY <1>6, <1>11, <2>2, <3>1
      <3> HIDE DEF d
      <3>4. d \in CheckRecords
        BY <2>2, <3>2, <3>3 DEF CheckRecords
      <3>5. /\ d.phase = "waiting" /\ d.at = counted.at /\ d.attempt = counted.attempt
            /\ d.waited = counted.waited + delay /\ d.status = counted.status /\ d.used = counted.used
        BY <2>2, <3>2 DEF CheckRecords
      <3>6. d.failedOver = counted.failedOver
        BY <2>2, <3>2 DEF CheckRecords
      <3>7. d.sameNetwork = counted.sameNetwork
        BY <2>2, <3>2 DEF CheckRecords
      <3>8. d.cross = counted.cross
        BY <2>2, <3>2 DEF CheckRecords
      <3>9. WithinPolicy(d, asked)
        BY <1>6, <1>10, <1>15, <2>2, <3>1, <3>5, PolicyTypes DEF WithinPolicy
      <3>10. Undecided(d, new, asked)
        <4>1. new["primary"] \notin Verdicts
          BY <1>2, <1>6, <2>2, <2>3 DEF Heard, Servers
        <4> QED BY <2>3, <3>5, <3>6, <3>7, <3>8, <4>1 DEF Heard, Undecided
      <3> QED BY <3>4, <3>5, <3>9, <3>10 DEF CheckOK, d
    <2> QED BY <2>4, <2>5
  <1> QED BY <1>13, <1>14, <1>15

LEMMA CheckKeeps == CheckInv /\ [ResilienceNext]_resilienceVars => CheckInv'
  <1> SUFFICES ASSUME CheckInv, [ResilienceNext]_resilienceVars PROVE CheckInv'
    OBVIOUS
  <1>1. CASE StartCheck
    <2>1. check = NotStarted /\ \A s \in Servers : answered[s] = 0 /\ last[s] = "none"
      <3>1. check.phase = "idle"
        BY <1>1 DEF StartCheck
      <3>2. ~CheckOK(check, last, answered)
        BY <3>1 DEF CheckOK, CheckRecords
      <3> QED BY <3>2 DEF CheckInv
    <2>2. PICK primary, secondary \in Scenarios, backup, same, cross \in BOOLEAN :
            check' = [phase |-> "asking", at |-> "primary", scenario |-> [primary |-> primary, secondary |-> secondary],
                      configured |-> backup, sameNetwork |-> same, cross |-> cross,
                      attempt |-> 0, waited |-> 0, status |-> "none", retries |-> 0, secondaryRetries |-> 0,
                      used |-> "primary", failedOver |-> FALSE]
      BY <1>1 DEF StartCheck
    <2>3. UNCHANGED <<answered, last>>
      BY <1>1 DEF StartCheck
    <2>4. /\ check'.phase = "asking" /\ check'.at = "primary" /\ check'.status = "none" /\ check'.used = "primary"
          /\ check'.waited = 0 /\ check'.attempt = 0
      BY <2>2
    <2>5. check'.failedOver = FALSE
      BY <2>2
    <2>6. check' \in CheckRecords
      BY <2>2 DEF CheckRecords, Servers, Statuses
    <2>7. Undecided(check', last, answered)
      BY <2>1, <2>4, <2>5 DEF Undecided, Verdicts, Servers
    <2>8. WithinPolicy(check', answered)
      BY <2>1, <2>4, PolicyTypes DEF WithinPolicy, Servers
    <2>9. CheckOK(check', last, answered)
      BY <2>4, <2>6, <2>7, <2>8 DEF CheckOK
    <2> QED BY <2>3, <2>9 DEF CheckInv
  <1>2. CASE AnswerFetch
    BY <1>2, AnswerKeeps
  <1>3. CASE WakeUp
    <2>1. check.phase = "waiting" /\ UNCHANGED <<answered, last>>
          /\ check' = [check EXCEPT !.phase = "asking", !.attempt = @ + 1]
      BY <1>3 DEF WakeUp
    <2>2. CheckOK(check, last, answered)
      <3>1. NotStarted.phase # "waiting"
        BY DEF NotStarted
      <3> QED BY <2>1, <3>1 DEF CheckInv
    <2>3. check \in CheckRecords /\ check.attempt \in Nat /\ check.attempt + 1 \in Nat /\ check.at \in Servers
      BY <2>2 DEF CheckOK, CheckRecords
    <2> DEFINE d == check'
    <2>4. d = [check EXCEPT !.phase = "asking", !.attempt = check.attempt + 1]
      BY <2>1
    <2> HIDE DEF d
    <2>5. d \in CheckRecords
      BY <2>3, <2>4 DEF CheckRecords
    <2>6. /\ d.phase = "asking" /\ d.attempt = check.attempt + 1 /\ d.at = check.at /\ d.waited = check.waited
          /\ d.status = check.status /\ d.used = check.used
      BY <2>3, <2>4 DEF CheckRecords
    <2>7. d.failedOver = check.failedOver
      BY <2>3, <2>4 DEF CheckRecords
    <2>8. d.sameNetwork = check.sameNetwork
      BY <2>3, <2>4 DEF CheckRecords
    <2>9. d.cross = check.cross
      BY <2>3, <2>4 DEF CheckRecords
    <2>10. Undecided(d, last, answered)
      BY <2>1, <2>2, <2>6, <2>7, <2>8, <2>9 DEF CheckOK, Undecided
    <2>11. WithinPolicy(d, answered)
      BY <2>1, <2>2, <2>3, <2>6, PolicyTypes DEF CheckOK, WithinPolicy
    <2>12. CheckOK(d, last, answered)
      BY <2>5, <2>6, <2>10, <2>11 DEF CheckOK
    <2> QED BY <2>1, <2>12 DEF CheckInv, d
  <1>4. CASE LimiterNext \/ UNCHANGED resilienceVars
    <2>1. UNCHANGED <<check, answered, last>>
      BY <1>4 DEF LimiterNext, tryConsume, waitTimeMs, reset, PassSecond, resilienceVars
    <2> QED BY <2>1 DEF CheckInv
  <1> QED BY <1>1, <1>2, <1>3, <1>4 DEF ResilienceNext, CheckNext

\* A check that ends names the endpoint that gave its verdict, asked the second
\* endpoint only on the same network or where that is allowed, and waited no
\* longer than the policy says, whatever the two servers answer and however the
\* jitter falls, for any policy.
THEOREM ChecksAreSound == ResilienceSpec => []CheckIsSound
  <1>1. ResilienceInit => CheckInv
    <2>1. \A s \in Servers : "none" \in Statuses
      BY DEF Statuses
    <2> QED BY <2>1 DEF ResilienceInit, CheckInv
  <1>2. CheckInv => CheckIsSound
    <2> SUFFICES ASSUME CheckInv PROVE CheckIsSound
      OBVIOUS
    <2>1. CASE CheckOK(check, last, answered)
      <3>1. VerdictIsOfItsEndpoint
        BY <2>1 DEF CheckOK, Decided, VerdictIsOfItsEndpoint, Verdicts
      <3>2. WaitsAreBounded
        BY <2>1 DEF CheckOK, WithinPolicy, WaitsAreBounded
      <3> QED BY <3>1, <3>2 DEF CheckIsSound
    <2>2. CASE check = NotStarted
      BY <2>2 DEF NotStarted, CheckIsSound, VerdictIsOfItsEndpoint, WaitsAreBounded
    <2> QED BY <2>1, <2>2 DEF CheckInv
  <1> QED BY <1>1, <1>2, CheckKeeps, PTL DEF ResilienceSpec

-----------------------------------------------------------------------------
(* The token bucket.                                                       *)

\* No token was granted since the last refill but in its own second; from any
\* second up to the last refill, what was granted and what is left in the
\* bucket came from a full bucket and the refills since.
RateInv ==
    /\ second \in Nat /\ second <= MaxSecond
    /\ bucket.tokens \in Nat /\ bucket.tokens <= Capacity
    /\ bucket.at \in Nat /\ bucket.at <= second
    /\ granted \in [0..MaxSecond -> Nat]
    /\ \A t \in bucket.at..MaxSecond : granted[t] = granted[second]
    /\ \A from \in 0..bucket.at :
         granted[second] - GrantedBefore(from) + bucket.tokens <= Capacity + Rate * (bucket.at - from)
    /\ RateIsKept

LEMMA BucketTypes == Capacity \in Nat /\ Rate \in Nat /\ MaxSecond \in Nat
  BY ResilienceAssumption DEF ResilienceAssumption

LEMMA RateGrows == ASSUME NEW a \in Nat, NEW b \in Nat, a <= b PROVE Rate * a \in Nat /\ Rate * b \in Nat /\ Rate * a <= Rate * b
  <1>1. Rate \in Nat /\ b - a \in Nat
    BY BucketTypes
  <1>2. Rate * (b - a) \in Nat
    BY <1>1
  <1>3. Rate * b = Rate * a + Rate * (b - a)
    BY <1>1
  <1> QED BY <1>1, <1>2, <1>3

LEMMA RateAdds == ASSUME NEW a \in Int, NEW b \in Int PROVE Rate * (a + b) = Rate * a + Rate * b
  BY BucketTypes

\* Before a second t that has begun, and for one after the last refill.
LEMMA GrantedTypes ==
    ASSUME RateInv, NEW from \in 0..second
    PROVE  /\ GrantedBefore(from) \in Nat
           /\ from > bucket.at => GrantedBefore(from) = granted[second]
  <1>1. CASE from = 0
    BY <1>1 DEF RateInv, GrantedBefore
  <1>2. CASE from # 0
    <2>1. from - 1 \in 0..MaxSecond /\ from - 1 \in Nat /\ from \in Nat
      BY <1>2, BucketTypes DEF RateInv
    <2>2. GrantedBefore(from) = granted[from - 1]
      BY <1>2 DEF GrantedBefore
    <2>3. from > bucket.at => from - 1 \in bucket.at..MaxSecond
      BY <2>1 DEF RateInv
    <2> QED BY <2>1, <2>2, <2>3 DEF RateInv
  <1> QED BY <1>1, <1>2

\* A refill in the present second.
LEMMA RefillHolds ==
    ASSUME RateInv
    PROVE  LET b == refill(bucket) IN
           /\ b.tokens \in Nat /\ b.tokens <= Capacity /\ b.at = second
           /\ \A from \in 0..second :
                granted[second] - GrantedBefore(from) + b.tokens <= Capacity + Rate * (second - from)
  <1> DEFINE b == refill(bucket)
             sum == bucket.tokens + (second - bucket.at) * Rate
  <1>1. second - bucket.at \in Nat /\ second \in Nat /\ bucket.at \in Nat /\ bucket.tokens \in Nat
    BY DEF RateInv
  <1>2. (second - bucket.at) * Rate = Rate * (second - bucket.at) /\ Rate * (second - bucket.at) \in Nat
    BY <1>1, BucketTypes, RateGrows
  <1>3. sum \in Nat
    BY <1>1, <1>2
  <1>4. b.at = second /\ b.tokens = Min({Capacity, sum})
    BY DEF refill
  <1> HIDE DEF b, sum
  <1>5. b.tokens \in Nat /\ b.tokens <= Capacity /\ b.tokens <= sum
    <2>1. Min({Capacity, sum}) \in {Capacity, sum} /\ Min({Capacity, sum}) <= Capacity /\ Min({Capacity, sum}) <= sum
      BY <1>3, BucketTypes DEF Min
    <2> QED BY <1>3, <1>4, <2>1, BucketTypes
  <1>6. ASSUME NEW from \in 0..second
        PROVE  granted[second] - GrantedBefore(from) + b.tokens <= Capacity + Rate * (second - from)
    <2>1. /\ from \in Nat /\ second - from \in Nat /\ GrantedBefore(from) \in Nat /\ granted[second] \in Nat
          /\ Rate * (second - from) \in Nat
      BY <1>1, GrantedTypes, BucketTypes, RateGrows DEF RateInv
    <2>2. CASE from > bucket.at
      <3>1. GrantedBefore(from) = granted[second]
        BY <2>2, GrantedTypes
      <3> QED BY <1>5, <2>1, <3>1, BucketTypes
    <2>3. CASE from <= bucket.at
      <3>1. bucket.at - from \in Nat /\ Rate * (bucket.at - from) \in Nat
        BY <1>1, <2>1, <2>3, RateGrows
      <3>2. granted[second] - GrantedBefore(from) + bucket.tokens <= Capacity + Rate * (bucket.at - from)
        BY <1>1, <2>1, <2>3 DEF RateInv
      <3>3. Rate * (second - from) = Rate * (second - bucket.at) + Rate * (bucket.at - from)
        BY <1>1, <2>1, BucketTypes
      <3>4. sum = bucket.tokens + Rate * (second - bucket.at)
        BY <1>2 DEF sum
      <3> QED BY <1>1, <1>2, <1>3, <1>5, <2>1, <3>1, <3>2, <3>3, <3>4, BucketTypes
    <2> QED BY <1>1, <2>1, <2>2, <2>3
  <1> QED BY <1>4, <1>5, <1>6 DEF b

LEMMA RateKept == RateInv /\ [ResilienceNext]_resilienceVars => RateInv'
  <1> SUFFICES ASSUME RateInv, [ResilienceNext]_resilienceVars PROVE RateInv'
    OBVIOUS
  <1>t. second \in 0..MaxSecond /\ second \in Nat /\ granted[second] \in Nat
    BY DEF RateInv
  <1>r. /\ refill(bucket).tokens \in Nat /\ refill(bucket).tokens <= Capacity /\ refill(bucket).at = second
        /\ \A from \in 0..second :
             granted[second] - GrantedBefore(from) + refill(bucket).tokens <= Capacity + Rate * (second - from)
    BY RefillHolds
  \* The bucket is refilled and n tokens of it are granted, n possibly 0.
  <1>1. ASSUME NEW n \in Nat, n <= refill(bucket).tokens, UNCHANGED second,
               bucket'.tokens = refill(bucket).tokens - n, bucket'.at = second,
               granted' = [t \in 0..MaxSecond |-> IF t < second THEN granted[t] ELSE granted[t] + n]
        PROVE  RateInv'
    <2>1. granted' \in [0..MaxSecond -> Nat]
      BY <1>1 DEF RateInv
    <2>2. \A t \in second..MaxSecond : granted'[t] = granted[second] + n
      BY <1>1, <1>t DEF RateInv
    <2>3. \A from \in 0..second : GrantedBefore(from)' = GrantedBefore(from)
      <3> SUFFICES ASSUME NEW from \in 0..second PROVE GrantedBefore(from)' = GrantedBefore(from)
        OBVIOUS
      <3>1. CASE from = 0
        BY <3>1 DEF GrantedBefore
      <3>2. CASE from # 0
        <4>1. from - 1 \in 0..MaxSecond /\ from - 1 < second
          BY <1>t, <3>2, BucketTypes
        <4> QED BY <1>1, <3>2, <4>1 DEF GrantedBefore
      <3> QED BY <3>1, <3>2
    <2>4. \A from \in 0..second : granted'[second] - GrantedBefore(from)' + bucket'.tokens <= Capacity + Rate * (second - from)
      <3> SUFFICES ASSUME NEW from \in 0..second
                   PROVE  granted'[second] - GrantedBefore(from)' + bucket'.tokens <= Capacity + Rate * (second - from)
        OBVIOUS
      <3>1. granted'[second] = granted[second] + n /\ GrantedBefore(from)' = GrantedBefore(from) /\ GrantedBefore(from) \in Nat
        BY <1>t, <2>2, <2>3, GrantedTypes
      <3>2. granted[second] - GrantedBefore(from) + refill(bucket).tokens <= Capacity + Rate * (second - from)
        BY <1>r
      <3>3. Rate * (second - from) \in Int
        BY <1>t, BucketTypes
      <3> QED BY <1>1, <1>t, <1>r, <3>1, <3>2, <3>3, BucketTypes
    <2>5. RateIsKept'
      <3> SUFFICES ASSUME NEW from \in 0..second, NEW to \in from..second
                   PROVE  granted'[to] - GrantedBefore(from)' <= Capacity + Rate * (to - from)
        BY <1>1 DEF RateIsKept
      <3>1. CASE to < second
        <4>1. granted'[to] = granted[to]
          BY <1>1, <1>t, <3>1, BucketTypes
        <4> QED BY <2>3, <4>1 DEF RateInv, RateIsKept
      <3>2. CASE to = second
        <4>1. granted'[second] - GrantedBefore(from)' + bucket'.tokens <= Capacity + Rate * (second - from)
          BY <2>4
        <4>2. granted'[second] \in Nat /\ GrantedBefore(from)' \in Nat /\ bucket'.tokens \in Nat /\ Rate * (second - from) \in Int
          BY <1>1, <1>t, <1>r, <2>1, <2>3, GrantedTypes, BucketTypes
        <4> QED BY <3>2, <4>1, <4>2, BucketTypes
      <3> QED BY <1>t, <3>1, <3>2
    <2>6. second' \in Nat /\ second' <= MaxSecond /\ bucket'.at \in Nat /\ bucket'.at <= second'
      BY <1>1, <1>t, BucketTypes
    <2>7. bucket'.tokens \in Nat /\ bucket'.tokens <= Capacity
      BY <1>1, <1>r, BucketTypes
    <2>8. \A t \in bucket'.at..MaxSecond : granted'[t] = granted'[second']
      <3>1. second \in second..MaxSecond
        BY <1>t, BucketTypes
      <3> QED BY <1>1, <2>2, <3>1
    <2>9. \A from \in 0..bucket'.at :
            granted'[second'] - GrantedBefore(from)' + bucket'.tokens <= Capacity + Rate * (bucket'.at - from)
      BY <1>1, <2>4
    <2> QED BY <2>1, <2>5, <2>6, <2>7, <2>8, <2>9 DEF RateInv
  <1>2. CASE tryConsume
    <2>1. PICK n \in 1..Capacity :
            LET b == refill(bucket) IN
            /\ bucket' = IF b.tokens >= n THEN [b EXCEPT !.tokens = @ - n] ELSE b
            /\ granted' = IF b.tokens >= n THEN [t \in 0..MaxSecond |-> IF t < second THEN granted[t] ELSE granted[t] + n]
                          ELSE granted
      BY <1>2 DEF tryConsume
    <2>2. UNCHANGED second
      BY <1>2 DEF tryConsume
    <2>3. CASE refill(bucket).tokens >= n
      <3>1. bucket' = [refill(bucket) EXCEPT !.tokens = @ - n]
        BY <2>1, <2>3
      <3>2. bucket'.tokens = refill(bucket).tokens - n /\ bucket'.at = second
        BY <3>1 DEF refill
      <3>3. granted' = [t \in 0..MaxSecond |-> IF t < second THEN granted[t] ELSE granted[t] + n]
        BY <2>1, <2>3
      <3>4. n \in Nat /\ n <= refill(bucket).tokens
        BY <1>r, <2>3, BucketTypes
      <3> QED BY <1>1, <2>2, <3>2, <3>3, <3>4
    <2>4. CASE ~(refill(bucket).tokens >= n)
      <3>1. bucket' = refill(bucket) /\ granted' = granted
        BY <2>1, <2>4
      <3>2. granted' = [t \in 0..MaxSecond |-> IF t < second THEN granted[t] ELSE granted[t] + 0]
        BY <3>1 DEF RateInv
      <3> QED BY <1>1, <1>r, <2>2, <3>1, <3>2
    <2> QED BY <2>3, <2>4
  <1>3. CASE waitTimeMs
    <2>1. bucket' = refill(bucket) /\ granted' = granted /\ UNCHANGED second
      BY <1>3 DEF waitTimeMs
    <2>2. granted' = [t \in 0..MaxSecond |-> IF t < second THEN granted[t] ELSE granted[t] + 0]
      BY <2>1 DEF RateInv
    <2> QED BY <1>1, <1>r, <2>1, <2>2
  <1>4. CASE reset
    <2>1. bucket'.tokens = Capacity /\ bucket'.at = second /\ granted' = [t \in 0..MaxSecond |-> 0] /\ UNCHANGED second
      BY <1>4 DEF reset
    <2>2. \A from \in 0..second : GrantedBefore(from)' = 0
      <3> SUFFICES ASSUME NEW from \in 0..second PROVE GrantedBefore(from)' = 0
        OBVIOUS
      <3>1. from = 0 \/ from - 1 \in 0..MaxSecond
        BY <1>t, BucketTypes
      <3> QED BY <2>1, <3>1 DEF GrantedBefore
    <2>3. \A from \in 0..second : \A to \in from..second : granted'[to] = 0 /\ Rate * (to - from) \in Nat
      <3> SUFFICES ASSUME NEW from \in 0..second, NEW to \in from..second PROVE granted'[to] = 0 /\ Rate * (to - from) \in Nat
        OBVIOUS
      <3>1. to - from \in Nat /\ to \in 0..MaxSecond
        BY <1>t, BucketTypes
      <3> QED BY <2>1, <3>1, RateGrows
    <2>4. RateIsKept'
      <3> SUFFICES ASSUME NEW from \in 0..second, NEW to \in from..second
                   PROVE  granted'[to] - GrantedBefore(from)' <= Capacity + Rate * (to - from)
        BY <2>1 DEF RateIsKept
      <3> QED BY <2>2, <2>3, BucketTypes
    <2>5. \A from \in 0..second : granted'[second] - GrantedBefore(from)' + bucket'.tokens <= Capacity + Rate * (second - from)
      <3> SUFFICES ASSUME NEW from \in 0..second
                   PROVE  granted'[second] - GrantedBefore(from)' + bucket'.tokens <= Capacity + Rate * (second - from)
        OBVIOUS
      <3>1. second \in from..second
        BY <1>t
      <3> QED BY <2>1, <2>2, <2>3, <3>1, BucketTypes
    <2>6. granted' \in [0..MaxSecond -> Nat] /\ \A t \in second..MaxSecond : granted'[t] = granted'[second]
      BY <1>t, <2>1
    <2> QED BY <1>t, <2>1, <2>4, <2>5, <2>6, BucketTypes DEF RateInv
  <1>5. CASE PassSecond
    <2>1. second < MaxSecond /\ second' = second + 1 /\ UNCHANGED <<bucket, granted>>
      BY <1>5 DEF PassSecond
    <2>2. granted[second + 1] = granted[second] /\ second + 1 \in Nat /\ second + 1 <= MaxSecond
      BY <1>t, <2>1, BucketTypes DEF RateInv
    <2>3. RateIsKept'
      <3> SUFFICES ASSUME NEW from \in 0..second + 1, NEW to \in from..second + 1
                   PROVE  granted[to] - GrantedBefore(from) <= Capacity + Rate * (to - from)
        BY <2>1 DEF RateIsKept, GrantedBefore
      <3>1. CASE to <= second
        BY <1>t, <3>1 DEF RateInv, RateIsKept
      <3>2. CASE to = second + 1 /\ from <= second
        <4>1. granted[second] - GrantedBefore(from) <= Capacity + Rate * (second - from)
          BY <1>t, <3>2 DEF RateInv, RateIsKept
        <4>2. second - from \in Nat /\ to - from \in Nat /\ second - from <= to - from
          BY <1>t, <3>2
        <4>3. Rate * (second - from) <= Rate * (to - from) /\ Rate * (second - from) \in Nat /\ Rate * (to - from) \in Nat
          BY <4>2, RateGrows
        <4>4. GrantedBefore(from) \in Nat
          BY <1>t, <3>2, GrantedTypes
        <4> QED BY <1>t, <2>2, <3>2, <4>1, <4>3, <4>4, BucketTypes
      <3>3. CASE from = second + 1
        <4>1. to = second + 1 /\ GrantedBefore(from) = granted[second] /\ to - from = 0
          BY <1>t, <3>3 DEF GrantedBefore
        <4>2. Rate * 0 = 0
          BY BucketTypes
        <4> QED BY <1>t, <2>2, <4>1, <4>2, BucketTypes
      <3> QED BY <1>t, <3>1, <3>2, <3>3
    <2>4. /\ \A t \in bucket.at..MaxSecond : granted[t] = granted[second + 1]
          /\ \A from \in 0..bucket.at :
               granted[second + 1] - GrantedBefore(from)' + bucket.tokens <= Capacity + Rate * (bucket.at - from)
      BY <2>1, <2>2 DEF RateInv, GrantedBefore
    <2> QED BY <2>1, <2>2, <2>3, <2>4 DEF RateInv
  <1>6. CASE CheckNext \/ UNCHANGED resilienceVars
    <2>1. UNCHANGED <<bucket, second, granted>>
      BY <1>6 DEF CheckNext, StartCheck, AnswerFetch, WakeUp, resilienceVars
    <2> QED BY <2>1 DEF RateInv, RateIsKept, GrantedBefore
  <1> QED BY <1>2, <1>3, <1>4, <1>5, <1>6 DEF ResilienceNext, LimiterNext

\* Over any stretch of time the limiter grants no more than a full bucket and
\* what is refilled meanwhile, for any capacity, rate and sequence of calls.
THEOREM RateHolds == ResilienceSpec => []RateIsKept
  <1>1. ResilienceInit => RateInv
    <2> SUFFICES ASSUME ResilienceInit PROVE RateInv
      OBVIOUS
    <2>1. second = 0 /\ bucket.tokens = Capacity /\ bucket.at = 0 /\ granted = [t \in 0..MaxSecond |-> 0] /\ Rate * 0 = 0
      BY BucketTypes DEF ResilienceInit, NewBucket
    <2>2. GrantedBefore(0) = 0
      BY DEF GrantedBefore
    <2>3. granted[0] = 0
      BY <2>1, BucketTypes
    <2>4. RateIsKept
      <3> SUFFICES ASSUME NEW from \in 0..second, NEW to \in from..second
                   PROVE  granted[to] - GrantedBefore(from) <= Capacity + Rate * (to - from)
        BY DEF RateIsKept
      <3>1. from = 0 /\ to = 0
        BY <2>1
      <3> QED BY <2>1, <2>2, <2>3, <3>1, BucketTypes
    <2>5. \A from \in 0..bucket.at :
            granted[second] - GrantedBefore(from) + bucket.tokens <= Capacity + Rate * (bucket.at - from)
      <3> SUFFICES ASSUME NEW from \in 0..bucket.at
                   PROVE  granted[second] - GrantedBefore(from) + bucket.tokens <= Capacity + Rate * (bucket.at - from)
        OBVIOUS
      <3>1. from = 0
        BY <2>1
      <3> QED BY <2>1, <2>2, <2>3, <3>1, BucketTypes
    <2> QED BY <2>1, <2>3, <2>4, <2>5, BucketTypes DEF RateInv
  <1>2. RateInv => RateIsKept
    BY DEF RateInv
  <1> QED BY <1>1, <1>2, RateKept, PTL DEF ResilienceSpec

-----------------------------------------------------------------------------
(* The layers of the configuration, and whose address a roster gives.      *)

Levels == {"org", "repo"}

\* What the library makes of a workflow and the files beside it.
LayeredValues ==
    mergeConsumerConfig([f \in Fields |-> ResolvedOrDefault(workflow, f)],
                        readTrustbridgeConfigs(workflow.path, files).config,
                        {f \in Fields : workflow.with[f] # ""})

\* What is offered was made of this run's workflow and of the files of now.
SettingsInv ==
    /\ workflow \in Workflows \cup {NoWorkflow}
    /\ files \in [Levels -> FileTexts \cup {Absent}]
    /\ offered.stage # "none" => workflow # NoWorkflow /\ offered.values = LayeredValues

\* A file gives a field exactly when it was accepted and has a value for it.
GivesField(path, conf, f) ==
    /\ path = "inside" /\ conf.state = "text" /\ validateTrustbridgeConfig(conf)
    /\ f \in Mentioned(conf) /\ conf.cells[f].text # ""
    /\ conf.cells[f].text = "null" => conf.cells[f].quoted

LEMMA FileGives ==
    ASSUME NEW path \in {"inside", "outside"}, NEW conf \in FileTexts \cup {Absent}, NEW f
    PROVE  LET config == readTrustbridgeConfig(path, conf).config IN
           /\ f \in DOMAIN config <=> GivesField(path, conf, f)
           /\ f \in DOMAIN config => config[f] = conf.cells[f].text
  <1> USE DEF GivesField
  <1> DEFINE config == readTrustbridgeConfig(path, conf).config
             kept == {g \in Mentioned(conf) : conf.cells[g].text # "" /\ parseYamlValue(conf.cells[g]) # "null"}
             read == path = "inside" /\ conf.state = "text" /\ validateTrustbridgeConfig(conf)
  <1>1. conf.state \in {"absent", "unreadable", "text"}
    <2>1. Absent.state = "absent"
      BY DEF Absent
    <2> QED BY <2>1, SettingsAssumption DEF SettingsAssumption
  <1>2. config = IF read THEN [g \in kept |-> conf.cells[g].text] ELSE <<>>
    BY <1>1 DEF readTrustbridgeConfig
  <1>3. \A g : g \in kept <=> /\ g \in Mentioned(conf) /\ conf.cells[g].text # ""
                              /\ conf.cells[g].text = "null" => conf.cells[g].quoted
    BY DEF parseYamlValue
  <1>4. DOMAIN <<>> = {}
    OBVIOUS
  <1> HIDE DEF config, kept
  <1>5. CASE read
    BY <1>2, <1>3, <1>5 DEF config
  <1>6. CASE ~read
    BY <1>2, <1>4, <1>6 DEF config
  <1> QED BY <1>5, <1>6

LEMMA LayersHold == SettingsInv => LayersAgree
  <1> SUFFICES ASSUME SettingsInv, offered.stage # "none", NEW f \in Fields
               PROVE  LET value == offered.values[f] IN
                      CASE workflow.with[f] # "" -> value = workflow.with[f]
                        [] workflow.with[f] = "" /\ Gives("repo", f) -> value = files["repo"].cells[f].text
                        [] workflow.with[f] = "" /\ ~Gives("repo", f) /\ Gives("org", f) -> value = files["org"].cells[f].text
                        [] OTHER -> value = IF workflow.env[f] # "" THEN workflow.env[f] ELSE ActionDefault[f]
    BY DEF LayersAgree
  <1> DEFINE org == readTrustbridgeConfig("inside", files["org"]).config
             repo == readTrustbridgeConfig(workflow.path, files["repo"]).config
             config == readTrustbridgeConfigs(workflow.path, files).config
             value == offered.values[f]
  <1>1. workflow.path \in {"inside", "outside"} /\ \A level \in Levels : files[level] \in FileTexts \cup {Absent}
    BY SettingsAssumption DEF SettingsInv, SettingsAssumption, Levels
  <1>2. /\ f \in DOMAIN repo <=> Gives("repo", f)
        /\ f \in DOMAIN repo => repo[f] = files["repo"].cells[f].text
    <2>1. files["repo"] \in FileTexts \cup {Absent}
      BY <1>1 DEF Levels
    <2>2. /\ f \in DOMAIN repo <=> GivesField(workflow.path, files["repo"], f)
          /\ f \in DOMAIN repo => repo[f] = files["repo"].cells[f].text
      BY <1>1, <2>1, FileGives
    <2>3. Gives("repo", f) <=> GivesField(workflow.path, files["repo"], f)
      BY <1>1 DEF Gives, Accepted, GivesField
    <2> QED BY <2>2, <2>3
  <1>3. /\ f \in DOMAIN org <=> Gives("org", f)
        /\ f \in DOMAIN org => org[f] = files["org"].cells[f].text
    <2>1. files["org"] \in FileTexts \cup {Absent} /\ "inside" \in {"inside", "outside"}
      BY <1>1 DEF Levels
    <2>2. /\ f \in DOMAIN org <=> GivesField("inside", files["org"], f)
          /\ f \in DOMAIN org => org[f] = files["org"].cells[f].text
      BY <2>1, FileGives
    <2>3. Gives("org", f) <=> GivesField("inside", files["org"], f)
      BY DEF Gives, Accepted, GivesField
    <2> QED BY <2>2, <2>3
  <1>6. config = Overlay(org, repo)
    BY DEF readTrustbridgeConfigs
  <1>7. value = IF f \in DOMAIN config \ {g \in Fields : workflow.with[g] # ""} THEN config[f]
                ELSE ResolvedOrDefault(workflow, f)
    BY DEF SettingsInv, LayeredValues, mergeConsumerConfig
  <1>8. /\ f \in DOMAIN config <=> f \in DOMAIN org \/ f \in DOMAIN repo
        /\ f \in DOMAIN config => config[f] = IF f \in DOMAIN repo THEN repo[f] ELSE org[f]
    <2> HIDE DEF org, repo, config
    <2> QED BY <1>6 DEF Overlay
  <1> HIDE DEF org, repo, config, value
  <1>9. /\ workflow.with[f] # "" => value = workflow.with[f]
        /\ workflow.with[f] = "" /\ Gives("repo", f) => value = files["repo"].cells[f].text
        /\ workflow.with[f] = "" /\ ~Gives("repo", f) /\ Gives("org", f) => value = files["org"].cells[f].text
        /\ workflow.with[f] = "" /\ ~Gives("repo", f) /\ ~Gives("org", f) =>
             value = IF workflow.env[f] # "" THEN workflow.env[f] ELSE ActionDefault[f]
    BY <1>2, <1>3, <1>7, <1>8 DEF ResolvedOrDefault, resolveInput
  <1> QED BY <1>9 DEF value

LEMMA SettingsKept == SettingsInv /\ [SettingsNext]_settingsVars => SettingsInv'
  <1> SUFFICES ASSUME SettingsInv, [SettingsNext]_settingsVars PROVE SettingsInv'
    OBVIOUS
  <1> USE DEF SettingsInv
  <1>1. CASE StartRun
    BY <1>1 DEF StartRun
  <1>2. CASE WriteFile
    BY <1>2 DEF WriteFile, NotOffered, Levels
  <1>3. CASE MergeLayers
    BY <1>3 DEF MergeLayers, LayeredValues
  <1>4. CASE ReadInputs \/ ResolveAliases \/ LookUpAssignee \/ UNCHANGED settingsVars
    <2>1. UNCHANGED <<workflow, files, offered>>
      BY <1>4 DEF ReadInputs, ResolveAliases, LookUpAssignee, settingsVars
    <2> QED BY <2>1 DEF LayeredValues
  <1> QED BY <1>1, <1>2, <1>3, <1>4 DEF SettingsNext

\* Every setting the library offers comes from the nearest source that has one,
\* for any workflow and any files, however often the files are changed.
THEOREM LayersAgreeAlways == SettingsSpec => []LayersAgree
  <1>1. SettingsInit => SettingsInv
    <2>1. NotOffered.stage = "none"
      BY DEF NotOffered
    <2> QED BY <2>1 DEF SettingsInit, SettingsInv, Levels
  <1> QED BY <1>1, LayersHold, SettingsKept, PTL DEF SettingsSpec

LEMMA LeastNat ==
    ASSUME NEW T \in SUBSET Nat, T # {}
    PROVE  \E x \in T : \A y \in T : x <= y
  <1>1. IsWellFoundedOn(OpToRel(<, Nat), Nat)
    BY NatLessThanWellFounded
  <1>2. PICK x \in T : \A y \in T : ~(<<y, x>> \in OpToRel(<, Nat))
    BY <1>1, WFMin
  <1>3. \A y \in T : ~(y < x)
    BY <1>2 DEF OpToRel
  <1>4. ASSUME NEW y \in T PROVE x <= y
    <2>1. x \in Nat /\ y \in Nat /\ ~(y < x)
      BY <1>2, <1>3
    <2> QED BY <2>1
  <1> QED BY <1>4

\* A set of positions that is not empty has a last one.
LEMMA LastPosition ==
    ASSUME NEW n \in Nat, NEW S \in SUBSET (1..n), S # {}
    PROVE  Max(S) \in S /\ \A i \in S : i <= Max(S)
  <1> DEFINE T == {n - i : i \in S}
  <1>1. T \in SUBSET Nat /\ T # {}
    <2>1. \A i \in S : n - i \in Nat
      OBVIOUS
    <2> QED BY <2>1
  <1>2. PICK x \in T : \A y \in T : x <= y
    BY <1>1, LeastNat
  <1>3. PICK i \in S : x = n - i
    BY <1>2
  <1>4. \A j \in S : i >= j
    <2> SUFFICES ASSUME NEW j \in S PROVE i >= j
      OBVIOUS
    <2>1. n - i <= n - j
      BY <1>2, <1>3
    <2> QED BY <2>1
  <1>5. Max(S) \in S /\ \A j \in S : Max(S) >= j
    BY <1>3, <1>4 DEF Max
  <1> QED BY <1>5

LEMMA PositionsOf == ASSUME NEW X, NEW s \in Seq(X) PROVE DOMAIN s = 1..Len(s) /\ Len(s) \in Nat
  OBVIOUS

\* An address found for an assignee is the one of the last entry with that
\* login, in whatever case, and not a denied one, for any roster.
THEOREM AssigneeOwnsAddress == SettingsSpec => []OwnAddress
  <1>1. SettingsInit => OwnAddress
    <2>1. NobodyFound.stage = "none"
      BY DEF NobodyFound
    <2> QED BY <2>1 DEF SettingsInit, OwnAddress
  <1>2. OwnAddress /\ [SettingsNext]_settingsVars => OwnAddress'
    <2> SUFFICES ASSUME OwnAddress, [SettingsNext]_settingsVars PROVE OwnAddress'
      OBVIOUS
    <2>1. CASE LookUpAssignee /\ assignee'.stage = "found"
      <3>1. PICK roster \in Rosters, login \in DOMAIN Lower \cup {""} :
              LET allowed == filterRosterAddressMap(parseAssigneeAddressMap(roster.entries), roster.allow, roster.deny)
                  present == Lower[login] \in DOMAIN allowed /\ allowed[Lower[login]] # "" IN
              assignee' = IF roster.form # "object" THEN [stage |-> roster.form, address |-> ""]
                          ELSE IF login = "" THEN [stage |-> "nobody", address |-> ""]
                          ELSE IF ~present THEN [stage |-> "unlisted", address |-> ""]
                          ELSE [stage |-> "found", address |-> allowed[Lower[login]], login |-> login, roster |-> roster]
        BY <2>1 DEF LookUpAssignee
      <3> DEFINE entries == roster.entries
                 key == Lower[login]
                 map == parseAssigneeAddressMap(entries)
                 allowed == filterRosterAddressMap(map, roster.allow, roster.deny)
                 mine == {i \in DOMAIN entries : Lower[entries[i].login] = key}
      <3>2. roster.form \in {"object", "not found", "invalid"} /\ entries \in Seq(ToSet(entries))
        BY SettingsAssumption DEF SettingsAssumption
      <3>3. /\ key \in DOMAIN allowed
            /\ assignee' = [stage |-> "found", address |-> allowed[key], login |-> login, roster |-> roster]
        <4> HIDE DEF allowed
        <4> QED BY <2>1, <3>1, <3>2 DEF allowed
      <3>4. key \in DOMAIN map /\ allowed[key] = map[key] /\ map[key] \notin roster.deny
        <4> HIDE DEF map
        <4> QED BY <3>3 DEF filterRosterAddressMap
      <3>5. key \in {Lower[e.login] : e \in ToSet(entries)} /\ map[key] = entries[Max(mine)].address
        BY <3>4 DEF parseAssigneeAddressMap
      <3>6. mine # {} /\ Len(entries) \in Nat /\ mine \in SUBSET (1..Len(entries))
        <4>1. entries \in Seq(ToSet(entries)) /\ DOMAIN entries = 1..Len(entries) /\ Len(entries) \in Nat
          BY <3>2, PositionsOf
        <4>2. PICK e \in ToSet(entries) : key = Lower[e.login]
          BY <3>5
        <4>3. PICK i \in DOMAIN entries : entries[i] = e
          BY <4>2 DEF ToSet
        <4>4. i \in mine
          BY <4>2, <4>3
        <4> QED BY <4>1, <4>4
      <3>7. Max(mine) \in mine /\ \A i \in mine : i <= Max(mine)
        <4> HIDE DEF mine
        <4> QED BY <3>6, LastPosition
      <3>8. /\ assignee'.roster = roster /\ assignee'.login = login /\ assignee'.address = entries[Max(mine)].address
            /\ assignee'.address \notin roster.deny
        BY <3>3, <3>4, <3>5
      <3> QED BY <3>7, <3>8 DEF OwnAddress
    <2>2. CASE LookUpAssignee /\ assignee'.stage # "found"
      BY <2>2 DEF OwnAddress
    <2>3. CASE UNCHANGED assignee
      BY <2>3 DEF OwnAddress
    <2>4. LookUpAssignee \/ UNCHANGED assignee
      BY DEF SettingsNext, StartRun, WriteFile, ReadInputs, MergeLayers, ResolveAliases, settingsVars
    <2> QED BY <2>1, <2>2, <2>3, <2>4
  <1> QED BY <1>1, <1>2, PTL DEF SettingsSpec

-----------------------------------------------------------------------------
(* The wait for a funded account: a lookup begins no later than the present *)
(* moment, and a sleep never reaches past the deadline.                    *)

WaitTypes ==
    /\ waitOptions \in WaitOptions \cup {NoWait}
    /\ sinceStart \in Nat /\ lookupFrom \in Nat /\ wakeAt \in Nat /\ fundedAt \in Nat
    /\ aborted \in BOOLEAN

\* A lookup begins in the past, and by the deadline.
LookupInTime ==
    /\ waiting = "start" => lookupFrom = 0 /\ sinceStart = 0 /\ ~waitOptions.wait
    /\ waiting = "asking" => lookupFrom <= sinceStart
    /\ waitOptions.wait => lookupFrom <= waitOptions.timeout

\* Only a waiting run sleeps, to the deadline at most.
SleepInTime == waiting = "sleeping" => waitOptions.wait /\ wakeAt <= waitOptions.timeout

WaitInv == WaitTypes /\ LookupInTime /\ SleepInTime /\ FundingIsNotMissed

LEMMA NoWaitIs == NoWait.wait = FALSE /\ NoWait.timeout = 0 /\ NoWait.interval = 1
BY DEF NoWait

LEMMA OptionTypes == ASSUME WaitTypes
    PROVE  /\ waitOptions.wait \in BOOLEAN
           /\ waitOptions.timeout \in Nat
           /\ waitOptions.interval \in Nat
  <1>1. CASE waitOptions \in WaitOptions
    <2>1. /\ waitOptions.wait \in BOOLEAN /\ waitOptions.interval \in Nat
          /\ {waitOptions.timeout, waitOptions.maxRetries} \subseteq Nat
      BY <1>1, FundingAssumption
    <2> QED BY <2>1
  <1>2. CASE waitOptions = NoWait
    <2>1. waitOptions.wait = FALSE /\ waitOptions.timeout = 0 /\ waitOptions.interval = 1
      BY <1>2, NoWaitIs
    <2>2. waitOptions.wait \in BOOLEAN
      BY <2>1, Zenon
    <2>3. waitOptions.timeout \in Nat /\ waitOptions.interval \in Nat
      BY <2>1, SMT
    <2> QED BY <2>2, <2>3
  <1> QED BY <1>1, <1>2 DEF WaitTypes

\* What a 404 at the moment elapsed of a lookup comes to.
LEMMA NotThereKeeps == ASSUME WaitInv, waiting = "asking", NEW elapsed \in Nat,
        elapsed >= sinceStart, fundedAt > lookupFrom, NotThere(elapsed),
        sinceStart' = elapsed, UNCHANGED <<waitOptions, fundedAt, lookupFrom, aborted>>
    PROVE WaitInv'
  <1>1. waitOptions.wait \in BOOLEAN /\ waitOptions.timeout \in Nat /\ waitOptions.interval \in Nat
    BY OptionTypes DEF WaitInv
  <1>2. CASE waitOptions.wait /\ elapsed < waitOptions.timeout
    <2>1. waiting' = "sleeping" /\ wakeAt' = elapsed + Nap(elapsed)
      BY <1>2 DEF NotThere
    <2>2. wakeAt' \in Nat /\ wakeAt' <= waitOptions.timeout
      BY <1>1, <1>2, <2>1 DEF Nap
    <2> QED BY <1>1, <1>2, <2>1, <2>2 DEF WaitInv, WaitTypes, LookupInTime, SleepInTime, FundingIsNotMissed
  <1>3. CASE ~(waitOptions.wait /\ elapsed < waitOptions.timeout)
    <2>1. waiting' = (IF aborted THEN "cancelled" ELSE "unfunded") /\ wakeAt' = wakeAt
      BY <1>3 DEF NotThere
    <2> QED BY <1>1, <1>3, <2>1 DEF WaitInv, WaitTypes, LookupInTime, SleepInTime, FundingIsNotMissed
  <1> QED BY <1>2, <1>3

\* A lookup that ends with anything else but the verdict "not funded", or goes on.
LEMMA OtherKeeps == ASSUME WaitInv, waiting = "asking", sinceStart' \in Nat, sinceStart' >= sinceStart,
        waiting' \in {"asking", "account", "error", "cancelled"},
        UNCHANGED <<waitOptions, fundedAt, lookupFrom, wakeAt, aborted>>
    PROVE WaitInv'
BY OptionTypes DEF WaitInv, WaitTypes, LookupInTime, SleepInTime, FundingIsNotMissed

LEMMA WaitInit == FundingInit => WaitInv
  <1> SUFFICES ASSUME FundingInit PROVE WaitInv
    OBVIOUS
  <1>1. ~waitOptions.wait
    BY NoWaitIs DEF FundingInit
  <1> QED BY <1>1 DEF FundingInit, WaitInv, WaitTypes, LookupInTime, SleepInTime, FundingIsNotMissed

LEMMA WaitStep == WaitInv /\ [FundingNext]_fundingVars => WaitInv'
  <1> SUFFICES ASSUME WaitInv, [FundingNext]_fundingVars PROVE WaitInv'
    OBVIOUS
  <1>t. /\ waitOptions.wait \in BOOLEAN /\ waitOptions.timeout \in Nat
        /\ WaitTypes
    BY OptionTypes DEF WaitInv
  <1>1. CASE UNCHANGED fundingVars
    BY <1>1 DEF fundingVars, WaitInv, WaitTypes, LookupInTime, SleepInTime, FundingIsNotMissed
  <1>2. CASE StartLookup
    <2>1. waitOptions' \in WaitOptions /\ fundedAt' \in Nat
      BY <1>2, FundingAssumption DEF StartLookup
    <2>2. waitOptions'.timeout \in Nat
      BY <2>1, FundingAssumption
    <2> QED BY <1>2, <1>t, <2>1, <2>2
            DEF StartLookup, WaitInv, WaitTypes, LookupInTime, SleepInTime, FundingIsNotMissed
  <1>3. CASE Request
    <2>1. PICK d \in 0..LongestRequest :
            /\ sinceStart' = sinceStart + d
            /\ \/ fundedAt <= sinceStart + d /\ waiting' = "account" /\ UNCHANGED wakeAt
               \/ fundedAt > sinceStart /\ NotThere(sinceStart + d)
               \/ waiting' = "error" /\ UNCHANGED wakeAt
               \/ tries < LookupRetries /\ UNCHANGED <<waiting, wakeAt>>
      BY <1>3 DEF Request
    <2>2. waiting = "asking" /\ UNCHANGED <<waitOptions, fundedAt, lookupFrom, aborted>>
      BY <1>3 DEF Request
    <2>3. /\ sinceStart + d \in Nat /\ sinceStart + d >= sinceStart
          /\ fundedAt > sinceStart => fundedAt > lookupFrom
      BY <1>t, <2>2, FundingAssumption DEF WaitInv, WaitTypes, LookupInTime
    <2>4. CASE fundedAt > sinceStart /\ NotThere(sinceStart + d)
      BY <2>1, <2>2, <2>3, <2>4, NotThereKeeps
    <2>5. CASE waiting' \in {"asking", "account", "error"} /\ UNCHANGED wakeAt
      BY <2>1, <2>2, <2>3, <2>5, OtherKeeps
    <2> QED BY <2>1, <2>2, <2>4, <2>5
  <1>4. CASE LateRequest
    <2>1. waiting = "asking" /\ UNCHANGED <<waitOptions, fundedAt, sinceStart, lookupFrom, aborted>>
      BY <1>4 DEF LateRequest
    <2>2. /\ sinceStart \in Nat /\ sinceStart >= sinceStart
          /\ fundedAt > sinceStart => fundedAt > lookupFrom
      BY <1>t, <2>1 DEF WaitInv, WaitTypes, LookupInTime
    <2>3. CASE fundedAt > sinceStart /\ NotThere(sinceStart)
      BY <2>1, <2>2, <2>3, NotThereKeeps
    <2>4. CASE waiting' \in {"account", "cancelled"} /\ UNCHANGED wakeAt
      BY <2>1, <2>2, <2>4, OtherKeeps
    <2> QED BY <1>4, <2>3, <2>4 DEF LateRequest
  <1>5. CASE PollNext
    BY <1>5, <1>t DEF PollNext, WaitInv, WaitTypes, LookupInTime, SleepInTime, FundingIsNotMissed
  <1>6. CASE StopPolling
    BY <1>6, <1>t DEF StopPolling, WaitInv, WaitTypes, LookupInTime, SleepInTime, FundingIsNotMissed
  <1>7. CASE CancelWait
    <2>1. sinceStart' \in Nat /\ sinceStart' >= sinceStart
      BY <1>7, <1>t, FundingAssumption DEF CancelWait, WaitTypes
    <2> QED BY <1>7, <1>t, <2>1 DEF CancelWait, WaitInv, WaitTypes, LookupInTime, SleepInTime, FundingIsNotMissed
  <1> QED BY <1>1, <1>2, <1>3, <1>4, <1>5, <1>6, <1>7 DEF FundingNext

\* waitForFundedAccount (src/horizon.ts): "not funded" is the verdict of a
\* lookup that began while the account was not funded, is given at the
\* deadline by a waiting run, and is never given to a cancelled job.
THEOREM FundingHolds == FundingSpec => []FundingIsNotMissed
  <1>1. WaitInv => FundingIsNotMissed
    BY DEF WaitInv
  <1> QED BY WaitInit, WaitStep, <1>1, PTL DEF FundingSpec

-----------------------------------------------------------------------------
(* The order of an allowlist. What a list has of a rank does not change     *)
(* when it is listed otherwise, and the rank at a place of the sorted list   *)
(* is a matter of these numbers.                                            *)

Under(list, r) == {j \in DOMAIN list : list[j].rank < r}
UpToRank(list, r) == {j \in DOMAIN list : list[j].rank <= r}

\* Two lists with the same modules, each as often.
SameRanks(l, m) ==
    /\ DOMAIN l = DOMAIN m
    /\ \A r \in Nat : /\ Cardinality(Under(l, r)) = Cardinality(Under(m, r))
                      /\ Cardinality(UpToRank(l, r)) = Cardinality(UpToRank(m, r))

LEMMA PlacesFinite == ASSUME NEW n \in Nat, NEW T \in SUBSET (1..n)
    PROVE IsFiniteSet(T) /\ Cardinality(T) \in 0..n
  <1>1. IsFiniteSet(1..n) /\ Cardinality(1..n) = n
    <2>1. n \in Int /\ 1 \in Int /\ (1 > n => n = 0)
      OBVIOUS
    <2> QED BY <2>1, FS_Interval
  <1>2. IsFiniteSet(T) /\ Cardinality(T) <= Cardinality(1..n)
    BY <1>1, FS_Subset
  <1>3. Cardinality(T) \in Nat
    BY <1>2, FS_CardinalityType
  <1> QED BY <1>1, <1>2, <1>3

\* Every place of the sorted list belongs to one entry.
LEMMA PlaceTaken ==
    ASSUME NEW n \in Nat, NEW l \in [1..n -> Modules], NEW k \in 1..n
    PROVE  \E i \in 1..n : SortedPlace(l, i) = k
  <1> DEFINE Before(i) == {j \in DOMAIN l : \/ l[j].rank < l[i].rank
                                            \/ l[j].rank = l[i].rank /\ j <= i}
             place == [i \in 1..n |-> SortedPlace(l, i)]
  <1>1. \A i \in 1..n : l[i].rank \in Nat
    BY PluginAssumption DEF PluginAssumption
  <1>2. \A i \in 1..n : /\ Before(i) \in SUBSET (1..n) /\ i \in Before(i)
                         /\ IsFiniteSet(Before(i)) /\ Cardinality(Before(i)) \in 0..n
                         /\ SortedPlace(l, i) = Cardinality(Before(i))
    <2> SUFFICES ASSUME NEW i \in 1..n
                 PROVE  /\ Before(i) \in SUBSET (1..n) /\ i \in Before(i)
                        /\ IsFiniteSet(Before(i)) /\ Cardinality(Before(i)) \in 0..n
                        /\ SortedPlace(l, i) = Cardinality(Before(i))
      OBVIOUS
    <2>1. Before(i) \in SUBSET (1..n)
      OBVIOUS
    <2>2. i \in Before(i)
      BY <1>1
    <2>3. IsFiniteSet(Before(i)) /\ Cardinality(Before(i)) \in 0..n
      <3> HIDE DEF Before
      <3> QED BY <2>1, PlacesFinite
    <2> QED BY <2>1, <2>2, <2>3 DEF SortedPlace
  <1>3. ASSUME NEW i \in 1..n, NEW j \in 1..n, l[i].rank < l[j].rank \/ (l[i].rank = l[j].rank /\ i < j)
        PROVE  Cardinality(Before(i)) < Cardinality(Before(j))
    <2>1. Before(i) \subseteq Before(j) /\ j \notin Before(i)
      <3>1. ASSUME NEW x \in Before(i) PROVE x \in Before(j) /\ x # j
        BY <1>1, <1>3
      <3> QED BY <3>1
    <2>2. Before(i) # Before(j)
      BY <1>2, <2>1
    <2>3. /\ IsFiniteSet(Before(j)) /\ Before(i) \in SUBSET Before(j)
          /\ Cardinality(Before(i)) \in 0..n /\ Cardinality(Before(j)) \in 0..n
      BY <1>2, <2>1
    <2> HIDE DEF Before
    <2>4. /\ Cardinality(Before(i)) <= Cardinality(Before(j))
          /\ Cardinality(Before(j)) = Cardinality(Before(i)) => Before(j) = Before(i)
      BY <2>3, FS_Subset
    <2> QED BY <2>2, <2>3, <2>4
  <1>4. \A i \in 1..n : SortedPlace(l, i) \in 1..n
    <2> SUFFICES ASSUME NEW i \in 1..n PROVE SortedPlace(l, i) \in 1..n
      OBVIOUS
    <2>1. Cardinality(Before(i)) # 0
      <3>1. IsFiniteSet(Before(i)) /\ i \in Before(i)
        BY <1>2
      <3> HIDE DEF Before
      <3>2. Cardinality(Before(i)) = 0 <=> Before(i) = {}
        BY <3>1, FS_EmptySet
      <3> QED BY <3>1, <3>2
    <2> HIDE DEF Before
    <2> QED BY <1>2, <2>1
  <1>5. place \in [1..n -> 1..n] /\ \A i \in 1..n : place[i] = SortedPlace(l, i)
    BY <1>4
  <1> HIDE DEF place
  <1>6. ASSUME NEW i \in 1..n, NEW j \in 1..n, i # j PROVE place[i] # place[j]
    <2> DEFINE a == l[i].rank
               b == l[j].rank
               Smaller(x, y) == l[x].rank < l[y].rank \/ (l[x].rank = l[y].rank /\ x < y)
    <2>1. a \in Nat /\ b \in Nat
      BY <1>1
    <2>2. Smaller(i, j) \/ Smaller(j, i)
      BY <2>1, <1>6
    <2>3. place[i] \in 0..n /\ place[j] \in 0..n
      BY <1>5
    <2>4. place[i] = Cardinality(Before(i)) /\ place[j] = Cardinality(Before(j))
      <3> HIDE DEF Before
      <3> QED BY <1>2, <1>5
    <2>5. Smaller(i, j) => Cardinality(Before(i)) < Cardinality(Before(j))
      <3> HIDE DEF Before
      <3> QED BY <1>3
    <2>6. Smaller(j, i) => Cardinality(Before(j)) < Cardinality(Before(i))
      <3> HIDE DEF Before
      <3> QED BY <1>3
    <2> HIDE DEF Before, Smaller
    <2> QED BY <2>2, <2>3, <2>4, <2>5, <2>6
  <1>7. IsFiniteSet(1..n)
    BY PlacesFinite
  <1>8. place \in Injection(1..n, 1..n)
    BY <1>5, <1>6, Fun_IsInj
  <1>9. place \in Surjection(1..n, 1..n)
    BY <1>7, <1>8, FS_Injection
  <1>10. \E i \in 1..n : place[i] = k
    BY <1>9 DEF Surjection
  <1> QED BY <1>5, <1>10

\* What sortPluginPaths has at place k.
LEMMA SortedAt ==
    ASSUME NEW n \in Nat, NEW l \in [1..n -> Modules], NEW k \in 1..n
    PROVE  LET m == sortPluginPaths(l)[k] IN
           /\ m \in Modules /\ m.rank \in Nat
           /\ Cardinality(Under(l, m.rank)) < k
           /\ k <= Cardinality(UpToRank(l, m.rank))
  <1>1. \E i \in DOMAIN l : SortedPlace(l, i) = k
    BY PlaceTaken
  <1> DEFINE i == CHOOSE j \in DOMAIN l : SortedPlace(l, j) = k
  <1>2. i \in 1..n /\ SortedPlace(l, i) = k
    BY <1>1
  <1>3. sortPluginPaths(l)[k] = l[i]
    BY DEF sortPluginPaths
  <1> HIDE DEF i
  <1>4. l[i] \in Modules /\ \A j \in 1..n : l[j].rank \in Nat
    BY <1>2, PluginAssumption DEF PluginAssumption
  <1> DEFINE r == l[i].rank
             B == {j \in DOMAIN l : l[j].rank < l[i].rank \/ (l[j].rank = l[i].rank /\ j <= i)}
             L == Under(l, r)
             U == UpToRank(l, r)
  <1>5. Cardinality(B) = k
    BY <1>2 DEF SortedPlace
  <1>6. B \in SUBSET (1..n) /\ L \in SUBSET B /\ i \in B /\ i \notin L /\ U \in SUBSET (1..n) /\ B \in SUBSET U
    BY <1>2, <1>4 DEF Under, UpToRank
  <1> HIDE DEF B, L, U
  <1>7. /\ IsFiniteSet(B) /\ IsFiniteSet(U) /\ IsFiniteSet(L)
        /\ Cardinality(B) \in 0..n /\ Cardinality(U) \in 0..n /\ Cardinality(L) \in 0..n
    <2>1. L \in SUBSET (1..n)
      BY <1>6
    <2> QED BY <1>6, <2>1, PlacesFinite
  <1>8. Cardinality(L) <= Cardinality(B) /\ (Cardinality(B) = Cardinality(L) => B = L)
    BY <1>6, <1>7, FS_Subset
  <1>9. Cardinality(B) <= Cardinality(U)
    BY <1>6, <1>7, FS_Subset
  <1>10. Cardinality(L) < k /\ k <= Cardinality(U)
    BY <1>5, <1>6, <1>7, <1>8, <1>9
  <1> QED BY <1>2, <1>3, <1>4, <1>10 DEF L, U

LEMMA RanksApart ==
    ASSUME NEW n \in Nat, NEW l \in [1..n -> Modules], NEW m \in [1..n -> Modules], SameRanks(l, m),
           NEW k \in 1..n
    PROVE  ~(sortPluginPaths(l)[k].rank < sortPluginPaths(m)[k].rank)
  <1> DEFINE a == sortPluginPaths(l)[k].rank
             b == sortPluginPaths(m)[k].rank
             U == UpToRank(l, a)
             L == Under(l, b)
  <1>1. a \in Nat /\ k <= Cardinality(U)
    BY SortedAt
  <1>2. b \in Nat /\ Cardinality(Under(m, b)) < k
    BY SortedAt
  <1> HIDE DEF a, b
  <1>3. Cardinality(L) = Cardinality(Under(m, b))
    BY <1>2 DEF SameRanks
  <1>4. ASSUME a < b PROVE FALSE
    <2>1. U \in SUBSET L /\ L \in SUBSET (1..n)
      <3>1. \A j \in 1..n : l[j].rank \in Nat
        BY PluginAssumption DEF PluginAssumption
      <3> QED BY <1>1, <1>2, <1>4, <3>1 DEF UpToRank, Under
    <2> HIDE DEF U, L
    <2>2. IsFiniteSet(L) /\ Cardinality(L) \in 0..n
      BY <2>1, PlacesFinite
    <2>3. U \in SUBSET (1..n)
      BY <2>1
    <2>4. Cardinality(U) \in 0..n
      BY <2>3, PlacesFinite
    <2>5. Cardinality(U) <= Cardinality(L)
      BY <2>1, <2>2, FS_Subset
    <2>6. Cardinality(L) < k
      BY <1>2, <1>3
    <2> QED BY <1>1, <2>2, <2>4, <2>5, <2>6
  <1> QED BY <1>4 DEF a, b

\* The same modules in another order give the same plugins.
LEMMA OrderIrrelevant ==
    ASSUME NEW n \in Nat, NEW l \in [1..n -> Modules], NEW m \in [1..n -> Modules], SameRanks(l, m)
    PROVE  loadPluginsFromAllowlist(l) = loadPluginsFromAllowlist(m)
  <1> DEFINE Results(s) == [k \in DOMAIN s |-> [state |-> s[k].state, plugin |-> s[k].plugin]]
  <1>1. SameRanks(m, l)
    BY DEF SameRanks
  <1>2. DOMAIN sortPluginPaths(l) = 1..n /\ DOMAIN sortPluginPaths(m) = 1..n
    BY DEF sortPluginPaths
  <1>3. ASSUME NEW k \in 1..n
        PROVE  /\ sortPluginPaths(l)[k].state = sortPluginPaths(m)[k].state
               /\ sortPluginPaths(l)[k].plugin = sortPluginPaths(m)[k].plugin
    <2> DEFINE x == sortPluginPaths(l)[k]
               y == sortPluginPaths(m)[k]
    <2>1. x \in Modules /\ x.rank \in Nat
      BY SortedAt
    <2>2. y \in Modules /\ y.rank \in Nat
      BY SortedAt
    <2>3. ~(x.rank < y.rank)
      BY RanksApart
    <2>4. ~(y.rank < x.rank)
      BY <1>1, RanksApart
    <2> HIDE DEF x, y
    <2>5. x.rank = y.rank
      BY <2>1, <2>2, <2>3, <2>4
    <2>6. x.state = y.state /\ x.plugin = y.plugin
      BY <2>1, <2>2, <2>5, PluginAssumption DEF PluginAssumption
    <2> QED BY <2>6 DEF x, y
  <1>4. Results(sortPluginPaths(l)) = Results(sortPluginPaths(m))
    <2> DEFINE s == sortPluginPaths(l)
               t == sortPluginPaths(m)
    <2> HIDE DEF s, t
    <2>1. DOMAIN s = 1..n /\ DOMAIN t = 1..n
      BY <1>2 DEF s, t
    <2>2. \A k \in 1..n : s[k].state = t[k].state /\ s[k].plugin = t[k].plugin
      BY <1>3 DEF s, t
    <2>3. Results(s) = Results(t)
      BY <2>1, <2>2
    <2> QED BY <2>3 DEF s, t
  <1>5. l = <<>> <=> m = <<>>
    <2>1. DOMAIN <<>> = {} /\ DOMAIN l = 1..n /\ DOMAIN m = 1..n
      OBVIOUS
    <2>2. CASE n = 0
      <3>1. l = <<>> /\ m = <<>>
        BY <2>2
      <3> QED BY <3>1
    <2>3. CASE n # 0
      <3>1. 1 \in 1..n
        BY <2>3
      <3> QED BY <2>1, <3>1
    <2> QED BY <2>2, <2>3
  <1>6. CASE l = <<>>
    BY <1>5, <1>6
  <1>7. CASE l # <<>>
    <2>1. loadPluginsFromAllowlist(l) = Collected(Results(sortPluginPaths(l)))
      BY <1>7 DEF loadPluginsFromAllowlist
    <2>2. loadPluginsFromAllowlist(m) = Collected(Results(sortPluginPaths(m)))
      BY <1>5, <1>7 DEF loadPluginsFromAllowlist
    <2> HIDE DEF Results
    <2> QED BY <1>4, <2>1, <2>2
  <1> QED BY <1>6, <1>7

\* Listing the entries in another order keeps the numbers.
LEMMA PermutedRanks ==
    ASSUME NEW n \in Nat, NEW l \in [1..n -> Modules], NEW p \in Bijection(1..n, 1..n)
    PROVE  SameRanks([i \in 1..n |-> l[p[i]]], l)
  <1> DEFINE m == [i \in 1..n |-> l[p[i]]]
  <1>1. p \in [1..n -> 1..n] /\ \A i, j \in 1..n : p[i] = p[j] => i = j
    BY DEF Bijection, Injection, IsInjective
  <1>2. \A j \in 1..n : \E i \in 1..n : p[i] = j
    BY DEF Bijection, Surjection
  <1>3. ASSUME NEW T \in SUBSET (1..n) PROVE Cardinality({i \in 1..n : p[i] \in T}) = Cardinality(T)
    <2> DEFINE U == {i \in 1..n : p[i] \in T}
               f == [i \in U |-> p[i]]
    <2>1. f \in [U -> T] /\ \A i, j \in U : f[i] = f[j] => i = j
      BY <1>1
    <2>2. \A t \in T : \E i \in U : f[i] = t
      <3> SUFFICES ASSUME NEW t \in T PROVE \E i \in U : f[i] = t
        OBVIOUS
      <3>1. PICK i \in 1..n : p[i] = t
        BY <1>2
      <3>2. i \in U /\ f[i] = t
        BY <3>1
      <3> QED BY <3>2
    <2>3. U \in SUBSET (1..n)
      OBVIOUS
    <2> HIDE DEF U, f
    <2>4. f \in Bijection(U, T)
      BY <2>1, <2>2, Fun_IsBij
    <2>5. IsFiniteSet(U) /\ ExistsBijection(U, T)
      BY <2>3, <2>4, PlacesFinite DEF ExistsBijection
    <2>6. Cardinality(T) = Cardinality(U)
      BY <2>5, FS_Bijection
    <2> QED BY <2>6 DEF U
  <1>4. DOMAIN m = 1..n /\ DOMAIN l = 1..n
    OBVIOUS
  <1>5. ASSUME NEW r \in Nat PROVE /\ Cardinality(Under(m, r)) = Cardinality(Under(l, r))
                                   /\ Cardinality(UpToRank(m, r)) = Cardinality(UpToRank(l, r))
    <2>1. Under(l, r) \in SUBSET (1..n) /\ UpToRank(l, r) \in SUBSET (1..n)
      BY DEF Under, UpToRank
    <2>2. Under(m, r) = {i \in 1..n : p[i] \in Under(l, r)}
      BY <1>1 DEF Under
    <2>3. UpToRank(m, r) = {i \in 1..n : p[i] \in UpToRank(l, r)}
      BY <1>1 DEF UpToRank
    <2> HIDE DEF m
    <2> QED BY <1>3, <2>1, <2>2, <2>3
  <1> QED BY <1>4, <1>5 DEF SameRanks

ListedInv ==
    /\ \E n \in Nat : listed \in [1..n -> Modules]
    /\ loaded.plugins = loadPluginsFromAllowlist(listed).plugins

LEMMA ListedHolds == ListedInv => ListingOrderIsIrrelevant
  <1> SUFFICES ASSUME ListedInv, NEW p \in [DOMAIN listed -> DOMAIN listed],
                      Cardinality({p[i] : i \in DOMAIN p}) = Len(listed)
               PROVE  loadPluginsFromAllowlist([i \in DOMAIN listed |-> listed[p[i]]]).plugins = loaded.plugins
    BY DEF ListingOrderIsIrrelevant
  <1>1. PICK n \in Nat : listed \in [1..n -> Modules]
    BY DEF ListedInv
  <1>2. DOMAIN listed = 1..n /\ DOMAIN p = 1..n /\ Len(listed) = n
    <2>1. listed \in Seq(Modules)
      BY <1>1
    <2>2. DOMAIN listed = 1..n
      BY <1>1
    <2>3. Len(listed) = n
      BY <2>1, <2>2
    <2> QED BY <2>2, <2>3
  <1> DEFINE image == {p[i] : i \in 1..n}
  <1>3. image \in SUBSET (1..n) /\ Cardinality(image) = n
    BY <1>2
  <1>4. IsFiniteSet(1..n) /\ Cardinality(1..n) = n
    <2>1. n \in Int /\ 1 \in Int /\ (1 > n => n = 0)
      OBVIOUS
    <2> QED BY <2>1, FS_Interval
  <1>5. image = 1..n
    <2> HIDE DEF image
    <2> QED BY <1>3, <1>4, FS_Subset
  <1>6. p \in Surjection(1..n, 1..n)
    <2>1. \A t \in 1..n : \E s \in 1..n : p[s] = t
      BY <1>5
    <2> QED BY <1>2, <2>1 DEF Surjection
  <1>7. p \in Bijection(1..n, 1..n)
    <2>1. p \in Injection(1..n, 1..n)
      BY <1>4, <1>6, FS_SurjSameCardinalityImpliesInj
    <2> QED BY <1>6, <2>1 DEF Bijection
  <1> DEFINE m == [i \in 1..n |-> listed[p[i]]]
  <1>8. SameRanks(m, listed)
    BY <1>1, <1>7, PermutedRanks
  <1>9. m \in [1..n -> Modules]
    BY <1>1, <1>2
  <1> HIDE DEF m
  <1>10. loadPluginsFromAllowlist(m) = loadPluginsFromAllowlist(listed)
    BY <1>1, <1>8, <1>9, OrderIrrelevant
  <1> QED BY <1>2, <1>10 DEF m, ListedInv

\* The order in which a workflow lists its plugin modules changes nothing of
\* what loadPluginsFromAllowlist returns, for any modules and any length of the
\* list: sortPluginPaths orders them, and two spellings of a path are one file.
THEOREM OrderNeverMatters == PluginSpec => []ListingOrderIsIrrelevant
  <1>1. PluginInit => ListedInv
    <2> SUFFICES ASSUME PluginInit PROVE ListedInv
      OBVIOUS
    <2>1. listed = <<>> /\ loaded.plugins = <<>>
      BY DEF PluginInit
    <2>2. <<>> \in [1..0 -> Modules]
      OBVIOUS
    <2>3. loadPluginsFromAllowlist(<<>>).plugins = <<>>
      BY DEF loadPluginsFromAllowlist
    <2> QED BY <2>1, <2>2, <2>3 DEF ListedInv
  <1>2. ListedInv /\ [PluginNext]_pluginVars => ListedInv'
    <2> SUFFICES ASSUME ListedInv, [PluginNext]_pluginVars PROVE ListedInv'
      OBVIOUS
    <2>1. CASE LoadAllowlist
      <3>1. PICK n \in 0..MaxListed : \E list \in [1..n -> Modules] :
                listed' = list /\ loaded' = loadPluginsFromAllowlist(list)
        BY <2>1 DEF LoadAllowlist
      <3>2. n \in Nat
        BY PluginAssumption DEF PluginAssumption
      <3> QED BY <3>1, <3>2 DEF ListedInv
    <2>2. CASE UNCHANGED <<listed, loaded>>
      BY <2>2 DEF ListedInv
    <2>3. LoadAllowlist \/ UNCHANGED <<listed, loaded>>
      BY DEF PluginNext, registerCorePlugins, RegisterLoaded, unregister, clear, runPlugins, pluginVars
    <2> QED BY <2>1, <2>2, <2>3
  <1> QED BY <1>1, <1>2, ListedHolds, PTL DEF PluginSpec
=============================================================================
