---------------------------- MODULE StellarToml ----------------------------
(***************************************************************************)
(* Reading the stellar.toml of a home domain through the cache, with an    *)
(* optional pin of its hash (src/toml.ts): fetchTomlWithCache and          *)
(* runStellarTomlCheck.  Several readers with their own pins and times to  *)
(* live share the entry of the domain, while the domain changes its file.  *)
(*                                                                         *)
(* A body is its hash; an answer of the domain that is no body is a fault. *)
(***************************************************************************)
EXTENDS Integers

CONSTANTS
    Readers,     \* the callers
    Bodies,      \* the files the domain publishes
    TomlFaults,  \* what it may answer instead: "unreachable", "html", "empty"
    Pins,        \* hash pins: bodies, "" for none, "malformed"
    ReaderTtls,  \* cache times asked for, also negative
    MaxTtl,      \* MAX_STELLAR_TOML_CACHE_TTL_MS
    MaxDay       \* bound: when time stops

ASSUME TomlAssumption ==
    /\ ReaderTtls \subseteq Int
    /\ MaxTtl \in Nat
    /\ MaxDay \in Nat

VARIABLES
    day,     \* the time
    site,    \* what the domain answers
    cached,  \* the entry of the domain: defaultCache
    reader,  \* what each reader asked for and when, and whether it waits
    outcome  \* what it got

tomlVars == <<day, site, cached, reader, outcome>>

NotCached == [content |-> "", fetchedAt |-> 0, expiresAt |-> -1]
Idle == [waits |-> FALSE, pin |-> "", ttl |-> 0, from |-> 0]
NoOutcome == [status |-> "none", content |-> "", cachedAt |-> 0, fetched |-> FALSE]

Failed == [NoOutcome EXCEPT !.status = "failed"]
Ok(content, at, fetched) == [status |-> "ok", content |-> content, cachedAt |-> at, fetched |-> fetched]

-----------------------------------------------------------------------------
\* clampTomlTtl.
clampTomlTtl(ttl) == IF ttl < 0 THEN 0 ELSE IF ttl > MaxTtl THEN MaxTtl ELSE ttl

\* Mutation of PinOk: a cached body has been checked before.
PinOkWhenFresh(entry, pin) == TRUE

\* validateTomlHash: without a pin anything goes.
PinOk(entry, pin) == pin = "" \/ entry.content = pin

\* SimpleCache.get, and the age by the time to live of this reader.
Live == cached # NotCached /\ day <= cached.expiresAt
Servable(ttl, pin) ==
    /\ ttl > 0 /\ Live
    /\ day - cached.fetchedAt \in 0..(ttl - 1)
    /\ PinOk(cached, pin)

TomlInit ==
    /\ day = 0
    /\ site \in Bodies \cup TomlFaults
    /\ cached = NotCached
    /\ reader = [r \in Readers |-> Idle]
    /\ outcome = [r \in Readers |-> NoOutcome]

\* runStellarTomlCheck and fetchTomlWithCache up to the request: disabled or
\* without a domain nothing is read, a malformed pin is refused, a usable
\* entry answers, and one that is not is evicted.
Ask(r) ==
    /\ ~reader[r].waits
    /\ \E pin \in Pins, asked \in ReaderTtls, enabled \in BOOLEAN :
          LET ttl == clampTomlTtl(asked) IN
          /\ reader' = [reader EXCEPT ![r] =
                 [waits |-> enabled /\ pin # "malformed" /\ ~Servable(ttl, pin),
                  pin |-> pin, ttl |-> ttl, from |-> day]]
          /\ outcome' = [outcome EXCEPT ![r] =
                 IF ~enabled THEN [NoOutcome EXCEPT !.status = "skipped"]
                 ELSE IF pin = "malformed" THEN Failed
                 ELSE IF Servable(ttl, pin) THEN Ok(cached.content, cached.fetchedAt, FALSE)
                 ELSE NoOutcome]
          /\ cached' = IF enabled /\ pin # "malformed" /\ ttl > 0 /\ ~Servable(ttl, pin)
                       THEN NotCached ELSE cached
    /\ UNCHANGED <<day, site>>

\* The answer of the domain: a redirect, a wrong type, an empty or too large
\* body or one that does not match the pin fails, and nothing is cached.
Answer(r) ==
    /\ reader[r].waits
    /\ LET got == [content |-> site] IN
       IF site \in Bodies /\ PinOk(got, reader[r].pin)
       THEN /\ outcome' = [outcome EXCEPT ![r] = Ok(site, reader[r].from, TRUE)]
            /\ cached' = IF reader[r].ttl > 0
                         THEN [content |-> site, fetchedAt |-> reader[r].from,
                               expiresAt |-> day + reader[r].ttl]
                         ELSE cached
       ELSE outcome' = [outcome EXCEPT ![r] = Failed] /\ UNCHANGED cached
    /\ reader' = [reader EXCEPT ![r].waits = FALSE]
    /\ UNCHANGED <<day, site>>

\* The domain changes what it answers.
Publish ==
    /\ site' \in (Bodies \cup TomlFaults) \ {site}
    /\ UNCHANGED <<day, cached, reader, outcome>>

TomlTick ==
    /\ day < MaxDay
    /\ day' = day + 1
    /\ UNCHANGED <<site, cached, reader, outcome>>

TomlNext ==
    \/ \E r \in Readers : Ask(r) \/ Answer(r)
    \/ Publish
    \/ TomlTick

TomlSpec == TomlInit /\ [][TomlNext]_tomlVars

-----------------------------------------------------------------------------
(* Properties.                                                             *)

\* Whatever other readers with other pins put into the shared entry, a reader
\* with a pin gets the pinned body or a failure, and a copy is younger than
\* the time the reader itself asked for.
PinnedBodyOnly ==
    \A r \in Readers : outcome[r].status = "ok" =>
        /\ reader[r].pin # "" => outcome[r].content = reader[r].pin
        /\ outcome[r].content \in Bodies
        /\ ~outcome[r].fetched => reader[r].from - outcome[r].cachedAt < reader[r].ttl
=============================================================================
