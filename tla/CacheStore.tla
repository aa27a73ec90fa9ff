----------------------------- MODULE CacheStore -----------------------------
(***************************************************************************)
(* One entry of the cache of src/cache.ts with the persistent backend of   *)
(* GitHub Actions: the memory of SimpleCache, the memory and the file of   *)
(* the backend, and the entry it uploads.  Steps of one job share the      *)
(* file, jobs share the uploaded entry; an upload and a restore take time, *)
(* during which the process goes on or ends.                               *)
(*                                                                         *)
(* A value is the time at which it was read from Horizon.                  *)
(***************************************************************************)
EXTENDS Integers

CONSTANTS
    Ttls,       \* the times to live callers pass to set
    MemoryTtl,  \* what a restored value gets in memory (60 s)
    Persistent, \* whether the backend of GitHub Actions is selected
    MaxClock    \* bound: when time stops

ASSUME CacheAssumption ==
    /\ Ttls \subseteq Nat /\ Ttls # {}
    /\ MemoryTtl \in Nat
    /\ Persistent \in BOOLEAN
    /\ MaxClock \in Nat

VARIABLES
    clock,
    store,     \* SimpleCache.store
    memory,    \* memCache of the backend
    file,      \* its file
    directory, \* whether cacheDir is there
    uploaded,  \* the entry of the Actions cache
    upload,    \* an upload is under way
    restore,   \* a restore is under way
    served     \* the age of the value that was last handed out

cacheVars == <<clock, store, memory, file, directory, uploaded, upload, restore, served>>

NoEntry == [data |-> 0, expiresAt |-> -1]
Missing == -1

Entry(data, ttl) == [data |-> data, expiresAt |-> clock + ttl]

\* Mutation of Expired: what is there is good.
ExpiredNever(entry) == FALSE

\* An entry lives to the very moment at which it expires.
Expired(entry) == clock > entry.expiresAt

Age(entry) == clock - entry.data

-----------------------------------------------------------------------------
\* The selected backend: an unknown name means memory only.
CacheInit ==
    /\ clock = 0
    /\ store = NoEntry
    /\ memory = NoEntry
    /\ file = NoEntry
    /\ directory = TRUE
    /\ uploaded = NoEntry
    /\ upload = FALSE
    /\ restore = FALSE
    /\ served = Missing

\* SimpleCache.set after a read of Horizon, with saveCache up to its first
\* await: without the directory nothing is written and nothing uploaded.
CacheSet ==
    /\ \E ttl \in Ttls :
          /\ store' = Entry(clock, ttl)
          /\ IF Persistent THEN memory' = Entry(clock, ttl) ELSE UNCHANGED memory
          /\ file' = IF Persistent /\ directory THEN Entry(clock, ttl) ELSE file
    /\ upload' = (upload \/ (Persistent /\ directory))
    /\ served' = 0
    /\ UNCHANGED <<clock, directory, uploaded, restore>>

\* saveCache of the Actions cache: a key is written once, later uploads of it
\* are refused; the upload can fail.
Uploaded ==
    /\ upload
    /\ upload' = FALSE
    /\ uploaded' \in {uploaded, IF uploaded = NoEntry THEN file ELSE uploaded}
    /\ UNCHANGED <<clock, store, memory, file, directory, restore, served>>

\* SimpleCache.get.
CacheGet ==
    /\ store # NoEntry
    /\ IF Expired(store) THEN store' = NoEntry /\ served' = Missing
       ELSE served' = Age(store) /\ UNCHANGED store
    /\ UNCHANGED <<clock, memory, file, directory, uploaded, upload, restore>>

\* restoreAsync hands a value out and keeps it in memory.
Restored(entry) ==
    /\ store' = Entry(entry.data, MemoryTtl)
    /\ served' = Age(entry)

\* restoreAsync, getCache: memory first, then the file, both given up when
\* expired; without either, the Actions cache is asked.
RestoreLocal ==
    /\ Persistent /\ ~restore
    /\ \/ /\ memory # NoEntry /\ ~Expired(memory)
          /\ Restored(memory)
          /\ UNCHANGED <<memory, file, restore>>
       \/ /\ memory # NoEntry /\ Expired(memory)
          /\ memory' = NoEntry /\ served' = Missing
          /\ UNCHANGED <<store, file, restore>>
       \/ /\ memory = NoEntry /\ file # NoEntry /\ ~Expired(file)
          /\ memory' = file
          /\ Restored(file)
          /\ UNCHANGED <<file, restore>>
       \/ /\ memory = NoEntry /\ file # NoEntry /\ Expired(file)
          /\ file' = NoEntry /\ served' = Missing
          /\ UNCHANGED <<store, memory, restore>>
       \/ /\ memory = NoEntry /\ file = NoEntry
          /\ restore' = TRUE
          /\ UNCHANGED <<store, memory, file, served>>
    /\ UNCHANGED <<clock, directory, uploaded, upload>>

\* The restored file replaces one that was written meanwhile.
RestoreUploaded ==
    /\ restore
    /\ restore' = FALSE
    /\ \/ served' = Missing /\ UNCHANGED <<store, memory, file, directory>>
       \/ /\ uploaded # NoEntry
          /\ file' = uploaded /\ directory' = TRUE
          /\ IF Expired(uploaded) THEN served' = Missing /\ UNCHANGED <<store, memory>>
             ELSE memory' = uploaded /\ Restored(uploaded)
    /\ UNCHANGED <<clock, uploaded, upload>>

\* SimpleCache.delete: the backend keeps its copies.
CacheDelete ==
    /\ store # NoEntry
    /\ store' = NoEntry
    /\ UNCHANGED <<clock, memory, file, directory, uploaded, upload, restore, served>>

\* SimpleCache.clear, dispose: the directory is gone, later files fail.
CacheClear ==
    /\ store' = NoEntry
    /\ IF Persistent THEN memory' = NoEntry /\ file' = NoEntry /\ directory' = FALSE
       ELSE UNCHANGED <<memory, file, directory>>
    /\ UNCHANGED <<clock, uploaded, upload, restore, served>>

\* The next step of the job, or the next job on another runner.
CacheRestart ==
    /\ store' = NoEntry /\ memory' = NoEntry
    /\ upload' = FALSE /\ restore' = FALSE
    /\ file' \in {file, NoEntry}
    /\ directory' = TRUE
    /\ served' = Missing
    /\ UNCHANGED <<clock, uploaded>>

CacheTick ==
    /\ clock < MaxClock
    /\ clock' = clock + 1
    /\ served' = Missing
    /\ UNCHANGED <<store, memory, file, directory, uploaded, upload, restore>>

CacheNext ==
    \/ CacheSet \/ Uploaded \/ CacheGet \/ RestoreLocal \/ RestoreUploaded
    \/ CacheDelete \/ CacheClear \/ CacheRestart \/ CacheTick

CacheSpec == CacheInit /\ [][CacheNext]_cacheVars

-----------------------------------------------------------------------------
(* Properties.                                                             *)

\* No value is handed out that is older than the time its writer gave it and
\* the time a restored copy gets on top, through any chain of steps, jobs,
\* uploads and restores.
StalenessIsBounded ==
    \E ttl \in Ttls : served <= ttl + MemoryTtl
=============================================================================
