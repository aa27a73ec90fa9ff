------------------------------ MODULE PluginRun -------------------------------
(* Check plugins (src/plugin.ts, src/pluginLoader.ts, src/pluginRunner.ts,    *)
(* src/corePlugins.ts): a registry in which the first plugin of an id stays,  *)
(* a loader of the modules a workflow allows, and the runner that turns every *)
(* registered plugin into a row. The action does not call them; the tests and *)
(* embedders do, in any order, on one shared registry.                        *)
(*                                                                            *)
(* A plugin is [id, suffix, core]: suffix is the well-known ending of its id  *)
(* or "". Its own timeoutMs is read by nothing. A module is                   *)
(* [name, rank, state, plugin]: rank is the place of its normalised path      *)
(* among all paths, state what loading it meets.                              *)
EXTENDS Integers, Sequences, FiniteSets, SequencesExt

CONSTANTS
  Modules,        \* the plugin modules of a workspace
  RunTimeout,     \* the budget runPlugins gives to every plugin
  Elapsed,        \* how long a plugin's run may take
  MaxListed,      \* bound: modules in an allowlist
  MaxPluginCalls  \* bound: calls of the loader, the registry and the runner

(* Two spellings of one path lead to one file.                                *)
ASSUME PluginAssumption ==
  /\ \A m \in Modules : m.rank \in Nat
  /\ \A m, n \in Modules : m.rank = n.rank => m.state = n.state /\ m.plugin = n.plugin
  /\ MaxListed \in Nat

VARIABLES
  registry,   \* the plugins in the order of their registration
  listed,     \* the allowlist of the last load, as written
  loaded,     \* what that load returned
  summary,    \* the ValidationResult of the last run
  pluginCalls

pluginVars == <<registry, listed, loaded, summary, pluginCalls>>

-----------------------------------------------------------------------------
Core(suffix) == [id |-> suffix, suffix |-> suffix, core |-> TRUE]
corePlugins == <<Core("account-funded"), Core("trustline"), Core("xlm-reserve"), Core("home-domain")>>

(* Where an entry of an allowlist comes: after all smaller paths and the      *)
(* earlier spellings of its own.                                              *)
SortedPlace(list, i) ==
  Cardinality({j \in DOMAIN list : \/ list[j].rank < list[i].rank
                                   \/ list[j].rank = list[i].rank /\ j <= i})

(* sortPluginPaths: by normalised path; two spellings of one path keep their  *)
(* order.                                                                     *)
(* Mutation of sortPluginPaths: the order of the workflow's author is kept.   *)
sortPluginPathsNot(list) == list
sortPluginPaths(list) ==
  [k \in DOMAIN list |-> list[CHOOSE i \in DOMAIN list : SortedPlace(list, i) = k]]

(* loadPlugin: path, existence, kind of file, import and shape must all hold. *)
LoadFailure(state) == state \in {"path_traversal", "not_found", "not_file", "load_failed", "invalid_export"}

(* The loop of loadPluginsFromAllowlist: a module that fails is skipped, two  *)
(* modules that export one id throw and give nothing.                         *)
Collected(results) ==
  LET usable == SelectSeq(results, LAMBDA r : ~LoadFailure(r.state))
      clash == \E i, j \in DOMAIN usable : i < j /\ usable[i].plugin.id = usable[j].plugin.id IN
  IF clash THEN [outcome |-> "duplicate_id", plugins |-> <<>>]
  ELSE [outcome |-> "loaded", plugins |-> [i \in DOMAIN usable |-> usable[i].plugin]]

(* loadPluginsFromAllowlist: what loadPlugin says of each path, in order.     *)
loadPluginsFromAllowlist(list) ==
  IF list = <<>> THEN [outcome |-> "loaded", plugins |-> <<>>]
  ELSE LET sorted == sortPluginPaths(list) IN
       Collected([k \in DOMAIN sorted |-> [state |-> sorted[k].state, plugin |-> sorted[k].plugin]])

register(plugins, plugin) ==
  IF \E i \in DOMAIN plugins : plugins[i].id = plugin.id THEN plugins ELSE Append(plugins, plugin)

-----------------------------------------------------------------------------
NotRun == [ran |-> FALSE]

PluginInit ==
  /\ registry = <<>>
  /\ listed = <<>> /\ loaded = [outcome |-> "none", plugins |-> <<>>]
  /\ summary = NotRun
  /\ pluginCalls = 0

LoadAllowlist ==
  /\ \E n \in 0..MaxListed : \E list \in [1..n -> Modules] :
       /\ listed' = list
       /\ loaded' = loadPluginsFromAllowlist(list)
  /\ UNCHANGED <<registry, summary>>

registerCorePlugins ==
  /\ registry' = FoldLeft(register, registry, corePlugins)
  /\ UNCHANGED <<listed, loaded, summary>>

RegisterLoaded ==
  /\ loaded.outcome = "loaded"
  /\ registry' = FoldLeft(register, registry, loaded.plugins)
  /\ UNCHANGED <<listed, loaded, summary>>

unregister ==
  /\ \E id \in {registry[i].id : i \in DOMAIN registry} :
       registry' = SelectSeq(registry, LAMBDA p : p.id # id)
  /\ UNCHANGED <<listed, loaded, summary>>

clear ==
  /\ registry' = <<>>
  /\ UNCHANGED <<listed, loaded, summary>>

(* What the core plugins say of an account; any other plugin says anything.   *)
CorePasses(suffix, account) ==
  CASE suffix = "account-funded" -> account.exists
    [] suffix = "trustline" -> account.exists /\ account.line
    [] suffix = "xlm-reserve" -> account.exists /\ account.reserve
    [] OTHER -> ~account.domainBlocks
(* runWithTimeout looks at the clock after the plugin has returned.           *)
RowPasses(plugin, account, behaviour) ==
  /\ behaviour.kind # "throws"
  /\ behaviour.elapsed <= RunTimeout
  /\ IF plugin.core THEN CorePasses(plugin.suffix, account) ELSE behaviour.kind = "passes"

(* deriveFlag: the first plugin whose id ends with the suffix decides.        *)
deriveFlag(plugins, rows, suffix, default) ==
  LET with == {i \in DOMAIN plugins : plugins[i].suffix = suffix} IN
  IF with = {} THEN default
  ELSE rows[CHOOSE i \in with : \A j \in with : i <= j]

runPlugins ==
  /\ \E account \in [exists : BOOLEAN, line : BOOLEAN, reserve : {TRUE}, domainBlocks : BOOLEAN],
        behaviours \in [{registry[i].id : i \in DOMAIN registry} ->
                          [kind : {"passes", "fails", "throws"}, elapsed : Elapsed]] :
       /\ \A i \in DOMAIN registry : registry[i].core => behaviours[registry[i].id] = [kind |-> "passes", elapsed |-> 0]
       /\ LET rows == [i \in DOMAIN registry |-> RowPasses(registry[i], account, behaviours[registry[i].id])] IN
          summary' = [ran |-> TRUE, rows |-> rows,
                     valid |-> \A i \in DOMAIN rows : rows[i],
                     accountFunded |-> deriveFlag(registry, rows, "account-funded", account.exists),
                     trustlineExists |-> deriveFlag(registry, rows, "trustline", FALSE),
                     xlmReserveMet |-> deriveFlag(registry, rows, "xlm-reserve", FALSE)]
  /\ UNCHANGED <<registry, listed, loaded>>

PluginNext ==
  /\ pluginCalls < MaxPluginCalls /\ pluginCalls' = pluginCalls + 1
  /\ \/ LoadAllowlist \/ registerCorePlugins \/ RegisterLoaded
     \/ unregister \/ clear \/ runPlugins
PluginSpec == PluginInit /\ [][PluginNext]_pluginVars

-----------------------------------------------------------------------------
(* The plugins a workflow gets, and their order, depend on which modules it   *)
(* allows and never on the order it lists them in (src/pluginLoader.ts:252).  *)
ListingOrderIsIrrelevant ==
  \A p \in [DOMAIN listed -> DOMAIN listed] :
    Cardinality({p[i] : i \in DOMAIN p}) = Len(listed) =>
      loadPluginsFromAllowlist([i \in DOMAIN listed |-> listed[p[i]]]).plugins = loaded.plugins
=============================================================================
