----------------------------- MODULE MCServices ------------------------------
(* The parts around a run that keep state of their own: settings, plugins,    *)
(* webhook keys, the account cache, issuers' stellar.toml, the retry helpers, *)
(* and the wait for an account that is not funded yet.                        *)
(* They share no variable, so each behaviour follows one of them, named by    *)
(* part, and the states add up.                                               *)
EXTENDS Settings, PluginRun, WebhookDelivery, CacheStore, StellarToml, Resilience, MCFundingWait

VARIABLE part

NoText == [f \in Fields |-> ""]
Workflow(given, env, path, network) ==
  [with |-> given, env |-> env, path |-> path, numbersInRange |-> TRUE, addressValid |-> TRUE, network |-> network,
   preset |-> "", skip |-> "false", skipAlias |-> "true", appToken |-> ""]
MCWorkflows ==
  {Workflow(g, e, p, n) :
     g \in {NoText, [NoText EXCEPT !["horizon_url"] = "testnet"],
            [NoText EXCEPT !["min_xlm_reserve"] = "minus", !["asset_issuer"] = "testnetUsdc"]},
     e \in {NoText, [NoText EXCEPT !["horizon_url"] = "testnet", !["fail_on_missing"] = "no"]},
     p \in {"inside", "outside"}, n \in {"", "mainnet"}}
  \cup {[Workflow(NoText, NoText, "inside", "testnet") EXCEPT !.numbersInRange = FALSE],
        [Workflow(NoText, NoText, "inside", "") EXCEPT !.addressValid = FALSE, !.skip = "", !.preset = "public", !.appToken = "app"]}
Cell(text, quoted) == [text |-> text, quoted |-> quoted]
Text(cells) == [state |-> "text", cells |-> cells]
MCFileTexts ==
  {Absent, [state |-> "unreadable", cells |-> <<>>],
   Text([horizon_url |-> Cell("testnet", FALSE), fail_on_missing |-> Cell("false", FALSE)]),
   Text([horizon_url |-> Cell("credentials", FALSE)]),
   Text([horizon_url |-> Cell("public", TRUE), rpc_fallback_url |-> Cell("credentials", FALSE)]),
   Text([min_xlm_reserve |-> Cell("two", TRUE), asset_issuer |-> Cell("account", FALSE)]),
   Text([min_xlm_reserve |-> Cell("two", FALSE)]),
   Text([fail_on_missing |-> Cell("", FALSE)])}
Listed(login, address) == [login |-> login, address |-> address]
MCRosters ==
  [form : {"object"}, allow : {{}, {"g1", "g3"}}, deny : {{}, {"g3"}},
   entries : {<<Listed("Ann", "g1"), Listed("bob", "g2"), Listed("ann", "g3")>>, <<Listed("ann", "g1"), Listed("Ann", "")>>}]
  \cup [form : {"not found"}, allow : {{}}, deny : {{}}, entries : {<<>>}]

Exported(id, suffix) == [id |-> id, suffix |-> suffix, core |-> FALSE]
Module(name, rank, state, plugin) == [name |-> name, rank |-> rank, state |-> state, plugin |-> plugin]
MCModules ==
  {Module("kyc", 1, "ok", Exported("kyc", "")), Module("./kyc", 1, "ok", Exported("kyc", "")),
   Module("line", 2, "ok", Exported("org-trustline", "trustline")),
   Module("copy", 3, "ok", Exported("kyc", "")), Module("gone", 4, "not_found", Exported("gone", ""))}

MCSigningKeys == <<"k1", "k2", "k3">>

Init ==
  /\ part \in {"settings", "plugins", "webhook", "cache", "toml", "check", "limiter", "funding"}
  /\ SettingsInit /\ PluginInit /\ WebhookInit /\ CacheInit /\ TomlInit /\ ResilienceInit /\ FundingInit
Next ==
  \/ part = "settings" /\ SettingsNext
     /\ UNCHANGED <<part, pluginVars, webhookVars, cacheVars, tomlVars, resilienceVars, fundingVars>>
  \/ part = "plugins" /\ PluginNext
     /\ UNCHANGED <<part, settingsVars, webhookVars, cacheVars, tomlVars, resilienceVars, fundingVars>>
  \/ part = "webhook" /\ WebhookNext
     /\ UNCHANGED <<part, settingsVars, pluginVars, cacheVars, tomlVars, resilienceVars, fundingVars>>
  \/ part = "cache" /\ CacheNext
     /\ UNCHANGED <<part, settingsVars, pluginVars, webhookVars, tomlVars, resilienceVars, fundingVars>>
  \/ part = "toml" /\ TomlNext
     /\ UNCHANGED <<part, settingsVars, pluginVars, webhookVars, cacheVars, resilienceVars, fundingVars>>
  \/ part = "check" /\ CheckNext
     /\ UNCHANGED <<part, settingsVars, pluginVars, webhookVars, cacheVars, tomlVars, fundingVars>>
  \/ part = "limiter" /\ LimiterNext
     /\ UNCHANGED <<part, settingsVars, pluginVars, webhookVars, cacheVars, tomlVars, fundingVars>>
  \/ part = "funding" /\ FundingNext
     /\ UNCHANGED <<part, settingsVars, pluginVars, webhookVars, cacheVars, tomlVars, resilienceVars>>
=============================================================================
