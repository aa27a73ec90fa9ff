------------------------------- MODULE Settings -------------------------------
(* What a run is told to do: the inputs of the workflow, the environment, and *)
(* the two configuration files of a repository (src/index.ts, src/inputs.ts,  *)
(* src/configReader.ts, src/validation.ts, src/assets.ts), and whose address  *)
(* a roster gives to an assignee (src/inputs.ts, src/roster.ts).              *)
(*                                                                            *)
(* ReadInputs is what the action does. MergeLayers, ResolveAliases and        *)
(* LookUpAssignee are the library's exported pipeline, which the action does  *)
(* not call. Text is a token: the sets below say what each token looks like   *)
(* to the code that parses it, "" is an omitted or empty text.                *)
EXTENDS Integers, Sequences, SequencesExt, FiniteSetsExt

CONSTANTS
  Workflows,    \* what the author of a workflow writes, see WorkflowFields
  FileTexts,    \* the contents a configuration file may have
  Rosters,      \* the assignee_address_map texts
  MaxEdits      \* bound: changes of the files

ASSUME SettingsAssumption ==
  /\ \A w \in Workflows : w.path \in {"inside", "outside"}
  /\ \A t \in FileTexts : t.state \in {"absent", "unreadable", "text"}
  /\ \A r \in Rosters : r.form \in {"object", "not found", "invalid"} /\ r.entries \in Seq(ToSet(r.entries))
  /\ MaxEdits \in Nat

VARIABLES
  workflow,     \* the inputs, environment and event of the run at hand
  files,        \* "org" and "repo" |-> content on disk
  settings,     \* what ReadInputs made of it: the stage it reached, the values
  offered,      \* what MergeLayers made of it
  assignee,     \* what LookUpAssignee answered
  aliases,      \* what ResolveAliases answered
  edits

settingsVars == <<workflow, files, settings, offered, assignee, aliases, edits>>

-----------------------------------------------------------------------------
(* Texts, and what the parsers see in them.                                   *)
UrlFields == {"horizon_url", "rpc_fallback_url"}
TextFields == {"asset_issuer", "min_xlm_reserve"}
Fields == UrlFields \cup TextFields \cup {"fail_on_missing"}

Hosts == [public |-> "open", testnet |-> "open", intranet |-> "private", credentials |-> "open", dotted |-> "open", ftp |-> "open"]
Numbers == [one |-> 1, two |-> 2, minus |-> 0 - 1]
IssuerTexts == {"mainnetUsdc", "testnetUsdc", "contract", "account"}
Truths == {"true", "1", "yes"}
Falsehoods == {"false", "0", "no"}

(* action.yml gives every omitted input its default before the program sees it *)
ActionDefault == [horizon_url |-> "public", rpc_fallback_url |-> "", asset_issuer |-> "mainnetUsdc",
                  min_xlm_reserve |-> "one", fail_on_missing |-> "true"]
GetInput(w, f) == IF w.with[f] = "" THEN ActionDefault[f] ELSE w.with[f]

parseBooleanInput(text, default) ==
  (text \in Truths) \/ (text \notin Falsehoods /\ default)

IsUrl(text) == text \in DOMAIN Hosts
validateUrl(text) == IsUrl(text) /\ text \notin {"ftp", "credentials"}
validateSsrfSafeUrl(text) == IsUrl(text) /\ text # "ftp" /\ Hosts[text] = "open"
(* the raw text is searched for dot segments before URL() removes them        *)
validateHorizonUrl(text, allowlist) ==
  /\ text # "dotted"
  /\ validateSsrfSafeUrl(text)
  /\ validateUrl(text)
  /\ allowlist = {} \/ text \in allowlist

sanitizeConfigString(text) == text # "a;b"
validateContractAddress(text) == text = "contract"
(* the first letter decides which form an issuer is held to                   *)
IssuerShape(text) ==
  CASE text \in {"contract", "badContract"} -> validateContractAddress(text)
    [] text \in {"mainnetUsdc", "testnetUsdc", "account", "badAccount"} -> text # "badAccount"
    [] OTHER -> text = "secret"      \* SECRET_FIELD_NAMES is consulted by value

parseMinXlmReserve(text) == text \in DOMAIN Numbers /\ Numbers[text] >= 0
assertValidAssetIssuer(text) == text \in IssuerTexts

(* A preset, or one of the present USDC issuers, must be of Horizon's network.  *)
validateNetworkAssetCompatibility(url, issuer, preset) ==
  /\ ~(url = "testnet" /\ issuer = "mainnetUsdc")
  /\ ~(url # "testnet" /\ issuer = "testnetUsdc")
  /\ preset = "testnet" => url = "testnet"
  /\ preset = "public" => url # "testnet"

-----------------------------------------------------------------------------
(* Configuration files. A file is "absent", "unreadable" or "text"; its cells *)
(* map the fields it mentions to a text and whether that is in quotes.        *)
Mentioned(conf) == DOMAIN conf.cells
Absent == [state |-> "absent", cells |-> <<>>]

parseYamlValue(cell) ==
  IF cell.quoted THEN "string"
  ELSE IF cell.text \in {"true", "false"} THEN "boolean"
  ELSE IF cell.text \in {"", "null"} THEN "null"
  ELSE IF cell.text \in DOMAIN Numbers THEN "number" ELSE "string"

CellIsValid(f, cell) ==
  LET type == parseYamlValue(cell) IN
  IF f = "fail_on_missing" THEN type = "boolean"
  ELSE \/ type = "null" \/ cell.text = ""
       \/ /\ type = "string"
          /\ f = "horizon_url" => validateHorizonUrl(cell.text, {})
          /\ f = "rpc_fallback_url" => validateSsrfSafeUrl(cell.text)
          /\ f \in TextFields => sanitizeConfigString(cell.text)
          /\ f = "asset_issuer" => IssuerShape(cell.text)
validateTrustbridgeConfig(conf) == \A f \in Mentioned(conf) : CellIsValid(f, conf.cells[f])

readTrustbridgeConfig(path, conf) ==
  LET found == path = "inside" /\ conf.state # "absent"
      valid == path = "inside" /\ conf.state # "unreadable" /\ validateTrustbridgeConfig(conf)
      kept == {f \in Mentioned(conf) : conf.cells[f].text # "" /\ parseYamlValue(conf.cells[f]) # "null"} IN
  [found |-> found, valid |-> valid,
   config |-> IF found /\ valid THEN [f \in kept |-> conf.cells[f].text] ELSE <<>>]

(* Mutation of Overlay: the first level read is kept where both have a value. *)
OverlayReversed(org, repo) ==
  [f \in DOMAIN org \cup DOMAIN repo |-> IF f \in DOMAIN org THEN org[f] ELSE repo[f]]
Overlay(org, repo) ==
  [f \in DOMAIN org \cup DOMAIN repo |-> IF f \in DOMAIN repo THEN repo[f] ELSE org[f]]

readTrustbridgeConfigs(path, onDisk) ==
  LET org == readTrustbridgeConfig("inside", onDisk["org"])
      repo == readTrustbridgeConfig(path, onDisk["repo"]) IN
  [found |-> org.found \/ repo.found, valid |-> org.valid /\ repo.valid,
   config |-> Overlay(org.config, repo.config)]

resolveInput(w, f) == IF w.with[f] # "" THEN w.with[f] ELSE w.env[f]
ResolvedOrDefault(w, f) == IF resolveInput(w, f) = "" THEN ActionDefault[f] ELSE resolveInput(w, f)

mergeConsumerConfig(inputs, config, explicit) ==
  [f \in Fields |-> IF f \in DOMAIN config \ explicit THEN config[f] ELSE inputs[f]]

-----------------------------------------------------------------------------
NotRead == [stage |-> "none", values |-> <<>>]
NotOffered == [stage |-> "none", values |-> <<>>]
NobodyFound == [stage |-> "none", address |-> ""]

NoWorkflow == [with |-> <<>>]

SettingsInit ==
  /\ workflow = NoWorkflow
  /\ files = [level \in {"org", "repo"} |-> Absent]
  /\ settings = NotRead
  /\ offered = NotOffered
  /\ assignee = NobodyFound
  /\ aliases = [token |-> "none", skip |-> FALSE, conflict |-> FALSE, deprecated |-> FALSE, preset |-> ""]
  /\ edits = 0

(* A run of one workflow starts, with the files as they are.                  *)
StartRun ==
  /\ workflow = NoWorkflow
  /\ workflow' \in Workflows
  /\ UNCHANGED <<files, settings, offered, assignee, aliases, edits>>

(* A maintainer commits a configuration file.                                 *)
WriteFile ==
  /\ edits < MaxEdits
  /\ \E level \in {"org", "repo"}, text \in FileTexts :
       /\ files' = [files EXCEPT ![level] = text]
       /\ edits' = edits + 1
  /\ settings' = NotRead /\ offered' = NotOffered
  /\ UNCHANGED <<workflow, assignee, aliases>>

(* run() reads its inputs: numbers out of range throw first, then the file    *)
(* at trustbridge_config_path is checked, then address, reserve and issuer.   *)
ReadInputs ==
  /\ workflow # NoWorkflow /\ settings.stage = "none"
  /\ LET given == [f \in Fields |-> GetInput(workflow, f)]
         consumer == readTrustbridgeConfig(workflow.path, files["repo"])
         failure == IF ~workflow.numbersInRange THEN "numbers"
                    ELSE IF consumer.found /\ ~consumer.valid THEN "config"
                    ELSE IF ~workflow.addressValid THEN "address"
                    ELSE IF ~parseMinXlmReserve(given["min_xlm_reserve"]) THEN "reserve"
                    ELSE IF ~assertValidAssetIssuer(given["asset_issuer"]) THEN "issuer" ELSE "" IN
     settings' = [stage |-> IF failure = "" THEN "ready" ELSE failure,
                  values |-> IF failure = ""
                             THEN [given EXCEPT !["fail_on_missing"] =
                                     IF parseBooleanInput(@, TRUE) THEN "true" ELSE "false"]
                             ELSE <<>>]
  /\ UNCHANGED <<workflow, files, offered, assignee, aliases, edits>>

(* The library's pipeline: input, environment, files, default.                *)
MergeLayers ==
  /\ workflow # NoWorkflow /\ offered.stage = "none"
  /\ LET given == [f \in Fields |-> ResolvedOrDefault(workflow, f)]
         explicit == {f \in Fields : workflow.with[f] # ""}
         layers == readTrustbridgeConfigs(workflow.path, files)
         merged == mergeConsumerConfig(given, layers.config, explicit) IN
     offered' = [stage |-> IF ~layers.valid THEN "invalid"
                           ELSE IF validateNetworkAssetCompatibility(merged["horizon_url"], merged["asset_issuer"], aliases.preset)
                                THEN "ready" ELSE "incompatible",
                 values |-> merged]
  /\ UNCHANGED <<workflow, files, settings, assignee, aliases, edits>>

(* Inputs with more than one name: the App token before the token, the        *)
(* canonical maintainer switch before its alias, a preset before a network.   *)
resolveMaintainerSkipInput(canonical, alias) ==
  LET isBoolean(t) == t \in Truths \cup Falsehoods
      value(t) == parseBooleanInput(t, FALSE) IN
  [enabled |-> IF isBoolean(canonical) THEN value(canonical) ELSE isBoolean(alias) /\ value(alias),
   conflict |-> isBoolean(canonical) /\ isBoolean(alias) /\ value(canonical) # value(alias),
   deprecated |-> ~isBoolean(canonical) /\ isBoolean(alias)]
parsePresetInput(network, preset) ==
  IF preset # "" THEN preset
  ELSE IF network = "mainnet" THEN "public"
  ELSE IF network \in {"testnet", "public"} THEN network ELSE ""
resolveGitHubAuthToken(appToken, token) ==
  IF appToken # "" THEN "app" ELSE IF token # "" THEN "token" ELSE "missing"
ResolveAliases ==
  /\ workflow # NoWorkflow /\ aliases.token = "none"
  /\ LET skip == resolveMaintainerSkipInput(workflow.skip, workflow.skipAlias) IN
     aliases' = [token |-> resolveGitHubAuthToken(workflow.appToken, "t"),
                 skip |-> skip.enabled, conflict |-> skip.conflict, deprecated |-> skip.deprecated,
                 preset |-> parsePresetInput(workflow.network, workflow.preset)]
  /\ UNCHANGED <<workflow, files, settings, offered, assignee, edits>>

(* Rosters are JSON objects from logins, in any case, to addresses. Keys that *)
(* differ only in case collapse, and the last one stays, even with no address.*)
Lower == [Ann |-> "ann", ann |-> "ann", bob |-> "bob"]
(* Mutation of parseAssigneeAddressMap: the first of two spellings is kept.   *)
parseAssigneeAddressMapFirst(entries) ==
  [l \in {Lower[e.login] : e \in ToSet(entries)} |->
     entries[Min({i \in DOMAIN entries : Lower[entries[i].login] = l})].address]
parseAssigneeAddressMap(entries) ==
  [l \in {Lower[e.login] : e \in ToSet(entries)} |->
     entries[Max({i \in DOMAIN entries : Lower[entries[i].login] = l})].address]

filterRosterAddressMap(map, allow, deny) ==
  [l \in {k \in DOMAIN map : map[k] \notin deny /\ (allow = {} \/ map[k] \in allow)} |-> map[l]]

LookUpAssignee ==
  /\ assignee.stage = "none"
  /\ \E roster \in Rosters, login \in DOMAIN Lower \cup {""} :
       LET allowed == filterRosterAddressMap(parseAssigneeAddressMap(roster.entries), roster.allow, roster.deny)
           present == Lower[login] \in DOMAIN allowed /\ allowed[Lower[login]] # "" IN
       assignee' = IF roster.form # "object" THEN [stage |-> roster.form, address |-> ""]
                   ELSE IF login = "" THEN [stage |-> "nobody", address |-> ""]
                   ELSE IF ~present THEN [stage |-> "unlisted", address |-> ""]
                   ELSE [stage |-> "found", address |-> allowed[Lower[login]], login |-> login, roster |-> roster]
  /\ UNCHANGED <<workflow, files, settings, offered, aliases, edits>>

SettingsNext == StartRun \/ WriteFile \/ ReadInputs \/ MergeLayers \/ ResolveAliases \/ LookUpAssignee
SettingsSpec == SettingsInit /\ [][SettingsNext]_settingsVars

-----------------------------------------------------------------------------
Accepted(level) == IF level = "repo" /\ workflow.path = "outside" THEN FALSE
                   ELSE files[level].state = "text" /\ validateTrustbridgeConfig(files[level])
Gives(level, f) == /\ Accepted(level) /\ f \in Mentioned(files[level])
                   /\ files[level].cells[f].text # ""
                   /\ files[level].cells[f].text = "null" => files[level].cells[f].quoted

(* Every setting the library offers comes from the nearest source that has    *)
(* one: the input, then the repository's file, then the organisation's, then  *)
(* the environment, then the default, and a file that was rejected gives      *)
(* nothing, whatever the files were before the last commit.                   *)
LayersAgree ==
  offered.stage # "none" =>
    \A f \in Fields :
      LET value == offered.values[f] IN
      CASE workflow.with[f] # "" -> value = workflow.with[f]
        [] workflow.with[f] = "" /\ Gives("repo", f) -> value = files["repo"].cells[f].text
        [] workflow.with[f] = "" /\ ~Gives("repo", f) /\ Gives("org", f) -> value = files["org"].cells[f].text
        [] OTHER -> value = IF workflow.env[f] # "" THEN workflow.env[f] ELSE ActionDefault[f]

(* An address found for an assignee is the one that the last entry with that  *)
(* login, in whatever case, gives, and it is not on the deny list.            *)
OwnAddress ==
  assignee.stage = "found" =>
    LET entries == assignee.roster.entries
        mine == {i \in DOMAIN entries : Lower[entries[i].login] = Lower[assignee.login]} IN
    /\ \E i \in mine : entries[i].address = assignee.address /\ \A j \in mine : j <= i
    /\ assignee.address \notin assignee.roster.deny
=============================================================================
