------------------------------- MODULE Startup -------------------------------
(***************************************************************************)
(* How a process gets its settings and builds its adapters                 *)
(* (core/config.py, core/config_sources.py, plugins.py, bootstrap.py and   *)
(* the secrets adapters).                                                  *)
(*                                                                         *)
(* A settings layer is a function from the keys it sets to their values,   *)
(* so that DOMAIN is the code's "is this key set".  The keys modelled are  *)
(* the ones a validator reads together with another key; a key's value is  *)
(* taken from the few values the validators tell apart.  An operator edits *)
(* the TOML file, lints it on its own (`config lint`), sets environment    *)
(* variables and secrets, and starts the process.                          *)
(***************************************************************************)
EXTENDS Naturals, FiniteSets

CONSTANTS CfMaxFileKeys,  \* how many keys are added to the first file
          CfMaxEnvKeys    \* how many environment variables are set

ASSUME CfBounds == CfMaxFileKeys \in Nat /\ CfMaxEnvKeys \in Nat

VARIABLES cfFile,    \* the TOML file's flat keys
          cfEnv,     \* the process environment (and .env)
          cfVault,   \* the secrets store: the secrets it holds
          cfDown,    \* the secrets store does not answer
          cfLint,    \* what the last lint of this file said
          cfProcess  \* the process: its state and, once up, what was built

cfVars == <<cfFile, cfEnv, cfVault, cfDown, cfLint, cfProcess>>

(* Secret-typed keys (SecretStr), which no file may hold.                  *)
CfSecrets == {"gemini_api_key", "openai_api_key", "llm_openai_api_key", "anthropic_api_key",
              "notification_signing_keys", "job_queue_rq_redis_url"}

(* A signing key is not a key at all or shorter than the default minimum,  *)
(* as long as that, or longer than any minimum that is set.                *)
CfSigningKeys == {"bad", "usual", "longer"}

(* The value of a key that is left empty.                                  *)
CfBlank == ""

(* The other keys, with the values an operator may give them.              *)
CfPlain ==
  [environment |-> {"production"}, database_url |-> {"set"}, artifact_workdir |-> {"set"},
   llm_provider |-> {"auto", "none", "gemini", "openai-compatible", "anthropic"},
   llm_enabled |-> {"true", "false"}, llm_openai_base_url |-> {"set"},
   llm_openai_model |-> {"set"}, anthropic_model |-> {"set"}, gemini_model |-> {"set", CfBlank},
   registry_backend |-> {"mlflow", "filesystem"},
   mlflow_tracking_uri |-> {"set"}, registry_fs_root |-> {"set"},
   artifact_store_backend |-> {"filesystem", "fsspec"},
   artifact_store_root |-> {"set"}, artifact_store_url |-> {"set"},
   job_queue_backend |-> {"rq", "inline"}, notification_backend |-> {"webhook", "none"},
   notification_webhook_url |-> {"set"}, notification_signing_min_key_bytes |-> {"raised"},
   deployment_backend |-> {"kubernetes"}, k8s_api_url |-> {"set"},
   delivery_strategy |-> {"canary", "blue_green"},
   delivery_policy_file |-> {"then_canary", "unreadable"},
   secrets_backend |-> {"env", "file", "vault"}, secrets_dir |-> {"set"},
   secrets_vault_url |-> {"set"}, secrets_vault_token_file |-> {"set"},
   sandbox_backend |-> {"docker"}, sandbox_docker_image |-> {"tag", "digest"},
   api_keys |-> {"no_digest"}, drift_mappers |-> {"unreadable"},
   limits |-> {"chunk_over_max", "late_lease", "no_trace_endpoint", "canary_is_live"}]

CfValues(k) ==
  IF k = "notification_signing_keys" THEN CfSigningKeys
  ELSE IF k \in CfSecrets THEN {"set"} ELSE CfPlain[k]

(* The default of every plain key that is not simply unset (None or "").   *)
CfDefaults ==
  [environment |-> "development", llm_provider |-> "gemini", llm_enabled |-> "true",
   gemini_model |-> "set", registry_backend |-> "mlflow", artifact_store_backend |-> "filesystem",
   mlflow_tracking_uri |-> "local", registry_fs_root |-> "local",
   artifact_store_root |-> "local", job_queue_backend |-> "database",
   notification_backend |-> "log", deployment_backend |-> "registry-alias",
   delivery_strategy |-> "shadow", secrets_backend |-> "env",
   sandbox_backend |-> "subprocess"]

Capability(config, required, production, features) ==
  [config |-> config, required |-> required, production |-> production, features |-> features]

(* What the adapters declare (Capability): plugins.adapters.               *)
CfAdapters ==
  [mlflow |-> Capability({}, {"mlflow_tracking_uri"}, {"mlflow_tracking_uri"}, {}),
   filesystem |-> Capability({"artifact_store_backend"}, {}, {"registry_fs_root"}, {}),
   gemini |-> Capability({}, {"gemini_api_key", "gemini_model"}, {}, {}),
   openai_compatible |-> Capability({}, {"llm_openai_base_url", "llm_openai_model"}, {}, {}),
   anthropic |-> Capability({}, {"anthropic_api_key", "anthropic_model"}, {}, {}),
   fs_store |-> Capability({}, {}, {"artifact_store_root"}, {}),
   fsspec |-> Capability({}, {"artifact_store_url"}, {}, {}),
   database |-> Capability({}, {}, {}, {}),
   rq |-> Capability({}, {"job_queue_rq_redis_url"}, {}, {}),
   inline |-> Capability({}, {}, {}, {"development_only"}),
   log |-> Capability({}, {}, {}, {}),
   webhook |-> Capability({}, {"notification_webhook_url"}, {"notification_signing_keys"}, {}),
   registry_alias |-> Capability({}, {}, {}, {}),
   kubernetes |-> Capability({}, {"k8s_api_url"}, {}, {"traffic_split"}),
   env |-> Capability({}, {}, {}, {}),
   file |-> Capability({"secrets_dir"}, {"secrets_dir"}, {}, {}),
   vault |-> Capability({"secrets_vault_url", "secrets_vault_token_file"},
                        {"secrets_vault_url", "secrets_vault_token_file"}, {}, {})]

(* Selector -> the adapter a selector value names.                         *)
CfSelectors ==
  [registry_backend |-> [mlflow |-> "mlflow", filesystem |-> "filesystem"],
   deployment_backend |-> [v \in {"registry-alias", "kubernetes"} |->
                            IF v = "kubernetes" THEN v ELSE "registry_alias"],
   artifact_store_backend |-> [filesystem |-> "fs_store", fsspec |-> "fsspec"],
   llm_provider |-> [v \in {"gemini", "openai-compatible", "anthropic"} |->
                      IF v = "openai-compatible" THEN "openai_compatible" ELSE v],
   job_queue_backend |-> [database |-> "database", rq |-> "rq", inline |-> "inline"],
   notification_backend |-> [webhook |-> "webhook", log |-> "log"],
   secrets_backend |-> [env |-> "env", file |-> "file", vault |-> "vault"]]

CfDisabled == [llm_provider |-> "none", notification_backend |-> "none"]
CfSubordinate == {"artifact_store_backend"}
CfProductionRequired == {"database_url", "artifact_workdir"}

-----------------------------------------------------------------------------
(***************************************************************************)
(* One validation of the merged layers.  A candidate is a record           *)
(*   set       model_fields_set: the keys some layer or the provider       *)
(*             choice gave a value                                         *)
(*   value     the value of every key ("" when there is none)              *)
(*   external  _secrets_external: the file lint, where secrets are         *)
(*             expected from elsewhere.                                    *)
(***************************************************************************)
CfKeys == CfSecrets \cup DOMAIN CfPlain

(* A layer on top of another hides the values of the keys it sets.         *)
Over(f, g) == [k \in DOMAIN f \cup DOMAIN g |-> IF k \in DOMAIN f THEN f[k] ELSE g[k]]

(* A choice of provider gives a value to each of its keys that has none:   *)
(* a default, or the other OpenAI key.                                     *)
Has(data, key) == key \in DOMAIN data /\ data[key] # ""
Choose(data, provider, keys) ==
  Over(Over([llm_provider |-> provider], [k \in {x \in keys : ~ Has(data, x)} |-> "set"]), data)

(* Mutant: the OpenAI key picks its provider without that provider's URL.  *)
LlmProviderFromKeyNoUrl(data) ==
  LET auto == "llm_provider" \in DOMAIN data => data["llm_provider"] = "auto"
      gemini == Has(data, "gemini_api_key")
      openai == Has(data, "llm_openai_api_key") \/ Has(data, "openai_api_key")
      anthropic == Has(data, "anthropic_api_key")
  IN  CASE ~ auto -> data
        [] auto /\ gemini -> Choose(data, "gemini", {})
        [] auto /\ ~ gemini /\ openai
             -> Choose(data, "openai-compatible", {"llm_openai_api_key", "llm_openai_model"})
        [] auto /\ ~ gemini /\ ~ openai /\ anthropic
             -> Choose(data, "anthropic", {"anthropic_model"})
        [] OTHER -> [k \in DOMAIN data \ {"llm_provider"} |-> data[k]]

(* Which provider an unset or "auto" LLM_PROVIDER becomes, and the keys    *)
(* that choice fills in; without any API key the default provider stays.   *)
LlmProviderFromKey(data) ==
  LET auto == "llm_provider" \in DOMAIN data => data["llm_provider"] = "auto"
      gemini == Has(data, "gemini_api_key")
      openai == Has(data, "llm_openai_api_key") \/ Has(data, "openai_api_key")
      anthropic == Has(data, "anthropic_api_key")
  IN  CASE ~ auto -> data
        [] auto /\ gemini -> Choose(data, "gemini", {})
        [] auto /\ ~ gemini /\ openai
             -> Choose(data, "openai-compatible",
                       {"llm_openai_api_key", "llm_openai_base_url", "llm_openai_model"})
        [] auto /\ ~ gemini /\ ~ openai /\ anthropic
             -> Choose(data, "anthropic", {"anthropic_model"})
        [] OTHER -> [k \in DOMAIN data \ {"llm_provider"} |-> data[k]]

Candidate(data, external) ==
  LET chosen == LlmProviderFromKey(data) IN
  [set |-> DOMAIN chosen,
   value |-> Over(Over(chosen, CfDefaults), [k \in CfKeys |-> ""]),
   external |-> external]

(* selected_adapters, for every selector.                                  *)
Selected(c) ==
  {s \in DOMAIN CfSelectors :
     /\ s = "llm_provider" => c.value["llm_enabled"] = "true"
     /\ s \in DOMAIN CfDisabled => c.value[s] # CfDisabled[s]}

(* plugins.resolve: the capability of the adapter a selector names.        *)
Resolve(c, selector) == CfAdapters[CfSelectors[selector][c.value[selector]]]

(* _adapter_production_keys: a subordinate selector's adapter counts when  *)
(* an adapter in use names the selector among its keys.                    *)
AdapterProductionKeys(c) ==
  LET referenced == UNION {Resolve(c, s).config : s \in Selected(c) \ CfSubordinate}
      counted == {s \in Selected(c) : s \in CfSubordinate => s \in referenced}
  IN  UNION {Resolve(c, s).production : s \in counted}

ProductionExplicit(c) ==
  c.value["environment"] = "production" =>
    /\ \A s \in Selected(c) : "development_only" \notin Resolve(c, s).features
    /\ \A k \in CfProductionRequired \cup AdapterProductionKeys(c) :
         k \in c.set \/ (c.external /\ k \in CfSecrets)

(* A missing LLM API key is no startup error; any other required key is.   *)
AdapterKeysPresent(c) ==
  \A s \in Selected(c) : \A k \in Resolve(c, s).required :
    \/ c.external /\ k \in CfSecrets
    \/ s = "llm_provider" /\ k \in CfSecrets
    \/ c.value[k] # ""

LlmSwitchConsistent(c) ==
  ~ (/\ c.value["llm_enabled"] = "true" /\ "llm_enabled" \in c.set
     /\ c.value["llm_provider"] = CfDisabled.llm_provider)

SandboxImagePinned(c) ==
  c.value["sandbox_backend"] = "docker" => c.value["sandbox_docker_image"] = "digest"

LoadPolicyFile(c) == c.value["delivery_policy_file"] # "unreadable"

(* The policy files are read while the settings are validated, and the     *)
(* canary alias may not be one of the other aliases.                       *)
PolicyFilesLoaded(c) == LoadPolicyFile(c) /\ c.value["limits"] # "canary_is_live"

NeedsTrafficSplit(c) ==
  LET continues == c.value["delivery_policy_file"] = "then_canary" IN
  \/ c.value["delivery_strategy"] = "canary"
  \/ c.value["delivery_strategy"] = "shadow" /\ continues

DeliveryFitsDeployment(c) ==
  NeedsTrafficSplit(c) => "traffic_split" \in Resolve(c, "deployment_backend").features

(* The validators that compare two numbers or ask for one more key.        *)
DataLimitsConsistent(c) == c.value["limits"] # "chunk_over_max"
JobTimingsConsistent(c) == c.value["limits"] # "late_lease"
TracingComplete(c) == c.value["limits"] # "no_trace_endpoint"

ApiKeysWellFormed(c) == c.value["api_keys"] # "no_digest"

(* A secret is compared with a plain key: each signing key must be as long *)
(* as the configured minimum.                                              *)
SigningKeysValid(c) ==
  LET keys == c.value["notification_signing_keys"] IN
  /\ keys # "bad"
  /\ c.value["notification_signing_min_key_bytes"] = "raised" => keys # "usual"

DriftMappersValid(c) == c.value["drift_mappers"] # "unreadable"

Valid(c) ==
  /\ ApiKeysWellFormed(c)
  /\ DataLimitsConsistent(c)
  /\ SigningKeysValid(c)
  /\ PolicyFilesLoaded(c)
  /\ DriftMappersValid(c)
  /\ LlmSwitchConsistent(c)
  /\ JobTimingsConsistent(c)
  /\ TracingComplete(c)
  /\ ProductionExplicit(c)
  /\ AdapterKeysPresent(c)
  /\ SandboxImagePinned(c)
  /\ DeliveryFitsDeployment(c)

-----------------------------------------------------------------------------
(* The file's own values: a secret in it is refused before validation.     *)
ReadConfigFile == DOMAIN cfFile \cap CfSecrets = {}

(* The secrets layer asks the backend that the higher layers, or else the  *)
(* file, name.  It is consulted before anything is validated, so a store   *)
(* without its address, or one that does not answer, refuses the start.    *)
SecretsBackend ==
  LET known == Over(cfEnv, cfFile) IN
  IF "secrets_backend" \in DOMAIN known THEN known.secrets_backend ELSE "env"

CfKnown == DOMAIN cfEnv \cup DOMAIN cfFile
FileSecretsOpen == "secrets_dir" \in CfKnown /\ ~ cfDown
VaultSecretsRead == {"secrets_vault_url", "secrets_vault_token_file"} \subseteq CfKnown /\ ~ cfDown

SecretsReachable ==
  /\ SecretsBackend = "file" => FileSecretsOpen
  /\ SecretsBackend = "vault" => VaultSecretsRead

(* Every secret the higher layers do not already set.                      *)
SecretsLayer ==
  IF SecretsBackend = "env" THEN << >> ELSE [k \in DOMAIN cfVault \ DOMAIN cfEnv |-> cfVault[k]]

(* Highest layer first: environment, secrets store, file.                  *)
Layers == Over(Over(cfEnv, SecretsLayer), cfFile)

LoadSettings == Candidate(Layers, FALSE)

(* build_llm: no adapter when the LLM is off or lacks its key or model.    *)
BuildLlm(c) ==
  /\ "llm_provider" \in Selected(c)
  /\ \A k \in Resolve(c, "llm_provider").required : c.value[k] # ""

(* One adapter for every selector in use, each built by its factory.       *)
BuildAdapters(c) == {CfSelectors[s][c.value[s]] : s \in Selected(c) \ {"llm_provider"}}

BuildContainer(c) ==
  [state |-> "up",
   adapters |-> BuildAdapters(c),
   llm |-> IF BuildLlm(c) THEN c.value["llm_provider"] ELSE "none"]

-----------------------------------------------------------------------------
CfNotUp(state) == [state |-> state, adapters |-> {}, llm |-> "none"]

(* The file an operator starts from: empty, the smallest one that          *)
(* ENVIRONMENT=production accepts, one with a Vault, or with a cluster.    *)
CfFirstFiles ==
  {<< >>, [environment |-> "production", database_url |-> "set", artifact_workdir |-> "set",
           mlflow_tracking_uri |-> "set"],
   [secrets_backend |-> "vault", secrets_vault_url |-> "set", secrets_vault_token_file |-> "set"],
   [deployment_backend |-> "kubernetes", k8s_api_url |-> "set"]}

(* What a secrets store holds once it is filled.                           *)
CfStores ==
  {[k \in CfSecrets |-> IF k = "notification_signing_keys" THEN keys ELSE "set"] :
     keys \in CfSigningKeys}
  \cup {[k \in {key} |-> "set"] : key \in {"openai_api_key", "anthropic_api_key"}}

CfInit ==
  /\ cfFile \in CfFirstFiles /\ cfEnv = << >> /\ cfVault = << >> /\ cfDown = FALSE
  /\ cfLint = "unknown" /\ cfProcess = CfNotUp("none")

CfEditFile(k) ==
  /\ cfProcess.state = "none" /\ cfLint = "unknown" /\ cfEnv = << >> /\ cfVault = << >>
  /\ k \notin DOMAIN cfFile
  /\ \E f \in CfFirstFiles : /\ DOMAIN f \subseteq DOMAIN cfFile
                             /\ Cardinality(DOMAIN cfFile \ DOMAIN f) < CfMaxFileKeys
  /\ \E v \in CfValues(k) :
        cfFile' = Over([x \in {k} |-> v], cfFile)
  /\ UNCHANGED <<cfEnv, cfVault, cfDown, cfLint, cfProcess>>

CfLintFile ==
  /\ cfLint = "unknown" /\ cfProcess.state = "none"
  /\ cfLint' = IF ReadConfigFile /\ Valid(Candidate(cfFile, TRUE)) THEN "clean" ELSE "problem"
  /\ UNCHANGED <<cfFile, cfEnv, cfVault, cfDown, cfProcess>>

CfSetEnv(k) ==
  /\ cfProcess.state = "none" /\ cfLint # "unknown" /\ cfVault = << >>
  /\ k \notin DOMAIN cfEnv /\ Cardinality(DOMAIN cfEnv) < CfMaxEnvKeys
  /\ \E v \in CfValues(k) :
        cfEnv' = Over([x \in {k} |-> v], cfEnv)
  /\ UNCHANGED <<cfFile, cfVault, cfDown, cfLint, cfProcess>>

CfFillStore ==
  /\ cfProcess.state = "none" /\ cfVault = << >> /\ SecretsBackend # "env" /\ cfLint # "unknown"
  /\ cfVault' \in CfStores /\ cfDown' \in BOOLEAN
  /\ UNCHANGED <<cfFile, cfEnv, cfLint, cfProcess>>

(* Settings that hold do not make every factory succeed.                   *)
CfStart ==
  /\ cfProcess.state = "none" /\ cfLint # "unknown"
  /\ cfProcess' \in IF ReadConfigFile /\ SecretsReachable /\ Valid(LoadSettings)
                    THEN {BuildContainer(LoadSettings), CfNotUp("failed")}
                    ELSE {CfNotUp("refused")}
  /\ UNCHANGED <<cfFile, cfEnv, cfVault, cfDown, cfLint>>

CfNext ==
  \/ \E k \in CfKeys : CfEditFile(k) \/ CfSetEnv(k)
  \/ CfLintFile
  \/ CfFillStore
  \/ CfStart

CfSpec == CfInit /\ [][CfNext]_cfVars

-----------------------------------------------------------------------------
CfTypeOK ==
  /\ DOMAIN cfFile \subseteq CfKeys /\ DOMAIN cfEnv \subseteq CfKeys
  /\ DOMAIN cfVault \subseteq CfSecrets /\ cfDown \in BOOLEAN
  /\ cfLint \in {"unknown", "clean", "problem"}

(***************************************************************************)
(* A file that lints clean starts wherever only secrets are added to it:   *)
(* when the environment sets secret keys only, the secrets store answers,  *)
(* every secret an adapter other than the LLM needs is supplied and the    *)
(* signing keys among them are as long as the file asks, the process does  *)
(* not refuse its configuration.  The keys that happen to be present       *)
(* choose the LLM provider, so lint validates another provider than the    *)
(* one that starts (lint_config_file, Settings validators).  The signing   *)
(* keys are the one secret a validator looks into, which no lint can see.  *)
(***************************************************************************)
CfLintHolds ==
  /\ cfLint = "clean" /\ cfProcess.state = "refused"
  /\ DOMAIN cfEnv \subseteq CfSecrets
  => \/ ~ SecretsReachable
     \/ ~ SigningKeysValid(LoadSettings)
     \/ \E s \in Selected(LoadSettings) \ {"llm_provider"} :
          LET a == Resolve(LoadSettings, s) IN
          \E k \in CfSecrets \cap (a.required \cup a.production) : k \notin DOMAIN Layers

=============================================================================
