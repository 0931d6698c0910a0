----------------------------- MODULE AiSettings -----------------------------
(***************************************************************************)
(* Which model a request talks to, and with which key: the settings of a   *)
(* tenant in services/copilot_gateway.py (configurations, save_config,     *)
(* stream), the test of the external provider in api/v1/copilot.py and the *)
(* requests of services/ai.py that do not look at the settings.            *)
(*                                                                         *)
(* The settings are one row.  Saving without a key reads the row and       *)
(* writes it back; using them reads it twice, for the configuration and    *)
(* for the key.  Each read and each write is a transaction of its own.     *)
(***************************************************************************)
EXTENDS Naturals

CONSTANTS
    Requests,  \* handlers at work, of administrators and of others
    Keys,      \* keys administrators enter
    EnvKey,    \* EXTERNAL_AI_API_KEY
    NoKey,
    NoRecord

ASSUME SettingsAssumption == EnvKey \notin Keys /\ NoKey \notin Keys \cup {EnvKey}

VARIABLES
    settings,   \* the provider record "primary" of the tenant
    deployment, \* external_ai_enabled and external_ai_api_key
    req,        \* request -> what its handler holds
    dropped,    \* history: keys that were removed or replaced, and not entered again
    restored    \* history: a save without a key had read the row before a key was dropped

settingsVars == <<settings, deployment, req, dropped, restored>>

-----------------------------------------------------------------------------
\* Names older versions stored: one of LEGACY_LOCAL, one of LEGACY_EXTERNAL.
Providers == {"local", "external"}
Names == Providers \cup {"ollama", "openai"}

Canonical(name) == CASE name = "ollama" -> "local"
                     [] name = "openai" -> "external"
                     [] OTHER -> name

Record == [provider : Names, enabled : BOOLEAN, key : Keys \cup {NoKey}]
Uses == {"none", "save", "chat", "test", "ask"}
Request == [kind : Uses, st : {"idle", "read", "configured", "calling"},
            wanted : Providers, provider : Names, enabled : BOOLEAN,
            key : Keys \cup {EnvKey, NoKey}, late : BOOLEAN]
IdleRequest ==
    [kind |-> "none", st |-> "idle", wanted |-> "local", provider |-> "local",
     enabled |-> FALSE, key |-> NoKey, late |-> FALSE]

SettingsTypeOK ==
    /\ settings \in Record \cup {NoRecord}
    /\ deployment \in [enabled : BOOLEAN, key : {EnvKey, NoKey}]
    /\ req \in [Requests -> Request]
    /\ dropped \in SUBSET Keys
    /\ restored \in BOOLEAN

\* Nothing is stored, or what an older version stored.
SettingsInit ==
    /\ settings \in {NoRecord} \cup [provider : Names, enabled : BOOLEAN, key : {NoKey}]
    /\ deployment \in [enabled : BOOLEAN, key : {EnvKey, NoKey}]
    /\ req = [r \in Requests |-> IdleRequest]
    /\ dropped = {}
    /\ restored = FALSE

-----------------------------------------------------------------------------
(* configurations() *)

\* What is stored, its provider under the name of today.
Normalized == [provider |-> Canonical(settings.provider), enabled |-> settings.enabled]
StoredFor(provider) == settings # NoRecord /\ Normalized.provider = provider

\* Mutant: the name of the provider is looked at as it was stored.
PrimaryOfName ==
    IF settings # NoRecord /\ settings.provider # "external"
    THEN [provider |-> settings.provider, enabled |-> settings.enabled]
    ELSE [provider |-> "local", enabled |-> TRUE]

\* "primary", "fallback" and "offline": what is stored replaces the local defaults unless
\* it is about the external provider.
Primary ==
    IF settings # NoRecord /\ Normalized.provider # "external" THEN Normalized
    ELSE [provider |-> "local", enabled |-> TRUE]

\* Mutant: the deployment has the last word.
ExternalOfDeployment == [provider |-> "external", enabled |-> deployment.enabled]

\* "external": what is stored replaces the deployment's defaults if it is about it.
External ==
    IF settings # NoRecord /\ Normalized.provider = "external" THEN Normalized
    ELSE [provider |-> "external", enabled |-> deployment.enabled]

\* has_key of "external": any key of the two.
HasKey == \/ StoredFor("external") /\ settings.key # NoKey
          \/ deployment.key # NoKey

\* environment_key()
EnvironmentKey(provider) == IF Canonical(provider) = "external" THEN deployment.key ELSE NoKey

\* Mutant: a record without a key leaves the request without one.
StoredKeyOnly(provider) ==
    IF settings = NoRecord THEN EnvironmentKey(provider) ELSE settings.key

\* The key of a call: the stored one or the environment's, by the record that is stored
\* now, whichever provider that is about.
KeyFor(provider) ==
    IF settings # NoRecord /\ settings.key # NoKey THEN settings.key
    ELSE EnvironmentKey(IF settings = NoRecord THEN provider ELSE settings.provider)

-----------------------------------------------------------------------------
(* PUT /models/{slot}; the slot "offline" is another row, which nothing reads. *)

\* The row is written: whoever is between two steps has read an older one.
Written(row, r) ==
    /\ settings' = row
    /\ req' = [q \in Requests |->
                 IF q = r THEN IdleRequest
                 ELSE [req[q] EXCEPT !.late = @ \/ req[q].st # "idle"]]

\* Mutant: an empty key is taken for none given.
EmptyKeepsOld(k) == IF k = NoKey /\ settings # NoRecord THEN settings.key ELSE k

\* The key that is stored for the one given: an empty one removes it.
KeyGiven(k) == k

\* save_config with a key: one write.
SaveWithKey(r, provider, enabled, k) ==
    LET old == IF settings = NoRecord THEN {} ELSE {settings.key} \ {NoKey}
    IN  /\ req[r].st = "idle"
        /\ Written([provider |-> provider, enabled |-> enabled, key |-> KeyGiven(k)], r)
        /\ dropped' = (dropped \cup old) \ {k}
        /\ UNCHANGED <<deployment, restored>>

OldKey == IF settings = NoRecord THEN NoKey ELSE settings.key

\* save_config without a key: what is stored is read,
SaveRead(r, provider, enabled) ==
    /\ req[r].st = "idle"
    /\ req' = [req EXCEPT ![r] = [IdleRequest EXCEPT
                 !.kind = "save", !.st = "read", !.provider = provider, !.enabled = enabled,
                 !.key = OldKey]]
    /\ UNCHANGED <<settings, deployment, dropped, restored>>

\* and written back with the new settings.
SaveWrite(r) ==
    /\ req[r].st = "read"
    /\ Written([provider |-> req[r].provider, enabled |-> req[r].enabled,
                key |-> req[r].key], r)
    /\ restored' = (restored \/ (req[r].late /\ req[r].key \in dropped))
    /\ UNCHANGED <<deployment, dropped>>

-----------------------------------------------------------------------------
(* Using the settings. *)

Began(r, kind, wanted, st, config) ==
    /\ req[r].st = "idle"
    /\ req' = [req EXCEPT ![r] = [IdleRequest EXCEPT
                 !.kind = kind, !.st = st, !.wanted = wanted,
                 !.provider = config.provider, !.enabled = config.enabled]]
    /\ UNCHANGED <<settings, deployment, dropped, restored>>

\* Lines 184-188: the external provider must be enabled twice.
Permitted(config) ==
    Canonical(config.provider) = "external" => deployment.enabled /\ config.enabled

\* gateway.stream for a round of a chat, whichever of the slots it names.
ConfigureChat(r) ==
    /\ Permitted(Primary)
    /\ Began(r, "chat", "local", "configured", Primary)

\* POST /models/test, answered at once unless external AI is enabled and has a key.
ConfigureTest(r) ==
    /\ External.enabled /\ HasKey
    /\ Began(r, "test", "external", "configured", External)

\* The second read; then provider_stream is called.
FetchKey(r) ==
    /\ req[r].st = "configured"
    /\ req' = [req EXCEPT ![r].st = "calling", ![r].key = KeyFor(req[r].provider)]
    /\ UNCHANGED <<settings, deployment, dropped, restored>>

AskAllowed(provider) == provider = "external" => deployment.enabled

\* AIRouter.complete, for POST /ai/chat and automations: the environment decides.
Ask(r, provider) ==
    /\ req[r].st = "idle" /\ AskAllowed(provider)
    /\ req' = [req EXCEPT ![r] = [IdleRequest EXCEPT
                 !.kind = "ask", !.st = "calling", !.wanted = provider,
                 !.provider = provider, !.enabled = TRUE, !.key = EnvironmentKey(provider)]]
    /\ UNCHANGED <<settings, deployment, dropped, restored>>

\* The call ends, or the handler dies in any step.
FinishRequest(r) ==
    /\ req[r].st # "idle"
    /\ req' = [req EXCEPT ![r] = IdleRequest]
    /\ UNCHANGED <<settings, deployment, dropped, restored>>

\* A deployment with other settings starts every replica anew.
Redeploy ==
    /\ deployment' \in [enabled : BOOLEAN, key : {EnvKey, NoKey}]
    /\ req' = [r \in Requests |-> IdleRequest]
    /\ UNCHANGED <<settings, dropped, restored>>

Save(r) ==
    \E provider \in Providers, enabled \in BOOLEAN :
        \/ \E k \in Keys \cup {NoKey} : SaveWithKey(r, provider, enabled, k)
        \/ SaveRead(r, provider, enabled)

SettingsNext ==
    \/ \E r \in Requests : \/ Save(r) \/ SaveWrite(r)
                           \/ ConfigureChat(r) \/ ConfigureTest(r) \/ FetchKey(r)
                           \/ FinishRequest(r)
    \/ \E r \in Requests, provider \in Providers : Ask(r, provider)
    \/ Redeploy

SettingsSpec == SettingsInit /\ [][SettingsNext]_settingsVars

-----------------------------------------------------------------------------
(* Properties. *)

Calling(kind) == {r \in Requests : req[r].st = "calling" /\ req[r].kind = kind}

\* What the settings say of the external provider: the record that is about it, under
\* whichever name, before the deployment.
EnabledInForce ==
    IF settings # NoRecord /\ settings.provider \in {"external", "openai"}
    THEN settings.enabled ELSE deployment.enabled

\* docs/COPILOT.md:5, external AI "is never selected automatically.  There is no cloud
\* fallback", and :7, older provider names are normalized.  Whatever older version wrote
\* the record and whatever is saved between the reads of a request, a chat stays with the
\* local model and only who asked for the external provider reaches it: a request of
\* ai.py where the deployment enables it, the administrator's test where the settings in
\* force do, if nothing was saved since it read them.
NoCloudFallback ==
    /\ \A r \in Requests : req[r].st = "calling" =>
           Canonical(req[r].provider) = req[r].wanted
    /\ \A r \in Calling("ask") : req[r].wanted = "external" => deployment.enabled
    /\ \A r \in Calling("test") : req[r].late \/ EnabledInForce

\* A key that an administrator removed or replaced is neither stored nor sent again; only
\* saves and calls that had begun before can still put it back or use it.
RemovedStaysRemoved ==
    ~restored => /\ settings # NoRecord => settings.key \notin dropped
                 /\ \A r \in Calling("chat") \cup Calling("test") :
                        req[r].key \in dropped => req[r].late

\* What passed the check "enabled and configured" is called with a key, if nothing was
\* saved since and no settings of the local model are stored: these hide the
\* environment's key from the test.
TestHasKey ==
    \A r \in Calling("test") : ~req[r].late /\ ~StoredFor("local") => req[r].key # NoKey

\* A key is used exactly where the settings put it: not after its removal, and where it
\* is configured it is not missed.
KeysInPlace == SettingsTypeOK /\ RemovedStaysRemoved /\ TestHasKey
=============================================================================
