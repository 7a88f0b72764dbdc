--------------------------- MODULE ProviderConfig ---------------------------
(***************************************************************************)
(* From the environment to a usable model: the root application reads its  *)
(* Settings (config.py), checks the fallback chain in the lifespan hook    *)
(* (main.py) and builds the chat agent's model at the first POST /chat     *)
(* (api/deps.py -> llm/factory.py -> llm/fallback.py and the builders).    *)
(* Three different places judge the same environment at three different    *)
(* times; the properties say what each may rely on the others for.         *)
(*                                                                         *)
(* Names are the entries of FALLBACK_ORDER as written: the validator of    *)
(* the watsonx credentials lower-cases them, every other reader does not.  *)
(***************************************************************************)
EXTENDS Naturals, Sequences, FiniteSets

CONSTANTS Orders,      \* the values of FALLBACK_ORDER, split at the commas
          LitellmHere  \* whether the optional package litellm is installed

ASSUME ConfigAssumption == \A order \in Orders : order \in Seq(STRING)

Providers == {"ollama", "watsonx", "anthropic", "bedrock", "fallback"}
Members   == {"ollama", "watsonx", "anthropic", "bedrock"}
Stubs     == {"anthropic", "bedrock"}
Blank     == ""

\* An environment variable that holds a string: missing, set but empty, set.
Text == {"unset", "empty", "set"}

Settings == [provider  : Providers,
             order     : Orders,
             ollama    : Text,        \* OLLAMA_MODEL_NAME
             watsonx   : Text,        \* the four WATSONX_* credentials, as one
             transport : {"sdk", "litellm"}]

Outcomes == {"ok", "TypeError", "ValueError", "RuntimeError",
             "NotImplementedError", "RecursionError"}

VARIABLES settings, \* the frozen Settings of the process
          stage,    \* "loading", "rejected", "loaded", "refused", "serving"
          chatAgent, \* the outcome of building the chat agent, "none" before
          models    \* the providers its model consists of, in order

configVars == <<settings, stage, chatAgent, models>>

-----------------------------------------------------------------------------
\* Settings

\* What is left of a list without some names.
Without(list, names) ==
    LET kept[n \in 0..Len(list)] ==
          IF n = 0 THEN <<>>
          ELSE IF list[n] \in names THEN kept[n - 1] ELSE Append(kept[n - 1], list[n])
    IN  kept[Len(list)]

\* The list every reader derives: stripped entries, blank ones dropped.
Parsed(s) == Without(s.order, {Blank})

Entries(s) == {Parsed(s)[i] : i \in DOMAIN Parsed(s)}

Lower(m) == IF m = "WATSONX" THEN "watsonx" ELSE m

OllamaUnnamed(s) == s.provider = "ollama" /\ s.ollama \in {"unset", "empty"}

NoKnownMember(s) == s.provider = "fallback" /\ Entries(s) \cap Members = {}

WatsonxSelected_DirectOnly(s) == s.provider = "watsonx"
WatsonxSelected(s) ==
    \/ s.provider = "watsonx"
    \/ s.provider = "fallback" /\ \E m \in Entries(s) : Lower(m) = "watsonx"

Accepted(s) ==
    /\ ~OllamaUnnamed(s)
    /\ ~NoKnownMember(s)
    /\ WatsonxSelected(s) => s.watsonx = "set"

-----------------------------------------------------------------------------
\* Construction

\* What building one provider other than "fallback" ends in.
BuildOne(s, m) ==
    CASE m = "ollama"  -> IF s.ollama = "unset" THEN "TypeError" ELSE "ok"
      [] m = "watsonx" -> CASE s.transport = "litellm" /\ ~LitellmHere -> "ValueError"
                            [] s.transport = "litellm" /\ s.watsonx = "unset" -> "TypeError"
                            [] OTHER -> "ok"
      [] m \in Stubs   -> "NotImplementedError"
      [] OTHER         -> "ValueError"

\* A member "fallback" rebuilds the very list that names it, without end.
BuildMember(s, m) == IF m = "fallback" THEN "RecursionError" ELSE BuildOne(s, m)

RealMembers(s) == Without(Parsed(s), Stubs)

\* Members are built in order and the first failure is the outcome.
FirstOf(S) == CHOOSE i \in S : \A j \in S : i <= j

BuildFallback(s) ==
    LET real   == RealMembers(s)
        broken == {i \in DOMAIN real : BuildMember(s, real[i]) # "ok"}
    IN  CASE real = <<>>  -> "RuntimeError"
          [] broken # {}  -> BuildMember(s, real[FirstOf(broken)])
          [] OTHER        -> "ok"

GetModel(s) == IF s.provider = "fallback" THEN BuildFallback(s) ELSE BuildOne(s, s.provider)

Built(s) == IF s.provider = "fallback" THEN RealMembers(s) ELSE <<s.provider>>

-----------------------------------------------------------------------------
\* The process

ConfigInit ==
    /\ settings \in Settings
    /\ stage = "loading"
    /\ chatAgent = "none"
    /\ models = <<>>

\* get_settings in the lifespan hook: an invalid environment stops the boot.
Load ==
    /\ stage = "loading"
    /\ stage' = IF Accepted(settings) THEN "loaded" ELSE "rejected"
    /\ UNCHANGED <<settings, chatAgent, models>>

\* The eager dry run of the fallback chain; its model is thrown away.
DryRun_Skipped ==
    /\ stage = "loaded"
    /\ stage' = "serving"
    /\ UNCHANGED <<settings, chatAgent, models>>

DryRun ==
    /\ stage = "loaded"
    /\ stage' = IF settings.provider = "fallback" /\ BuildFallback(settings) # "ok"
                THEN "refused" ELSE "serving"
    /\ UNCHANGED <<settings, chatAgent, models>>

\* A POST /chat resolves get_chat_agent.  lru_cache keeps a built agent and
\* forgets an exception, so a failed build is tried again by the next request.
Chat ==
    /\ stage = "serving"
    /\ chatAgent # "ok"
    /\ chatAgent' = GetModel(settings)
    /\ models' = IF chatAgent' = "ok" THEN Built(settings) ELSE <<>>
    /\ UNCHANGED <<settings, stage>>

ConfigNext == Load \/ DryRun \/ Chat

ConfigSpec == ConfigInit /\ [][ConfigNext]_configVars

-----------------------------------------------------------------------------
(* Type invariant: the stages and outcomes of the code, and a model list   *)
(* that exists exactly while there is an agent.                            *)
ConfigTypeOK ==
    /\ settings \in Settings
    /\ stage \in {"loading", "rejected", "loaded", "refused", "serving"}
    /\ chatAgent \in Outcomes \cup {"none"}
    /\ models # <<>> <=> chatAgent = "ok"

(* A process that serves under LLM_PROVIDER=fallback never fails to build  *)
(* its agent: every misconfiguration of the chain stops the boot, also the *)
(* ones Settings lets through (a misspelt member beside a known one, a     *)
(* nested "fallback", a chain of stubs).  (main.py:69-86)                  *)
FallbackCheckedAtBoot ==
    stage = "serving" /\ settings.provider = "fallback" => chatAgent \in {"none", "ok"}

(* No model is ever built on watsonx without its four credentials: the     *)
(* guards the builders call unreachable are unreachable, whatever way      *)
(* watsonx was selected and however it is spelt.  (config.py:264-288)      *)
WatsonxComplete ==
    \A i \in DOMAIN models : models[i] = "watsonx" => settings.watsonx = "set"

=============================================================================
