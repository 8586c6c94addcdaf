------------------------------ MODULE LlmBackend ------------------------------
(***************************************************************************)
(* Which model decides: LlmService (llm.service.ts) keeps the backend, the *)
(* model and the custom provider in memory, saves the first two without    *)
(* waiting, and reads them back at boot only.  A turn reads them one after *)
(* another, between awaits.  Around it: the bundle of an applied strategy, *)
(* which writes the saved keys, the environment, which is applied at every *)
(* boot, and the operator, who edits keys, providers and plugins.          *)
(*                                                                         *)
(* Statements on the database run one at a time in the order they were     *)
(* issued: `writes` is their queue.                                        *)
(***************************************************************************)
EXTENDS Integers, FiniteSets, Sequences

CONSTANTS
    Models, Haiku, GeminiModels,  \* model ids; the default one; those that start with "gemini"
    CustomIds,                    \* providers that can be registered
    Keyless,                      \* those that need no key: ollama
    DefaultModelOf,               \* default_model of each
    EnvBackend, EnvModel,         \* LLM_BACKEND and LLM_MODEL, or Unset
    Unset,
    Bundle,                       \* llm.backend and llm.model of a strategy
    Patches,                      \* what the operator may send: absent fields are Unset
    Turns,
    MaxLlmActs, MaxLlmFaults, MaxBoots   \* bounds

Known == {"anthropic", "openai", "gemini", "subscription", "custom"}
Backends == Known \cup {"other"}      \* patchConfig takes any string
Saved == {"backend", "model"}
\* The environment's variables: one for each of the services, two for openai.
KeyNames == {"ANTHROPIC_API_KEY", "GEMINI_API_KEY", "LLM_API_KEY", "OPENAI_API_KEY"} \cup CustomIds

ASSUME LlmAssumption ==
    /\ Haiku \in Models /\ GeminiModels \subseteq Models /\ Unset \notin Models \cup Backends
    /\ Keyless \subseteq CustomIds /\ DefaultModelOf \in [CustomIds -> Models]
    /\ Unset \notin CustomIds
    /\ EnvBackend \in Backends \cup {Unset} /\ EnvModel \in Models \cup {Unset}
    /\ Bundle \in [backend : Backends, model : Models]
    /\ Patches \subseteq [backend : Backends \cup {Unset}, model : Models \cup {Unset},
                          id : CustomIds \cup {"", Unset}]
    /\ {MaxLlmActs, MaxLlmFaults, MaxBoots} \subseteq Nat

VARIABLES
    llm,         \* _backend, _model, _activeCustomId
    registered,  \* _customProviders
    saved,       \* KV llm.backend and llm.model
    writes,      \* statements issued and not yet run
    keys,        \* variables of the environment that are set
    extra,       \* the claude-subscription plugin is active
    applying,    \* StrategyService.apply: the next key it writes, 0 when none runs
    llmBoot,     \* "restoring", "syncing", "up"
    turn,        \* complete(), under way
    llmActs, llmFaults, boots,
    foreign,     \* history: keys whose saved value is not this service's
    inForce      \* history: what each turn could have seen since it was called

llmBootVars == <<llmBoot, boots>>
worldVars == <<registered, keys, extra>>
storeVars == <<saved, writes, foreign, applying>>
llmVars == <<llm, turn, inForce, llmActs, llmFaults, llmBootVars, worldVars, storeVars>>

EnvDefaults ==
    [backend |-> IF EnvBackend = Unset THEN "openai" ELSE EnvBackend,
     model |-> IF EnvModel = Unset THEN Haiku ELSE EnvModel,
     active |-> Unset]

NoTurn == [pc |-> "idle", extra |-> FALSE, tools |-> FALSE, via |-> Unset, provider |-> Unset,
           model |-> Unset, ready |-> FALSE, calls |-> FALSE]
Nothing == [backends |-> {}, models |-> {}]

LlmInit ==
    /\ llm = EnvDefaults /\ registered = {}
    /\ saved = [k \in Saved |-> Unset] /\ writes = <<>>
    /\ keys \in {{}, {"LLM_API_KEY"}, {"OPENAI_API_KEY", "ANTHROPIC_API_KEY"}}
    /\ extra = FALSE /\ applying = 0 /\ llmBoot = "restoring"
    /\ turn = [t \in Turns |-> NoTurn]
    /\ llmActs = 0 /\ llmFaults = 0 /\ boots = 1
    /\ foreign = {} /\ inForce = [t \in Turns |-> Nothing]

-----------------------------------------------------------------------------
(* What the service answers about itself *)

\* getReadiness().credentialPresent
CredentialPresent ==
    \/ llm.backend = "subscription"
    \/ llm.backend = "custom" /\ llm.active # Unset
    \/ llm.backend = "openai" /\ keys \cap {"LLM_API_KEY", "OPENAI_API_KEY"} # {}
    \/ llm.backend = "anthropic" /\ "ANTHROPIC_API_KEY" \in keys
    \/ llm.backend = "gemini" /\ "GEMINI_API_KEY" \in keys

\* The branch complete() takes.
Branch(subscription) ==
    IF subscription THEN "subscription"
    ELSE IF llm.backend = "other" THEN "anthropic" ELSE llm.backend

\* What each branch throws on before it asks anyone.
Refuses(via) ==
    \/ via = "openai" /\ keys \cap {"LLM_API_KEY", "OPENAI_API_KEY"} = {}
    \/ via = "anthropic" /\ "ANTHROPIC_API_KEY" \notin keys
    \/ via = "gemini" /\ "GEMINI_API_KEY" \notin keys
    \/ via = "custom" /\ (llm.active \notin registered \/ llm.active \notin keys \cup Keyless)

\* The model a branch puts into its request.
ModelSent(via, model, provider) ==
    CASE via = "gemini" /\ model \notin GeminiModels -> "gemini-2.0-flash"
      [] via = "custom" /\ model = Haiku -> DefaultModelOf[provider]
      [] OTHER -> model

-----------------------------------------------------------------------------
(* A turn *)

Sees(t, config) ==
    [backends |-> inForce[t].backends \cup {config.backend},
     models |-> inForce[t].models \cup {config.model}]
\* Every turn under way has seen what is in force after a step.
Witnessed ==
    inForce' = [t \in Turns |-> IF turn[t].pc = "idle" THEN inForce[t] ELSE Sees(t, llm')]

Complete(t) ==
    /\ llmBoot = "up" /\ turn[t].pc = "idle"
    /\ \E tools \in BOOLEAN :
           turn' = [turn EXCEPT ![t] = [NoTurn EXCEPT !.pc = "called", !.tools = tools]]
    /\ inForce' = [inForce EXCEPT ![t] = [backends |-> {llm.backend}, models |-> {llm.model}]]
    /\ UNCHANGED <<llm, llmActs, llmFaults, worldVars, storeVars, llmBootVars>>

\* isExtraActive answers; complete() goes on later.
ReadExtra(t) ==
    /\ turn[t].pc = "called"
    /\ turn' = [turn EXCEPT ![t].pc = "asked", ![t].extra = extra]
    /\ UNCHANGED <<llm, inForce, llmActs, llmFaults, worldVars, storeVars, llmBootVars>>

TakeBranch(t) ==
    /\ turn[t].pc = "asked"
    /\ LET via == Branch(turn[t].extra)
       IN  turn' = [turn EXCEPT ![t].pc = IF Refuses(via) THEN "failed" ELSE "loading",
                                ![t].via = via,
                                ![t].provider = IF via = "custom" THEN llm.active ELSE Unset,
                                ![t].ready = CredentialPresent]
    /\ UNCHANGED <<llm, inForce, llmActs, llmFaults, worldVars, storeVars, llmBootVars>>

\* Mutant: the model is the one the process started with.
SendRequestAsStarted(t) ==
    /\ turn[t].pc = "loading"
    /\ turn' = [turn EXCEPT ![t].pc = "sent",
                            ![t].model =
                                ModelSent(turn[t].via, EnvDefaults.model, turn[t].provider)]
    /\ UNCHANGED <<llm, inForce, llmActs, llmFaults, worldVars, storeVars, llmBootVars>>

\* The skills are loaded; the model is read only now.
SendRequest(t) ==
    /\ turn[t].pc = "loading"
    /\ turn' = [turn EXCEPT ![t].pc = "sent",
                            ![t].model = ModelSent(turn[t].via, llm.model, turn[t].provider)]
    /\ UNCHANGED <<llm, inForce, llmActs, llmFaults, worldVars, storeVars, llmBootVars>>

\* The service answers; native tool calls are parsed where tools were offered.
Answer(t) ==
    /\ turn[t].pc = "sent"
    /\ \E calls \in BOOLEAN :
           /\ calls => (turn[t].tools /\ turn[t].via \in {"openai", "custom"})
           /\ turn' = [turn EXCEPT ![t].pc = "answered", ![t].calls = calls]
    /\ UNCHANGED <<llm, inForce, llmActs, llmFaults, worldVars, storeVars, llmBootVars>>

\* A read of the database, the service or its time limit throws.
TurnThrows(t) ==
    /\ turn[t].pc \in {"called", "loading", "sent"} /\ llmFaults < MaxLlmFaults
    /\ turn' = [turn EXCEPT ![t].pc = "failed"] /\ llmFaults' = llmFaults + 1
    /\ UNCHANGED <<llm, inForce, llmActs, worldVars, storeVars, llmBootVars>>

TurnEnds(t) ==
    /\ turn[t].pc \in {"answered", "failed"}
    /\ turn' = [turn EXCEPT ![t] = NoTurn] /\ inForce' = [inForce EXCEPT ![t] = Nothing]
    /\ UNCHANGED <<llm, llmActs, llmFaults, worldVars, storeVars, llmBootVars>>

-----------------------------------------------------------------------------
(* The operator *)

Act == llmBoot = "up" /\ llmActs < MaxLlmActs /\ llmActs' = llmActs + 1

\* What is saved of a configuration.
SavedForm(config) == [k \in Saved |-> IF k = "backend" THEN config.backend ELSE config.model]
Write(k, v, who) == [key |-> k, value |-> v, by |-> who]
\* The two writes that patchConfig issues and does not wait for.
Persist(config) ==
    <<Write("model", config.model, "llm"), Write("backend", config.backend, "llm")>>

\* patchConfig: an empty provider id clears the active one.
Patched(patch) ==
    [backend |-> IF patch.id \in CustomIds THEN "custom"
                 ELSE IF patch.backend = Unset THEN llm.backend ELSE patch.backend,
     model |-> IF patch.model = Unset THEN llm.model ELSE patch.model,
     active |-> IF patch.id = Unset THEN llm.active
                ELSE IF patch.id = "" THEN Unset ELSE patch.id]

\* Mutant: what was in force before the patch is saved.
PatchWithOld(patch) ==
    /\ llm' = Patched(patch)
    /\ writes' = writes \o Persist(llm)
    /\ Witnessed

PatchWith(patch) ==
    /\ llm' = Patched(patch)
    /\ writes' = writes \o Persist(llm')
    /\ Witnessed

PatchConfig(patch) ==
    /\ Act /\ PatchWith(patch)
    /\ UNCHANGED <<turn, llmFaults, saved, foreign, applying, worldVars, llmBootVars>>

AddCustomProvider(id) ==
    /\ Act /\ registered' = registered \cup {id}
    /\ UNCHANGED <<llm, turn, inForce, llmFaults, keys, extra, storeVars, llmBootVars>>

\* The backend stays "custom" when its provider goes.
RemoveCustomProvider(id) ==
    /\ Act /\ registered' = registered \ {id}
    /\ llm' = [llm EXCEPT !.active = IF @ = id THEN Unset ELSE @]
    /\ UNCHANGED <<turn, inForce, llmFaults, keys, extra, storeVars, llmBootVars>>

\* CredentialsService.set: the file and the environment of this process.
SetCredential(k) ==
    /\ Act /\ keys' \in {keys \cup {k}, keys \ {k}}
    /\ UNCHANGED <<llm, turn, inForce, llmFaults, registered, extra, storeVars, llmBootVars>>

SwitchExtra ==
    /\ Act /\ extra' = ~extra
    /\ UNCHANGED <<llm, turn, inForce, llmFaults, registered, keys, storeVars, llmBootVars>>

-----------------------------------------------------------------------------
(* StrategyService.apply, for the two keys of its bundle that are the LLM's *)

BundleOrder == <<"backend", "model">>

ApplyStrategy ==
    /\ Act /\ applying = 0 /\ applying' = 1
    /\ UNCHANGED <<llm, turn, inForce, llmFaults, saved, writes, foreign, worldVars, llmBootVars>>

\* The next key is issued when the last one has been written.
ApplyKey ==
    /\ applying \in DOMAIN BundleOrder
    /\ \A i \in DOMAIN writes : writes[i].by = "llm"
    /\ LET k == BundleOrder[applying]
       IN  writes' = Append(writes, Write(k, Bundle[k], "strategy"))
    /\ applying' = applying + 1
    /\ UNCHANGED <<llm, turn, inForce, llmActs, llmFaults, saved, foreign, worldVars, llmBootVars>>

\* The last key is written: apply() goes on to strategy.applied, and returns.
ApplyEnds ==
    /\ applying = Len(BundleOrder) + 1
    /\ \A i \in DOMAIN writes : writes[i].by = "llm"
    /\ applying' = 0
    /\ UNCHANGED <<llm, turn, inForce, llmActs, llmFaults, saved, writes, foreign,
                   worldVars, llmBootVars>>

-----------------------------------------------------------------------------
(* The database *)

SaveRuns ==
    /\ writes # <<>>
    /\ LET w == Head(writes)
       IN  /\ saved' = [saved EXCEPT ![w.key] = w.value]
           /\ foreign' = IF w.by = "llm" THEN foreign \ {w.key} ELSE foreign \cup {w.key}
    /\ writes' = Tail(writes)
    /\ UNCHANGED <<llm, turn, inForce, llmActs, llmFaults, applying, worldVars, llmBootVars>>

\* patchConfig swallows a failed write; apply() throws and stops.
SaveFails ==
    /\ writes # <<>> /\ llmFaults < MaxLlmFaults /\ llmFaults' = llmFaults + 1
    /\ LET w == Head(writes)
       IN  /\ foreign' = IF w.by = "llm" THEN foreign \cup {w.key} ELSE foreign
           /\ applying' = IF w.by = "strategy" THEN 0 ELSE applying
    /\ writes' = Tail(writes)
    /\ UNCHANGED <<llm, turn, inForce, llmActs, saved, worldVars, llmBootVars>>

-----------------------------------------------------------------------------
(* Boot *)

Differs(config) == {k \in Saved : saved[k] \notin {Unset, SavedForm(config)[k]}}

\* The process stops and a new one is constructed; what was not written is lost.
Restart ==
    /\ boots < MaxBoots /\ boots' = boots + 1
    /\ llm' = EnvDefaults /\ registered' = {} /\ writes' = <<>>
    /\ applying' = 0 /\ llmBoot' = "restoring"
    /\ turn' = [t \in Turns |-> NoTurn] /\ inForce' = [t \in Turns |-> Nothing]
    /\ foreign' = Differs(llm')
    /\ UNCHANGED <<llmActs, llmFaults, keys, extra, saved>>

\* onModuleInit
Restored ==
    [llm EXCEPT !.backend = IF saved["backend"] = Unset THEN @ ELSE saved["backend"],
                !.model = IF saved["model"] = Unset THEN @ ELSE saved["model"]]
OnModuleInit ==
    /\ llmBoot = "restoring" /\ llmBoot' = "syncing"
    /\ \/ llm' = Restored /\ UNCHANGED llmFaults
       \/ llmFaults < MaxLlmFaults /\ llmFaults' = llmFaults + 1 /\ UNCHANGED llm
    /\ foreign' = Differs(llm')
    /\ UNCHANGED <<turn, inForce, llmActs, saved, writes, applying, boots, worldVars>>

\* applyLlmConfigFromEnv: the environment wins at every boot, where it names both.
ApplyEnv ==
    /\ llmBoot = "syncing" /\ llmBoot' = "up"
    /\ IF Unset \in {EnvBackend, EnvModel} \/ (llm.backend = EnvBackend /\ llm.model = EnvModel)
       THEN UNCHANGED <<llm, inForce, writes>>
       ELSE PatchWith([backend |-> EnvBackend, model |-> EnvModel, id |-> Unset])
    /\ UNCHANGED <<turn, llmActs, llmFaults, saved, foreign, applying, boots, worldVars>>

-----------------------------------------------------------------------------
LlmNext ==
    \/ \E t \in Turns :
          Complete(t) \/ ReadExtra(t) \/ TakeBranch(t) \/ SendRequest(t) \/ Answer(t)
            \/ TurnThrows(t) \/ TurnEnds(t)
    \/ \E patch \in Patches : PatchConfig(patch)
    \/ \E id \in CustomIds : AddCustomProvider(id) \/ RemoveCustomProvider(id)
    \/ \E k \in KeyNames : SetCredential(k)
    \/ SwitchExtra \/ ApplyStrategy \/ ApplyKey \/ ApplyEnds
    \/ SaveRuns \/ SaveFails
    \/ Restart \/ OnModuleInit \/ ApplyEnv

LlmSpec == LlmInit /\ [][LlmNext]_llmVars

-----------------------------------------------------------------------------
(* Properties *)

TurnPC == {"idle", "called", "asked", "loading", "sent", "answered", "failed"}
LlmTypeOK ==
    /\ llm \in [backend : Backends, model : Models, active : CustomIds \cup {Unset}]
    /\ registered \subseteq CustomIds /\ keys \subseteq KeyNames /\ extra \in BOOLEAN
    /\ saved \in [Saved -> Backends \cup Models \cup {Unset}]
    /\ saved["backend"] \in Backends \cup {Unset} /\ saved["model"] \in Models \cup {Unset}
    /\ applying \in 0..Len(BundleOrder) + 1 /\ llmBoot \in {"restoring", "syncing", "up"}
    /\ \A t \in Turns : turn[t].pc \in TurnPC /\ turn[t].extra \in BOOLEAN
    /\ foreign \subseteq Saved /\ llmFaults \in 0..MaxLlmFaults

\* A request goes out by a backend and with a model that were each in force at
\* some time since the turn was called, however the operator patches meanwhile:
\* complete() reads the one before the skills are loaded and the other after.
RequestOfItsTime ==
    \A t \in Turns : turn[t].pc \in {"sent", "answered"} =>
        /\ \/ turn[t].via = "subscription" /\ turn[t].extra
           \/ turn[t].via = "anthropic" /\ "other" \in inForce[t].backends
           \/ turn[t].via \in inForce[t].backends
        /\ \E m \in inForce[t].models : turn[t].model = ModelSent(turn[t].via, m, turn[t].provider)

\* No request is made while getReadiness() reports a missing credential, except
\* by the subscription plugin or by the branch a misspelt backend falls into:
\* what the doctor and the log at boot call inoperative is.
UnreadyDecidesNothing ==
    \A t \in Turns : turn[t].pc \in {"loading", "sent", "answered"} =>
        \/ turn[t].ready \/ turn[t].via = "subscription"
        \/ turn[t].via = "anthropic" /\ "other" \in inForce[t].backends

\* Once the writes of patchConfig have run, the saved backend and model are
\* those in memory, unless a write failed or something else wrote the key.
SavedFollowsMemory ==
    writes = <<>> =>
        \A k \in Saved \ foreign : saved[k] \in {Unset, SavedForm(llm)[k]}
=============================================================================
