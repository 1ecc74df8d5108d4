-------------------------- MODULE ProviderCatalogue --------------------------
(***************************************************************************)
(* Which accounts the router has and which models they contribute, built   *)
(* anew for every request from the configuration, and the way back from a  *)
(* selected model to the account that is called for it.                    *)
(*                                                                         *)
(* A configuration is                                                      *)
(*   [nvidia     |-> the legacy NVIDIA_API_KEY account is enabled,         *)
(*    extras     |-> ADDITIONAL_OPENAI_COMPATIBLE_PROVIDERS_JSON, in order,*)
(*    accounts   |-> the account bindings, in the order of their names,    *)
(*    diagnostic |-> the benchmark provider is enabled]                    *)
(* An extra is [origin, provider, scope, usable, models] and an account    *)
(* [origin, provider, scope, derived, valid, enabled, models], where scope *)
(* may be NoScope, derived is what the binding's name says, and models is  *)
(* a sequence of profiles without id, provider, scope and origin, but with *)
(* a name.                                                                 *)
(***************************************************************************)
EXTENDS Integers, Sequences, FiniteSets, SequencesExt, Orderings

CONSTANTS NvidiaModels, DiagnosticModels     \* the two built-in catalogues

Models ==
    [name : STRING, context : Nat, output : Nat, supports : SUBSET STRING, tier : STRING,
     free : BOOLEAN, automatic : BOOLEAN]
Extras ==
    [origin : STRING, provider : STRING, scope : STRING, usable : BOOLEAN, models : Seq(Models)]
Accounts ==
    [origin : STRING, provider : STRING, scope : STRING, derived : STRING, valid : BOOLEAN,
     enabled : BOOLEAN, models : Seq(Models)]
ConfigurationType ==
    [nvidia : BOOLEAN, extras : Seq(Extras), accounts : Seq(Accounts), diagnostic : BOOLEAN]
ASSUME CatalogueAssumption == NvidiaModels \in Seq(Models) /\ DiagnosticModels \in Seq(Models)

NoScope == "no scope"
DefaultScope == "default"

(* A model is given its provider, its scope and an id of its own.          *)
Profile(m, id, provider, scope, origin) ==
    [id |-> id, provider |-> provider, scope |-> scope, origin |-> origin,
     context |-> m.context, output |-> m.output, supports |-> m.supports,
     tier |-> m.tier, free |-> m.free, automatic |-> m.automatic]

Provider(id, scope, origin, models, ids) ==
    [id |-> id, scope |-> scope, origin |-> origin,
     models |-> [i \in DOMAIN models |-> Profile(models[i], ids[i], id, scope, origin)]]

(* The models of an additional provider keep their ids, but for the alias  *)
(* that every provider may offer.  An entry without a key is passed over.  *)
configuredOpenAiCompatibleProviders(extras) ==
    LET usable == Subsequence(extras, {i \in DOMAIN extras : extras[i].usable})
        scope(e) == IF e.scope = NoScope THEN DefaultScope ELSE e.scope
        ids(e) == [i \in DOMAIN e.models |->
                      IF e.models[i].name = "free/default" THEN <<e.provider, "free/default">>
                      ELSE <<e.models[i].name>>]
        configured(e) == Provider(e.provider, scope(e), e.origin, e.models, ids(e))
    IN  [i \in DOMAIN usable |-> configured(usable[i])]

(* An account that is not valid JSON, not a valid definition or has no     *)
(* scope fails them all, unless it is valid and disabled.                  *)
ScopeOf(a) == IF a.scope # NoScope THEN a.scope ELSE a.derived
AccountFails(a) == ~a.valid \/ (a.enabled /\ ScopeOf(a) = NoScope)

configuredProviderAccounts(accounts) ==
    LET enabled == Subsequence(accounts, {i \in DOMAIN accounts : accounts[i].enabled})
        ids(a) == [i \in DOMAIN a.models |-> <<a.provider, ScopeOf(a), a.models[i].name>>]
        configured(a) == Provider(a.provider, ScopeOf(a), a.origin, a.models, ids(a))
    IN  [i \in DOMAIN enabled |-> configured(enabled[i])]

BuiltIn(id, scope, origin, models) ==
    Provider(id, scope, origin, models, [i \in DOMAIN models |-> <<models[i].name>>])
Nvidia == BuiltIn("nvidia", DefaultScope, "NVIDIA_API_KEY", NvidiaModels)
Diagnostic == BuiltIn("benchmark", "personal-diagnostic", "diagnostic", DiagnosticModels)

(* Mutated form: accounts have to differ in what they are configured from. *)
UniqueOrigins(providers) ==
    \A i, j \in DOMAIN providers : providers[i].origin = providers[j].origin => i = j

(* assertUniqueProviderAccounts                                            *)
UniqueAccounts(providers) ==
    \A i, j \in DOMAIN providers :
        (providers[i].id = providers[j].id /\ providers[i].scope = providers[j].scope) => i = j

(* registeredProviders, as [failed, providers].                            *)
registeredProviders(config) ==
    IF \E i \in DOMAIN config.accounts : AccountFails(config.accounts[i])
    THEN [failed |-> TRUE, providers |-> << >>]
    ELSE LET providers == (IF config.nvidia THEN <<Nvidia>> ELSE << >>)
                            \o configuredOpenAiCompatibleProviders(config.extras)
                            \o configuredProviderAccounts(config.accounts)
                            \o (IF config.diagnostic THEN <<Diagnostic>> ELSE << >>)
         IN  IF UniqueAccounts(providers) THEN [failed |-> FALSE, providers |-> providers]
             ELSE [failed |-> TRUE, providers |-> << >>]

Catalog(providers) == FlattenSeq([i \in DOMAIN providers |-> providers[i].models])

(* providerForModel: the first account of that provider and scope.         *)
ServesModel(p, model) == p.id = model.provider /\ p.scope = model.scope

(* candidateRuntimes: what admission chooses from.  catalogOrder is the    *)
(* place among the selections.                                             *)
candidateRuntimes(selections, providers) ==
    LET account(i) == SelectInSeq(providers, LAMBDA p : ServesModel(p, selections[i]))
        served == Ascending({i \in DOMAIN selections : account(i) # 0})
    IN  [k \in DOMAIN served |-> [model |-> selections[served[k]],
                                  provider |-> providers[account(served[k])],
                                  order |-> served[k] - 1]]
=============================================================================
