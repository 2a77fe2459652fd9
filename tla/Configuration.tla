---------------------------- MODULE Configuration ----------------------------
(***************************************************************************)
(* The configuration (src/config.rs), what makes one valid, and the        *)
(* updates that the settings program makes to it (src/bin/voxtype-         *)
(* settings.rs).  Of a provider's fields and of the audio settings only    *)
(* their validity and one distinction are kept.                            *)
(***************************************************************************)
EXTENDS Naturals, SequencesExt

CONSTANTS
  Ids,     \* of providers and of profiles
  Mock,    \* that of the provider and the profile of the default configuration
  None     \* Option::None

ASSUME ConfigurationAssumption == Mock \in Ids

AudioConfigs == {"default", "invalid"}
ProviderConfigs == {"mock", "first", "second", "invalid"}
Limits == {None, 0, 1}

Maps(values) == UNION {[ids -> values] : ids \in SUBSET Ids}

Configurations ==
  [default   : Ids,
   profiles  : Maps(Seq(Ids)),
   providers : Maps(ProviderConfigs),
   quotas    : Maps(Limits \ {None}),
   audio     : AudioConfigs]

DefaultConfig ==
  [default   |-> Mock,
   profiles  |-> [id \in {Mock} |-> <<Mock>>],
   providers |-> [id \in {Mock} |-> "mock"],
   quotas    |-> [id \in {} |-> 1],
   audio     |-> "default"]

-----------------------------------------------------------------------------
(***************************************************************************)
(* Validation.                                                             *)
(***************************************************************************)

\* validate_routes
RoutesResolve(config) ==
  \A profile \in DOMAIN config.profiles :
    /\ ToSet(config.profiles[profile]) \subseteq DOMAIN config.providers
    /\ \A i, j \in DOMAIN config.profiles[profile] :
         config.profiles[profile][i] = config.profiles[profile][j] => i = j

\* validate_quotas
QuotasResolve(config) ==
  /\ DOMAIN config.quotas \subseteq DOMAIN config.providers
  /\ \A id \in DOMAIN config.quotas : config.quotas[id] # 0

\* validate
Valid(config) ==
  /\ config.default \in DOMAIN config.profiles
  /\ RoutesResolve(config)
  /\ \A id \in DOMAIN config.providers : config.providers[id] # "invalid"
  /\ QuotasResolve(config)
  /\ config.audio # "invalid"

-----------------------------------------------------------------------------
(***************************************************************************)
(* The updates.                                                            *)
(***************************************************************************)

CreateUpdates ==
  [kind : {"create"}, id : Ids, provider : {"first", "invalid"}, makeDefault : BOOLEAN]
GeneralUpdates == [kind : {"general"}, default : Ids, audio : AudioConfigs]
ProviderUpdates == [kind : {"provider"}, id : Ids, provider : {"second", "invalid"}]
QuotaUpdates == [kind : {"quota"}, id : Ids, limit : Limits]

Updates == CreateUpdates \cup GeneralUpdates \cup ProviderUpdates \cup QuotaUpdates

With(f, id, value) == [i \in DOMAIN f \cup {id} |-> IF i = id THEN value ELSE f[i]]
Without(f, id) == [i \in DOMAIN f \ {id} |-> f[i]]

\* apply_provider_create
Created(update, config) ==
  [config EXCEPT !.providers = With(@, update.id, update.provider),
                 !.profiles = With(@, update.id, <<update.id>>),
                 !.default = IF update.makeDefault THEN update.id ELSE @]

\* save_general
GeneralSaved(update, config) ==
  [config EXCEPT !.default = update.default, !.audio = update.audio]

\* save_provider
ProviderSaved(update, config) ==
  [config EXCEPT !.providers = With(@, update.id, update.provider)]

\* save_quota
QuotaSaved(update, config) ==
  [config EXCEPT !.quotas = IF update.limit = None THEN Without(@, update.id)
                            ELSE With(@, update.id, update.limit)]

Applied(update, config) ==
  CASE update.kind = "create"   -> Created(update, config)
    [] update.kind = "general"  -> GeneralSaved(update, config)
    [] update.kind = "provider" -> ProviderSaved(update, config)
    [] update.kind = "quota"    -> QuotaSaved(update, config)

\* What the handlers refuse before anything is saved.
Refused(update, config) ==
  CASE update.kind = "create" ->
         \/ update.id \in DOMAIN config.providers \cup DOMAIN config.profiles
         \/ ~ Valid(Created(update, config))
    [] update.kind = "general" -> FALSE
    [] update.kind = "provider" ->
         update.id \in DOMAIN config.providers => config.providers[update.id] = "mock"
    [] OTHER -> update.id \notin DOMAIN config.providers
=============================================================================
