----------------------------- MODULE ModelPools -----------------------------
(***************************************************************************)
(* Which models the program may ask: the preference rows of the translation*)
(* pools and their legacy copy (services/model_preferences.py), the seeding*)
(* and migration that run at every start, listing and settings access      *)
(* (ai/migration.py, services/settings.py), with the prices of the cached  *)
(* catalogue.  One provider, OpenRouter; a model of unknown price is one   *)
(* the catalogue does not have.                                            *)
(***************************************************************************)
EXTENDS Integers, FiniteSets

CONSTANTS
  PoModels,     \* models of the provider
  PoFreeNamed,  \* those whose name ends in :free
  PoMaxPrio     \* bound on priorities

ASSUME PoAssumption ==
  IsFiniteSet(PoModels) /\ PoFreeNamed \subseteq PoModels /\ PoMaxPrio \in Nat \ {0}

VARIABLES
  poPrefs,     \* rows of ai_model_preferences, purpose translation
  poAudio,     \* an audio_analysis row exists
  poLegacy,    \* rows of openrouter_model_preferences
  poSettings,  \* the one settings row
  poPrice      \* what the cached catalogue says of each model

poPools == <<poPrefs, poLegacy, poSettings>>
poVars == <<poPools, poAudio, poPrice>>

PoPrices == {"free", "paid", "absent"}
PoTiers == {"free", "paid"}
PoPrios == 1..PoMaxPrio
PoNoRow == [tier |-> "none", prio |-> 0, on |-> FALSE]
PoRows == [tier : PoTiers, prio : PoPrios, on : BOOLEAN] \cup {PoNoRow}

PoTypeOK ==
  /\ poPrefs \in [PoModels -> PoRows] /\ poLegacy \in [PoModels -> PoRows]
  /\ poAudio \in BOOLEAN
  /\ poSettings \in [model : PoModels, paidFallback : BOOLEAN,
                     strategy : {"free_only", "paid_only", "free_first"}]
  /\ poPrice \in [PoModels -> PoPrices]

PoIn(rows) == {m \in PoModels : rows[m] # PoNoRow}
PoNoRows == [m \in PoModels |-> PoNoRow]
-----------------------------------------------------------------------------
(* Seeding: seed_legacy_model_preference and migrate_legacy_openrouter.     *)
PoTierOf(m) ==
  CASE poPrice[m] = "free" -> "free"
    [] poPrice[m] = "paid" -> "paid"
    [] OTHER -> IF m \in PoFreeNamed THEN "free" ELSE "paid"

PoSeedLegacy(settings) ==
  [PoNoRows EXCEPT ![settings.model] = [tier |-> PoTierOf(settings.model), prio |-> 1, on |-> TRUE]]
PoSeedSettings(settings) ==
  [settings EXCEPT !.paidFallback = FALSE,
                   !.strategy = IF PoTierOf(settings.model) = "free" THEN "free_only"
                                ELSE "paid_only"]

\* An empty legacy table is seeded with the model of the settings, which get the
\* strategy that goes with it.
PoSeed(settings) ==
  IF PoIn(poLegacy) = {}
    THEN poLegacy' = PoSeedLegacy(settings) /\ poSettings' = PoSeedSettings(settings)
    ELSE poSettings' = settings /\ UNCHANGED poLegacy

\* Legacy rows are copied while there is no row of any purpose.
PoMigrate == poPrefs' = IF PoIn(poPrefs) = {} /\ ~poAudio THEN poLegacy' ELSE poPrefs

PoInit ==   \* the model of the settings, as init_db leaves it
  /\ \E m \in PoModels :
       LET row == [tier |-> IF m \in PoFreeNamed THEN "free" ELSE "paid", prio |-> 1, on |-> TRUE]
       IN /\ poLegacy = [PoNoRows EXCEPT ![m] = row]
          /\ poSettings = [model |-> m, paidFallback |-> FALSE,
                           strategy |-> IF row.tier = "free" THEN "free_only" ELSE "paid_only"]
  /\ poPrefs = poLegacy /\ poAudio = FALSE
  /\ poPrice = [m \in PoModels |-> "absent"]

PoSeeded ==   \* init_db at a restart, or the list of models (ensure_seeded)
  /\ PoSeed(poSettings) /\ PoMigrate
  /\ UNCHANGED <<poAudio, poPrice>>

PoSettingsRead ==   \* any access of the settings seeds, and does not migrate
  /\ PoSeed(poSettings)
  /\ UNCHANGED <<poPrefs, poAudio, poPrice>>

PoSettingsSaved ==
  /\ \E s \in [model : PoModels, paidFallback : BOOLEAN,
               strategy : {"free_only", "paid_only", "free_first"}] :
       PoSeed(s)
  /\ UNCHANGED <<poPrefs, poAudio, poPrice>>
-----------------------------------------------------------------------------
(* ModelPreferenceService: every operation copies what it changed to the    *)
(* legacy table and puts the first enabled model into the settings.         *)
PoMirror(m) == poLegacy' = [poLegacy EXCEPT ![m] = poPrefs'[m]]
PoTop(rows, tier) == {m \in PoModels : /\ rows[m].on /\ rows[m].tier = tier
                       /\ \A n \in PoModels : rows[n].on /\ rows[n].tier = tier
                                              => rows[m].prio <= rows[n].prio}
PoSync ==   \* sync_legacy_openrouter_model
  LET free == PoTop(poPrefs', "free")
      primary == IF free # {} THEN free ELSE PoTop(poPrefs', "paid")
  IN IF primary = {} THEN UNCHANGED poSettings
     ELSE \E m \in primary : poSettings' = [poSettings EXCEPT !.model = m]

PoPool(tier) == {m \in PoModels : poPrefs[m].tier = tier}
\* max(priority) + 1 of the pool; 1 for an empty one
PoNextPrio(tier, p) ==
  /\ \A m \in PoPool(tier) : poPrefs[m].prio < p
  /\ p = 1 \/ \E m \in PoPool(tier) : poPrefs[m].prio = p - 1
PoLast(m, tier) ==
  \E p \in PoPrios :
    PoNextPrio(tier, p) /\ poPrefs' = [poPrefs EXCEPT ![m] = [@ EXCEPT !.tier = tier, !.prio = p]]
PoNew(m, tier) ==
  \E p \in PoPrios :
    PoNextPrio(tier, p) /\ poPrefs' = [poPrefs EXCEPT ![m] = [tier |-> tier, prio |-> p, on |-> TRUE]]

\* Mutant: a new model is not copied to the legacy table.
PoAddUnmirrored(m, tier) ==
  /\ poPrefs[m] = PoNoRow /\ ~(poPrice[m] \in PoTiers /\ poPrice[m] # tier)
  /\ PoNew(m, tier)
  /\ PoSync
  /\ UNCHANGED <<poLegacy, poAudio, poPrice>>

PoAdd(m, tier) ==   \* refused when the catalogue prices it otherwise
  /\ poPrefs[m] = PoNoRow /\ ~(poPrice[m] \in PoTiers /\ poPrice[m] # tier)
  /\ PoNew(m, tier)
  /\ PoMirror(m) /\ PoSync
  /\ UNCHANGED <<poAudio, poPrice>>

PoSwitch(m) ==
  /\ poPrefs[m] # PoNoRow
  /\ poPrefs' = [poPrefs EXCEPT ![m].on = ~@]
  /\ PoMirror(m) /\ PoSync
  /\ UNCHANGED <<poAudio, poPrice>>

PoMove(m, tier) ==   \* to the end of the other pool; no price is looked at
  /\ poPrefs[m] # PoNoRow /\ poPrefs[m].tier # tier /\ PoLast(m, tier)
  /\ PoMirror(m) /\ PoSync
  /\ UNCHANGED <<poAudio, poPrice>>

PoDelete(m) ==
  /\ poPrefs[m] # PoNoRow
  /\ poPrefs' = [poPrefs EXCEPT ![m] = PoNoRow]
  /\ PoMirror(m) /\ PoSync
  /\ UNCHANGED <<poAudio, poPrice>>

\* Mutant: the new order is not copied.
PoReorderUnmirrored(tier) ==
  /\ \E order \in [PoPool(tier) -> 1..Cardinality(PoPool(tier))] :
       /\ \A m, n \in PoPool(tier) : m # n => order[m] # order[n]
       /\ poPrefs' = [m \in PoModels |-> IF m \in PoPool(tier)
                                           THEN [poPrefs[m] EXCEPT !.prio = order[m]] ELSE poPrefs[m]]
  /\ PoSync
  /\ UNCHANGED <<poLegacy, poAudio, poPrice>>

PoReorder(tier) ==   \* every model of the pool, each once
  /\ \E order \in [PoPool(tier) -> 1..Cardinality(PoPool(tier))] :
       /\ \A m, n \in PoPool(tier) : m # n => order[m] # order[n]
       /\ poPrefs' = [m \in PoModels |-> IF m \in PoPool(tier)
                                           THEN [poPrefs[m] EXCEPT !.prio = order[m]] ELSE poPrefs[m]]
  /\ poLegacy' = [m \in PoModels |-> IF m \in PoPool(tier) THEN poPrefs'[m] ELSE poLegacy[m]]
  /\ PoSync
  /\ UNCHANGED <<poAudio, poPrice>>

PoAudioSet ==   \* an audio-analysis model is added, or removed
  /\ poAudio' = ~poAudio
  /\ UNCHANGED <<poPools, poPrice>>
-----------------------------------------------------------------------------
PoPricesChange ==   \* the catalogue is fetched again (Catalogue)
  /\ \E prices \in [PoModels -> PoPrices] : poPrice' = prices
  /\ UNCHANGED <<poPools, poAudio>>
-----------------------------------------------------------------------------
PoUser == \/ PoSettingsSaved \/ PoAudioSet
          \/ \E m \in PoModels : \/ PoSwitch(m) \/ PoDelete(m)
                                 \/ \E tier \in PoTiers : PoAdd(m, tier) \/ PoMove(m, tier)
          \/ \E tier \in PoTiers : PoReorder(tier)
PoSystem == PoSeeded \/ PoSettingsRead \/ PoPricesChange
PoNext == PoUser \/ PoSystem
PoSpec == PoInit /\ [][PoNext]_poVars
-----------------------------------------------------------------------------
\* "Keep openrouter_model_preferences in sync" (_mirror_to_legacy): whatever is
\* added, moved, switched or reordered, a row both tables have is the same.
PoAgree == \A m \in PoIn(poPrefs) \cap PoIn(poLegacy) : poPrefs[m] = poLegacy[m]

\* The order of a pool is total: the router, the settings page and a restart
\* agree on which model is first.
PoOrderTotal == \A m, n \in PoIn(poPrefs) :
  m # n /\ poPrefs[m].tier = poPrefs[n].tier => poPrefs[m].prio # poPrefs[n].prio

\* The two tables and everyone who orders by priority agree.
PoTablesAgree == PoAgree /\ PoOrderTotal

\* Seeding looks at the legacy table, the router at the other one: the strategy
\* and the fallback the user chose survive as long as a model is configured.
PoStrategyKept ==
  [][PoSystem /\ PoIn(poPrefs) # {} => UNCHANGED poSettings]_poVars

\* "A catalog-priced paid model cannot be added to the free pool"
\* (docs/ai-model-routing.md): no step puts one there.
PoFreePoolUnpriced ==
  [][\A m \in PoModels :
       poPrefs[m].tier # "free" /\ poPrefs'[m].tier = "free" /\ poPrefs[m] # PoNoRow
         => poPrice[m] # "paid"]_poVars
=============================================================================
