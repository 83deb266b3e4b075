------------------------------ MODULE LintersDB ------------------------------
(***************************************************************************)
(* pkg/lint/lintersdb: which of the known linters a configuration selects, *)
(* and the jobs they are merged into.                                      *)
(*                                                                         *)
(* A configuration of linters is a record                                  *)
(*   [enable, disable, presets: sets of names,                             *)
(*    enableAll, disableAll, fast: BOOLEAN].                               *)
(* A map from names to linter.Config is the set of its values.  Two known  *)
(* linters may have one name, when a plugin takes the name of a linter     *)
(* that is built in: the builder that comes last wins, as when the map is  *)
(* filled in the order of the builders.                                    *)
(***************************************************************************)
EXTENDS LintersTable, FiniteSets

CONSTANT
    NameRank        \* NameRank[n]: the rank of the name n in byte order

ASSUME NameRankAssumption ==
    /\ IsFiniteSet(DOMAIN NameRank)
    /\ \A m, n \in DOMAIN NameRank : NameRank[m] \in Nat /\ (NameRank[m] = NameRank[n] => m = n)

LastLinter == "nolintlint"

AllPresets ==
    {"bugs", "comment", "complexity", "error", "format", "import", "metalinter",
     "module", "performance", "sql", "style", "test", "unused"}

-----------------------------------------------------------------------------
(* Plugins are on by default.  A Go plugin always counts as slow, a module *)
(* plugin does when it asks for types.                                     *)
GoPlugin(name) ==
    [WithLoadForGoAnalysis(WithEnabledByDefault(NewConfig(Reporter(name, TypesInfo))))
        EXCEPT !.origin = 3]

ModulePlugin(name, mode) ==
    LET lc == [WithEnabledByDefault(NewConfig(Reporter(name, mode))) EXCEPT !.origin = 2]
    IN  IF mode = Syntax THEN lc ELSE WithLoadForGoAnalysis(lc)

(* A custom linter is [type, path, at, registered, mode]; a relative path  *)
(* is looked up from the directory of the configuration file.  An unknown  *)
(* type is for neither builder.                                            *)
GoPlugins(custom) == {n \in DOMAIN custom : custom[n].type \in {"", "goplugin"}}
ModulePlugins(custom) == {n \in DOMAIN custom : custom[n].type = "module"}

GoPluginOpens(s, cfgDir) == s.at = (IF s.path = "absolute" THEN "" ELSE cfgDir)
GoPluginsLoad(custom, cfgDir) ==
    \A n \in GoPlugins(custom) : GoPluginOpens(custom[n], cfgDir)
ModulePluginsLoad(custom) == \A n \in ModulePlugins(custom) : custom[n].registered

PluginBuilders(custom) ==
    {GoPlugin(n) : n \in GoPlugins(custom)}
        \union {ModulePlugin(n, custom[n].mode) : n \in ModulePlugins(custom)}

-----------------------------------------------------------------------------
Names(lcs) == {lc.name : lc \in lcs}
IsDeprecated(lc) == lc.deprecation # DeprecationNone
IsRetired(lc) == lc.deprecation > DeprecationWarning

GetLinterConfigs(lcs, name) == {lc \in lcs : name \in AllNames(lc)}
GetAllLinterConfigsForPreset(lcs, preset) ==
    {lc \in lcs : ~IsDeprecated(lc) /\ preset \in lc.presets}
GetAllEnabledByDefaultLinters(lcs) == {lc \in lcs : lc.enabledByDefault}

(* Of several linters with one name a map keeps the one stored last.       *)
StoredLast(lcs) ==
    LET plugins == {lc \in lcs : lc.origin > 1}
    IN  {lc \in lcs : ~\E p \in plugins : p.name = lc.name /\ p.origin > lc.origin}
Store(active, lcs) ==
    LET names == Names(lcs)
    IN  {lc \in active : lc.name \notin names} \union StoredLast(lcs)

LinterConfigsToMap(lcs) == StoredLast({lc \in lcs : ~IsRetired(lc)})

StartingSet(lcs, cfg) ==
    IF cfg.disableAll \/ cfg.presets # {} THEN {}
    ELSE LinterConfigsToMap(
            IF cfg.enableAll THEN lcs ELSE GetAllEnabledByDefaultLinters(lcs))

InPresets(lcs, presets) == UNION {GetAllLinterConfigsForPreset(lcs, p) : p \in presets}
WithNames(lcs, names) == UNION {GetLinterConfigs(lcs, n) : n \in names}

(* typecheck is not a real linter and cannot be disabled.                  *)
AddTypecheck(lcs, active) ==
    IF "typecheck" \in Names(active) THEN active
    ELSE Store(active, GetLinterConfigs(lcs, "typecheck"))

(* --fast applied after the linters that are enabled by name are added.    *)
BuildFastLast(lcs, cfg) ==
    LET preset   == Store(StartingSet(lcs, cfg), InPresets(lcs, cfg.presets))
        enabled  == Store(preset, WithNames(lcs, cfg.enable))
        quick    == IF cfg.fast THEN {lc \in enabled : ~lc.slow} ELSE enabled
        disabled == Names(WithNames(lcs, cfg.disable))
    IN  AddTypecheck(lcs, {lc \in quick : lc.name \notin disabled})

Build(lcs, cfg) ==
    LET preset   == Store(StartingSet(lcs, cfg), InPresets(lcs, cfg.presets))
        quick    == IF cfg.fast THEN {lc \in preset : ~lc.slow} ELSE preset
        enabled  == Store(quick, WithNames(lcs, cfg.enable))
        disabled == Names(WithNames(lcs, cfg.disable))
    IN  AddTypecheck(lcs, {lc \in enabled : lc.name \notin disabled})

-----------------------------------------------------------------------------
(* What the runner is given: a linter, or many merged into a metalinter.   *)
Job(lc) ==
    [name |-> lc.name, loadMode |-> lc.loadMode, slow |-> lc.slow,
     changesTypes |-> lc.changesTypes, members |-> {lc.name}]

(* Only the load mode and the slowness of the members are kept.            *)
MetaLinter(lcs) ==
    [name |-> "goanalysis_metalinter",
     loadMode |-> UNION {lc.loadMode : lc \in lcs},
     slow |-> \E lc \in lcs : lc.slow,
     changesTypes |-> FALSE, members |-> Names(lcs)]

Mergeable(active) ==
    {lc \in active : lc.linter.goanalysis /\ lc.linter.mode # WholeProgram}

CombineGoAnalysisLinters(active) ==
    LET merged == Mergeable(active)
    IN  IF Cardinality(merged) <= 1 THEN {Job(lc) : lc \in active}
        ELSE {Job(lc) : lc \in active \ merged} \union {MetaLinter(merged)}

Precedes(a, b) ==
    \/ b.name = LastLinter
    \/ /\ a.name # LastLinter
       /\ IF a.changesTypes # b.changesTypes THEN b.changesTypes
          ELSE NameRank[a.name] < NameRank[b.name]

Sorted(jobs) ==
    [i \in 1..Cardinality(jobs) |->
        CHOOSE j \in jobs : Cardinality({k \in jobs \ {j} : Precedes(k, j)}) = i - 1]

GetEnabledLintersMap(lcs, cfg) == Build(lcs, cfg)
(* The list built apart from the map, without --fast.                      *)
GetOptimizedLintersAtAnySpeed(lcs, cfg) ==
    Sorted(CombineGoAnalysisLinters(Build(lcs, [cfg EXCEPT !.fast = FALSE])))
GetOptimizedLinters(lcs, cfg) == Sorted(CombineGoAnalysisLinters(Build(lcs, cfg)))

-----------------------------------------------------------------------------
(* Validator.                                                              *)
UnknownNames(lcs, cfg) ==
    {n \in cfg.enable \union cfg.disable : GetLinterConfigs(lcs, n) = {}}

ValidatePresets(cfg) ==
    cfg.presets \subseteq AllPresets /\ (cfg.presets # {} => ~cfg.enableAll)

ValidateLinters(lcs, cfg) == UnknownNames(lcs, cfg) = {} /\ ValidatePresets(cfg)

(* Its warnings: names that are disabled though retired, and alternatives. *)
RetiredWarnings(lcs, cfg) ==
    {lc.name : lc \in {l \in WithNames(lcs, cfg.disable) : IsRetired(l)}}
AlternativeNamesDeprecation(lcs, cfg) ==
    (cfg.enable \union cfg.disable) \intersect UNION {lc.alternatives : lc \in lcs}
=============================================================================
