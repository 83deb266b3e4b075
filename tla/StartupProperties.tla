-------------------------- MODULE StartupProperties --------------------------
(***************************************************************************)
(* What a user of Startup's commands may rely on.                          *)
(***************************************************************************)
EXTENDS Startup

Decided == cmd = "run" /\ stage \in {"load", "lint", "done"}

(* The linters that are on are those that the configuration asks for: what *)
(* presets, enable-all or the defaults bring, without the slow ones when   *)
(* only fast ones are wanted, and in any case what is enabled by name and  *)
(* not disabled.  This is the outcome of build, stated without its order.  *)
ByDefault(lc) ==
    IF cfg.presets # {} THEN lc.presets \intersect cfg.presets # {} /\ ~IsDeprecated(lc)
    ELSE ~cfg.disableAll /\ ~IsRetired(lc) /\ (cfg.enableAll \/ lc.enabledByDefault)

NamedIn(lc, names) == AllNames(lc) \intersect names # {}

EffectiveSet ==
    Decided =>
        active = Names({lc \in Known :
                    \/ lc.name = "typecheck"
                    \/ /\ ~NamedIn(lc, cfg.disable)
                       /\ \/ NamedIn(lc, cfg.enable)
                          \/ ByDefault(lc) /\ ~(cfg.fast /\ lc.slow)})

(* `linters` shows as enabled what `run` runs with the same flags, when    *)
(* both read the same file.                                                *)
ListedIsRun ==
    Decided /\ listed.ended /\ listed.dir = cfgDir => listed.names = active \ {"typecheck"}

(* A flag is in effect, and a list of the file is, unless a deprecated     *)
(* option has taken its place, of which the user is warned, or             *)
(* --enable-only is given.  An empty version of Go is the one detected.    *)
Replaces ==
    [excludeFiles |-> "skipFiles", excludeDirs |-> "skipDirs", formats |-> "format",
     excludeGenerated |-> "excludeGeneratedStrict", showStats |-> "runShowStats",
     excludeDirsUseDefault |-> "skipDirsUseDefault"]

EnableOnly == "enableOnly" \in DOMAIN input.flags /\ input.flags.enableOnly # {}

Replaced(o) ==
    \/ o \in DOMAIN Replaces /\ <<"warning", Replaces[o]>> \in log
    \/ EnableOnly /\ o \in LinterLists \union DOMAIN LintersFlags
    \/ o = "go" /\ input.flags.go = 0

InEffect(o, value) == IF o \in Lists THEN value \subseteq cfg[o] ELSE value = cfg[o]

FlagsAreHonoured ==
    Decided =>
        /\ \A o \in DOMAIN input.flags \intersect Options :
              Replaced(o) \/ InEffect(o, input.flags[o])
        /\ \A o \in DOMAIN FileOptions \intersect Lists :
              Replaced(o) \/ InEffect(o, FileOptions[o])
        /\ EnableOnly => cfg.enable = input.flags.enableOnly /\ cfg.disableAll

(* The packages are loaded with all that any enabled linter needs, and not *)
(* with types when only fast linters are wanted and no other is enabled by *)
(* name.  Every file asked for is in exactly one package.                  *)
NeedsTypes(lc) == lc.linter.goanalysis /\ lc.linter.mode >= TypesInfo

FilesAskedFor ==
    UNION {d.files \union (IF cfg.tests THEN d.tests \union d.xtests ELSE {}) :
              d \in BuildArgs({Args[i] : i \in DOMAIN Args}, input.tree)}

PackagesSuffice ==
    stage = "lint" =>
        /\ (\E lc \in Known : lc.name \in active /\ NeedsTypes(lc)) => LoadForAnalysis \subseteq mode
        /\ cfg.fast /\ LoadForAnalysis \subseteq mode =>
              \E lc \in Known : NeedsTypes(lc) /\ NamedIn(lc, cfg.enable)
        /\ LoadFiles \subseteq mode
        /\ \A f \in FilesAskedFor : Cardinality({p \in pkgs : f \in p.files}) = 1

(* A linter that the user enables by name has done its work when the run   *)
(* ends without an error, or the user was told about it.                   *)
Asked ==
    IF EnableOnly THEN input.flags.enableOnly
    ELSE UNION {f.enable : f \in {g \in {input.flags, FileOptions} : "enable" \in DOMAIN g}}

NoSilentSkip ==
    cmd = "run" /\ stage = "done" =>
        \A n \in Asked : \A lc \in GetLinterConfigs(Known, n) :
            lc.name \in working \/ \E entry \in log : entry[2] \in AllNames(lc)

(* Each linter of its own checks runs those it is configured for.          *)
VetChecks(s) ==
    LET chosen == IF s.enableAll THEN AllAnalyzers \ s.disable
                  ELSE (s.enable \intersect AllAnalyzers)
                               \union ((IF s.disableAll THEN {} ELSE DefaultAnalyzers) \ s.disable)
    IN  (chosen \union (IF s.checkShadowing THEN {"shadow"} ELSE {}))
            \ (IF cfg.go >= 2 * 22 THEN {"loopclosure"} ELSE {})

CriticCheck(s, c) ==
    /\ c \notin s.disabledChecks /\ CheckTags[c] \intersect s.disabledTags = {}
    /\ \/ s.enableAll \/ c \in s.enabledChecks \/ CheckTags[c] \intersect s.enabledTags # {}
       \/ ~s.disableAll /\ IsEnabledByDefault(c)

ReviveRule(s, r) ==
    IF r \in DOMAIN s.rules THEN ~s.rules[r].disabled
    ELSE s.enableAllRules \/ (s = DefaultRevive /\ r \in DefaultRules)

ChecksAsAsked ==
    /\ "govet" \in DOMAIN checks => checks["govet"] = VetChecks(cfg.govet)
    /\ "gocritic" \in DOMAIN checks =>
          checks["gocritic"] = {c \in AllChecks : CriticCheck(cfg.gocritic, c)}
    /\ "revive" \in DOMAIN checks => checks["revive"] = {r \in AllRules : ReviveRule(cfg.revive, r)}
=============================================================================
