------------------------------- MODULE Startup -------------------------------
(***************************************************************************)
(* One user, one project: `golangci-lint linters`, which shows what would  *)
(* be run, and then `golangci-lint run` with the same flags, from reading  *)
(* the configuration to handing the linters to the runner.                 *)
(***************************************************************************)
EXTENDS ConfigLoading, LintersDB, PackageLoading

CONSTANTS
    Inputs,     \* records [flags, opts, args, files, modules, tree]
    GoVersions  \* versions that a project may be written for

(* What a user gives: flags that `run` has, and options of their types.    *)
Flags == DOMAIN FlagDefaults("run") \union Lists \union {"enableOnly"}

OptionsTyped(options) ==
    /\ "go" \in DOMAIN options => options.go \in GoVersions \union {0}
    /\ \A o \in {"excludeDirsUseDefault", "showStats", "disableAll", "enableAll", "fast"} :
          o \in DOMAIN options => options[o] \in BOOLEAN
    /\ "custom" \in DOMAIN options =>
          /\ DOMAIN options.custom \subseteq DOMAIN NameRank
          /\ \A n \in DOMAIN options.custom : options.custom[n].mode \in {Syntax, TypesInfo}

(* Every directory has an import path and files of its own.                *)
DirectoriesApart(tree) ==
    /\ \A d \in tree :
          /\ "" \notin {d.path, d.xpath}
          /\ d.files \intersect d.tests = {} /\ d.xtests \intersect (d.files \union d.tests) = {}
    /\ \A d, e \in tree :
          d # e => /\ d.path # e.path
                   /\ (d.files \union d.tests \union d.xtests)
                         \intersect (e.files \union e.tests \union e.xtests) = {}

ASSUME InputsAssumption ==
    \A i \in Inputs :
        /\ DOMAIN i.flags \subseteq Flags
        /\ OptionsTyped(i.flags)
        /\ \A d \in DOMAIN i.files : OptionsTyped(i.files[d].options)
        /\ DetectGoVersions(i.modules) \subseteq GoVersions
        /\ \A c, d \in i.opts.config : c = d
        /\ DirectoriesApart(i.tree)

ASSUME NamesAssumption ==
    {"goanalysis_metalinter"} \union UNION {Names(LinterBuilder(v)) : v \in GoVersions}
        \subseteq DOMAIN NameRank

VARIABLES
    input,      \* what the user gives and what is on the disk; never changes
    cmd,        \* the command: "linters", then "run"
    stage,      \* what the command does next, or how it has ended
    cfg,        \* its configuration
    cfgDir,     \* the directory of its configuration file, as a set
    listed,     \* [ended, dir, names]: what `linters` has shown
    active,     \* names of the linters that are enabled
    jobs,       \* what is left to run, in order
    mode,       \* what the packages were loaded with
    pkgs,       \* the packages that the linters are given
    working,    \* names of linters that have done their work
    checks,     \* the checks of those that choose among their own
    errors,     \* a job has failed
    log         \* what the user was told: pairs of a level and what it is about

vars == <<input, cmd, stage, cfg, cfgDir, listed, active, jobs, mode, pkgs, working, checks,
          errors, log>>

configVars == <<cfg, cfgDir>>
lintVars   == <<working, checks, errors>>
runVars    == <<active, jobs, mode, pkgs, lintVars>>

Ended == {"done", "failed", "noGoFiles"}
Stages ==
    {"start", "parse", "merge", "goVersion", "validate", "manager", "enabled", "load", "lint"}
        \union Ended

Init ==
    /\ input \in Inputs
    /\ cmd = "linters" /\ stage = "start"
    /\ cfg = NewDefault /\ cfgDir = {}
    /\ listed = [ended |-> FALSE, dir |-> {}, names |-> {}]
    /\ active = {} /\ jobs = <<>> /\ mode = {} /\ pkgs = {}
    /\ working = {} /\ checks = <<>> /\ errors = FALSE /\ log = {}

-----------------------------------------------------------------------------
Args == IF cmd = "run" THEN input.args ELSE <<>>

(* The command goes on, or ends with an error.                             *)
Proceed(from, to, ok) == stage = from /\ stage' = IF ok THEN to ELSE "failed"

Tell(level, subjects) == log' = log \union ({level} \X subjects)

SetConfigFile ==
    LET ok == ~OptionsConflict(input.opts)
    IN  /\ Proceed("start", "parse", ok)
        /\ cfgDir' = IF ok THEN ConfigFile(input.opts, Args, input.files) ELSE {}
        /\ UNCHANGED <<input, cmd, cfg, listed, runVars, log>>

FileOptions == IF cfgDir = {} THEN <<>> ELSE input.files[CHOOSE d \in cfgDir : TRUE].options

ReadConfig ==
    LET ok == ~Unreadable(cfgDir, input.files)
    IN  /\ Proceed("parse", "merge", ok)
        /\ cfg' = IF ok THEN ParseConfig(cmd, input.flags, FileOptions) ELSE cfg
        /\ UNCHANGED <<input, cmd, cfgDir, listed, runVars, log>>

(* Only `run` looks for deprecated options.                                *)
MergeConfig ==
    LET appended == ApplyStringSliceHack(cmd, input.flags, cfg)
    IN  /\ Proceed("merge", "goVersion", TRUE)
        /\ IF cmd = "run"
           THEN cfg' = HandleDeprecation(appended) /\ Tell("warning", DeprecatedOptions(appended))
           ELSE cfg' = appended /\ UNCHANGED log
        /\ UNCHANGED <<input, cmd, cfgDir, listed, runVars>>

SettleGoVersion ==
    \E v \in DetectGoVersions(input.modules) :
        /\ cfg' = HandleGoVersion(cfg, v)
        /\ Proceed("goVersion", "validate", CheckGoVersion(HandleGoVersion(cfg, v).go))
        /\ UNCHANGED <<input, cmd, cfgDir, listed, runVars, log>>

ValidateConfig ==
    /\ cfg' = HandleEnableOnlyOption(input.flags, cfg)
    /\ Proceed("validate", "manager", Validate(HandleEnableOnlyOption(input.flags, cfg)))
    /\ UNCHANGED <<input, cmd, cfgDir, listed, runVars, log>>

-----------------------------------------------------------------------------
(* gocritic and revive settings are checked, those of the others are said  *)
(* to be bad.                                                              *)
BadSettings(name) ==
    \/ name \in cfg.badSettings
    \/ name = "gocritic" /\ ~ValidateGocritic(cfg.gocritic)
    \/ name = "revive" /\ ~ReviveSetUp(cfg.revive)

Fail(lcs, how) == {lc \in lcs : lc.linter.onBadSettings = how /\ BadSettings(lc.name)}

BuiltIn == [v \in GoVersions |-> LinterBuilder(v)]
Known == BuiltIn[cfg.go] \union PluginBuilders(cfg.custom)
PluginDir == IF cfgDir = {} THEN "" ELSE CHOOSE d \in cfgDir : TRUE

(* The linters are made, enabled or not, and then their names looked up.   *)
NewManager ==
    LET built == /\ Fail(Known, "fatalNew") = {}
                 /\ GoPluginsLoad(cfg.custom, PluginDir)
                 /\ ModulePluginsLoad(cfg.custom)
        ok == built /\ ValidateLinters(Known, cfg)
    IN  /\ Proceed("manager", "enabled", ok)
        /\ Tell("warning", IF ok THEN RetiredWarnings(Known, cfg)
                                        \union AlternativeNamesDeprecation(Known, cfg)
                           ELSE {})
        /\ UNCHANGED <<input, cmd, configVars, listed, runVars>>

ListLinters ==
    /\ cmd = "linters" /\ Proceed("enabled", "done", TRUE)
    /\ listed' = [ended |-> TRUE, dir |-> cfgDir,
                  names |-> LET enabled == Names(GetEnabledLintersMap(Known, cfg))
                            IN  {lc.name : lc \in {l \in Known : ~l.internal /\ l.name \in enabled}}]
    /\ UNCHANGED <<input, cmd, configVars, runVars, log>>

(* The user goes on to the other command, whatever the first has said.     *)
StartRun ==
    /\ cmd = "linters" /\ stage \in Ended
    /\ cmd' = "run" /\ stage' = "start"
    /\ cfg' = NewDefault /\ cfgDir' = {} /\ log' = {}
    /\ UNCHANGED <<input, listed, runVars>>

-----------------------------------------------------------------------------
PlanJobs ==
    /\ cmd = "run" /\ Proceed("enabled", "load", TRUE)
    /\ LET enabled == GetEnabledLintersMap(Known, cfg)
       IN  /\ active' = Names(enabled)
           /\ Tell("warning", Names({lc \in enabled : IsDeprecated(lc)}))
    /\ jobs' = GetOptimizedLinters(Known, cfg)
    /\ UNCHANGED <<input, cmd, configVars, listed, mode, pkgs, lintVars>>

Loaded == UNION {LoadedFrom(d, cfg.tests) : d \in BuildArgs({Args[i] : i \in DOMAIN Args}, input.tree)}

LoadPackages ==
    LET kept == FilterDuplicatePackages(FilterTestMainPackages(ParseLoadedPackagesErrors(Loaded)))
    IN  /\ stage = "load"
        /\ mode' = FindLoadMode({jobs[i] : i \in DOMAIN jobs})
        /\ IF Fatal(Loaded) # {}
           THEN stage' \in {FatalStage(e) : e \in Fatal(Loaded)} /\ pkgs' = {}
           ELSE stage' = (IF kept = {} THEN "noGoFiles" ELSE "lint") /\ pkgs' = kept
        /\ UNCHANGED <<input, cmd, configVars, listed, active, jobs, lintVars, log>>

-----------------------------------------------------------------------------
Members == {lc \in Build(Known, cfg) : lc.name \in Head(jobs).members}

(* Members are set up in the order of their names; the first that cannot   *)
(* be configured keeps the others from being tried.                        *)
EndsProcess ==
    \E lc \in Fail(Members, "fatalSetUp") :
        \A other \in Fail(Members, "preRun") : NameRank[lc.name] < NameRank[other.name]

JobFails == Fail(Members, "preRun") \union Fail(Members, "pass") # {}

RunFatal ==
    /\ stage = "lint" /\ jobs # <<>> /\ EndsProcess
    /\ stage' = "failed"
    /\ UNCHANGED <<input, cmd, configVars, listed, runVars, log>>

(* An error of a linter that does not count.                                *)
RunFailsQuietly ==
    /\ stage = "lint" /\ jobs # <<>> /\ ~EndsProcess /\ JobFails
    /\ jobs' = Tail(jobs)
    /\ UNCHANGED <<input, cmd, stage, configVars, listed, active, mode, pkgs, lintVars, log>>

(* What the members have found is lost, and the next job is run.           *)
RunFails ==
    /\ stage = "lint" /\ jobs # <<>> /\ ~EndsProcess /\ JobFails
    /\ jobs' = Tail(jobs) /\ errors' = TRUE
    /\ UNCHANGED <<input, cmd, stage, configVars, listed, active, mode, pkgs, working, checks, log>>

ChecksOf(name) ==
    CASE name = "gocritic" -> InferEnabledChecks(cfg.gocritic)
      [] name = "govet"    -> AnalyzersFromConfig(cfg.govet, cfg.go)
      [] name = "revive"   -> LintingRules(cfg.revive)

RunJob ==
    LET noops == {lc \in Members : ~lc.linter.goanalysis}
        idle == Fail(Members, "error") \union Fail(Members, "warning")
        work == Names(Members \ (noops \union idle))
        needless == IF "gocritic" \in work THEN NeedlessChecks(cfg.gocritic) ELSE {}
    IN  /\ stage = "lint" /\ jobs # <<>> /\ ~EndsProcess /\ ~JobFails
        /\ jobs' = Tail(jobs)
        /\ working' = working \union work
        /\ checks' = Over(checks, [n \in work \intersect {"gocritic", "govet", "revive"} |-> ChecksOf(n)])
        /\ log' = log
              \union ({"warning"} \X (needless \union Names({lc \in noops : ~IsRetired(lc)}
                                                                \union Fail(Members, "warning"))))
              \union ({"error"} \X Names({lc \in noops : IsRetired(lc)} \union Fail(Members, "error")))
        /\ UNCHANGED <<input, cmd, stage, configVars, listed, active, mode, pkgs, errors>>

EndRun ==
    /\ stage = "lint" /\ jobs = <<>>
    /\ stage' = IF errors THEN "failed" ELSE "done"
    /\ UNCHANGED <<input, cmd, configVars, listed, runVars, log>>

Next ==
    \/ SetConfigFile \/ ReadConfig \/ MergeConfig \/ SettleGoVersion \/ ValidateConfig
    \/ NewManager \/ ListLinters \/ StartRun
    \/ PlanJobs \/ LoadPackages \/ RunFatal \/ RunFails \/ RunJob \/ EndRun

Spec == Init /\ [][Next]_vars

-----------------------------------------------------------------------------
(* Every part of the state has its type, and what a command does is in the *)
(* order of its stages.                                                    *)
TypeOK ==
    /\ cmd \in {"linters", "run"} /\ stage \in Stages
    /\ DOMAIN cfg = Options /\ Cardinality(cfgDir) <= 1
    /\ \A j \in {jobs[i] : i \in DOMAIN jobs} : j.members \subseteq active
    /\ working \subseteq active /\ DOMAIN checks \subseteq working
    /\ errors \in BOOLEAN
    /\ \A entry \in log : entry[1] \in {"warning", "error"}
=============================================================================
