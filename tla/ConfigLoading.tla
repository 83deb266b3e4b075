---------------------------- MODULE ConfigLoading ----------------------------
(***************************************************************************)
(* pkg/config and the flag sets of pkg/commands: the configuration that a  *)
(* command gets from its flags, a configuration file and the defaults.     *)
(*                                                                         *)
(* A set of flags and a file are functions on the options that they set.   *)
(* A list is the set of its entries.  Options that no part of the model    *)
(* looks at are left out.                                                  *)
(***************************************************************************)
EXTENDS CheckSelection, Sequences

CONSTANTS
    Parent,             \* Parent[d]: the directory above d, d itself at the root
    WorkDir,            \* where the command is run
    HomeDir,
    PrefixOf,           \* PrefixOf[d]: the paths that start with the string d
    RuntimeVersion,     \* the Go version that golangci-lint was built with
    EnvVersion          \* GOVERSION, or 0

(* Versions of Go: 2*N is 1.N and its patches, 2*N-1 a pre-release of it.  *)
TrimGoVersion(v) == 2 * ((v + 1) \div 2)

(* Where f has no value, that of g.                                        *)
Over(f, g) == [o \in DOMAIN f \union DOMAIN g |-> IF o \in DOMAIN f THEN f[o] ELSE g[o]]

(* Lists that are read from the flags, not through Viper.                  *)
LinterLists == {"enable", "disable", "presets"}
RunLists == {"buildTags", "skipFiles", "skipDirs"}
IssueLists == {"exclude", "excludeFiles", "excludeDirs"}
Lists == LinterLists \union RunLists \union IssueLists

(* The other flags of each command, with their defaults.                   *)
LintersFlags == [disableAll |-> FALSE, enableAll |-> FALSE, fast |-> FALSE]
RunFlags ==
    [modulesDownloadMode |-> "", go |-> 0, tests |-> TRUE, skipDirsUseDefault |-> TRUE]
OutputFlags ==
    [formats |-> {"colored-line-number"}, sortResults |-> FALSE, sortOrder |-> <<>>,
     showStats |-> FALSE]
IssuesFlags == [excludeDirsUseDefault |-> TRUE, excludeGenerated |-> "lax"]

FlagDefaults(cmd) ==
    IF cmd = "run" THEN Over(LintersFlags, Over(RunFlags, Over(OutputFlags, IssuesFlags)))
    ELSE LintersFlags

(* `linters` without the lists of its own flags.                           *)
ListFlagsOfRun(cmd) == IF cmd = "run" THEN Lists ELSE {}
ListFlags(cmd) == IF cmd = "run" THEN Lists ELSE LinterLists

(* NewDefault: what the fields hold before anything is read.               *)
FieldDefaults ==
    [disableAll |-> FALSE, enableAll |-> FALSE, fast |-> FALSE,
     modulesDownloadMode |-> "", go |-> 0, tests |-> FALSE,
     skipDirsUseDefault |-> FALSE, excludeDirsUseDefault |-> FALSE,
     formats |-> {}, sortResults |-> FALSE, sortOrder |-> <<>>,
     showStats |-> FALSE, excludeGenerated |-> "",
     \* options of the file only
     runShowStats |-> FALSE, format |-> {}, excludeGeneratedStrict |-> FALSE,
     excludeRules |-> {}, severityRules |-> {}, defaultSeverity |-> "",
     custom |-> <<>>, govet |-> DefaultGovet, gocritic |-> DefaultGocritic,
     revive |-> DefaultRevive, badSettings |-> {}]

NewDefault == Over([l \in Lists |-> {}], FieldDefaults)

Options == DOMAIN NewDefault

-----------------------------------------------------------------------------
(* Where a file is looked for: here, then from the first argument upwards, *)
(* and at last at home.                                                    *)
DirsUpFrom[d \in DOMAIN Parent] ==
    IF Parent[d] = d THEN <<d>> ELSE <<d>> \o DirsUpFrom[Parent[d]]

GetConfigSearchPaths(args) ==
    LET up == DirsUpFrom[IF args = <<>> THEN WorkDir ELSE Head(args)]
        paths == <<WorkDir>> \o up
    IN  IF \E i \in DOMAIN up : up[i] = HomeDir THEN paths ELSE Append(paths, HomeDir)

(* The directory of the file that is used, if there is one.                *)
SearchConfig(args, files) ==
    LET paths == GetConfigSearchPaths(args)
        hits == {i \in DOMAIN paths : paths[i] \in DOMAIN files}
    IN  IF hits = {} THEN {} ELSE {paths[CHOOSE h \in hits : \A other \in hits : h <= other]}

(* --config and --no-config; ConfigFile is the set of the file's directory. *)
OptionsConflict(opts) == opts.noConfig /\ opts.config # {}
ConfigFile(opts, args, files) ==
    CASE opts.noConfig    -> {}
      [] opts.config # {} -> opts.config
      [] OTHER            -> SearchConfig(args, files)

(* A file that is named must exist, and one that is read must be readable. *)
Unreadable(dirs, files) == \E d \in dirs : d \notin DOMAIN files \/ ~files[d].parses

-----------------------------------------------------------------------------
(* Viper: a flag that is given, else the file, else the flag's default.    *)
ParseConfig(cmd, flags, file) ==
    [o \in Options |->
        IF o \in DOMAIN FlagDefaults(cmd) \intersect DOMAIN flags THEN flags[o]
        ELSE IF o \in DOMAIN file THEN file[o]
        ELSE Over(FlagDefaults(cmd), NewDefault)[o]]

(* A list of the flags that counts only when the file has none.            *)
ApplyStringSliceHackIfEmpty(cmd, flags, cfg) ==
    [o \in Options |->
        IF o \in ListFlags(cmd) \intersect DOMAIN flags /\ cfg[o] = {} THEN flags[o]
        ELSE cfg[o]]

(* The lists of the flags are appended to those of the file.               *)
ApplyStringSliceHack(cmd, flags, cfg) ==
    [o \in Options |->
        IF o \in ListFlags(cmd) \intersect DOMAIN flags THEN cfg[o] \union flags[o]
        ELSE cfg[o]]

(* Deprecated options take the place of those that replaced them.          *)
HandleDeprecation(cfg) ==
    [cfg EXCEPT
        !.excludeFiles = IF cfg.skipFiles # {} THEN cfg.skipFiles ELSE @,
        !.excludeDirs = IF cfg.skipDirs # {} THEN cfg.skipDirs ELSE @,
        !.excludeDirsUseDefault = @ /\ cfg.skipDirsUseDefault,
        !.showStats = @ \/ cfg.runShowStats,
        !.formats = IF cfg.format # {} THEN cfg.format ELSE @,
        !.excludeGenerated = IF cfg.excludeGeneratedStrict THEN "strict" ELSE @]

DeprecatedOptions(cfg) ==
    {o \in {"skipFiles", "skipDirs", "format"} : cfg[o] # {}}
        \union {o \in {"runShowStats", "excludeGeneratedStrict"} : cfg[o]}
        \union {o \in {"skipDirsUseDefault"} : ~cfg[o]}

-----------------------------------------------------------------------------
(* A module is [dir, pathLen, toolchain, go], 0 for what its file lacks.   *)
(* The modules are tried from the longest path; modules of equal length    *)
(* come in any order.  With no module at all there is nothing to detect.   *)
GoModCandidates(modules) ==
    LET around == {m \in modules : WorkDir \in PrefixOf[m.dir]}
        from == IF around = {} THEN modules ELSE around
    IN  {m \in from : \A other \in from : other.pathLen <= m.pathLen}

OrElse(v, default) == IF v # 0 THEN v ELSE default

DetectGoVersions(modules) ==
    {OrElse(v, OrElse(EnvVersion, 2 * 17)) :
        v \in IF modules = {} THEN {0}
              ELSE {OrElse(m.toolchain, m.go) : m \in GoModCandidates(modules)}}

HandleGoVersion(cfg, detected) == [cfg EXCEPT !.go = OrElse(@, detected)]

(* A pre-release that built golangci-lint counts as its release.           *)
CheckGoVersion(v) == TrimGoVersion(RuntimeVersion) >= TrimGoVersion(v)

HandleEnableOnlyOption(flags, cfg) ==
    IF "enableOnly" \in DOMAIN flags /\ flags.enableOnly # {}
    THEN [cfg EXCEPT !.enable = flags.enableOnly, !.disable = {}, !.presets = {},
                     !.enableAll = FALSE, !.disableAll = TRUE, !.fast = FALSE]
    ELSE cfg

-----------------------------------------------------------------------------
ValidateRun(cfg) == cfg.modulesDownloadMode \in {"", "mod", "readonly", "vendor"}

AllOutputFormats ==
    {"json", "line-number", "colored-line-number", "tab", "colored-tab", "checkstyle",
     "code-climate", "html", "junit-xml", "junit-xml-extended", "github-actions",
     "teamcity", "sarif"}

ValidateOutput(cfg) ==
    /\ cfg.sortOrder # <<>> => cfg.sortResults
    /\ \A i \in DOMAIN cfg.sortOrder :
          /\ cfg.sortOrder[i] \in {"linter", "file", "severity"}
          /\ \A j \in DOMAIN cfg.sortOrder : cfg.sortOrder[i] = cfg.sortOrder[j] => i = j
    /\ cfg.formats \subseteq AllOutputFormats

ValidateGovet(s) ==
    /\ ~(s.enableAll /\ s.disableAll)
    /\ s.enableAll => s.enable = {}
    /\ s.disableAll => s.disable = {}

ValidateCustom(s) == (s.type = "module") <=> (s.path = "")

ValidateSettings(cfg) ==
    /\ ValidateGovet(cfg.govet)
    /\ \A n \in DOMAIN cfg.custom : ValidateCustom(cfg.custom[n])

ValidateAllDisableEnableOptions(cfg) ==
    /\ ~(cfg.enableAll /\ cfg.disableAll)
    /\ cfg.disableAll => (cfg.enable # {} \/ cfg.presets # {}) /\ cfg.disable = {}
    /\ cfg.enableAll /\ cfg.enable # {} => cfg.fast

ValidateLintersSection(cfg) ==
    ValidateAllDisableEnableOptions(cfg) /\ cfg.enable \intersect cfg.disable = {}

(* A rule is the set of the conditions it has; "invalid" is one of them    *)
(* with a regular expression that does not compile.                        *)
ValidateRule(rule, minConditions) ==
    /\ "invalid" \notin rule /\ ~({"path", "pathExcept"} \subseteq rule)
    /\ Cardinality(rule) >= minConditions

ValidateIssues(cfg) == \A r \in cfg.excludeRules : ValidateRule(r, 2)

(* Of a severity rule "severity" tells that it says which.                 *)
ValidateSeverity(cfg) ==
    /\ cfg.severityRules # {} => cfg.defaultSeverity # ""
    /\ \A r \in cfg.severityRules : "severity" \in r /\ ValidateRule(r \ {"severity"}, 1)

Validate(cfg) ==
    /\ ValidateRun(cfg) /\ ValidateOutput(cfg) /\ ValidateSettings(cfg)
    /\ ValidateLintersSection(cfg) /\ ValidateIssues(cfg) /\ ValidateSeverity(cfg)
=============================================================================
