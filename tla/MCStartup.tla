------------------------------ MODULE MCStartup ------------------------------
EXTENDS StartupProperties, TLC

(* The names of the linters, in byte order; "house" and "guild" are custom. *)
Alphabet ==
    <<"asasalint", "asciicheck", "bidichk", "bodyclose", "canonicalheader",
      "containedctx", "contextcheck", "copyloopvar", "cyclop", "deadcode",
      "decorder", "depguard", "dogsled", "dupl", "dupword", "durationcheck",
      "err113", "errcheck", "errchkjson", "errname", "errorlint",
      "execinquery", "exhaustive", "exhaustivestruct", "exhaustruct",
      "exportloopref", "fatcontext", "forbidigo", "forcetypeassert", "funlen",
      "gci", "ginkgolinter", "goanalysis_metalinter",
      "gocheckcompilerdirectives", "gochecknoglobals", "gochecknoinits",
      "gochecksumtype", "gocognit", "goconst", "gocritic", "gocyclo", "godot",
      "godox", "gofmt", "gofumpt", "goheader", "goimports", "golint", "gomnd",
      "gomoddirectives", "gomodguard", "goprintffuncname", "gosec",
      "gosimple", "gosmopolitan", "govet", "grouper", "guild", "house",
      "iface", "ifshort", "importas", "inamedparam", "ineffassign",
      "interfacebloat", "interfacer", "intrange", "ireturn", "lll",
      "loggercheck", "maintidx", "makezero", "maligned", "mirror", "misspell",
      "mnd", "musttag", "nakedret", "nestif", "nilerr", "nilnil", "nlreturn",
      "noctx", "nolintlint", "nonamedreturns", "nosnakecase",
      "nosprintfhostport", "paralleltest", "perfsprint", "prealloc",
      "predeclared", "promlinter", "protogetter", "reassign", "recvcheck",
      "revive", "rowserrcheck", "scopelint", "sloglint", "spancheck",
      "sqlclosecheck", "staticcheck", "structcheck", "stylecheck", "tagalign",
      "tagliatelle", "tenv", "testableexamples", "testifylint", "testpackage",
      "thelper", "tparallel", "typecheck", "unconvert", "unparam", "unused",
      "usestdlibvars", "usetesting", "varcheck", "varnamelen", "wastedassign",
      "whitespace", "wrapcheck", "wsl", "zerologlint">>

MCNameRank == [n \in {Alphabet[i] : i \in DOMAIN Alphabet} |-> CHOOSE i \in DOMAIN Alphabet : Alphabet[i] = n]

(* Two modules of which the path of one starts as that of the other.       *)
MCParent == [root |-> "root", home |-> "root", app |-> "root", sub |-> "app", app2 |-> "root"]
MCPrefixOf ==
    [root |-> {"root", "home", "app", "sub", "app2"}, home |-> {"home"}, app |-> {"app", "sub", "app2"},
     sub |-> {"sub"}, app2 |-> {"app2"}]

MCCheckTags ==
    [appendAssign |-> {"diagnostic"}, captLocal |-> {"style"}, hugeParam |-> {"performance"},
     badLock |-> {"diagnostic", "experimental"}]

MCGoVersions == {2 * 17, 2 * 21, 2 * 22 - 1, 2 * 22, 2 * 23, 2 * 24}

-----------------------------------------------------------------------------
File(options) == [parses |-> TRUE, options |-> options]
Module(dir, len, toolchain, go) ==
    [dir |-> dir, pathLen |-> len, toolchain |-> toolchain, go |-> go]

Dir(d, files, tests, xtests, errs) ==
    [dir |-> d, path |-> d, xpath |-> d \o "_test", mainPath |-> d \o ".test",
     files |-> files, tests |-> tests, xtests |-> xtests, errors |-> errs]

SmallTree == {Dir("app", {"a"}, {"at"}, {}, {}), Dir("sub", {"s"}, {}, {"sx"}, {})}

DefaultOpts == [noConfig |-> FALSE, config |-> {}]

Input(flags, options) ==
    [flags |-> flags, opts |-> DefaultOpts, args |-> <<>>, files |-> "app" :> File(options),
     modules |-> {Module("app", 3, 0, 2 * 22)}, tree |-> SmallTree]

(* A partial record: the options whose value is not the one left out.      *)
Given(options, absent) == [o \in {p \in DOMAIN options : options[p] # absent[p]} |-> options[o]]

LinterOptions(lists, presets, switches) ==
    {Given([enable |-> e, disable |-> d, presets |-> p, enableAll |-> "enableAll" \in s,
            disableAll |-> "disableAll" \in s, fast |-> "fast" \in s],
           [enable |-> {}, disable |-> {}, presets |-> {}, enableAll |-> FALSE,
            disableAll |-> FALSE, fast |-> FALSE]) :
        e \in lists, d \in lists, p \in presets, s \in switches}

Few == {{}, {"gosec"}, {"gas", "gofmt"}, {"megacheck"}, {"nolintlint", "deadcode"}}
Switches == {{}, {"fast"}, {"enableAll"}, {"disableAll"}, {"fast", "enableAll"}, {"fast", "disableAll"}}

(* Each way to select linters in a file, and with flags on a file.         *)
Selections ==
    {Input(<<>>, o) : o \in LinterOptions(Few, {{}, {"bugs"}, {"format", "unused"}}, Switches)}
    \cup {Input(f, o) :
            f \in LinterOptions({{}, {"gosec"}, {"exportloopref"}}, {{}, {"sql"}}, {{}, {"fast"}}),
            o \in LinterOptions({{}, {"gas"}}, {{}, {"test"}}, {{}, {"disableAll"}, {"enableAll"}})}
    \cup {Input([enableOnly |-> e] @@ f, o) :
            e \in {{}, {"gosec"}, {"nosuch"}}, f \in {<<>>, [fast |-> TRUE], [disable |-> {"gosec"}]},
            o \in {<<>>, [presets |-> {"bugs"}], [fast |-> TRUE], [disableAll |-> TRUE]}}
    \cup {Input(f, <<>>) : f \in {[fast |-> FALSE], [disable |-> {"typecheck"}], [enable |-> {"nosuch"}],
                                  [presets |-> {"nosuch"}], [disable |-> {"deadcode"}]}}

-----------------------------------------------------------------------------
(* Where the file is, what is asked for, and whether it can be read.       *)
Searches ==
    {[Input(<<>>, <<>>) EXCEPT !.files = [d \in ds |-> File([enable |-> {l}])], !.args = a, !.opts = o] :
        <<ds, l>> \in {<<{}, "gosec">>, <<{"home"}, "gofmt">>, <<{"app2"}, "gofmt">>,
                       <<{"app2", "sub", "root"}, "revive">>, <<{"app", "app2"}, "nilerr">>},
        a \in {<<>>, <<"sub">>, <<"app2", "sub">>},
        o \in {DefaultOpts, [noConfig |-> TRUE, config |-> {}], [noConfig |-> FALSE, config |-> {"app2"}],
               [noConfig |-> TRUE, config |-> {"app2"}]}}
    \cup {[Input(<<>>, <<>>) EXCEPT !.files["app"].parses = FALSE]}

(* The version of Go, and the linters that need one.                       *)
Versions ==
    {[Input(f, [enable |-> {"copyloopvar", "intrange"}] @@ o) EXCEPT !.modules = ms] :
        f \in {<<>>, [go |-> 0], [go |-> 2 * 21], [go |-> 2 * 24]}, o \in {<<>>, [go |-> 2 * 22 - 1], [go |-> 2 * 23]},
        ms \in {{}, {Module("root", 1, 0, 0)}, {Module("app", 5, 2 * 23, 2 * 21), Module("app2", 3, 0, 2 * 24)},
                {Module("app2", 5, 2 * 23, 2 * 22), Module("root", 2, 0, 2 * 21), Module("app", 1, 0, 2 * 22)}}}

-----------------------------------------------------------------------------
(* Deprecated options, and the flags that they meet.                       *)
Deprecations ==
    {Input(f, o) :
        f \in {<<>>, [excludeFiles |-> {"f"}, formats |-> {"tab"}], [skipFiles |-> {"g"}],
               [excludeDirs |-> {"d"}, skipDirs |-> {"e"}], [exclude |-> {"x"}, buildTags |-> {"t"}],
               [skipDirsUseDefault |-> FALSE, excludeDirsUseDefault |-> TRUE], [excludeGenerated |-> "disable"],
               [showStats |-> FALSE]},
        o \in {<<>>, [excludeFiles |-> {"h"}, exclude |-> {"y"}], [skipFiles |-> {"i"}, format |-> {"json"}],
               [formats |-> {"html"}, skipDirs |-> {"j"}], [excludeGeneratedStrict |-> TRUE, runShowStats |-> TRUE],
               [buildTags |-> {"u"}, excludeDirs |-> {"k"}, excludeDirsUseDefault |-> FALSE]}}

(* Options that are refused.                                               *)
Refusals ==
    {Input(<<>>, o) :
        o \in {[modulesDownloadMode |-> "mod"], [modulesDownloadMode |-> "none"], [formats |-> {"word"}],
               [sortOrder |-> <<"file">>], [sortResults |-> TRUE, sortOrder |-> <<"file", "linter">>],
               [sortResults |-> TRUE, sortOrder |-> <<"file", "file">>], [sortResults |-> TRUE, sortOrder |-> <<"size">>],
               [excludeRules |-> {{"path", "text"}}], [excludeRules |-> {{"path"}}],
               [excludeRules |-> {{"path", "pathExcept", "text"}}], [excludeRules |-> {{"source", "linters", "invalid"}}],
               [severityRules |-> {{"severity", "text"}}], [severityRules |-> {{"severity", "text"}}, defaultSeverity |-> "error"],
               [severityRules |-> {{"text"}}, defaultSeverity |-> "error"]}}

(* Linters that come as plugins.                                           *)
Custom(type, path, at, registered, needs) ==
    [type |-> type, path |-> path, at |-> at, registered |-> registered, mode |-> needs]

Plugins ==
    {[Input(<<>>, o @@ [custom |-> n :> c]) EXCEPT !.args = a] :
        o \in {<<>>, [fast |-> TRUE], [disable |-> {"house"}], [enable |-> {"house"}, disableAll |-> TRUE]},
        n \in {"house", "guild"}, a \in {<<>>, <<"sub">>},
        c \in {Custom("", "relative", "app", FALSE, TypesInfo), Custom("goplugin", "absolute", "", FALSE, TypesInfo),
               Custom("goplugin", "relative", "sub", FALSE, TypesInfo), Custom("goplugin", "", "app", FALSE, TypesInfo),
               Custom("module", "", "", TRUE, Syntax), Custom("module", "", "", TRUE, TypesInfo),
               Custom("module", "", "", FALSE, Syntax), Custom("modul", "relative", "", TRUE, Syntax)}}
    \cup {Input(<<>>, [custom |-> "gofmt" :> Custom("goplugin", "absolute", "", FALSE, TypesInfo)] @@ o) :
            o \in {<<>>, [disable |-> {"gofmt"}], [enableAll |-> TRUE]}}

-----------------------------------------------------------------------------
(* Settings that are wrong, of linters that are on and of some that are off. *)
Settings ==
    {Input(<<>>, [enable |-> on, badSettings |-> bad]) :
        on \in {{}, {"revive", "gomodguard"}, {"gocritic", "iface"}, {"thelper", "misspell", "gci"},
                {"depguard", "errcheck", "iface"}},
        bad \in {{}, {"asasalint"}, {"gci", "govet"}, {"govet"}, {"errcheck", "depguard"}, {"gomodguard", "misspell"},
                 {"gocritic", "govet"}, {"iface", "lll"}, {"gocritic", "iface"}, {"revive"}}}

VetSettings ==
    {[checkShadowing |-> c, enableAll |-> a = "on", disableAll |-> a = "off", enable |-> e, disable |-> d] :
        c \in BOOLEAN, a \in {"", "on", "off"}, e \in {{}, {"shadow", "assign"}, {"loopclosure", "nosuch"}},
        d \in {{}, {"shadow"}, {"assign"}, {"printf", "nilness"}}}

CriticSettings ==
    {[enableAll |-> a = "on", disableAll |-> a = "off", enabledTags |-> et, disabledTags |-> dt,
      enabledChecks |-> ec, disabledChecks |-> dc, checkSettings |-> {"hugeParam"}] :
        a \in {"", "on", "off"}, et \in {{}, {"performance"}, {"experimental", "nosuch"}}, dt \in {{}, {"diagnostic"}, {"style", "performance"}},
        ec \in {{}, {"badLock"}, {"hugeParam"}}, dc \in {{}, {"captLocal"}, {"badLock"}}}

ReviveSettings ==
    {[enableAllRules |-> a, other |-> b, rules |-> r] :
        a \in BOOLEAN, b \in BOOLEAN,
        r \in {<<>>, "ExportedRule" :> [disabled |-> FALSE], "ExportedRule" :> [disabled |-> TRUE], "nosuch" :> [disabled |-> FALSE],
               "AtomicRule" :> [disabled |-> TRUE] @@ "RangeRule" :> [disabled |-> FALSE]}}

Choices ==
    {Input(<<>>, [govet |-> s, go |-> v]) : s \in VetSettings, v \in {2 * 21, 2 * 22}}
    \cup {Input(<<>>, [enable |-> {"gocritic"}, gocritic |-> s]) : s \in CriticSettings}
    \cup {Input(<<>>, [enable |-> {"revive"}, revive |-> s]) : s \in ReviveSettings}

-----------------------------------------------------------------------------
(* Packages with tests of both kinds, with errors, and none at all.        *)
Trees ==
    {[Input([tests |-> t], o) EXCEPT !.tree = tree, !.args = a] :
        t \in BOOLEAN, o \in {<<>>, [disableAll |-> TRUE, enable |-> {"gofmt", "nolintlint"}], [fast |-> TRUE]}, a \in {<<>>, <<"app">>},
        tree \in {{}} \cup
                 {{Dir("app", f, at, ax, e1), Dir("sub", {"s"}, {"st"}, {"sx"}, e2)} :
                     f \in {{}, {"a"}}, at \in {{}, {"at"}}, ax \in {{}, {"ax"}},
                     e1 \in {{}, {"other", "commandLine"}, {"noGoFiles"}}, e2 \in {{}, {"cannotFind"}}}}

MCInputs ==
    Selections \cup Searches \cup Versions \cup Deprecations \cup Refusals \cup Plugins
        \cup Settings \cup Choices \cup Trees
=============================================================================
