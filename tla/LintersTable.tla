---------------------------- MODULE LintersTable ----------------------------
(***************************************************************************)
(* pkg/lint/linter/config.go and pkg/lint/lintersdb/builder_linter.go: the *)
(* linters that are built in.  A linter.Config is a record; "origin" is    *)
(* the position of the builder that made it in the call of NewManager.     *)
(* Versions of Go are numbers, two to a minor version: 2*N is 1.N and any  *)
(* patch of it, 2*N-1 a pre-release of it, and 0 is no version.            *)
(***************************************************************************)
EXTENDS Adapters

Go(minor) == 2 * minor

(* What packages.Load is asked for.                                        *)
LoadFiles == {"name", "files", "compiledFiles", "module"}
LoadForAnalysis == {"imports", "deps", "exportFile", "typesSizes"}

DeprecationNone == 0
DeprecationWarning == 1
DeprecationError == 2

NewConfig(l) ==
    [linter |-> l, name |-> l.name, origin |-> 1, enabledByDefault |-> FALSE,
     loadMode |-> LoadFiles, presets |-> {}, alternatives |-> {},
     internal |-> FALSE, slow |-> FALSE, changesTypes |-> FALSE,
     deprecation |-> DeprecationNone]

WithPresets(lc, presets) == [lc EXCEPT !.presets = presets]
WithEnabledByDefault(lc) == [lc EXCEPT !.enabledByDefault = TRUE]
WithInternal(lc) == [lc EXCEPT !.internal = TRUE]
ConsiderSlow(lc) == [lc EXCEPT !.slow = TRUE]
WithChangeTypes(lc) == [lc EXCEPT !.changesTypes = TRUE]
WithAlternativeNames(lc, names) == [lc EXCEPT !.alternatives = names]
Deprecated(lc, level) == [lc EXCEPT !.deprecation = level]
WithLoadForGoAnalysis(lc) ==
    [lc EXCEPT !.loadMode = @ \union LoadFiles \union LoadForAnalysis,
               !.slow = TRUE]
AllNames(lc) == {lc.name} \union lc.alternatives

(* A linter that is listed and only says why it does nothing.              *)
Noop(l) == [name |-> l.name, goanalysis |-> FALSE, mode |-> None,
            collects |-> FALSE, onBadSettings |-> "ignored"]
NewNoopDeprecated(name) == Noop([name |-> name])

IsGoLowerThanGo122(go) == go # 0 /\ go < Go(22)

(* The slowness stays: only the linter and what it loads are replaced.     *)
WithNoopFallback(lc, cond) ==
    IF cond THEN [lc EXCEPT !.linter = Noop(@), !.loadMode = LoadFiles] ELSE lc

Fast(l, presets) == WithPresets(NewConfig(l), presets)
Slow(l, presets) == WithLoadForGoAnalysis(Fast(l, presets))
Retired(name, presets) ==
    Deprecated(Fast(NewNoopDeprecated(name), presets), DeprecationError)

AsasalintToExportloopref(go) == {
    Slow(asasalint, {"bugs"}), Fast(asciicheck, {"bugs", "style"}),
    Fast(bidichk, {"bugs"}), Slow(bodyclose, {"performance", "bugs"}),
    Slow(canonicalheader, {"style"}), Slow(containedctx, {"style"}),
    Slow(contextcheck, {"bugs"}),
    WithNoopFallback(Fast(copyloopvar, {"style"}), IsGoLowerThanGo122(go)),
    Fast(cyclop, {"complexity"}), Fast(decorder, {"format", "style"}),
    Retired("deadcode", {"unused"}),
    Fast(depguard, {"style", "import", "module"}), Fast(dogsled, {"style"}),
    Fast(dupl, {"style"}), Fast(dupword, {"comment"}),
    Slow(durationcheck, {"bugs"}),
    WithEnabledByDefault(Slow(errcheck, {"bugs", "error"})),
    Slow(errchkjson, {"bugs"}), Slow(errname, {"style"}),
    Slow(errorlint, {"bugs", "error"}), Retired("execinquery", {"sql"}),
    Slow(exhaustive, {"bugs"}), Retired("exhaustivestruct", {"style", "test"}),
    Slow(exhaustruct, {"style", "test"}),
    Deprecated(Slow(exportloopref, {"bugs"}), DeprecationWarning) }

ForbidigoToGomodguard(go) == {
    Slow(forbidigo, {"style"}), Fast(forcetypeassert, {"style"}),
    Slow(fatcontext, {"performance"}), Fast(funlen, {"complexity"}),
    Fast(gci, {"format", "import"}), Slow(ginkgolinter, {"style"}),
    Fast(gocheckcompilerdirectives, {"bugs"}),
    Slow(gochecknoglobals, {"style"}), Fast(gochecknoinits, {"style"}),
    Slow(gochecksumtype, {"bugs"}), Fast(gocognit, {"complexity"}),
    Fast(goconst, {"style"}), Slow(gocritic, {"style", "metalinter"}),
    Fast(gocyclo, {"complexity"}), Fast(godot, {"style", "comment"}),
    Fast(godox, {"style", "comment"}),
    WithAlternativeNames(Slow(err113, {"style", "error"}), {"goerr113"}),
    Fast(gofmt, {"format"}), Fast(gofumpt, {"format"}),
    Fast(goheader, {"style"}), Fast(goimports, {"format", "import"}),
    Retired("golint", {"style"}), Fast(mnd, {"style"}),
    Retired("gomnd", {"style"}), Fast(gomoddirectives, {"style", "module"}),
    Fast(gomodguard, {"style", "import", "module"}) }

GoprintffuncnameToNestif(go) == {
    Fast(goprintffuncname, {"style"}),
    WithAlternativeNames(Slow(gosec, {"bugs"}), {"gas"}),
    WithEnabledByDefault(
        WithAlternativeNames(Slow(gosimple, {"style"}), {"megacheck"})),
    Slow(gosmopolitan, {"bugs"}),
    WithEnabledByDefault(
        WithAlternativeNames(Slow(govet, {"bugs", "metalinter"}),
                             {"vet", "vetshadow"})),
    Fast(grouper, {"style"}), Retired("ifshort", {"style"}),
    Slow(iface, {"style"}), Slow(importas, {"style"}),
    Fast(inamedparam, {"style"}),
    WithEnabledByDefault(Fast(ineffassign, {"unused"})),
    Fast(interfacebloat, {"style"}), Retired("interfacer", {"style"}),
    WithNoopFallback(Slow(intrange, {"style"}), IsGoLowerThanGo122(go)),
    Slow(ireturn, {"style"}), Fast(lll, {"style"}),
    WithAlternativeNames(Slow(loggercheck, {"style", "bugs"}), {"logrlint"}),
    Fast(maintidx, {"complexity"}), Slow(makezero, {"style", "bugs"}),
    Retired("maligned", {"performance"}), Slow(mirror, {"style"}),
    Fast(misspell, {"style", "comment"}), Slow(musttag, {"style", "bugs"}),
    Fast(nakedret, {"style"}), Fast(nestif, {"complexity"}) }

NilerrToTenv(go) == {
    Slow(nilerr, {"bugs"}), Slow(nilnil, {"style"}), Fast(nlreturn, {"style"}),
    Slow(noctx, {"performance", "bugs"}), Slow(nonamedreturns, {"style"}),
    Retired("nosnakecase", {"style"}), Fast(nosprintfhostport, {"style"}),
    Slow(paralleltest, {"style", "test"}), Slow(perfsprint, {"performance"}),
    Fast(prealloc, {"performance"}), Fast(predeclared, {"style"}),
    Fast(promlinter, {"style"}), Slow(protogetter, {"bugs"}),
    Slow(reassign, {"bugs"}), Slow(recvcheck, {"bugs"}),
    ConsiderSlow(Fast(revive, {"style", "metalinter"})),
    Slow(rowserrcheck, {"bugs", "sql"}), Slow(sloglint, {"style", "format"}),
    Retired("scopelint", {"bugs"}), Slow(sqlclosecheck, {"bugs", "sql"}),
    Slow(spancheck, {"bugs"}),
    WithEnabledByDefault(
        WithAlternativeNames(Slow(staticcheck, {"bugs", "metalinter"}),
                             {"megacheck"})),
    Retired("structcheck", {"unused"}), Slow(stylecheck, {"style"}),
    Fast(tagalign, {"style", "format"}) }

TestableexamplesToNolintlint(go) == {
    Slow(tagliatelle, {"style"}), Slow(tenv, {"test"}),
    Fast(testableexamples, {"test"}), Slow(testifylint, {"test", "bugs"}),
    Fast(testpackage, {"style", "test"}), Slow(thelper, {"test"}),
    Slow(tparallel, {"style", "test"}),
    WithEnabledByDefault(WithInternal(Fast(typecheck, {}))),
    Slow(unconvert, {"style"}), Slow(unparam, {"unused"}),
    WithEnabledByDefault(
        WithAlternativeNames(
            WithChangeTypes(ConsiderSlow(Slow(unused, {"unused"}))), {"megacheck"})),
    Fast(usestdlibvars, {"style"}), Slow(usetesting, {"test"}),
    Retired("varcheck", {"unused"}), Slow(varnamelen, {"style"}),
    Slow(wastedassign, {"style"}), Fast(whitespace, {"style"}),
    Slow(wrapcheck, {"style", "error"}), Fast(wsl, {"style"}),
    Slow(zerologlint, {"bugs"}), Fast(nolintlint, {"style"}) }

LinterBuilder(go) ==
    AsasalintToExportloopref(go) \union ForbidigoToGomodguard(go)
        \union GoprintffuncnameToNestif(go) \union NilerrToTenv(go)
        \union TestableexamplesToNolintlint(go)
=============================================================================
