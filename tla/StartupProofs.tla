--------------------------- MODULE StartupProofs ---------------------------
(***************************************************************************)
(* Theorems about Startup, for any table of linters that are built in, any *)
(* settings, files, plugins and trees: what StartupProperties says.  In    *)
(* turn: the linters that the database selects, the names in its table,    *)
(* the configuration that a command settles on, what `linters` shows, the  *)
(* checks of govet, gocritic and revive, the jobs, and the packages.       *)
(***************************************************************************)
EXTENDS StartupProperties, FiniteSetTheorems, TLAPS

(* A name stands for one linter.  It does not when a plugin takes the name *)
(* of a linter that is built in; and nobody else is called typecheck.      *)
WellNamed(lcs) ==
    /\ \A a, b \in lcs : a.name = b.name => a = b
    /\ \A lc \in lcs : lc.origin \in Nat /\ "typecheck" \notin lc.alternatives

(* The set in words: EffectiveSet, for any linters and configuration.      *)
BroughtIn(lc, c) ==
    IF c.presets # {} THEN lc.presets \intersect c.presets # {} /\ ~IsDeprecated(lc)
    ELSE ~c.disableAll /\ ~IsRetired(lc) /\ (c.enableAll \/ lc.enabledByDefault)

Wanted(lc, c) ==
    \/ lc.name = "typecheck"
    \/ /\ ~NamedIn(lc, c.disable)
       /\ NamedIn(lc, c.enable) \/ (BroughtIn(lc, c) /\ ~(c.fast /\ lc.slow))

-----------------------------------------------------------------------------
(* Without two linters of one name, nothing that is stored replaces        *)
(* anything.                                                               *)
LEMMA StoredAsIs ==
    ASSUME NEW lcs, WellNamed(lcs), NEW more, more \subseteq lcs
    PROVE  StoredLast(more) = more
<1>1. ASSUME NEW lc \in more, NEW p \in more, p.name = lc.name
      PROVE  ~(p.origin > lc.origin)
  <2>1. p = lc /\ p.origin \in Nat
    BY <1>1 DEF WellNamed
  <2> QED
    BY <2>1
<1> QED
  BY <1>1 DEF StoredLast

LEMMA StoreAdds ==
    ASSUME NEW lcs, WellNamed(lcs), NEW present, present \subseteq lcs, NEW more, more \subseteq lcs
    PROVE  Store(present, more) = present \union more
<1>1. Store(present, more) = {lc \in present : lc.name \notin Names(more)} \union more
  BY StoredAsIs DEF Store
<1>2. ASSUME NEW lc \in present, lc.name \in Names(more)
      PROVE  lc \in more
  BY <1>2 DEF Names, WellNamed
<1> QED
  BY <1>1, <1>2

(* What the defaults, enable-all or the presets bring.                     *)
LEMMA PresetSet ==
    ASSUME NEW lcs, NEW c, WellNamed(lcs)
    PROVE  Store(StartingSet(lcs, c), InPresets(lcs, c.presets)) = {lc \in lcs : BroughtIn(lc, c)}
<1> DEFINE start == StartingSet(lcs, c)
           named == InPresets(lcs, c.presets)
<1>1. named = {lc \in lcs : ~IsDeprecated(lc) /\ lc.presets \intersect c.presets # {}}
  BY DEF InPresets, GetAllLinterConfigsForPreset
<1>2. start = IF c.disableAll \/ c.presets # {} THEN {}
              ELSE {lc \in lcs : ~IsRetired(lc) /\ (c.enableAll \/ lc.enabledByDefault)}
  <2> DEFINE all == IF c.enableAll THEN lcs ELSE GetAllEnabledByDefaultLinters(lcs)
             kept == {lc \in all : ~IsRetired(lc)}
  <2>1. kept = {lc \in lcs : ~IsRetired(lc) /\ (c.enableAll \/ lc.enabledByDefault)}
    BY DEF GetAllEnabledByDefaultLinters
  <2>2. StoredLast(kept) = kept
    BY <2>1, StoredAsIs
  <2> QED
    BY <2>1, <2>2 DEF StartingSet, LinterConfigsToMap
<1>3. Store(start, named) = start \union named
  BY <1>1, <1>2, StoreAdds
<1> QED
  BY <1>1, <1>2, <1>3 DEF BroughtIn

(* The map that Build makes holds the linters that are wanted.             *)
LEMMA BuildIsWanted ==
    ASSUME NEW lcs, NEW c, WellNamed(lcs)
    PROVE  Build(lcs, c) = {lc \in lcs : Wanted(lc, c)}
<1> DEFINE preset == Store(StartingSet(lcs, c), InPresets(lcs, c.presets))
           quick == IF c.fast THEN {lc \in preset : ~lc.slow} ELSE preset
           enabled == Store(quick, WithNames(lcs, c.enable))
           disabled == Names(WithNames(lcs, c.disable))
           rest == {lc \in enabled : lc.name \notin disabled}
<1>1. preset = {lc \in lcs : BroughtIn(lc, c)}
  BY PresetSet
<1>2. quick = {lc \in lcs : BroughtIn(lc, c) /\ ~(c.fast /\ lc.slow)}
  BY <1>1
<1>3. \A names : WithNames(lcs, names) = {lc \in lcs : NamedIn(lc, names)}
  BY DEF WithNames, GetLinterConfigs, NamedIn
<1>4. enabled = {lc \in lcs : NamedIn(lc, c.enable) \/ (BroughtIn(lc, c) /\ ~(c.fast /\ lc.slow))}
  <2>1. enabled = quick \union WithNames(lcs, c.enable)
    BY <1>2, <1>3, StoreAdds
  <2> QED
    BY <1>2, <1>3, <2>1
<1>5. \A lc \in lcs : lc.name \in disabled <=> NamedIn(lc, c.disable)
  BY <1>3 DEF Names, WellNamed
<1>6. rest = {lc \in lcs : /\ ~NamedIn(lc, c.disable)
                           /\ NamedIn(lc, c.enable) \/ (BroughtIn(lc, c) /\ ~(c.fast /\ lc.slow))}
  BY <1>4, <1>5
<1>7. GetLinterConfigs(lcs, "typecheck") = {lc \in lcs : lc.name = "typecheck"}
  BY DEF GetLinterConfigs, AllNames, WellNamed
<1>8. AddTypecheck(lcs, rest) = rest \union {lc \in lcs : lc.name = "typecheck"}
  <2>1. CASE "typecheck" \in Names(rest)
    <3>1. \A lc \in lcs : lc.name = "typecheck" => lc \in rest
      BY <1>6, <2>1 DEF Names, WellNamed
    <3> QED
      BY <2>1, <3>1 DEF AddTypecheck
  <2>2. CASE "typecheck" \notin Names(rest)
    <3>1. AddTypecheck(lcs, rest) = Store(rest, GetLinterConfigs(lcs, "typecheck"))
      BY <2>2 DEF AddTypecheck
    <3> HIDE DEF rest
    <3>2. rest \subseteq lcs
      BY <1>6
    <3> QED
      BY <1>7, <3>1, <3>2, StoreAdds
  <2> QED
    BY <2>1, <2>2
<1>9. Build(lcs, c) = AddTypecheck(lcs, rest)
  BY DEF Build
<1> HIDE DEF rest
<1> QED
  BY <1>6, <1>8, <1>9 DEF Wanted

-----------------------------------------------------------------------------
Table(v, custom) == LinterBuilder(v) \union PluginBuilders(custom)

(* What a configuration made for an adapter has, whatever it is wrapped    *)
(* in: its name, and types loaded just when its analyzers need them.       *)
Typed(l, name) == l.name = name /\ l.goanalysis /\ l.mode >= TypesInfo
Untyped(l, name) == l.name = name /\ ~(l.goanalysis /\ l.mode >= TypesInfo)

LoadsEnough(lc) ==
    /\ LoadFiles \subseteq lc.loadMode
    /\ NeedsTypes(lc) => LoadForAnalysis \subseteq lc.loadMode
    /\ "deps" \in lc.loadMode => NeedsTypes(lc) /\ lc.slow

Fields == DOMAIN NewConfig([name |-> ""])

Named(lc, name) ==
    /\ DOMAIN lc = Fields
    /\ lc.name = name /\ lc.origin = 1 /\ "typecheck" \notin lc.alternatives
    /\ lc.changesTypes \in BOOLEAN /\ LoadsEnough(lc)

LEMMA FieldsAre ==
    Fields = {"linter", "name", "origin", "enabledByDefault", "loadMode", "presets", "alternatives",
              "internal", "slow", "changesTypes", "deprecation"}
  BY DEF Fields, NewConfig

LEMMA NamedFast ==
    ASSUME NEW l, NEW presets, NEW name
    PROVE  /\ Untyped(l, name) => Named(Fast(l, presets), name)
           /\ Typed(l, name) => Named(Slow(l, presets), name)
<1>1. /\ DOMAIN Fast(l, presets) = Fields
      /\ Fast(l, presets).name = l.name /\ Fast(l, presets).origin = 1
      /\ Fast(l, presets).alternatives = {} /\ Fast(l, presets).changesTypes = FALSE
      /\ Fast(l, presets).loadMode = LoadFiles /\ Fast(l, presets).linter = l
  BY FieldsAre DEF Fast, WithPresets, NewConfig
<1>2. "deps" \notin LoadFiles /\ "deps" \in LoadForAnalysis
  BY DEF LoadFiles, LoadForAnalysis
<1>3. Untyped(l, name) => Named(Fast(l, presets), name)
  BY <1>1, <1>2 DEF Untyped, Named, LoadsEnough, NeedsTypes
<1> DEFINE fast == Fast(l, presets)
<1>4. /\ DOMAIN Slow(l, presets) = Fields
      /\ Slow(l, presets).name = l.name /\ Slow(l, presets).origin = 1
      /\ Slow(l, presets).alternatives = {} /\ Slow(l, presets).changesTypes = FALSE
      /\ Slow(l, presets).loadMode = LoadFiles \union LoadForAnalysis /\ Slow(l, presets).linter = l
      /\ Slow(l, presets).slow = TRUE
  <2>1. Slow(l, presets) =
            [fast EXCEPT !.loadMode = @ \union LoadFiles \union LoadForAnalysis, !.slow = TRUE]
    BY DEF Slow, WithLoadForGoAnalysis
  <2> HIDE DEF fast
  <2>2. LoadFiles \union LoadFiles \union LoadForAnalysis = LoadFiles \union LoadForAnalysis
    OBVIOUS
  <2> QED
    BY <1>1, <2>1, <2>2, FieldsAre DEF fast
<1>5. Typed(l, name) => Named(Slow(l, presets), name)
  BY <1>2, <1>4 DEF Typed, Named, LoadsEnough, NeedsTypes
<1> QED
  BY <1>3, <1>5

LEMMA NamedRetired ==
    ASSUME NEW name, NEW presets
    PROVE  Named(Retired(name, presets), name)
<1>1. Untyped(NewNoopDeprecated(name), name)
  BY DEF NewNoopDeprecated, Noop, Untyped
<1>2. Named(Fast(NewNoopDeprecated(name), presets), name)
  BY <1>1, NamedFast
<1> QED
  BY <1>2, FieldsAre DEF Named, LoadsEnough, NeedsTypes, Retired, Deprecated

LEMMA NamedWrapped ==
    ASSUME NEW lc, NEW name, Named(lc, name), NEW x
    PROVE  /\ Named(WithEnabledByDefault(lc), name) /\ Named(ConsiderSlow(lc), name)
           /\ Named(WithChangeTypes(lc), name) /\ Named(WithInternal(lc), name)
           /\ Named(Deprecated(lc, x), name) /\ Named(WithNoopFallback(lc, x), name)
           /\ "typecheck" \notin x => Named(WithAlternativeNames(lc, x), name)
<1> USE FieldsAre DEF Named, LoadsEnough, NeedsTypes
<1>1. Named(WithEnabledByDefault(lc), name) /\ Named(WithInternal(lc), name)
  BY DEF WithEnabledByDefault, WithInternal
<1>2. Named(ConsiderSlow(lc), name) /\ Named(WithChangeTypes(lc), name)
  BY DEF ConsiderSlow, WithChangeTypes
<1>3. Named(Deprecated(lc, x), name)
  BY DEF Deprecated
<1>4. Named(WithNoopFallback(lc, x), name)
  <2>1. CASE x
    <3>1. WithNoopFallback(lc, x) = [lc EXCEPT !.linter = Noop(lc.linter), !.loadMode = LoadFiles]
      BY <2>1 DEF WithNoopFallback
    <3>2. Noop(lc.linter).goanalysis = FALSE /\ "deps" \notin LoadFiles
      BY DEF Noop, LoadFiles
    <3> QED
      BY <3>1, <3>2
  <2>2. CASE ~x
    BY <2>2 DEF WithNoopFallback
  <2> QED
    BY <2>1, <2>2
<1>5. "typecheck" \notin x => Named(WithAlternativeNames(lc, x), name)
  BY DEF WithAlternativeNames
<1> QED
  BY <1>1, <1>2, <1>3, <1>4, <1>5

(* The linters of a part of the table, each with a name of its own.        *)
OwnNames(lcs, names) ==
    /\ \A lc \in lcs : lc.name \in names /\ Named(lc, lc.name)
    /\ \A a, b \in lcs : a.name = b.name => a = b

NamesOfAsasalintToExportloopref ==
    {"asasalint", "asciicheck", "bidichk", "bodyclose", "canonicalheader",
     "containedctx", "contextcheck", "copyloopvar", "cyclop", "decorder",
     "deadcode", "depguard", "dogsled", "dupl", "dupword", "durationcheck",
     "errcheck", "errchkjson", "errname", "errorlint", "execinquery",
     "exhaustive", "exhaustivestruct", "exhaustruct", "exportloopref"}

LEMMA OwnAsasalintToExportloopref ==
    ASSUME NEW v
    PROVE  OwnNames(AsasalintToExportloopref(v), NamesOfAsasalintToExportloopref)
<1>1. /\ Typed(asasalint, "asasalint") /\ Untyped(asciicheck, "asciicheck")
      /\ Untyped(bidichk, "bidichk") /\ Typed(bodyclose, "bodyclose")
      /\ Typed(canonicalheader, "canonicalheader") /\ Typed(containedctx, "containedctx")
      /\ Typed(contextcheck, "contextcheck") /\ Untyped(copyloopvar, "copyloopvar")
      /\ Untyped(cyclop, "cyclop") /\ Untyped(decorder, "decorder")
      /\ Untyped(depguard, "depguard") /\ Untyped(dogsled, "dogsled") /\ Untyped(dupl, "dupl")
      /\ Untyped(dupword, "dupword") /\ Typed(durationcheck, "durationcheck")
      /\ Typed(errcheck, "errcheck") /\ Typed(errchkjson, "errchkjson")
      /\ Typed(errname, "errname") /\ Typed(errorlint, "errorlint")
      /\ Typed(exhaustive, "exhaustive") /\ Typed(exhaustruct, "exhaustruct")
      /\ Typed(exportloopref, "exportloopref")
  BY DEF Typed, Untyped, None, Syntax, TypesInfo, Reporter, Collector, FatalInNew, FatalInSetUp,
         LogsError, LogsWarning, FailsPreRun, FailsInPass,
         asasalint, asciicheck, bidichk, bodyclose, canonicalheader,
         containedctx, contextcheck, copyloopvar, cyclop, decorder, depguard,
         dogsled, dupl, dupword, durationcheck, errcheck, errchkjson,
         errname, errorlint, exhaustive, exhaustruct, exportloopref
<1>2. /\ Named(Slow(asasalint, {"bugs"}), "asasalint")
      /\ Named(Fast(asciicheck, {"bugs", "style"}), "asciicheck")
      /\ Named(Fast(bidichk, {"bugs"}), "bidichk")
      /\ Named(Slow(bodyclose, {"performance", "bugs"}), "bodyclose")
      /\ Named(Slow(canonicalheader, {"style"}), "canonicalheader")
      /\ Named(Slow(containedctx, {"style"}), "containedctx")
      /\ Named(Slow(contextcheck, {"bugs"}), "contextcheck")
      /\ Named(WithNoopFallback(Fast(copyloopvar, {"style"}), IsGoLowerThanGo122(v)), "copyloopvar")
      /\ Named(Fast(cyclop, {"complexity"}), "cyclop")
      /\ Named(Fast(decorder, {"format", "style"}), "decorder")
      /\ Named(Retired("deadcode", {"unused"}), "deadcode")
      /\ Named(Fast(depguard, {"style", "import", "module"}), "depguard")
      /\ Named(Fast(dogsled, {"style"}), "dogsled")
      /\ Named(Fast(dupl, {"style"}), "dupl")
      /\ Named(Fast(dupword, {"comment"}), "dupword")
      /\ Named(Slow(durationcheck, {"bugs"}), "durationcheck")
      /\ Named(WithEnabledByDefault(Slow(errcheck, {"bugs", "error"})), "errcheck")
      /\ Named(Slow(errchkjson, {"bugs"}), "errchkjson")
      /\ Named(Slow(errname, {"style"}), "errname")
      /\ Named(Slow(errorlint, {"bugs", "error"}), "errorlint")
      /\ Named(Retired("execinquery", {"sql"}), "execinquery")
      /\ Named(Slow(exhaustive, {"bugs"}), "exhaustive")
      /\ Named(Retired("exhaustivestruct", {"style", "test"}), "exhaustivestruct")
      /\ Named(Slow(exhaustruct, {"style", "test"}), "exhaustruct")
      /\ Named(Deprecated(Slow(exportloopref, {"bugs"}), DeprecationWarning), "exportloopref")
  BY <1>1, NamedFast, NamedRetired, NamedWrapped
<1>3. \A lc \in AsasalintToExportloopref(v) : Named(lc, lc.name)
                      /\ lc.name \in NamesOfAsasalintToExportloopref
  BY <1>2 DEF AsasalintToExportloopref, NamesOfAsasalintToExportloopref, Named
<1>4. \A a, b \in AsasalintToExportloopref(v) : a.name = b.name => a = b
  BY <1>2 DEF AsasalintToExportloopref, Named
<1> QED
  BY <1>3, <1>4 DEF OwnNames

NamesOfForbidigoToGomodguard ==
    {"forbidigo", "forcetypeassert", "fatcontext", "funlen", "gci",
     "ginkgolinter", "gocheckcompilerdirectives", "gochecknoglobals",
     "gochecknoinits", "gochecksumtype", "gocognit", "goconst", "gocritic",
     "gocyclo", "godot", "godox", "err113", "gofmt", "gofumpt", "goheader",
     "goimports", "golint", "mnd", "gomnd", "gomoddirectives", "gomodguard"}

LEMMA OwnForbidigoToGomodguard ==
    ASSUME NEW v
    PROVE  OwnNames(ForbidigoToGomodguard(v), NamesOfForbidigoToGomodguard)
<1>1. /\ Typed(forbidigo, "forbidigo") /\ Untyped(forcetypeassert, "forcetypeassert")
      /\ Typed(fatcontext, "fatcontext") /\ Untyped(funlen, "funlen") /\ Untyped(gci, "gci")
      /\ Typed(ginkgolinter, "ginkgolinter")
      /\ Untyped(gocheckcompilerdirectives, "gocheckcompilerdirectives")
      /\ Typed(gochecknoglobals, "gochecknoglobals")
      /\ Untyped(gochecknoinits, "gochecknoinits") /\ Typed(gochecksumtype, "gochecksumtype")
      /\ Untyped(gocognit, "gocognit") /\ Untyped(goconst, "goconst")
      /\ Typed(gocritic, "gocritic") /\ Untyped(gocyclo, "gocyclo") /\ Untyped(godot, "godot")
      /\ Untyped(godox, "godox") /\ Typed(err113, "err113") /\ Untyped(gofmt, "gofmt")
      /\ Untyped(gofumpt, "gofumpt") /\ Untyped(goheader, "goheader")
      /\ Untyped(goimports, "goimports") /\ Untyped(mnd, "mnd")
      /\ Untyped(gomoddirectives, "gomoddirectives") /\ Untyped(gomodguard, "gomodguard")
  BY DEF Typed, Untyped, None, Syntax, TypesInfo, Reporter, Collector, FatalInNew, FatalInSetUp,
         LogsError, LogsWarning, FailsPreRun, FailsInPass,
         forbidigo, forcetypeassert, fatcontext, funlen, gci, ginkgolinter,
         gocheckcompilerdirectives, gochecknoglobals, gochecknoinits,
         gochecksumtype, gocognit, goconst, gocritic, gocyclo, godot, godox,
         err113, gofmt, gofumpt, goheader, goimports, mnd, gomoddirectives,
         gomodguard
<1>2. /\ Named(Slow(forbidigo, {"style"}), "forbidigo")
      /\ Named(Fast(forcetypeassert, {"style"}), "forcetypeassert")
      /\ Named(Slow(fatcontext, {"performance"}), "fatcontext")
      /\ Named(Fast(funlen, {"complexity"}), "funlen")
      /\ Named(Fast(gci, {"format", "import"}), "gci")
      /\ Named(Slow(ginkgolinter, {"style"}), "ginkgolinter")
      /\ Named(Fast(gocheckcompilerdirectives, {"bugs"}), "gocheckcompilerdirectives")
      /\ Named(Slow(gochecknoglobals, {"style"}), "gochecknoglobals")
      /\ Named(Fast(gochecknoinits, {"style"}), "gochecknoinits")
      /\ Named(Slow(gochecksumtype, {"bugs"}), "gochecksumtype")
      /\ Named(Fast(gocognit, {"complexity"}), "gocognit")
      /\ Named(Fast(goconst, {"style"}), "goconst")
      /\ Named(Slow(gocritic, {"style", "metalinter"}), "gocritic")
      /\ Named(Fast(gocyclo, {"complexity"}), "gocyclo")
      /\ Named(Fast(godot, {"style", "comment"}), "godot")
      /\ Named(Fast(godox, {"style", "comment"}), "godox")
      /\ Named(WithAlternativeNames(Slow(err113, {"style", "error"}), {"goerr113"}), "err113")
      /\ Named(Fast(gofmt, {"format"}), "gofmt")
      /\ Named(Fast(gofumpt, {"format"}), "gofumpt")
      /\ Named(Fast(goheader, {"style"}), "goheader")
      /\ Named(Fast(goimports, {"format", "import"}), "goimports")
      /\ Named(Retired("golint", {"style"}), "golint")
      /\ Named(Fast(mnd, {"style"}), "mnd")
      /\ Named(Retired("gomnd", {"style"}), "gomnd")
      /\ Named(Fast(gomoddirectives, {"style", "module"}), "gomoddirectives")
      /\ Named(Fast(gomodguard, {"style", "import", "module"}), "gomodguard")
  BY <1>1, NamedFast, NamedRetired, NamedWrapped
<1>3. \A lc \in ForbidigoToGomodguard(v) : Named(lc, lc.name) /\ lc.name \in NamesOfForbidigoToGomodguard
  BY <1>2 DEF ForbidigoToGomodguard, NamesOfForbidigoToGomodguard, Named
<1>4. \A a, b \in ForbidigoToGomodguard(v) : a.name = b.name => a = b
  BY <1>2 DEF ForbidigoToGomodguard, Named
<1> QED
  BY <1>3, <1>4 DEF OwnNames

NamesOfGoprintffuncnameToNestif ==
    {"goprintffuncname", "gosec", "gosimple", "gosmopolitan", "govet",
     "grouper", "ifshort", "iface", "importas", "inamedparam", "ineffassign",
     "interfacebloat", "interfacer", "intrange", "ireturn", "lll",
     "loggercheck", "maintidx", "makezero", "maligned", "mirror", "misspell",
     "musttag", "nakedret", "nestif"}

LEMMA OwnGoprintffuncnameToNestif ==
    ASSUME NEW v
    PROVE  OwnNames(GoprintffuncnameToNestif(v), NamesOfGoprintffuncnameToNestif)
<1>1. /\ Untyped(goprintffuncname, "goprintffuncname") /\ Typed(gosec, "gosec")
      /\ Typed(gosimple, "gosimple") /\ Typed(gosmopolitan, "gosmopolitan")
      /\ Typed(govet, "govet") /\ Untyped(grouper, "grouper") /\ Typed(iface, "iface")
      /\ Typed(importas, "importas") /\ Untyped(inamedparam, "inamedparam")
      /\ Untyped(ineffassign, "ineffassign") /\ Untyped(interfacebloat, "interfacebloat")
      /\ Typed(intrange, "intrange") /\ Typed(ireturn, "ireturn") /\ Untyped(lll, "lll")
      /\ Typed(loggercheck, "loggercheck") /\ Untyped(maintidx, "maintidx")
      /\ Typed(makezero, "makezero") /\ Typed(mirror, "mirror")
      /\ Untyped(misspell, "misspell") /\ Typed(musttag, "musttag")
      /\ Untyped(nakedret, "nakedret") /\ Untyped(nestif, "nestif")
  BY DEF Typed, Untyped, None, Syntax, TypesInfo, Reporter, Collector, FatalInNew, FatalInSetUp,
         LogsError, LogsWarning, FailsPreRun, FailsInPass,
         goprintffuncname, gosec, gosimple, gosmopolitan, govet, grouper,
         iface, importas, inamedparam, ineffassign, interfacebloat, intrange,
         ireturn, lll, loggercheck, maintidx, makezero, mirror, misspell,
         musttag, nakedret, nestif
<1>2. /\ Named(Fast(goprintffuncname, {"style"}), "goprintffuncname")
      /\ Named(WithAlternativeNames(Slow(gosec, {"bugs"}), {"gas"}), "gosec")
      /\ Named(WithEnabledByDefault( WithAlternativeNames(Slow(gosimple, {"style"}), {"megacheck"})),
               "gosimple")
      /\ Named(Slow(gosmopolitan, {"bugs"}), "gosmopolitan")
      /\ Named(WithEnabledByDefault(
                  WithAlternativeNames(Slow(govet, {"bugs", "metalinter"}), {"vet", "vetshadow"})),
               "govet")
      /\ Named(Fast(grouper, {"style"}), "grouper")
      /\ Named(Retired("ifshort", {"style"}), "ifshort")
      /\ Named(Slow(iface, {"style"}), "iface")
      /\ Named(Slow(importas, {"style"}), "importas")
      /\ Named(Fast(inamedparam, {"style"}), "inamedparam")
      /\ Named(WithEnabledByDefault(Fast(ineffassign, {"unused"})), "ineffassign")
      /\ Named(Fast(interfacebloat, {"style"}), "interfacebloat")
      /\ Named(Retired("interfacer", {"style"}), "interfacer")
      /\ Named(WithNoopFallback(Slow(intrange, {"style"}), IsGoLowerThanGo122(v)), "intrange")
      /\ Named(Slow(ireturn, {"style"}), "ireturn")
      /\ Named(Fast(lll, {"style"}), "lll")
      /\ Named(WithAlternativeNames(Slow(loggercheck, {"style", "bugs"}), {"logrlint"}), "loggercheck")
      /\ Named(Fast(maintidx, {"complexity"}), "maintidx")
      /\ Named(Slow(makezero, {"style", "bugs"}), "makezero")
      /\ Named(Retired("maligned", {"performance"}), "maligned")
      /\ Named(Slow(mirror, {"style"}), "mirror")
      /\ Named(Fast(misspell, {"style", "comment"}), "misspell")
      /\ Named(Slow(musttag, {"style", "bugs"}), "musttag")
      /\ Named(Fast(nakedret, {"style"}), "nakedret")
      /\ Named(Fast(nestif, {"complexity"}), "nestif")
  BY <1>1, NamedFast, NamedRetired, NamedWrapped
<1>3. \A lc \in GoprintffuncnameToNestif(v) : Named(lc, lc.name)
                      /\ lc.name \in NamesOfGoprintffuncnameToNestif
  BY <1>2 DEF GoprintffuncnameToNestif, NamesOfGoprintffuncnameToNestif, Named
<1>4. \A a, b \in GoprintffuncnameToNestif(v) : a.name = b.name => a = b
  BY <1>2 DEF GoprintffuncnameToNestif, Named
<1> QED
  BY <1>3, <1>4 DEF OwnNames

NamesOfNilerrToTenv ==
    {"nilerr", "nilnil", "nlreturn", "noctx", "nonamedreturns",
     "nosnakecase", "nosprintfhostport", "paralleltest", "perfsprint",
     "prealloc", "predeclared", "promlinter", "protogetter", "reassign",
     "recvcheck", "revive", "rowserrcheck", "sloglint", "scopelint",
     "sqlclosecheck", "spancheck", "staticcheck", "structcheck",
     "stylecheck", "tagalign"}

LEMMA OwnNilerrToTenv ==
    ASSUME NEW v
    PROVE  OwnNames(NilerrToTenv(v), NamesOfNilerrToTenv)
<1>1. /\ Typed(nilerr, "nilerr") /\ Typed(nilnil, "nilnil") /\ Untyped(nlreturn, "nlreturn")
      /\ Typed(noctx, "noctx") /\ Typed(nonamedreturns, "nonamedreturns")
      /\ Untyped(nosprintfhostport, "nosprintfhostport")
      /\ Typed(paralleltest, "paralleltest") /\ Typed(perfsprint, "perfsprint")
      /\ Untyped(prealloc, "prealloc") /\ Untyped(predeclared, "predeclared")
      /\ Untyped(promlinter, "promlinter") /\ Typed(protogetter, "protogetter")
      /\ Typed(reassign, "reassign") /\ Typed(recvcheck, "recvcheck")
      /\ Untyped(revive, "revive") /\ Typed(rowserrcheck, "rowserrcheck")
      /\ Typed(sloglint, "sloglint") /\ Typed(sqlclosecheck, "sqlclosecheck")
      /\ Typed(spancheck, "spancheck") /\ Typed(staticcheck, "staticcheck")
      /\ Typed(stylecheck, "stylecheck") /\ Untyped(tagalign, "tagalign")
  BY DEF Typed, Untyped, None, Syntax, TypesInfo, Reporter, Collector, FatalInNew, FatalInSetUp,
         LogsError, LogsWarning, FailsPreRun, FailsInPass,
         nilerr, nilnil, nlreturn, noctx, nonamedreturns, nosprintfhostport,
         paralleltest, perfsprint, prealloc, predeclared, promlinter,
         protogetter, reassign, recvcheck, revive, rowserrcheck, sloglint,
         sqlclosecheck, spancheck, staticcheck, stylecheck, tagalign
<1>2. /\ Named(Slow(nilerr, {"bugs"}), "nilerr")
      /\ Named(Slow(nilnil, {"style"}), "nilnil")
      /\ Named(Fast(nlreturn, {"style"}), "nlreturn")
      /\ Named(Slow(noctx, {"performance", "bugs"}), "noctx")
      /\ Named(Slow(nonamedreturns, {"style"}), "nonamedreturns")
      /\ Named(Retired("nosnakecase", {"style"}), "nosnakecase")
      /\ Named(Fast(nosprintfhostport, {"style"}), "nosprintfhostport")
      /\ Named(Slow(paralleltest, {"style", "test"}), "paralleltest")
      /\ Named(Slow(perfsprint, {"performance"}), "perfsprint")
      /\ Named(Fast(prealloc, {"performance"}), "prealloc")
      /\ Named(Fast(predeclared, {"style"}), "predeclared")
      /\ Named(Fast(promlinter, {"style"}), "promlinter")
      /\ Named(Slow(protogetter, {"bugs"}), "protogetter")
      /\ Named(Slow(reassign, {"bugs"}), "reassign")
      /\ Named(Slow(recvcheck, {"bugs"}), "recvcheck")
      /\ Named(ConsiderSlow(Fast(revive, {"style", "metalinter"})), "revive")
      /\ Named(Slow(rowserrcheck, {"bugs", "sql"}), "rowserrcheck")
      /\ Named(Slow(sloglint, {"style", "format"}), "sloglint")
      /\ Named(Retired("scopelint", {"bugs"}), "scopelint")
      /\ Named(Slow(sqlclosecheck, {"bugs", "sql"}), "sqlclosecheck")
      /\ Named(Slow(spancheck, {"bugs"}), "spancheck")
      /\ Named(WithEnabledByDefault(
                  WithAlternativeNames(Slow(staticcheck, {"bugs", "metalinter"}), {"megacheck"})),
               "staticcheck")
      /\ Named(Retired("structcheck", {"unused"}), "structcheck")
      /\ Named(Slow(stylecheck, {"style"}), "stylecheck")
      /\ Named(Fast(tagalign, {"style", "format"}), "tagalign")
  BY <1>1, NamedFast, NamedRetired, NamedWrapped
<1>3. \A lc \in NilerrToTenv(v) : Named(lc, lc.name) /\ lc.name \in NamesOfNilerrToTenv
  BY <1>2 DEF NilerrToTenv, NamesOfNilerrToTenv, Named
<1>4. \A a, b \in NilerrToTenv(v) : a.name = b.name => a = b
  BY <1>2 DEF NilerrToTenv, Named
<1> QED
  BY <1>3, <1>4 DEF OwnNames

NamesOfTestableexamplesToNolintlint ==
    {"tagliatelle", "tenv", "testableexamples", "testifylint", "testpackage",
     "thelper", "tparallel", "typecheck", "unconvert", "unparam", "unused",
     "usestdlibvars", "usetesting", "varcheck", "varnamelen", "wastedassign",
     "whitespace", "wrapcheck", "wsl", "zerologlint", "nolintlint"}

LEMMA OwnTestableexamplesToNolintlint ==
    ASSUME NEW v
    PROVE  OwnNames(TestableexamplesToNolintlint(v), NamesOfTestableexamplesToNolintlint)
<1>1. /\ Typed(tagliatelle, "tagliatelle") /\ Typed(tenv, "tenv")
      /\ Untyped(testableexamples, "testableexamples") /\ Typed(testifylint, "testifylint")
      /\ Untyped(testpackage, "testpackage") /\ Typed(thelper, "thelper")
      /\ Typed(tparallel, "tparallel") /\ Untyped(typecheck, "typecheck")
      /\ Typed(unconvert, "unconvert") /\ Typed(unparam, "unparam")
      /\ Typed(unused, "unused") /\ Untyped(usestdlibvars, "usestdlibvars")
      /\ Typed(usetesting, "usetesting") /\ Typed(varnamelen, "varnamelen")
      /\ Typed(wastedassign, "wastedassign") /\ Untyped(whitespace, "whitespace")
      /\ Typed(wrapcheck, "wrapcheck") /\ Untyped(wsl, "wsl")
      /\ Typed(zerologlint, "zerologlint") /\ Untyped(nolintlint, "nolintlint")
  BY DEF Typed, Untyped, None, Syntax, TypesInfo, Reporter, Collector, FatalInNew, FatalInSetUp,
         LogsError, LogsWarning, FailsPreRun, FailsInPass,
         tagliatelle, tenv, testableexamples, testifylint, testpackage,
         thelper, tparallel, typecheck, unconvert, unparam, unused,
         usestdlibvars, usetesting, varnamelen, wastedassign, whitespace,
         wrapcheck, wsl, zerologlint, nolintlint
<1>2. /\ Named(Slow(tagliatelle, {"style"}), "tagliatelle")
      /\ Named(Slow(tenv, {"test"}), "tenv")
      /\ Named(Fast(testableexamples, {"test"}), "testableexamples")
      /\ Named(Slow(testifylint, {"test", "bugs"}), "testifylint")
      /\ Named(Fast(testpackage, {"style", "test"}), "testpackage")
      /\ Named(Slow(thelper, {"test"}), "thelper")
      /\ Named(Slow(tparallel, {"style", "test"}), "tparallel")
      /\ Named(WithEnabledByDefault(WithInternal(Fast(typecheck, {}))), "typecheck")
      /\ Named(Slow(unconvert, {"style"}), "unconvert")
      /\ Named(Slow(unparam, {"unused"}), "unparam")
      /\ Named(WithEnabledByDefault(
                  WithAlternativeNames( WithChangeTypes(ConsiderSlow(Slow(unused, {"unused"}))), {"megacheck"})),
               "unused")
      /\ Named(Fast(usestdlibvars, {"style"}), "usestdlibvars")
      /\ Named(Slow(usetesting, {"test"}), "usetesting")
      /\ Named(Retired("varcheck", {"unused"}), "varcheck")
      /\ Named(Slow(varnamelen, {"style"}), "varnamelen")
      /\ Named(Slow(wastedassign, {"style"}), "wastedassign")
      /\ Named(Fast(whitespace, {"style"}), "whitespace")
      /\ Named(Slow(wrapcheck, {"style", "error"}), "wrapcheck")
      /\ Named(Fast(wsl, {"style"}), "wsl")
      /\ Named(Slow(zerologlint, {"bugs"}), "zerologlint")
      /\ Named(Fast(nolintlint, {"style"}), "nolintlint")
  BY <1>1, NamedFast, NamedRetired, NamedWrapped
<1>3. \A lc \in TestableexamplesToNolintlint(v) : Named(lc, lc.name)
                      /\ lc.name \in NamesOfTestableexamplesToNolintlint
  BY <1>2 DEF TestableexamplesToNolintlint, NamesOfTestableexamplesToNolintlint, Named
<1>4. \A a, b \in TestableexamplesToNolintlint(v) : a.name = b.name => a = b
  BY <1>2 DEF TestableexamplesToNolintlint, Named
<1> QED
  BY <1>3, <1>4 DEF OwnNames

AllBuiltIn ==
    NamesOfAsasalintToExportloopref \union NamesOfForbidigoToGomodguard
        \union NamesOfGoprintffuncnameToNestif \union NamesOfNilerrToTenv
        \union NamesOfTestableexamplesToNolintlint

LEMMA OwnNamesApart ==
    ASSUME NEW lcs, NEW others, NEW names, NEW otherNames,
           OwnNames(lcs, names), OwnNames(others, otherNames), names \intersect otherNames = {}
    PROVE  OwnNames(lcs \union others, names \union otherNames)
  BY DEF OwnNames

LEMMA TableOwnNames == ASSUME NEW v PROVE OwnNames(LinterBuilder(v), AllBuiltIn)
<1> DEFINE a == NamesOfAsasalintToExportloopref
           b == NamesOfForbidigoToGomodguard
           c == NamesOfGoprintffuncnameToNestif
           d == NamesOfNilerrToTenv
           e == NamesOfTestableexamplesToNolintlint
<1>1. a \intersect b = {} /\ (a \union b) \intersect c = {}
  BY DEF NamesOfAsasalintToExportloopref, NamesOfForbidigoToGomodguard, NamesOfGoprintffuncnameToNestif
<1>2. (a \union b \union c) \intersect d = {}
  BY DEF NamesOfAsasalintToExportloopref, NamesOfForbidigoToGomodguard, NamesOfGoprintffuncnameToNestif,
         NamesOfNilerrToTenv
<1>3. (a \union b \union c \union d) \intersect e = {}
  BY DEF NamesOfAsasalintToExportloopref, NamesOfForbidigoToGomodguard, NamesOfGoprintffuncnameToNestif,
         NamesOfNilerrToTenv, NamesOfTestableexamplesToNolintlint
<1> HIDE DEF a, b, c, d, e
<1>4. OwnNames(AsasalintToExportloopref(v) \union ForbidigoToGomodguard(v), a \union b)
  BY <1>1, OwnAsasalintToExportloopref, OwnForbidigoToGomodguard, OwnNamesApart DEF a, b
<1>5. OwnNames(AsasalintToExportloopref(v) \union ForbidigoToGomodguard(v)
                  \union GoprintffuncnameToNestif(v), a \union b \union c)
  BY <1>1, <1>4, OwnGoprintffuncnameToNestif, OwnNamesApart DEF c
<1>6. OwnNames(AsasalintToExportloopref(v) \union ForbidigoToGomodguard(v)
                  \union GoprintffuncnameToNestif(v) \union NilerrToTenv(v),
               a \union b \union c \union d)
  BY <1>2, <1>5, OwnNilerrToTenv, OwnNamesApart DEF d
<1>7. OwnNames(LinterBuilder(v), a \union b \union c \union d \union e)
  BY <1>3, <1>6, OwnTestableexamplesToNolintlint, OwnNamesApart DEF LinterBuilder, e
<1> QED
  BY <1>7 DEF AllBuiltIn, a, b, c, d, e

LEMMA PluginNames ==
    ASSUME NEW custom, NEW lc \in PluginBuilders(custom)
    PROVE  /\ lc.name \in DOMAIN custom /\ lc.origin \in Nat /\ lc.alternatives = {}
           /\ lc = IF custom[lc.name].type = "module" THEN ModulePlugin(lc.name, custom[lc.name].mode)
                   ELSE GoPlugin(lc.name)
<1>1. \A n \in GoPlugins(custom) : n \in DOMAIN custom /\ custom[n].type # "module"
  BY DEF GoPlugins
<1>2. \A n : GoPlugin(n).name = n /\ GoPlugin(n).origin = 3 /\ GoPlugin(n).alternatives = {}
  BY DEF GoPlugin, WithLoadForGoAnalysis, WithEnabledByDefault, NewConfig, Reporter
<1>3. \A n, needs : LET one == ModulePlugin(n, needs)
                     IN  one.name = n /\ one.origin = 2 /\ one.alternatives = {}
  BY DEF ModulePlugin, WithLoadForGoAnalysis, WithEnabledByDefault, NewConfig, Reporter
<1>4. CASE \E n \in GoPlugins(custom) : lc = GoPlugin(n)
  BY <1>1, <1>2, <1>4
<1>5. CASE \E n \in ModulePlugins(custom) : lc = ModulePlugin(n, custom[n].mode)
  BY <1>3, <1>5 DEF ModulePlugins
<1> QED
  BY <1>4, <1>5 DEF PluginBuilders

(* When no plugin takes the name of a linter that is built in, each name   *)
(* stands for one linter.                                                  *)
LEMMA KnownWellNamed ==
    ASSUME NEW v, NEW custom, DOMAIN custom \intersect AllBuiltIn = {}
    PROVE  WellNamed(Table(v, custom))
<1>1. OwnNames(LinterBuilder(v), AllBuiltIn)
  BY TableOwnNames
<1>2. \A a, b \in PluginBuilders(custom) : a.name = b.name => a = b
  BY PluginNames
<1>3. \A a \in LinterBuilder(v), b \in PluginBuilders(custom) : a.name # b.name
  BY <1>1, PluginNames DEF OwnNames
<1>4. \A lc \in Table(v, custom) : lc.origin \in Nat /\ "typecheck" \notin lc.alternatives
  BY <1>1, PluginNames DEF Table, OwnNames, Named
<1> QED
  BY <1>1, <1>2, <1>3, <1>4 DEF WellNamed, Table, OwnNames

-----------------------------------------------------------------------------
(* What the configuration is while a command gets it.                      *)
Parsed == ParseConfig(cmd, input.flags, FileOptions)
Appended == ApplyStringSliceHack(cmd, input.flags, Parsed)
Merged == IF cmd = "run" THEN HandleDeprecation(Appended) ELSE Appended
Versioned(v) == HandleGoVersion(Merged, v)
Final(v) == HandleEnableOnlyOption(input.flags, Versioned(v))

FileRead == {"merge", "goVersion", "validate", "manager", "enabled", "load", "lint", "done", "noGoFiles"}
Settled == {"manager", "enabled", "load", "lint", "done", "noGoFiles"}

ConfigInv ==
    /\ input \in Inputs
    /\ cmd \in {"linters", "run"} /\ stage \in Stages
    /\ stage \in {"load", "lint", "noGoFiles"} => cmd = "run"
    /\ stage \in FileRead => cfgDir \subseteq DOMAIN input.files
    /\ stage = "merge" => cfg = Parsed
    /\ stage = "goVersion" => cfg = Merged
    /\ stage = "validate" => \E v \in DetectGoVersions(input.modules) : cfg = Versioned(v)
    /\ stage \in Settled =>
          \E v \in DetectGoVersions(input.modules) : cfg = Final(v) /\ Validate(cfg)

WarnedInv ==
    cmd = "run" /\ stage \in {"goVersion", "validate"} \union Settled =>
        \A o \in DeprecatedOptions(Appended) : <<"warning", o>> \in log

LEMMA ConfigInvariant == Spec => []ConfigInv
<1>1. Init => ConfigInv
  BY DEF Init, ConfigInv, FileRead, Settled, Stages, Ended
<1>2. ConfigInv /\ [Next]_vars => ConfigInv'
  <2> SUFFICES ASSUME ConfigInv, [Next]_vars
               PROVE  ConfigInv'
    OBVIOUS
  <2> USE DEF Proceed, FileRead, Settled, Stages, Ended
  <2>1. CASE SetConfigFile
    <3>1. input' = input /\ cmd' = cmd /\ stage' \in {"parse", "failed"}
      BY <2>1 DEF SetConfigFile
    <3> QED
      BY <3>1 DEF ConfigInv
  <2>2. CASE ReadConfig
    <3> DEFINE ok == ~Unreadable(cfgDir, input.files)
    <3>1. /\ UNCHANGED <<input, cmd, cfgDir>>
          /\ stage' = IF ok THEN "merge" ELSE "failed"
          /\ ok => cfg' = Parsed
      BY <2>2 DEF ReadConfig, Parsed
    <3>2. Parsed' = Parsed
      BY <3>1 DEF Parsed, FileOptions
    <3>3. ok => cfgDir \subseteq DOMAIN input.files
      BY DEF Unreadable
    <3> HIDE DEF ok
    <3> QED
      BY <3>1, <3>2, <3>3 DEF ConfigInv
  <2>3. CASE MergeConfig
    <3>1. /\ UNCHANGED <<input, cmd, cfgDir>>
          /\ stage = "merge" /\ stage' = "goVersion"
      BY <2>3 DEF MergeConfig
    <3>2. cfg = Parsed
      BY <3>1 DEF ConfigInv
    <3>3. cfg' = Merged
      BY <2>3, <3>2 DEF MergeConfig, Merged, Appended
    <3>4. Merged' = Merged
      BY <3>1 DEF Merged, Appended, Parsed, FileOptions
    <3> QED
      BY <3>1, <3>3, <3>4 DEF ConfigInv
  <2>4. CASE SettleGoVersion
    <3>1. PICK v \in DetectGoVersions(input.modules) :
             /\ UNCHANGED <<input, cmd, cfgDir>>
             /\ stage = "goVersion" /\ stage' \in {"validate", "failed"}
             /\ cfg' = HandleGoVersion(cfg, v)
      BY <2>4 DEF SettleGoVersion
    <3>2. cfg' = Versioned(v)
      BY <3>1 DEF ConfigInv, Versioned
    <3>3. Versioned(v)' = Versioned(v)
      BY <3>1 DEF Versioned, Merged, Appended, Parsed, FileOptions
    <3> QED
      BY <3>1, <3>2, <3>3 DEF ConfigInv
  <2>5. CASE ValidateConfig
    <3>1. /\ UNCHANGED <<input, cmd, cfgDir>> /\ stage = "validate"
          /\ cfg' = HandleEnableOnlyOption(input.flags, cfg)
          /\ stage' = IF Validate(cfg') THEN "manager" ELSE "failed"
      BY <2>5 DEF ValidateConfig
    <3>2. PICK v \in DetectGoVersions(input.modules) : cfg = Versioned(v)
      BY <3>1 DEF ConfigInv
    <3>3. cfg' = Final(v)
      BY <3>1, <3>2 DEF Final
    <3>4. Final(v)' = Final(v)
      BY <3>1 DEF Final, Versioned, Merged, Appended, Parsed, FileOptions
    <3> QED
      BY <3>1, <3>3, <3>4 DEF ConfigInv
  <2>6. CASE StartRun
    BY <2>6 DEF StartRun, ConfigInv
  <2>7. ASSUME UNCHANGED <<input, cmd, configVars>>,
               stage' # "failed" => stage \in Settled /\ stage' \in Settled,
               stage' \in {"load", "lint", "noGoFiles"} => cmd = "run"
        PROVE  ConfigInv'
    <3>1. \A v : Final(v)' = Final(v)
      BY <2>7 DEF configVars, Final, Versioned, Merged, Appended, Parsed, FileOptions
    <3> QED
      BY <2>7, <3>1 DEF ConfigInv, configVars, Settled, FileRead
  <2>8. CASE NewManager
    BY <2>7, <2>8 DEF NewManager
  <2>9. CASE ListLinters
    BY <2>7, <2>9 DEF ListLinters
  <2>10. CASE PlanJobs
    BY <2>7, <2>10 DEF PlanJobs
  <2>11. CASE LoadPackages
    <3>1. stage = "load" /\ stage' \in {"noGoFiles", "failed", "lint"}
      BY <2>11 DEF LoadPackages, FatalStage
    <3> QED
      BY <2>7, <2>11, <3>1 DEF LoadPackages, ConfigInv
  <2>12. CASE RunFatal \/ RunFails \/ RunJob \/ EndRun
    BY <2>7, <2>12 DEF RunFatal, RunFails, RunJob, EndRun, ConfigInv
  <2>13. CASE UNCHANGED vars
    <3>1. \A v : Final(v)' = Final(v) /\ Versioned(v)' = Versioned(v)
      BY <2>13 DEF vars, Final, Versioned, Merged, Appended, Parsed, FileOptions
    <3>2. Parsed' = Parsed /\ Merged' = Merged
      BY <2>13 DEF vars, Merged, Appended, Parsed, FileOptions
    <3> QED
      BY <2>13, <3>1, <3>2 DEF ConfigInv, vars
  <2> QED
    BY <2>1, <2>2, <2>3, <2>4, <2>5, <2>6, <2>8, <2>9, <2>10, <2>11, <2>12, <2>13 DEF Next
<1> QED
  BY <1>1, <1>2, PTL DEF Spec

(* What a step after the deprecated options leaves alone.                  *)
LEMMA WarnedInvariant == Spec => []WarnedInv
<1>1. Init => WarnedInv
  BY DEF Init, WarnedInv, Settled
<1>2. ConfigInv /\ WarnedInv /\ [Next]_vars => WarnedInv'
  <2> SUFFICES ASSUME ConfigInv, WarnedInv, [Next]_vars
               PROVE  WarnedInv'
    OBVIOUS
  <2> USE DEF Proceed, Settled, configVars
  <2>1. ASSUME cmd' # "run" \/ stage' \notin {"goVersion", "validate"} \union Settled
        PROVE  WarnedInv'
    BY <2>1 DEF WarnedInv
  <2>2. ASSUME UNCHANGED <<input, cmd, cfgDir>>, log \subseteq log',
               stage \in {"goVersion", "validate"} \union Settled \/ stage' = stage
        PROVE  WarnedInv'
    <3>1. Appended' = Appended
      BY <2>2 DEF Appended, Parsed, FileOptions
    <3> QED
      BY <2>2, <3>1 DEF WarnedInv
  <2>3. CASE SetConfigFile \/ ReadConfig
    BY <2>1, <2>3 DEF SetConfigFile, ReadConfig
  <2>4. CASE MergeConfig
    <3>1. CASE cmd = "run"
      <4>1. Appended' = Appended
        BY <2>4 DEF MergeConfig, Appended, Parsed, FileOptions
      <4>2. ApplyStringSliceHack(cmd, input.flags, cfg) = Appended
        BY <2>4 DEF MergeConfig, ConfigInv, Appended
      <4>3. log' = log \union ({"warning"} \X DeprecatedOptions(Appended))
        BY <2>4, <3>1, <4>2 DEF MergeConfig, Tell
      <4> QED
        BY <4>1, <4>3 DEF WarnedInv
    <3>2. CASE cmd # "run"
      BY <2>1, <2>4, <3>2 DEF MergeConfig
    <3> QED
      BY <3>1, <3>2
  <2>5. CASE SettleGoVersion \/ ValidateConfig
    BY <2>2, <2>5 DEF SettleGoVersion, ValidateConfig
  <2>6. CASE NewManager \/ PlanJobs
    BY <2>2, <2>6 DEF NewManager, PlanJobs, Tell
  <2>7. CASE ListLinters \/ LoadPackages \/ RunFatal \/ RunFails \/ EndRun
    BY <2>2, <2>7 DEF ListLinters, LoadPackages, RunFatal, RunFails, EndRun, runVars
  <2>8. CASE RunJob
    BY <2>2, <2>8 DEF RunJob
  <2>9. CASE StartRun
    BY <2>1, <2>9 DEF StartRun
  <2>10. CASE UNCHANGED vars
    BY <2>2, <2>10 DEF vars
  <2> QED
    BY <2>3, <2>4, <2>5, <2>6, <2>7, <2>8, <2>9, <2>10 DEF Next
<1> QED
  BY <1>1, <1>2, ConfigInvariant, PTL DEF Spec

-----------------------------------------------------------------------------
(* The options, and what each function on them leaves alone.               *)
OtherOptions ==
    {"disableAll", "enableAll", "fast", "modulesDownloadMode", "go", "tests",
     "skipDirsUseDefault", "excludeDirsUseDefault", "formats", "sortResults", "sortOrder",
     "showStats", "excludeGenerated", "runShowStats", "format", "excludeGeneratedStrict",
     "excludeRules", "severityRules", "defaultSeverity", "custom", "govet", "gocritic",
     "revive", "badSettings"}

LEMMA OptionsAre == Options = Lists \union OtherOptions
<1>1. \A f, g : DOMAIN Over(f, g) = DOMAIN f \union DOMAIN g
  BY DEF Over
<1>2. DOMAIN [l \in Lists |-> {}] = Lists
  OBVIOUS
<1>3. DOMAIN FieldDefaults = OtherOptions
  BY DEF FieldDefaults, OtherOptions
<1> QED
  <2>1. NewDefault = Over([l \in Lists |-> {}], FieldDefaults)
    BY DEF NewDefault
  <2>2. DOMAIN NewDefault = DOMAIN [l \in Lists |-> {}] \union DOMAIN FieldDefaults
    BY <1>1, <2>1
  <2> QED
    BY <1>2, <1>3, <2>2 DEF Options

LEMMA FlagDefaultsAre ==
    /\ DOMAIN FlagDefaults("run") =
          {"disableAll", "enableAll", "fast", "modulesDownloadMode", "go", "tests",
           "skipDirsUseDefault", "formats", "sortResults", "sortOrder", "showStats",
           "excludeDirsUseDefault", "excludeGenerated"}
    /\ DOMAIN FlagDefaults("linters") = {"disableAll", "enableAll", "fast"}
<1>1. /\ DOMAIN LintersFlags = {"disableAll", "enableAll", "fast"}
      /\ DOMAIN RunFlags = {"modulesDownloadMode", "go", "tests", "skipDirsUseDefault"}
      /\ DOMAIN OutputFlags = {"formats", "sortResults", "sortOrder", "showStats"}
      /\ DOMAIN IssuesFlags = {"excludeDirsUseDefault", "excludeGenerated"}
  BY DEF LintersFlags, RunFlags, OutputFlags, IssuesFlags
<1>2. \A f, g : DOMAIN Over(f, g) = DOMAIN f \union DOMAIN g
  BY DEF Over
<1> DEFINE ofIssues == Over(OutputFlags, IssuesFlags)
           ofRun == Over(RunFlags, ofIssues)
<1>3. /\ DOMAIN ofIssues = DOMAIN OutputFlags \union DOMAIN IssuesFlags
      /\ DOMAIN ofRun = DOMAIN RunFlags \union DOMAIN ofIssues
      /\ DOMAIN Over(LintersFlags, ofRun) = DOMAIN LintersFlags \union DOMAIN ofRun
  BY <1>2
<1>4. FlagDefaults("run") = Over(LintersFlags, ofRun) /\ FlagDefaults("linters") = LintersFlags
  BY DEF FlagDefaults
<1> HIDE DEF ofIssues, ofRun
<1> QED
  BY <1>1, <1>3, <1>4

-----------------------------------------------------------------------------
LEMMA ParsedValues ==
    /\ DOMAIN Parsed = Options
    /\ \A o \in Options :
          Parsed[o] = IF o \in DOMAIN FlagDefaults(cmd) \intersect DOMAIN input.flags THEN input.flags[o]
                      ELSE IF o \in DOMAIN FileOptions THEN FileOptions[o]
                      ELSE Over(FlagDefaults(cmd), NewDefault)[o]
  BY DEF Parsed, ParseConfig

LEMMA AppendedValues ==
    /\ DOMAIN Appended = Options
    /\ \A o \in Options :
          Appended[o] = IF o \in ListFlags(cmd) \intersect DOMAIN input.flags
                        THEN Parsed[o] \union input.flags[o] ELSE Parsed[o]
  BY DEF Appended, ApplyStringSliceHack

LEMMA DeprecationValues ==
    ASSUME NEW c, DOMAIN c = Options,
           c.excludeDirsUseDefault \in BOOLEAN, c.showStats \in BOOLEAN
    PROVE  /\ DOMAIN HandleDeprecation(c) = Options
           /\ \A o \in Options :
                 \/ HandleDeprecation(c)[o] = c[o]
                 \/ o \in DOMAIN Replaces /\ Replaces[o] \in DeprecatedOptions(c)
<1> DEFINE d == HandleDeprecation(c)
<1>1. DOMAIN d = Options
  BY DEF HandleDeprecation
<1>2. \A o \in Options \ {"excludeFiles", "excludeDirs", "excludeDirsUseDefault", "showStats",
                          "formats", "excludeGenerated"} : d[o] = c[o]
  BY DEF HandleDeprecation
<1>3. {"excludeFiles", "excludeDirs", "excludeDirsUseDefault", "showStats", "formats",
       "excludeGenerated"} \subseteq Options
  BY OptionsAre DEF OtherOptions, Lists, IssueLists
<1>4. /\ d.excludeFiles = IF c.skipFiles # {} THEN c.skipFiles ELSE c.excludeFiles
      /\ d.excludeDirs = IF c.skipDirs # {} THEN c.skipDirs ELSE c.excludeDirs
      /\ d.formats = IF c.format # {} THEN c.format ELSE c.formats
      /\ d.excludeGenerated = IF c.excludeGeneratedStrict THEN "strict" ELSE c.excludeGenerated
  BY <1>3 DEF HandleDeprecation
<1>5. c.skipDirsUseDefault => d.excludeDirsUseDefault = c.excludeDirsUseDefault
  <2>1. d.excludeDirsUseDefault = (c.excludeDirsUseDefault /\ c.skipDirsUseDefault)
    BY <1>3 DEF HandleDeprecation
  <2> QED
    BY <2>1
<1>6. ~c.runShowStats => d.showStats = c.showStats
  <2>1. d.showStats = (c.showStats \/ c.runShowStats)
    BY <1>3 DEF HandleDeprecation
  <2> QED
    BY <2>1
<1>7. /\ DOMAIN Replaces = {"excludeFiles", "excludeDirs", "formats", "excludeGenerated",
                            "showStats", "excludeDirsUseDefault"}
      /\ Replaces["excludeFiles"] = "skipFiles" /\ Replaces["excludeDirs"] = "skipDirs"
      /\ Replaces["formats"] = "format" /\ Replaces["excludeGenerated"] = "excludeGeneratedStrict"
      /\ Replaces["showStats"] = "runShowStats"
      /\ Replaces["excludeDirsUseDefault"] = "skipDirsUseDefault"
  BY DEF Replaces
<1>8. /\ c.skipFiles # {} => "skipFiles" \in DeprecatedOptions(c)
      /\ c.skipDirs # {} => "skipDirs" \in DeprecatedOptions(c)
      /\ c.format # {} => "format" \in DeprecatedOptions(c)
      /\ c.runShowStats => "runShowStats" \in DeprecatedOptions(c)
      /\ c.excludeGeneratedStrict => "excludeGeneratedStrict" \in DeprecatedOptions(c)
      /\ ~c.skipDirsUseDefault => "skipDirsUseDefault" \in DeprecatedOptions(c)
  BY DEF DeprecatedOptions
<1> HIDE DEF d
<1>9. ASSUME NEW o \in Options
      PROVE  d[o] = c[o] \/ (o \in DOMAIN Replaces /\ Replaces[o] \in DeprecatedOptions(c))
  <2>1. CASE o \notin {"excludeFiles", "excludeDirs", "excludeDirsUseDefault", "showStats",
                       "formats", "excludeGenerated"}
    BY <1>2, <2>1
  <2>2. CASE o \in {"excludeFiles", "excludeDirs", "formats", "excludeGenerated"}
    BY <1>4, <1>7, <1>8, <2>2
  <2>3. CASE o = "excludeDirsUseDefault"
    BY <1>5, <1>7, <1>8, <2>3
  <2>4. CASE o = "showStats"
    BY <1>6, <1>7, <1>8, <2>4
  <2> QED
    BY <2>1, <2>2, <2>3, <2>4
<1> QED
  BY <1>1, <1>9 DEF d

LEMMA FinalValues ==
    ASSUME NEW v, NEW c, DOMAIN c = Options
    PROVE  LET f == HandleEnableOnlyOption(input.flags, HandleGoVersion(c, v))
           IN  /\ DOMAIN f = Options
               /\ \A o \in Options :
                     \/ f[o] = c[o]
                     \/ EnableOnly /\ o \in LinterLists \union DOMAIN LintersFlags
                     \/ o = "go" /\ c.go = 0
               /\ f.go = OrElse(c.go, v)
               /\ EnableOnly => /\ f.enable = input.flags.enableOnly /\ f.disableAll
                                /\ f.disable = {} /\ f.presets = {} /\ ~f.enableAll /\ ~f.fast
               /\ ~EnableOnly => \A o \in Options \ {"go"} : f[o] = c[o]
<1> DEFINE g == HandleGoVersion(c, v)
           f == HandleEnableOnlyOption(input.flags, g)
<1>1. {"go", "enable", "disable", "presets", "enableAll", "disableAll", "fast"} \subseteq Options
  BY OptionsAre DEF OtherOptions, Lists, LinterLists
<1>2. /\ DOMAIN g = Options /\ g.go = OrElse(c.go, v)
      /\ \A o \in Options \ {"go"} : g[o] = c[o]
      /\ c.go # 0 => g.go = c.go
  BY <1>1 DEF HandleGoVersion, OrElse
<1>3. CASE EnableOnly
  <2> HIDE DEF g
  <2>1. f = [g EXCEPT !.enable = input.flags.enableOnly, !.disable = {}, !.presets = {},
                      !.enableAll = FALSE, !.disableAll = TRUE, !.fast = FALSE]
    BY <1>3 DEF EnableOnly, HandleEnableOnlyOption
  <2>2. DOMAIN f = Options
    BY <1>2, <2>1
  <2>3. /\ f.enable = input.flags.enableOnly /\ f.disableAll
        /\ f.disable = {} /\ f.presets = {} /\ ~f.enableAll /\ ~f.fast
    BY <1>1, <1>2, <2>1
  <2>4. \A o \in Options \ {"enable", "disable", "presets", "enableAll", "disableAll", "fast"} : f[o] = g[o]
    BY <1>2, <2>1
  <2>5. LinterLists \union DOMAIN LintersFlags =
          {"enable", "disable", "presets", "enableAll", "disableAll", "fast"}
    BY DEF LinterLists, LintersFlags
  <2> HIDE DEF f
  <2> QED
    BY <1>1, <1>2, <1>3, <2>2, <2>3, <2>4, <2>5 DEF f, g
<1>4. CASE ~EnableOnly
  <2>1. f = g
    BY <1>4 DEF EnableOnly, HandleEnableOnlyOption
  <2> QED
    BY <1>2, <1>4, <2>1
<1> QED
  BY <1>3, <1>4

LEMMA OptionsOfFileTyped ==
    ASSUME input \in Inputs, cfgDir \subseteq DOMAIN input.files
    PROVE  OptionsTyped(FileOptions)
<1>1. CASE cfgDir = {}
  BY <1>1 DEF FileOptions, OptionsTyped
<1>2. CASE cfgDir # {}
  <2>1. PICK d \in cfgDir : FileOptions = input.files[d].options
    BY <1>2 DEF FileOptions
  <2> QED
    BY <2>1, InputsAssumption
<1> QED
  BY <1>1, <1>2

LEMMA OverValues ==
    ASSUME NEW f, NEW g
    PROVE  /\ DOMAIN Over(f, g) = DOMAIN f \union DOMAIN g
           /\ \A o \in DOMAIN f : Over(f, g)[o] = f[o]
           /\ \A o \in DOMAIN g \ DOMAIN f : Over(f, g)[o] = g[o]
  BY DEF Over

(* Those of the defaults that are looked at one by one.                    *)
Switches == {"disableAll", "enableAll", "fast", "excludeDirsUseDefault", "showStats"}

DefaultsTyped(f) ==
    /\ \A o \in Switches \intersect DOMAIN f : f[o] \in BOOLEAN
    /\ "go" \in DOMAIN f => f["go"] = 0
    /\ \A o \in Lists \intersect DOMAIN f : f[o] = {}

LEMMA OverTyped ==
    ASSUME NEW f, NEW g, DefaultsTyped(f), DefaultsTyped(g)
    PROVE  DefaultsTyped(Over(f, g))
<1> DEFINE h == Over(f, g)
<1>1. /\ DOMAIN h = DOMAIN f \union DOMAIN g
      /\ \A o \in DOMAIN h : (o \in DOMAIN f /\ h[o] = f[o]) \/ (o \in DOMAIN g /\ h[o] = g[o])
  <2>1. DOMAIN h = DOMAIN f \union DOMAIN g
    BY OverValues
  <2>2. \A o \in DOMAIN f : h[o] = f[o]
    BY OverValues
  <2>3. \A o \in DOMAIN g \ DOMAIN f : h[o] = g[o]
    BY OverValues
  <2> HIDE DEF h
  <2> QED
    BY <2>1, <2>2, <2>3
<1> HIDE DEF h
<1>2. \A o \in Switches \intersect DOMAIN h : h[o] \in BOOLEAN
  BY <1>1 DEF DefaultsTyped
<1>3. "go" \in DOMAIN h => h["go"] = 0
  BY <1>1 DEF DefaultsTyped
<1>4. \A o \in Lists \intersect DOMAIN h : h[o] = {}
  BY <1>1 DEF DefaultsTyped
<1>5. DefaultsTyped(h)
  BY <1>2, <1>3, <1>4 DEF DefaultsTyped
<1> QED
  BY <1>5 DEF h

LEMMA DefaultValues == DefaultsTyped(Over(FlagDefaults(cmd), NewDefault))
<1> USE DEF DefaultsTyped, Switches, Lists, LinterLists, RunLists, IssueLists
<1>1. DefaultsTyped(LintersFlags)
  <2>1. /\ DOMAIN LintersFlags = {"disableAll", "enableAll", "fast"}
        /\ ~LintersFlags.disableAll /\ ~LintersFlags.enableAll /\ ~LintersFlags.fast
        /\ {LintersFlags.disableAll, LintersFlags.enableAll, LintersFlags.fast} \subseteq BOOLEAN
    BY DEF LintersFlags
  <2> QED
    BY <2>1
<1>2. DefaultsTyped(RunFlags)
  <2>1. /\ DOMAIN RunFlags = {"modulesDownloadMode", "go", "tests", "skipDirsUseDefault"}
        /\ RunFlags["go"] = 0
    BY DEF RunFlags
  <2> QED
    BY <2>1
<1>3. DefaultsTyped(OutputFlags)
  <2>1. /\ DOMAIN OutputFlags = {"formats", "sortResults", "sortOrder", "showStats"}
        /\ OutputFlags["showStats"] \in BOOLEAN
    BY DEF OutputFlags
  <2> QED
    BY <2>1
<1>4. DefaultsTyped(IssuesFlags)
  <2>1. /\ DOMAIN IssuesFlags = {"excludeDirsUseDefault", "excludeGenerated"}
        /\ IssuesFlags["excludeDirsUseDefault"] \in BOOLEAN
    BY DEF IssuesFlags
  <2> QED
    BY <2>1
<1>5. DefaultsTyped(FieldDefaults)
  <2>1. DOMAIN FieldDefaults = OtherOptions
    BY DEF FieldDefaults, OtherOptions
  <2>2. OtherOptions \intersect Lists = {}
    BY DEF OtherOptions
  <2>3. FieldDefaults["go"] = 0 /\ \A o \in Switches : FieldDefaults[o] \in BOOLEAN
    BY DEF FieldDefaults
  <2> HIDE DEF Lists
  <2> QED
    BY <2>1, <2>2, <2>3
<1>6. DefaultsTyped([l \in Lists |-> {}])
  OBVIOUS
<1> HIDE DEF DefaultsTyped, Lists
<1>7. DefaultsTyped(NewDefault)
  BY <1>5, <1>6, OverTyped DEF NewDefault
<1>8. DefaultsTyped(FlagDefaults(cmd))
  <2>1. DefaultsTyped(Over(LintersFlags, Over(RunFlags, Over(OutputFlags, IssuesFlags))))
    BY <1>1, <1>2, <1>3, <1>4, OverTyped
  <2> QED
    BY <1>1, <2>1 DEF FlagDefaults
<1> QED
  BY <1>7, <1>8, OverTyped

LEMMA AppendedTyped ==
    ASSUME input \in Inputs, cfgDir \subseteq DOMAIN input.files
    PROVE  /\ \A o \in Switches : Appended[o] \in BOOLEAN
           /\ Appended.go \in GoVersions \union {0}
<1> DEFINE defaults == Over(FlagDefaults(cmd), NewDefault)
<1>1. OptionsTyped(FileOptions) /\ OptionsTyped(input.flags)
  BY OptionsOfFileTyped, InputsAssumption
<1>2. \A o \in Switches \union {"go"} : o \in Options /\ o \notin ListFlags(cmd)
  BY OptionsAre DEF Switches, OtherOptions, ListFlags, Lists, LinterLists, RunLists, IssueLists
<1>3. \A o \in Switches \union {"go"} : Appended[o] = Parsed[o]
  BY <1>2, AppendedValues
<1>4. /\ defaults["go"] = 0 /\ \A o \in Switches : defaults[o] \in BOOLEAN
  <2>1. Options \subseteq DOMAIN defaults
    <3>1. DOMAIN defaults = DOMAIN FlagDefaults(cmd) \union DOMAIN NewDefault
      BY OverValues
    <3> QED
      BY <3>1 DEF Options
  <2> QED
    BY <1>2, <2>1, DefaultValues DEF DefaultsTyped
<1> HIDE DEF defaults
<1>5. ASSUME NEW o \in Switches
      PROVE  Parsed[o] \in BOOLEAN
  <2>1. Parsed[o] = IF o \in DOMAIN FlagDefaults(cmd) \intersect DOMAIN input.flags THEN input.flags[o]
                    ELSE IF o \in DOMAIN FileOptions THEN FileOptions[o] ELSE defaults[o]
    BY <1>2, ParsedValues DEF defaults
  <2> QED
    BY <1>1, <1>4, <2>1 DEF OptionsTyped, Switches
<1>6. Parsed.go \in GoVersions \union {0}
  <2>1. Parsed["go"] =
           IF "go" \in DOMAIN FlagDefaults(cmd) \intersect DOMAIN input.flags THEN input.flags["go"]
           ELSE IF "go" \in DOMAIN FileOptions THEN FileOptions["go"] ELSE defaults["go"]
    BY <1>2, ParsedValues DEF defaults
  <2> QED
    BY <1>1, <1>4, <2>1 DEF OptionsTyped
<1> QED
  BY <1>3, <1>5, <1>6

(* A flag, or a list of the file, is in effect in a run, or was replaced   *)
(* by an option that the user is warned of, or by --enable-only.           *)
THEOREM FlagsAreHonouredCorrect == Spec => []FlagsAreHonoured
<1>1. ConfigInv /\ WarnedInv => FlagsAreHonoured
  <2> SUFFICES ASSUME ConfigInv, WarnedInv, Decided
               PROVE  FlagsAreHonoured
    BY DEF FlagsAreHonoured
  <2>1. /\ cmd = "run" /\ stage \in Settled /\ input \in Inputs
        /\ cfgDir \subseteq DOMAIN input.files
    BY DEF Decided, Settled, FileRead, ConfigInv
  <2>2. PICK v : cfg = Final(v)
    BY <2>1 DEF ConfigInv
  <2>3. \A o \in DeprecatedOptions(Appended) : <<"warning", o>> \in log
    BY <2>1 DEF WarnedInv
  <2>4. /\ DOMAIN Merged = Options
        /\ \A o \in Options :
              \/ Merged[o] = Appended[o]
              \/ o \in DOMAIN Replaces /\ <<"warning", Replaces[o]>> \in log
    <3>1. DOMAIN Appended = Options
      BY AppendedValues
    <3>2. Appended.excludeDirsUseDefault \in BOOLEAN /\ Appended.showStats \in BOOLEAN
      BY <2>1, AppendedTyped DEF Switches
    <3>3. Merged = HandleDeprecation(Appended)
      BY <2>1 DEF Merged
    <3> QED
      BY <2>3, <3>1, <3>2, <3>3, DeprecationValues
  <2>5. /\ DOMAIN cfg = Options
        /\ \A o \in Options :
              \/ cfg[o] = Merged[o]
              \/ EnableOnly /\ o \in LinterLists \union DOMAIN LintersFlags
              \/ o = "go" /\ Merged.go = 0
        /\ EnableOnly => cfg.enable = input.flags.enableOnly /\ cfg.disableAll
    <3>1. cfg = HandleEnableOnlyOption(input.flags, HandleGoVersion(Merged, v))
      BY <2>2 DEF Final, Versioned
    <3> QED
      BY <2>4, <3>1, FinalValues
  <2>6. \A o \in Options : Replaced(o) \/ cfg[o] = Appended[o] \/ (o = "go" /\ Appended.go = 0)
    <3>1. "go" \notin DOMAIN Replaces
      BY DEF Replaces
    <3> QED
      BY <2>4, <2>5, <3>1 DEF Replaced
  <2>7. \A o \in Lists : o \in Options /\ o # "go" /\ o \notin DOMAIN FlagDefaults(cmd)
    BY <2>1, OptionsAre, FlagDefaultsAre DEF Lists, LinterLists, RunLists, IssueLists
  <2>8. ASSUME NEW o \in DOMAIN input.flags \intersect Options
        PROVE  Replaced(o) \/ InEffect(o, input.flags[o])
    <3>1. CASE o \in Lists
      <4>1. Appended[o] = Parsed[o] \union input.flags[o]
        BY <2>1, <3>1, AppendedValues DEF ListFlags
      <4> QED
        BY <2>6, <2>7, <3>1, <4>1 DEF InEffect
    <3>2. CASE o \notin Lists
      <4>1. o \in DOMAIN FlagDefaults(cmd)
        <5>1. o \in Flags /\ "enableOnly" \notin Options
          BY <2>1, InputsAssumption, OptionsAre DEF OtherOptions, Lists, LinterLists, RunLists, IssueLists
        <5> QED
          BY <2>1, <3>2, <5>1 DEF Flags
      <4>2. Appended[o] = input.flags[o]
        BY <2>1, <3>2, <4>1, AppendedValues, ParsedValues DEF ListFlags
      <4> QED
        BY <2>6, <3>2, <4>2 DEF InEffect, Replaced
    <3> QED
      BY <3>1, <3>2
  <2>9. ASSUME NEW o \in DOMAIN FileOptions \intersect Lists
        PROVE  Replaced(o) \/ InEffect(o, FileOptions[o])
    <3>1. Parsed[o] = FileOptions[o]
      BY <2>7, ParsedValues
    <3>2. FileOptions[o] \subseteq Appended[o]
      BY <2>7, <3>1, AppendedValues
    <3> QED
      BY <2>6, <2>7, <3>2 DEF InEffect
  <2> QED
    BY <2>5, <2>8, <2>9 DEF FlagsAreHonoured
<1> QED
  BY <1>1, ConfigInvariant, WarnedInvariant, PTL

-----------------------------------------------------------------------------
(* A settled configuration has a version of Go, which the table is made for. *)
LEMMA SettledVersion ==
    ASSUME ConfigInv, stage \in Settled
    PROVE  cfg.go \in GoVersions /\ Known = LinterBuilder(cfg.go) \union PluginBuilders(cfg.custom)
<1>1. PICK v \in DetectGoVersions(input.modules) : cfg = Final(v)
  BY DEF ConfigInv
<1>2. input \in Inputs /\ cfgDir \subseteq DOMAIN input.files
  BY DEF ConfigInv, FileRead, Settled
<1>3. v \in GoVersions
  BY <1>1, <1>2, InputsAssumption
<1>4. Merged.go = Appended.go /\ DOMAIN Merged = Options
  <2>1. DOMAIN Appended = Options
    BY AppendedValues
  <2>2. CASE cmd = "run"
    <3>1. Appended.excludeDirsUseDefault \in BOOLEAN /\ Appended.showStats \in BOOLEAN
      BY <1>2, AppendedTyped DEF Switches
    <3>2. "go" \in Options /\ "go" \notin DOMAIN Replaces
      BY OptionsAre DEF OtherOptions, Replaces
    <3> QED
      BY <2>1, <2>2, <3>1, <3>2, DeprecationValues DEF Merged
  <2> QED
    BY <2>1, <2>2 DEF Merged
<1>5. Appended.go \in GoVersions \union {0}
  BY <1>2, AppendedTyped
<1>6. cfg.go = OrElse(Merged.go, v)
  BY <1>1, <1>4, FinalValues DEF Final, Versioned
<1>7. cfg.go \in GoVersions
  BY <1>3, <1>4, <1>5, <1>6 DEF OrElse
<1> QED
  BY <1>7 DEF Known, BuiltIn

(* No plugin has the name of a linter that is built in.                    *)
NoClash == DOMAIN cfg.custom \intersect AllBuiltIn = {}

LEMMA NoClashWellNamed ==
    ASSUME ConfigInv, stage \in Settled, NoClash
    PROVE  WellNamed(Known)
  BY SettledVersion, KnownWellNamed DEF NoClash, Table

(* From the plan on, the enabled linters are those of the map.             *)
Planned == Decided => active = Names(GetEnabledLintersMap(Known, cfg))

LEMMA PlannedHolds == Spec => []Planned
<1>1. Init => Planned
  BY DEF Init, Planned, Decided
<1>2. Planned /\ [Next]_vars => Planned'
  <2> SUFFICES ASSUME Planned, [Next]_vars
               PROVE  Planned'
    OBVIOUS
  <2> USE DEF Planned, Decided, Proceed, configVars, lintVars, runVars
  <2>1. CASE SetConfigFile
    BY <2>1 DEF SetConfigFile
  <2>2. CASE ReadConfig
    BY <2>2 DEF ReadConfig
  <2>3. CASE MergeConfig
    BY <2>3 DEF MergeConfig
  <2>4. CASE SettleGoVersion
    BY <2>4 DEF SettleGoVersion
  <2>5. CASE ValidateConfig
    BY <2>5 DEF ValidateConfig
  <2>6. CASE NewManager
    BY <2>6 DEF NewManager
  <2>7. CASE ListLinters
    BY <2>7 DEF ListLinters
  <2>8. CASE StartRun
    BY <2>8 DEF StartRun
  <2>9. CASE PlanJobs
    <3>1. active' = Names(GetEnabledLintersMap(Known, cfg)) /\ cfg' = cfg
      BY <2>9 DEF PlanJobs
    <3> QED
      BY <3>1 DEF Known
  <2>10. CASE LoadPackages
    <3>1. UNCHANGED <<cmd, cfg, active>> /\ stage = "load"
      BY <2>10 DEF LoadPackages
    <3>2. Known' = Known
      BY <3>1 DEF Known
    <3> QED
      BY <3>1, <3>2
  <2>11. CASE RunFatal \/ RunFails \/ RunJob \/ EndRun \/ UNCHANGED vars
    <3>1. UNCHANGED <<cmd, cfg, active>> /\ (stage' = stage \/ stage' = "failed" \/ stage = "lint")
      BY <2>11 DEF RunFatal, RunFails, RunJob, EndRun, vars
    <3>2. Known' = Known
      BY <3>1 DEF Known
    <3> QED
      BY <3>1, <3>2
  <2> QED
    BY <2>1, <2>2, <2>3, <2>4, <2>5, <2>6, <2>7, <2>8, <2>9, <2>10, <2>11 DEF Next
<1> QED
  BY <1>1, <1>2, PTL DEF Spec

(* A run enables just the linters that the configuration asks for: those   *)
(* that presets, enable-all or the defaults bring, without the slow ones   *)
(* under --fast, and those enabled by name, without the disabled; and      *)
(* always typecheck.  No plugin may have the name of a built-in linter.    *)
THEOREM EnabledAsAsked == Spec => [](NoClash => EffectiveSet)
<1>1. ConfigInv /\ Planned => (NoClash => EffectiveSet)
  <2> SUFFICES ASSUME ConfigInv, Planned, NoClash, Decided
               PROVE  active = Names({lc \in Known : Wanted(lc, cfg)})
    BY DEF EffectiveSet, Wanted, ByDefault, BroughtIn
  <2>1. WellNamed(Known)
    BY NoClashWellNamed DEF Decided, Settled
  <2> QED
    BY <2>1, BuildIsWanted DEF Planned, GetEnabledLintersMap
<1> QED
  BY <1>1, ConfigInvariant, PlannedHolds, PTL

-----------------------------------------------------------------------------
(* Two sets of linters that no selection tells apart.                      *)
Alike(a, b) ==
    /\ a.name = b.name /\ a.origin = b.origin /\ a.internal = b.internal
    /\ a.presets = b.presets /\ a.alternatives = b.alternatives
    /\ a.slow = b.slow /\ a.deprecation = b.deprecation
    /\ a.enabledByDefault = b.enabledByDefault

Match(lcs, others) ==
    /\ \A a \in lcs : \E b \in others : Alike(a, b)
    /\ \A b \in others : \E a \in lcs : Alike(a, b)

SameSelection(c, d) ==
    /\ c.enable = d.enable /\ c.disable = d.disable /\ c.presets = d.presets
    /\ c.enableAll = d.enableAll /\ c.disableAll = d.disableAll /\ c.fast = d.fast

LEMMA MatchItself == ASSUME NEW lcs PROVE Match(lcs, lcs)
  BY DEF Match, Alike

LEMMA MatchUnion ==
    ASSUME NEW a, NEW b, NEW c, NEW d, Match(a, b), Match(c, d)
    PROVE  Match(a \union c, b \union d)
  BY DEF Match

LEMMA MatchNames ==
    ASSUME NEW lcs, NEW others, Match(lcs, others)
    PROVE  Names(lcs) = Names(others)
  BY DEF Match, Alike, Names

LEMMA MatchStoredLast ==
    ASSUME NEW lcs, NEW others, Match(lcs, others)
    PROVE  Match(StoredLast(lcs), StoredLast(others))
<1> DEFINE Last(lc, among) == ~\E p \in among : p.origin > 1 /\ p.name = lc.name /\ p.origin > lc.origin
<1>1. \A among : StoredLast(among) = {lc \in among : Last(lc, among)}
  BY DEF StoredLast
<1>2. ASSUME NEW a \in lcs, NEW b \in others, Alike(a, b)
      PROVE  Last(a, lcs) <=> Last(b, others)
  BY <1>2 DEF Match, Alike
<1> HIDE DEF Last
<1> QED
  BY <1>1, <1>2 DEF Match

LEMMA MatchStore ==
    ASSUME NEW a, NEW b, NEW c, NEW d, Match(a, b), Match(c, d)
    PROVE  Match(Store(a, c), Store(b, d))
<1> DEFINE old == {lc \in a : lc.name \notin Names(c)}
           new == {lc \in b : lc.name \notin Names(c)}
<1>1. Names(c) = Names(d)
  BY MatchNames
<1>2. Match(old, new)
  <2> HIDE DEF Names
  <2>1. \A x, y : Alike(x, y) => x.name = y.name
    BY DEF Alike
  <2> QED
    BY <2>1 DEF Match
<1>3. Match(StoredLast(c), StoredLast(d))
  BY MatchStoredLast
<1>4. Store(a, c) = old \union StoredLast(c) /\ Store(b, d) = new \union StoredLast(d)
  BY <1>1 DEF Store
<1> HIDE DEF old, new
<1> QED
  BY <1>2, <1>3, <1>4, MatchUnion

LEMMA MatchWithNames ==
    ASSUME NEW lcs, NEW others, Match(lcs, others), NEW names
    PROVE  Match(WithNames(lcs, names), WithNames(others, names))
<1>1. \A among : WithNames(among, names) = {lc \in among : AllNames(lc) \intersect names # {}}
  BY DEF WithNames, GetLinterConfigs
<1>2. \A a, b : Alike(a, b) => AllNames(a) = AllNames(b)
  BY DEF Alike, AllNames
<1> QED
  BY <1>1, <1>2 DEF Match

LEMMA MatchPresets ==
    ASSUME NEW lcs, NEW others, Match(lcs, others), NEW presets
    PROVE  Match(InPresets(lcs, presets), InPresets(others, presets))
<1>1. \A among : InPresets(among, presets) =
                    {lc \in among : ~IsDeprecated(lc) /\ lc.presets \intersect presets # {}}
  BY DEF InPresets, GetAllLinterConfigsForPreset
<1>2. \A a, b : Alike(a, b) => a.presets = b.presets /\ (IsDeprecated(a) <=> IsDeprecated(b))
  BY DEF Alike, IsDeprecated
<1> QED
  BY <1>1, <1>2 DEF Match

LEMMA MatchStartingSet ==
    ASSUME NEW lcs, NEW others, Match(lcs, others), NEW c, NEW d, SameSelection(c, d)
    PROVE  Match(StartingSet(lcs, c), StartingSet(others, d))
<1> DEFINE Kept(among) == {lc \in among : ~IsRetired(lc) /\ (c.enableAll \/ lc.enabledByDefault)}
<1>1. \A a, b : Alike(a, b) => /\ a.enabledByDefault = b.enabledByDefault
                               /\ IsRetired(a) <=> IsRetired(b)
  BY DEF Alike, IsRetired
<1>2. Match(Kept(lcs), Kept(others))
  BY <1>1 DEF Match
<1>3. Match(StoredLast(Kept(lcs)), StoredLast(Kept(others)))
  BY <1>2, MatchStoredLast
<1>4. \A among, e : e.enableAll = c.enableAll =>
         StartingSet(among, e) = IF e.disableAll \/ e.presets # {} THEN {} ELSE StoredLast(Kept(among))
  <2> SUFFICES ASSUME NEW among, NEW e, e.enableAll = c.enableAll, ~(e.disableAll \/ e.presets # {})
               PROVE  StartingSet(among, e) = StoredLast(Kept(among))
    BY DEF StartingSet
  <2>1. {lc \in IF e.enableAll THEN among ELSE GetAllEnabledByDefaultLinters(among) : ~IsRetired(lc)}
           = Kept(among)
    BY DEF GetAllEnabledByDefaultLinters
  <2> HIDE DEF Kept
  <2> QED
    BY <2>1 DEF StartingSet, LinterConfigsToMap
<1> HIDE DEF Kept
<1>5. StartingSet(lcs, c) = IF c.disableAll \/ c.presets # {} THEN {} ELSE StoredLast(Kept(lcs))
  BY <1>4
<1>6. StartingSet(others, d) = IF c.disableAll \/ c.presets # {} THEN {} ELSE StoredLast(Kept(others))
  BY <1>4 DEF SameSelection
<1> QED
  BY <1>3, <1>5, <1>6, MatchItself

(* What Build selects from the one is what it selects from the other.      *)
LEMMA MatchBuild ==
    ASSUME NEW lcs, NEW others, Match(lcs, others), NEW c, NEW d, SameSelection(c, d)
    PROVE  Match(Build(lcs, c), Build(others, d))
<1> DEFINE Preset(among, e) == Store(StartingSet(among, e), InPresets(among, e.presets))
           Quick(among, e) == IF e.fast THEN {lc \in Preset(among, e) : ~lc.slow} ELSE Preset(among, e)
           Enabled(among, e) == Store(Quick(among, e), WithNames(among, e.enable))
           Off(among, e) == Names(WithNames(among, e.disable))
           Rest(among, e) == {lc \in Enabled(among, e) : lc.name \notin Off(among, e)}
<1>1. Match(Preset(lcs, c), Preset(others, d))
  <2>1. Match(InPresets(lcs, c.presets), InPresets(others, d.presets))
    BY MatchPresets DEF SameSelection
  <2> QED
    BY <2>1, MatchStartingSet, MatchStore
<1> HIDE DEF Preset
<1>2. Match(Quick(lcs, c), Quick(others, d))
  <2>1. \A a, b : Alike(a, b) => a.slow = b.slow
    BY DEF Alike
  <2>2. c.fast = d.fast
    BY DEF SameSelection
  <2>3. Match({lc \in Preset(lcs, c) : ~lc.slow}, {lc \in Preset(others, d) : ~lc.slow})
    BY <1>1, <2>1 DEF Match
  <2> QED
    BY <1>1, <2>2, <2>3
<1> HIDE DEF Quick
<1>3. Match(Enabled(lcs, c), Enabled(others, d))
  <2>1. Match(WithNames(lcs, c.enable), WithNames(others, d.enable))
    BY MatchWithNames DEF SameSelection
  <2> QED
    BY <1>2, <2>1, MatchStore
<1>4. Off(lcs, c) = Off(others, d)
  <2>1. Match(WithNames(lcs, c.disable), WithNames(others, d.disable))
    BY MatchWithNames DEF SameSelection
  <2> QED
    BY <2>1, MatchNames
<1> HIDE DEF Enabled, Off
<1>5. Match(Rest(lcs, c), Rest(others, d))
  <2>1. \A a, b : Alike(a, b) => a.name = b.name
    BY DEF Alike
  <2> QED
    BY <1>3, <1>4, <2>1 DEF Match
<1>6. Build(lcs, c) = AddTypecheck(lcs, Rest(lcs, c))
          /\ Build(others, d) = AddTypecheck(others, Rest(others, d))
  BY DEF Build, Rest, Enabled, Quick, Preset, Off
<1> HIDE DEF Rest
<1>7. Match(GetLinterConfigs(lcs, "typecheck"), GetLinterConfigs(others, "typecheck"))
  <2>1. \A a, b : Alike(a, b) => AllNames(a) = AllNames(b)
    BY DEF Alike, AllNames
  <2> QED
    BY <2>1 DEF Match, GetLinterConfigs
<1>8. Names(Rest(lcs, c)) = Names(Rest(others, d))
  BY <1>5, MatchNames
<1> QED
  BY <1>5, <1>6, <1>7, <1>8, MatchStore DEF AddTypecheck

-----------------------------------------------------------------------------
(* Of the linters of a table only the fallback depends on the version.     *)
LEMMA FallbackAlike ==
    ASSUME NEW l, NEW presets, NEW c \in BOOLEAN, NEW d \in BOOLEAN
    PROVE  /\ Alike(WithNoopFallback(Fast(l, presets), c), WithNoopFallback(Fast(l, presets), d))
           /\ Alike(WithNoopFallback(Slow(l, presets), c), WithNoopFallback(Slow(l, presets), d))
<1>1. ASSUME NEW lc, {"linter", "loadMode"} \subseteq DOMAIN lc, NEW e \in BOOLEAN,
             {"name", "origin", "internal", "presets", "alternatives", "slow", "deprecation",
              "enabledByDefault"} \subseteq DOMAIN lc
      PROVE  Alike(WithNoopFallback(lc, e), lc)
  BY <1>1 DEF WithNoopFallback, Alike
<1>2. \A lc \in {Fast(l, presets), Slow(l, presets)} :
         DOMAIN lc = {"linter", "name", "origin", "enabledByDefault", "loadMode", "presets",
                      "alternatives", "internal", "slow", "changesTypes", "deprecation"}
  BY DEF Slow, Fast, WithLoadForGoAnalysis, WithPresets, NewConfig
<1>3. \A lc \in {Fast(l, presets), Slow(l, presets)} : \A e \in BOOLEAN : Alike(WithNoopFallback(lc, e), lc)
  BY <1>1, <1>2
<1> QED
  BY <1>3 DEF Alike

LEMMA MatchTable ==
    ASSUME NEW v, NEW w
    PROVE  Match(LinterBuilder(v), LinterBuilder(w))
<1>1. IsGoLowerThanGo122(v) \in BOOLEAN /\ IsGoLowerThanGo122(w) \in BOOLEAN
  BY DEF IsGoLowerThanGo122
<1>2. \A a : Alike(a, a)
  BY DEF Alike
<1>3. Match(AsasalintToExportloopref(v), AsasalintToExportloopref(w))
  <2> DEFINE one == WithNoopFallback(Fast(copyloopvar, {"style"}), IsGoLowerThanGo122(v))
             two == WithNoopFallback(Fast(copyloopvar, {"style"}), IsGoLowerThanGo122(w))
  <2>1. Alike(one, two) /\ Alike(two, one)
    BY <1>1, FallbackAlike
  <2>2. /\ \A a \in AsasalintToExportloopref(v) : a = one \/ a \in AsasalintToExportloopref(w)
        /\ \A a \in AsasalintToExportloopref(w) : a = two \/ a \in AsasalintToExportloopref(v)
        /\ one \in AsasalintToExportloopref(v) /\ two \in AsasalintToExportloopref(w)
    BY DEF AsasalintToExportloopref
  <2> HIDE DEF one, two
  <2> QED
    BY <1>2, <2>1, <2>2 DEF Match
<1>4. Match(GoprintffuncnameToNestif(v), GoprintffuncnameToNestif(w))
  <2> DEFINE one == WithNoopFallback(Slow(intrange, {"style"}), IsGoLowerThanGo122(v))
             two == WithNoopFallback(Slow(intrange, {"style"}), IsGoLowerThanGo122(w))
  <2>1. Alike(one, two) /\ Alike(two, one)
    BY <1>1, FallbackAlike
  <2>2. /\ \A a \in GoprintffuncnameToNestif(v) : a = one \/ a \in GoprintffuncnameToNestif(w)
        /\ \A a \in GoprintffuncnameToNestif(w) : a = two \/ a \in GoprintffuncnameToNestif(v)
        /\ one \in GoprintffuncnameToNestif(v) /\ two \in GoprintffuncnameToNestif(w)
    BY DEF GoprintffuncnameToNestif
  <2> HIDE DEF one, two
  <2> QED
    BY <1>2, <2>1, <2>2 DEF Match
<1>5. /\ ForbidigoToGomodguard(v) = ForbidigoToGomodguard(w)
      /\ NilerrToTenv(v) = NilerrToTenv(w)
      /\ TestableexamplesToNolintlint(v) = TestableexamplesToNolintlint(w)
  BY DEF ForbidigoToGomodguard, NilerrToTenv, TestableexamplesToNolintlint
<1> QED
  BY <1>3, <1>4, <1>5, MatchUnion, MatchItself DEF LinterBuilder

-----------------------------------------------------------------------------
(* Nobody but typecheck is internal.                                       *)
Open(lc) == "internal" \in DOMAIN lc /\ ~lc.internal

LEMMA Opens ==
    /\ \A l : Open(NewConfig(l))
    /\ \A l, presets : Open(Fast(l, presets)) /\ Open(Slow(l, presets)) /\ Open(Retired(l, presets))
    /\ \A lc, x : Open(lc) => /\ Open(WithEnabledByDefault(lc)) /\ Open(ConsiderSlow(lc))
                              /\ Open(WithChangeTypes(lc)) /\ Open(WithAlternativeNames(lc, x))
                              /\ Open(Deprecated(lc, x)) /\ Open(WithNoopFallback(lc, x))
                              /\ Open(WithLoadForGoAnalysis(lc))
<1>1. \A l : Open(NewConfig(l))
  BY DEF Open, NewConfig
<1>2. ASSUME NEW lc, Open(lc), NEW x
      PROVE  /\ Open(WithEnabledByDefault(lc)) /\ Open(ConsiderSlow(lc))
             /\ Open(WithChangeTypes(lc)) /\ Open(WithAlternativeNames(lc, x))
             /\ Open(Deprecated(lc, x)) /\ Open(WithNoopFallback(lc, x))
             /\ Open(WithLoadForGoAnalysis(lc)) /\ Open(WithPresets(lc, x))
  <2>1. Open(WithEnabledByDefault(lc)) /\ Open(ConsiderSlow(lc)) /\ Open(WithChangeTypes(lc))
    BY <1>2 DEF Open, WithEnabledByDefault, ConsiderSlow, WithChangeTypes
  <2>2. Open(WithAlternativeNames(lc, x)) /\ Open(Deprecated(lc, x)) /\ Open(WithPresets(lc, x))
    BY <1>2 DEF Open, WithAlternativeNames, Deprecated, WithPresets
  <2>3. Open(WithNoopFallback(lc, x))
    BY <1>2 DEF Open, WithNoopFallback
  <2>4. Open(WithLoadForGoAnalysis(lc))
    BY <1>2 DEF Open, WithLoadForGoAnalysis
  <2> QED
    BY <2>1, <2>2, <2>3, <2>4
<1>3. \A l, presets : Open(Fast(l, presets)) /\ Open(Slow(l, presets)) /\ Open(Retired(l, presets))
  BY <1>1, <1>2 DEF Fast, Slow, Retired
<1> QED
  BY <1>1, <1>2, <1>3

TypecheckConfig == WithEnabledByDefault(WithInternal(Fast(typecheck, {})))

LEMMA TypecheckIsInternal == TypecheckConfig.name = "typecheck" /\ TypecheckConfig.internal
  BY DEF TypecheckConfig, WithEnabledByDefault, WithInternal,
         Fast, WithPresets, NewConfig, typecheck, Reporter

LEMMA TableOpens ==
    ASSUME NEW v
    PROVE  /\ TypecheckConfig \in LinterBuilder(v)
           /\ \A lc \in LinterBuilder(v) : lc = TypecheckConfig \/ Open(lc)
<1>1. \A lc \in AsasalintToExportloopref(v) : Open(lc)
  BY ZenonT(60), Opens DEF AsasalintToExportloopref
<1>2. \A lc \in ForbidigoToGomodguard(v) : Open(lc)
  BY Opens DEF ForbidigoToGomodguard
<1>3. \A lc \in GoprintffuncnameToNestif(v) : Open(lc)
  BY ZenonT(60), Opens DEF GoprintffuncnameToNestif
<1>4. \A lc \in NilerrToTenv(v) : Open(lc)
  BY ZenonT(60), Opens DEF NilerrToTenv
<1>5. /\ TypecheckConfig \in TestableexamplesToNolintlint(v)
      /\ \A lc \in TestableexamplesToNolintlint(v) : lc = TypecheckConfig \/ Open(lc)
  BY Opens DEF TestableexamplesToNolintlint, TypecheckConfig
<1> QED
  BY <1>1, <1>2, <1>3, <1>4, <1>5 DEF LinterBuilder

LEMMA PluginsOpen == ASSUME NEW custom PROVE \A lc \in PluginBuilders(custom) : Open(lc)
<1>1. \A n : Open(GoPlugin(n))
  <2>1. ASSUME NEW lc, Open(lc) PROVE Open([lc EXCEPT !.origin = 3])
    BY <2>1 DEF Open
  <2> QED
    BY <2>1, Opens DEF GoPlugin
<1>2. \A n, m : Open(ModulePlugin(n, m))
  <2>1. ASSUME NEW lc, Open(lc) PROVE Open([lc EXCEPT !.origin = 2])
    BY <2>1 DEF Open
  <2> QED
    BY <2>1, Opens DEF ModulePlugin
<1> QED
  BY <1>1, <1>2 DEF PluginBuilders

-----------------------------------------------------------------------------
(* What a user selects with the flags and a file, for either command.      *)
OptionsOf(dirs) == IF dirs = {} THEN <<>> ELSE input.files[CHOOSE d \in dirs : TRUE].options

Given(o, default, options) ==
    IF o \in DOMAIN input.flags THEN input.flags[o]
    ELSE IF o \in DOMAIN options THEN options[o] ELSE default

GivenList(o, options) ==
    (IF o \in DOMAIN options THEN options[o] ELSE {})
        \union (IF o \in DOMAIN input.flags THEN input.flags[o] ELSE {})

Selected(dirs) ==
    LET options == OptionsOf(dirs)
        custom == IF "custom" \in DOMAIN options THEN options["custom"] ELSE NewDefault["custom"]
    IN  IF EnableOnly
        THEN [enable |-> input.flags.enableOnly, disable |-> {}, presets |-> {},
              enableAll |-> FALSE, disableAll |-> TRUE, fast |-> FALSE, custom |-> custom]
        ELSE [enable |-> GivenList("enable", options), disable |-> GivenList("disable", options),
              presets |-> GivenList("presets", options),
              enableAll |-> Given("enableAll", FALSE, options),
              disableAll |-> Given("disableAll", FALSE, options),
              fast |-> Given("fast", FALSE, options), custom |-> custom]

(* The lists of linters, and the switches.                                 *)
LEMMA AppendedSelection ==
    ASSUME cmd \in {"linters", "run"}
    PROVE  /\ \A o \in LinterLists : Appended[o] = GivenList(o, FileOptions)
           /\ \A o \in DOMAIN LintersFlags : Appended[o] = Given(o, FALSE, FileOptions)
           /\ Appended["custom"] =
                 IF "custom" \in DOMAIN FileOptions THEN FileOptions["custom"] ELSE NewDefault["custom"]
<1> DEFINE defaults == Over(FlagDefaults(cmd), NewDefault)
<1>1. /\ DOMAIN LintersFlags = {"disableAll", "enableAll", "fast"}
      /\ \A o \in DOMAIN LintersFlags : LintersFlags[o] = FALSE
  BY DEF LintersFlags
<1>2. /\ DOMAIN LintersFlags \subseteq DOMAIN FlagDefaults(cmd)
      /\ DOMAIN FlagDefaults(cmd) \intersect (LinterLists \union {"custom"}) = {}
  BY <1>1, FlagDefaultsAre DEF LinterLists
<1>3. \A o \in DOMAIN LintersFlags : defaults[o] = FALSE
  <2>1. \A o \in DOMAIN LintersFlags : FlagDefaults(cmd)[o] = LintersFlags[o]
    BY OverValues DEF FlagDefaults
  <2>2. \A o \in DOMAIN FlagDefaults(cmd) : defaults[o] = FlagDefaults(cmd)[o]
    BY OverValues
  <2> QED
    BY <1>1, <1>2, <2>1, <2>2
<1>4. /\ LinterLists \union DOMAIN LintersFlags \union {"custom"} \subseteq Options
      /\ LinterLists \subseteq ListFlags(cmd)
      /\ ListFlags(cmd) \intersect (DOMAIN LintersFlags \union {"custom"}) = {}
  BY <1>1, OptionsAre DEF OtherOptions, ListFlags, Lists, LinterLists, RunLists, IssueLists
<1>5. /\ \A o \in LinterLists : defaults[o] = {}
      /\ defaults["custom"] = NewDefault["custom"]
  <2>1. DOMAIN defaults = DOMAIN FlagDefaults(cmd) \union Options
    BY OverValues DEF Options
  <2>2. \A o \in DOMAIN NewDefault \ DOMAIN FlagDefaults(cmd) : defaults[o] = NewDefault[o]
    BY OverValues
  <2>3. defaults["custom"] = NewDefault["custom"]
    BY <1>2, <1>4, <2>2 DEF Options
  <2>4. \A o \in LinterLists : o \in DOMAIN defaults /\ o \in Lists
    BY <1>4, <2>1 DEF Lists
  <2> HIDE DEF defaults
  <2> QED
    BY <2>3, <2>4, DefaultValues DEF DefaultsTyped, defaults
<1> HIDE DEF defaults
<1>6. \A o \in LinterLists \union DOMAIN LintersFlags \union {"custom"} :
         Parsed[o] = IF o \in DOMAIN FlagDefaults(cmd) \intersect DOMAIN input.flags THEN input.flags[o]
                     ELSE IF o \in DOMAIN FileOptions THEN FileOptions[o] ELSE defaults[o]
  BY <1>4, ParsedValues DEF defaults
<1>7. \A o \in LinterLists : Appended[o] = GivenList(o, FileOptions)
  <2> SUFFICES ASSUME NEW o \in LinterLists
               PROVE  Appended[o] = GivenList(o, FileOptions)
    OBVIOUS
  <2>1. Parsed[o] = IF o \in DOMAIN FileOptions THEN FileOptions[o] ELSE {}
    BY <1>2, <1>5, <1>6
  <2>2. Appended[o] = IF o \in DOMAIN input.flags THEN Parsed[o] \union input.flags[o] ELSE Parsed[o]
    BY <1>4, AppendedValues
  <2> QED
    BY <2>1, <2>2 DEF GivenList
<1>8. \A o \in DOMAIN LintersFlags : Appended[o] = Given(o, FALSE, FileOptions)
  BY <1>2, <1>3, <1>4, <1>6, AppendedValues DEF Given
<1>9. Appended["custom"] =
         IF "custom" \in DOMAIN FileOptions THEN FileOptions["custom"] ELSE NewDefault["custom"]
  BY <1>2, <1>4, <1>5, <1>6, AppendedValues
<1> QED
  BY <1>7, <1>8, <1>9

(* Either command settles on the selection of the user.                    *)
LEMMA SettledSelection ==
    ASSUME ConfigInv, stage \in Settled
    PROVE  SameSelection(cfg, Selected(cfgDir)) /\ cfg.custom = Selected(cfgDir).custom
<1>1. PICK v : cfg = Final(v)
  BY DEF ConfigInv
<1>2. input \in Inputs /\ cfgDir \subseteq DOMAIN input.files /\ cmd \in {"linters", "run"}
  BY DEF ConfigInv, FileRead, Settled
<1>3. FileOptions = OptionsOf(cfgDir)
  BY DEF FileOptions, OptionsOf
<1> DEFINE seven == LinterLists \union DOMAIN LintersFlags \union {"custom"}
<1>4. seven = {"enable", "disable", "presets", "disableAll", "enableAll", "fast", "custom"}
  BY DEF LinterLists, LintersFlags
<1>5. seven \subseteq Options /\ "go" \notin seven
  BY <1>4, OptionsAre DEF OtherOptions, Lists, LinterLists
<1>6. DOMAIN Merged = Options /\ \A o \in seven : Merged[o] = Appended[o]
  <2>1. DOMAIN Appended = Options
    BY AppendedValues
  <2>2. CASE cmd = "run"
    <3>1. Appended.excludeDirsUseDefault \in BOOLEAN /\ Appended.showStats \in BOOLEAN
      BY <1>2, AppendedTyped DEF Switches
    <3>2. seven \intersect DOMAIN Replaces = {}
      BY <1>4 DEF Replaces
    <3>3. Merged = HandleDeprecation(Appended)
      BY <2>2 DEF Merged
    <3> HIDE DEF seven
    <3> QED
      BY <1>5, <2>1, <3>1, <3>2, <3>3, DeprecationValues
  <2> QED
    BY <2>1, <2>2 DEF Merged
<1>7. cfg = HandleEnableOnlyOption(input.flags, HandleGoVersion(Merged, v))
  BY <1>1 DEF Final, Versioned
<1>8. /\ \A o \in {"enable", "disable", "presets"} : Appended[o] = GivenList(o, FileOptions)
      /\ \A o \in {"disableAll", "enableAll", "fast"} : Appended[o] = Given(o, FALSE, FileOptions)
      /\ Appended["custom"] =
            IF "custom" \in DOMAIN FileOptions THEN FileOptions["custom"] ELSE NewDefault["custom"]
  <2>1. LinterLists = {"enable", "disable", "presets"}
          /\ DOMAIN LintersFlags = {"disableAll", "enableAll", "fast"}
    BY DEF LinterLists, LintersFlags
  <2> QED
    BY <1>2, <2>1, AppendedSelection
<1> HIDE DEF seven
<1>9. cfg["custom"] = Merged["custom"]
  <2>1. "custom" \notin LinterLists \union DOMAIN LintersFlags
    BY DEF LinterLists, LintersFlags
  <2> QED
    BY <1>4, <1>5, <1>6, <1>7, <2>1, FinalValues
<1>10. CASE EnableOnly
  <2>1. /\ cfg.enable = input.flags.enableOnly /\ cfg.disableAll
        /\ cfg.disable = {} /\ cfg.presets = {} /\ ~cfg.enableAll /\ ~cfg.fast
    BY <1>6, <1>7, <1>10, FinalValues
  <2>2. cfg.disableAll = TRUE /\ cfg.enableAll = FALSE /\ cfg.fast = FALSE
    <3>1. cfg = [HandleGoVersion(Merged, v) EXCEPT !.enable = input.flags.enableOnly, !.disable = {},
                      !.presets = {}, !.enableAll = FALSE, !.disableAll = TRUE, !.fast = FALSE]
      BY <1>7, <1>10 DEF EnableOnly, HandleEnableOnlyOption
    <3>2. DOMAIN HandleGoVersion(Merged, v) = Options
      BY <1>6 DEF HandleGoVersion
    <3> QED
      BY <1>4, <1>5, <3>1, <3>2
  <2> QED
    BY <1>3, <1>4, <1>6, <1>8, <1>9, <1>10, <2>1, <2>2 DEF SameSelection, Selected
<1>11. CASE ~EnableOnly
  <2>1. \A o \in seven : cfg[o] = Appended[o]
    BY <1>5, <1>6, <1>7, <1>11, FinalValues
  <2> QED
    BY <1>3, <1>4, <1>8, <1>11, <2>1 DEF SameSelection, Selected
<1> QED
  BY <1>10, <1>11

(* The names that `linters` shows of a table and a selection.              *)
Shown(lcs, c) == {lc.name : lc \in {l \in lcs : ~l.internal /\ l.name \in Names(Build(lcs, c))}}

(* The command has shown what the user selected with the file it has read. *)
ListedInv ==
    listed.ended => \E v : listed.names = Shown(Table(v, Selected(listed.dir).custom), Selected(listed.dir))

LEMMA MatchShown ==
    ASSUME NEW lcs, NEW others, Match(lcs, others), NEW c, NEW d, SameSelection(c, d)
    PROVE  Shown(lcs, c) = Shown(others, d)
<1>1. Names(Build(lcs, c)) = Names(Build(others, d))
  BY MatchBuild, MatchNames
<1>2. \A a, b : Alike(a, b) => a.name = b.name /\ a.internal = b.internal
  BY DEF Alike
<1> DEFINE enabled == Names(Build(lcs, c))
           open == {l \in lcs : ~l.internal /\ l.name \in enabled}
           others2 == {l \in others : ~l.internal /\ l.name \in enabled}
<1>3. Shown(lcs, c) = Names(open) /\ Shown(others, d) = Names(others2)
  BY <1>1 DEF Shown, Names
<1> HIDE DEF enabled
<1>4. Match(open, others2)
  BY <1>2 DEF Match
<1> HIDE DEF open, others2
<1> QED
  BY <1>3, <1>4, MatchNames

LEMMA MatchTables ==
    ASSUME NEW v, NEW w, NEW custom
    PROVE  Match(Table(v, custom), Table(w, custom))
  BY MatchTable, MatchItself, MatchUnion DEF Table

LEMMA ListedInvariant == Spec => []ListedInv
<1>1. Init => ListedInv
  BY DEF Init, ListedInv
<1>2. ConfigInv /\ ListedInv /\ [Next]_vars => ListedInv'
  <2> SUFFICES ASSUME ConfigInv, ListedInv, [Next]_vars
               PROVE  ListedInv'
    OBVIOUS
  <2>1. ASSUME UNCHANGED <<input, listed>>
        PROVE  ListedInv'
    <3>1. \A dirs : Selected(dirs)' = Selected(dirs)
      BY <2>1 DEF Selected, OptionsOf, EnableOnly, Given, GivenList
    <3> QED
      BY <2>1, <3>1 DEF ListedInv
  <2>2. CASE ListLinters
    <3>1. stage \in Settled /\ input' = input
      BY <2>2 DEF ListLinters, Proceed, Settled
    <3>2. listed' = [ended |-> TRUE, dir |-> cfgDir, names |-> Shown(Known, cfg)]
      BY <2>2 DEF ListLinters, Shown, GetEnabledLintersMap
    <3>3. SameSelection(cfg, Selected(cfgDir)) /\ cfg.custom = Selected(cfgDir).custom
      BY <3>1, SettledSelection
    <3>4. Known = Table(cfg.go, Selected(cfgDir).custom)
      BY <3>1, <3>3, SettledVersion DEF Table
    <3>5. listed'.names = Shown(Table(cfg.go, Selected(cfgDir).custom), Selected(cfgDir))
      <4>1. Shown(Known, cfg) = Shown(Known, Selected(cfgDir))
        BY <3>3, MatchItself, MatchShown
      <4> QED
        BY <3>2, <3>4, <4>1
    <3>6. \A dirs : Selected(dirs)' = Selected(dirs)
      BY <3>1 DEF Selected, OptionsOf, EnableOnly, Given, GivenList
    <3>7. listed'.dir = cfgDir
      BY <3>2
    <3> QED
      BY <3>5, <3>6, <3>7 DEF ListedInv
  <2>3. CASE SetConfigFile \/ ReadConfig \/ MergeConfig \/ SettleGoVersion \/ ValidateConfig \/ NewManager
    BY <2>1, <2>3 DEF SetConfigFile, ReadConfig, MergeConfig, SettleGoVersion, ValidateConfig, NewManager
  <2>4. CASE StartRun \/ PlanJobs \/ LoadPackages \/ RunFatal \/ RunFails \/ RunJob \/ EndRun
    BY <2>1, <2>4 DEF StartRun, PlanJobs, LoadPackages, RunFatal, RunFails, RunJob, EndRun
  <2>5. CASE UNCHANGED vars
    BY <2>1, <2>5 DEF vars
  <2> QED
    BY <2>2, <2>3, <2>4, <2>5 DEF Next
<1> QED
  BY <1>1, <1>2, ConfigInvariant, PTL DEF Spec

(* Of a table with a linter for each name typecheck alone is not shown.    *)
LEMMA ShownAreEnabled ==
    ASSUME NEW v, NEW custom, NEW c, WellNamed(Table(v, custom))
    PROVE  Shown(Table(v, custom), c) = Names(Build(Table(v, custom), c)) \ {"typecheck"}
<1> DEFINE lcs == Table(v, custom)
<1>1. /\ TypecheckConfig \in lcs
      /\ \A lc \in lcs : lc = TypecheckConfig \/ Open(lc)
  BY TableOpens, PluginsOpen DEF Table
<1>2. \A lc \in lcs : lc.internal <=> lc.name = "typecheck"
  BY <1>1, TypecheckIsInternal DEF WellNamed, Open
<1>3. Build(lcs, c) \subseteq lcs
  BY BuildIsWanted
<1> HIDE DEF lcs
<1> QED
  BY <1>2, <1>3 DEF Shown, Names, lcs

(* `linters` shows as enabled what `run` runs with the same flags and the  *)
(* same file, whatever version of Go either finds, when no plugin has the  *)
(* name of a linter that is built in.                                      *)
THEOREM ListedIsRunCorrect == Spec => [](NoClash => ListedIsRun)
<1>1. ConfigInv /\ ListedInv /\ Planned => (NoClash => ListedIsRun)
  <2> SUFFICES ASSUME ConfigInv, ListedInv, Planned, NoClash, Decided,
                      listed.ended, listed.dir = cfgDir
               PROVE  listed.names = active \ {"typecheck"}
    BY DEF ListedIsRun
  <2> DEFINE sel == Selected(cfgDir)
  <2>1. PICK v : listed.names = Shown(Table(v, sel.custom), sel)
    BY DEF ListedInv
  <2>2. stage \in Settled
    BY DEF Decided, Settled
  <2>3. SameSelection(cfg, sel) /\ cfg.custom = sel.custom
    BY <2>2, SettledSelection
  <2>4. Known = Table(cfg.go, sel.custom)
    BY <2>2, <2>3, SettledVersion DEF Table
  <2>5. active = Names(Build(Known, cfg))
    BY DEF Planned, GetEnabledLintersMap
  <2> HIDE DEF sel
  <2>6. Names(Build(Known, cfg)) = Names(Build(Known, sel))
    BY <2>3, MatchItself, MatchBuild, MatchNames
  <2>7. listed.names = Shown(Known, sel)
    <3>1. SameSelection(sel, sel)
      BY DEF SameSelection
    <3> QED
      BY <2>1, <2>4, <3>1, MatchTables, MatchShown
  <2>8. Shown(Known, sel) = Names(Build(Known, sel)) \ {"typecheck"}
    <3>1. WellNamed(Known)
      BY <2>2, NoClashWellNamed
    <3> QED
      BY <2>4, <3>1, ShownAreEnabled
  <2> QED
    BY <2>5, <2>6, <2>7, <2>8
<1> QED
  BY <1>1, ConfigInvariant, ListedInvariant, PlannedHolds, PTL

-----------------------------------------------------------------------------
LEMMA VetAsAsked ==
    ASSUME NEW s
    PROVE  AnalyzersFromConfig(s, cfg.go) = VetChecks(s)
<1>1. DefaultAnalyzers \subseteq AllAnalyzers /\ "shadow" \in AllAnalyzers
  BY DEF DefaultAnalyzers, AllAnalyzers
<1> QED
  BY <1>1 DEF AnalyzersFromConfig, IsAnalyzerEnabled, VetChecks

LEMMA CriticAsAsked ==
    ASSUME NEW s, ValidateGocritic(s)
    PROVE  InferEnabledChecks(s) = {c \in AllChecks : CriticCheck(s, c)}
<1>1. s.enabledChecks \subseteq AllChecks
  BY DEF ValidateGocritic
<1> QED
  BY <1>1 DEF InferEnabledChecks, LeftByTags, EnabledByTags, ExpandTagsToChecks, CriticCheck

LEMMA ReviveAsAsked ==
    ASSUME NEW s, ReviveSetUp(s)
    PROVE  LintingRules(s) = {r \in AllRules : ReviveRule(s, r)}
<1> DEFINE given == GetConfig(s)
           all == DOMAIN given \union (IF s.enableAllRules THEN AllRules ELSE {})
           norm == [r \in all |-> IF r \in DOMAIN given THEN given[r] ELSE [disabled |-> FALSE]]
<1>1. NormalizeConfig(s) = norm /\ DOMAIN norm = all /\ all \subseteq AllRules
  BY DEF NormalizeConfig, ReviveSetUp
<1>2. \A r \in all : norm[r].disabled <=> (r \in DOMAIN given /\ given[r].disabled)
  OBVIOUS
<1>3. CASE s = DefaultRevive
  <2>1. DOMAIN s.rules = {} /\ ~s.enableAllRules
    BY <1>3 DEF DefaultRevive
  <2>2. given = [r \in DefaultRules |-> [disabled |-> FALSE]]
    BY <1>3 DEF GetConfig
  <2>3. \A r \in all : r \in DefaultRules /\ ~norm[r].disabled
    BY <2>1, <2>2
  <2>4. DefaultRules \subseteq AllRules /\ all = DefaultRules
    BY <1>1, <2>1, <2>2
  <2> QED
    BY <1>1, <1>3, <2>1, <2>3, <2>4 DEF LintingRules, ReviveRule
<1>4. CASE s # DefaultRevive
  <2>1. given = s.rules
    BY <1>4 DEF GetConfig
  <2> QED
    BY <1>1, <1>2, <1>4, <2>1 DEF LintingRules, ReviveRule
<1> QED
  BY <1>3, <1>4

Choosy == {"gocritic", "govet", "revive"}

ChecksInv ==
    /\ DOMAIN checks # {} => cmd = "run" /\ stage \in {"lint"} \union Ended
    /\ \A n \in DOMAIN checks : n \in Choosy /\ checks[n] = ChecksOf(n)
    /\ NoClash =>
          /\ "gocritic" \in DOMAIN checks => ValidateGocritic(cfg.gocritic)
          /\ "revive" \in DOMAIN checks => ReviveSetUp(cfg.revive)

LEMMA GocriticEndsProcess ==
    ASSUME NEW lc \in Known, lc.name = "gocritic", NEW v, LinterBuilder(v) \subseteq Known, WellNamed(Known)
    PROVE  lc.linter.onBadSettings = "fatalSetUp"
<1>1. Slow(gocritic, {"style", "metalinter"}) \in Known
  BY DEF LinterBuilder, ForbidigoToGomodguard
<1>2. /\ Slow(gocritic, {"style", "metalinter"}).name = "gocritic"
      /\ Slow(gocritic, {"style", "metalinter"}).linter.onBadSettings = "fatalSetUp"
  BY DEF Slow, Fast, WithLoadForGoAnalysis, WithPresets, NewConfig, gocritic, FatalInSetUp,
         Collector, Reporter
<1> QED
  BY <1>1, <1>2 DEF WellNamed

LEMMA ReviveLogsError ==
    ASSUME NEW lc \in Known, lc.name = "revive", NEW v, LinterBuilder(v) \subseteq Known, WellNamed(Known)
    PROVE  lc.linter.onBadSettings = "error"
<1> DEFINE built == ConsiderSlow(Fast(revive, {"style", "metalinter"}))
<1>1. built \in Known
  BY DEF LinterBuilder, NilerrToTenv
<1>2. built.name = "revive" /\ built.linter.onBadSettings = "error"
  BY DEF ConsiderSlow, Fast, WithPresets, NewConfig, revive, LogsError, Collector, Reporter
<1> QED
  BY <1>1, <1>2 DEF WellNamed

LEMMA ChecksInvariant == Spec => []ChecksInv
<1>1. Init => ChecksInv
  BY DEF Init, ChecksInv
<1>2. ConfigInv /\ ChecksInv /\ [Next]_vars => ChecksInv'
  <2> SUFFICES ASSUME ConfigInv, ChecksInv, [Next]_vars
               PROVE  ChecksInv'
    OBVIOUS
  <2> USE DEF Proceed, configVars, lintVars, runVars, Ended
  <2>1. ASSUME UNCHANGED checks, DOMAIN checks = {}
        PROVE  ChecksInv'
    BY <2>1 DEF ChecksInv
  <2>2. ASSUME UNCHANGED <<checks, cmd, cfg>>, stage = "lint" \/ stage' = stage,
               stage' \in {"lint"} \union Ended \/ stage' = stage
        PROVE  ChecksInv'
    <3>1. Known' = Known /\ \A n : ChecksOf(n)' = ChecksOf(n)
      BY <2>2 DEF Known, ChecksOf
    <3>2. NoClash' <=> NoClash
      BY <2>2 DEF NoClash
    <3> QED
      BY <2>2, <3>1, <3>2 DEF ChecksInv
  <2>3. CASE SetConfigFile \/ ReadConfig \/ MergeConfig \/ SettleGoVersion \/ ValidateConfig
    <3>1. stage \notin {"lint"} \union Ended /\ checks' = checks
      BY <2>3 DEF SetConfigFile, ReadConfig, MergeConfig, SettleGoVersion, ValidateConfig
    <3> QED
      BY <2>1, <3>1 DEF ChecksInv
  <2>4. CASE NewManager \/ ListLinters \/ StartRun \/ PlanJobs \/ LoadPackages
    <3>1. (stage \notin {"lint"} \union Ended \/ cmd # "run") /\ checks' = checks
      BY <2>4 DEF NewManager, ListLinters, StartRun, PlanJobs, LoadPackages
    <3> QED
      BY <2>1, <3>1 DEF ChecksInv
  <2>5. CASE RunFatal \/ RunFails \/ EndRun
    <3>1. /\ UNCHANGED <<checks, cmd, cfg>> /\ stage = "lint"
          /\ stage' \in {"lint"} \union Ended
      BY <2>5 DEF RunFatal, RunFails, EndRun
    <3> QED
      BY <2>2, <3>1
  <2>6. CASE RunJob
    <3> DEFINE noops == {lc \in Members : ~lc.linter.goanalysis}
               idle == Fail(Members, "error") \union Fail(Members, "warning")
               work == Names(Members \ (noops \union idle))
               more == [n \in work \intersect Choosy |-> ChecksOf(n)]
    <3>1. /\ stage = "lint" /\ UNCHANGED <<stage, cmd, cfg>> /\ ~EndsProcess /\ ~JobFails
      BY <2>6 DEF RunJob
    <3>0. checks' = Over(checks, more)
      BY <2>6 DEF RunJob, Choosy
    <3>2. /\ DOMAIN checks' = DOMAIN checks \union (work \intersect Choosy)
          /\ \A n \in DOMAIN checks : checks'[n] = checks[n]
          /\ \A n \in (work \intersect Choosy) \ DOMAIN checks : checks'[n] = ChecksOf(n)
      <4>1. DOMAIN more = work \intersect Choosy /\ \A n \in work \intersect Choosy : more[n] = ChecksOf(n)
        OBVIOUS
      <4> HIDE DEF more, work
      <4>2. DOMAIN checks' = DOMAIN checks \union DOMAIN more
        BY <3>0, OverValues
      <4>3. \A n \in DOMAIN checks : checks'[n] = checks[n]
        BY <3>0, OverValues
      <4>4. \A n \in DOMAIN more \ DOMAIN checks : checks'[n] = more[n]
        <5>1. \A n \in DOMAIN more \ DOMAIN checks : Over(checks, more)[n] = more[n]
          BY OverValues
        <5> QED
          BY <3>0, <5>1
      <4> QED
        BY <4>1, <4>2, <4>3, <4>4
    <3>3. Known' = Known /\ \A n : ChecksOf(n)' = ChecksOf(n)
      BY <3>1 DEF Known, ChecksOf
    <3>4. cmd = "run"
      BY <3>1 DEF ConfigInv
    <3>5. \A n \in DOMAIN checks' : n \in Choosy /\ checks'[n] = ChecksOf(n)'
      BY <3>2, <3>3 DEF ChecksInv
    <3>6. ASSUME NoClash
          PROVE  /\ "gocritic" \in work => ValidateGocritic(cfg.gocritic)
                 /\ "revive" \in work => ReviveSetUp(cfg.revive)
      <4>0. stage \in Settled
        BY <3>1 DEF Settled
      <4>1. LinterBuilder(cfg.go) \subseteq Known /\ WellNamed(Known)
        BY <3>6, <4>0, SettledVersion, NoClashWellNamed
      <4>2. Members \subseteq Known
        BY <4>1, BuildIsWanted DEF Members
      <4>3. ASSUME "gocritic" \in work, ~ValidateGocritic(cfg.gocritic)
            PROVE  FALSE
        <5>1. PICK lc \in Members : lc.name = "gocritic"
          BY <4>3 DEF Names
        <5>2. lc.linter.onBadSettings = "fatalSetUp"
          BY <4>1, <4>2, <5>1, GocriticEndsProcess
        <5>3. lc \in Fail(Members, "fatalSetUp")
          BY <4>3, <5>1, <5>2 DEF Fail, BadSettings
        <5>4. Fail(Members, "preRun") = {}
          BY <3>1 DEF JobFails
        <5> QED
          BY <3>1, <5>3, <5>4 DEF EndsProcess
      <4>4. ASSUME "revive" \in work, ~ReviveSetUp(cfg.revive)
            PROVE  FALSE
        <5>1. PICK lc \in Members \ (noops \union idle) : lc.name = "revive"
          BY <4>4 DEF Names
        <5>2. lc.linter.onBadSettings = "error"
          BY <4>1, <4>2, <5>1, ReviveLogsError
        <5>3. lc \in Fail(Members, "error")
          BY <4>4, <5>1, <5>2 DEF Fail, BadSettings
        <5> QED
          BY <5>1, <5>3
      <4> QED
        BY <4>3, <4>4
    <3> HIDE DEF work
    <3> QED
      BY <3>1, <3>2, <3>3, <3>4, <3>5, <3>6 DEF ChecksInv, NoClash
  <2>7. CASE UNCHANGED vars
    BY <2>2, <2>7 DEF vars
  <2> QED
    BY <2>3, <2>4, <2>5, <2>6, <2>7 DEF Next
<1> QED
  BY <1>1, <1>2, ConfigInvariant, PTL DEF Spec

(* govet, gocritic and revive run the checks that they are configured for, *)
(* when no plugin has the name of a linter that is built in.               *)
THEOREM ChecksAsAskedCorrect == Spec => [](NoClash => ChecksAsAsked)
<1>1. ChecksInv => (NoClash => ChecksAsAsked)
  BY VetAsAsked, CriticAsAsked, ReviveAsAsked DEF ChecksInv, ChecksAsAsked, ChecksOf
<1> QED
  BY <1>1, ChecksInvariant, PTL

-----------------------------------------------------------------------------
(* Jobs that are never equal in the order of their list.                   *)
Ordered(S) ==
    /\ \A a, b \in S : a # b => (Precedes(a, b) <=> ~Precedes(b, a))
    /\ \A a, b, c \in S : a # b /\ b # c /\ a # c /\ Precedes(a, b) /\ Precedes(b, c) => Precedes(a, c)

(* Sorted jobs are the jobs, each at one place.                            *)
LEMMA SortedIsAll ==
    ASSUME NEW S, IsFiniteSet(S), Ordered(S)
    PROVE  /\ DOMAIN Sorted(S) = 1..Cardinality(S)
           /\ {Sorted(S)[i] : i \in DOMAIN Sorted(S)} = S
<1> DEFINE n == Cardinality(S)
           before(j) == {k \in S \ {j} : Precedes(k, j)}
           place == [j \in S |-> Cardinality(before(j)) + 1]
<1>1. n \in Nat
  BY FS_CardinalityType
<1>2. ASSUME NEW j \in S
      PROVE  IsFiniteSet(before(j)) /\ Cardinality(before(j)) \in 0..(n - 1)
  <2>1. IsFiniteSet(S \ {j}) /\ Cardinality(S \ {j}) = n - 1
    BY FS_RemoveElement
  <2>2. before(j) \in SUBSET (S \ {j})
    OBVIOUS
  <2>3. IsFiniteSet(before(j)) /\ Cardinality(before(j)) <= n - 1
    BY <2>1, <2>2, FS_Subset
  <2>4. Cardinality(before(j)) \in Nat
    BY <2>3, FS_CardinalityType
  <2> QED
    BY <1>1, <2>3, <2>4
<1> HIDE DEF n
<1>3. \A j \in S : place[j] = Cardinality(before(j)) + 1
  OBVIOUS
<1>4. place \in [S -> 1..n]
  <2>1. \A j \in S : Cardinality(before(j)) + 1 \in 1..n
    <3> HIDE DEF before
    <3> TAKE j \in S
    <3>1. Cardinality(before(j)) \in 0..(n - 1)
      BY <1>2
    <3> QED
      BY <1>1, <3>1
  <2> QED
    BY <2>1
<1>5. ASSUME NEW a \in S, NEW b \in S, a # b, Precedes(a, b)
      PROVE  Cardinality(before(a)) < Cardinality(before(b))
  <2>1. before(a) \subseteq before(b)
    BY <1>5 DEF Ordered
  <2>2. a \in before(b) /\ a \notin before(a)
    BY <1>5
  <2>3. before(a) \in SUBSET before(b) /\ before(a) # before(b)
    BY <2>1, <2>2
  <2> HIDE DEF before
  <2>4. Cardinality(before(a)) <= Cardinality(before(b)) /\ Cardinality(before(a)) # Cardinality(before(b))
    BY <1>2, <2>3, FS_Subset
  <2>5. Cardinality(before(a)) \in Nat /\ Cardinality(before(b)) \in Nat
    BY <1>1, <1>2
  <2> QED
    BY <2>4, <2>5
<1> HIDE DEF place, before
<1>6. \A a, b \in S : place[a] = place[b] => a = b
  <2> SUFFICES ASSUME NEW a \in S, NEW b \in S, place[a] = place[b], a # b
               PROVE  FALSE
    OBVIOUS
  <2>1. Cardinality(before(a)) \in Nat /\ Cardinality(before(b)) \in Nat
    BY <1>1, <1>2
  <2>2. Cardinality(before(a)) = Cardinality(before(b))
    BY <1>3, <2>1
  <2>3. Precedes(a, b) \/ Precedes(b, a)
    BY DEF Ordered
  <2> QED
    BY <1>5, <2>1, <2>2, <2>3
<1>7. place \in Injection(S, 1..n)
  BY <1>4, <1>6 DEF Injection, IsInjective
<1>8. place \in Surjection(S, 1..n)
  <2>1. IsFiniteSet(1..n) /\ Cardinality(1..n) = n
    BY <1>1, FS_Interval
  <2> QED
    BY <1>7, <2>1, FS_Injection DEF n
<1>9. ASSUME NEW i \in 1..n
      PROVE  Sorted(S)[i] \in S /\ place[Sorted(S)[i]] = i
  <2>1. PICK j \in S : place[j] = i
    BY <1>8 DEF Surjection
  <2>2. Cardinality(before(j)) = i - 1
    BY <1>1, <1>2, <1>3, <2>1
  <2>3. Sorted(S)[i] = CHOOSE k \in S : Cardinality(before(k)) = i - 1
    BY DEF Sorted, before, n
  <2>4. Sorted(S)[i] \in S /\ Cardinality(before(Sorted(S)[i])) = i - 1
    BY <2>2, <2>3
  <2> QED
    BY <1>1, <1>3, <2>4
<1>10. DOMAIN Sorted(S) = 1..n
  BY DEF Sorted, n
<1>11. ASSUME NEW j \in S
       PROVE  \E i \in 1..n : Sorted(S)[i] = j
  <2>1. place[j] \in 1..n
    BY <1>4
  <2> QED
    BY <1>6, <1>9, <2>1
<1> QED
  BY <1>9, <1>10, <1>11 DEF n

(* Two linters of one name come from different builders, and of those that *)
(* are stored one is left.                                                 *)
OneEach(lcs) == \A a, b \in lcs : a.name = b.name => a = b

Placed(lcs) ==
    /\ \A a, b \in lcs : a.name = b.name /\ a.origin = b.origin => a = b
    /\ \A lc \in lcs : lc.origin \in 1..3

LEMMA StoredOneEach ==
    ASSUME NEW lcs, Placed(lcs), NEW more, more \subseteq lcs
    PROVE  StoredLast(more) \subseteq more /\ OneEach(StoredLast(more))
<1>1. StoredLast(more) \subseteq more
  BY DEF StoredLast
<1>2. ASSUME NEW a \in StoredLast(more), NEW b \in StoredLast(more), a.name = b.name, a # b
      PROVE  FALSE
  <2>1. a \in more /\ b \in more /\ a.origin \in 1..3 /\ b.origin \in 1..3 /\ a.origin # b.origin
    BY <1>1, <1>2 DEF Placed
  <2>2. CASE a.origin > b.origin
    BY <1>2, <2>1, <2>2 DEF StoredLast
  <2>3. CASE b.origin > a.origin
    BY <1>2, <2>1, <2>3 DEF StoredLast
  <2> QED
    BY <2>1, <2>2, <2>3
<1> QED
  BY <1>1, <1>2 DEF OneEach

LEMMA StoreOneEach ==
    ASSUME NEW lcs, Placed(lcs), NEW more, more \subseteq lcs,
           NEW present, present \subseteq lcs, OneEach(present)
    PROVE  Store(present, more) \subseteq lcs /\ OneEach(Store(present, more))
<1>1. StoredLast(more) \subseteq more /\ OneEach(StoredLast(more))
  BY StoredOneEach
<1>2. \A lc \in StoredLast(more) : lc.name \in Names(more)
  BY <1>1 DEF Names
<1> QED
  BY <1>1, <1>2 DEF Store, OneEach

LEMMA BuildOneEach ==
    ASSUME NEW lcs, Placed(lcs), NEW c
    PROVE  Build(lcs, c) \subseteq lcs /\ OneEach(Build(lcs, c))
<1> DEFINE start == StartingSet(lcs, c)
           preset == Store(start, InPresets(lcs, c.presets))
           quick == IF c.fast THEN {lc \in preset : ~lc.slow} ELSE preset
           enabled == Store(quick, WithNames(lcs, c.enable))
           rest == {lc \in enabled : lc.name \notin Names(WithNames(lcs, c.disable))}
           last == GetLinterConfigs(lcs, "typecheck")
<1>1. start \subseteq lcs /\ OneEach(start)
  <2> DEFINE all == IF c.enableAll THEN lcs ELSE GetAllEnabledByDefaultLinters(lcs)
             kept == {lc \in all : ~IsRetired(lc)}
  <2>1. kept \subseteq lcs
    BY DEF GetAllEnabledByDefaultLinters
  <2>2. start = {} \/ start = StoredLast(kept)
    BY DEF StartingSet, LinterConfigsToMap
  <2> HIDE DEF kept, start
  <2>3. StoredLast(kept) \subseteq lcs /\ OneEach(StoredLast(kept))
    BY <2>1, StoredOneEach
  <2> QED
    BY <2>2, <2>3 DEF OneEach
<1>2. InPresets(lcs, c.presets) \subseteq lcs
  BY DEF InPresets, GetAllLinterConfigsForPreset
<1>3. \A names : WithNames(lcs, names) \subseteq lcs
  BY DEF WithNames, GetLinterConfigs
<1>4. last \subseteq lcs
  BY DEF GetLinterConfigs
<1>5. preset \subseteq lcs /\ OneEach(preset)
  <2> HIDE DEF start
  <2> QED
    BY <1>1, <1>2, StoreOneEach
<1>6. quick \subseteq lcs /\ OneEach(quick)
  <2> HIDE DEF preset
  <2> QED
    BY <1>5 DEF OneEach
<1>7. enabled \subseteq lcs /\ OneEach(enabled)
  <2> HIDE DEF quick
  <2> QED
    BY <1>3, <1>6, StoreOneEach
<1>8. rest \subseteq lcs /\ OneEach(rest)
  <2> HIDE DEF enabled
  <2> QED
    BY <1>7 DEF OneEach
<1>9. Build(lcs, c) = AddTypecheck(lcs, rest)
  BY DEF Build
<1>10. AddTypecheck(lcs, rest) = rest \/ AddTypecheck(lcs, rest) = Store(rest, last)
  BY DEF AddTypecheck
<1> HIDE DEF rest, last
<1>11. Store(rest, last) \subseteq lcs /\ OneEach(Store(rest, last))
  BY <1>4, <1>8, StoreOneEach
<1> QED
  BY <1>8, <1>9, <1>10, <1>11

-----------------------------------------------------------------------------
(* What holds of any linter that is known, whatever takes whose name.      *)
Sound(lc) ==
    /\ DOMAIN lc = Fields /\ lc.changesTypes \in BOOLEAN /\ LoadsEnough(lc)
    /\ lc.name = "goanalysis_metalinter" => lc.linter.goanalysis /\ lc.linter.mode # WholeProgram

LEMMA PluginsSound ==
    ASSUME NEW n, NEW needs \in {Syntax, TypesInfo}
    PROVE  Sound(GoPlugin(n)) /\ Sound(ModulePlugin(n, needs))
<1> USE FieldsAre DEF None, Syntax, TypesInfo, WholeProgram
<1>1. ASSUME NEW m \in {Syntax, TypesInfo}
      PROVE  LET l == Reporter(n, m)
             IN  l.name = n /\ l.goanalysis = TRUE /\ l.mode = m
  BY DEF Reporter
<1>2. ASSUME NEW m \in {Syntax, TypesInfo}
      PROVE  LET lc == NewConfig(Reporter(n, m))
             IN  /\ DOMAIN lc = Fields /\ lc.linter = Reporter(n, m) /\ lc.changesTypes = FALSE
                 /\ lc.loadMode = LoadFiles
  BY DEF NewConfig
<1> HIDE DEF None, Syntax, TypesInfo, WholeProgram
<1>3. ASSUME NEW lc, DOMAIN lc = Fields, NEW o
      PROVE  LET deep == [WithLoadForGoAnalysis(WithEnabledByDefault(lc)) EXCEPT !.origin = o]
                 late == WithLoadForGoAnalysis([WithEnabledByDefault(lc) EXCEPT !.origin = o])
                 flat == [WithEnabledByDefault(lc) EXCEPT !.origin = o]
             IN  /\ DOMAIN deep = Fields /\ DOMAIN late = Fields /\ DOMAIN flat = Fields
                 /\ deep.linter = lc.linter /\ late.linter = lc.linter /\ flat.linter = lc.linter
                 /\ deep.changesTypes = lc.changesTypes /\ late.changesTypes = lc.changesTypes
                 /\ flat.changesTypes = lc.changesTypes
                 /\ deep.loadMode = lc.loadMode \union LoadFiles \union LoadForAnalysis
                 /\ late.loadMode = lc.loadMode \union LoadFiles \union LoadForAnalysis
                 /\ flat.loadMode = lc.loadMode
                 /\ deep.slow = TRUE /\ late.slow = TRUE
  BY <1>3 DEF WithLoadForGoAnalysis, WithEnabledByDefault
<1>4. "deps" \notin LoadFiles
  BY DEF LoadFiles
<1>5. Sound(GoPlugin(n))
  <2>1. TypesInfo \in {Syntax, TypesInfo} /\ TypesInfo >= TypesInfo /\ TypesInfo # WholeProgram
    BY DEF TypesInfo, WholeProgram
  <2> DEFINE lc == NewConfig(Reporter(n, TypesInfo))
             g == GoPlugin(n)
  <2>2. /\ DOMAIN lc = Fields /\ lc.linter = Reporter(n, TypesInfo) /\ lc.changesTypes = FALSE
        /\ lc.loadMode = LoadFiles
    BY <1>2, <2>1
  <2>3. g = [WithLoadForGoAnalysis(WithEnabledByDefault(lc)) EXCEPT !.origin = 3]
    BY DEF GoPlugin
  <2> HIDE DEF lc, g
  <2>4. /\ DOMAIN g = Fields /\ g.linter = Reporter(n, TypesInfo) /\ g.changesTypes = FALSE
        /\ g.loadMode = LoadFiles \union LoadFiles \union LoadForAnalysis /\ g.slow = TRUE
    BY <1>3, <2>2, <2>3
  <2>5. g.linter.goanalysis = TRUE /\ g.linter.mode = TypesInfo
    BY <1>1, <2>1, <2>4
  <2> QED
    BY <2>1, <2>4, <2>5 DEF Sound, LoadsEnough, NeedsTypes, g
<1>6. Sound(ModulePlugin(n, needs))
  <2> DEFINE lc == NewConfig(Reporter(n, needs))
             flat == [WithEnabledByDefault(lc) EXCEPT !.origin = 2]
             g == ModulePlugin(n, needs)
  <2>2. /\ DOMAIN lc = Fields /\ lc.linter = Reporter(n, needs) /\ lc.changesTypes = FALSE
        /\ lc.loadMode = LoadFiles
    BY <1>2
  <2>3. g = IF needs = Syntax THEN flat ELSE WithLoadForGoAnalysis(flat)
    BY DEF ModulePlugin
  <2>4. needs # WholeProgram /\ (needs >= TypesInfo <=> needs # Syntax)
    BY DEF Syntax, TypesInfo, WholeProgram
  <2> HIDE DEF lc, g
  <2>5. /\ DOMAIN flat = Fields /\ flat.linter = Reporter(n, needs) /\ flat.changesTypes = FALSE
        /\ flat.loadMode = LoadFiles
    BY <1>3, <2>2
  <2>6. LET late == WithLoadForGoAnalysis(flat)
        IN  /\ DOMAIN late = Fields /\ late.linter = Reporter(n, needs) /\ late.changesTypes = FALSE
            /\ late.loadMode = LoadFiles \union LoadFiles \union LoadForAnalysis /\ late.slow = TRUE
    <3> HIDE DEF flat
    <3> QED
      BY <2>5 DEF WithLoadForGoAnalysis
  <2>7. Reporter(n, needs).goanalysis = TRUE /\ Reporter(n, needs).mode = needs
    BY <1>1
  <2>8. CASE needs = Syntax
    BY <1>4, <2>3, <2>4, <2>5, <2>7, <2>8 DEF Sound, LoadsEnough, NeedsTypes, g
  <2>9. CASE needs # Syntax
    BY <2>3, <2>4, <2>6, <2>7, <2>9 DEF Sound, LoadsEnough, NeedsTypes, g
  <2> QED
    BY <2>8, <2>9
<1> QED
  BY <1>5, <1>6

LEMMA KnownSound ==
    ASSUME NEW v, NEW custom, \A n \in DOMAIN custom : custom[n].mode \in {Syntax, TypesInfo}
    PROVE  Placed(Table(v, custom)) /\ \A lc \in Table(v, custom) : Sound(lc)
<1>1. OwnNames(LinterBuilder(v), AllBuiltIn)
  BY TableOwnNames
<1>2. "goanalysis_metalinter" \notin AllBuiltIn
  BY DEF AllBuiltIn, NamesOfAsasalintToExportloopref, NamesOfForbidigoToGomodguard,
         NamesOfGoprintffuncnameToNestif, NamesOfNilerrToTenv, NamesOfTestableexamplesToNolintlint
<1>3. \A lc \in LinterBuilder(v) : Sound(lc) /\ lc.origin = 1
  BY <1>1, <1>2 DEF OwnNames, Named, Sound
<1>4. ASSUME NEW lc \in PluginBuilders(custom)
      PROVE  Sound(lc) /\ lc.origin \in 2..3
  <2>1. CASE \E n \in GoPlugins(custom) : lc = GoPlugin(n)
    <3>1. Sound(lc)
      BY <2>1, PluginsSound
    <3>2. \A n : GoPlugin(n).origin = 3
      BY DEF GoPlugin, WithLoadForGoAnalysis, WithEnabledByDefault, NewConfig, Reporter
    <3> QED
      BY <2>1, <3>1, <3>2
  <2>2. CASE \E n \in ModulePlugins(custom) : lc = ModulePlugin(n, custom[n].mode)
    <3>1. Sound(lc)
      BY <2>2, PluginsSound DEF ModulePlugins
    <3>2. \A n, needs : ModulePlugin(n, needs).origin = 2
      BY DEF ModulePlugin, WithLoadForGoAnalysis, WithEnabledByDefault, NewConfig, Reporter
    <3> QED
      BY <2>2, <3>1, <3>2
  <2> QED
    BY <2>1, <2>2 DEF PluginBuilders
<1>5. \A a, b \in PluginBuilders(custom) : a.name = b.name => a = b
  BY PluginNames
<1> QED
  BY <1>1, <1>3, <1>4, <1>5 DEF Placed, Table, OwnNames

-----------------------------------------------------------------------------
(* Jobs of different names, all of which have a rank, can be put in order. *)
LEMMA OrderedByName ==
    ASSUME NEW S, \A a, b \in S : a.name = b.name => a = b,
           \A a \in S : a.name \in DOMAIN NameRank /\ a.changesTypes \in BOOLEAN
    PROVE  IsFiniteSet(S) /\ Ordered(S)
<1> DEFINE name == [a \in S |-> a.name]
           Less(a, b) == NameRank[a.name] < NameRank[b.name]
<1>1. IsFiniteSet(S)
  <2>1. name \in Injection(S, DOMAIN NameRank)
    BY DEF Injection, IsInjective
  <2> QED
    BY <2>1, NameRankAssumption, FS_Injection
<1>2. \A a, b \in S : a # b => (Less(a, b) <=> ~Less(b, a))
  BY NameRankAssumption
<1>3. \A a, b, c \in S : Less(a, b) /\ Less(b, c) => Less(a, c)
  BY NameRankAssumption
<1>4. \A a, b : Precedes(a, b) <=>
                   \/ b.name = LastLinter
                   \/ /\ a.name # LastLinter
                      /\ IF a.changesTypes # b.changesTypes THEN b.changesTypes ELSE Less(a, b)
  BY DEF Precedes
<1> HIDE DEF Less
<1>5. \A a, b \in S : a # b => (Precedes(a, b) <=> ~Precedes(b, a))
  <2> SUFFICES ASSUME NEW a \in S, NEW b \in S, a # b
               PROVE  Precedes(a, b) <=> ~Precedes(b, a)
    OBVIOUS
  <2>1. a.name # b.name
    OBVIOUS
  <2>2. a.changesTypes \in BOOLEAN /\ b.changesTypes \in BOOLEAN
    OBVIOUS
  <2>3. /\ Precedes(a, b) <=>
             \/ b.name = LastLinter
             \/ /\ a.name # LastLinter
                /\ IF a.changesTypes # b.changesTypes THEN b.changesTypes ELSE Less(a, b)
        /\ Precedes(b, a) <=>
             \/ a.name = LastLinter
             \/ /\ b.name # LastLinter
                /\ IF b.changesTypes # a.changesTypes THEN a.changesTypes ELSE Less(b, a)
    BY <1>4
  <2>4. Less(a, b) <=> ~Less(b, a)
    BY <1>2
  <2> QED
    BY <2>1, <2>2, <2>3, <2>4
<1>6. \A a, b, c \in S : a # b /\ b # c /\ a # c /\ Precedes(a, b) /\ Precedes(b, c) => Precedes(a, c)
  <2> SUFFICES ASSUME NEW a \in S, NEW b \in S, NEW c \in S, b # c, Precedes(a, b), Precedes(b, c)
               PROVE  Precedes(a, c)
    OBVIOUS
  <2>1. b.name # c.name
    OBVIOUS
  <2>2. a.changesTypes \in BOOLEAN /\ b.changesTypes \in BOOLEAN /\ c.changesTypes \in BOOLEAN
    OBVIOUS
  <2>3. \/ b.name = LastLinter
        \/ /\ a.name # LastLinter
           /\ IF a.changesTypes # b.changesTypes THEN b.changesTypes ELSE Less(a, b)
    BY <1>4
  <2>4. \/ c.name = LastLinter
        \/ /\ b.name # LastLinter
           /\ IF b.changesTypes # c.changesTypes THEN c.changesTypes ELSE Less(b, c)
    BY <1>4
  <2>5. Less(a, b) /\ Less(b, c) => Less(a, c)
    BY <1>3
  <2>6. \/ c.name = LastLinter
        \/ /\ a.name # LastLinter
           /\ IF a.changesTypes # c.changesTypes THEN c.changesTypes ELSE Less(a, c)
    BY <2>1, <2>2, <2>3, <2>4, <2>5
  <2> QED
    BY <1>4, <2>6
<1> QED
  BY <1>1, <1>5, <1>6 DEF Ordered

(* The jobs that linters are merged into are theirs, all of theirs, and    *)
(* ask for what they ask for.                                              *)
Jobs(lcs) == CombineGoAnalysisLinters(lcs)

LEMMA JobsOfLinters ==
    ASSUME NEW lcs, OneEach(lcs), \A lc \in lcs : Sound(lc) /\ lc.name \in DOMAIN NameRank
    PROVE  /\ \A j \in Jobs(lcs) : j.members \subseteq Names(lcs)
           /\ \A lc \in lcs : \E j \in Jobs(lcs) : lc.name \in j.members
           /\ FindLoadMode(Jobs(lcs)) = UNION {lc.loadMode : lc \in lcs}
           /\ DOMAIN Sorted(Jobs(lcs)) = 1..Cardinality(Jobs(lcs)) /\ Cardinality(Jobs(lcs)) \in Nat
           /\ {Sorted(Jobs(lcs))[i] : i \in DOMAIN Sorted(Jobs(lcs))} = Jobs(lcs)
<1> DEFINE merged == Mergeable(lcs)
           meta == MetaLinter(merged)
           apart == {Job(lc) : lc \in lcs \ merged}
<1>1. merged \subseteq lcs
  BY DEF Mergeable
<1>2. \A lc : /\ Job(lc).name = lc.name /\ Job(lc).members = {lc.name}
              /\ Job(lc).loadMode = lc.loadMode /\ Job(lc).changesTypes = lc.changesTypes
  BY DEF Job
<1>3. /\ meta.name = "goanalysis_metalinter" /\ meta.members = Names(merged)
      /\ meta.loadMode = UNION {lc.loadMode : lc \in merged} /\ meta.changesTypes = FALSE
  BY DEF MetaLinter
<1>4. Jobs(lcs) = {Job(lc) : lc \in lcs} \/ Jobs(lcs) = apart \union {meta}
  BY DEF Jobs, CombineGoAnalysisLinters
<1>5. \A lc \in lcs \ merged : lc.name # "goanalysis_metalinter"
  BY DEF Mergeable, Sound
<1>6. "goanalysis_metalinter" \in DOMAIN NameRank
  BY NamesAssumption
<1> HIDE DEF merged, meta
<1>7. /\ \A a, b \in Jobs(lcs) : a.name = b.name => a = b
      /\ \A a \in Jobs(lcs) : a.name \in DOMAIN NameRank /\ a.changesTypes \in BOOLEAN
  <2>1. CASE Jobs(lcs) = {Job(lc) : lc \in lcs}
    BY <1>2, <2>1 DEF OneEach, Sound
  <2>2. CASE Jobs(lcs) = apart \union {meta}
    <3>1. \A a \in apart : \E lc \in lcs \ merged : a = Job(lc) /\ a.name = lc.name
      BY <1>2
    <3>2. \A a, b \in apart : a.name = b.name => a = b
      BY <3>1 DEF OneEach
    <3>3. \A a \in apart : a.name # meta.name
      BY <1>3, <1>5, <3>1
    <3>4. \A a \in apart : a.name \in DOMAIN NameRank /\ a.changesTypes \in BOOLEAN
      BY <1>2 DEF Sound
    <3>5. meta.name \in DOMAIN NameRank /\ meta.changesTypes \in BOOLEAN
      BY <1>3, <1>6
    <3> HIDE DEF apart
    <3> QED
      BY <2>2, <3>2, <3>3, <3>4, <3>5
  <2> QED
    BY <1>4, <2>1, <2>2
<1>8. IsFiniteSet(Jobs(lcs)) /\ Ordered(Jobs(lcs))
  BY <1>7, OrderedByName
<1>9. /\ DOMAIN Sorted(Jobs(lcs)) = 1..Cardinality(Jobs(lcs))
      /\ {Sorted(Jobs(lcs))[i] : i \in DOMAIN Sorted(Jobs(lcs))} = Jobs(lcs)
  BY <1>8, SortedIsAll
<1>10. Cardinality(Jobs(lcs)) \in Nat
  BY <1>8, FS_CardinalityType
<1>11. \A j \in Jobs(lcs) : j.members \subseteq Names(lcs)
  BY <1>1, <1>2, <1>3, <1>4 DEF Names
<1>12. \A lc \in lcs : \E j \in Jobs(lcs) : lc.name \in j.members
  BY <1>1, <1>2, <1>3, <1>4 DEF Names
<1>13. FindLoadMode(Jobs(lcs)) = UNION {lc.loadMode : lc \in lcs}
  <2>1. \A x : x \in FindLoadMode(Jobs(lcs)) <=> \E j \in Jobs(lcs) : x \in j.loadMode
    BY DEF FindLoadMode
  <2>2. \A x : (\E j \in Jobs(lcs) : x \in j.loadMode) <=> \E lc \in lcs : x \in lc.loadMode
    <3> TAKE x
    <3>1. CASE Jobs(lcs) = {Job(lc) : lc \in lcs}
      BY <1>2, <3>1
    <3>2. CASE Jobs(lcs) = apart \union {meta}
      <4>1. (\E j \in apart : x \in j.loadMode) <=> \E lc \in lcs \ merged : x \in lc.loadMode
        BY <1>2
      <4>2. x \in meta.loadMode <=> \E lc \in merged : x \in lc.loadMode
        BY <1>3
      <4> HIDE DEF apart
      <4> QED
        BY <1>1, <3>2, <4>1, <4>2
    <3> QED
      BY <1>4, <3>1, <3>2
  <2> QED
    BY <2>1, <2>2
<1> QED
  BY <1>9, <1>10, <1>11, <1>12, <1>13

(* The linters that a settled configuration knows, and those it enables.   *)
LEMMA SettledCustom ==
    ASSUME ConfigInv, stage \in Settled
    PROVE  /\ DOMAIN cfg.custom \subseteq DOMAIN NameRank
           /\ \A n \in DOMAIN cfg.custom : cfg.custom[n].mode \in {Syntax, TypesInfo}
<1>1. input \in Inputs /\ cfgDir \subseteq DOMAIN input.files
  BY DEF ConfigInv, FileRead, Settled
<1>2. OptionsTyped(FileOptions) /\ FileOptions = OptionsOf(cfgDir)
  BY <1>1, OptionsOfFileTyped DEF FileOptions, OptionsOf
<1>3. cfg.custom = IF "custom" \in DOMAIN FileOptions THEN FileOptions["custom"] ELSE NewDefault["custom"]
  <2>1. cfg.custom = Selected(cfgDir).custom
    BY SettledSelection
  <2> QED
    BY <1>2, <2>1 DEF Selected
<1>4. NewDefault["custom"] = <<>>
  <2>1. FieldDefaults["custom"] = <<>> /\ "custom" \in DOMAIN FieldDefaults
    BY DEF FieldDefaults
  <2>2. DOMAIN [l \in Lists |-> {}] = Lists /\ "custom" \notin Lists
    BY DEF Lists, LinterLists, RunLists, IssueLists
  <2> DEFINE lists == [l \in Lists |-> {}]
  <2>3. NewDefault = Over(lists, FieldDefaults)
    BY DEF NewDefault
  <2>4. \A o \in DOMAIN FieldDefaults \ DOMAIN lists : Over(lists, FieldDefaults)[o] = FieldDefaults[o]
    BY OverValues
  <2> QED
    BY <2>1, <2>2, <2>3, <2>4
<1>5. CASE "custom" \in DOMAIN FileOptions
  BY <1>2, <1>3, <1>5 DEF OptionsTyped
<1>6. CASE "custom" \notin DOMAIN FileOptions
  BY <1>3, <1>4, <1>6
<1> QED
  BY <1>5, <1>6

Enabled == Build(Known, cfg)

LEMMA SettledLinters ==
    ASSUME ConfigInv, stage \in Settled
    PROVE  /\ Known = Table(cfg.go, cfg.custom)
           /\ \A lc \in Known : Sound(lc)
           /\ Enabled \subseteq Known /\ OneEach(Enabled)
           /\ \A lc \in Enabled : Sound(lc) /\ lc.name \in DOMAIN NameRank
<1>1. Known = Table(cfg.go, cfg.custom) /\ cfg.go \in GoVersions
  BY SettledVersion DEF Table
<1>2. Placed(Known) /\ \A lc \in Known : Sound(lc)
  BY <1>1, SettledCustom, KnownSound
<1>3. \A lc \in Known : lc.name \in DOMAIN NameRank
  <2>1. \A lc \in LinterBuilder(cfg.go) : lc.name \in DOMAIN NameRank
    BY <1>1, NamesAssumption DEF Names
  <2>2. \A lc \in PluginBuilders(cfg.custom) : lc.name \in DOMAIN NameRank
    BY SettledCustom, PluginNames
  <2> QED
    BY <1>1, <2>1, <2>2 DEF Table
<1>4. Enabled \subseteq Known /\ OneEach(Enabled)
  BY <1>2, BuildOneEach DEF Enabled
<1> QED
  BY <1>1, <1>2, <1>3, <1>4

LEMMA PlannedJobs ==
    ASSUME ConfigInv, stage \in Settled
    PROVE  /\ GetOptimizedLinters(Known, cfg) \in Seq(Jobs(Enabled))
           /\ LET planned == GetOptimizedLinters(Known, cfg)
              IN  {planned[i] : i \in DOMAIN planned} = Jobs(Enabled)
           /\ \A j \in Jobs(Enabled) : j.members \subseteq Names(Enabled)
           /\ \A lc \in Enabled : \E j \in Jobs(Enabled) : lc.name \in j.members
           /\ FindLoadMode(Jobs(Enabled)) = UNION {lc.loadMode : lc \in Enabled}
<1> DEFINE planned == Sorted(Jobs(Enabled))
           n == Cardinality(Jobs(Enabled))
<1>1. OneEach(Enabled) /\ \A lc \in Enabled : Sound(lc) /\ lc.name \in DOMAIN NameRank
  BY SettledLinters
<1>2. GetOptimizedLinters(Known, cfg) = planned
  BY DEF GetOptimizedLinters, Jobs, Enabled
<1>3. planned = [i \in 1..n |-> planned[i]]
  <2> DEFINE S == Jobs(Enabled)
             Pick(i) == CHOOSE j \in S : Cardinality({k \in S \ {j} : Precedes(k, j)}) = i - 1
             f == [i \in 1..n |-> Pick(i)]
  <2>1. planned = f
    BY Zenon DEF Sorted
  <2> HIDE DEF Pick, n
  <2>2. f = [i \in 1..n |-> f[i]]
    OBVIOUS
  <2> HIDE DEF planned, f
  <2> QED
    BY <2>1, <2>2
<1>4. /\ n \in Nat /\ DOMAIN planned = 1..n /\ {planned[i] : i \in DOMAIN planned} = Jobs(Enabled)
      /\ \A j \in Jobs(Enabled) : j.members \subseteq Names(Enabled)
      /\ \A lc \in Enabled : \E j \in Jobs(Enabled) : lc.name \in j.members
      /\ FindLoadMode(Jobs(Enabled)) = UNION {lc.loadMode : lc \in Enabled}
  BY <1>1, JobsOfLinters
<1> HIDE DEF planned, n
<1>5. planned \in Seq(Jobs(Enabled))
  BY <1>3, <1>4
<1> QED
  BY <1>2, <1>4, <1>5

LEMMA HeadAndTail ==
    ASSUME NEW S, NEW s \in Seq(S), s # <<>>
    PROVE  /\ Tail(s) \in Seq(S)
           /\ \A i \in DOMAIN s : s[i] = Head(s) \/ \E k \in DOMAIN Tail(s) : s[i] = Tail(s)[k]
           /\ \A k \in DOMAIN Tail(s) : \E i \in DOMAIN s : Tail(s)[k] = s[i]
<1>1. Len(s) \in Nat /\ Len(s) > 0 /\ DOMAIN s = 1..Len(s)
  OBVIOUS
<1>2. Tail(s) \in Seq(S) /\ Len(Tail(s)) = Len(s) - 1 /\ \A k \in 1..(Len(s) - 1) : Tail(s)[k] = s[k + 1]
  OBVIOUS
<1>3. DOMAIN Tail(s) = 1..(Len(s) - 1)
  BY <1>1, <1>2
<1>4. ASSUME NEW i \in DOMAIN s, i # 1
      PROVE  \E k \in DOMAIN Tail(s) : s[i] = Tail(s)[k]
  <2>1. i - 1 \in 1..(Len(s) - 1) /\ (i - 1) + 1 = i
    BY <1>1, <1>4
  <2>2. Tail(s)[i - 1] = s[i]
    BY <1>2, <2>1
  <2> QED
    BY <1>3, <2>1, <2>2
<1>5. s[1] = Head(s)
  OBVIOUS
<1> QED
  BY <1>1, <1>2, <1>3, <1>4, <1>5

-----------------------------------------------------------------------------
(* From the plan on, the jobs are of enabled linters, and a linter works   *)
(* only then.                                                              *)
Early == cmd = "linters"
      \/ stage \in {"start", "parse", "merge", "goVersion", "validate", "manager", "enabled"}

WorkInv ==
    /\ DOMAIN cfg = Options /\ Cardinality(cfgDir) <= 1
    /\ Early => jobs = <<>> /\ working = {} /\ errors = FALSE
    /\ jobs \in Seq(Jobs(Enabled))
    /\ \A i \in DOMAIN jobs : jobs[i].members \subseteq active
    /\ working \subseteq active /\ DOMAIN checks \subseteq working
    /\ errors \in BOOLEAN
    /\ \A entry \in log : entry[1] \in {"warning", "error"}

LEMMA ConfigFileIsOne ==
    ASSUME input \in Inputs
    PROVE  Cardinality(ConfigFile(input.opts, Args, input.files)) <= 1
<1>1. ASSUME NEW S, S = {} \/ \E x : S = {x}
      PROVE  Cardinality(S) <= 1
  <2>1. Cardinality({}) = 0 /\ \A x : Cardinality({x}) = 1
    BY FS_EmptySet, FS_Singleton
  <2>2. Cardinality(S) = 0 \/ Cardinality(S) = 1
    BY <1>1, <2>1
  <2> QED
    BY <2>2
<1>2. \A c, d \in input.opts.config : c = d
  BY InputsAssumption
<1>3. input.opts.config = {} \/ \E x : input.opts.config = {x}
  BY <1>2
<1>4. LET found == SearchConfig(Args, input.files) IN found = {} \/ \E x : found = {x}
  BY DEF SearchConfig
<1>5. LET f == ConfigFile(input.opts, Args, input.files)
      IN  f = {} \/ f = input.opts.config \/ f = SearchConfig(Args, input.files)
  BY DEF ConfigFile
<1> QED
  BY <1>1, <1>3, <1>4, <1>5

-----------------------------------------------------------------------------
LEMMA WorkInvariant == Spec => []WorkInv
<1>1. Init => WorkInv
  <2> SUFFICES ASSUME Init PROVE WorkInv
    OBVIOUS
  <2>1. Cardinality({}) = 0
    BY FS_EmptySet
  <2>2. /\ cfg = NewDefault /\ cfgDir = {} /\ jobs = <<>> /\ working = {} /\ checks = <<>>
        /\ errors = FALSE /\ log = {} /\ active = {}
    BY DEF Init
  <2>3. jobs \in Seq(Jobs(Enabled))
    BY <2>2
  <2>4. DOMAIN cfg = Options
    BY <2>2 DEF Options
  <2>5. DOMAIN jobs = {} /\ DOMAIN checks = {}
    BY <2>2
  <2>6. Cardinality(cfgDir) <= 1
    BY <2>1, <2>2
  <2> QED
    BY <2>2, <2>3, <2>4, <2>5, <2>6 DEF WorkInv
<1>2. ConfigInv /\ ConfigInv' /\ Planned /\ WorkInv /\ [Next]_vars => WorkInv'
  <2> SUFFICES ASSUME ConfigInv, ConfigInv', Planned, WorkInv, [Next]_vars
               PROVE  WorkInv'
    OBVIOUS
  <2> USE DEF Proceed, configVars, lintVars, runVars
  \* A step of which the jobs are not begun.
  <2>1. ASSUME Early, UNCHANGED runVars, DOMAIN cfg' = Options, Cardinality(cfgDir') <= 1,
               \A entry \in log' : entry \in log \/ entry[1] \in {"warning", "error"}
        PROVE  WorkInv'
    <3>1. jobs' = <<>>
      BY <2>1 DEF WorkInv
    <3>2. (jobs \in Seq(Jobs(Enabled)))'
      BY <3>1
    <3> QED
      BY <2>1, <3>1, <3>2 DEF WorkInv
  <2>2. ASSUME NEW level \in {"warning", "error"}, NEW subjects, Tell(level, subjects)
        PROVE  \A entry \in log' : entry \in log \/ entry[1] \in {"warning", "error"}
    BY <2>2 DEF Tell
  <2>3. CASE SetConfigFile
    <3>1. Early /\ UNCHANGED <<runVars, cfg, log>>
      BY <2>3 DEF SetConfigFile, Early
    <3>2. cfgDir' = ConfigFile(input.opts, Args, input.files) \/ cfgDir' = {}
      BY <2>3 DEF SetConfigFile
    <3>3. Cardinality(cfgDir') <= 1
      <4>1. Cardinality({}) <= 1
        BY FS_EmptySet
      <4>2. input \in Inputs
        BY DEF ConfigInv
      <4> QED
        BY <3>2, <4>1, <4>2, ConfigFileIsOne
    <3> QED
      BY <2>1, <3>1, <3>3 DEF WorkInv
  <2>4. CASE ReadConfig
    <3>1. Early /\ UNCHANGED <<runVars, cfgDir, log>>
      BY <2>4 DEF ReadConfig, Early
    <3>2. DOMAIN cfg' = Options
      BY <2>4 DEF ReadConfig, ParseConfig, WorkInv
    <3> QED
      BY <2>1, <3>1, <3>2 DEF WorkInv
  <2>5. CASE MergeConfig
    <3>1. Early /\ UNCHANGED <<runVars, cfgDir>>
      BY <2>5 DEF MergeConfig, Early
    <3>2. DOMAIN cfg' = Options
      <4> DEFINE appended == ApplyStringSliceHack(cmd, input.flags, cfg)
      <4>1. DOMAIN appended = Options
        BY DEF ApplyStringSliceHack
      <4>2. cfg' = appended \/ cfg' = HandleDeprecation(appended)
        BY <2>5 DEF MergeConfig
      <4> HIDE DEF appended
      <4> QED
        BY <4>1, <4>2 DEF HandleDeprecation
    <3>3. UNCHANGED log \/ \E subjects : Tell("warning", subjects)
      BY <2>5 DEF MergeConfig
    <3> QED
      BY <2>1, <2>2, <3>1, <3>2, <3>3 DEF WorkInv
  <2>6. CASE SettleGoVersion
    <3>1. Early /\ UNCHANGED <<runVars, cfgDir, log>>
      BY <2>6 DEF SettleGoVersion, Early
    <3>2. DOMAIN cfg' = Options
      BY <2>6 DEF SettleGoVersion, HandleGoVersion, WorkInv
    <3> QED
      BY <2>1, <3>1, <3>2 DEF WorkInv
  <2>7. CASE ValidateConfig
    <3>1. Early /\ UNCHANGED <<runVars, cfgDir, log>>
      BY <2>7 DEF ValidateConfig, Early
    <3>2. DOMAIN cfg' = Options
      BY <2>7 DEF ValidateConfig, HandleEnableOnlyOption, WorkInv
    <3> QED
      BY <2>1, <3>1, <3>2 DEF WorkInv
  <2>8. CASE NewManager
    <3>1. Early /\ UNCHANGED <<runVars, cfgDir, cfg>> /\ \E subjects : Tell("warning", subjects)
      BY <2>8 DEF NewManager, Early
    <3> QED
      BY <2>1, <2>2, <3>1 DEF WorkInv
  <2>9. CASE ListLinters
    <3>1. Early /\ UNCHANGED <<runVars, cfgDir, cfg, log>>
      BY <2>9 DEF ListLinters, Early
    <3> QED
      BY <2>1, <3>1 DEF WorkInv
  <2>10. CASE StartRun
    <3>1. Early /\ UNCHANGED runVars /\ cfg' = NewDefault /\ cfgDir' = {} /\ log' = {}
      BY <2>10 DEF StartRun, Early
    <3>2. DOMAIN cfg' = Options /\ Cardinality(cfgDir') <= 1
      BY <3>1, FS_EmptySet DEF Options
    <3> QED
      BY <2>1, <3>1, <3>2
  <2>11. CASE PlanJobs
    <3>1. /\ Early /\ stage \in Settled /\ UNCHANGED <<cfg, cfgDir, working, checks, errors>>
          /\ cmd' = "run" /\ stage' = "load"
          /\ active' = Names(Enabled) /\ jobs' = GetOptimizedLinters(Known, cfg)
          /\ \E subjects : Tell("warning", subjects)
      BY <2>11 DEF PlanJobs, Early, Settled, GetEnabledLintersMap, Enabled
    <3>2. Jobs(Enabled)' = Jobs(Enabled)
      BY <3>1 DEF Enabled, Known, Jobs
    <3>3. jobs' \in Seq(Jobs(Enabled)) /\ \A i \in DOMAIN jobs' : jobs'[i].members \subseteq active'
      BY <3>1, PlannedJobs
    <3>4. working' = {} /\ ~Early'
      BY <3>1 DEF WorkInv, Early
    <3>5. \A entry \in log' : entry[1] \in {"warning", "error"}
      BY <2>2, <3>1 DEF WorkInv
    <3> QED
      BY <3>1, <3>2, <3>3, <3>4, <3>5 DEF WorkInv
  <2>12. ASSUME UNCHANGED <<cmd, cfg, cfgDir, active>>, ~Early, ~Early',
                jobs' = jobs \/ (jobs # <<>> /\ jobs' = Tail(jobs)),
                working' \subseteq active, DOMAIN checks' \subseteq working', errors' \in BOOLEAN,
                \A entry \in log' : entry \in log \/ entry[1] \in {"warning", "error"}
         PROVE  WorkInv'
    <3>1. Jobs(Enabled)' = Jobs(Enabled)
      BY <2>12 DEF Enabled, Known, Jobs
    <3>2. jobs' \in Seq(Jobs(Enabled)) /\ \A k \in DOMAIN jobs' : \E i \in DOMAIN jobs : jobs'[k] = jobs[i]
      <4>1. jobs \in Seq(Jobs(Enabled))
        BY DEF WorkInv
      <4>2. CASE jobs' = jobs
        BY <4>1, <4>2
      <4>3. CASE jobs # <<>> /\ jobs' = Tail(jobs)
        BY <4>1, <4>3, HeadAndTail
      <4> QED
        BY <2>12, <4>2, <4>3
    <3> QED
      BY <2>12, <3>1, <3>2 DEF WorkInv
  <2>13. CASE LoadPackages
    <3>1. /\ stage = "load" /\ stage' \in {"noGoFiles", "failed", "lint"}
          /\ UNCHANGED <<cmd, cfg, cfgDir, active, jobs, working, checks, errors, log>>
      BY <2>13 DEF LoadPackages, FatalStage
    <3>2. ~Early /\ ~Early'
      BY <3>1 DEF ConfigInv, Early
    <3> QED
      BY <2>12, <3>1, <3>2 DEF WorkInv
  <2>14. CASE RunFatal \/ EndRun
    <3>1. /\ stage = "lint" /\ stage' \in {"done", "failed"}
          /\ UNCHANGED <<cmd, cfg, cfgDir, active, jobs, working, checks, errors, log>>
      BY <2>14 DEF RunFatal, EndRun
    <3>2. ~Early /\ ~Early'
      BY <3>1 DEF ConfigInv, Early
    <3> QED
      BY <2>12, <3>1, <3>2 DEF WorkInv
  <2>15. CASE RunFails
    <3>1. /\ stage = "lint" /\ jobs # <<>> /\ jobs' = Tail(jobs) /\ errors' = TRUE
          /\ UNCHANGED <<stage, cmd, cfg, cfgDir, active, working, checks, log>>
      BY <2>15 DEF RunFails
    <3>2. ~Early /\ ~Early'
      BY <3>1 DEF ConfigInv, Early
    <3> QED
      BY <2>12, <3>1, <3>2 DEF WorkInv
  <2>16. CASE RunJob
    <3> DEFINE noops == {lc \in Members : ~lc.linter.goanalysis}
               idle == Fail(Members, "error") \union Fail(Members, "warning")
               work == Names(Members \ (noops \union idle))
               more == [n \in work \intersect {"gocritic", "govet", "revive"} |-> ChecksOf(n)]
    <3>1. /\ stage = "lint" /\ jobs # <<>> /\ jobs' = Tail(jobs)
          /\ working' = working \union work /\ checks' = Over(checks, more)
          /\ UNCHANGED <<stage, cmd, cfg, cfgDir, active, errors>>
      BY <2>16 DEF RunJob
    <3>2. ~Early /\ ~Early' /\ cmd = "run"
      BY <3>1 DEF ConfigInv, Early
    <3>3. work \subseteq Names(Enabled)
      BY DEF Members, Names, Enabled
    <3>4. Names(Enabled) = active
      BY <3>1, <3>2 DEF Planned, Decided, GetEnabledLintersMap, Enabled
    <3>5. DOMAIN checks' \subseteq DOMAIN checks \union work
      <4>1. DOMAIN more \subseteq work
        OBVIOUS
      <4> HIDE DEF more, work
      <4>2. DOMAIN Over(checks, more) = DOMAIN checks \union DOMAIN more
        BY OverValues
      <4> QED
        BY <3>1, <4>1, <4>2
    <3>6. \A entry \in log' : entry \in log \/ entry[1] \in {"warning", "error"}
      <4>1. \E a, b : log' = log \union ({"warning"} \X a) \union ({"error"} \X b)
        BY <2>16 DEF RunJob
      <4> QED
        BY <4>1
    <3> HIDE DEF work, more
    <3> QED
      BY <2>12, <3>1, <3>2, <3>3, <3>4, <3>5, <3>6 DEF WorkInv
  <2>17. CASE UNCHANGED vars
    <3>1. UNCHANGED <<stage, cmd, cfg, cfgDir, active, jobs, working, checks, errors, log>>
      BY <2>17 DEF vars
    <3>2. Early' <=> Early
      BY <3>1 DEF Early
    <3>3. Jobs(Enabled)' = Jobs(Enabled)
      BY <3>1 DEF Enabled, Known, Jobs
    <3> QED
      BY <3>1, <3>2, <3>3 DEF WorkInv
  <2> QED
    BY <2>3, <2>4, <2>5, <2>6, <2>7, <2>8, <2>9, <2>10, <2>11, <2>13, <2>14, <2>15, <2>16, <2>17 DEF Next
<1> QED
  BY <1>1, <1>2, ConfigInvariant, PlannedHolds, PTL DEF Spec

(* The parts of the state have their types; jobs and linters at work are   *)
(* of those that are enabled, even when a plugin takes the name of a       *)
(* linter that is built in.                                                *)
THEOREM TypeCorrect == Spec => []TypeOK
<1>1. ConfigInv /\ WorkInv => TypeOK
  BY DEF ConfigInv, WorkInv, TypeOK
<1> QED
  BY <1>1, ConfigInvariant, WorkInvariant, PTL

-----------------------------------------------------------------------------
(* A linter that is enabled is in a job that is left, or has done its work *)
(* or is told of.                                                          *)
Told(name) == \E entry \in log : entry[2] = name

LintedInv ==
    /\ stage = "load" => {jobs[i] : i \in DOMAIN jobs} = Jobs(Enabled)
    /\ stage = "lint" => mode = UNION {lc.loadMode : lc \in Enabled}
    /\ stage = "done" => ~errors /\ jobs = <<>>
    /\ cmd = "run" /\ stage \in {"load", "lint", "done"} /\ ~errors =>
          \A lc \in Enabled :
              \/ \E i \in DOMAIN jobs : lc.name \in jobs[i].members
              \/ lc.name \in working \/ Told(lc.name)
    /\ cmd = "run" /\ stage \in {"enabled", "load", "lint", "done"} =>
          {"warning"} \X AlternativeNamesDeprecation(Known, cfg) \subseteq log

LEMMA LintedInvariant == Spec => []LintedInv
<1>1. Init => LintedInv
  BY DEF Init, LintedInv
<1>2. ConfigInv /\ WorkInv /\ LintedInv /\ [Next]_vars => LintedInv'
  <2> SUFFICES ASSUME ConfigInv, WorkInv, LintedInv, [Next]_vars
               PROVE  LintedInv'
    OBVIOUS
  <2> USE DEF Proceed, configVars, lintVars, runVars
  <2>1. ASSUME stage' \notin {"enabled", "load", "lint", "done"}
        PROVE  LintedInv'
    BY <2>1 DEF LintedInv
  <2>2. CASE SetConfigFile \/ ReadConfig \/ MergeConfig \/ SettleGoVersion \/ ValidateConfig \/ StartRun
    <3>1. stage' \in {"start", "parse", "merge", "goVersion", "validate", "manager", "failed"}
      BY <2>2 DEF SetConfigFile, ReadConfig, MergeConfig, SettleGoVersion, ValidateConfig, StartRun
    <3> QED
      BY <2>1, <3>1
  <2>3. CASE NewManager
    <3> DEFINE ok == stage' = "enabled"
    <3>1. UNCHANGED <<cmd, cfg>> /\ stage' \in {"enabled", "failed"}
      BY <2>3 DEF NewManager
    <3>2. ok => {"warning"} \X AlternativeNamesDeprecation(Known, cfg) \subseteq log'
      BY <2>3 DEF NewManager, Tell
    <3>3. AlternativeNamesDeprecation(Known, cfg)' = AlternativeNamesDeprecation(Known, cfg)
      BY <3>1 DEF Known
    <3> QED
      BY <3>1, <3>2, <3>3 DEF LintedInv
  <2>4. CASE ListLinters
    <3>1. cmd = "linters" /\ cmd' = cmd /\ stage' = "done" /\ UNCHANGED <<errors, jobs>>
      BY <2>4 DEF ListLinters
    <3>2. Early
      BY <3>1 DEF Early
    <3> QED
      BY <3>1, <3>2 DEF LintedInv, WorkInv
  <2>5. ASSUME UNCHANGED <<cmd, cfg>>, log \subseteq log', stage \in {"enabled", "load", "lint"},
               stage' \in {"load", "lint", "done"}
        PROVE  /\ Enabled' = Enabled /\ Jobs(Enabled)' = Jobs(Enabled)
               /\ cmd = "run" =>
                     {"warning"} \X AlternativeNamesDeprecation(Known, cfg)' \subseteq log'
               /\ \A name : Told(name) => Told(name)'
    <3>1. Known' = Known
      BY <2>5 DEF Known
    <3> QED
      BY <2>5, <3>1 DEF Enabled, Jobs, LintedInv, Told
  <2>6. CASE PlanJobs
    <3>1. /\ UNCHANGED <<cmd, cfg>> /\ cmd = "run" /\ stage = "enabled" /\ stage' = "load"
          /\ jobs' = GetOptimizedLinters(Known, cfg) /\ log \subseteq log'
      BY <2>6 DEF PlanJobs, Tell
    <3>2. Enabled' = Enabled /\ Jobs(Enabled)' = Jobs(Enabled)
          /\ {"warning"} \X AlternativeNamesDeprecation(Known, cfg)' \subseteq log'
      BY <2>5, <3>1
    <3>3. /\ {jobs'[i] : i \in DOMAIN jobs'} = Jobs(Enabled)
          /\ \A lc \in Enabled : \E j \in Jobs(Enabled) : lc.name \in j.members
      BY <3>1, PlannedJobs DEF Settled
    <3>4. \A lc \in Enabled : \E i \in DOMAIN jobs' : lc.name \in jobs'[i].members
      BY <3>3
    <3> QED
      BY <3>1, <3>2, <3>3, <3>4 DEF LintedInv
  <2>7. CASE LoadPackages
    <3>1. /\ UNCHANGED <<cmd, cfg, jobs, working, errors, log>> /\ stage = "load"
          /\ stage' \in {"noGoFiles", "failed", "lint"}
          /\ mode' = FindLoadMode({jobs[i] : i \in DOMAIN jobs})
      BY <2>7 DEF LoadPackages, FatalStage
    <3>2. CASE stage' = "lint"
      <4>1. Enabled' = Enabled /\ (cmd = "run" =>
                  {"warning"} \X AlternativeNamesDeprecation(Known, cfg)' \subseteq log')
        BY <2>5, <3>1, <3>2
      <4>2. \A name : Told(name) => Told(name)'
        BY <2>5, <3>1, <3>2
      <4>3. mode' = UNION {lc.loadMode : lc \in Enabled}
        <5>1. mode' = FindLoadMode(Jobs(Enabled))
          BY <3>1 DEF LintedInv
        <5> QED
          BY <3>1, <5>1, PlannedJobs DEF Settled
      <4> QED
        BY <3>1, <3>2, <4>1, <4>2, <4>3 DEF LintedInv
    <3> QED
      BY <2>1, <3>1, <3>2
  <2>8. CASE RunFatal
    <3>1. stage' = "failed"
      BY <2>8 DEF RunFatal
    <3> QED
      BY <2>1, <3>1
  <2>9. CASE RunFails
    <3>1. /\ UNCHANGED <<cmd, cfg, stage, mode, log>> /\ stage = "lint" /\ errors' = TRUE
      BY <2>9 DEF RunFails
    <3>2. Enabled' = Enabled /\ (cmd = "run" =>
                {"warning"} \X AlternativeNamesDeprecation(Known, cfg)' \subseteq log')
      BY <2>5, <3>1
    <3> QED
      BY <3>1, <3>2 DEF LintedInv
  <2>10. CASE RunJob
    <3> DEFINE noops == {lc \in Members : ~lc.linter.goanalysis}
               idle == Fail(Members, "error") \union Fail(Members, "warning")
               work == Names(Members \ (noops \union idle))
               needless == IF "gocritic" \in work THEN NeedlessChecks(cfg.gocritic) ELSE {}
               warned == needless
                           \union Names({lc \in noops : ~IsRetired(lc)} \union Fail(Members, "warning"))
               blamed == Names({lc \in noops : IsRetired(lc)} \union Fail(Members, "error"))
    <3>1. /\ UNCHANGED <<cmd, cfg, stage, mode, errors>> /\ stage = "lint"
          /\ jobs # <<>> /\ jobs' = Tail(jobs)
      BY <2>10 DEF RunJob
    <3>2. working' = working \union work
      BY <2>10 DEF RunJob
    <3>3. log' = log \union ({"warning"} \X warned) \union ({"error"} \X blamed)
      BY <2>10 DEF RunJob
    <3>4. /\ Enabled' = Enabled
          /\ cmd = "run" => {"warning"} \X AlternativeNamesDeprecation(Known, cfg)' \subseteq log'
          /\ \A name : Told(name) => Told(name)'
      BY <2>5, <3>1, <3>3
    <3>5. \A name \in warned \union blamed : Told(name)'
      <4> HIDE DEF warned, blamed
      <4>1. \A name \in warned : <<"warning", name>> \in log'
        BY <3>3
      <4>2. \A name \in blamed : <<"error", name>> \in log'
        BY <3>3
      <4> QED
        BY <4>1, <4>2 DEF Told
    <3>6. ASSUME NEW lc \in Enabled, lc.name \in Head(jobs).members
          PROVE  lc.name \in working' \/ Told(lc.name)'
      <4>1. lc \in Members
        BY <3>6 DEF Members, Enabled
      <4>2. lc.name \in work \union warned \union blamed
        BY <4>1 DEF Names
      <4> QED
        BY <3>2, <3>5, <4>2
    <3>7. ASSUME ~errors, cmd = "run", NEW lc \in Enabled
          PROVE  \/ \E i \in DOMAIN jobs' : lc.name \in jobs'[i].members
                 \/ lc.name \in working' \/ Told(lc.name)'
      <4>1. CASE lc.name \in working \/ Told(lc.name)
        BY <3>2, <3>4, <4>1
      <4>2. CASE \E i \in DOMAIN jobs : lc.name \in jobs[i].members
        <5>1. jobs \in Seq(Jobs(Enabled))
          BY DEF WorkInv
        <5>2. PICK i \in DOMAIN jobs : lc.name \in jobs[i].members
          BY <4>2
        <5>3. jobs[i] = Head(jobs) \/ \E k \in DOMAIN Tail(jobs) : jobs[i] = Tail(jobs)[k]
          BY <3>1, <5>1, HeadAndTail
        <5> QED
          BY <3>1, <3>6, <5>2, <5>3
      <4> QED
        BY <3>1, <3>7, <4>1, <4>2 DEF LintedInv
    <3> HIDE DEF work, warned, blamed
    <3> QED
      BY <3>1, <3>4, <3>7 DEF LintedInv
  <2>11. CASE EndRun
    <3>1. /\ UNCHANGED <<cmd, cfg, jobs, working, errors, log>> /\ stage = "lint" /\ jobs = <<>>
          /\ stage' = IF errors THEN "failed" ELSE "done"
      BY <2>11 DEF EndRun
    <3>2. CASE ~errors
      <4>1. Enabled' = Enabled /\ (cmd = "run" =>
                  {"warning"} \X AlternativeNamesDeprecation(Known, cfg)' \subseteq log')
        BY <2>5, <3>1, <3>2
      <4>2. \A name : Told(name) => Told(name)'
        BY <2>5, <3>1, <3>2
      <4> QED
        BY <3>1, <3>2, <4>1, <4>2 DEF LintedInv
    <3> QED
      BY <2>1, <3>1, <3>2
  <2>12. CASE UNCHANGED vars
    <3>1. UNCHANGED <<stage, cmd, cfg, jobs, mode, working, errors, log>>
      BY <2>12 DEF vars
    <3>2. Enabled' = Enabled /\ Jobs(Enabled)' = Jobs(Enabled) /\ Known' = Known
      BY <3>1 DEF Enabled, Known, Jobs
    <3>3. \A name : Told(name) => Told(name)'
      BY <3>1 DEF Told
    <3> QED
      BY <3>1, <3>2, <3>3 DEF LintedInv
  <2> QED
    BY <2>2, <2>3, <2>4, <2>6, <2>7, <2>8, <2>9, <2>10, <2>11, <2>12 DEF Next
<1> QED
  BY <1>1, <1>2, ConfigInvariant, WorkInvariant, PTL DEF Spec

(* A linter that is enabled by name has done its work when a run ends      *)
(* without an error, or the user was told about it.                        *)
THEOREM NoSilentSkipCorrect == Spec => [](NoClash => NoSilentSkip)
<1>1. ConfigInv /\ LintedInv => (NoClash => NoSilentSkip)
  <2> SUFFICES ASSUME ConfigInv, LintedInv, NoClash, cmd = "run", stage = "done",
                      NEW n \in Asked, NEW lc \in GetLinterConfigs(Known, n)
               PROVE  lc.name \in working \/ \E name \in AllNames(lc) : Told(name)
    BY DEF NoSilentSkip, Told
  <2>1. stage \in Settled
    BY DEF Settled
  <2>2. WellNamed(Known) /\ lc \in Known /\ n \in AllNames(lc)
    BY <2>1, NoClashWellNamed DEF GetLinterConfigs
  <2>3. n \in cfg.enable
    <3>1. SameSelection(cfg, Selected(cfgDir)) /\ FileOptions = OptionsOf(cfgDir)
      BY <2>1, SettledSelection DEF FileOptions, OptionsOf
    <3>2. cfg.enable = Selected(cfgDir).enable
      BY <3>1 DEF SameSelection
    <3>3. CASE EnableOnly
      BY <3>2, <3>3 DEF Asked, Selected
    <3>4. CASE ~EnableOnly
      <4>1. cfg.enable = GivenList("enable", FileOptions)
        BY <3>1, <3>2, <3>4 DEF Selected
      <4> QED
        BY <3>4, <4>1 DEF Asked, GivenList
    <3> QED
      BY <3>3, <3>4
  <2>4. NamedIn(lc, cfg.enable)
    BY <2>2, <2>3 DEF NamedIn
  <2>5. cfg.enable \intersect cfg.disable = {}
    BY <2>1 DEF ConfigInv, Validate, ValidateLintersSection
  <2>6. CASE ~NamedIn(lc, cfg.disable)
    <3>1. lc \in Enabled
      BY <2>2, <2>4, <2>6, BuildIsWanted DEF Enabled, Wanted
    <3>2. lc.name \in working \/ Told(lc.name)
      BY <3>1 DEF LintedInv
    <3> QED
      BY <3>2 DEF AllNames
  <2>7. CASE NamedIn(lc, cfg.disable)
    <3>1. PICK m \in AllNames(lc) : m \in cfg.disable
      BY <2>7 DEF NamedIn
    <3>2. PICK a \in {m, n} : a \in lc.alternatives
      BY <2>2, <2>3, <2>5, <3>1 DEF AllNames
    <3>3. a \in AlternativeNamesDeprecation(Known, cfg)
      BY <2>2, <2>3, <3>1, <3>2 DEF AlternativeNamesDeprecation
    <3>4. <<"warning", a>> \in log
      BY <3>3 DEF LintedInv
    <3> QED
      BY <3>2, <3>4 DEF Told, AllNames
  <2> QED
    BY <2>6, <2>7
<1> QED
  BY <1>1, ConfigInvariant, LintedInvariant, PTL

-----------------------------------------------------------------------------
(* What is loaded from a directory.                                        *)
PackageFields == {"path", "variantOf", "testMain", "files", "errors"}

IsLoaded(p, d, t) ==
    /\ DOMAIN p = PackageFields
    /\ p.testMain => p.variantOf = ""
    /\ ~p.testMain =>
         \/ p.path = d.path /\ p.variantOf = "" /\ p.files = d.files
         \/ /\ t /\ d.tests # {}
            /\ p.path = d.path /\ p.variantOf = d.path /\ p.files = d.files \union d.tests
         \/ /\ t /\ d.xtests # {}
            /\ p.path = d.xpath /\ p.variantOf = d.xpath /\ p.files = d.xtests

LEMMA LoadedAre ==
    ASSUME NEW d, NEW t
    PROVE  /\ \A p \in LoadedFrom(d, t) : IsLoaded(p, d, t)
           /\ \E p \in LoadedFrom(d, t) :
                 p.path = d.path /\ p.variantOf = "" /\ ~p.testMain /\ p.files = d.files
           /\ t /\ d.tests # {} =>
                 \E p \in LoadedFrom(d, t) :
                    /\ p.path = d.path /\ p.variantOf = d.path /\ ~p.testMain
                    /\ p.files = d.files \union d.tests
           /\ t /\ d.xtests # {} =>
                 \E p \in LoadedFrom(d, t) :
                    /\ p.path = d.xpath /\ p.variantOf = d.xpath /\ ~p.testMain /\ p.files = d.xtests
<1> DEFINE built == Package(d.path, "", d.files, d.errors)
           test == Package(d.path, d.path, d.files \union d.tests, d.errors)
           xtest == Package(d.xpath, d.xpath, d.xtests, {})
           main == [Package(d.mainPath, "", {}, {}) EXCEPT !.testMain = TRUE]
<1>1. /\ DOMAIN built = PackageFields /\ built.path = d.path /\ built.variantOf = ""
      /\ built.testMain = FALSE /\ built.files = d.files
  BY DEF Package, PackageFields
<1>2. /\ DOMAIN test = PackageFields /\ test.path = d.path /\ test.variantOf = d.path
      /\ test.testMain = FALSE /\ test.files = d.files \union d.tests
  BY DEF Package, PackageFields
<1>3. /\ DOMAIN xtest = PackageFields /\ xtest.path = d.xpath /\ xtest.variantOf = d.xpath
      /\ xtest.testMain = FALSE /\ xtest.files = d.xtests
  BY DEF Package, PackageFields
<1>4. DOMAIN main = PackageFields /\ main.variantOf = "" /\ main.testMain = TRUE
  BY DEF Package, PackageFields
<1>5. LoadedFrom(d, t) = {built}
          \union {p \in {test} : t /\ d.tests # {}}
          \union {p \in {xtest} : t /\ d.xtests # {}}
          \union {p \in {main} : t /\ d.tests \union d.xtests # {}}
  BY DEF LoadedFrom
<1> HIDE DEF built, test, xtest, main
<1>6. \A p \in LoadedFrom(d, t) :
         p = built \/ (p = test /\ t /\ d.tests # {}) \/ (p = xtest /\ t /\ d.xtests # {}) \/ p = main
  BY <1>5
<1>7. /\ built \in LoadedFrom(d, t)
      /\ t /\ d.tests # {} => test \in LoadedFrom(d, t)
      /\ t /\ d.xtests # {} => xtest \in LoadedFrom(d, t)
  BY <1>5
<1>8. \A p \in LoadedFrom(d, t) : IsLoaded(p, d, t)
  BY <1>1, <1>2, <1>3, <1>4, <1>6 DEF IsLoaded
<1>9. \E p \in LoadedFrom(d, t) :
         p.path = d.path /\ p.variantOf = "" /\ ~p.testMain /\ p.files = d.files
  BY <1>1, <1>7
<1>10. t /\ d.tests # {} =>
         \E p \in LoadedFrom(d, t) :
            /\ p.path = d.path /\ p.variantOf = d.path /\ ~p.testMain
            /\ p.files = d.files \union d.tests
  BY <1>2, <1>7
<1>11. t /\ d.xtests # {} =>
         \E p \in LoadedFrom(d, t) :
            /\ p.path = d.xpath /\ p.variantOf = d.xpath /\ ~p.testMain /\ p.files = d.xtests
  BY <1>3, <1>7
<1> QED
  BY <1>8, <1>9, <1>10, <1>11

(* What is left of the packages that are loaded.                           *)
Kept(loaded) == FilterDuplicatePackages(FilterTestMainPackages(ParseLoadedPackagesErrors(loaded)))

Clean(p) == [p EXCEPT !.errors = @ \ {"commandLine"}]

LEMMA KeptAre ==
    ASSUME NEW loaded, \A p \in loaded : DOMAIN p = PackageFields
    PROVE  /\ \A p \in loaded :
                 /\ Clean(p).path = p.path /\ Clean(p).variantOf = p.variantOf
                 /\ Clean(p).testMain = p.testMain /\ Clean(p).files = p.files
           /\ Kept(loaded) =
                 {Clean(p) : p \in {l \in loaded :
                     /\ ~l.testMain
                     /\ \/ l.variantOf # ""
                        \/ \A q \in loaded : ~q.testMain /\ q.variantOf # "" => l.path # q.variantOf}}
<1>1. \A p \in loaded : /\ Clean(p).path = p.path /\ Clean(p).variantOf = p.variantOf
                        /\ Clean(p).testMain = p.testMain /\ Clean(p).files = p.files
  BY DEF Clean, PackageFields
<1>2. ParseLoadedPackagesErrors(loaded) = {Clean(p) : p \in loaded}
  BY DEF ParseLoadedPackagesErrors, Clean
<1> DEFINE proper == {l \in loaded : ~l.testMain}
           ofTests == {p.variantOf : p \in proper} \ {""}
<1>3. FilterTestMainPackages(ParseLoadedPackagesErrors(loaded)) = {Clean(p) : p \in proper}
  BY <1>1, <1>2 DEF FilterTestMainPackages
<1> DEFINE cleaned == {Clean(l) : l \in proper}
           tested == {p.variantOf : p \in cleaned} \ {""}
<1>4. \A p : p \in cleaned <=> \E l \in proper : p = Clean(l)
  OBVIOUS
<1>5. \A l \in proper : Clean(l).path = l.path /\ Clean(l).variantOf = l.variantOf
  BY <1>1
<1>6. Kept(loaded) = {p \in cleaned : p.variantOf # "" \/ p.path \notin tested}
  BY <1>3 DEF Kept, FilterDuplicatePackages
<1> HIDE DEF cleaned
<1>7. \A x : x \in tested <=> x # "" /\ \E l \in proper : x = l.variantOf
  <2>1. ASSUME NEW x \in tested
        PROVE  x # "" /\ \E l \in proper : x = l.variantOf
    <3>1. PICK p \in cleaned : x = p.variantOf
      OBVIOUS
    <3>2. PICK l \in proper : p = Clean(l)
      BY <1>4
    <3> QED
      BY <1>5, <3>1, <3>2
  <2>2. ASSUME NEW l \in proper, l.variantOf # ""
        PROVE  l.variantOf \in tested
    <3>1. Clean(l) \in cleaned /\ Clean(l).variantOf = l.variantOf
      BY <1>4, <1>5
    <3> QED
      BY <2>2, <3>1
  <2> QED
    BY <2>1, <2>2
<1> HIDE DEF tested
<1>8. \A l \in proper :
         l.path \notin tested <=>
            \A q \in loaded : ~q.testMain /\ q.variantOf # "" => l.path # q.variantOf
  BY <1>7
<1> HIDE DEF proper
<1>9. \A p : p \in Kept(loaded) <=>
                \E l \in proper : p = Clean(l) /\ (l.variantOf # "" \/ l.path \notin tested)
  <2>1. ASSUME NEW p \in Kept(loaded)
        PROVE  \E l \in proper : p = Clean(l) /\ (l.variantOf # "" \/ l.path \notin tested)
    <3>1. p \in cleaned /\ (p.variantOf # "" \/ p.path \notin tested)
      BY <1>6
    <3>2. PICK l \in proper : p = Clean(l)
      BY <1>4, <3>1
    <3>3. Clean(l).path = l.path /\ Clean(l).variantOf = l.variantOf
      BY <1>5
    <3> QED
      BY <3>1, <3>2, <3>3
  <2>2. ASSUME NEW l \in proper, l.variantOf # "" \/ l.path \notin tested
        PROVE  Clean(l) \in Kept(loaded)
    <3>1. Clean(l) \in cleaned /\ Clean(l).path = l.path /\ Clean(l).variantOf = l.variantOf
      BY <1>4, <1>5
    <3> QED
      BY <1>6, <2>2, <3>1
  <2> QED
    BY <2>1, <2>2
<1> DEFINE left == {l \in loaded :
                     /\ ~l.testMain
                     /\ \/ l.variantOf # ""
                        \/ \A q \in loaded : ~q.testMain /\ q.variantOf # "" => l.path # q.variantOf}
<1>10. \A l : l \in left <=> l \in proper /\ (l.variantOf # "" \/ l.path \notin tested)
  BY <1>8 DEF proper
<1> HIDE DEF left
<1>11. Kept(loaded) = {Clean(p) : p \in left}
  BY <1>9, <1>10
<1> QED
  BY <1>1, <1>11 DEF left

(* No directory has the import path of the external tests of another.      *)
NoTestNames(tree) == \A d, e \in tree : d.path # e.xpath

LEMMA OfOneVariant ==
    ASSUME NEW d, NEW t, "" \notin {d.path, d.xpath}, d.path # d.xpath,
           NEW p \in LoadedFrom(d, t), NEW q \in LoadedFrom(d, t),
           ~p.testMain, ~q.testMain, p.variantOf = q.variantOf
    PROVE  p = q
<1> DEFINE built == Package(d.path, "", d.files, d.errors)
           test == Package(d.path, d.path, d.files \union d.tests, d.errors)
           xtest == Package(d.xpath, d.xpath, d.xtests, {})
           main == [Package(d.mainPath, "", {}, {}) EXCEPT !.testMain = TRUE]
<1>1. built.variantOf = "" /\ test.variantOf = d.path /\ xtest.variantOf = d.xpath /\ main.testMain = TRUE
  BY DEF Package
<1>2. \A r \in LoadedFrom(d, t) : r \in {built, test, xtest, main}
  BY DEF LoadedFrom
<1> HIDE DEF built, test, xtest, main
<1> QED
  BY <1>1, <1>2

(* Each file that is asked for is in just one of the packages kept.        *)
LEMMA OnePackage ==
    ASSUME NEW D, DirectoriesApart(D), NoTestNames(D), NEW t,
           NEW d \in D, NEW f, f \in d.files \/ (t /\ f \in d.tests \union d.xtests)
    PROVE  Cardinality({p \in Kept(UNION {LoadedFrom(e, t) : e \in D}) : f \in p.files}) = 1
<1> DEFINE loaded == UNION {LoadedFrom(e, t) : e \in D}
           Left(l) == /\ ~l.testMain
                      /\ \/ l.variantOf # ""
                         \/ \A q \in loaded : ~q.testMain /\ q.variantOf # "" => l.path # q.variantOf
           left == {l \in loaded : Left(l)}
<1>1. \A p : p \in loaded <=> \E e \in D : p \in LoadedFrom(e, t)
  OBVIOUS
<1>0. \A e : \A p \in LoadedFrom(e, t) : IsLoaded(p, e, t)
  BY Zenon, LoadedAre
<1>2. \A p \in loaded : DOMAIN p = PackageFields
  <2> TAKE p \in loaded
  <2>1. PICK e \in D : p \in LoadedFrom(e, t)
    OBVIOUS
  <2> QED
    BY <1>0, <2>1 DEF IsLoaded
<1> HIDE DEF loaded
<1>3. /\ Kept(loaded) = {Clean(p) : p \in left}
      /\ \A p \in loaded : Clean(p).files = p.files
  BY <1>2, KeptAre
<1>4. /\ d.path # "" /\ d.xpath # "" /\ d.path # d.xpath
      /\ d.files \intersect d.tests = {} /\ d.xtests \intersect (d.files \union d.tests) = {}
  BY DEF DirectoriesApart, NoTestNames
\* What is left of a directory has the files of the tests, or there are none.
<1>5. ASSUME NEW l \in LoadedFrom(d, t), Left(l)
      PROVE  \/ /\ t /\ d.tests # {}
                /\ l.variantOf = d.path /\ l.files = d.files \union d.tests
             \/ /\ ~(t /\ d.tests # {})
                /\ l.variantOf = "" /\ l.files = d.files
             \/ t /\ l.variantOf = d.xpath /\ l.files = d.xtests
  <2>1. CASE t /\ d.tests # {} /\ l.variantOf = ""
    <3>1. PICK q \in LoadedFrom(d, t) :
             q.path = d.path /\ q.variantOf = d.path /\ ~q.testMain
      BY <2>1, LoadedAre
    <3>2. q \in loaded
      BY <1>1
    <3>3. l.path = d.path
      BY <1>0, <1>4, <1>5, <2>1 DEF IsLoaded
    <3> QED
      BY <1>4, <1>5, <2>1, <3>1, <3>2, <3>3
  <2>2. CASE ~(t /\ d.tests # {} /\ l.variantOf = "")
    <3>1. \/ l.path = d.path /\ l.variantOf = "" /\ l.files = d.files
          \/ /\ t /\ d.tests # {}
             /\ l.path = d.path /\ l.variantOf = d.path /\ l.files = d.files \union d.tests
          \/ /\ t /\ d.xtests # {}
             /\ l.path = d.xpath /\ l.variantOf = d.xpath /\ l.files = d.xtests
      BY <1>0, <1>5 DEF IsLoaded
    <3> QED
      BY <2>2, <3>1
  <2> QED
    BY <2>1, <2>2
<1>6. \E l \in LoadedFrom(d, t) : Left(l) /\ f \in l.files
  <2>1. CASE t /\ f \in d.xtests
    <3>1. PICK l \in LoadedFrom(d, t) : l.variantOf = d.xpath /\ ~l.testMain /\ l.files = d.xtests
      BY <2>1, LoadedAre
    <3> QED
      BY <1>4, <2>1, <3>1
  <2>2. CASE t /\ d.tests # {} /\ f \in d.files \union d.tests
    <3>1. PICK l \in LoadedFrom(d, t) :
             l.variantOf = d.path /\ ~l.testMain /\ l.files = d.files \union d.tests
      BY <2>2, LoadedAre
    <3> QED
      BY <1>4, <2>2, <3>1
  <2>3. CASE f \in d.files /\ ~(t /\ d.tests # {})
    <3>1. PICK l \in LoadedFrom(d, t) :
             l.path = d.path /\ l.variantOf = "" /\ ~l.testMain /\ l.files = d.files
      BY LoadedAre
    <3>2. ASSUME NEW q \in loaded, ~q.testMain, q.variantOf # ""
          PROVE  d.path # q.variantOf
      <4>1. PICK e \in D : q \in LoadedFrom(e, t)
        BY <1>1
      <4>2. (t /\ e.tests # {} /\ q.variantOf = e.path) \/ q.variantOf = e.xpath
        BY <1>0, <3>2, <4>1 DEF IsLoaded
      <4> QED
        BY <2>3, <4>2 DEF DirectoriesApart, NoTestNames
    <3> QED
      BY <2>3, <3>1, <3>2
  <2> QED
    BY <2>1, <2>2, <2>3
<1>7. PICK l \in LoadedFrom(d, t) : Left(l) /\ f \in l.files
  BY <1>6
<1>8. ASSUME NEW q \in loaded, Left(q), f \in q.files
      PROVE  q = l
  <2>1. PICK e \in D : q \in LoadedFrom(e, t)
    BY <1>1
  <2>2. ~q.testMain /\ ~l.testMain
    BY <1>7, <1>8
  <2>3. f \in e.files \union e.tests \union e.xtests
    BY <1>0, <1>8, <2>1, <2>2 DEF IsLoaded
  <2>4. e = d
    BY <2>3 DEF DirectoriesApart
  <2>5. q.variantOf = l.variantOf
    BY <1>4, <1>5, <1>7, <1>8, <2>1, <2>4
  <2> QED
    BY <1>4, <2>1, <2>2, <2>4, <2>5, OfOneVariant
<1>9. l \in loaded
  BY <1>1
<1> DEFINE holders == {p \in Kept(loaded) : f \in p.files}
<1>10. holders = {Clean(l)}
  <2>1. ASSUME NEW p \in holders
        PROVE  p = Clean(l)
    <3>1. p \in Kept(loaded) /\ f \in p.files
      OBVIOUS
    <3>2. PICK q \in left : p = Clean(q)
      BY <1>3, <3>1
    <3>3. q \in loaded /\ Left(q)
      BY <3>2
    <3>4. f \in q.files
      BY <1>3, <3>1, <3>2, <3>3
    <3> QED
      BY <1>8, <3>2, <3>3, <3>4
  <2>2. Clean(l) \in holders
    <3>1. l \in left
      BY <1>7, <1>9
    <3> HIDE DEF left
    <3> QED
      BY <1>3, <1>7, <1>9, <3>1
  <2> HIDE DEF holders
  <2> QED
    BY <2>1, <2>2
<1> QED
  BY <1>10, FS_Singleton DEF loaded

-----------------------------------------------------------------------------
(* The linters are given what is left of the packages that were loaded.    *)
PackagesInv == stage = "lint" => pkgs = Kept(Loaded)

LEMMA PackagesInvariant == Spec => []PackagesInv
<1>1. Init => PackagesInv
  BY DEF Init, PackagesInv
<1>2. PackagesInv /\ [Next]_vars => PackagesInv'
  <2> SUFFICES ASSUME PackagesInv, [Next]_vars, stage' = "lint"
               PROVE  pkgs' = Kept(Loaded)'
    BY DEF PackagesInv
  <2> USE DEF Proceed, configVars, lintVars, runVars
  <2>1. CASE LoadPackages
    <3>1. UNCHANGED <<input, cmd, cfg>> /\ stage' \in {"noGoFiles", "failed", "lint"}
      BY <2>1 DEF LoadPackages, FatalStage
    <3>2. Fatal(Loaded) = {} /\ pkgs' = Kept(Loaded)
      BY <2>1, <3>1 DEF LoadPackages, FatalStage, Kept
    <3> QED
      BY <3>1, <3>2 DEF Loaded, Args
  <2>2. CASE RunFails \/ RunJob \/ UNCHANGED vars
    <3>1. UNCHANGED <<stage, input, cmd, cfg, pkgs>>
      BY <2>2 DEF RunFails, RunJob, vars
    <3> QED
      BY <3>1 DEF PackagesInv, Loaded, Args
  <2>3. CASE SetConfigFile \/ ReadConfig \/ MergeConfig \/ SettleGoVersion \/ ValidateConfig \/ NewManager
    BY <2>3 DEF SetConfigFile, ReadConfig, MergeConfig, SettleGoVersion, ValidateConfig, NewManager
  <2>4. CASE ListLinters \/ StartRun \/ PlanJobs \/ RunFatal \/ EndRun
    BY <2>4 DEF ListLinters, StartRun, PlanJobs, RunFatal, EndRun
  <2> QED
    BY <2>1, <2>2, <2>3, <2>4 DEF Next
<1> QED
  BY <1>1, <1>2, PTL DEF Spec

LEMMA TypecheckNeedsNoTypes == ~NeedsTypes(TypecheckConfig)
<1>1. TypecheckConfig.linter = typecheck
  BY DEF TypecheckConfig, WithEnabledByDefault, WithInternal, Fast, WithPresets, NewConfig
<1>2. typecheck.mode = None
  BY DEF typecheck, Reporter
<1> QED
  BY <1>1, <1>2 DEF NeedsTypes, None, TypesInfo

(* Packages are loaded with all that any enabled linter needs, not with    *)
(* types when only fast linters are wanted and no other is enabled by      *)
(* name, and each file that is asked for is in exactly one package.        *)
THEOREM PackagesSufficeCorrect ==
    Spec => [](NoClash /\ NoTestNames(input.tree) => PackagesSuffice)
<1>1. ConfigInv /\ Planned /\ LintedInv /\ PackagesInv =>
         (NoClash /\ NoTestNames(input.tree) => PackagesSuffice)
  <2> SUFFICES ASSUME ConfigInv, Planned, LintedInv, PackagesInv, NoClash, NoTestNames(input.tree),
                      stage = "lint"
               PROVE  PackagesSuffice
    BY DEF PackagesSuffice
  <2>1. stage \in Settled /\ cmd = "run" /\ input \in Inputs
    BY DEF Settled, ConfigInv
  <2>2. WellNamed(Known)
    BY <2>1, NoClashWellNamed
  <2>3. active = Names(Enabled)
    BY <2>1 DEF Planned, Decided, GetEnabledLintersMap, Enabled
  <2>4. Enabled = {lc \in Known : Wanted(lc, cfg)} /\ \A lc \in Enabled : LoadsEnough(lc)
    BY <2>1, <2>2, BuildIsWanted, SettledLinters DEF Enabled, Sound
  <2>5. mode = UNION {lc.loadMode : lc \in Enabled}
    BY DEF LintedInv
  <2>6. TypecheckConfig \in Known
    BY <2>1, SettledLinters, TableOpens DEF Table
  <2>7. ASSUME NEW lc \in Known, lc.name \in active, NeedsTypes(lc)
        PROVE  LoadForAnalysis \subseteq mode
    <3>1. lc \in Enabled
      BY <2>2, <2>3, <2>4, <2>7 DEF Names, WellNamed
    <3>2. LoadForAnalysis \subseteq lc.loadMode
      BY <2>4, <2>7, <3>1 DEF LoadsEnough
    <3> QED
      BY <2>5, <3>1, <3>2
  <2>8. ASSUME cfg.fast, LoadForAnalysis \subseteq mode
        PROVE  \E lc \in Known : NeedsTypes(lc) /\ NamedIn(lc, cfg.enable)
    <3>1. "deps" \in mode
      BY <2>8 DEF LoadForAnalysis
    <3>2. PICK lc \in Enabled : "deps" \in lc.loadMode
      BY <2>5, <3>1
    <3>3. NeedsTypes(lc) /\ lc.slow /\ lc \in Known /\ Wanted(lc, cfg)
      BY <2>4, <3>2 DEF LoadsEnough
    <3>4. lc.name # "typecheck"
      BY <2>2, <2>6, <3>3, TypecheckIsInternal, TypecheckNeedsNoTypes DEF WellNamed
    <3> QED
      BY <2>8, <3>3, <3>4 DEF Wanted
  <2>9. LoadFiles \subseteq mode
    <3>1. TypecheckConfig \in Enabled
      BY <2>4, <2>6, TypecheckIsInternal DEF Wanted
    <3> QED
      BY <2>4, <2>5, <3>1 DEF LoadsEnough
  <2>10. ASSUME NEW f \in FilesAskedFor
         PROVE  Cardinality({p \in pkgs : f \in p.files}) = 1
    <3> DEFINE D == BuildArgs({Args[i] : i \in DOMAIN Args}, input.tree)
    <3>1. D \subseteq input.tree
      BY DEF BuildArgs
    <3>2. DirectoriesApart(D) /\ NoTestNames(D)
      <4>1. DirectoriesApart(input.tree)
        BY <2>1, InputsAssumption
      <4> HIDE DEF D
      <4> QED
        BY <3>1, <4>1 DEF DirectoriesApart, NoTestNames
    <3>3. PICK d \in D : f \in d.files \/ (cfg.tests /\ f \in d.tests \union d.xtests)
      BY DEF FilesAskedFor
    <3>4. pkgs = Kept(UNION {LoadedFrom(e, cfg.tests) : e \in D})
      BY DEF PackagesInv, Loaded
    <3> HIDE DEF D
    <3> QED
      BY <3>2, <3>3, <3>4, OnePackage
  <2> QED
    BY <2>7, <2>8, <2>9, <2>10 DEF PackagesSuffice
<1> QED
  BY <1>1, ConfigInvariant, PlannedHolds, LintedInvariant, PackagesInvariant, PTL
=============================================================================
