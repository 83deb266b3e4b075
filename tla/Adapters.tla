------------------------------ MODULE Adapters ------------------------------
(***************************************************************************)
(* pkg/golinters: what each adapter hands to the linter database.  An      *)
(* adapter wraps analyzers in a goanalysis.Linter; here it is the name,    *)
(* the load mode its analyzers need (goanalysis.LoadMode), whether it      *)
(* collects issues of its own under a mutex and reports them after the     *)
(* passes (an issuesReporter) or lets the passes report, and what happens  *)
(* when its settings are bad.  Its settings and its issues are left out.   *)
(***************************************************************************)
EXTENDS Naturals

None == 0
Syntax == 1
TypesInfo == 2
WholeProgram == 3

(* goanalysis.NewLinter(...).WithLoadMode(mode)                            *)
Reporter(name, mode) ==
    [name |-> name, goanalysis |-> TRUE, mode |-> mode,
     collects |-> FALSE, onBadSettings |-> "ignored"]

(* ... .WithIssuesReporter(func ...)                                       *)
Collector(name, mode) == [Reporter(name, mode) EXCEPT !.collects = TRUE]

(* Bad settings end the process while the table of linters is built,       *)
(* whether the linter is enabled or not.                                   *)
FatalInNew(l) == [l EXCEPT !.onBadSettings = "fatalNew"]
(* Bad settings end the process when the enabled linter is set up.         *)
FatalInSetUp(l) == [l EXCEPT !.onBadSettings = "fatalSetUp"]
(* An error is logged and the analyzer is left as it was, often a dummy.   *)
LogsError(l) == [l EXCEPT !.onBadSettings = "error"]
(* Only a warning is logged.                                               *)
LogsWarning(l) == [l EXCEPT !.onBadSettings = "warning"]
(* Linter.configure fails: neither it nor the metalinter it is in starts.  *)
FailsPreRun(l) == [l EXCEPT !.onBadSettings = "preRun"]
(* Every pass of the analyzer returns the error.                           *)
FailsInPass(l) == [l EXCEPT !.onBadSettings = "pass"]

asasalint                 == FatalInNew(Reporter("asasalint", TypesInfo))
asciicheck                == Reporter("asciicheck", Syntax)
bidichk                   == Reporter("bidichk", Syntax)
bodyclose                 == Reporter("bodyclose", TypesInfo)
canonicalheader           == Reporter("canonicalheader", TypesInfo)
containedctx              == Reporter("containedctx", TypesInfo)
contextcheck              == Reporter("contextcheck", TypesInfo)
copyloopvar               == Reporter("copyloopvar", Syntax)
cyclop                    == Reporter("cyclop", Syntax)
decorder                  == Reporter("decorder", Syntax)
depguard                  == LogsError(Reporter("depguard", Syntax))
dogsled                   == Collector("dogsled", Syntax)
dupl                      == Collector("dupl", Syntax)
dupword                   == Reporter("dupword", Syntax)
durationcheck             == Reporter("durationcheck", TypesInfo)
errcheck                  == LogsError(Collector("errcheck", TypesInfo))
errchkjson                == Reporter("errchkjson", TypesInfo)
errname                   == Reporter("errname", TypesInfo)
errorlint                 == Reporter("errorlint", TypesInfo)
exhaustive                == Reporter("exhaustive", TypesInfo)
exhaustruct               == FatalInNew(Reporter("exhaustruct", TypesInfo))
exportloopref             == Reporter("exportloopref", TypesInfo)
forbidigo                 == FailsInPass(Collector("forbidigo", TypesInfo))
forcetypeassert           == Reporter("forcetypeassert", Syntax)
fatcontext                == Reporter("fatcontext", TypesInfo)
funlen                    == Collector("funlen", Syntax)
gci                       == FatalInNew(Collector("gci", Syntax))
ginkgolinter              == Reporter("ginkgolinter", TypesInfo)
gocheckcompilerdirectives == Reporter("gocheckcompilerdirectives", Syntax)
gochecknoglobals          == Reporter("gochecknoglobals", TypesInfo)
gochecknoinits            == Collector("gochecknoinits", Syntax)
gochecksumtype            == Collector("gochecksumtype", TypesInfo)
gocognit                  == Collector("gocognit", Syntax)
goconst                   == Collector("goconst", Syntax)
gocritic                  == FatalInSetUp(Collector("gocritic", TypesInfo))
gocyclo                   == Collector("gocyclo", Syntax)
godot                     == Collector("godot", Syntax)
godox                     == Collector("godox", Syntax)
err113                    == Reporter("err113", TypesInfo)
gofmt                     == Collector("gofmt", Syntax)
gofumpt                   == Collector("gofumpt", Syntax)
goheader                  == FailsInPass(Collector("goheader", Syntax))
goimports                 == Collector("goimports", Syntax)
mnd                       == Reporter("mnd", Syntax)
gomoddirectives           == FatalInNew(Collector("gomoddirectives", Syntax))
gomodguard                == LogsWarning(Collector("gomodguard", Syntax))
goprintffuncname          == Reporter("goprintffuncname", Syntax)
gosec                     == Collector("gosec", TypesInfo)
gosimple                  == Reporter("gosimple", TypesInfo)
gosmopolitan              == Reporter("gosmopolitan", TypesInfo)
govet                     == FailsPreRun(Reporter("govet", TypesInfo))
grouper                   == Reporter("grouper", Syntax)
iface                     == FailsPreRun(Reporter("iface", TypesInfo))
importas                  == LogsError(Reporter("importas", TypesInfo))
inamedparam               == Reporter("inamedparam", Syntax)
ineffassign               == Reporter("ineffassign", Syntax)
interfacebloat            == Reporter("interfacebloat", Syntax)
intrange                  == Reporter("intrange", TypesInfo)
ireturn                   == Reporter("ireturn", TypesInfo)
lll                       == Collector("lll", Syntax)
loggercheck               == Reporter("loggercheck", TypesInfo)
maintidx                  == Reporter("maintidx", Syntax)
makezero                  == Collector("makezero", TypesInfo)
mirror                    == Collector("mirror", TypesInfo)
misspell                  == FailsInPass(Collector("misspell", Syntax))
musttag                   == Reporter("musttag", TypesInfo)
nakedret                  == Reporter("nakedret", Syntax)
nestif                    == Collector("nestif", Syntax)
nilerr                    == Reporter("nilerr", TypesInfo)
nilnil                    == Reporter("nilnil", TypesInfo)
nlreturn                  == Reporter("nlreturn", Syntax)
noctx                     == Reporter("noctx", TypesInfo)
nonamedreturns            == Reporter("nonamedreturns", TypesInfo)
nosprintfhostport         == Reporter("nosprintfhostport", Syntax)
paralleltest              == Reporter("paralleltest", TypesInfo)
perfsprint                == Reporter("perfsprint", TypesInfo)
prealloc                  == Collector("prealloc", Syntax)
predeclared               == Reporter("predeclared", Syntax)
promlinter                == Collector("promlinter", Syntax)
protogetter               == Collector("protogetter", TypesInfo)
reassign                  == Reporter("reassign", TypesInfo)
recvcheck                 == Reporter("recvcheck", TypesInfo)
revive                    == LogsError(Collector("revive", Syntax))
rowserrcheck              == Reporter("rowserrcheck", TypesInfo)
sloglint                  == Reporter("sloglint", TypesInfo)
sqlclosecheck             == Reporter("sqlclosecheck", TypesInfo)
spancheck                 == Reporter("spancheck", TypesInfo)
staticcheck               == Reporter("staticcheck", TypesInfo)
stylecheck                == Reporter("stylecheck", TypesInfo)
tagalign                  == Collector("tagalign", Syntax)
tagliatelle               == Reporter("tagliatelle", TypesInfo)
tenv                      == Reporter("tenv", TypesInfo)
testableexamples          == Reporter("testableexamples", Syntax)
testifylint               == Reporter("testifylint", TypesInfo)
testpackage               == Reporter("testpackage", Syntax)
thelper                   == FatalInNew(Reporter("thelper", TypesInfo))
tparallel                 == Reporter("tparallel", TypesInfo)
typecheck                 == Reporter("typecheck", None)
unconvert                 == Collector("unconvert", TypesInfo)
unparam                   == Collector("unparam", TypesInfo)
unused                    == Collector("unused", TypesInfo)
usestdlibvars             == Reporter("usestdlibvars", Syntax)
usetesting                == Reporter("usetesting", TypesInfo)
varnamelen                == Reporter("varnamelen", TypesInfo)
wastedassign              == Reporter("wastedassign", TypesInfo)
whitespace                == Collector("whitespace", Syntax)
wrapcheck                 == Reporter("wrapcheck", TypesInfo)
wsl                       == Reporter("wsl", Syntax)
zerologlint               == Reporter("zerologlint", TypesInfo)
nolintlint                == Collector("nolintlint", Syntax)
=============================================================================
