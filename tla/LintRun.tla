------------------------------ MODULE LintRun ------------------------------
(***************************************************************************)
(* lint.Runner: the linters run one after the other, what they report goes *)
(* through the processors, and what is left is shown.  A processor that    *)
(* fails is skipped.  The scenarios fix what the linters find.             *)
(***************************************************************************)
EXTENDS IssueProcessors

CONSTANTS
    Scenarios       \* records [cfg, source, linters, finds, hunks, formatted, faults]

FilesystemOf(s) ==
    /\ DOMAIN s.source \subseteq FileNames /\ IsFiniteSet(DOMAIN s.source)
    /\ s.source \in [DOMAIN s.source -> Files]

(* An issue as a linter l reports it.  Its place is in a file that the     *)
(* loader has parsed, perhaps by a name of a //line comment, if the place  *)
(* is in Go code at all.  An error of the type checker has a place and no  *)
(* fix, and only nolintlint says what a directive was to hide.             *)
Reportable(i, l, s) ==
    /\ i.source = <<>> /\ i.expect = None
    /\ i.linter = "typecheck" \/ (i.linter = "" /\ l = "typecheck") => i.path # None /\ i.replacement = None
    /\ i.path # None /\ IsGoFile(i.path) =>
          \/ FileOf(i.path) \in DOMAIN s.source
          \/ \E f \in DOMAIN s.source : s.source[f].parses /\ s.source[f].adjusted = FileOf(i.path) /\ f[3] = ".go"
          \/ i.path.dir = GoCache \/ i.path.base = "_cgo_gotypes"

ASSUME ScenarioAssumption ==
    \A s \in Scenarios :
        /\ FilesystemOf(s)
        /\ s.linters \in Seq(STRING)
        /\ \A k \in DOMAIN s.linters : LET l == s.linters[k] IN
              l \notin {"nolintlint", "gofmt"} \cup s.faults =>
                 s.finds[l] \in Seq(IssueSet) /\ \A j \in DOMAIN s.finds[l] : Reportable(s.finds[l][j], l, s)
        /\ \A f \in DOMAIN s.hunks : s.hunks[f] \in Seq(Hunks)
        /\ s.cfg \in Configs

(* The comments of a file are at different places, each in its group, and  *)
(* a file that has some is not what a //line comment says another Go file  *)
(* was made from.                                                          *)
PlacedDirectives(files) ==
    \A f \in DOMAIN files : LET ds == files[f].directives IN
        /\ \A j, k \in DOMAIN ds : ds[j].line = ds[k].line /\ ds[j].col = ds[k].col => j = k
        /\ \A k \in DOMAIN ds : ds[k].group.from <= ds[k].line /\ ds[k].line <= ds[k].group.to
        /\ ds # <<>> => \A g \in DOMAIN files : files[g].parses /\ g[3] = ".go" => files[g].adjusted # f

(* An enabled linter has a name in lower case, which is no other's.        *)
OwnNames(enabled) ==
    \A n \in enabled :
        Lower(n) = n /\ (n \in DOMAIN LinterConfigs => LinterConfigs[n] \in Seq({n}) \ {<<>>})

ASSUME DirectiveAssumption ==
    \A s \in Scenarios : PlacedDirectives(s.source) /\ OwnNames(s.cfg.enabled)

ASSUME OrderAssumption ==
    /\ \A f \in DOMAIN FileRank : FileRank[f] \in Int
    /\ \A s \in Scenarios : {f \in DOMAIN s.source : s.source[f].parses} \subseteq DOMAIN FileRank
    /\ \A f, g \in DOMAIN FileRank : FileRank[f] = FileRank[g] => f = g
    /\ \A t \in DOMAIN Mark : Mark[t] \in STRING

(* The words of this program's own are strings like any other.             *)
ASSUME WordAssumption ==
    {"", "gofmt", "nolintlint", "not machine", "not specific", "parse error", "unused", "no explanation",
     "not formatted"} \subseteq STRING

VARIABLES
    source,     \* source[f]: the file f
    scenario,   \* what the linters find and what fails
    todo,       \* linters still to run
    issues,
    found,      \* the issues the linters have reported
    unlimited,  \* the issues before the limits
    at,         \* the processor whose turn it is, 0 before all
    skipped,    \* processors that have failed
    unfixed     \* files that could not be replaced

vars == <<source, scenario, todo, issues, found, unlimited, at, skipped, unfixed>>

cfg == scenario.cfg

(* mutant: the texts are excluded before their identifiers are marked.     *)
ProcessorsExcludeFirst ==
    <<"cgo", "filename_unadjuster", "invalid_issue", "path_prettifier", "skip_files", "skip_dirs",
      "autogenerated_exclude", "exclude", "identifier_marker", "exclude_rules", "nolint",
      "uniq_by_line", "diff", "max_per_file_from_linter", "max_same_issues", "max_from_linter",
      "source_code", "severity", "fixer", "path_prefixer", "sort_results">>

Processors ==
    <<"cgo", "filename_unadjuster", "invalid_issue", "path_prettifier", "skip_files", "skip_dirs",
      "autogenerated_exclude", "identifier_marker", "exclude", "exclude_rules", "nolint",
      "uniq_by_line", "diff", "max_per_file_from_linter", "max_same_issues", "max_from_linter",
      "source_code", "severity", "fixer", "path_prefixer", "sort_results">>

Done == Len(Processors) + 1

Init ==
    /\ scenario \in Scenarios
    /\ source = scenario.source /\ todo = scenario.linters
    /\ issues = <<>> /\ found = <<>> /\ unlimited = <<>>
    /\ at = 0 /\ skipped = {} /\ unfixed = {}

-----------------------------------------------------------------------------
(* What a linter reports: nolintlint and the formatters from the files,    *)
(* any other what the scenario says.                                       *)
Reports(l) ==
    LET files == InOrder({f \in DOMAIN source : source[f].parses}, FileRank)
        path(k) == Path(files[k][1], files[k][2], files[k][3])
    IN  CASE l = "nolintlint" ->
               FlattenSeq([k \in DOMAIN files |->
                   RunNolintlint(path(k), source[files[k]].directives, cfg.needs, cfg.allowNoExplanation)])
          [] l = "gofmt" ->
               FlattenSeq([k \in DOMAIN files |->
                   IF files[k] \in DOMAIN scenario.hunks THEN ExtractIssues(l, path(k), scenario.hunks[files[k]]) ELSE <<>>])
          [] OTHER -> scenario.finds[l]

LintStep == at = 0 /\ todo # <<>> /\ todo' = Tail(todo)

RunLinter ==
    /\ LintStep /\ Head(todo) \notin scenario.faults
    /\ issues' = issues \o Map(Reports(Head(todo)), LAMBDA i : IF i.linter = "" THEN [i EXCEPT !.linter = Head(todo)] ELSE i)
    /\ UNCHANGED <<source, scenario, found, unlimited, at, skipped, unfixed>>

(* A linter that fails, or panics: its issues are lost, the next one runs. *)
LinterFails ==
    /\ LintStep /\ Head(todo) \in scenario.faults
    /\ UNCHANGED <<source, scenario, issues, found, unlimited, at, skipped, unfixed>>

(* mutant: processing starts while linters still run.                      *)
StartProcessingEarly ==
    /\ at = 0
    /\ at' = IF issues = <<>> THEN Done ELSE 1
    /\ found' = issues
    /\ UNCHANGED <<source, scenario, todo, issues, unlimited, skipped, unfixed>>

StartProcessing ==
    /\ at = 0 /\ todo = <<>>
    /\ at' = IF issues = <<>> THEN Done ELSE 1
    /\ found' = issues
    /\ UNCHANGED <<source, scenario, todo, issues, unlimited, skipped, unfixed>>

-----------------------------------------------------------------------------
Output(name) ==
    CASE name = "cgo"                      -> Cgo(issues)
      [] name = "filename_unadjuster"      -> FilenameUnadjuster(issues, source)
      [] name = "invalid_issue"            -> InvalidIssue(issues)
      [] name = "path_prettifier"          -> PathPrettifier(issues)
      [] name = "skip_files"               -> SkipFiles(issues, cfg)
      [] name = "skip_dirs"                -> SkipDirs(issues, cfg)
      [] name = "autogenerated_exclude"    -> AutogeneratedExclude(issues, cfg, source)
      [] name = "identifier_marker"        -> IdentifierMarker(issues)
      [] name = "exclude"                  -> Exclude(issues, cfg)
      [] name = "exclude_rules"            -> ExcludeRules(issues, cfg, source)
      [] name = "nolint"                   -> Nolint(issues, source, cfg.enabled)
      [] name = "uniq_by_line"             -> UniqByLine(issues, cfg)
      [] name = "diff"                     -> Diff(issues, cfg)
      [] name = "max_per_file_from_linter" -> MaxPerFileFromLinter(issues, cfg)
      [] name = "max_same_issues"          -> MaxSameIssues(issues, cfg)
      [] name = "max_from_linter"          -> MaxFromLinter(issues, cfg)
      [] name = "source_code"              -> SourceCode(issues, source)
      [] name = "severity"                 -> Severity(issues, cfg, source)
      [] name = "path_prefixer"            -> PathPrefixer(issues, cfg)
      [] name = "sort_results"             -> SortResults(issues, cfg)

Turn(name) == at \in DOMAIN Processors /\ Processors[at] = name

Fails(name) ==
    \/ name = "autogenerated_exclude" /\ AutogeneratedFails(issues, cfg, source)
    \/ name = "diff" /\ cfg.changed # None /\ "diff" \in scenario.faults

Process ==
    /\ at \in DOMAIN Processors /\ ~Turn("fixer") /\ ~Fails(Processors[at])
    /\ issues' = Output(Processors[at])
    /\ unlimited' = IF Turn("uniq_by_line") THEN issues ELSE unlimited
    /\ at' = at + 1
    /\ UNCHANGED <<source, scenario, todo, found, skipped, unfixed>>

SkipProcessor ==
    /\ at \in DOMAIN Processors /\ Fails(Processors[at])
    /\ skipped' = skipped \cup {Processors[at]}
    /\ at' = at + 1
    /\ UNCHANGED <<source, scenario, todo, issues, found, unlimited, unfixed>>

-----------------------------------------------------------------------------
ToFix(f) == Select(issues, LAMBDA i : i.replacement # None /\ FileOf(i.path) = f)
FilesToFix == {f \in DOMAIN source : ToFix(f) # <<>>}

(* A file that cannot be read or created beside keeps its issues; if it is *)
(* the renaming that fails, the array holds something else by then.        *)
StillShown(f) ==
    IF source[f].readable /\ "create" \notin scenario.faults
    THEN Overwritten(ToFix(f), source[f].lines) ELSE ToFix(f)

CannotFix == {f \in FilesToFix : ~source[f].readable \/ scenario.faults \cap {"create", "rename"} # {}}

(* Reading a line that the file does not have would be a panic.            *)
LinesExist(f) ==
    source[f].readable /\ "create" \notin scenario.faults =>
        \A k \in DOMAIN ToFix(f) : ToFix(f)[k].line \in DOMAIN source[f].lines

Fix ==
    /\ Turn("fixer")
    /\ cfg.fix => \A f \in FilesToFix : LinesExist(f)
    /\ IF ~cfg.fix THEN UNCHANGED <<issues, source, unfixed>>
       ELSE /\ \E order \in SetToSeqs(CannotFix) :
                 issues' = Select(issues, LAMBDA i : i.replacement = None)
                           \o FlattenSeq(Map(order, LAMBDA f : StillShown(f)))
            /\ source' = [f \in DOMAIN source |->
                            IF f \in FilesToFix \ CannotFix
                            THEN [source[f] EXCEPT !.lines = FixIssuesInFile(@, ToFix(f))]
                            ELSE source[f]]
            /\ unfixed' = CannotFix
    /\ at' = at + 1
    /\ UNCHANGED <<scenario, todo, found, unlimited, skipped>>

Next == RunLinter \/ LinterFails \/ StartProcessing \/ Process \/ SkipProcessor \/ Fix

Spec == Init /\ [][Next]_vars

-----------------------------------------------------------------------------
Ended == at = Done

TypeOK ==
    /\ todo \in Seq(STRING)
    /\ source \in [DOMAIN scenario.source -> Files]
    /\ issues \in Seq(IssueSet) /\ found \in Seq(IssueSet) /\ unlimited \in Seq(IssueSet)
    /\ at \in 0..Done /\ (at > 0 => todo = <<>>)
    /\ skipped \subseteq {"autogenerated_exclude", "diff"}
    /\ unfixed \subseteq DOMAIN source
    /\ at = 0 \/ issues = <<>> \/ found # <<>>

(* "users expect to see why the project isn't compiling": when the code    *)
(* does not compile, that is shown, and nothing else.                      *)
CompileErrorsShown ==
    Ended /\ (\E k \in DOMAIN found : TypeCheck(found[k])) =>
        issues # <<>> /\ \A k \in DOMAIN issues : TypeCheck(issues[k])

RulesOnPath(i) ==
    \E k \in DOMAIN cfg.excludeRules : LET r == cfg.excludeRules[k] IN
        r.path # None /\ r.source = None /\ RuleMatches(r, i, cfg, source)

(* What is shown passes every filter as the user sees it: the text with    *)
(* its identifiers marked, the real file, the path below the prefix; only  *)
(* a processor that has failed lets through what it should have removed.   *)
ShownPassesFilters ==
    Ended => \A k \in DOMAIN issues : LET i == issues[k] IN
        \/ TypeCheck(i)
        \/ /\ i.text \notin cfg.exclude /\ ~RulesOnPath(i)
           /\ IsGoFile(i.path) \/ IsGoMod(i.path)
           /\ IsGoFile(i.path) => FileOf(i.path) \in DOMAIN source
           /\ <<cfg.prefix, i.path.dir, i.path.base>> \notin cfg.excludeFiles
           /\ <<cfg.prefix, i.path.dir>> \in cfg.excludeDirs => i.path.dir \in cfg.args
           /\ "autogenerated_exclude" \notin skipped /\ cfg.generated # "disable" /\ IsGoFile(i.path)
                 => ~Generated(cfg, source[FileOf(i.path)])

(* An unused directive is one that can go, and one that hides nothing is   *)
(* called unused.                                                          *)
UnusedIsHarmless == Turn("nolint") => RemovalIsHarmless(issues, source, cfg.enabled)
UnusedIsReported == Turn("nolint") => UnusedAreReported(issues, source, cfg.enabled)

(* "we need to fix all issues at once": no limit takes away a fix.         *)
FixesSurviveLimits ==
    Turn("fixer") /\ cfg.fix /\ cfg.changed = None =>
        \A k \in DOMAIN unlimited : unlimited[k].replacement # None =>
            \E j \in DOMAIN issues : [issues[j] EXCEPT !.source = <<>>, !.severity = unlimited[k].severity] = unlimited[k]

(* The line with all its inline fixes, column by column.                   *)
Spelled(line, fixes) ==
    LET here(p) == {i \in fixes : i.replacement.inline.start = p - 1}
        covered(p) == \E i \in fixes : LET x == i.replacement.inline IN x.start < p /\ p <= x.start + x.len
        piece(p) == IF here(p) # {} THEN (CHOOSE i \in here(p) : TRUE).replacement.inline.new
                    ELSE IF covered(p) THEN <<>> ELSE <<line[p]>>
    IN  FlattenSeq([p \in DOMAIN line |-> piece(p)])

Fit(line, fixes) ==
    /\ \A i \in fixes : i.replacement.inline.start + i.replacement.inline.len <= Len(line)
    /\ \A i, j \in fixes : LET x == i.replacement.inline
                               y == j.replacement.inline
                           IN  i = j \/ x.start + x.len <= y.start \/ y.start + y.len <= x.start

(* A file on which a formatter alone asks for changes is formatted         *)
(* afterwards, and one with spelling mistakes alone has none.              *)
FixedAsAsked ==
    Ended /\ cfg.fix /\ unfixed = {} /\ cfg.changed = None =>
        \A f \in DOMAIN source :
            LET asked == {i \in Range(unlimited) : i.replacement # None /\ FileOf(i.path) = f}
                onLine(n) == {i \in asked : i.line = n}
            IN  /\ (\A i \in asked : i.linter = "gofmt") /\ f \in DOMAIN scenario.formatted =>
                      source[f].lines = scenario.formatted[f]
                /\ (\A i \in asked : i.linter = "misspell") /\ asked # {} =>
                      source[f].lines = [n \in DOMAIN scenario.source[f].lines |->
                         LET line == scenario.source[f].lines[n]
                         IN  IF Fit(line, onLine(n)) THEN Spelled(line, onLine(n)) ELSE line]

(* "Fix found issues (if it's supported by the linter)": a line of a fixed *)
(* file is a line of the file as it was, or what some fix has put there.   *)
FixesOnly ==
    Ended /\ cfg.fix => \A f \in DOMAIN source :
        LET old == scenario.source[f].lines
            asked == {i \in Range(unlimited) : i.replacement # None /\ FileOf(i.path) = f}
            onLine(n) == {i \in asked : i.line = n /\ i.replacement.inline # None}
        IN  \A n \in DOMAIN source[f].lines : LET line == source[f].lines[n] IN
              \/ line \in {old[m] : m \in 1..(Len(old) - 1)} \/ n = Len(source[f].lines)
              \/ \E i \in asked : line \in Range(i.replacement.lines)
              \/ \E m \in DOMAIN old : \E fixes \in SUBSET onLine(m) \ {{}} : line = Spelled(old[m], fixes)
=============================================================================
