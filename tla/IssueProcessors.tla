-------------------------- MODULE IssueProcessors --------------------------
(***************************************************************************)
(* The processors that filter and change the issues before they are shown, *)
(* each as an operator on the list.  c is the configuration, source the    *)
(* files.  A regular expression is the set of what it matches: texts,      *)
(* lines, or paths as the user sees them, <<prefix, dir, base>>.           *)
(***************************************************************************)
EXTENDS FormatDiff, NolintDirectives

CONSTANTS
    GoCache,        \* the directory of the build cache
    DefaultDirs,    \* directories excluded unless the configuration says no
    FileRank,       \* FileRank[f]: the place of the file f in the order of names
    NameRank,       \* NameRank[s]: the place of a linter or a severity in that order
    Mark            \* Mark[t]: the text t with its identifiers marked, if it has some

Rules ==
    [text : {None} \cup SUBSET STRING, source : {None} \cup SUBSET Chars, linters : SUBSET STRING,
     path : {None} \cup SUBSET FileNames, pathExcept : {None} \cup SUBSET FileNames, severity : STRING]

Configs ==
    [prefix : STRING, excludeFiles : SUBSET FileNames, excludeDirs : SUBSET (STRING \X STRING),
     defaultDirs : BOOLEAN, args : SUBSET STRING, generated : {"lax", "strict", "disable"},
     exclude : SUBSET STRING, excludeRules : Seq(Rules), severityRules : Seq(Rules), severity : STRING,
     enabled : SUBSET STRING, needs : SUBSET {"unused", "specific", "explanation"},
     allowNoExplanation : SUBSET STRING, uniqByLine : BOOLEAN, fix : BOOLEAN,
     changed : {None} \cup SUBSET (FileNames \X Int), maxSame : Int, maxLinter : Int,
     sort : BOOLEAN, sortOrder : Seq({"linter", "severity", "file"})]

-----------------------------------------------------------------------------
Cgo(issues) ==
    Filter(issues, LAMBDA i : i.path = None \/ (i.path.dir # GoCache /\ i.path.base # "_cgo_gotypes"))

(* An issue at a name that a //line comment made up goes back to the Go    *)
(* file, at the place its offset tells.                                    *)
FilenameUnadjuster(issues, source) ==
    LET origin(i) == {f \in DOMAIN source :
                         source[f].parses /\ source[f].adjusted = FileOf(i.path) /\ f[3] = ".go"}
        unadjust(i) ==
            IF i.path = None \/ origin(i) = {} THEN i
            ELSE LET f == CHOOSE f \in origin(i) : TRUE
                 IN  [i EXCEPT !.path = [Path(f[1], f[2], f[3]) EXCEPT !.abs = TRUE], 
                                !.line = Max({i.offset, 1})]
    IN  Map(issues, unadjust)

(* mutant: the errors of the type checker are only put first.              *)
InvalidIssueShowsAll(issues) ==
    Select(issues, TypeCheck) \o Select(issues, LAMBDA i : ~TypeCheck(i) /\ i.path # None /\ IsGoFile(i.path))

(* If the code does not compile, nothing but that is shown.                *)
InvalidIssue(issues) ==
    LET errors == Select(issues, TypeCheck)
    IN  IF errors # <<>> THEN errors
        ELSE Filter(issues, LAMBDA i : i.path # None /\ (IsGoMod(i.path) \/ IsGoFile(i.path)))

PathPrettifier(issues) ==
    Map(issues, LAMBDA i : IF i.path = None THEN i ELSE [i EXCEPT !.path.abs = FALSE])

WithPathPrefix(c, path) == <<c.prefix, path.dir, path.base>>

SkipFiles(issues, c) ==
    Filter(issues, LAMBDA i : WithPathPrefix(c, i.path) \notin c.excludeFiles)

(* Directories the user has named are never skipped. *)
SkipDirs(issues, c) ==
    LET skipped(dir) ==
            /\ dir \notin c.args
            /\ <<c.prefix, dir>> \in c.excludeDirs \/ (c.defaultDirs /\ dir \in DefaultDirs)
    IN  Filter(issues, LAMBDA i : i.path.abs \/ ~skipped(i.path.dir))

(* The strict comment has to come before the package clause; the lax one   *)
(* may say it in other words.                                              *)
Generated(c, file) ==
    IF c.generated = "strict" THEN "strict" \in file.markers ELSE file.markers # {}

Unparsed(issues, source) ==
    \E k \in DOMAIN issues : LET i == issues[k] IN
        ~TypeCheck(i) /\ ~IsGoMod(i.path) /\ ~FileAt(source, i.path).parses

AutogeneratedExclude(issues, c, source) ==
    IF c.generated = "disable" THEN issues
    ELSE Filter(issues, LAMBDA i : IsGoMod(i.path) \/ ~Generated(c, FileAt(source, i.path)))

AutogeneratedFails(issues, c, source) == c.generated # "disable" /\ Unparsed(issues, source)

IdentifierMarker(issues) ==
    Map(issues, LAMBDA i : [i EXCEPT !.text = IF @ \in DOMAIN Mark THEN Mark[@] ELSE @])

Exclude(issues, c) == Filter(issues, LAMBDA i : i.text \notin c.exclude)

-----------------------------------------------------------------------------
(* Rules: a condition is None, or the set of what it matches.              *)

EmptyRule(r) ==
    r.text = None /\ r.source = None /\ r.path = None /\ r.pathExcept = None /\ r.linters = {}

(* LineCache: line 0 is the first, and a line that is not there an error.  *)
HasLine(file, n) == file.readable /\ Max({n, 1}) <= Len(file.lines) /\ n >= 0
GetLine(file, n) == file.lines[Max({n, 1})]

RuleMatches(r, i, c, source) ==
    /\ ~EmptyRule(r)
    /\ r.text = None \/ i.text \in r.text
    /\ r.path = None \/ WithPathPrefix(c, i.path) \in r.path
    /\ r.pathExcept = None \/ <<"", i.path.dir, i.path.base>> \notin r.pathExcept
    /\ r.linters = {} \/ i.linter \in r.linters
    /\ \/ r.source = None
       \/ LET file == FileAt(source, i.path) IN HasLine(file, i.line) /\ GetLine(file, i.line) \in r.source

ExcludeRules(issues, c, source) ==
    Filter(issues, LAMBDA i : \A k \in DOMAIN c.excludeRules : ~RuleMatches(c.excludeRules[k], i, c, source))

(* The first rule that matches decides; "@linter" keeps what the linter    *)
(* has said.                                                               *)
Severity(issues, c, source) ==
    LET rules(i) == {k \in DOMAIN c.severityRules : RuleMatches(c.severityRules[k], i, c, source)}
        given(i) ==
            IF rules(i) = {} THEN c.severity
            ELSE LET s == c.severityRules[Min(rules(i))].severity IN IF s = "" THEN c.severity ELSE s
    IN  IF c.severityRules = <<>> /\ c.severity = "" THEN issues
        ELSE Map(issues, LAMBDA i : IF given(i) = "@linter" THEN i ELSE [i EXCEPT !.severity = given(i)])

-----------------------------------------------------------------------------
(* Limits: an issue that will be fixed neither counts nor is hidden.       *)

ToBeFixed(i, c) == i.replacement # None /\ c.fix

Before(issues, k, Same(_)) == Cardinality({j \in 1..(k - 1) : Same(issues[j])})

(* mutant: an issue that will be fixed hides behind another on its line.   *)
UniqByLineOfAll(issues, c) ==
    IF ~c.uniqByLine THEN issues
    ELSE FilterAt(issues, LAMBDA k : Before(issues, k, LAMBDA j : FileOf(j.path) = FileOf(issues[k].path)
                                                                 /\ j.line = issues[k].line) = 0)

UniqByLine(issues, c) ==
    IF ~c.uniqByLine THEN issues
    ELSE FilterAt(issues, LAMBDA k :
            \/ ToBeFixed(issues[k], c)
            \/ Before(issues, k, LAMBDA j : ~ToBeFixed(j, c) /\ FileOf(j.path) = FileOf(issues[k].path)
                                            /\ j.line = issues[k].line) = 0)

(* revgrep: an issue is new if its line is one of the changed lines.       *)
Diff(issues, c) ==
    IF c.changed = None THEN issues
    ELSE Filter(issues, LAMBDA i : <<FileOf(i.path), i.line>> \in c.changed)

MaxPerFileFromLinter(issues, c) ==
    FilterAt(issues, LAMBDA k :
        \/ c.fix \/ issues[k].linter \notin {"gofmt", "goimports"}
        \/ Before(issues, k, LAMBDA j : j.linter = issues[k].linter /\ FileOf(j.path) = FileOf(issues[k].path)) = 0)

MaxSameIssues(issues, c) ==
    IF c.maxSame <= 0 THEN issues
    ELSE FilterAt(issues, LAMBDA k :
            \/ ToBeFixed(issues[k], c)
            \/ Before(issues, k, LAMBDA j : ~ToBeFixed(j, c) /\ j.text = issues[k].text) < c.maxSame)

MaxFromLinter(issues, c) ==
    IF c.maxLinter <= 0 THEN issues
    ELSE FilterAt(issues, LAMBDA k :
            \/ ToBeFixed(issues[k], c)
            \/ Before(issues, k, LAMBDA j : ~ToBeFixed(j, c) /\ j.linter = issues[k].linter) < c.maxLinter)

(* All lines of the issue, or none if one of them cannot be read. *)
SourceCode(issues, source) ==
    LET lines(i) == LineRange(i).from..LineRange(i).to
        shown(i) ==
            LET file == FileAt(source, i.path)
            IN  IF \A n \in lines(i) : HasLine(file, n)
                THEN [i EXCEPT !.source = [n \in 1..Cardinality(lines(i)) |-> GetLine(file, LineRange(i).from + n - 1)]]
                ELSE i
    IN  Map(issues, shown)

PathPrefixer(issues, c) ==
    Map(issues, LAMBDA i : [i EXCEPT !.path.pre = c.prefix # ""])

-----------------------------------------------------------------------------
(* Sorting.                                                                *)

Sign(a, b) == IF a < b THEN -1 ELSE IF a = b THEN 0 ELSE 1

(* What is not positive is neutral. *)
NumericCompare(a, b) == IF a <= 0 \/ b <= 0 THEN 0 ELSE Sign(a, b)

Classic == <<"low", "medium", "high", "warning", "error">>
SeverityRank(s) == Max({0} \cup {k \in DOMAIN Classic : Classic[k] = s})
SeverityCompare(a, b) ==
    IF SeverityRank(a) = 0 /\ SeverityRank(b) = 0
    THEN Sign(NameRank[a], NameRank[b])
    ELSE Sign(SeverityRank(a), SeverityRank(b))

CompareBy(order, a, b) ==
    CASE order = "linter"   -> <<Sign(NameRank[a.linter], NameRank[b.linter])>>
      [] order = "severity" -> <<SeverityCompare(a.severity, b.severity)>>
      [] order = "file"     -> <<Sign(FileRank[FileOf(a.path)], FileRank[FileOf(b.path)]),
                                 NumericCompare(a.line, b.line), NumericCompare(a.col, b.col)>>

(* The first comparison that tells a from b.                               *)
Compare(a, b, c) ==
    LET orders == IF c.sortOrder = <<>> THEN <<"file">> ELSE c.sortOrder
        results == SelectSeq(FlattenSeq(Map(orders, LAMBDA o : CompareBy(o, a, b))), LAMBDA r : r # 0)
    IN  IF results = <<>> THEN 0 ELSE results[1]

(* Insertion from the left, as slices.SortFunc does for a dozen elements:  *)
(* x moves down past what is greater.                                      *)
SortResults(issues, c) ==
    LET insert(sorted, x) ==
            InsertAt(sorted, 1 + Max({0} \cup {k \in DOMAIN sorted : Compare(x, sorted[k], c) >= 0}), x)
    IN  IF ~c.sort THEN issues
        ELSE Loop(LAMBDA sorted, k : insert(sorted, issues[k]), <<>>, Len(issues))
=============================================================================
