----------------------------- MODULE MCLintRun -----------------------------
EXTENDS LintRun

A == <<"pkg", "a", ".go">>
B == <<"pkg", "b", ".go">>          \* does not parse
Strict == <<"pkg", "strict", ".go">>
Lax == <<"pkg", "lax", ".go">>
Vendored == <<"vendor", "v", ".go">>
Template == <<"pkg", "t", ".qtpl">>
Mod == <<"pkg", "go", ".mod">>

MCFileRank == A :> 1 @@ B :> 2 @@ Strict :> 3 @@ Lax :> 4 @@ Vendored :> 5 @@ Mod :> 6
MCNameRank == "" :> 0 @@ "custom" :> 1 @@ "gofmt" :> 2 @@ "l1" :> 3 @@ "l2" :> 4 @@ "misspell" :> 5
              @@ "nolintlint" :> 6 @@ "typecheck" :> 7 @@ "unused" :> 8
MCLowerCase == "L1" :> "l1"
MCLinterConfigs == "l1" :> <<"l1">> @@ "l2" :> <<"l2">> @@ "both" :> <<"l1", "l2">> @@ "nolintlint" :> <<"nolintlint">>
MCMark == "raw" :> "marked"

At(f) == Path(f[1], f[2], f[3])
Text == << <<"x", "y", "z">>, <<"u", "v">>, <<"w">>, <<>> >>
File(lines) ==
    [readable |-> TRUE, parses |-> TRUE, markers |-> {}, adjusted |-> None, lines |-> lines, directives |-> <<>>, nodes |-> <<>>]

DefaultCfg ==
    [prefix |-> "", excludeFiles |-> {}, excludeDirs |-> {}, defaultDirs |-> TRUE, args |-> {"pkg"},
     generated |-> "lax", exclude |-> {}, excludeRules |-> <<>>, severityRules |-> <<>>, severity |-> "",
     enabled |-> {"l1", "l2", "nolintlint"}, needs |-> {"unused"}, allowNoExplanation |-> {},
     uniqByLine |-> TRUE, changed |-> None, fix |-> FALSE, maxSame |-> 3, maxLinter |-> 50,
     sort |-> TRUE, sortOrder |-> <<>>]

Rule == [text |-> None, source |-> None, path |-> None, pathExcept |-> None, linters |-> {}, severity |-> ""]

Scenario(cfg_, source_, linters, finds) ==
    [cfg |-> cfg_, source |-> source_, linters |-> linters, finds |-> finds,
     hunks |-> [f \in {} |-> <<>>], formatted |-> [f \in {} |-> <<>>], faults |-> {}]

SeqsUpTo(S, n) == UNION {[1..k -> S] : k \in 0..n}

-----------------------------------------------------------------------------
(* Issues at all kinds of places, and configurations that filter them.     *)
SomeFiles ==
    A :> [File(Text) EXCEPT !.adjusted = Template] @@ B :> [File(Text) EXCEPT !.parses = FALSE]
    @@ Strict :> [File(Text) EXCEPT !.markers = {"strict"}] @@ Lax :> [File(Text) EXCEPT !.markers = {"lax"}]
    @@ Vendored :> File(Text)

SomePlaces ==
    {Issue("l1", At(A), 1, "raw"), Issue("", At(A), 2, "t"), Issue("l1", At(Mod), 1, "t"),
     Issue("l2", [At(Template) EXCEPT !.abs = TRUE], 3, "t"), Issue("l2", At(<<"pkg", "other", ".y">>), 1, "t"),
     Issue("l1", [At(<<"gocache", "a", ".go">>) EXCEPT !.abs = TRUE], 1, "t"), Issue("l1", None, 0, "t"),
     Issue("l1", [At(Vendored) EXCEPT !.abs = TRUE], 1, "t"), Issue("l2", At(Strict), 1, "t"),
     Issue("l2", At(Lax), 1, "t"), Issue("typecheck", At(Strict), 2, "t"), Issue("l1", At(B), 1, "t")}

FilterCfgs ==
    {DefaultCfg, [DefaultCfg EXCEPT !.generated = "strict"], [DefaultCfg EXCEPT !.generated = "disable"],
     [DefaultCfg EXCEPT !.prefix = "sub", !.excludeFiles = {<<"sub", "pkg", "a">>}],
     [DefaultCfg EXCEPT !.exclude = {"marked"}, !.defaultDirs = FALSE],
     [DefaultCfg EXCEPT !.prefix = "sub", !.args = {}, !.excludeDirs = {<<"sub", "pkg">>}],
     [DefaultCfg EXCEPT !.excludeRules = <<[Rule EXCEPT !.path = {<<"sub", "pkg", "a">>}, !.linters = {"l1"}]>>, !.prefix = "sub"],
     [DefaultCfg EXCEPT !.excludeRules = <<[Rule EXCEPT !.source = {<<"u", "v">>}, !.text = {"t"}], Rule>>,
                        !.severity = "@linter", !.severityRules = <<[Rule EXCEPT !.linters = {"l2"}, !.severity = "high"]>>,
                        !.sortOrder = <<"severity", "linter", "file">>],
     [DefaultCfg EXCEPT !.excludeRules = <<[Rule EXCEPT !.pathExcept = {<<"", "pkg", "a">>}, !.text = {"t"}]>>],
     [DefaultCfg EXCEPT !.changed = {<<A, 1>>, <<Lax, 1>>}, !.severity = "custom"]}

Filters ==
    {[Scenario(g, SomeFiles, <<"l1">>, "l1" :> s) EXCEPT !.faults = e] :
        g \in FilterCfgs, s \in SeqsUpTo(SomePlaces, 2), e \in {{}, {"diff"}}}

(* Linters that fail.                                                      *)
Failures ==
    {[Scenario(DefaultCfg, SomeFiles, ls, [l \in {"l1", "unused"} |-> <<Issue("", At(A), 1, l)>>]) EXCEPT !.faults = e] :
        ls \in {<<"l1", "unused">>, <<"unused", "l1">>}, e \in SUBSET {"l1", "unused"}}

-----------------------------------------------------------------------------
(* One or two directives, above a block and beside a line of it.           *)
Directive(line, col, names) ==
    [line |-> line, col |-> col, length |-> 9, spaces |-> 0, full |-> TRUE, names |-> names, explained |-> FALSE,
     group |-> [from |-> line, to |-> line, col |-> col]]

Names == {<<>>, <<"l1">>, <<"L1">>, <<"l2", "l1">>, <<"both">>, <<"nolintlint">>, <<"unknown">>, <<"l1", "nolintlint">>}

SomeDirectives ==
    {<<d>> : d \in {Directive(1, 1, n) : n \in Names} \cup {Directive(2, 9, n) : n \in Names}}
    \cup {<<Directive(1, 1, n), Directive(2, 9, o)>> : n \in Names, o \in Names}
    \cup {<<[Directive(2, 9, <<"l1">>) EXCEPT !.full = FALSE, !.spaces = 1]>>}

Nodes == <<[from |-> 1, to |-> 4, col |-> 1], [from |-> 2, to |-> 3, col |-> 1], [from |-> 3, to |-> 3, col |-> 5]>>

Hidden == {s \in SUBSET {Issue(l, At(A), n, "t") : l \in {"l1", "l2"}, n \in 2..4} : Cardinality(s) <= 2}

Nolints ==
    {Scenario([DefaultCfg EXCEPT !.enabled = e, !.needs = IF e = {"l1", "nolintlint"} THEN {"unused", "specific", "explanation"} ELSE @],
              A :> [File(Text) EXCEPT !.directives = d, !.nodes = Nodes],
              <<"nolintlint", "l1">>, "l1" :> SetToSeq(s)) :
        e \in {{"l1", "l2", "nolintlint"}, {"l1", "nolintlint"}}, d \in SomeDirectives, s \in Hidden}

(* Two directives in one group of comments, above a block: the first alone *)
(* is extended to it.                                                      *)
Groups ==
    {Scenario([DefaultCfg EXCEPT !.enabled = {"l1", "l2", "nolintlint"}],
              A :> [File(Text) EXCEPT
                      !.directives = [n \in 1..2 |-> [Directive(n, 1, <<ns[n]>>) EXCEPT
                                                        !.group = [from |-> 1, to |-> 2, col |-> 1]]],
                      !.nodes = <<[from |-> 3, to |-> 4, col |-> 1]>>],
              <<"nolintlint", "l1">>, "l1" :> SetToSeq(s)) :
        ns \in [1..2 -> {"l1", "l2", "both"}], s \in Hidden}

-----------------------------------------------------------------------------
Repeated ==
    {Issue("l1", At(A), 1, "t"), Issue("l2", At(A), 1, "t"), Issue("gofmt", At(A), 2, "g"),
     [Issue("l1", At(A), 1, "t") EXCEPT !.replacement = Inline(0, 1, <<"s">>)], Issue("l1", At(A), 3, "u")}

Limits ==
    {Scenario([DefaultCfg EXCEPT !.uniqByLine = u, !.maxSame = m, !.maxLinter = n, !.fix = x],
              A :> File(Text), <<"l1">>, "l1" :> s) :
        u \in BOOLEAN, m \in 0..1, n \in {0, 2}, x \in BOOLEAN, s \in [1..3 -> Repeated]}

(* Spelling mistakes on one line, and a file that cannot be replaced.      *)
Mistakes ==
    {[Issue("misspell", At(A), 1, "t") EXCEPT !.replacement = Inline(x[1], x[2], <<"n">>)] :
        x \in {<<0, 1>>, <<0, 2>>, <<1, 1>>, <<1, 2>>, <<2, 1>>, <<2, 2>>}}
    \cup {[Issue("misspell", At(A), 2, "t") EXCEPT !.replacement = Inline(0, 1, <<>>)]}

FixCfg == [DefaultCfg EXCEPT !.fix = TRUE]

Spelling ==
    {[Scenario(FixCfg, A :> [File(Text) EXCEPT !.readable = r], <<"l1">>, "l1" :> s) EXCEPT !.faults = e] :
        r \in BOOLEAN, s \in {q \in SeqsUpTo(Mistakes, 3) : IsInjective(q)}, e \in {{}, {"create"}, {"rename"}}}

(* Every way to format a small file: lines that go, lines that come.       *)
Lines(n) == SubSeq(<< <<"p">>, <<"q">>, <<"r">> >>, 1, n)
Body(n, gone, come) ==
    FlattenSeq([k \in 1..(n + 1) |->
        (IF k \in come THEN <<[kind |-> "add", data |-> <<"n", "e", "w">>]>> ELSE <<>>)
        \o (IF k = n + 1 THEN <<>>
            ELSE <<[kind |-> IF k \in gone THEN "del" ELSE "orig", data |-> Lines(n)[k]]>>)])

Formats ==
    {LET body == Body(n, gone, come)
         stay == SelectSeq(body, LAMBDA b : b.kind # "del")
         file(eof) == File(Lines(n) \o eof)
     IN  [Scenario(FixCfg, A :> file(IF noEol THEN <<>> ELSE << <<>> >>), <<"gofmt">>, [l \in {} |-> <<>>])
            EXCEPT !.hunks = A :> <<[start |-> 1, body |-> body, noEol |-> noEol]>>,
                   !.formatted = A :> (Map(stay, LAMBDA b : b.data) \o << <<>> >>)] :
        <<n, gone, come, noEol>> \in
            {x \in (1..3) \X (SUBSET (1..3)) \X (SUBSET (1..4)) \X BOOLEAN :
                x[2] \subseteq 1..x[1] /\ x[3] \subseteq 1..(x[1] + 1) /\ (x[4] => x[1] \in x[2])}}

(* A spelling mistake on a line that is also reformatted with the next.    *)
Mixed ==
    {[Scenario(FixCfg, A :> File(Lines(2) \o << <<>> >>), order,
               "l1" :> <<[Issue("misspell", At(A), n, "t") EXCEPT !.replacement = Inline(0, 1, <<"n">>)]>>)
        EXCEPT !.hunks = A :> <<[start |-> 1, body |-> Body(2, {1, 2}, {3}), noEol |-> FALSE]>>] :
        order \in {<<"l1", "gofmt">>, <<"gofmt", "l1">>}, n \in 1..2}

MCScenarios == Filters \cup Failures \cup Nolints \cup Groups \cup Limits \cup Spelling \cup Formats \cup Mixed
=============================================================================
