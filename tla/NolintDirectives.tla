-------------------------- MODULE NolintDirectives --------------------------
(***************************************************************************)
(* The //nolint directives of a file: what nolintlint says of them, which  *)
(* issues they hide, and how an unused directive is told from a used one.  *)
(*                                                                         *)
(* A directive is a comment [line, col, length, spaces, full, names,       *)
(* explained, group]: spaces after the slashes, full if it is well formed, *)
(* the names as they are written, and the place of the comments it is part *)
(* of.  A place is [from, to, col]: the nodes of a file are places, in the *)
(* order of ast.Walk.                                                      *)
(***************************************************************************)
EXTENDS Issues

CONSTANTS
    LowerCase,      \* LowerCase[n]: the name n in lower case, if it is not n
    LinterConfigs   \* LinterConfigs[n]: the names of the linters known as n

Lower(n) == IF n \in DOMAIN LowerCase THEN LowerCase[n] ELSE n

-----------------------------------------------------------------------------
(* nolintlint                                                              *)

(* Everything after a directive of all linters is ignored.                 *)
Named(d) == IF d.names # <<>> /\ d.names[1] = "all" THEN <<>> ELSE d.names

NotMachine(d, report) ==
    IF d.spaces = 0 THEN <<>>
    ELSE <<[report EXCEPT !.text = "not machine", !.replacement = Inline(d.col + 1, d.spaces, <<>>)]>>

NotSpecific(d, report, needs) ==
    IF "specific" \in needs /\ Named(d) = <<>> THEN <<[report EXCEPT !.text = "not specific"]>> ELSE <<>>

(* A candidate for every name: the nolint processor drops those of the     *)
(* directives that turn out to be used.                                    *)
UnusedCandidates(d, report, needs) ==
    LET removal == IF d.col = 1 THEN OnlyDelete ELSE Inline(d.col - 1, d.length, <<>>)
        candidate(name) ==
            [report EXCEPT !.text = "unused", !.expect = name,
                           !.replacement = IF Len(Named(d)) <= 1 THEN removal ELSE None]
    IN  CASE "unused" \notin needs -> <<>>
          [] "unused" \in needs /\ Named(d) = <<>> -> <<candidate("")>>
          [] OTHER -> [k \in DOMAIN Named(d) |-> candidate(Named(d)[k])]

NoExplanation(d, report, needs, excluded) ==
    IF /\ "explanation" \in needs /\ ~d.explained
       /\ Named(d) = <<>> \/ \E k \in DOMAIN Named(d) : Named(d)[k] \notin excluded
    THEN <<[report EXCEPT !.text = "no explanation"]>>
    ELSE <<>>

ReportDirective(path, d, needs, excluded) ==
    LET report == [Issue("nolintlint", path, d.line, "") EXCEPT !.col = d.col]
    IN  NotMachine(d, report)
        \o (IF ~d.full THEN <<[report EXCEPT !.text = "parse error"]>>
            ELSE NotSpecific(d, report, needs) \o UnusedCandidates(d, report, needs)
                 \o NoExplanation(d, report, needs, excluded))

RunNolintlint(path, directives, needs, excluded) ==
    FlattenSeq([k \in DOMAIN directives |-> ReportDirective(path, directives[k], needs, excluded)])

-----------------------------------------------------------------------------
(* The nolint processor                                                    *)

(* The linters a directive hides, by their own names; <<>> for all.        *)
Hides(d) ==
    LET name(k) == Lower(d.names[k])
    IN  IF ~d.full \/ d.names = <<>> \/ \E k \in DOMAIN d.names : name(k) = "all" THEN <<>>
        ELSE FlattenSeq([k \in DOMAIN d.names |->
                            IF name(k) \in DOMAIN LinterConfigs THEN LinterConfigs[name(k)] ELSE <<name(k)>>])

(* A range stands for a directive, number dir, or for its extension to the *)
(* code that starts on the next line in the same column.  Both note what   *)
(* they hide under the same directive.                                     *)
InlineRanges(directives) ==
    [k \in DOMAIN directives |->
        LET group == directives[k].group
        IN  [dir |-> k, linters |-> Hides(directives[k]), from |-> group.from, to |-> group.to, col |-> group.col]]

ExpandedRange(ranges, node) ==
    LET found == {k \in DOMAIN ranges : ranges[k].to = node.from - 1 /\ ranges[k].col = node.col}
    IN  IF found = {} THEN <<>>
        ELSE LET r == ranges[Min(found)] IN <<[r EXCEPT !.to = IF @ < node.to THEN node.to ELSE @]>>

IgnoredRanges(file) ==
    LET inline == InlineRanges(file.directives)
    IN  IF ~file.parses THEN <<>>
        ELSE inline \o FlattenSeq([n \in DOMAIN file.nodes |-> ExpandedRange(inline, file.nodes[n])])

(* mutant: a directive for all linters hides what is said of itself.       *)
DoesMatchItself(r, i, matched) ==
    /\ r.from <= i.line /\ i.line <= r.to
    /\ \/ r.linters = <<>>
       \/ \E k \in DOMAIN r.linters : r.linters[k] = i.linter
       \/ /\ i.linter = "nolintlint" /\ i.expect # None
          /\ IF i.expect # "" THEN i.expect \in matched ELSE matched # {}

(* matched: the linters whose issues the directive has hidden so far.      *)
DoesMatch(r, i, matched) ==
    /\ r.from <= i.line /\ i.line <= r.to
    /\ \/ r.linters = <<>> /\ i.linter # "nolintlint"
       \/ \E k \in DOMAIN r.linters : r.linters[k] = i.linter
       \/ /\ i.linter = "nolintlint" /\ i.expect # None
          /\ IF i.expect # "" THEN i.expect \in matched ELSE matched # {}

(* mutant: nolintlint is not heard last.                                   *)
NolintlintAnywhere(issues) == issues

NolintlintLast(issues) ==
    Select(issues, LAMBDA i : i.linter # "nolintlint") \o Select(issues, LAMBDA i : i.linter = "nolintlint")

(* Drops what is hidden, one issue after the other.  acc: the issues kept, *)
(* and matched[f][d] for the directive d of the file f.                    *)
HideOne(acc, i, source, enabled) ==
    LET f == FileOf(i.path)
        ranges == IgnoredRanges(FileAt(source, i.path))
        hits == {k \in DOMAIN ranges : DoesMatch(ranges[k], i, acc.matched[f][ranges[k].dir])}
        keep == [acc EXCEPT !.kept = Append(@, i)]
    IN  IF TypeCheck(i) THEN keep
        ELSE IF i.linter = "nolintlint" /\ i.expect \notin {None, ""} /\ i.expect \notin enabled THEN acc
        ELSE IF hits = {} THEN keep
        ELSE [acc EXCEPT !.matched[f][ranges[Min(hits)].dir] = @ \cup {i.linter}]

Nolint(issues, source, enabled) ==
    LET nothing == [f \in DOMAIN source |-> [d \in DOMAIN source[f].directives |-> {}]]
        order == NolintlintLast(issues)
    IN  Loop(LAMBDA acc, k : HideOne(acc, order[k], source, enabled),
             [kept |-> <<>>, matched |-> nothing], Len(order)).kept

-----------------------------------------------------------------------------
(* Declarative references, from which the properties are stated.           *)

(* The lines to which a directive applies. *)
Scope(file, k) ==
    LET d == file.directives[k]
        below == {file.nodes[n].to : n \in {n \in DOMAIN file.nodes :
                      file.nodes[n].from = d.group.to + 1 /\ file.nodes[n].col = d.group.col}}
    IN  d.group.from..Max({d.group.to} \cup below)

Without(source, f, k) == [source EXCEPT ![f].directives = RemoveAt(@, k)]

(* A directive with one name, or none, that is called unused can go: no    *)
(* issue of the code comes back without it.  Another directive of its      *)
(* group may hide more then, as only the first one is extended.            *)
RemovalIsHarmless(issues, source, enabled) ==
    LET out(s) == Range(Nolint(issues, s, enabled))
        code(s) == {i \in out(s) : i.linter # "nolintlint"}
    IN  \A i \in out(source) : \A k \in DOMAIN FileAt(source, i.path).directives :
           LET d == FileAt(source, i.path).directives[k] IN
           i.expect # None /\ d.line = i.line /\ d.col = i.col /\ Len(Named(d)) <= 1
              => code(Without(source, FileOf(i.path), k)) \subseteq code(source)

(* A candidate for an enabled linter is dropped only if there is something *)
(* to hide where the directive applies.                                    *)
UnusedAreReported(issues, source, enabled) ==
    LET out == Range(Nolint(issues, source, enabled))
    IN  \A i \in Range(issues) \ out : \A k \in DOMAIN FileAt(source, i.path).directives :
           LET file == FileAt(source, i.path)
               d == file.directives[k]
           IN  i.expect \in enabled \cup {""} /\ d.line = i.line /\ d.col = i.col
                 => \E j \in Range(issues) :
                       /\ FileOf(j.path) = FileOf(i.path)
                       /\ \E e \in DOMAIN file.directives :
                             /\ j.line \in Scope(file, e) /\ i.line \in Scope(file, e)
                             /\ j.linter = i.expect \/ i.expect = "" \/ "nolintlint" \in Range(Hides(file.directives[e]))
=============================================================================
