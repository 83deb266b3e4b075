------------------------------- MODULE Issues -------------------------------
(***************************************************************************)
(* What a linter reports, and the helpers that filter lists of issues.     *)
(*                                                                         *)
(* A path is [pre, abs, dir, base, ext]: pre tells whether the path prefix *)
(* of the output was added, abs whether the path is absolute.  A line of a *)
(* file is a sequence of characters, a replacement is a deletion, new      *)
(* lines or an inline fix, as in the code.                                 *)
(***************************************************************************)
EXTENDS Integers, SequencesExt

CONSTANT None

Chars == Seq(STRING)
FileNames == STRING \X STRING \X STRING
Paths == [pre : BOOLEAN, abs : BOOLEAN, dir : STRING, base : STRING, ext : STRING]

InlineFixes == [start : Int, len : Int, new : Chars]
Replacements == [delete : BOOLEAN, lines : Seq(Chars), inline : {None} \cup InlineFixes]
Ranges == [from : Int, to : Int]

ASSUME NoneAssumption == None \notin Paths /\ None \notin Replacements /\ None \notin STRING

IssueSet ==
    [linter : STRING, path : {None} \cup Paths, line : Int, col : Int, offset : Int, text : STRING,
     severity : STRING, source : Seq(Chars), replacement : {None} \cup Replacements,
     range : {None} \cup Ranges, expect : {None} \cup STRING]

Places == [from : Int, to : Int, col : Int]

(* The comments of a file that say nolint, see NolintDirectives.           *)
Directives ==
    [line : Int, col : Int, length : Int, spaces : Int, full : BOOLEAN, names : Seq(STRING),
     explained : BOOLEAN, group : Places]

Files ==
    [readable : BOOLEAN, parses : BOOLEAN, markers : SUBSET {"strict", "lax"},
     adjusted : {None} \cup FileNames, lines : Seq(Chars), directives : Seq(Directives), nodes : Seq(Places)]

Path(dir, base, ext) == [pre |-> FALSE, abs |-> FALSE, dir |-> dir, base |-> base, ext |-> ext]

Issue(linter, path, line, text) ==
    [linter |-> linter, path |-> path, line |-> line, col |-> 0, offset |-> line, text |-> text,
     severity |-> "", source |-> <<>>, replacement |-> None, range |-> None, expect |-> None]

NewLines(lines) == [delete |-> FALSE, lines |-> lines, inline |-> None]
OnlyDelete == [delete |-> TRUE, lines |-> <<>>, inline |-> None]
Inline(start, len, new) ==
    [delete |-> FALSE, lines |-> <<>>, inline |-> [start |-> start, len |-> len, new |-> new]]

LineRange(i) ==
    IF i.range = None \/ i.range.from = 0 THEN [from |-> i.line, to |-> i.line] ELSE i.range

(* Two paths to the same file, however they are written. *)
FileOf(path) == <<path.dir, path.base, path.ext>>

Missing ==
    [readable |-> FALSE, parses |-> FALSE, markers |-> {}, adjusted |-> None, lines |-> <<>>, directives |-> <<>>, nodes |-> <<>>]

FileAt(source, path) == IF FileOf(path) \in DOMAIN source THEN source[FileOf(path)] ELSE Missing

IsGoFile(path) == path.ext = ".go"
IsGoMod(path) == path.base = "go" /\ path.ext = ".mod"

TypeCheck(i) == i.linter = "typecheck"

-----------------------------------------------------------------------------
(* Lists.                                                                  *)

(* The elements of S by their rank, which tells them apart.                *)
InOrder(S, rank) ==
    [n \in 1..Cardinality(S) |->
        CHOOSE x \in S : Cardinality({y \in S : rank[y] < rank[x]}) = n - 1]

(* The elements of s at the places K.                                      *)
Kept(s, K) ==
    LET place == InOrder(K, [k \in K |-> k]) IN [n \in DOMAIN place |-> s[place[n]]]

Select(s, Test(_)) == Kept(s, {k \in DOMAIN s : Test(s[k])})

(* A loop of n rounds, each of which makes Round(v, k) of v.               *)
Loop(Round(_, _), start, n) ==
    LET after[k \in 0..n] == IF k = 0 THEN start ELSE Round(after[k - 1], k) IN after[n]

(* filterIssues: errors of the type checker pass all filters but a few.    *)
Filter(issues, Pass(_)) == Select(issues, LAMBDA i : TypeCheck(i) \/ Pass(i))

(* filterIssuesUnsafe, for tests that depend on what came before.          *)
FilterAt(issues, Pass(_)) == Kept(issues, {k \in DOMAIN issues : Pass(k)})

Map(issues, F(_)) == [k \in DOMAIN issues |-> F(issues[k])]
=============================================================================
