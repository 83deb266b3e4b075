----------------------------- MODULE FormatDiff -----------------------------
(***************************************************************************)
(* How the diff of a formatter becomes issues with replacements, and how   *)
(* the fixer turns the replacements of a file into its new lines.          *)
(*                                                                         *)
(* A hunk is [start, body, noEol]: its first original line, its lines with *)
(* their kinds, and whether the original file has no newline at its end.   *)
(* A file is the sequence of what lies between its newlines.               *)
(***************************************************************************)
EXTENDS Issues

Hunks ==
    [start : Int, body : Seq([kind : {"orig", "del", "add"}, data : Chars]), noEol : BOOLEAN]

-----------------------------------------------------------------------------
(* From a hunk to changes.                                                 *)

DiffLines(h) ==
    LET Number(k) == h.start + Cardinality({j \in 1..(k - 1) : h.body[j].kind # "add"})
    IN  [k \in DOMAIN h.body |-> [number |-> Number(k), kind |-> h.body[k].kind, data |-> h.body[k].data]]
        \o (IF h.noEol THEN <<[number |-> 0, kind |-> "add", data |-> <<>>]>> ELSE <<>>)

(* The first line at or after i that is not of the kind.                   *)
EndOfRun(lines, i, kind) ==
    Min({k \in i..(Len(lines) + 1) : k = Len(lines) + 1 \/ lines[k].kind # kind})

Data(lines, from, to) == [k \in 1..(to - from) |-> lines[from + k - 1].data]

Change(from, to, replacement) == [from |-> from.number, to |-> to.number, replacement |-> replacement]

(* mutant: what is to be prepended is forgotten.                           *)
HandleDeletedLinesOnly(state, first, last, added) ==
    [state EXCEPT
        !.prepend = <<>>,
        !.changes = Append(@, Change(first, last, IF added = <<>> THEN OnlyDelete ELSE NewLines(added)))]

(* state: the last original line, lines to prepend, the changes so far,    *)
(* and the line to go on with.                                             *)
HandleDeletedLines(state, first, last, added) ==
    LET new == state.prepend \o added IN
    [state EXCEPT
        !.prepend = <<>>,
        !.changes = Append(@, Change(first, last, IF new = <<>> THEN OnlyDelete ELSE NewLines(new)))]

HandleAddedOnlyLines(state, added) ==
    IF state.last = None
    THEN [state EXCEPT !.prepend = added]
    ELSE [state EXCEPT
            !.prepend = <<>>,
            !.changes = Append(@, Change(state.last, state.last,
                                         NewLines(state.prepend \o <<state.last.data>> \o added)))]

(* A line that stays takes in what is to be prepended and what follows it. *)
HandleOriginalLine(state, line, following) ==
    IF state.prepend = <<>>
    THEN [state EXCEPT !.last = line]
    ELSE [state EXCEPT
            !.last = line,
            !.prepend = <<>>,
            !.changes = Append(@, Change(line, line, NewLines(state.prepend \o <<line.data>> \o following)))]

(* Nothing happens at a line that an earlier one has taken with it.        *)
ParseLine(lines, i, state) ==
    LET dels == EndOfRun(lines, i, "del")
        adds == EndOfRun(lines, dels, "add")
        follow == IF state.prepend = <<>> THEN i + 1 ELSE EndOfRun(lines, i + 1, "add")
    IN  CASE i < state.next -> state
          [] i = state.next /\ lines[i].kind = "orig" ->
               [HandleOriginalLine(state, lines[i], Data(lines, i + 1, follow)) EXCEPT !.next = follow]
          [] i = state.next /\ lines[i].kind = "del" ->
               [HandleDeletedLines(state, lines[i], lines[dels - 1], Data(lines, dels, adds)) EXCEPT !.next = adds]
          [] OTHER ->
               [HandleAddedOnlyLines(state, Data(lines, i, adds)) EXCEPT !.next = adds]

(* A hunk of additions only yields nothing. *)
Parse(h) ==
    LET lines == DiffLines(h)
        end == Loop(LAMBDA state, i : ParseLine(lines, i, state),
                    [last |-> None, prepend |-> <<>>, changes |-> <<>>, next |-> 1], Len(lines))
    IN  IF end.prepend # <<>> THEN <<>> ELSE end.changes

ExtractIssues(linter, path, hunks) ==
    LET Report(c) == [Issue(linter, path, c.from, "not formatted") EXCEPT
                         !.offset = 0,
                         !.replacement = c.replacement,
                         !.range = IF c.from # c.to THEN [from |-> c.from, to |-> c.to] ELSE None]
    IN  FlattenSeq([n \in DOMAIN hunks |-> Map(Parse(hunks[n]), Report)])

-----------------------------------------------------------------------------
(* The fixer on one file.                                                  *)

(* Fixes of one line, applied from left to right; None if two intersect,   *)
(* as two with the same start do.                                          *)
ApplyInlineFixes(issues, line) ==
    LET inline(k) == issues[k].replacement.inline
        order == InOrder(DOMAIN issues, [k \in DOMAIN issues |-> inline(k).start])
        fix(n) == inline(order[n])
        end(n) == IF n = 0 THEN 0 ELSE fix(n).start + fix(n).len
        piece(n) == SubSeq(line, end(n - 1) + 1, fix(n).start) \o fix(n).new
    IN  IF \E j, k \in DOMAIN issues :
              /\ j # k /\ inline(j).start <= inline(k).start
              /\ inline(k).start < inline(j).start + inline(j).len
        THEN None
        ELSE [issues[order[1]] EXCEPT !.replacement =
                 NewLines(<<FlattenSeq([n \in DOMAIN order |-> piece(n)])
                            \o SubSeq(line, end(Len(order)) + 1, Len(line))>>)]

Ranged(i) == i.range # None
NotInline(i) == i.replacement.inline = None
InvalidInline(i, line) ==
    LET inline == i.replacement.inline
    IN  inline.start < 0 \/ inline.len <= 0 \/ inline.start + inline.len > Len(line)

(* One issue for a line; the first issue that cannot be merged decides.    *)
MergeLineIssues(issues, line) ==
    LET odd == {k \in DOMAIN issues :
                   Ranged(issues[k]) \/ NotInline(issues[k]) \/ InvalidInline(issues[k], line)}
    IN  IF Len(issues) = 1 /\ NotInline(issues[1]) THEN issues[1]
        ELSE IF odd = {} THEN ApplyInlineFixes(issues, line)
        ELSE LET li == issues[Min(odd)]
             IN  IF Ranged(li) THEN issues[1] ELSE IF NotInline(li) THEN li ELSE None

OnLine(issues, n) == Select(issues, LAMBDA i : i.line = n)

(* One issue for each line that has some, from top to bottom: whatever the *)
(* order in which the map of lines is walked, they are sorted before use.  *)
Merged(issues, lines) ==
    LET used == {issues[k].line : k \in DOMAIN issues}
        number == InOrder(used, [n \in used |-> n])
        merge(n) == MergeLineIssues(OnLine(issues, n), lines[n])
    IN  Select([k \in DOMAIN number |-> merge(number[k])], LAMBDA i : i # None)

FindNotIntersecting(issues) ==
    LET take(acc, i) == IF LineRange(i).from <= acc.end THEN acc
                        ELSE [end |-> LineRange(i).to, kept |-> Append(acc.kept, i)]
    IN  Loop(LAMBDA acc, k : take(acc, issues[k]), [end |-> 0, kept |-> <<>>], Len(issues)).kept

Written(replacement) ==
    IF replacement.delete THEN <<>>
    ELSE IF replacement.lines = <<>> THEN << <<>> >> ELSE replacement.lines

(* writeFixedFile: every piece but the one that ends the file is followed  *)
(* by a newline.                                                           *)
FixedLines(lines, issues) ==
    LET starts(n) == {k \in DOMAIN issues : LineRange(issues[k]).from = n}
        inside(n) == \E k \in DOMAIN issues : LineRange(issues[k]).from < n /\ n <= LineRange(issues[k]).to
        piece(n) ==
            IF starts(n) # {} THEN Written(issues[Min(starts(n))].replacement)
            ELSE IF inside(n) THEN <<>> ELSE <<lines[n]>>
        endDeleted == \E k \in DOMAIN issues :
                         issues[k].replacement.delete /\ LineRange(issues[k]).to >= Len(lines)
    IN  FlattenSeq([n \in DOMAIN lines |-> piece(n)]) \o (IF endDeleted THEN << <<>> >> ELSE <<>>)

FixIssuesInFile(lines, issues) == FixedLines(lines, FindNotIntersecting(Merged(issues, lines)))

(* The array that holds the issues of the file is reused for the merged    *)
(* ones, and read again when the file cannot be replaced.                  *)
Overwritten(issues, lines) ==
    LET merged == Merged(issues, lines) IN merged \o SubSeq(issues, Len(merged) + 1, Len(issues))
=============================================================================
