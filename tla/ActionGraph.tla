---------------------------- MODULE ActionGraph ----------------------------
(***************************************************************************)
(* The action graph of one run of the go/analysis runner: one node (an     *)
(* "action") per analyzer and package, with horizontal edges to the        *)
(* analyzers it requires on the same package and, for an analyzer with     *)
(* fact types, vertical edges to the same analyzer on the imports.         *)
(***************************************************************************)
EXTENDS PackageGraph

CONSTANTS
    Analyzers,      \* every analyzer a run may execute
    Requires,       \* Requires[an]: the analyzers whose results an reads
    FactAnalyzers,  \* the analyzers that declare fact types
    Requested       \* the analyzers the run was asked to execute

ASSUME AnalyzersAssumption ==
    /\ IsFiniteSet(Analyzers)
    /\ Requires \in [Analyzers -> SUBSET Analyzers]
    /\ FactAnalyzers \subseteq Analyzers
    /\ Requested \subseteq Analyzers

ASSUME RequiresAcyclic == Acyclic(Analyzers, Requires)

Keys == Analyzers \X Packages

HorizontalDeps(a) == {<<req, a[2]>> : req \in Requires[a[1]]}

VerticalDeps(a) ==
    {<<a[1], imp>> : imp \in IF a[1] \in FactAnalyzers THEN Imports[a[2]] ELSE {}}

Deps(a) == HorizontalDeps(a) \cup VerticalDeps(a)

Roots == Requested \X Initial

(* What makeAction builds from the roots, each action once.                *)
Actions ==
    {a \in Keys : \A S \in SUBSET Keys :
        (Roots \subseteq S /\ \A x \in S : Deps(x) \subseteq S) => a \in S}

ActionsOf(p) == {a \in Actions : a[2] = p}
=============================================================================
