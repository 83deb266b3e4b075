---------------------------- MODULE PackageGraph ----------------------------
(***************************************************************************)
(* The import graph of one run: the packages that have a loadingPackage.   *)
(*                                                                         *)
(* The closure is a least fixpoint stated as an intersection of closed     *)
(* sets, so that a proof can use it without induction.                     *)
(***************************************************************************)
EXTENDS Integers, FiniteSets

CONSTANTS
    Packages,       \* the packages reachable from the packages to analyse
    Imports,        \* Imports[p]: the packages p imports directly
    Initial         \* the packages the run was asked to analyse

ASSUME PackagesAssumption ==
    /\ IsFiniteSet(Packages)
    /\ Imports \in [Packages -> SUBSET Packages]
    /\ Initial \subseteq Packages

(* Go forbids import cycles; the analysis driver validates Requires.       *)
Acyclic(S, edges) ==
    \A T \in (SUBSET S) \ {{}} : \E x \in T : edges[x] \cap T = {}

ASSUME ImportsAcyclic == Acyclic(Packages, Imports)

Importers(p) == {r \in Packages : p \in Imports[r]}

ClosedUnderImports(S) == \A p \in S : Imports[p] \subseteq S

(* What lies below a package in the import graph, itself included.         *)
Below(p) ==
    {q \in Packages : \A S \in SUBSET Packages :
                          (p \in S /\ ClosedUnderImports(S)) => q \in S}

(* A loadingPackage exists only for what an initial package reaches.       *)
ASSUME AllReachable ==
    \A S \in SUBSET Packages :
        (Initial \subseteq S /\ ClosedUnderImports(S)) => S = Packages
=============================================================================
