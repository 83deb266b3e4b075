-------------------------- MODULE MCAnalysisRunner --------------------------
(* Instances of AnalysisRunner for TLC. *)
EXTENDS AnalysisRunner

(* A diamond: main imports lib and util, which import base, util unsafe too. *)
DiamondPackages == {"main", "lib", "util", "base", "unsafe"}
DiamondImports ==
    [main |-> {"lib", "util"}, lib |-> {"base"}, util |-> {"base", "unsafe"}, base |-> {},
     unsafe |-> {}]

(* A chain with two initial packages, the second imported by the first.    *)
ChainPackages == {"main", "lib", "base"}
ChainImports == [main |-> {"lib"}, lib |-> {"base"}, base |-> {}]

(* Two initial packages over two shared imports over one.                  *)
TwoMainsPackages == {"cmdA", "cmdB", "lib", "util", "base"}
TwoMainsImports ==
    [cmdA |-> {"lib", "util"}, cmdB |-> {"lib", "util"},
     lib |-> {"base"}, util |-> {"base"}, base |-> {}]

(* "printf" has facts and reads "inspect"; "lint" reads "printf".          *)
FactAnalyzerSet == {"inspect", "printf", "lint"}
FactRequires == [inspect |-> {}, printf |-> {"inspect"}, lint |-> {"printf"}]

AllFine   == {[p \in Packages |-> "ok"]}
AnyBroken ==
    {s \in [Packages -> {"ok", "typeError"}] : \A p \in Unsafe : s[p] = "ok"}
AnySource == [Packages -> {"ok", "parseError", "typeError", "noExport"}]
AnyDamage == {s \in AnySource : s["base"] = "ok"}

(* Facts of the packages that are not initial: no other is looked up.      *)
Cold     == {{}}
AnyCache == SUBSET (FactAnalyzers \X (Packages \ (Initial \union Unsafe)))
=============================================================================
