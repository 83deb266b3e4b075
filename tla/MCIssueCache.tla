---------------------------- MODULE MCIssueCache ----------------------------
(* Instances of IssueCache for TLC. *)
EXTENDS IssueCache, TLC

(* The two initial packages are the upper ends of a chain of three.        *)
ChainPackages == {"main", "lib", "base"}
ChainImports == [main |-> {"lib"}, lib |-> {"base"}, base |-> {}]

Symmetry == Permutations(Linters)
=============================================================================
