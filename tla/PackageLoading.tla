--------------------------- MODULE PackageLoading ---------------------------
(***************************************************************************)
(* pkg/lint/package.go: the packages that the linters are given.           *)
(*                                                                         *)
(* A directory of the tree is [path, files, tests, xtests, errors]: its Go *)
(* files, the test files of its package, those of the package path_test,   *)
(* and what the go command says about it.  A package is [path, variantOf,  *)
(* testMain, files, errors]; variantOf is "" or what the ID of a package   *)
(* built for a test has before its brackets.                               *)
(***************************************************************************)
EXTENDS Naturals, FiniteSets

Package(path, variantOf, files, errors) ==
    [path |-> path, variantOf |-> variantOf, testMain |-> FALSE, files |-> files,
     errors |-> errors]

(* The go command, with -test: a package is loaded a second time with its  *)
(* test files, and with the package of the external tests and a main.      *)
LoadedFrom(dir, tests) ==
    LET built == Package(dir.path, "", dir.files, dir.errors)
        test == Package(dir.path, dir.path, dir.files \union dir.tests, dir.errors)
        xtest == Package(dir.xpath, dir.xpath, dir.xtests, {})
        main == [Package(dir.mainPath, "", {}, {}) EXCEPT !.testMain = TRUE]
    IN  {built}
          \union {p \in {test} : tests /\ dir.tests # {}}
          \union {p \in {xtest} : tests /\ dir.xtests # {}}
          \union {p \in {main} : tests /\ dir.tests \union dir.xtests # {}}

(* Without arguments the whole tree is loaded.                             *)
BuildArgs(args, tree) == IF args = {} THEN tree ELSE {d \in tree : d.dir \in args}

FindLoadMode(jobs) == UNION {j.loadMode : j \in jobs}

-----------------------------------------------------------------------------
(* "commandLine" is an error about the call of the go command itself: it   *)
(* is dropped.  Two others end the run, whichever is seen first.           *)
Fatal(pkgs) == UNION {p.errors : p \in pkgs} \intersect {"noGoFiles", "cannotFind"}

FatalStage(error) == IF error = "noGoFiles" THEN "noGoFiles" ELSE "failed"

ParseLoadedPackagesErrors(pkgs) ==
    {[p EXCEPT !.errors = @ \ {"commandLine"}] : p \in pkgs}

FilterTestMainPackages(pkgs) == {p \in pkgs : ~p.testMain}

(* Only packages of which a test variant has the very same files.          *)
FilterEqualPackages(pkgs) ==
    {p \in pkgs : p.variantOf # "" \/ ~\E q \in pkgs \ {p} : q.files = p.files}

(* A package that is loaded with its tests too is kept with them only.     *)
FilterDuplicatePackages(pkgs) ==
    LET withTests == {p.variantOf : p \in pkgs} \ {""}
    IN  {p \in pkgs : p.variantOf # "" \/ p.path \notin withTests}
=============================================================================
