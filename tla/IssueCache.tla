----------------------------- MODULE IssueCache -----------------------------
(***************************************************************************)
(* The cache of issues over successive runs of golangci-lint, while the    *)
(* user edits the code at any moment.  For each linter in turn             *)
(* runAnalyzers looks every initial package up, analyses the others, and   *)
(* saves their issues unless anything went wrong.                          *)
(*                                                                         *)
(* The key of an entry holds the hashes of a package and of all packages   *)
(* below it, which FileHash reads once per run; the loader and the         *)
(* analysis read the same files at other times.  A package is one file     *)
(* here, a file its version, and what a linter finds is determined by the  *)
(* versions it saw: an entry records these instead of the issues.          *)
(***************************************************************************)
EXTENDS PackageGraph

CONSTANTS
    Linters,        \* the linters of a run, in any order
    Versions,       \* the contents of a file
    Broken,         \* the versions that do not compile
    MayFail,        \* linters whose analysis may fail on code that compiles
    MaxRuns,        \* bound on the number of runs
    MaxEdits,       \* bound on the number of edits
    None

ASSUME IssueCacheAssumption ==
    /\ Broken \subseteq Versions /\ MayFail \subseteq Linters
    /\ MaxRuns \in Nat /\ MaxEdits \in Nat
    /\ None \notin Versions \cup Linters

VARIABLES
    content,    \* content[p]: the version of p on disk
    entries,    \* the entries of the low-level cache
    edits,      \* number of edits
    runs,       \* number of runs that have started
    pc,         \* "idle" between runs; "load", "analyze", "save", "next" for a linter
    linter,     \* the linter that runs, or None
    pending,    \* the linters that have not run
    listed,     \* listed[p]: the version packages.Load compiled
    hashed,     \* hashed[p]: the version FileHash has read, or None
    todo,       \* the packages whose lookup, or then whose save, is not done
    hits,       \* the entries loaded for the linter
    seen,       \* seen[p]: the version the analysis worked with, or None
    edited      \* history: the packages edited since packages.Load

diskVars == <<content, entries, edits>>
loadVars == <<runs, pending, listed, edited>>
vars     == <<diskVars, loadVars, pc, linter, hashed, todo, hits, seen>>

Views == [Packages -> Versions \cup {None}]

(* What p and the packages below it are in a view of the files.            *)
Closure(p, view) == [q \in Packages |-> IF q \in Below(p) THEN view[q] ELSE None]

(* by is the linter that found the issues, torn holds the packages that    *)
(* were edited between the load and the save.                              *)
Entries == [linter: Linters, pkg: Initial, hash: Views,
            by: Linters, seen: Views, torn: SUBSET Packages]

TypeOK ==
    /\ content \in [Packages -> Versions]
    /\ entries \subseteq Entries
    /\ edits \in 0..MaxEdits /\ runs \in 0..MaxRuns
    /\ pc \in {"idle", "load", "analyze", "save", "next"}
    /\ linter \in Linters \cup {None} /\ pending \subseteq Linters
    /\ listed \in [Packages -> Versions]
    /\ hashed \in Views /\ seen \in Views
    /\ todo \subseteq Initial
    /\ hits \subseteq Entries
    /\ edited \subseteq Packages

NoView == [p \in Packages |-> None]

Init ==
    /\ content \in [Packages -> Versions]
    /\ entries = {}
    /\ edits = 0 /\ runs = 0
    /\ pc = "idle"
    /\ linter = None /\ pending = {}
    /\ listed = content
    /\ hashed = NoView /\ seen = NoView
    /\ todo = {} /\ hits = {} /\ edited = {}

-----------------------------------------------------------------------------
(* A process starts and loads the packages. *)
StartRun ==
    /\ pc = "idle" /\ runs < MaxRuns
    /\ runs' = runs + 1
    /\ pc' = "next"
    /\ pending' = Linters
    /\ listed' = content
    /\ edited' = {}
    /\ hashed' = NoView
    /\ linter' = None /\ todo' = {} /\ hits' = {} /\ seen' = NoView
    /\ UNCHANGED diskVars

StartLinter(l) ==
    /\ pc = "next" /\ l \in pending
    /\ pc' = "load"
    /\ linter' = l
    /\ pending' = pending \ {l}
    /\ todo' = Initial /\ hits' = {} /\ seen' = NoView
    /\ UNCHANGED <<diskVars, runs, listed, edited, hashed>>

(* FileHash, called by the workers that look packages up in any order, or  *)
(* when it has failed then, by those that save them.                       *)
HashFile(q) ==
    /\ pc \in {"load", "save"}
    /\ hashed[q] = None
    /\ \E p \in todo : q \in Below(p)
    /\ hashed' = [hashed EXCEPT ![q] = content[q]]
    /\ UNCHANGED <<diskVars, loadVars, pc, linter, todo, hits, seen>>

(* Mutants of KeyHash: HashModeNeedOnlySelf and HashModeNeedDirectDeps.    *)
KeyHashOnlySelf(p) == [q \in Packages |-> IF q = p THEN hashed[q] ELSE None]
KeyHashDirectDeps(p) ==
    [q \in Packages |-> IF q \in {p} \cup Imports[p] THEN hashed[q] ELSE None]

(* computePkgHash in the mode HashModeNeedAllDeps. *)
KeyHash(p) == Closure(p, hashed)

Hashed(p) == \A q \in Below(p) : hashed[q] # None

(* buildKey with getIssuesCacheKey *)
HasKey(e, p) == e.linter = linter /\ e.pkg = p /\ e.hash = KeyHash(p)

LoadHit(p, e) ==
    /\ pc = "load" /\ p \in todo
    /\ Hashed(p) /\ HasKey(e, p)
    /\ hits' = hits \cup {e}
    /\ todo' = todo \ {p}
    /\ UNCHANGED <<diskVars, loadVars, pc, linter, hashed, seen>>

(* There is no entry, it cannot be read or decoded, or hashing has failed. *)
LoadMiss(p) ==
    /\ pc = "load" /\ p \in todo
    /\ todo' = todo \ {p}
    /\ UNCHANGED <<diskVars, loadVars, pc, linter, hashed, hits, seen>>

FromCache == {e.pkg : e \in hits}

(* Mutant of ToAnalyze: also the packages nobody asked for. *)
ToAnalyzeImportsToo == Packages \ FromCache

ToAnalyze == Initial \ FromCache

LookupsDone ==
    /\ pc = "load" /\ todo = {}
    /\ pc' = "analyze"
    /\ UNCHANGED <<diskVars, loadVars, linter, hashed, todo, hits, seen>>

(* runner.run reads the sources of the packages it analyses; of what they  *)
(* import it reads the sources, the export data, or facts cached under the *)
(* hash.                                                                   *)
Readable(q) ==
    IF q \in ToAnalyze THEN {content[q]}
    ELSE {content[q], listed[q]} \cup ({hashed[q]} \ {None})

Read(q) ==
    /\ pc = "analyze"
    /\ seen[q] = None
    /\ \E p \in ToAnalyze : q \in Below(p)
    /\ \E v \in Readable(q) : seen' = [seen EXCEPT ![q] = v]
    /\ UNCHANGED <<diskVars, loadVars, pc, linter, hashed, todo, hits>>

AllRead == \A p \in ToAnalyze : \A q \in Below(p) : seen[q] # None

(* runner.run returns an error for a package that does not compile, or     *)
(* that imports one (BrokenPackagesReported of AnalysisRunner).            *)
CompileErrors == \E p \in ToAnalyze : \E q \in Below(p) : seen[q] \in Broken

(* Mutant of MaySave: the issues are saved in spite of errors. *)
MaySaveAnyway(errs) == TRUE

MaySave(errs) == ~errs

Conclude ==
    /\ pc = "analyze" /\ AllRead
    /\ \E errs \in {CompileErrors} \cup (IF linter \in MayFail THEN {TRUE} ELSE {}) :
         pc' = IF MaySave(errs) THEN "save" ELSE "next"
    /\ todo' = IF pc' = "save" THEN ToAnalyze ELSE {}
    /\ UNCHANGED <<diskVars, loadVars, linter, hashed, hits, seen>>

NewEntry(p) ==
    [linter |-> linter, pkg |-> p, hash |-> KeyHash(p),
     by |-> linter, seen |-> Closure(p, seen), torn |-> edited]

Save(p) ==
    /\ pc = "save" /\ p \in todo
    /\ Hashed(p)
    /\ entries' = {e \in entries : ~HasKey(e, p)} \cup {NewEntry(p)}
    /\ todo' = todo \ {p}
    /\ UNCHANGED <<content, edits, loadVars, pc, linter, hashed, hits, seen>>

SaveFails(p) ==
    /\ pc = "save" /\ p \in todo
    /\ todo' = todo \ {p}
    /\ UNCHANGED <<diskVars, loadVars, pc, linter, hashed, hits, seen>>

SavesDone ==
    /\ pc = "save" /\ todo = {}
    /\ pc' = "next"
    /\ UNCHANGED <<diskVars, loadVars, linter, hashed, todo, hits, seen>>

(* The run is over, or the process dies. *)
EndRun ==
    /\ pc # "idle"
    /\ pc' = "idle"
    /\ UNCHANGED <<diskVars, loadVars, linter, hashed, todo, hits, seen>>

-----------------------------------------------------------------------------
Edit(p, v) ==
    /\ edits < MaxEdits
    /\ v # content[p]
    /\ content' = [content EXCEPT ![p] = v]
    /\ edits' = edits + 1
    /\ edited' = edited \cup {p}
    /\ UNCHANGED <<entries, runs, pending, listed, pc, linter, hashed, todo, hits, seen>>

(* A trim of the low-level cache. *)
Forget(e) ==
    /\ entries' = entries \ {e}
    /\ UNCHANGED <<content, edits, loadVars, pc, linter, hashed, todo, hits, seen>>

Next ==
    \/ StartRun \/ LookupsDone \/ Conclude \/ SavesDone \/ EndRun
    \/ \E l \in Linters : StartLinter(l)
    \/ \E q \in Packages : HashFile(q) \/ Read(q)
    \/ \E p \in Initial : LoadMiss(p) \/ Save(p) \/ SaveFails(p)
    \/ \E e \in entries : Forget(e) \/ \E p \in Initial : LoadHit(p, e)
    \/ \E p \in Packages, v \in Versions : Edit(p, v)

Spec == Init /\ [][Next]_vars

-----------------------------------------------------------------------------
(* "A cached data is invalidated when package, or it's dependencies        *)
(* change" (Cache, line 35): issues from the cache are those the same linter found *)
(* on the versions that this run has hashed, of the package and of all     *)
(* that is below it, unless one of these was edited in the middle of the   *)
(* run that saved them.                                                    *)
Fresh(e) ==
    /\ e.by = linter
    /\ \/ e.seen = Closure(e.pkg, hashed)
       \/ e.torn \cap Below(e.pkg) # {}

HitsAreFresh == \A e \in hits : Fresh(e)

(* "If we try to save to cache even if we have compilation errors we won't *)
(* see them on repeated runs" (runAnalyzers, line 51): when a linter gets  *)
(* to its save, nothing that it was asked to analyse fails to compile, but *)
(* for what was edited during this run or the one that filled the cache.   *)
CompileErrorsSeen ==
    pc = "save" =>
       \A p \in Initial : \A q \in Below(p) :
          content[q] \in Broken =>
             \/ q \in edited
             \/ \E e \in hits : e.pkg = p /\ e.torn \cap Below(p) # {}
=============================================================================
