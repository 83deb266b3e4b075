--------------------------- MODULE AnalysisRunner ---------------------------
(***************************************************************************)
(* One run of pkg/goanalysis's runner over an action graph.  A goroutine   *)
(* per package waits for its imports, takes a token of loadSem, loads the  *)
(* package, starts a goroutine per action, and finally drops its use of    *)
(* the package (decUse), which frees the memory of every package that      *)
(* nobody above it needs any more.                                         *)
(*                                                                         *)
(* sync.Once makes the first goroutine that reaches a package the one that *)
(* analyses it, so the process of a package is named by the package.       *)
(***************************************************************************)
EXTENDS ActionGraph

CONSTANTS
    MaxParallel,    \* capacity of loadSem: GOMAXPROCS
    LoadMode,       \* the strongest load mode of the run's linters
    Unsafe,         \* the packages whose import path is "unsafe"
    SourceStates,   \* the possible states of the sources on disk
    CacheStates,    \* the possible contents of the facts cache at the start
    MayFail,        \* analyzers whose Run may return an error
    MayPanic,       \* analyzers whose Run may panic
    None            \* nil

(* LoadMode is an iota. *)
LoadModeSyntax       == 1
LoadModeTypesInfo    == 2
LoadModeWholeProgram == 3

Kinds == {"narrow", "wide"}
Gens  == {"new", "export", "source"}
Facts == [kind: Kinds, origin: Packages, types: Gens \cup {None}]

Phases == {"new", "imports", "load", "run", "decUse", "freeing", "release", "done"}
ActStates == {"new", "running", "recovering", "done"}
PlainErrors   == {"plain", "panic"}
WrappedErrors == {"load", "prerequisite", "illTyped", "wrapped"}

ASSUME RunnerAssumption ==
    /\ MaxParallel \in Nat \ {0}
    /\ LoadMode \in {LoadModeSyntax, LoadModeTypesInfo, LoadModeWholeProgram}
    /\ Unsafe \subseteq Packages \ Initial
    /\ \A p \in Unsafe : Imports[p] = {}
    /\ SourceStates \subseteq [Packages -> {"ok", "parseError", "typeError", "noExport"}]
    /\ CacheStates \subseteq SUBSET (FactAnalyzers \X Packages)
    /\ MayFail \subseteq Analyzers
    /\ MayPanic \subseteq Analyzers
    /\ None \notin Packages \cup Gens \cup PlainErrors \cup WrappedErrors

(* "unsafe" has no sources that could fail to compile. *)
ASSUME UnsafeCompiles == \A s \in SourceStates, p \in Unsafe : s[p] = "ok"

(* Every analyzer with facts asks for type information. *)
ASSUME FactsNeedTypes == LoadMode = LoadModeSyntax => FactAnalyzers = {}

VARIABLES
    src,        \* src[p]: what the compiler makes of p's files; never changes
    cached,     \* cached[a]: a's persisted facts, "missing", "complete" or "partial"
    phase,      \* phase[p]: where p's goroutine is
    loadSem,    \* number of tokens in the channel loadSem
    types,      \* types[p]: which types.Package pkg.Types points to
    illTyped,   \* illTyped[p]: pkg.IllTyped
    errors,     \* errors[p]: pkg.Errors is not empty
    dependents, \* dependents[p]: lp.dependents
    toRelease,  \* toRelease[p]: the imports whose decUse p has not called
    caller,     \* caller[p]: who is inside p's decUse, which holds decUseMutex
    need,       \* need[a]: act.needAnalyzeSource
    actState,   \* actState[a]: where a's goroutine is
    pass,       \* pass[a]: act.pass is nil, set, or was nilled by decUse
    result,     \* result[a]: act.Result holds what Run returned
    err,        \* err[a]: act.Err
    facts,      \* facts[a]: act.objectFacts and act.packageFacts
    outcome,    \* what runner.run did: "pending", "returned" or "panicked"
    errs        \* the actions whose errors runner.run returned

diskVars == <<src, cached>>
pkgVars  == <<phase, loadSem, types, illTyped, errors>>
useVars  == <<dependents, toRelease, caller>>
actVars  == <<need, actState, pass, result, err, facts>>
endVars  == <<outcome, errs>>
vars     == <<diskVars, pkgVars, useVars, actVars, endVars>>

TypeOK ==
    /\ src \in [Packages -> {"ok", "parseError", "typeError", "noExport"}]
    /\ cached \in [Actions -> {"missing", "complete", "partial"}]
    /\ phase \in [Packages -> Phases]
    /\ loadSem \in 0..MaxParallel
    /\ types \in [Packages -> Gens \cup {None}]
    /\ illTyped \in [Packages -> BOOLEAN]
    /\ errors \in [Packages -> BOOLEAN]
    /\ dependents \in [Packages -> Nat]
    /\ toRelease \in [Packages -> SUBSET Packages]
    /\ caller \in [Packages -> Packages \cup {None}]
    /\ need \in [Actions -> BOOLEAN]
    /\ actState \in [Actions -> ActStates]
    /\ pass \in [Actions -> {"nil", "set", "cleared"}]
    /\ result \in [Actions -> BOOLEAN]
    /\ err \in [Actions -> PlainErrors \cup WrappedErrors \cup {None}]
    /\ facts \in [Actions -> SUBSET Facts]
    /\ outcome \in {"pending", "returned", "panicked"}
    /\ errs \subseteq Actions

-----------------------------------------------------------------------------
(* Init: prepareAnalysis has built the actions, analyze the loading        *)
(* packages and their reference counts.                                    *)

(* Mutant of DependentsAtStart: the self use forgotten. *)
DependentsWithoutSelf(p) == Cardinality(Importers(p))

(* The package itself and, in dfs, each importer. *)
DependentsAtStart(p) == 1 + Cardinality(Importers(p))

Init ==
    /\ src \in SourceStates
    /\ \E hits \in CacheStates :
          cached = [a \in Actions |-> IF a \in hits THEN "complete" ELSE "missing"]
    /\ phase = [p \in Packages |-> "new"]
    /\ loadSem = 0
    /\ types = [p \in Packages |-> None]
    /\ illTyped = [p \in Packages |-> FALSE]
    /\ errors = [p \in Packages |-> FALSE]
    /\ dependents = [p \in Packages |-> DependentsAtStart(p)]
    /\ toRelease = Imports
    /\ caller = [p \in Packages |-> None]
    /\ need = [a \in Actions |-> a[2] \in Initial]
    /\ actState = [a \in Actions |-> "new"]
    /\ pass = [a \in Actions |-> "nil"]
    /\ result = [a \in Actions |-> FALSE]
    /\ err = [a \in Actions |-> None]
    /\ facts = [a \in Actions |-> {}]
    /\ outcome = "pending"
    /\ errs = {}

-----------------------------------------------------------------------------
(* analyzeRecursive *)

(* An initial package is started by runner.analyze, any other by the first *)
(* goroutine of an importer to reach its analyzeOnce.                      *)
Begin(p) ==
    /\ phase[p] = "new"
    /\ \/ p \in Initial
       \/ \E r \in Importers(p) : phase[r] # "new"
    /\ phase' = [phase EXCEPT ![p] = "imports"]
    /\ UNCHANGED <<diskVars, loadSem, types, illTyped, errors, useVars, actVars, endVars>>

TokenFree == loadSem < MaxParallel

(* wg.Wait() for the imports, then loadSem <- struct{}{}. *)
Acquire(p) ==
    /\ phase[p] = "imports"
    /\ \A imp \in Imports[p] : phase[imp] = "done"
    /\ TokenFree
    /\ loadSem' = loadSem + 1
    /\ phase' = [phase EXCEPT ![p] = "load"]
    /\ UNCHANGED <<diskVars, types, illTyped, errors, useVars, actVars, endVars>>

-----------------------------------------------------------------------------
(* loadWithFacts *)

IsFact(a) == a[1] \in FactAnalyzers

(* The importer hands the type checker an import's error or its types. *)
BadImport(p) == \E imp \in Imports[p] : errors[imp] \/ types[imp] = None

SourceErrors(p) ==
    \/ src[p] = "parseError"
    \/ LoadMode # LoadModeSyntax /\ (src[p] = "typeError" \/ BadImport(p))

(* Mutant of LoadFromSource: pkg.IllTyped is never set. *)
LoadFromSourceUnflagged(p, before) ==
    /\ types' = [types EXCEPT ![p] =
                    IF src[p] = "parseError" \/ LoadMode = LoadModeSyntax
                    THEN before ELSE "source"]
    /\ UNCHANGED illTyped

(* loadFromSource; before is what pkg.Types holds when it is called: a     *)
(* parse error, and the syntax mode, return before it is replaced.         *)
LoadFromSource(p, before) ==
    /\ types' = [types EXCEPT ![p] =
                    IF src[p] = "parseError" \/ LoadMode = LoadModeSyntax
                    THEN before ELSE "source"]
    /\ illTyped' = [illTyped EXCEPT ![p] =
                       \/ SourceErrors(p)
                       \/ LoadMode # LoadModeSyntax /\ \E imp \in Imports[p] : illTyped[imp]]

(* Export data exists for what the go command could compile. *)
HasExportData(p) ==
    /\ src[p] = "ok"
    /\ \A q \in Below(p) : src[q] \in {"ok", "noExport"}
    /\ \A imp \in Imports[p] : types[imp] # None

OwnFacts(p, gen) == {[kind |-> k, origin |-> p, types |-> gen] : k \in Kinds}

LoadUnsafe(p) ==
    /\ phase[p] = "load"
    /\ p \in Unsafe
    /\ types' = [types EXCEPT ![p] = IF LoadMode # LoadModeSyntax THEN "export" ELSE @]
    /\ phase' = [phase EXCEPT ![p] = "run"]
    /\ UNCHANGED <<diskVars, loadSem, illTyped, errors, useVars, actVars, endVars>>

LoadInitial(p) ==
    /\ phase[p] = "load"
    /\ p \in Initial
    /\ LoadFromSource(p, types[p])
    /\ errors' = [errors EXCEPT ![p] = SourceErrors(p)]
    /\ phase' = [phase EXCEPT ![p] = "run"]
    /\ UNCHANGED <<diskVars, loadSem, useVars, actVars, endVars>>

(* Without readable export data the sources are loaded for their errors,   *)
(* the load fails, and every action of the package is unblocked with it.   *)
LoadFails(p) ==
    /\ phase[p] = "load"
    /\ p \notin Initial \cup Unsafe
    /\ LoadMode # LoadModeSyntax
    /\ ~HasExportData(p)
    /\ LoadFromSource(p, "new")
    /\ errors' = [errors EXCEPT ![p] = TRUE]
    /\ actState' = [a \in Actions |-> IF a[2] = p THEN "done" ELSE actState[a]]
    /\ err' = [a \in Actions |-> IF a[2] = p THEN "load" ELSE err[a]]
    /\ phase' = [phase EXCEPT ![p] = "decUse"]
    /\ UNCHANGED <<diskVars, loadSem, useVars, need, pass, result, facts, endVars>>

(* loadCachedFacts succeeds at once for an action without fact types. *)
Missed(p) == {a \in ActionsOf(p) : IsFact(a) /\ cached[a] = "missing"}

(* The actions to run: those without cached facts and, one level down,     *)
(* what they require (markDepsForAnalyzingSource).                         *)
Marked(p) == Missed(p) \cup UNION {HorizontalDeps(a) : a \in Missed(p)}

(* Cached facts are attached to the types.Package read from export data,   *)
(* which a reload from source then replaces.                               *)
LoadImported(p) ==
    /\ phase[p] = "load"
    /\ p \notin Initial \cup Unsafe
    /\ LoadMode = LoadModeSyntax \/ HasExportData(p)
    /\ need' = [a \in Actions |-> need[a] \/ a \in Marked(p)]
    /\ facts' = [a \in Actions |->
                    IF a[2] = p /\ IsFact(a) /\ cached[a] = "complete"
                    THEN facts[a] \cup OwnFacts(p, "export") ELSE facts[a]]
    /\ \/ /\ Missed(p) # {}
          /\ LoadFromSource(p, "new")
          /\ errors' = [errors EXCEPT ![p] = SourceErrors(p)]
       \/ /\ Missed(p) = {}
          /\ types' = [types EXCEPT ![p] = IF LoadMode # LoadModeSyntax THEN "export" ELSE @]
          /\ UNCHANGED <<illTyped, errors>>
    /\ phase' = [phase EXCEPT ![p] = "run"]
    /\ UNCHANGED <<diskVars, loadSem, useVars, actState, pass, result, err, endVars>>

-----------------------------------------------------------------------------
(* The goroutine of an action: waitUntilDependingAnalyzersWorked, then     *)
(* analyzeSafe around analyze.                                             *)

(* close(act.analysisDoneCh) is deferred by analyze, so it precedes the    *)
(* recover of analyzeSafe.                                                 *)
DoneChClosed(a) == actState[a] \in {"recovering", "done"}

Ready(a) ==
    /\ phase[a[2]] = "run"
    /\ actState[a] = "new"
    /\ \A d \in HorizontalDeps(a) : DoneChClosed(d)

(* errors.Unwrap yields nil for an error that wraps none. *)
FailedPrerequisites(a) == {d \in Deps(a) : err[d] \in WrappedErrors}

(* Mutant of InheritedFacts: every fact filtered. *)
FactsOfDirectImports(a) ==
    UNION {{f \in facts[d] : f.origin = d[2] /\ f.types = types[d[2]]} : d \in VerticalDeps(a)}

(* inheritFacts: exportedFrom keeps a function or a variable only of the   *)
(* dependency's current types.Package; the other facts always pass.        *)
InheritedFacts(a) ==
    UNION {{f \in facts[d] : \/ f.kind = "wide"
                             \/ f.origin = d[2] /\ f.types = types[d[2]]}
              : d \in VerticalDeps(a)}

SkipAction(a) ==
    /\ Ready(a)
    /\ ~need[a]
    /\ actState' = [actState EXCEPT ![a] = "done"]
    /\ UNCHANGED <<diskVars, pkgVars, useVars, need, pass, result, err, facts, endVars>>

FailPrerequisites(a) ==
    /\ Ready(a)
    /\ need[a]
    /\ FailedPrerequisites(a) # {}
    /\ err' = [err EXCEPT ![a] = "prerequisite"]
    /\ actState' = [actState EXCEPT ![a] = "done"]
    /\ UNCHANGED <<diskVars, pkgVars, useVars, need, pass, result, facts, endVars>>

StartPass(a) ==
    /\ Ready(a)
    /\ need[a]
    /\ FailedPrerequisites(a) = {}
    /\ facts' = [facts EXCEPT ![a] = InheritedFacts(a)]
    /\ pass' = [pass EXCEPT ![a] = "set"]
    /\ actState' = [actState EXCEPT ![a] = "running"]
    /\ UNCHANGED <<diskVars, pkgVars, useVars, need, result, err, endVars>>

(* persistFactsToCache runs whatever Run returned. *)
PersistFacts(a, extent) ==
    cached' = IF IsFact(a) THEN [cached EXCEPT ![a] = extent] ELSE cached

RunIllTyped(a) ==
    /\ actState[a] = "running"
    /\ illTyped[a[2]]
    /\ err' = [err EXCEPT ![a] = "illTyped"]
    /\ PersistFacts(a, "partial")
    /\ actState' = [actState EXCEPT ![a] = "done"]
    /\ UNCHANGED <<src, pkgVars, useVars, need, pass, result, facts, endVars>>

RunSucceeds(a) ==
    /\ actState[a] = "running"
    /\ ~illTyped[a[2]]
    /\ result' = [result EXCEPT ![a] = TRUE]
    /\ facts' = [facts EXCEPT ![a] =
                    IF IsFact(a) THEN @ \cup OwnFacts(a[2], types[a[2]]) ELSE @]
    /\ PersistFacts(a, "complete")
    /\ actState' = [actState EXCEPT ![a] = "done"]
    /\ UNCHANGED <<src, pkgVars, useVars, need, pass, err, endVars>>

RunFails(a) ==
    /\ actState[a] = "running"
    /\ ~illTyped[a[2]]
    /\ a[1] \in MayFail
    /\ \E e \in {"plain", "wrapped"} : err' = [err EXCEPT ![a] = e]
    /\ PersistFacts(a, "partial")
    /\ actState' = [actState EXCEPT ![a] = "done"]
    /\ UNCHANGED <<src, pkgVars, useVars, need, pass, result, facts, endVars>>

(* A panic closes the channel first and stores act.Err afterwards. *)
RunPanics(a) ==
    /\ actState[a] = "running"
    /\ ~illTyped[a[2]]
    /\ \/ a[1] \in MayPanic
       \/ \E d \in HorizontalDeps(a) : ~result[d]
    /\ actState' = [actState EXCEPT ![a] = "recovering"]
    /\ UNCHANGED <<diskVars, pkgVars, useVars, need, pass, result, err, facts, endVars>>

(* Mutant of Recover: the action is tried again. *)
RecoverAndRetry(a) ==
    /\ actState[a] = "recovering"
    /\ actState' = [actState EXCEPT ![a] = "new"]
    /\ UNCHANGED <<diskVars, pkgVars, useVars, need, pass, result, err, facts, endVars>>

Recover(a) ==
    /\ actState[a] = "recovering"
    /\ err' = [err EXCEPT ![a] = "panic"]
    /\ actState' = [actState EXCEPT ![a] = "done"]
    /\ UNCHANGED <<diskVars, pkgVars, useVars, need, pass, result, facts, endVars>>

(* actsWg.Wait() *)
ActionsFinished(p) ==
    /\ phase[p] = "run"
    /\ \A a \in ActionsOf(p) : actState[a] = "done"
    /\ phase' = [phase EXCEPT ![p] = "decUse"]
    /\ UNCHANGED <<diskVars, loadSem, types, illTyped, errors, useVars, actVars, endVars>>

-----------------------------------------------------------------------------
(* decUse *)

(* The frame of decUse(p) waits while a decUse it called is open. *)
InNestedCall(p) == \E q \in Imports[p] : caller[q] = p

(* Calls of decUse(p): the deferred one of p's own goroutine, and the ones *)
(* an importer makes when it has lost its last user.                       *)
Calls(c, p) ==
    /\ caller[p] = None     \* decUseMutex
    /\ \/ c = p /\ phase[p] = "decUse"
       \/ /\ c # p
          /\ caller[c] # None
          /\ p \in toRelease[c]
          /\ ~InNestedCall(c)

ClearActions(p) ==
    /\ pass' = [a \in Actions |->
                   IF a[2] = p /\ pass[a] = "set" THEN "cleared" ELSE pass[a]]
    /\ result' = [a \in Actions |->
                     IF a[2] = p /\ pass[a] = "set" THEN FALSE ELSE result[a]]

(* Mutant of DropUse: the importer's loop does not advance. *)
DropUseTwice(c, p) ==
    /\ dependents' = [dependents EXCEPT ![p] = @ - 1]
    /\ UNCHANGED toRelease

(* The call takes c's use of p away; c's loop over lp.imports moves on. *)
DropUse(c, p) ==
    /\ dependents' = [dependents EXCEPT ![p] = @ - 1]
    /\ toRelease' = IF c = p THEN toRelease
                    ELSE [toRelease EXCEPT ![c] = @ \ {p}]

(* Mutant of LastUse: one use too early. *)
LastUseTooEarly(p) == dependents[p] <= 2

LastUse(p) == dependents[p] = 1

DecUseStillUsed(c, p) ==
    /\ Calls(c, p)
    /\ ~LastUse(p)
    /\ DropUse(c, p)
    /\ ClearActions(p)
    /\ phase' = IF c = p THEN [phase EXCEPT ![p] = "release"] ELSE phase
    /\ UNCHANGED <<diskVars, loadSem, types, illTyped, errors, caller, need, actState,
                   err, facts, endVars>>

DecUseLast(c, p) ==
    /\ Calls(c, p)
    /\ LastUse(p)
    /\ DropUse(c, p)
    /\ ClearActions(p)
    /\ types' = [types EXCEPT ![p] = IF LoadMode < LoadModeWholeProgram THEN None ELSE @]
    /\ caller' = [caller EXCEPT ![p] = c]
    /\ phase' = IF c = p THEN [phase EXCEPT ![p] = "freeing"] ELSE phase
    /\ UNCHANGED <<diskVars, loadSem, illTyped, errors, need, actState, err, facts, endVars>>

(* After the loop over the imports. *)
DecUseReturn(p) ==
    /\ caller[p] # None
    /\ toRelease[p] = {}
    /\ ~InNestedCall(p)
    /\ facts' = [a \in Actions |-> IF a[2] = p THEN {} ELSE facts[a]]
    /\ caller' = [caller EXCEPT ![p] = None]
    /\ phase' = IF caller[p] = p THEN [phase EXCEPT ![p] = "release"] ELSE phase
    /\ UNCHANGED <<diskVars, loadSem, types, illTyped, errors, dependents, toRelease,
                   need, actState, pass, result, err, endVars>>

(* <-loadSem, and analyzeOnce is done. *)
Release(p) ==
    /\ phase[p] = "release"
    /\ loadSem' = loadSem - 1
    /\ phase' = [phase EXCEPT ![p] = "done"]
    /\ UNCHANGED <<diskVars, types, illTyped, errors, useVars, actVars, endVars>>

-----------------------------------------------------------------------------
(* extractDiagnostics *)

(* decUse nilled the Deps of every action that had a pass. *)
RemainingDeps(a) == IF pass[a] = "cleared" THEN {} ELSE Deps(a)

Visited ==
    {a \in Actions : \A S \in SUBSET Actions :
        (Roots \subseteq S /\ \A x \in S : RemainingDeps(x) \subseteq S) => a \in S}

Extract ==
    /\ outcome = "pending"
    /\ \A p \in Initial : phase[p] = "done"
    /\ \/ /\ \E a \in Visited : err[a] = "panic"
          /\ outcome' = "panicked"
          /\ errs' = errs
       \/ /\ \A a \in Visited : err[a] # "panic"
          /\ outcome' = "returned"
          /\ errs' = {a \in Visited : err[a] # None}
    /\ UNCHANGED <<diskVars, pkgVars, useVars, actVars>>

Finished ==
    /\ outcome # "pending"
    /\ UNCHANGED vars

-----------------------------------------------------------------------------
PackageStep(p) ==
    \/ Begin(p) \/ Acquire(p)
    \/ LoadUnsafe(p) \/ LoadInitial(p) \/ LoadFails(p) \/ LoadImported(p)
    \/ ActionsFinished(p)
    \/ DecUseReturn(p)
    \/ Release(p)

DecUseStep(c, p) == DecUseStillUsed(c, p) \/ DecUseLast(c, p)

ActionStep(a) ==
    \/ SkipAction(a) \/ FailPrerequisites(a) \/ StartPass(a)
    \/ RunIllTyped(a) \/ RunSucceeds(a) \/ RunFails(a) \/ RunPanics(a)
    \/ Recover(a)

Next ==
    \/ \E p \in Packages : PackageStep(p)
    \/ \E c, p \in Packages : DecUseStep(c, p)
    \/ \E a \in Actions : ActionStep(a)
    \/ Extract
    \/ Finished

Spec == Init /\ [][Next]_vars

(* Go runs every runnable goroutine; a wait for the semaphore or a mutex   *)
(* is contended only by finitely many others, so weak fairness is enough.  *)
Fairness ==
    /\ \A p \in Packages : WF_vars(PackageStep(p))
    /\ \A c, p \in Packages : WF_vars(DecUseStep(c, p))
    /\ \A a \in Actions : WF_vars(ActionStep(a))
    /\ WF_vars(Extract)

FairSpec == Spec /\ Fairness

-----------------------------------------------------------------------------
(* Properties. *)

(* Reference counting: dependents is the number of goroutines and of       *)
(* importers that have not yet dropped the package, through every          *)
(* interleaving of the decUse calls of its importers.                      *)
OwnUseHeld(p) == phase[p] \notin {"freeing", "release", "done"}

UsersOf(p) ==
    {r \in Packages : p \in toRelease[r]} \cup (IF OwnUseHeld(p) THEN {p} ELSE {})

RefCount == \A p \in Packages : dependents[p] = Cardinality(UsersOf(p))

(* The semaphore counts the packages between loadSem <- and <-loadSem, and *)
(* at most GOMAXPROCS of them are loaded or analysed at once.              *)
HoldsToken(p) == phase[p] \notin {"new", "imports", "done"}

AtMostMaxParallel ==
    /\ loadSem = Cardinality({p \in Packages : HoldsToken(p)})
    /\ loadSem <= MaxParallel

(* While a package may still be loaded or analysed, nothing below it has   *)
(* lost its last use: the types.Packages that loadFromSource and the visit *)
(* of loadFromExportData walk through are there, and lp.pkg is not nil.    *)
TypesOutliveUsers ==
    \A p \in Packages : OwnUseHeld(p) => \A q \in Below(p) : dependents[q] > 0

(* decUse clears the types of a package only once every package above it   *)
(* has run all its analyzers.                                              *)
TypesClearedLast ==
    [][\A q \in Packages : (types[q] # None /\ types'[q] = None) =>
          \A p \in Packages : q \in Below(p) =>
              phase[p] \in {"decUse", "freeing", "release", "done"}]_vars

(* Analyzer.Run is only called on a package that type-checks together with *)
(* everything below it, and with all those types in memory.                *)
RunOnSoundTypes ==
    \A a \in Actions :
        (actState[a] = "running" /\ ~illTyped[a[2]] /\ LoadMode # LoadModeSyntax) =>
            \A q \in Below(a[2]) : /\ types[q] # None
                                   /\ src[q] \notin {"parseError", "typeError"}

(* A compile error anywhere below an initial package ends in an error of   *)
(* every root action on it: no linter reports "no issues" about code it    *)
(* could not see, and runAnalyzers does not save the issues to its cache.  *)
BrokenPackagesReported ==
    (outcome = "returned" /\ LoadMode # LoadModeSyntax) =>
        \A a \in Roots :
            (\E q \in Below(a[2]) : src[q] \in {"parseError", "typeError"}) => a \in errs

(* "Report an error if any dependency failures": a pass never starts when  *)
(* a prerequisite has failed (analyze, line 90).                           *)
NoPassOnFailedPrerequisite ==
    \A a \in Actions : actState[a] = "running" => \A d \in Deps(a) : err[d] = None

(* "Horizontal deps (analyzer.Requires) must be loaded from source and     *)
(* analyzed before analyzing this action" (markDepsForAnalyzingSource):    *)
(* a running pass finds the result of everything its analyzer requires.    *)
HorizontalDepsAnalyzed ==
    \A a \in Actions : actState[a] = "running" => \A d \in HorizontalDeps(a) : result[d]

(* "serialized facts produced by prerequisite analysis become available to *)
(* this analysis pass" (analyze, line 115): the pass can look up the facts *)
(* about its imports' own objects, that is, they are keyed by the          *)
(* types.Packages the pass sees.                                           *)
FactsOfImportsVisible ==
    \A a \in Actions : actState[a] = "running" =>
        \A d \in VerticalDeps(a) :
            (err[d] = None /\ d[2] \notin Unsafe) =>
                OwnFacts(d[2], types[d[2]]) \subseteq facts[a]

(* The accessors show "all facts, of all types, for all dependencies in    *)
(* the action graph" (inheritFacts, line 256): also the package facts, and *)
(* the facts about methods and types, of indirect imports.                 *)
FactsOfAllDepsVisible ==
    \A a \in Actions : (actState[a] = "running" /\ IsFact(a)) =>
        \A q \in Below(a[2]) \ ({a[2]} \cup Unsafe) :
            (\A r \in Below(a[2]) : err[<<a[1], r>>] = None) =>
                [kind |-> "wide", origin |-> q, types |-> types[q]] \in facts[a]

(* A pass has the results, and the facts, that it was promised, whatever   *)
(* else runs: with an empty facts cache all three hold.                    *)
PassInputsComplete ==
    HorizontalDepsAnalyzed /\ FactsOfImportsVisible /\ FactsOfAllDepsVisible

(* The runner keeps the promises of PackageSchedule.                       *)
StageOf(p) ==
    CASE phase[p] \in {"new", "imports"} -> "waiting"
      [] phase[p] \in {"load", "run"} -> "analysing"
      [] phase[p] \in {"decUse", "freeing", "release"} -> "analysed"
      [] phase[p] = "done" -> "finished"

Schedule == INSTANCE PackageSchedule WITH
                stage <- [p \in Packages |-> StageOf(p)],
                held  <- {p \in Packages : dependents[p] # 0}

FollowsSchedule == Schedule!ScheduleSpec

(* Every run ends, with any number of tokens: no cycle of waits on         *)
(* analyzeOnce, loadSem, the done channels and the decUse mutexes.         *)
RunTerminates == <>(outcome # "pending")
=============================================================================
