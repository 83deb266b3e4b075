------------------------ MODULE AnalysisRunnerProofs ------------------------
(***************************************************************************)
(* Proofs about AnalysisRunner for every import graph, every action graph  *)
(* and every number of tokens.                                             *)
(***************************************************************************)
EXTENDS AnalysisRunner, FiniteSetTheorems, TLAPS

(***************************************************************************)
(* The inductive invariant.  Typing is the part of TypeOK the reference    *)
(* counts and the semaphore need, without the bounds of the two counters:  *)
(* those follow from RefCount and AtMostMaxParallel.                       *)
(***************************************************************************)
Typing ==
    /\ phase \in [Packages -> Phases]
    /\ loadSem \in Int
    /\ dependents \in [Packages -> Int]
    /\ toRelease \in [Packages -> SUBSET Packages]
    /\ caller \in [Packages -> Packages \cup {None}]

(* A package that has begun to drop its imports has no user left, and the  *)
(* frame a package's own goroutine opened is the phase it is in.           *)
FramesOnUnused ==
    \A p \in Packages :
        /\ toRelease[p] \subseteq Imports[p]
        /\ (toRelease[p] # Imports[p] \/ caller[p] # None) => UsersOf(p) = {}
        /\ caller[p] = p => phase[p] = "freeing"

IInv == Typing /\ FramesOnUnused /\ RefCount /\ AtMostMaxParallel

-----------------------------------------------------------------------------
(* No package imports itself. *)
LEMMA NoSelfImport == \A p \in Packages : p \notin Imports[p]
<1>1. SUFFICES ASSUME NEW p \in Packages PROVE p \notin Imports[p]
  OBVIOUS
<1>2. {p} \in (SUBSET Packages) \ {{}}
  OBVIOUS
<1>3. \E x \in {p} : Imports[x] \cap {p} = {}
  BY <1>2, ImportsAcyclic DEF Acyclic
<1> QED
  BY <1>3

(* Every set of packages the proof counts is finite. *)
LEMMA FiniteSubsets ==
  ASSUME NEW S, S \subseteq Packages
  PROVE  IsFiniteSet(S) /\ Cardinality(S) \in Nat
BY PackagesAssumption, FS_Subset, FS_CardinalityType

LEMMA UsersFinite ==
  ASSUME NEW p \in Packages
  PROVE  UsersOf(p) \subseteq Packages /\ IsFiniteSet(UsersOf(p)) /\ Cardinality(UsersOf(p)) \in Nat
<1>1. UsersOf(p) \subseteq Packages
  BY DEF UsersOf
<1> QED
  BY <1>1, FiniteSubsets

-----------------------------------------------------------------------------
LEMMA InitIInv == Init => IInv
<1> SUFFICES ASSUME Init PROVE IInv
  OBVIOUS
<1> USE PackagesAssumption, RunnerAssumption
<1>1. Typing
  <2>1. \A p \in Packages : Importers(p) \subseteq Packages
    BY DEF Importers
  <2>2. \A p \in Packages : DependentsAtStart(p) \in Int
    BY <2>1, FiniteSubsets DEF DependentsAtStart
  <2> QED
    BY <2>2 DEF Init, Typing, Phases
<1>2. FramesOnUnused
  BY DEF Init, FramesOnUnused
<1>3. RefCount
  <2>1. SUFFICES ASSUME NEW p \in Packages PROVE dependents[p] = Cardinality(UsersOf(p))
    BY DEF RefCount
  <2>2. UsersOf(p) = Importers(p) \cup {p}
    BY DEF Init, UsersOf, OwnUseHeld, Importers
  <2>3. p \notin Importers(p) /\ Importers(p) \subseteq Packages
    BY NoSelfImport DEF Importers
  <2>4. Cardinality(Importers(p) \cup {p}) = Cardinality(Importers(p)) + 1
    BY <2>3, FiniteSubsets, FS_AddElement
  <2>5. Cardinality(Importers(p)) \in Nat
    BY <2>3, FiniteSubsets
  <2> QED
    BY <2>2, <2>4, <2>5 DEF Init, DependentsAtStart
<1>4. AtMostMaxParallel
  <2>1. {p \in Packages : HoldsToken(p)} = {}
    BY DEF Init, HoldsToken
  <2>2. loadSem = 0 /\ 0 <= MaxParallel
    BY DEF Init
  <2>3. Cardinality({p \in Packages : HoldsToken(p)}) = 0
    BY <2>1, FS_EmptySet
  <2> QED
    BY <2>2, <2>3 DEF AtMostMaxParallel
<1> QED
  BY <1>1, <1>2, <1>3, <1>4 DEF IInv

-----------------------------------------------------------------------------
(* Steps that leave the counters alone and do not start or end the use of  *)
(* a token or of the package itself.                                       *)
LEMMA QuietStep ==
  ASSUME IInv, UNCHANGED <<phase, loadSem, dependents, toRelease, caller>>
  PROVE  IInv'
BY DEF IInv, Typing, FramesOnUnused, RefCount, AtMostMaxParallel, UsersOf, OwnUseHeld, HoldsToken

LEMMA PhaseMove ==
  ASSUME IInv, NEW p \in Packages, NEW to \in Phases,
         phase' = [phase EXCEPT ![p] = to],
         UNCHANGED <<loadSem, dependents, toRelease, caller>>,
         phase[p] # "freeing",
         phase[p] \in {"release", "done"} <=> to \in {"freeing", "release", "done"},
         phase[p] \in {"new", "imports", "done"} <=> to \in {"new", "imports", "done"}
  PROVE  IInv'
<1> USE DEF IInv
<1>1. Typing'
  BY DEF Typing
<1>2. \A q \in Packages : OwnUseHeld(q)' = OwnUseHeld(q)
  BY DEF OwnUseHeld, Typing
<1>3. \A q \in Packages : UsersOf(q)' = UsersOf(q)
  BY <1>2 DEF UsersOf
<1>4. FramesOnUnused'
  BY <1>3 DEF FramesOnUnused, Typing
<1>5. RefCount'
  BY <1>3 DEF RefCount
<1>6. {q \in Packages : HoldsToken(q)}' = {q \in Packages : HoldsToken(q)}
  BY DEF HoldsToken, Typing
<1>7. AtMostMaxParallel'
  BY <1>6 DEF AtMostMaxParallel
<1> QED
  BY <1>1, <1>4, <1>5, <1>7

(* loadSem <- struct{}{} and <-loadSem. *)
LEMMA AcquireStep ==
  ASSUME IInv, NEW p \in Packages, Acquire(p)
  PROVE  IInv'
<1> USE DEF IInv
<1> DEFINE Holders == {q \in Packages : HoldsToken(q)}
<1>1. Typing'
  BY DEF Acquire, Typing, Phases, useVars
<1>2. \A q \in Packages : UsersOf(q)' = UsersOf(q)
  BY DEF Acquire, UsersOf, OwnUseHeld, Typing, useVars
<1>3. FramesOnUnused'
  BY <1>2 DEF FramesOnUnused, Typing, Acquire, useVars
<1>4. RefCount'
  BY <1>2 DEF RefCount, Acquire, useVars
<1>5. Holders' = Holders \cup {p} /\ p \notin Holders
  BY DEF Acquire, HoldsToken, Typing
<1>6. Holders \subseteq Packages
  OBVIOUS
<1>7. Cardinality(Holders') = Cardinality(Holders) + 1
  BY <1>5, <1>6, FiniteSubsets, FS_AddElement
<1>8. loadSem' = loadSem + 1 /\ loadSem + 1 <= MaxParallel
  BY RunnerAssumption DEF Acquire, TokenFree, Typing
<1>9. AtMostMaxParallel'
  BY <1>7, <1>8 DEF AtMostMaxParallel
<1> QED
  BY <1>1, <1>3, <1>4, <1>9

LEMMA ReleaseStep ==
  ASSUME IInv, NEW p \in Packages, Release(p)
  PROVE  IInv'
<1> USE DEF IInv
<1> DEFINE Holders == {q \in Packages : HoldsToken(q)}
<1>1. Typing'
  BY DEF Release, Typing, Phases, useVars
<1>2. \A q \in Packages : UsersOf(q)' = UsersOf(q)
  BY DEF Release, UsersOf, OwnUseHeld, Typing, useVars
<1>3. FramesOnUnused'
  BY <1>2 DEF FramesOnUnused, Typing, Release, useVars
<1>4. RefCount'
  BY <1>2 DEF RefCount, Release, useVars
<1>5. Holders' = Holders \ {p} /\ p \in Holders
  BY DEF Release, HoldsToken, Typing
<1>6. Holders \subseteq Packages
  OBVIOUS
<1>7. Cardinality(Holders') = Cardinality(Holders) - 1
  BY <1>5, <1>6, FiniteSubsets, FS_RemoveElement
<1>8. loadSem' = loadSem - 1 /\ loadSem - 1 <= MaxParallel
  BY RunnerAssumption DEF Release, AtMostMaxParallel, Typing
<1>9. AtMostMaxParallel'
  BY <1>7, <1>8 DEF AtMostMaxParallel
<1> QED
  BY <1>1, <1>3, <1>4, <1>9

-----------------------------------------------------------------------------
(* A call of decUse(p) takes exactly one user of p away and no other       *)
(* package's.                                                              *)
LEMMA CallTakesOneUser ==
  ASSUME IInv, NEW c \in Packages, NEW p \in Packages, Calls(c, p), DropUse(c, p),
         \/ c # p /\ phase' = phase
         \/ /\ c = p
            /\ \/ phase' = [phase EXCEPT ![p] = "release"]
               \/ phase' = [phase EXCEPT ![p] = "freeing"]
  PROVE  /\ c \in UsersOf(p)
         /\ UsersOf(p)' = UsersOf(p) \ {c}
         /\ \A q \in Packages \ {p} : UsersOf(q)' = UsersOf(q)
         /\ dependents'[p] = Cardinality(UsersOf(p)')
         /\ RefCount'
         /\ toRelease' \in [Packages -> SUBSET Packages]
<1> USE DEF IInv
<1>1. p \notin toRelease[p]
  BY NoSelfImport DEF FramesOnUnused
<1>2. c \in UsersOf(p)
  BY DEF Calls, UsersOf, OwnUseHeld
<1>3. UsersOf(p)' = UsersOf(p) \ {c}
  BY <1>1 DEF Calls, UsersOf, OwnUseHeld, DropUse, Typing
<1>4. \A q \in Packages \ {p} : UsersOf(q)' = UsersOf(q)
  BY DEF UsersOf, OwnUseHeld, DropUse, Typing
<1>5. Cardinality(UsersOf(p)') = Cardinality(UsersOf(p)) - 1
  BY <1>2, <1>3, UsersFinite, FS_RemoveElement
<1>6. dependents'[p] = dependents[p] - 1 /\ dependents[p] = Cardinality(UsersOf(p))
  BY DEF DropUse, Typing, RefCount
<1>7. dependents'[p] = Cardinality(UsersOf(p)')
  BY <1>5, <1>6
<1>8. \A q \in Packages \ {p} : dependents'[q] = dependents[q]
  BY DEF DropUse, Typing
<1>9. RefCount'
  BY <1>4, <1>7, <1>8 DEF RefCount
<1>10. toRelease' \in [Packages -> SUBSET Packages]
  BY DEF DropUse, Typing
<1> QED
  BY <1>2, <1>3, <1>4, <1>7, <1>9, <1>10

(* The importer that calls is in a frame of its own, so it has no users;   *)
(* p has none left if the call was the last use.                           *)
LEMMA CallKeepsFrames ==
  ASSUME IInv, NEW c \in Packages, NEW p \in Packages, Calls(c, p), DropUse(c, p),
         UsersOf(p)' = UsersOf(p) \ {c},
         \A q \in Packages \ {p} : UsersOf(q)' = UsersOf(q),
         NEW q \in Packages
  PROVE  /\ toRelease'[q] \subseteq Imports[q]
         /\ toRelease'[q] # Imports[q] => UsersOf(q)' = {}
         /\ caller[q] # None => UsersOf(q)' = {}
<1> USE DEF IInv
<1>1. toRelease'[q] \subseteq Imports[q]
  BY DEF DropUse, FramesOnUnused, Typing
<1>2. UsersOf(q) = {} => UsersOf(q)' = {}
  BY DEF FramesOnUnused
<1>3. caller[q] # None => UsersOf(q)' = {}
  BY <1>2 DEF FramesOnUnused
<1>4. ASSUME toRelease'[q] # Imports[q] PROVE UsersOf(q)' = {}
  <2>1. CASE toRelease[q] # Imports[q]
    BY <2>1, <1>2 DEF FramesOnUnused
  <2>2. CASE toRelease[q] = Imports[q]
    <3>1. q = c /\ c # p
      BY <1>4, <2>2 DEF DropUse, Typing
    <3>2. caller[q] # None
      BY <3>1 DEF Calls
    <3> QED
      BY <3>2, <1>3
  <2> QED
    BY <2>1, <2>2
<1> QED
  BY <1>1, <1>3, <1>4

(* decUse runs while the package holds its token. *)
LEMMA CallKeepsTokens ==
  ASSUME IInv, NEW c \in Packages, NEW p \in Packages, Calls(c, p), loadSem' = loadSem,
         \/ c # p /\ phase' = phase
         \/ /\ c = p
            /\ \/ phase' = [phase EXCEPT ![p] = "release"]
               \/ phase' = [phase EXCEPT ![p] = "freeing"]
  PROVE  AtMostMaxParallel'
<1>1. {q \in Packages : HoldsToken(q)}' = {q \in Packages : HoldsToken(q)}
  BY DEF Calls, HoldsToken, IInv, Typing
<1> QED
  BY <1>1 DEF AtMostMaxParallel, IInv

LEMMA DecUseStillUsedStep ==
  ASSUME IInv, NEW c \in Packages, NEW p \in Packages, DecUseStillUsed(c, p)
  PROVE  IInv'
<1> USE DEF IInv
<1>1. Calls(c, p) /\ DropUse(c, p) /\ loadSem' = loadSem /\ caller' = caller
  BY DEF DecUseStillUsed
<1>2. \/ c # p /\ phase' = phase
      \/ c = p /\ phase' = [phase EXCEPT ![p] = "release"]
  BY DEF DecUseStillUsed
<1>3. /\ UsersOf(p)' = UsersOf(p) \ {c}
      /\ \A q \in Packages \ {p} : UsersOf(q)' = UsersOf(q)
      /\ RefCount'
      /\ toRelease' \in [Packages -> SUBSET Packages]
  BY <1>1, <1>2, CallTakesOneUser
<1>4. Typing'
  BY <1>1, <1>2, <1>3 DEF Typing, Phases, DropUse
<1>5. ASSUME NEW q \in Packages
      PROVE  /\ toRelease'[q] \subseteq Imports[q]
             /\ toRelease'[q] # Imports[q] => UsersOf(q)' = {}
             /\ caller[q] # None => UsersOf(q)' = {}
  BY <1>1, <1>3, <1>5, CallKeepsFrames
<1>6. \A q \in Packages : caller'[q] = q => phase'[q] = "freeing"
  BY <1>1, <1>2 DEF FramesOnUnused, Calls, Typing
<1>7. FramesOnUnused'
  BY <1>1, <1>5, <1>6 DEF FramesOnUnused
<1>8. AtMostMaxParallel'
  BY <1>1, <1>2, CallKeepsTokens
<1> QED
  BY <1>3, <1>4, <1>7, <1>8

LEMMA DecUseLastStep ==
  ASSUME IInv, NEW c \in Packages, NEW p \in Packages, DecUseLast(c, p)
  PROVE  IInv' /\ UsersOf(p)' = {}
<1> USE DEF IInv
<1>1. /\ Calls(c, p) /\ DropUse(c, p) /\ LastUse(p) /\ loadSem' = loadSem
      /\ caller' = [caller EXCEPT ![p] = c]
  BY DEF DecUseLast
<1>2. \/ c # p /\ phase' = phase
      \/ c = p /\ phase' = [phase EXCEPT ![p] = "freeing"]
  BY DEF DecUseLast
<1>3. /\ UsersOf(p)' = UsersOf(p) \ {c}
      /\ \A q \in Packages \ {p} : UsersOf(q)' = UsersOf(q)
      /\ dependents'[p] = Cardinality(UsersOf(p)')
      /\ RefCount'
      /\ toRelease' \in [Packages -> SUBSET Packages]
  BY <1>1, <1>2, CallTakesOneUser
<1>4. Typing'
  BY <1>1, <1>2, <1>3 DEF Typing, Phases, DropUse
<1>5. UsersOf(p)' = {}
  <2>1. dependents'[p] = 0
    BY <1>1 DEF LastUse, DropUse, Typing
  <2>2. IsFiniteSet(UsersOf(p)')
    BY <1>3, UsersFinite, FS_RemoveElement
  <2> QED
    BY <2>1, <2>2, <1>3, FS_EmptySet
<1>6. ASSUME NEW q \in Packages
      PROVE  /\ toRelease'[q] \subseteq Imports[q]
             /\ toRelease'[q] # Imports[q] => UsersOf(q)' = {}
             /\ caller[q] # None => UsersOf(q)' = {}
  BY <1>1, <1>3, <1>6, CallKeepsFrames
<1>7. \A q \in Packages : caller'[q] # None => UsersOf(q)' = {}
  BY <1>1, <1>5, <1>6 DEF Typing
<1>8. \A q \in Packages : caller'[q] = q => phase'[q] = "freeing"
  BY <1>1, <1>2 DEF FramesOnUnused, Calls, Typing
<1>9. FramesOnUnused'
  BY <1>6, <1>7, <1>8 DEF FramesOnUnused
<1>10. AtMostMaxParallel'
  BY <1>1, <1>2, CallKeepsTokens
<1> QED
  BY <1>3, <1>4, <1>5, <1>9, <1>10

LEMMA DecUseReturnStep ==
  ASSUME IInv, NEW p \in Packages, DecUseReturn(p)
  PROVE  IInv'
<1> USE DEF IInv
<1>1. /\ caller[p] # None /\ caller' = [caller EXCEPT ![p] = None]
      /\ UNCHANGED <<loadSem, dependents, toRelease>>
      /\ phase' = IF caller[p] = p THEN [phase EXCEPT ![p] = "release"] ELSE phase
  BY DEF DecUseReturn
<1>2. caller[p] = p => phase[p] = "freeing"
  BY DEF FramesOnUnused
<1>3. Typing'
  BY <1>1 DEF Typing, Phases
<1>4. \A q \in Packages : OwnUseHeld(q)' = OwnUseHeld(q) /\ HoldsToken(q)' = HoldsToken(q)
  BY <1>1, <1>2 DEF OwnUseHeld, HoldsToken, Typing
<1>5. \A q \in Packages : UsersOf(q)' = UsersOf(q)
  BY <1>1, <1>4 DEF UsersOf
<1>6. FramesOnUnused'
  BY <1>1, <1>5, RunnerAssumption DEF FramesOnUnused, Typing
<1>7. RefCount'
  BY <1>1, <1>5 DEF RefCount
<1>8. {q \in Packages : HoldsToken(q)}' = {q \in Packages : HoldsToken(q)}
  BY <1>4
<1>9. AtMostMaxParallel'
  BY <1>1, <1>8 DEF AtMostMaxParallel
<1> QED
  BY <1>3, <1>6, <1>7, <1>9

-----------------------------------------------------------------------------
LEMMA NextIInv == IInv /\ [Next]_vars => IInv'
<1> SUFFICES ASSUME IInv, [Next]_vars PROVE IInv'
  OBVIOUS
<1>1. ASSUME NEW p \in Packages, PackageStep(p) PROVE IInv'
  <2> USE DEF useVars, Phases
  <2>1. CASE Begin(p)
    BY <2>1, PhaseMove DEF Begin
  <2>2. CASE Acquire(p)
    BY <2>2, AcquireStep
  <2>3. CASE LoadUnsafe(p)
    BY <2>3, PhaseMove DEF LoadUnsafe
  <2>4. CASE LoadInitial(p)
    BY <2>4, PhaseMove DEF LoadInitial
  <2>5. CASE LoadFails(p)
    BY <2>5, PhaseMove DEF LoadFails
  <2>6. CASE LoadImported(p)
    BY <2>6, PhaseMove DEF LoadImported
  <2>7. CASE ActionsFinished(p)
    BY <2>7, PhaseMove DEF ActionsFinished
  <2>8. CASE DecUseReturn(p)
    BY <2>8, DecUseReturnStep
  <2>9. CASE Release(p)
    BY <2>9, ReleaseStep
  <2> QED
    BY <1>1, <2>1, <2>2, <2>3, <2>4, <2>5, <2>6, <2>7, <2>8, <2>9 DEF PackageStep
<1>2. ASSUME NEW c \in Packages, NEW p \in Packages, DecUseStep(c, p) PROVE IInv'
  BY <1>2, DecUseStillUsedStep, DecUseLastStep DEF DecUseStep
<1>3. ASSUME NEW a \in Actions, ActionStep(a) PROVE IInv'
  <2>1. UNCHANGED <<phase, loadSem, dependents, toRelease, caller>>
    BY <1>3 DEF ActionStep, SkipAction, FailPrerequisites, StartPass, RunIllTyped,
                RunSucceeds, RunFails, RunPanics, Recover, pkgVars, useVars
  <2> QED
    BY <2>1, QuietStep
<1>4. CASE Extract
  BY <1>4, QuietStep DEF Extract, pkgVars, useVars
<1>5. CASE UNCHANGED vars
  BY <1>5, QuietStep DEF vars, pkgVars, useVars
<1> QED
  BY <1>1, <1>2, <1>3, <1>4, <1>5 DEF Next, Finished

(* The inductive invariant holds of every run. *)
THEOREM InductiveInvariant == Spec => []IInv
BY InitIInv, NextIInv, PTL DEF Spec

(* Reference counts are exact in every run: no interleaving of decUse      *)
(* calls loses or repeats a decrement of lp.dependents.                    *)
THEOREM RefCountCorrect == Spec => []RefCount
<1>1. IInv => RefCount
  BY DEF IInv
<1> QED
  BY <1>1, InductiveInvariant, PTL

(* The semaphore is never over its capacity nor under zero, and counts the *)
(* packages that are loaded, analysed or released.                         *)
THEOREM SemaphoreCorrect == Spec => []AtMostMaxParallel
<1>1. IInv => AtMostMaxParallel
  BY DEF IInv
<1> QED
  BY <1>1, InductiveInvariant, PTL

-----------------------------------------------------------------------------
(* A package with a user keeps all its imports, so the packages with users *)
(* are closed under Imports and contain everything below one of them.      *)
LEMMA UsedBelow ==
  ASSUME IInv, NEW p \in Packages, UsersOf(p) # {}, NEW q \in Below(p)
  PROVE  q \in Packages /\ UsersOf(q) # {}
<1> DEFINE Used == {r \in Packages : UsersOf(r) # {}}
<1>1. \A r \in Used : toRelease[r] = Imports[r]
  BY DEF IInv, FramesOnUnused
<1>2. ASSUME NEW r \in Used, NEW i \in Imports[r] PROVE i \in Used
  <2>1. i \in Packages
    BY PackagesAssumption
  <2>2. r \in UsersOf(i)
    BY <1>1 DEF UsersOf
  <2> QED
    BY <2>1, <2>2
<1>3. ClosedUnderImports(Used)
  BY <1>2 DEF ClosedUnderImports
<1>4. Used \in SUBSET Packages /\ p \in Used
  OBVIOUS
<1>5. q \in Used
  BY <1>3, <1>4 DEF Below
<1> QED
  BY <1>5

LEMMA OutliveFromIInv == IInv => TypesOutliveUsers
<1> SUFFICES ASSUME IInv, NEW p \in Packages, OwnUseHeld(p), NEW q \in Below(p)
             PROVE  dependents[q] > 0
  BY DEF TypesOutliveUsers
<1>1. UsersOf(p) # {}
  BY DEF UsersOf
<1>2. q \in Packages /\ UsersOf(q) # {}
  BY <1>1, UsedBelow
<1>3. Cardinality(UsersOf(q)) # 0 /\ Cardinality(UsersOf(q)) \in Nat
  BY <1>2, UsersFinite, FS_EmptySet
<1>4. dependents[q] = Cardinality(UsersOf(q))
  BY <1>2 DEF IInv, RefCount
<1> QED
  BY <1>3, <1>4

(* While a package is loaded or analysed no package below it has been      *)
(* freed, however the releases of other packages interleave.               *)
THEOREM TypesOutliveUsersCorrect == Spec => []TypesOutliveUsers
BY InductiveInvariant, OutliveFromIInv, PTL

-----------------------------------------------------------------------------
(* Type correctness: the part of TypeOK that IInv does not imply.          *)
DataTyping ==
    /\ src \in [Packages -> {"ok", "parseError", "typeError", "noExport"}]
    /\ cached \in [Actions -> {"missing", "complete", "partial"}]
    /\ types \in [Packages -> Gens \cup {None}]
    /\ illTyped \in [Packages -> BOOLEAN]
    /\ errors \in [Packages -> BOOLEAN]
    /\ need \in [Actions -> BOOLEAN]
    /\ actState \in [Actions -> ActStates]
    /\ pass \in [Actions -> {"nil", "set", "cleared"}]
    /\ result \in [Actions -> BOOLEAN]
    /\ err \in [Actions -> PlainErrors \cup WrappedErrors \cup {None}]
    /\ facts \in [Actions -> SUBSET Facts]
    /\ outcome \in {"pending", "returned", "panicked"}
    /\ errs \subseteq Actions

LEMMA TypingParts == IInv /\ DataTyping => TypeOK
<1> SUFFICES ASSUME IInv, DataTyping PROVE TypeOK
  OBVIOUS
<1>1. {p \in Packages : HoldsToken(p)} \subseteq Packages
  OBVIOUS
<1>2. loadSem \in 0..MaxParallel
  BY <1>1, FiniteSubsets, RunnerAssumption DEF IInv, AtMostMaxParallel
<1>3. dependents \in [Packages -> Nat]
  BY UsersFinite DEF IInv, RefCount, Typing
<1> QED
  BY <1>2, <1>3 DEF TypeOK, DataTyping, IInv, Typing

(* The action graph is closed under dependencies. *)
LEMMA ActionGraphClosed ==
  /\ Actions \subseteq Keys
  /\ \A a \in Actions : Deps(a) \subseteq Actions
<1>1. Actions \subseteq Keys
  BY DEF Actions
<1>2. ASSUME NEW a \in Actions, NEW d \in Deps(a) PROVE d \in Actions
  <2>1. a \in Keys /\ a[1] \in Analyzers /\ a[2] \in Packages
    BY DEF Actions, Keys
  <2>2. d \in Keys
    <3>1. CASE d \in HorizontalDeps(a)
      BY <3>1, <2>1, AnalyzersAssumption DEF HorizontalDeps, Keys
    <3>2. CASE d \in VerticalDeps(a)
      BY <3>2, <2>1, PackagesAssumption DEF VerticalDeps, Keys
    <3> QED
      BY <3>1, <3>2 DEF Deps
  <2>3. SUFFICES ASSUME NEW S \in SUBSET Keys,
                        Roots \subseteq S /\ \A x \in S : Deps(x) \subseteq S
                 PROVE  d \in S
    BY <2>2 DEF Actions
  <2>4. a \in S
    BY <2>3 DEF Actions
  <2> QED
    BY <2>3, <2>4
<1> QED
  BY <1>1, <1>2

LEMMA FactTypes ==
  ASSUME DataTyping
  PROVE  /\ \A p \in Packages, gen \in Gens \cup {None} : OwnFacts(p, gen) \subseteq Facts
         /\ \A a \in Actions : InheritedFacts(a) \subseteq Facts
<1>1. \A p \in Packages, gen \in Gens \cup {None} : OwnFacts(p, gen) \subseteq Facts
  BY DEF OwnFacts, Facts
<1>2. ASSUME NEW a \in Actions PROVE InheritedFacts(a) \subseteq Facts
  <2>1. VerticalDeps(a) \subseteq Actions
    BY ActionGraphClosed DEF Deps
  <2> QED
    BY <2>1 DEF InheritedFacts, DataTyping
<1> QED
  BY <1>1, <1>2

LEMMA SourceTyping ==
  ASSUME DataTyping, NEW p \in Packages, NEW before \in Gens \cup {None}, LoadFromSource(p, before)
  PROVE  /\ types' \in [Packages -> Gens \cup {None}]
         /\ illTyped' \in [Packages -> BOOLEAN]
<1>1. types' \in [Packages -> Gens \cup {None}]
  BY DEF DataTyping, LoadFromSource, Gens
<1>2. SourceErrors(p) \in BOOLEAN
  BY DEF SourceErrors
<1>3. illTyped' \in [Packages -> BOOLEAN]
  BY <1>2 DEF DataTyping, LoadFromSource
<1> QED
  BY <1>1, <1>3

LEMMA NextDataTyping == DataTyping /\ IInv /\ [Next]_vars => DataTyping'
<1> SUFFICES ASSUME DataTyping, IInv, [Next]_vars PROVE DataTyping'
  OBVIOUS
<1> USE DEF DataTyping
<1>1. ASSUME NEW p \in Packages, PackageStep(p) PROVE DataTyping'
  <2> USE DEF diskVars, actVars, endVars
  <2>0. types[p] \in Gens \cup {None} /\ "new" \in Gens \cup {None}
    BY DEF Gens
  <2>1. CASE Begin(p) \/ Acquire(p) \/ ActionsFinished(p) \/ Release(p)
    BY <2>1 DEF Begin, Acquire, ActionsFinished, Release
  <2>2. CASE LoadUnsafe(p)
    BY <2>2 DEF LoadUnsafe, Gens
  <2>3. CASE LoadInitial(p)
    <3>1. SourceErrors(p) \in BOOLEAN
      BY DEF SourceErrors
    <3> QED
      BY <2>0, <2>3, <3>1, SourceTyping DEF LoadInitial
  <2>4. CASE LoadFails(p)
    <3>1. types' \in [Packages -> Gens \cup {None}] /\ illTyped' \in [Packages -> BOOLEAN]
      BY <2>0, <2>4, SourceTyping DEF LoadFails
    <3> QED
      BY <2>4, <3>1 DEF LoadFails, ActStates, WrappedErrors
  <2>5. CASE LoadImported(p)
    <3>1. facts' \in [Actions -> SUBSET Facts]
      <4>1. OwnFacts(p, "export") \subseteq Facts
        BY FactTypes DEF Gens
      <4> QED
        BY <2>5, <4>1 DEF LoadImported
    <3>2. /\ types' \in [Packages -> Gens \cup {None}]
          /\ illTyped' \in [Packages -> BOOLEAN]
          /\ errors' \in [Packages -> BOOLEAN]
      <4>1. CASE LoadFromSource(p, "new") /\ errors' = [errors EXCEPT ![p] = SourceErrors(p)]
        <5>1. SourceErrors(p) \in BOOLEAN
          BY DEF SourceErrors
        <5> QED
          BY <2>0, <4>1, <5>1, SourceTyping
      <4>2. CASE /\ types' = [types EXCEPT ![p] = IF LoadMode # LoadModeSyntax THEN "export" ELSE @]
                 /\ UNCHANGED <<illTyped, errors>>
        BY <4>2 DEF Gens
      <4> QED
        BY <2>5, <4>1, <4>2 DEF LoadImported
    <3> QED
      BY <2>5, <3>1, <3>2 DEF LoadImported
  <2>6. CASE DecUseReturn(p)
    BY <2>6 DEF DecUseReturn
  <2> QED
    BY <1>1, <2>1, <2>2, <2>3, <2>4, <2>5, <2>6 DEF PackageStep
<1>2. ASSUME NEW c \in Packages, NEW p \in Packages, DecUseStep(c, p) PROVE DataTyping'
  <2>1. ASSUME ClearActions(p)
        PROVE  /\ pass' \in [Actions -> {"nil", "set", "cleared"}]
               /\ result' \in [Actions -> BOOLEAN]
    BY <2>1 DEF ClearActions
  <2>2. CASE DecUseStillUsed(c, p)
    BY <2>1, <2>2 DEF DecUseStillUsed, diskVars, endVars
  <2>3. CASE DecUseLast(c, p)
    BY <2>1, <2>3 DEF DecUseLast, diskVars, endVars
  <2> QED
    BY <1>2, <2>2, <2>3 DEF DecUseStep
<1>3. ASSUME NEW a \in Actions, ActionStep(a) PROVE DataTyping'
  <2> USE DEF diskVars, pkgVars, endVars, ActStates, PlainErrors, WrappedErrors
  <2>1. CASE SkipAction(a) \/ RunPanics(a)
    BY <2>1 DEF SkipAction, RunPanics
  <2>2. CASE FailPrerequisites(a)
    BY <2>2 DEF FailPrerequisites
  <2>3. CASE StartPass(a)
    <3>1. facts' \in [Actions -> SUBSET Facts]
      BY <2>3, FactTypes DEF StartPass
    <3> QED
      BY <2>3, <3>1 DEF StartPass
  <2>4. CASE RunIllTyped(a)
    BY <2>4 DEF RunIllTyped, PersistFacts
  <2>5. CASE RunSucceeds(a)
    <3>1. a[2] \in Packages
      BY ActionGraphClosed DEF Keys
    <3>2. OwnFacts(a[2], types[a[2]]) \subseteq Facts
      BY <3>1, FactTypes
    <3>3. facts' \in [Actions -> SUBSET Facts]
      BY <2>5, <3>2 DEF RunSucceeds
    <3>4. cached' \in [Actions -> {"missing", "complete", "partial"}]
      BY <2>5 DEF RunSucceeds, PersistFacts
    <3> QED
      BY <2>5, <3>3, <3>4 DEF RunSucceeds
  <2>6. CASE RunFails(a)
    BY <2>6 DEF RunFails, PersistFacts
  <2>7. CASE Recover(a)
    BY <2>7 DEF Recover
  <2> QED
    BY <1>3, <2>1, <2>2, <2>3, <2>4, <2>5, <2>6, <2>7 DEF ActionStep
<1>4. CASE Extract
  BY <1>4 DEF Extract, diskVars, pkgVars, actVars, Visited
<1>5. CASE UNCHANGED vars
  BY <1>5 DEF vars, diskVars, pkgVars, actVars, endVars
<1> QED
  BY <1>1, <1>2, <1>3, <1>4, <1>5 DEF Next, Finished

LEMMA InitDataTyping == Init => DataTyping
BY RunnerAssumption DEF Init, DataTyping, ActStates

LEMMA DataTypingCorrect == Spec => []DataTyping
BY InductiveInvariant, InitDataTyping, NextDataTyping, PTL DEF Spec

(* Every variable keeps its type; in particular the channel loadSem never  *)
(* holds more than MaxParallel tokens and lp.dependents is never negative. *)
THEOREM TypeCorrect == Spec => []TypeOK
BY DataTypingCorrect, InductiveInvariant, TypingParts, PTL

-----------------------------------------------------------------------------
(* The runner implements PackageSchedule. *)
AboveIsDone(q) ==
    \A p \in Packages : q \in Below(p) =>
        phase[p] \in {"decUse", "freeing", "release", "done"}

(* After the last use of a package everything above it has been analysed.  *)
LEMMA LastUseAboveIsDone ==
  ASSUME IInv, NEW c \in Packages, NEW q \in Packages, DecUseLast(c, q)
  PROVE  AboveIsDone(q)
<1>1. IInv' /\ UsersOf(q)' = {}
  BY DecUseLastStep
<1>2. ASSUME NEW p \in Packages, q \in Below(p) PROVE ~OwnUseHeld(p)'
  <2>1. IInv' => TypesOutliveUsers'
    BY OutliveFromIInv, PTL
  <2>2. dependents'[q] = 0
    BY <1>1, FS_EmptySet DEF IInv, RefCount
  <2> QED
    BY <1>1, <1>2, <2>1, <2>2 DEF TypesOutliveUsers, Below
<1>3. ASSUME NEW p \in Packages, ~OwnUseHeld(p)'
      PROVE  phase[p] \in {"decUse", "freeing", "release", "done"}
  BY <1>3 DEF DecUseLast, Calls, OwnUseHeld, IInv, Typing
<1> QED
  BY <1>2, <1>3 DEF AboveIsDone

(* Only the last decUse of a package clears its types.                     *)
LEMMA OnlyLastUseClears ==
  ASSUME IInv, DataTyping, [Next]_vars,
         NEW q \in Packages, types[q] # None, types'[q] = None
  PROVE  \E c \in Packages : DecUseLast(c, q)
<1>0. types \in [Packages -> Gens \cup {None}]
  BY DEF DataTyping
<1>1. ASSUME NEW p \in Packages, PackageStep(p) PROVE FALSE
  <2>0. ASSUME NEW gen \in Gens \cup {types[p]}, types' = [types EXCEPT ![p] = gen]
        PROVE  FALSE
    BY <1>0, <2>0, RunnerAssumption
  <2>1. types' # types
    OBVIOUS
  <2>2. ~(\/ Begin(p) \/ Acquire(p) \/ ActionsFinished(p)
          \/ DecUseReturn(p) \/ Release(p))
    BY <2>1 DEF Begin, Acquire, ActionsFinished, DecUseReturn, Release
  <2>3. ~LoadUnsafe(p)
    BY <2>0 DEF LoadUnsafe, Gens
  <2>4. ASSUME NEW before \in Gens \cup {types[p]}, LoadFromSource(p, before) PROVE FALSE
    BY <2>0, <2>4 DEF LoadFromSource, Gens
  <2>5. ~LoadInitial(p) /\ ~LoadFails(p)
    BY <2>4 DEF LoadInitial, LoadFails, Gens
  <2>6. ~LoadImported(p)
    BY <2>0, <2>4 DEF LoadImported, Gens
  <2> QED
    BY <1>1, <2>2, <2>3, <2>5, <2>6 DEF PackageStep
<1>2. ASSUME NEW c \in Packages, NEW p \in Packages, DecUseStep(c, p)
      PROVE  DecUseLast(c, q)
  <2>1. DecUseLast(c, p)
    BY <1>2 DEF DecUseStep, DecUseStillUsed
  <2>2. p = q
    BY <1>0, <2>1 DEF DecUseLast
  <2> QED
    BY <2>1, <2>2
<1>3. ASSUME NEW a \in Actions, ActionStep(a) PROVE FALSE
  BY <1>3 DEF ActionStep, SkipAction, FailPrerequisites, StartPass, RunIllTyped,
              RunSucceeds, RunFails, RunPanics, Recover, pkgVars
<1>4. ~(Extract \/ UNCHANGED vars)
  BY DEF Extract, vars, pkgVars
<1> QED
  BY <1>1, <1>2, <1>3, <1>4 DEF Next, Finished

(* decUse clears the types of a package only once every package above it   *)
(* has run all its analyzers, through every order of the decUse calls.     *)
THEOREM TypesClearedLastCorrect == Spec => TypesClearedLast
<1> DEFINE Clearing(q) == types[q] # None /\ types'[q] = None
<1>1. ASSUME IInv, DataTyping, [Next]_vars, NEW q \in Packages, Clearing(q)
      PROVE  AboveIsDone(q)
  BY <1>1, OnlyLastUseClears, LastUseAboveIsDone
<1>2. IInv /\ DataTyping /\ [Next]_vars =>
        [\A q \in Packages : (types[q] # None /\ types'[q] = None) =>
            \A p \in Packages : q \in Below(p) =>
                phase[p] \in {"decUse", "freeing", "release", "done"}]_vars
  BY <1>1 DEF AboveIsDone
<1> QED
  BY <1>2, InductiveInvariant, DataTypingCorrect, PTL DEF Spec, TypesClearedLast

(* Each kind of step of the runner is a step of the schedule or a stutter. *)
ScheduleStep ==
    \/ \E p \in Packages : Schedule!Start(p) \/ Schedule!Conclude(p)
                             \/ Schedule!Forget(p) \/ Schedule!Leave(p)
    \/ UNCHANGED <<[p \in Packages |-> StageOf(p)], {p \in Packages : dependents[p] # 0}>>

LEMMA StageMove ==
  ASSUME Typing, NEW p \in Packages, NEW to \in Phases, phase' = [phase EXCEPT ![p] = to]
  PROVE  [q \in Packages |-> StageOf(q)]' =
            [[q \in Packages |-> StageOf(q)] EXCEPT ![p] = StageOf(p)']
BY DEF Typing, StageOf, Phases

LEMMA AcquireStarts ==
  ASSUME IInv, NEW p \in Packages, Acquire(p)
  PROVE  Schedule!Start(p)
<1>1. StageOf(p) = "waiting" /\ StageOf(p)' = "analysing"
  BY DEF Acquire, StageOf, IInv, Typing
<1>2. \A imp \in Imports[p] : imp \in Packages /\ StageOf(imp) = "finished"
  BY PackagesAssumption DEF Acquire, StageOf
<1>3. Schedule!Occupied = {q \in Packages : HoldsToken(q)}
  BY DEF Schedule!Occupied, StageOf, HoldsToken, IInv, Typing, Phases
<1>4. Schedule!Cardinality(Schedule!Occupied) < MaxParallel
  <2>1. Schedule!Cardinality(Schedule!Occupied) = Cardinality(Schedule!Occupied)
    BY Zenon DEF Schedule!Cardinality, Cardinality
  <2> QED
    BY <1>3, <2>1 DEF Acquire, TokenFree, IInv, AtMostMaxParallel
<1>5. [q \in Packages |-> StageOf(q)]' =
         [[q \in Packages |-> StageOf(q)] EXCEPT ![p] = "analysing"]
  BY <1>1, StageMove DEF Acquire, IInv, Phases
<1>6. {q \in Packages : dependents[q] # 0}' = {q \in Packages : dependents[q] # 0}
  BY DEF Acquire, useVars
<1>7. [q \in Packages |-> StageOf(q)][p] = "waiting"
  BY <1>1
<1>8. \A imp \in Imports[p] : [q \in Packages |-> StageOf(q)][imp] = "finished"
  BY <1>2
<1> QED
  BY <1>4, <1>5, <1>6, <1>7, <1>8, Zenon DEF Schedule!Start

LEMMA AnalysisConcludes ==
  ASSUME IInv, NEW p \in Packages, LoadFails(p) \/ ActionsFinished(p)
  PROVE  Schedule!Conclude(p)
<1>1. phase' = [phase EXCEPT ![p] = "decUse"] /\ phase[p] \in {"load", "run"} /\ dependents' = dependents
  BY DEF LoadFails, ActionsFinished, useVars
<1>2. StageOf(p) = "analysing" /\ StageOf(p)' = "analysed"
  BY <1>1 DEF StageOf, IInv, Typing
<1>3. [q \in Packages |-> StageOf(q)]' =
         [[q \in Packages |-> StageOf(q)] EXCEPT ![p] = "analysed"]
  BY <1>1, <1>2, StageMove DEF IInv, Phases
<1> QED
  BY <1>1, <1>2, <1>3 DEF Schedule!Conclude

LEMMA ReleaseLeaves ==
  ASSUME IInv, NEW p \in Packages, Release(p)
  PROVE  Schedule!Leave(p)
<1>1. StageOf(p) = "analysed" /\ StageOf(p)' = "finished"
  BY DEF Release, StageOf, IInv, Typing
<1>2. [q \in Packages |-> StageOf(q)]' =
         [[q \in Packages |-> StageOf(q)] EXCEPT ![p] = "finished"]
  BY <1>1, StageMove DEF Release, IInv, Phases
<1>3. {q \in Packages : dependents[q] # 0}' = {q \in Packages : dependents[q] # 0}
  BY DEF Release, useVars
<1> QED
  BY <1>1, <1>2, <1>3 DEF Schedule!Leave

(* The stage of a package does not change while it drops its uses. *)
LEMMA DropKeepsStages ==
  ASSUME IInv, NEW c \in Packages, NEW p \in Packages, Calls(c, p),
         \/ c # p /\ phase' = phase
         \/ /\ c = p
            /\ \/ phase' = [phase EXCEPT ![p] = "release"]
               \/ phase' = [phase EXCEPT ![p] = "freeing"]
  PROVE  [q \in Packages |-> StageOf(q)]' = [q \in Packages |-> StageOf(q)]
<1>1. caller[p] = None /\ (c = p => phase[p] = "decUse")
  BY DEF Calls
<1>2. ASSUME NEW q \in Packages PROVE StageOf(q)' = StageOf(q)
  BY <1>1 DEF StageOf, IInv, Typing, Phases
<1> QED
  BY <1>2

LEMMA LastUseForgets ==
  ASSUME IInv, NEW c \in Packages, NEW p \in Packages, DecUseLast(c, p)
  PROVE  Schedule!Forget(p)
<1>1. dependents[p] = 1 /\ dependents' = [dependents EXCEPT ![p] = 0]
  BY DEF DecUseLast, LastUse, DropUse, IInv, Typing
<1>2. {q \in Packages : dependents[q] # 0}' = {q \in Packages : dependents[q] # 0} \ {p}
  BY <1>1 DEF IInv, Typing
<1>3. \A q \in Packages : p \in Schedule!Below(q) => p \in Below(q)
  BY DEF Schedule!Below, Below, Schedule!ClosedUnderImports, ClosedUnderImports
<1>4. \A q \in Packages : p \in Below(q) => StageOf(q) \in {"analysed", "finished"}
  BY LastUseAboveIsDone DEF AboveIsDone, StageOf
<1>5. [q \in Packages |-> StageOf(q)]' = [q \in Packages |-> StageOf(q)]
  BY DropKeepsStages DEF DecUseLast
<1> QED
  BY <1>1, <1>2, <1>3, <1>4, <1>5 DEF Schedule!Forget

LEMMA StillUsedStutters ==
  ASSUME IInv, IInv', NEW c \in Packages, NEW p \in Packages, DecUseStillUsed(c, p)
  PROVE  ScheduleStep
<1>1. dependents[p] # 1 /\ dependents[p] \in Int /\ dependents' = [dependents EXCEPT ![p] = @ - 1]
  BY DEF DecUseStillUsed, LastUse, DropUse, IInv, Typing
<1>2. c \in UsersOf(p)
  BY CallTakesOneUser DEF DecUseStillUsed
<1>3. dependents[p] # 0
  BY <1>2, UsersFinite, FS_EmptySet DEF IInv, RefCount
<1>4. {q \in Packages : dependents[q] # 0}' = {q \in Packages : dependents[q] # 0}
  BY <1>1, <1>3 DEF IInv, Typing
<1>5. [q \in Packages |-> StageOf(q)]' = [q \in Packages |-> StageOf(q)]
  BY DropKeepsStages DEF DecUseStillUsed
<1> QED
  BY <1>4, <1>5 DEF ScheduleStep

LEMMA ReturnStutters ==
  ASSUME IInv, NEW p \in Packages, DecUseReturn(p)
  PROVE  ScheduleStep
<1>1. caller[p] = p => phase[p] = "freeing"
  BY DEF IInv, FramesOnUnused
<1>2. ASSUME NEW q \in Packages PROVE StageOf(q)' = StageOf(q)
  BY <1>1 DEF DecUseReturn, StageOf, IInv, Typing, Phases
<1> QED
  BY <1>2 DEF ScheduleStep, DecUseReturn

LEMMA NextSchedule == IInv /\ IInv' /\ [Next]_vars => ScheduleStep
<1> SUFFICES ASSUME IInv, IInv', [Next]_vars PROVE ScheduleStep
  OBVIOUS
<1>1. ASSUME NEW p \in Packages, PackageStep(p) PROVE ScheduleStep
  <2>1. CASE Acquire(p)
    BY <2>1, AcquireStarts DEF ScheduleStep
  <2>2. CASE LoadFails(p) \/ ActionsFinished(p)
    BY <2>2, AnalysisConcludes DEF ScheduleStep
  <2>3. CASE Release(p)
    BY <2>3, ReleaseLeaves DEF ScheduleStep
  <2>4. CASE DecUseReturn(p)
    BY <2>4, ReturnStutters
  <2>5. CASE Begin(p) \/ LoadUnsafe(p) \/ LoadInitial(p) \/ LoadImported(p)
    <3>1. dependents' = dependents
      BY <2>5 DEF Begin, LoadUnsafe, LoadInitial, LoadImported, useVars
    <3>2. \/ phase[p] = "new" /\ phase' = [phase EXCEPT ![p] = "imports"]
          \/ phase[p] = "load" /\ phase' = [phase EXCEPT ![p] = "run"]
      BY <2>5 DEF Begin, LoadUnsafe, LoadInitial, LoadImported
    <3>3. ASSUME NEW q \in Packages PROVE StageOf(q)' = StageOf(q)
      BY <3>2 DEF StageOf, IInv, Typing, Phases
    <3> QED
      BY <3>1, <3>3 DEF ScheduleStep
  <2> QED
    BY <1>1, <2>1, <2>2, <2>3, <2>4, <2>5 DEF PackageStep
<1>2. ASSUME NEW c \in Packages, NEW p \in Packages, DecUseStep(c, p) PROVE ScheduleStep
  BY <1>2, StillUsedStutters, LastUseForgets DEF DecUseStep, ScheduleStep
<1>3. ASSUME UNCHANGED <<phase, dependents>> PROVE ScheduleStep
  BY <1>3 DEF ScheduleStep, StageOf
<1>4. ASSUME NEW a \in Actions, ActionStep(a) PROVE UNCHANGED <<phase, dependents>>
  BY <1>4 DEF ActionStep, SkipAction, FailPrerequisites, StartPass, RunIllTyped,
              RunSucceeds, RunFails, RunPanics, Recover, pkgVars, useVars
<1>5. CASE Extract \/ UNCHANGED vars
  BY <1>3, <1>5 DEF Extract, vars, pkgVars, useVars
<1> QED
  BY <1>1, <1>2, <1>3, <1>4, <1>5 DEF Next, Finished

LEMMA InitSchedule == Init => Schedule!ScheduleInit
<1> SUFFICES ASSUME Init PROVE Schedule!ScheduleInit
  OBVIOUS
<1>1. [p \in Packages |-> StageOf(p)] = [p \in Packages |-> "waiting"]
  BY DEF Init, StageOf
<1>2. \A p \in Packages : dependents[p] # 0
  <2>1. ASSUME NEW p \in Packages PROVE Cardinality(Importers(p)) \in Nat
    BY FiniteSubsets DEF Importers
  <2> QED
    BY <2>1 DEF Init, DependentsAtStart
<1> QED
  BY <1>1, <1>2 DEF Schedule!ScheduleInit

(* Every behaviour of the runner is one of PackageSchedule: each package   *)
(* is analysed once, after its imports, with at most MaxParallel in        *)
(* memory, and forgotten only when everything above it is analysed.        *)
THEOREM RunnerFollowsSchedule == Spec => FollowsSchedule
<1>1. ScheduleStep => [Schedule!ScheduleNext]_<<[p \in Packages |-> StageOf(p)],
                                               {p \in Packages : dependents[p] # 0}>>
  BY DEF ScheduleStep, Schedule!ScheduleNext
<1> QED
  BY <1>1, InductiveInvariant, InitSchedule, NextSchedule, PTL
     DEF Spec, FollowsSchedule, Schedule!ScheduleSpec

-----------------------------------------------------------------------------
(* What lies below a package is the package and what lies below its        *)
(* imports.                                                                *)
LEMMA BelowSelf ==
  ASSUME NEW p \in Packages
  PROVE  p \in Below(p) /\ Below(p) \subseteq Packages
BY DEF Below

LEMMA BelowImport ==
  ASSUME NEW p \in Packages, NEW imp \in Imports[p]
  PROVE  imp \in Packages /\ Below(imp) \subseteq Below(p)
<1>1. imp \in Packages
  BY PackagesAssumption
<1>2. ASSUME NEW q \in Below(imp) PROVE q \in Below(p)
  BY <1>1, <1>2 DEF Below, ClosedUnderImports
<1> QED
  BY <1>1, <1>2

LEMMA BelowClosed ==
  ASSUME NEW p \in Packages, NEW q \in Below(p), NEW imp \in Imports[q]
  PROVE  q \in Packages /\ imp \in Below(p)
<1>1. q \in Packages /\ imp \in Packages
  BY PackagesAssumption DEF Below
<1> QED
  BY <1>1 DEF Below, ClosedUnderImports

LEMMA BelowSplit ==
  ASSUME NEW p \in Packages, NEW q \in Below(p)
  PROVE  q = p \/ \E imp \in Imports[p] : q \in Below(imp)
<1> DEFINE S == {p} \cup UNION {Below(imp) : imp \in Imports[p]}
<1>1. S \in SUBSET Packages /\ p \in S
  BY BelowImport, BelowSelf
<1>2. ASSUME NEW r \in S, NEW imp \in Imports[r] PROVE imp \in S
  <2>1. CASE r = p
    BY <2>1, <1>2, BelowImport, BelowSelf
  <2>2. CASE \E i \in Imports[p] : r \in Below(i)
    BY <2>2, <1>2, BelowImport, BelowClosed
  <2> QED
    BY <1>2, <2>1, <2>2
<1>3. ClosedUnderImports(S)
  BY <1>2 DEF ClosedUnderImports
<1>4. q \in S
  BY <1>1, <1>3 DEF Below
<1> QED
  BY <1>4

(* A package with uses left keeps everything below it.                     *)
LEMMA UsedKeepsBelow ==
  ASSUME IInv, NEW p \in Packages, dependents[p] > 0, NEW q \in Below(p)
  PROVE  q \in Packages /\ dependents[q] > 0
<1>1. UsersOf(p) # {}
  BY FS_EmptySet DEF IInv, RefCount
<1>2. q \in Packages /\ UsersOf(q) # {}
  BY <1>1, UsedBelow
<1>3. Cardinality(UsersOf(q)) # 0 /\ Cardinality(UsersOf(q)) \in Nat
  BY <1>2, UsersFinite, FS_EmptySet
<1> QED
  BY <1>2, <1>3 DEF IInv, RefCount

LEMMA OwnUseCounts ==
  ASSUME IInv, NEW p \in Packages
  PROVE  /\ OwnUseHeld(p) => dependents[p] > 0
         /\ (dependents[p] > 0 /\ caller[p] # None) => FALSE
<1>1. UsersOf(p) # {} <=> dependents[p] > 0
  BY UsersFinite, FS_EmptySet DEF IInv, RefCount
<1> QED
  BY <1>1 DEF IInv, FramesOnUnused, UsersOf

-----------------------------------------------------------------------------
(* Where the goroutines of a package and of its actions can be. *)
Loaded(p) == phase[p] \notin {"new", "imports", "load"}

(* A package has waited for its imports before it takes a token. *)
ImportsFirst ==
    \A p \in Packages : phase[p] \notin {"new", "imports"} =>
        \A imp \in Imports[p] : phase[imp] = "done"

(* Actions run only while their package is in its "run" phase. *)
ActionsInPhase ==
    \A a \in Actions :
        /\ ~Loaded(a[2]) => actState[a] = "new"
        /\ actState[a] \in {"running", "recovering"} => phase[a[2]] = "run"
        /\ phase[a[2]] \in {"decUse", "freeing", "release", "done"} => actState[a] = "done"

StageInv == ImportsFirst /\ ActionsInPhase

LEMMA InitStageInv == Init => StageInv
<1>1. \A a \in Actions : a[2] \in Packages
  BY ActionGraphClosed DEF Keys
<1> QED
  BY <1>1 DEF Init, StageInv, ImportsFirst, ActionsInPhase

LEMMA ActionsStep == \A a \in Actions : ActionStep(a) => UNCHANGED <<src, pkgVars, useVars, need, endVars>>
BY DEF ActionStep, SkipAction, FailPrerequisites, StartPass, RunIllTyped,
       RunSucceeds, RunFails, RunPanics, Recover, diskVars, pkgVars, useVars, endVars

LEMMA NextStageInv ==
  ASSUME IInv, DataTyping, StageInv, [Next]_vars
  PROVE  StageInv'
<1> USE DEF StageInv
<1>0. /\ phase \in [Packages -> Phases]
      /\ actState \in [Actions -> ActStates]
      /\ \A a \in Actions : a[2] \in Packages
      /\ \A p \in Packages : Imports[p] \subseteq Packages
  BY ActionGraphClosed, PackagesAssumption DEF IInv, Typing, DataTyping, Keys
<1>1. ASSUME NEW p \in Packages, PackageStep(p) PROVE StageInv'
  <2>1. CASE Begin(p)
    BY <1>0, <2>1 DEF Begin, actVars, ImportsFirst, ActionsInPhase, Loaded
  <2>2. CASE Acquire(p)
    BY <1>0, <2>2 DEF Acquire, actVars, ImportsFirst, ActionsInPhase, Loaded
  <2>3. CASE LoadUnsafe(p) \/ LoadInitial(p) \/ LoadImported(p)
    <3>1. phase[p] = "load" /\ phase' = [phase EXCEPT ![p] = "run"] /\ actState' = actState
      BY <2>3 DEF LoadUnsafe, LoadInitial, LoadImported, actVars
    <3> QED
      BY <1>0, <3>1 DEF ImportsFirst, ActionsInPhase, Loaded
  <2>4. CASE LoadFails(p)
    BY <1>0, <2>4 DEF LoadFails, ImportsFirst, ActionsInPhase, Loaded
  <2>5. CASE ActionsFinished(p)
    <3>1. \A a \in Actions : a[2] = p => actState[a] = "done"
      BY <2>5 DEF ActionsFinished, ActionsOf
    <3> QED
      BY <1>0, <2>5, <3>1 DEF ActionsFinished, actVars, ImportsFirst, ActionsInPhase, Loaded
  <2>6. CASE DecUseReturn(p)
    <3>1. caller[p] = p => phase[p] = "freeing"
      BY DEF IInv, FramesOnUnused
    <3> QED
      BY <1>0, <2>6, <3>1 DEF DecUseReturn, ImportsFirst, ActionsInPhase, Loaded
  <2>7. CASE Release(p)
    BY <1>0, <2>7 DEF Release, actVars, ImportsFirst, ActionsInPhase, Loaded
  <2> QED
    BY <1>1, <2>1, <2>2, <2>3, <2>4, <2>5, <2>6, <2>7 DEF PackageStep
<1>2. ASSUME NEW c \in Packages, NEW p \in Packages, DecUseStep(c, p) PROVE StageInv'
  <2>1. /\ actState' = actState
        /\ \/ phase' = phase
           \/ /\ phase[p] = "decUse"
              /\ \/ phase' = [phase EXCEPT ![p] = "release"]
                 \/ phase' = [phase EXCEPT ![p] = "freeing"]
    BY <1>2 DEF DecUseStep, DecUseStillUsed, DecUseLast, Calls
  <2> QED
    BY <1>0, <2>1 DEF ImportsFirst, ActionsInPhase, Loaded
<1>3. ASSUME NEW a \in Actions, ActionStep(a) PROVE StageInv'
  <2>1. phase' = phase
    BY <1>3, ActionsStep DEF pkgVars
  <2>2. phase[a[2]] = "run" /\ \E s \in ActStates : actState' = [actState EXCEPT ![a] = s]
    BY <1>0, <1>3 DEF ActionStep, SkipAction, FailPrerequisites, StartPass, RunIllTyped,
       RunSucceeds, RunFails, RunPanics, Recover, Ready, ActionsInPhase, ActStates
  <2> QED
    BY <1>0, <2>1, <2>2 DEF ImportsFirst, ActionsInPhase, Loaded
<1>4. CASE Extract \/ UNCHANGED vars
  BY <1>4 DEF Extract, vars, pkgVars, actVars, ImportsFirst, ActionsInPhase, Loaded
<1> QED
  BY <1>1, <1>2, <1>3, <1>4 DEF Next, Finished

LEMMA StageInvariant == Spec => []StageInv
BY InitStageInv, NextStageInv, InductiveInvariant, DataTypingCorrect, PTL DEF Spec

(* What has been started is built on finished packages. *)
LEMMA FinishedBelow ==
  ASSUME StageInv, NEW p \in Packages, phase[p] \notin {"new", "imports"}, NEW q \in Below(p)
  PROVE  q \in Packages /\ (q = p \/ phase[q] = "done")
<1> DEFINE Built == {r \in Packages : phase[r] = "done"} \cup {p}
<1>1. Built \in SUBSET Packages /\ p \in Built
  OBVIOUS
<1>2. ClosedUnderImports(Built)
  BY PackagesAssumption DEF StageInv, ImportsFirst, ClosedUnderImports
<1>3. q \in Built
  BY <1>1, <1>2 DEF Below
<1> QED
  BY <1>3

-----------------------------------------------------------------------------
(* What a step leaves alone: the sources, the types and the flag of a      *)
(* loaded package that is still used, the outcome of a finished action.    *)
LEMMA SourcesStay == ASSUME [Next]_vars PROVE src' = src
BY DEF Next, PackageStep, DecUseStep, ActionStep, Begin, Acquire, LoadUnsafe, LoadInitial,
       LoadFails, LoadImported, ActionsFinished, DecUseReturn, Release, DecUseStillUsed,
       DecUseLast, SkipAction, FailPrerequisites, StartPass, RunIllTyped, RunSucceeds,
       RunFails, RunPanics, Recover, Extract, Finished, diskVars, vars

LEMMA BecomesLoaded ==
  ASSUME IInv, [Next]_vars, NEW p \in Packages, ~Loaded(p), Loaded(p)'
  PROVE  LoadUnsafe(p) \/ LoadInitial(p) \/ LoadFails(p) \/ LoadImported(p)
<1>0. phase \in [Packages -> Phases]
  BY DEF IInv, Typing
<1>1. ASSUME NEW q \in Packages, PackageStep(q) PROVE q = p /\ ~Begin(q) /\ ~Acquire(q)
                                                          /\ phase[q] = "load"
  <2>1. Begin(q) => phase' = [phase EXCEPT ![q] = "imports"]
    BY DEF Begin
  <2>2. Acquire(q) => phase' = [phase EXCEPT ![q] = "load"]
    BY DEF Acquire
  <2>3. ActionsFinished(q) => phase[q] = "run" /\ phase' = [phase EXCEPT ![q] = "decUse"]
    BY DEF ActionsFinished
  <2>4. Release(q) => phase[q] = "release" /\ phase' = [phase EXCEPT ![q] = "done"]
    BY DEF Release
  <2>5. DecUseReturn(q) => \/ phase' = phase
                           \/ phase[q] = "freeing" /\ phase' = [phase EXCEPT ![q] = "release"]
    BY DEF DecUseReturn, IInv, FramesOnUnused
  <2>6. (LoadUnsafe(q) \/ LoadInitial(q) \/ LoadFails(q) \/ LoadImported(q)) =>
            /\ phase[q] = "load"
            /\ \E to \in Phases : phase' = [phase EXCEPT ![q] = to]
    BY DEF LoadUnsafe, LoadInitial, LoadFails, LoadImported, Phases
  <2> QED
    BY <1>0, <1>1, <2>1, <2>2, <2>3, <2>4, <2>5, <2>6 DEF PackageStep, Loaded
<1>2. ASSUME NEW c \in Packages, NEW q \in Packages, DecUseStep(c, q) PROVE FALSE
  <2>1. \/ phase' = phase
        \/ phase[q] = "decUse" /\ \E to \in Phases : phase' = [phase EXCEPT ![q] = to]
    BY <1>2 DEF DecUseStep, DecUseStillUsed, DecUseLast, Calls, Phases
  <2> QED
    BY <1>0, <2>1 DEF Loaded
<1>3. \A a \in Actions : ~ActionStep(a)
  BY ActionsStep DEF pkgVars, Loaded
<1>4. ~Extract /\ ~UNCHANGED vars
  BY DEF Extract, vars, pkgVars, Loaded
<1>5. PICK q \in Packages : PackageStep(q)
  BY <1>2, <1>3, <1>4 DEF Next, Finished
<1>6. q = p /\ phase[p] = "load"
  BY <1>1, <1>5
<1>7. ~ActionsFinished(p) /\ ~Release(p)
  BY <1>6 DEF ActionsFinished, Release
<1>8. ~DecUseReturn(p)
  <2>1. DecUseReturn(p) => phase' = phase
    BY <1>6 DEF DecUseReturn, IInv, FramesOnUnused
  <2> QED
    BY <2>1 DEF Loaded
<1> QED
  BY <1>1, <1>5, <1>6, <1>7, <1>8 DEF PackageStep

LEMMA LoadedStays ==
  ASSUME IInv, DataTyping, [Next]_vars, NEW p \in Packages, Loaded(p)
  PROVE  /\ Loaded(p)'
         /\ illTyped'[p] = illTyped[p]
         /\ dependents'[p] > 0 => dependents[p] > 0 /\ types'[p] = types[p]
<1>0. /\ phase \in [Packages -> Phases] /\ dependents \in [Packages -> Int]
      /\ types \in [Packages -> Gens \cup {None}]
      /\ illTyped \in [Packages -> BOOLEAN]
  BY DEF IInv, Typing, DataTyping
<1>1. ASSUME NEW q \in Packages, PackageStep(q)
      PROVE  Loaded(p)' /\ illTyped'[p] = illTyped[p] /\ dependents' = dependents /\ types'[p] = types[p]
  <2>1. CASE Begin(q) \/ Acquire(q) \/ ActionsFinished(q) \/ Release(q)
    BY <1>0, <2>1 DEF Begin, Acquire, ActionsFinished, Release, useVars, Loaded
  <2>2. CASE LoadUnsafe(q) \/ LoadInitial(q) \/ LoadFails(q) \/ LoadImported(q)
    <3>1. /\ q # p /\ dependents' = dependents
          /\ \E to \in Phases : phase' = [phase EXCEPT ![q] = to]
      BY <2>2 DEF LoadUnsafe, LoadInitial, LoadFails, LoadImported, useVars, Phases, Loaded
    <3>2. illTyped'[p] = illTyped[p] /\ types'[p] = types[p]
      BY <1>0, <2>2, <3>1 DEF LoadUnsafe, LoadInitial, LoadFails, LoadImported, LoadFromSource
    <3> QED
      BY <1>0, <3>1, <3>2 DEF Loaded
  <2>3. CASE DecUseReturn(q)
    BY <1>0, <2>3 DEF DecUseReturn, Loaded
  <2> QED
    BY <1>1, <2>1, <2>2, <2>3 DEF PackageStep
<1>2. ASSUME NEW c \in Packages, NEW q \in Packages, DecUseStep(c, q)
      PROVE  /\ Loaded(p)' /\ illTyped' = illTyped
             /\ dependents'[p] > 0 => dependents[p] > 0 /\ types'[p] = types[p]
  <2>1. illTyped' = illTyped /\ dependents' = [dependents EXCEPT ![q] = @ - 1]
    BY <1>2 DEF DecUseStep, DecUseStillUsed, DecUseLast, DropUse
  <2>2. Loaded(p)'
    BY <1>0, <1>2 DEF DecUseStep, DecUseStillUsed, DecUseLast, Loaded
  <2>3. CASE q = p /\ LastUse(p)
    BY <1>0, <2>1, <2>2, <2>3 DEF LastUse
  <2>4. CASE ~(q = p /\ LastUse(p))
    <3>1. types'[p] = types[p]
      BY <1>0, <1>2, <2>4 DEF DecUseStep, DecUseStillUsed, DecUseLast
    <3> QED
      BY <1>0, <2>1, <2>2, <3>1
  <2> QED
    BY <2>3, <2>4
<1>3. ASSUME UNCHANGED <<pkgVars, useVars>>
      PROVE  /\ Loaded(p)' /\ illTyped' = illTyped
             /\ dependents' = dependents /\ types' = types
  BY <1>3 DEF pkgVars, useVars, Loaded
<1>4. ASSUME NEW a \in Actions, ActionStep(a) PROVE UNCHANGED <<pkgVars, useVars>>
  BY <1>4, ActionsStep
<1>5. CASE Extract \/ UNCHANGED vars
  BY <1>3, <1>5 DEF Extract, vars
<1> QED
  BY <1>1, <1>2, <1>3, <1>4, <1>5 DEF Next, Finished

LEMMA FinishedStays ==
  ASSUME IInv, DataTyping, StageInv, [Next]_vars, NEW a \in Actions
  PROVE  /\ actState[a] = "done" => actState'[a] = "done" /\ err'[a] = err[a]
         /\ err[a] # None => err'[a] # None
         /\ need[a] => need'[a]
         /\ Loaded(a[2]) => need'[a] = need[a]
<1> DEFINE Kept == /\ actState[a] = "done" => actState'[a] = "done" /\ err'[a] = err[a]
                   /\ err[a] # None => err'[a] # None
                   /\ need[a] => need'[a]
                   /\ Loaded(a[2]) => need'[a] = need[a]
<1>0. /\ actState \in [Actions -> ActStates]
      /\ need \in [Actions -> BOOLEAN]
      /\ err \in [Actions -> PlainErrors \cup WrappedErrors \cup {None}]
      /\ None \notin PlainErrors \cup WrappedErrors
      /\ ~Loaded(a[2]) => actState[a] = "new"
  BY RunnerAssumption DEF DataTyping, StageInv, ActionsInPhase
<1>1. ASSUME NEW p \in Packages, PackageStep(p) PROVE Kept
  <2>1. CASE LoadFails(p)
    <3>1. /\ ~Loaded(p) /\ need' = need
          /\ actState'[a] = IF a[2] = p THEN "done" ELSE actState[a]
          /\ err'[a] = IF a[2] = p THEN "load" ELSE err[a]
      BY <2>1 DEF LoadFails, Loaded
    <3> QED
      BY <1>0, <3>1 DEF WrappedErrors
  <2>2. CASE LoadImported(p)
    <3>1. /\ ~Loaded(p) /\ UNCHANGED <<actState, err>>
          /\ need'[a] = (need[a] \/ a \in Marked(p))
      BY <2>2 DEF LoadImported, Loaded
    <3>2. \A b \in Marked(p) : b[2] = p
      BY DEF Marked, Missed, ActionsOf, HorizontalDeps
    <3> QED
      BY <1>0, <3>1, <3>2
  <2>3. CASE ~LoadFails(p) /\ ~LoadImported(p)
    BY <1>1, <2>3 DEF PackageStep, Begin, Acquire, LoadUnsafe, LoadInitial, ActionsFinished,
                      DecUseReturn, Release, actVars
  <2> QED
    BY <2>1, <2>2, <2>3
<1>2. ASSUME NEW c \in Packages, NEW p \in Packages, DecUseStep(c, p) PROVE Kept
  BY <1>2 DEF DecUseStep, DecUseStillUsed, DecUseLast
<1>3. ASSUME NEW b \in Actions, ActionStep(b) PROVE Kept
  <2>1. /\ need' = need
        /\ \E s \in ActStates : actState' = [actState EXCEPT ![b] = s]
        /\ \/ err' = err
           \/ \E e \in PlainErrors \cup WrappedErrors : err' = [err EXCEPT ![b] = e]
    BY <1>3 DEF ActionStep, SkipAction, FailPrerequisites, StartPass, RunIllTyped, RunSucceeds,
       RunFails, RunPanics, Recover, ActStates, PlainErrors, WrappedErrors
  <2>2. actState[b] # "done"
    BY <1>3 DEF ActionStep, SkipAction, FailPrerequisites, StartPass, RunIllTyped, RunSucceeds,
       RunFails, RunPanics, Recover, Ready
  <2> QED
    BY <1>0, <2>1, <2>2
<1>4. CASE Extract \/ UNCHANGED vars
  BY <1>4 DEF Extract, vars, actVars
<1> QED
  BY <1>1, <1>2, <1>3, <1>4 DEF Next, Finished

(* Only a step of its own, or a failed load, moves an action. *)
LEMMA ActionMoves ==
  ASSUME DataTyping, [Next]_vars, NEW a \in Actions,
         actState'[a] # actState[a] \/ err'[a] # err[a]
  PROVE  \/ ActionStep(a)
         \/ /\ LoadFails(a[2]) /\ phase[a[2]] = "load"
            /\ actState'[a] = "done" /\ err'[a] = "load"
<1>0. /\ actState \in [Actions -> ActStates]
      /\ err \in [Actions -> PlainErrors \cup WrappedErrors \cup {None}]
  BY DEF DataTyping
<1>1. ASSUME NEW p \in Packages, PackageStep(p)
      PROVE  /\ LoadFails(a[2]) /\ phase[a[2]] = "load"
             /\ actState'[a] = "done" /\ err'[a] = "load"
  <2>1. LoadFails(p)
    BY <1>1 DEF PackageStep, Begin, Acquire, LoadUnsafe, LoadInitial, LoadImported,
       ActionsFinished, DecUseReturn, Release, actVars
  <2> QED
    BY <1>0, <2>1 DEF LoadFails
<1>2. ~\E c, p \in Packages : DecUseStep(c, p)
  BY DEF DecUseStep, DecUseStillUsed, DecUseLast
<1>3. ~Extract /\ ~UNCHANGED vars
  BY DEF Extract, vars, actVars
<1>4. ASSUME NEW b \in Actions, ActionStep(b) PROVE b = a
  <2>1. /\ \E s \in ActStates : actState' = [actState EXCEPT ![b] = s]
        /\ \/ err' = err
           \/ \E e \in PlainErrors \cup WrappedErrors : err' = [err EXCEPT ![b] = e]
    BY <1>4 DEF ActionStep, SkipAction, FailPrerequisites, StartPass, RunIllTyped, RunSucceeds,
       RunFails, RunPanics, Recover, ActStates, PlainErrors, WrappedErrors
  <2> QED
    BY <1>0, <2>1
<1> QED
  BY <1>1, <1>2, <1>3, <1>4 DEF Next, Finished

-----------------------------------------------------------------------------
(* What the loaded packages say about the sources below them. *)
Broken == {"parseError", "typeError"}

Sound(p) == \A q \in Below(p) : src[q] \notin Broken

(* The flag IllTyped comes up through every import, and a package that may *)
(* still be asked for its types has them unless it could not be parsed.    *)
LoadedSoundly ==
    LoadMode # LoadModeSyntax =>
        \A p \in Packages : Loaded(p) =>
            /\ dependents[p] > 0 => (types[p] # None \/ src[p] = "parseError")
            /\ ~illTyped[p] => Sound(p)

(* An action that was needed and ends without an error has seen a package  *)
(* that type-checks; the actions on initial packages are needed.           *)
IllTypedSurfaces ==
    \A a \in Actions :
        /\ a[2] \in Initial => need[a]
        /\ (actState[a] = "done" /\ need[a] /\ err[a] = None) => ~illTyped[a[2]]

SoundInv ==
    src \in SourceStates /\ LoadedSoundly /\ IllTypedSurfaces /\ BrokenPackagesReported

LEMMA InitSoundInv == Init => SoundInv
<1>1. \A a \in Actions : a[2] \in Packages
  BY ActionGraphClosed DEF Keys
<1> QED
  BY ZenonT(60), <1>1 DEF Init, SoundInv, LoadedSoundly, Loaded, IllTypedSurfaces, BrokenPackagesReported

(* Imports that are loaded without a flag, and a source without an error,  *)
(* make a sound package.                                                   *)
LEMMA SoundFromImports ==
  ASSUME NEW p \in Packages, src[p] \notin Broken, \A imp \in Imports[p] : Sound(imp)
  PROVE  Sound(p)
BY BelowSplit, BelowImport DEF Sound

LEMMA SourceLoadedSoundly ==
  ASSUME IInv, DataTyping, StageInv, SoundInv, LoadMode # LoadModeSyntax,
         NEW p \in Packages, phase[p] = "load", NEW before, LoadFromSource(p, before), src' = src
  PROVE  /\ types'[p] # None \/ src[p] = "parseError"
         /\ ~illTyped'[p] => Sound(p)
<1>0. /\ types \in [Packages -> Gens \cup {None}]
      /\ illTyped \in [Packages -> BOOLEAN]
  BY DEF DataTyping
<1>1. types'[p] # None \/ src[p] = "parseError"
  BY <1>0, RunnerAssumption DEF LoadFromSource, Gens
<1>2. ASSUME ~illTyped'[p] PROVE Sound(p)
  <2>1. /\ src[p] \notin Broken
        /\ \A imp \in Imports[p] : ~illTyped[imp]
    BY <1>0, <1>2 DEF LoadFromSource, SourceErrors, Broken
  <2>2. \A imp \in Imports[p] : imp \in Packages /\ Loaded(imp)
    BY PackagesAssumption DEF StageInv, ImportsFirst, Loaded
  <2>3. \A imp \in Imports[p] : Sound(imp)
    BY <2>1, <2>2 DEF SoundInv, LoadedSoundly
  <2> QED
    BY <2>1, <2>3, SoundFromImports
<1> QED
  BY <1>1, <1>2

LEMMA LoadKeepsSound ==
  ASSUME IInv, DataTyping, StageInv, SoundInv, LoadMode # LoadModeSyntax, src' = src,
         NEW p \in Packages,
         LoadUnsafe(p) \/ LoadInitial(p) \/ LoadFails(p) \/ LoadImported(p)
  PROVE  /\ types'[p] # None \/ src[p] = "parseError"
         /\ ~illTyped'[p] => Sound(p)
<1>0. /\ types \in [Packages -> Gens \cup {None}]
      /\ illTyped \in [Packages -> BOOLEAN]
      /\ phase[p] = "load"
  BY DEF DataTyping, LoadUnsafe, LoadInitial, LoadFails, LoadImported
<1>1. ASSUME types' = [types EXCEPT ![p] = "export"] PROVE types'[p] # None
  BY <1>0, <1>1, RunnerAssumption DEF Gens
<1>2. CASE LoadUnsafe(p)
  <2>1. types'[p] # None
    BY <1>1, <1>2 DEF LoadUnsafe
  <2>2. src[p] \notin Broken /\ Imports[p] = {}
    BY <1>2, UnsafeCompiles, RunnerAssumption DEF LoadUnsafe, SoundInv, Broken
  <2> QED
    BY <2>1, <2>2, SoundFromImports
<1>3. ASSUME NEW before, LoadFromSource(p, before)
      PROVE  /\ types'[p] # None \/ src[p] = "parseError"
             /\ ~illTyped'[p] => Sound(p)
  BY <1>0, <1>3, SourceLoadedSoundly
<1>4. CASE LoadInitial(p) \/ LoadFails(p)
  BY <1>3, <1>4 DEF LoadInitial, LoadFails
<1>5. CASE LoadImported(p)
  <2>1. HasExportData(p)
    BY <1>5 DEF LoadImported
  <2>2. Sound(p)
    BY <2>1 DEF HasExportData, Sound, Broken
  <2>3. types'[p] # None \/ src[p] = "parseError"
    BY <1>1, <1>3, <1>5 DEF LoadImported
  <2> QED
    BY <2>2, <2>3
<1> QED
  BY <1>2, <1>4, <1>5

LEMMA NextSoundInv ==
  ASSUME IInv, IInv', DataTyping, StageInv, StageInv', SoundInv, [Next]_vars
  PROVE  SoundInv'
<1>0. src' = src /\ \A p \in Packages : Sound(p)' = Sound(p)
  BY SourcesStay DEF Sound, Below, ClosedUnderImports
<1>1. LoadedSoundly'
  <2>1. SUFFICES ASSUME LoadMode # LoadModeSyntax, NEW p \in Packages, Loaded(p)'
                 PROVE  /\ dependents'[p] > 0 => (types'[p] # None \/ src[p] = "parseError")
                        /\ ~illTyped'[p] => Sound(p)
    BY <1>0 DEF LoadedSoundly
  <2>2. CASE Loaded(p)
    BY <2>1, <2>2, LoadedStays DEF SoundInv, LoadedSoundly
  <2>3. CASE ~Loaded(p)
    BY <1>0, <2>1, <2>3, BecomesLoaded, LoadKeepsSound
  <2> QED
    BY <2>2, <2>3
<1>2. IllTypedSurfaces'
  <2>1. SUFFICES ASSUME NEW a \in Actions
                 PROVE  /\ a[2] \in Initial => need'[a]
                        /\ (actState'[a] = "done" /\ need'[a] /\ err'[a] = None) => ~illTyped'[a[2]]
    BY DEF IllTypedSurfaces
  <2>2. a[2] \in Initial => need'[a]
    BY FinishedStays DEF SoundInv, IllTypedSurfaces
  <2>3. ASSUME actState'[a] = "done", need'[a], err'[a] = None PROVE ~illTyped'[a[2]]
    <3>0. a[2] \in Packages /\ err[a] = None
      BY <2>3, FinishedStays, ActionGraphClosed DEF Keys
    <3>1. CASE Loaded(a[2]) /\ actState[a] = "done"
      BY <2>3, <3>0, <3>1, FinishedStays, LoadedStays DEF SoundInv, IllTypedSurfaces
    <3>2. CASE actState[a] # "done"
      <4>1. ActionStep(a)
        BY <2>3, <3>0, <3>2, ActionMoves, RunnerAssumption DEF WrappedErrors
      <4>2. ~SkipAction(a)
        BY <2>3 DEF SkipAction
      <4>3. ~(FailPrerequisites(a) \/ RunIllTyped(a) \/ RunFails(a) \/ Recover(a))
        BY <2>3, RunnerAssumption DEF FailPrerequisites, RunIllTyped, RunFails, Recover,
           DataTyping, PlainErrors, WrappedErrors
      <4>4. ~(StartPass(a) \/ RunPanics(a))
        BY <2>3 DEF StartPass, RunPanics, DataTyping
      <4>5. RunSucceeds(a)
        BY <4>1, <4>2, <4>3, <4>4 DEF ActionStep
      <4> QED
        BY <4>5 DEF RunSucceeds, pkgVars
    <3>3. CASE ~Loaded(a[2]) /\ actState[a] = "done"
      BY <3>3 DEF StageInv, ActionsInPhase
    <3> QED
      BY <3>1, <3>2, <3>3
  <2> QED
    BY <2>2, <2>3
<1>3. BrokenPackagesReported'
  <2>1. CASE Extract /\ outcome' = "returned"
    <3>1. SUFFICES ASSUME LoadMode # LoadModeSyntax, NEW a \in Roots,
                          NEW q \in Below(a[2]), src[q] \in Broken
                   PROVE  a \in errs'
      BY <1>0 DEF BrokenPackagesReported, Broken, Below, ClosedUnderImports
    <3>2. a \in Keys /\ a[2] \in Initial /\ Roots \subseteq Keys
      BY PackagesAssumption, AnalyzersAssumption DEF Roots, Keys
    <3>3. a \in Actions
      BY <3>2 DEF Actions
    <3>4. a \in Visited
      BY <3>3 DEF Visited
    <3>5. a[2] \in Packages /\ phase[a[2]] = "done"
      BY <2>1, <3>2, PackagesAssumption DEF Extract
    <3>6. actState[a] = "done" /\ Loaded(a[2])
      BY <3>3, <3>5 DEF StageInv, ActionsInPhase, Loaded
    <3>7. illTyped[a[2]]
      BY <3>1, <3>5, <3>6 DEF SoundInv, LoadedSoundly, Sound
    <3>8. err[a] # None
      BY <3>2, <3>3, <3>6, <3>7 DEF SoundInv, IllTypedSurfaces
    <3> QED
      BY <2>1, <3>4, <3>8 DEF Extract
  <2>2. CASE outcome' # "returned"
    BY <2>2 DEF BrokenPackagesReported
  <2>3. CASE UNCHANGED endVars
    BY <1>0, <2>3 DEF endVars, SoundInv, BrokenPackagesReported, Below, ClosedUnderImports
  <2>4. UNCHANGED endVars \/ Extract
    BY ActionsStep DEF Next, PackageStep, DecUseStep, Begin, Acquire, LoadUnsafe, LoadInitial,
       LoadFails, LoadImported, ActionsFinished, DecUseReturn, Release, DecUseStillUsed,
       DecUseLast, Finished, vars
  <2> QED
    BY <2>1, <2>2, <2>3, <2>4
<1> QED
  BY <1>0, <1>1, <1>2, <1>3 DEF SoundInv

LEMMA SoundInvariant == Spec => []SoundInv
BY InitSoundInv, NextSoundInv, StageInvariant, InductiveInvariant, DataTypingCorrect, PTL DEF Spec

(* A compile error anywhere below an initial package ends in an error of   *)
(* every root action on it.                                                *)
THEOREM BrokenPackagesReportedCorrect == Spec => []BrokenPackagesReported
BY SoundInvariant, PTL DEF SoundInv

LEMMA SoundRun == IInv /\ StageInv /\ SoundInv => RunOnSoundTypes
<1> SUFFICES ASSUME IInv, StageInv, SoundInv, NEW a \in Actions, actState[a] = "running",
                    ~illTyped[a[2]], LoadMode # LoadModeSyntax, NEW q \in Below(a[2])
             PROVE  types[q] # None /\ src[q] \notin Broken
  BY DEF RunOnSoundTypes, Broken
<1>1. a[2] \in Packages /\ phase[a[2]] = "run"
  BY ActionGraphClosed DEF Keys, StageInv, ActionsInPhase
<1>2. src[q] \notin Broken
  BY <1>1 DEF SoundInv, LoadedSoundly, Loaded, Sound
<1>3. q \in Packages /\ dependents[q] > 0
  BY <1>1, OwnUseCounts, UsedKeepsBelow DEF OwnUseHeld
<1>4. Loaded(q)
  BY <1>1, FinishedBelow DEF Loaded
<1>5. types[q] # None
  BY <1>2, <1>3, <1>4 DEF SoundInv, LoadedSoundly, Broken
<1> QED
  BY <1>2, <1>5

(* Analyzer.Run is only called on a package that type-checks together with *)
(* everything below it, with all those types in memory.                    *)
THEOREM RunOnSoundTypesCorrect == Spec => []RunOnSoundTypes
BY SoundRun, SoundInvariant, StageInvariant, InductiveInvariant, PTL

-----------------------------------------------------------------------------
(* What a pass finds when it starts. *)

(* No facts were persisted before the run. *)
ColdCache == CacheStates \subseteq {{}}

NobodyFails == MayFail = {} /\ MayPanic = {}

(* Marking the direct requirements of a fact action marks all of them.     *)
RequirementsMarked ==
    \A f \in FactAnalyzers : \A g \in Requires[f] :
        Requires[g] \subseteq Requires[f] \cup (IF ColdCache THEN FactAnalyzers ELSE {})

(* Which actions are to run. *)
NeedInv ==
    \A a \in Actions :
        /\ (a[2] \notin Initial /\ ~Loaded(a[2])) => ~need[a]
        /\ RequirementsMarked => (need[a] => \A d \in HorizontalDeps(a) : need[d])
        /\ ColdCache =>
               /\ actState[a] # "done" => cached[a] = "missing"
               /\ (Loaded(a[2]) /\ IsFact(a) /\ a[2] \notin Unsafe) => (need[a] \/ err[a] # None)

LEMMA ActionParts ==
  ASSUME NEW a \in Actions
  PROVE  /\ a = <<a[1], a[2]>> /\ a[1] \in Analyzers /\ a[2] \in Packages
         /\ \A d \in HorizontalDeps(a) : d \in Actions /\ d[2] = a[2] /\ d[1] \in Requires[a[1]]
         /\ \A d \in VerticalDeps(a) : d \in Actions /\ d[1] = a[1] /\ d[2] \in Imports[a[2]]
BY ActionGraphClosed DEF Keys, Deps, HorizontalDeps, VerticalDeps

LEMMA FactActionImports ==
  ASSUME NEW a \in Actions, IsFact(a), NEW imp \in Imports[a[2]]
  PROVE  <<a[1], imp>> \in VerticalDeps(a)
BY DEF IsFact, VerticalDeps

(* The action of a fact analyzer has one like it on every package below.   *)
LEMMA FactActionsBelow ==
  ASSUME NEW a \in Actions, IsFact(a), NEW q \in Below(a[2])
  PROVE  <<a[1], q>> \in Actions
<1> DEFINE Covered == {r \in Packages : <<a[1], r>> \in Actions}
<1>1. Covered \in SUBSET Packages /\ a[2] \in Covered
  BY ActionParts
<1>2. ASSUME NEW r \in Covered, NEW imp \in Imports[r] PROVE imp \in Covered
  <2>1. <<a[1], r>> \in Actions /\ IsFact(<<a[1], r>>)
    BY DEF IsFact
  <2>2. <<a[1], imp>> \in VerticalDeps(<<a[1], r>>)
    BY <2>1, FactActionImports
  <2> QED
    BY <2>1, <2>2, ActionParts, PackagesAssumption
<1>3. ClosedUnderImports(Covered)
  BY <1>2 DEF ClosedUnderImports
<1>4. q \in Covered
  BY <1>1, <1>3 DEF Below
<1> QED
  BY <1>4

LEMMA InitNeedInv == Init => NeedInv
<1> SUFFICES ASSUME Init PROVE NeedInv
  OBVIOUS
<1>1. \A a \in Actions : need[a] <=> a[2] \in Initial
  BY DEF Init
<1>2. \A a \in Actions : ~Loaded(a[2])
  BY ActionParts DEF Init, Loaded
<1>3. ASSUME ColdCache, NEW a \in Actions PROVE cached[a] = "missing"
  BY <1>3 DEF Init, ColdCache
<1> QED
  BY <1>1, <1>2, <1>3, ActionParts DEF NeedInv

(* An action becomes needed when its package is loaded. *)
LEMMA NeedChanges ==
  ASSUME DataTyping, [Next]_vars, NEW a \in Actions, need'[a], ~need[a]
  PROVE  LoadImported(a[2]) /\ a \in Marked(a[2])
<1>1. \A b \in Actions : ~ActionStep(b)
  BY ActionsStep
<1>2. ~\E c, p \in Packages : DecUseStep(c, p)
  BY DEF DecUseStep, DecUseStillUsed, DecUseLast
<1>3. ~Extract /\ ~UNCHANGED vars
  BY DEF Extract, vars, actVars
<1>4. PICK p \in Packages : PackageStep(p)
  BY <1>1, <1>2, <1>3 DEF Next, Finished
<1>5. LoadImported(p)
  BY <1>4 DEF PackageStep, Begin, Acquire, LoadUnsafe, LoadInitial, LoadFails,
       ActionsFinished, DecUseReturn, Release, actVars
<1>6. a \in Marked(p)
  BY <1>5 DEF LoadImported
<1>7. a[2] = p
  BY <1>6 DEF Marked, Missed, ActionsOf, HorizontalDeps
<1> QED
  BY <1>5, <1>6, <1>7

LEMMA MarkedClosed ==
  ASSUME NeedInv, StageInv, RequirementsMarked, NEW p \in Packages, phase[p] = "load",
         NEW a \in Marked(p), NEW d \in HorizontalDeps(a)
  PROVE  d \in Marked(p)
<1>1. CASE a \in Missed(p)
  BY <1>1 DEF Marked
<1>2. CASE \E m \in Missed(p) : a \in HorizontalDeps(m)
  <2>1. PICK m \in Missed(p) : a \in HorizontalDeps(m)
    BY <1>2
  <2>2. m \in Actions /\ m[2] = p /\ m[1] \in FactAnalyzers
    BY DEF Missed, ActionsOf, IsFact
  <2>3. /\ a \in Actions /\ a[2] = p /\ a[1] \in Requires[m[1]]
        /\ d \in Actions /\ d[2] = p /\ d[1] \in Requires[a[1]]
        /\ d = <<d[1], p>>
    BY <2>1, <2>2, ActionParts
  <2>4. d[1] \in Requires[m[1]] \/ (ColdCache /\ d[1] \in FactAnalyzers)
    BY <2>2, <2>3 DEF RequirementsMarked
  <2>5. CASE d[1] \in Requires[m[1]]
    BY <2>2, <2>3, <2>5 DEF Marked, HorizontalDeps
  <2>6. CASE ColdCache /\ d[1] \in FactAnalyzers
    <3>1. actState[d] # "done"
      BY <2>3 DEF StageInv, ActionsInPhase, Loaded
    <3>2. cached[d] = "missing"
      BY <2>3, <2>6, <3>1 DEF NeedInv
    <3> QED
      BY <2>3, <2>6, <3>2 DEF Marked, Missed, ActionsOf, IsFact
  <2> QED
    BY <2>4, <2>5, <2>6
<1> QED
  BY <1>1, <1>2 DEF Marked

LEMMA CachedUntilDone ==
  ASSUME DataTyping, [Next]_vars, NEW a \in Actions, actState'[a] # "done"
  PROVE  cached'[a] = cached[a]
<1>0. actState \in [Actions -> ActStates] /\ cached \in [Actions -> {"missing", "complete", "partial"}]
  BY DEF DataTyping
<1>1. ASSUME NEW p \in Packages, PackageStep(p) PROVE cached' = cached
  BY <1>1 DEF PackageStep, Begin, Acquire, LoadUnsafe, LoadInitial, LoadFails, LoadImported,
       ActionsFinished, DecUseReturn, Release, diskVars
<1>2. ASSUME NEW c \in Packages, NEW p \in Packages, DecUseStep(c, p) PROVE cached' = cached
  BY <1>2 DEF DecUseStep, DecUseStillUsed, DecUseLast, diskVars
<1>3. ASSUME NEW b \in Actions, ActionStep(b) PROVE cached'[a] = cached[a]
  <2>1. CASE cached' = cached
    BY <2>1
  <2>2. CASE cached' # cached
    <3>1. RunIllTyped(b) \/ RunSucceeds(b) \/ RunFails(b)
      BY <1>3, <2>2 DEF ActionStep, SkipAction, FailPrerequisites, StartPass, RunPanics, Recover, diskVars
    <3>2. /\ actState' = [actState EXCEPT ![b] = "done"]
          /\ \E e \in {"complete", "partial"} : PersistFacts(b, e)
      BY <3>1 DEF RunIllTyped, RunSucceeds, RunFails
    <3>3. a # b
      BY <1>0, <3>2
    <3> QED
      BY <1>0, <3>2, <3>3 DEF PersistFacts
  <2> QED
    BY <2>1, <2>2
<1>4. CASE Extract \/ UNCHANGED vars
  BY <1>4 DEF Extract, vars, diskVars
<1> QED
  BY <1>1, <1>2, <1>3, <1>4 DEF Next, Finished

LEMMA NextNeedInv ==
  ASSUME IInv, DataTyping, StageInv, SoundInv, NeedInv, [Next]_vars
  PROVE  NeedInv'
<1> SUFFICES ASSUME NEW a \in Actions
             PROVE  /\ (a[2] \notin Initial /\ ~Loaded(a[2])') => ~need'[a]
                    /\ RequirementsMarked => (need'[a] => \A d \in HorizontalDeps(a) : need'[d])
                    /\ ColdCache =>
                          /\ actState'[a] # "done" => cached'[a] = "missing"
                          /\ (Loaded(a[2])' /\ IsFact(a) /\ a[2] \notin Unsafe)
                                => (need'[a] \/ err'[a] # None)
  BY Zenon DEF NeedInv
<1>0. /\ a[2] \in Packages
      /\ \A d \in HorizontalDeps(a) : d \in Actions /\ d[2] = a[2]
      /\ need \in [Actions -> BOOLEAN]
  BY ActionParts DEF DataTyping
<1>1. ASSUME a[2] \notin Initial, ~Loaded(a[2])' PROVE ~need'[a]
  <2>1. ~need[a]
    BY <1>0, <1>1, LoadedStays DEF NeedInv
  <2>2. LoadImported(a[2]) => Loaded(a[2])'
    BY <1>0 DEF LoadImported, Loaded, IInv, Typing
  <2> QED
    BY <1>1, <2>1, <2>2, NeedChanges
<1>2. ASSUME RequirementsMarked, need'[a], NEW d \in HorizontalDeps(a) PROVE need'[d]
  <2>1. CASE need[a]
    BY <1>0, <1>2, <2>1, FinishedStays DEF NeedInv
  <2>2. CASE ~need[a]
    <3>1. LoadImported(a[2]) /\ a \in Marked(a[2]) /\ phase[a[2]] = "load"
      BY <1>2, <2>2, NeedChanges DEF LoadImported
    <3>2. d \in Marked(a[2])
      BY <1>0, <1>2, <3>1, MarkedClosed
    <3> QED
      BY <1>0, <3>1, <3>2 DEF LoadImported
  <2> QED
    BY <2>1, <2>2
<1>3. ASSUME ColdCache, actState'[a] # "done" PROVE cached'[a] = "missing"
  BY <1>3, FinishedStays, CachedUntilDone DEF NeedInv
<1>4. ASSUME ColdCache, Loaded(a[2])', IsFact(a), a[2] \notin Unsafe
      PROVE  need'[a] \/ err'[a] # None
  <2>1. CASE Loaded(a[2])
    BY <1>4, <2>1, FinishedStays DEF NeedInv
  <2>2. CASE ~Loaded(a[2])
    <3>1. LoadUnsafe(a[2]) \/ LoadInitial(a[2]) \/ LoadFails(a[2]) \/ LoadImported(a[2])
      BY <1>0, <1>4, <2>2, BecomesLoaded
    <3>2. CASE LoadUnsafe(a[2])
      BY <1>4, <3>2 DEF LoadUnsafe
    <3>3. CASE LoadInitial(a[2])
      BY <3>3, FinishedStays DEF LoadInitial, SoundInv, IllTypedSurfaces
    <3>4. CASE LoadFails(a[2])
      BY <3>4, RunnerAssumption DEF LoadFails, WrappedErrors
    <3>5. CASE LoadImported(a[2])
      <4>1. actState[a] # "done"
        BY <2>2 DEF StageInv, ActionsInPhase
      <4>2. a \in Marked(a[2])
        BY <1>4, <4>1 DEF NeedInv, Marked, Missed, ActionsOf
      <4> QED
        BY <3>5, <4>2 DEF LoadImported
    <3> QED
      BY <3>1, <3>2, <3>3, <3>4, <3>5
  <2> QED
    BY <2>1, <2>2
<1> QED
  BY <1>1, <1>2, <1>3, <1>4

LEMMA NeedInvariant == Spec => []NeedInv
BY InitNeedInv, NextNeedInv, SoundInvariant, StageInvariant, InductiveInvariant,
   DataTypingCorrect, PTL DEF Spec

-----------------------------------------------------------------------------
(* Everything below a package with uses left is used. *)
UsedAllTheWay ==
    \A p \in Packages : dependents[p] > 0 => \A q \in Below(p) : q \in Packages /\ dependents[q] > 0

LEMMA UsedDown == IInv => UsedAllTheWay
BY UsedKeepsBelow DEF UsedAllTheWay

LEMMA FactsStay ==
  ASSUME IInv, DataTyping, StageInv, [Next]_vars, NEW a \in Actions,
         actState[a] \in {"running", "done"}, dependents'[a[2]] > 0
  PROVE  facts[a] \subseteq facts'[a]
<1>0. /\ facts \in [Actions -> SUBSET Facts] /\ actState[a] # "new"
      /\ a[2] \in Packages
  BY ActionParts DEF DataTyping
<1>1. ASSUME NEW p \in Packages, PackageStep(p) PROVE facts[a] \subseteq facts'[a]
  <2>1. CASE LoadImported(p)
    BY <1>0, <2>1 DEF LoadImported
  <2>2. CASE DecUseReturn(p)
    <3>1. caller[p] # None /\ dependents' = dependents
      BY <2>2 DEF DecUseReturn
    <3>2. a[2] # p
      BY <3>1, <1>0, OwnUseCounts
    <3> QED
      BY <1>0, <2>2, <3>2 DEF DecUseReturn
  <2>3. CASE ~LoadImported(p) /\ ~DecUseReturn(p)
    BY <1>1, <2>3 DEF PackageStep, Begin, Acquire, LoadUnsafe, LoadInitial, LoadFails,
       ActionsFinished, Release, actVars
  <2> QED
    BY <2>1, <2>2, <2>3
<1>2. ASSUME NEW c \in Packages, NEW p \in Packages, DecUseStep(c, p) PROVE facts' = facts
  BY <1>2 DEF DecUseStep, DecUseStillUsed, DecUseLast
<1>3. ASSUME NEW b \in Actions, ActionStep(b) PROVE facts[a] \subseteq facts'[a]
  <2>1. CASE StartPass(b)
    BY <1>0, <2>1 DEF StartPass, Ready
  <2>2. CASE RunSucceeds(b)
    BY <1>0, <2>2 DEF RunSucceeds
  <2>3. CASE ~StartPass(b) /\ ~RunSucceeds(b)
    BY <1>3, <2>3 DEF ActionStep, SkipAction, FailPrerequisites, RunIllTyped, RunFails, RunPanics, Recover
  <2> QED
    BY <2>1, <2>2, <2>3
<1>4. CASE Extract \/ UNCHANGED vars
  BY <1>4 DEF Extract, vars, actVars
<1> QED
  BY <1>1, <1>2, <1>3, <1>4 DEF Next, Finished

(* A call of decUse comes after the package's own run. *)
LEMMA CallsAfterRun ==
  ASSUME IInv, StageInv, NEW c \in Packages, NEW p \in Packages, Calls(c, p)
  PROVE  phase[p] \in {"decUse", "done"}
<1>1. CASE c = p
  <2>1. p \notin toRelease[p]
    BY NoSelfImport DEF IInv, FramesOnUnused
  <2> QED
    BY <1>1, <2>1 DEF Calls
<1>2. CASE c # p
  <2>1. caller[c] # None /\ p \in Imports[c]
    BY <1>2 DEF Calls, IInv, FramesOnUnused
  <2>2. ~OwnUseHeld(c)
    BY <2>1 DEF IInv, FramesOnUnused, UsersOf
  <2> QED
    BY <2>1, <2>2 DEF OwnUseHeld, StageInv, ImportsFirst
<1> QED
  BY <1>1, <1>2

LEMMA ResultsStay ==
  ASSUME IInv, DataTyping, StageInv, [Next]_vars, NEW a \in Actions,
         phase[a[2]] = "run", result[a]
  PROVE  result'[a]
<1>0. result \in [Actions -> BOOLEAN] /\ a[2] \in Packages
  BY ActionParts DEF DataTyping
<1>1. ASSUME NEW p \in Packages, PackageStep(p) PROVE result' = result
  BY <1>1 DEF PackageStep, Begin, Acquire, LoadUnsafe, LoadInitial, LoadFails, LoadImported,
       ActionsFinished, DecUseReturn, Release, actVars
<1>2. ASSUME NEW c \in Packages, NEW p \in Packages, DecUseStep(c, p) PROVE result'[a] = result[a]
  <2>1. ClearActions(p) /\ Calls(c, p)
    BY <1>2 DEF DecUseStep, DecUseStillUsed, DecUseLast
  <2>2. a[2] # p
    BY <2>1, CallsAfterRun
  <2> QED
    BY <1>0, <2>1, <2>2 DEF ClearActions
<1>3. ASSUME NEW b \in Actions, ActionStep(b) PROVE result'[a]
  BY <1>0, <1>3 DEF ActionStep, SkipAction, FailPrerequisites, StartPass, RunIllTyped, RunSucceeds,
     RunFails, RunPanics, Recover
<1>4. CASE Extract \/ UNCHANGED vars
  BY <1>4 DEF Extract, vars, actVars
<1> QED
  BY <1>1, <1>2, <1>3, <1>4 DEF Next, Finished

LEMMA BecomesRunning ==
  ASSUME DataTyping, [Next]_vars, NEW a \in Actions, actState'[a] = "running", actState[a] # "running"
  PROVE  StartPass(a)
<1>1. ActionStep(a)
  BY ActionMoves
<1> QED
  BY <1>1 DEF ActionStep, SkipAction, FailPrerequisites, StartPass, RunIllTyped, RunSucceeds, RunFails,
     RunPanics, Recover, DataTyping

(* A needed action that ends without an error has run its analyzer.        *)
LEMMA BecomesDone ==
  ASSUME DataTyping, [Next]_vars, NEW a \in Actions,
         actState'[a] = "done", actState[a] # "done", err'[a] = None, need'[a]
  PROVE  RunSucceeds(a)
<1>1. ActionStep(a)
  BY ActionMoves, RunnerAssumption DEF WrappedErrors
<1>2. ~SkipAction(a)
  BY DEF SkipAction
<1>3. ~(FailPrerequisites(a) \/ RunIllTyped(a) \/ RunFails(a) \/ Recover(a))
  BY RunnerAssumption DEF FailPrerequisites, RunIllTyped, RunFails, Recover,
     DataTyping, PlainErrors, WrappedErrors
<1>4. ~(StartPass(a) \/ RunPanics(a))
  BY DEF StartPass, RunPanics, DataTyping
<1> QED
  BY <1>1, <1>2, <1>3, <1>4 DEF ActionStep

(* "run" is entered from "load". *)
LEMMA RunningBefore ==
  ASSUME IInv, [Next]_vars, NEW p \in Packages, phase'[p] = "run", Loaded(p)
  PROVE  phase[p] = "run"
<1>0. phase \in [Packages -> Phases]
  BY DEF IInv, Typing
<1>1. ASSUME NEW q \in Packages, PackageStep(q) PROVE phase[p] = "run"
  <2>1. CASE LoadUnsafe(q) \/ LoadInitial(q) \/ LoadImported(q)
    BY <1>0, <2>1 DEF LoadUnsafe, LoadInitial, LoadImported, Loaded
  <2>2. CASE ~(LoadUnsafe(q) \/ LoadInitial(q) \/ LoadImported(q))
    <3>1. phase' = phase \/ \E to \in Phases \ {"run"} : phase' = [phase EXCEPT ![q] = to]
      BY <1>1, <2>2 DEF PackageStep, Begin, Acquire, LoadFails, ActionsFinished, DecUseReturn, Release, Phases
    <3> QED
      BY <1>0, <3>1
  <2> QED
    BY <2>1, <2>2
<1>2. ASSUME NEW c \in Packages, NEW q \in Packages, DecUseStep(c, q) PROVE phase[p] = "run"
  <2>1. phase' = phase \/ \E to \in Phases \ {"run"} : phase' = [phase EXCEPT ![q] = to]
    BY <1>2 DEF DecUseStep, DecUseStillUsed, DecUseLast, Phases
  <2> QED
    BY <1>0, <2>1
<1>3. CASE UNCHANGED pkgVars
  BY <1>3 DEF pkgVars
<1> QED
  BY <1>1, <1>2, <1>3, ActionsStep DEF Next, Finished, Extract, vars

-----------------------------------------------------------------------------
(* Facts, whatever fails, when none were cached. *)
WideFact(q) == [kind |-> "wide", origin |-> q, types |-> types[q]]

NoErrorBelow(a) == \A r \in Below(a[2]) : err[<<a[1], r>>] = None

(* What a fact action leaves to the packages above it. *)
FactsKept ==
    \A a \in Actions :
        (IsFact(a) /\ actState[a] = "done" /\ err[a] = None /\ a[2] \notin Unsafe
           /\ dependents[a[2]] > 0) =>
               /\ OwnFacts(a[2], types[a[2]]) \subseteq facts[a]
               /\ NoErrorBelow(a) => \A q \in Below(a[2]) \ Unsafe : WideFact(q) \in facts[a]

FactsVisible == FactsOfImportsVisible /\ FactsOfAllDepsVisible

FactsInv == ColdCache => FactsKept /\ FactsVisible

LEMMA InitFactsInv == Init => FactsInv
BY DEF Init, FactsInv, FactsKept, FactsVisible, FactsOfImportsVisible, FactsOfAllDepsVisible

(* The types below a package that stays in use do not change. *)
LEMMA TypesBelowStay ==
  ASSUME IInv, UsedAllTheWay', DataTyping, StageInv, [Next]_vars,
         NEW p \in Packages, Loaded(p), dependents'[p] > 0, NEW q \in Below(p)
  PROVE  q \in Packages /\ types'[q] = types[q]
<1>1. q \in Packages /\ Loaded(q)
  BY FinishedBelow DEF Loaded
<1>2. dependents'[q] > 0
  BY DEF UsedAllTheWay, Below, ClosedUnderImports
<1> QED
  BY <1>1, <1>2, LoadedStays

LEMMA NoErrorBelowBefore ==
  ASSUME IInv, DataTyping, StageInv, [Next]_vars, NEW a \in Actions, IsFact(a), NoErrorBelow(a)'
  PROVE  NoErrorBelow(a)
<1> SUFFICES ASSUME NEW r \in Below(a[2]) PROVE err[<<a[1], r>>] = None
  BY DEF NoErrorBelow
<1>1. <<a[1], r>> \in Actions
  BY FactActionsBelow
<1>2. err'[<<a[1], r>>] = None
  BY DEF NoErrorBelow, Below, ClosedUnderImports
<1> QED
  BY <1>1, <1>2, FinishedStays

LEMMA KeptStep ==
  ASSUME IInv, UsedAllTheWay', DataTyping, StageInv, NeedInv, FactsKept, FactsVisible, ColdCache, [Next]_vars,
         NEW a \in Actions, IsFact(a), actState'[a] = "done", err'[a] = None, a[2] \notin Unsafe,
         dependents'[a[2]] > 0, StageInv'
  PROVE  /\ OwnFacts(a[2], types'[a[2]]) \subseteq facts'[a]
         /\ NoErrorBelow(a)' => \A q \in Below(a[2]) \ Unsafe : WideFact(q)' \in facts'[a]
<1>0. /\ a[2] \in Packages
      /\ facts \in [Actions -> SUBSET Facts]
      /\ err[a] = None
      /\ a[2] \in Below(a[2])
  BY ActionParts, FinishedStays, BelowSelf DEF DataTyping
<1>1. CASE actState[a] = "done"
  <2>1. Loaded(a[2])
    BY <1>1 DEF StageInv, ActionsInPhase
  <2>2. dependents[a[2]] > 0 /\ types'[a[2]] = types[a[2]] /\ facts[a] \subseteq facts'[a]
    BY <1>0, <1>1, <2>1, LoadedStays, FactsStay
  <2>3. OwnFacts(a[2], types[a[2]]) \subseteq facts[a]
    BY <1>0, <1>1, <2>2 DEF FactsKept
  <2>4. ASSUME NoErrorBelow(a)', NEW q \in Below(a[2]) \ Unsafe PROVE WideFact(q)' \in facts'[a]
    <3>1. NoErrorBelow(a)
      BY <2>4, NoErrorBelowBefore
    <3>2. WideFact(q) \in facts[a]
      BY <1>0, <1>1, <2>2, <3>1 DEF FactsKept
    <3>3. types'[q] = types[q]
      BY <1>0, <2>1, TypesBelowStay
    <3> QED
      BY <2>2, <3>2, <3>3 DEF WideFact
  <2> QED
    BY <2>2, <2>3, <2>4
<1>2. CASE actState[a] # "done"
  <2>1. need'[a]
    <3>1. Loaded(a[2])'
      BY DEF StageInv, ActionsInPhase
    <3>2. CASE Loaded(a[2])
      BY <1>0, <3>2, FinishedStays DEF NeedInv
    <3>3. CASE ~Loaded(a[2])
      <4>1. ActionStep(a)
        BY <1>0, <1>2, ActionMoves, RunnerAssumption DEF WrappedErrors
      <4>2. actState[a] = "new" /\ Ready(a)
        BY <3>3, <4>1 DEF StageInv, ActionsInPhase, ActionStep, SkipAction, FailPrerequisites, StartPass,
           RunIllTyped, RunSucceeds, RunFails, RunPanics, Recover
      <4> QED
        BY <3>3, <4>2 DEF Ready, Loaded
    <3> QED
      BY <3>2, <3>3
  <2>2. RunSucceeds(a)
    BY <1>2, <2>1, BecomesDone
  <2>3. /\ facts'[a] = facts[a] \cup OwnFacts(a[2], types[a[2]])
        /\ types' = types /\ err' = err /\ actState[a] = "running"
    BY <1>0, <2>2 DEF RunSucceeds, pkgVars
  <2>4. ASSUME NoErrorBelow(a)', NEW q \in Below(a[2]) \ Unsafe PROVE WideFact(q)' \in facts'[a]
    <3>1. NoErrorBelow(a)
      BY <2>4, NoErrorBelowBefore
    <3>2. CASE q = a[2]
      BY <2>3, <3>2 DEF WideFact, OwnFacts, Kinds
    <3>3. CASE q # a[2]
      <4>1. WideFact(q) \in facts[a]
        BY <2>3, <3>1, <3>3 DEF FactsVisible, FactsOfAllDepsVisible, NoErrorBelow, WideFact
      <4> QED
        BY <2>3, <4>1 DEF WideFact
    <3> QED
      BY <3>2, <3>3
  <2> QED
    BY <2>3, <2>4
<1> QED
  BY <1>1, <1>2

LEMMA VisibleStep ==
  ASSUME IInv, IInv', UsedAllTheWay', DataTyping, StageInv, FactsKept, FactsVisible, [Next]_vars,
         NEW a \in Actions, actState'[a] = "running", StageInv'
  PROVE  /\ \A d \in VerticalDeps(a) :
               (err'[d] = None /\ d[2] \notin Unsafe) =>
                   OwnFacts(d[2], types'[d[2]]) \subseteq facts'[a]
         /\ IsFact(a) => \A q \in Below(a[2]) \ ({a[2]} \cup Unsafe) :
               NoErrorBelow(a)' => WideFact(q)' \in facts'[a]
<1>0. /\ a[2] \in Packages
      /\ facts \in [Actions -> SUBSET Facts]
      /\ \A d \in VerticalDeps(a) : /\ d \in Actions /\ IsFact(d) /\ d[1] = a[1]
                                    /\ d[2] \in Imports[a[2]] /\ d[2] \in Packages
                                    /\ d[2] \in Below(a[2])
  BY ActionParts, BelowImport, BelowSelf DEF DataTyping, IsFact, VerticalDeps
<1>1. phase'[a[2]] = "run" /\ dependents'[a[2]] > 0
  <2>1. phase'[a[2]] = "run"
    BY DEF StageInv, ActionsInPhase
  <2>2. IInv' => TypesOutliveUsers'
    BY OutliveFromIInv, PTL
  <2>3. OwnUseHeld(a[2])'
    BY <2>1 DEF OwnUseHeld
  <2> QED
    BY <1>0, <2>1, <2>2, <2>3, BelowSelf DEF TypesOutliveUsers
<1>2. CASE actState[a] = "running"
  <2>1. Loaded(a[2]) /\ facts[a] \subseteq facts'[a]
    BY <1>1, <1>2, FactsStay DEF StageInv, ActionsInPhase, Loaded
  <2>2. \A q \in Below(a[2]) : types'[q] = types[q]
    BY <1>0, <1>1, <2>1, TypesBelowStay
  <2>3. ASSUME NEW d \in VerticalDeps(a), err'[d] = None, d[2] \notin Unsafe
        PROVE  OwnFacts(d[2], types'[d[2]]) \subseteq facts'[a]
    <3>1. err[d] = None
      BY <1>0, <2>3, FinishedStays
    <3>2. OwnFacts(d[2], types[d[2]]) \subseteq facts[a]
      BY <1>2, <2>3, <3>1 DEF FactsVisible, FactsOfImportsVisible
    <3> QED
      BY <1>0, <2>1, <2>2, <3>2
  <2>4. ASSUME IsFact(a), NEW q \in Below(a[2]) \ ({a[2]} \cup Unsafe), NoErrorBelow(a)'
        PROVE  WideFact(q)' \in facts'[a]
    <3>1. NoErrorBelow(a)
      BY <2>4, NoErrorBelowBefore
    <3>2. WideFact(q) \in facts[a]
      BY <1>2, <2>4, <3>1 DEF FactsVisible, FactsOfAllDepsVisible, NoErrorBelow, WideFact
    <3> QED
      BY <2>1, <2>2, <3>2 DEF WideFact
  <2> QED
    BY <2>3, <2>4
<1>3. CASE actState[a] # "running"
  <2>1. StartPass(a)
    BY <1>3, BecomesRunning
  <2>2. /\ facts'[a] = InheritedFacts(a) /\ types' = types /\ err' = err /\ dependents' = dependents
        /\ phase[a[2]] = "run"
    BY <1>0, <2>1 DEF StartPass, Ready, pkgVars, useVars
  <2>3. \A d \in VerticalDeps(a) : actState[d] = "done" /\ dependents[d[2]] > 0
    BY <1>0, <1>1, <2>2 DEF StageInv, ImportsFirst, ActionsInPhase, UsedAllTheWay
  <2>4. ASSUME NEW d \in VerticalDeps(a), err'[d] = None, d[2] \notin Unsafe
        PROVE  OwnFacts(d[2], types'[d[2]]) \subseteq facts'[a]
    <3>1. OwnFacts(d[2], types[d[2]]) \subseteq facts[d]
      BY <1>0, <2>2, <2>3, <2>4 DEF FactsKept
    <3>2. OwnFacts(d[2], types[d[2]]) \subseteq InheritedFacts(a)
      BY <3>1 DEF InheritedFacts, OwnFacts
    <3> QED
      BY <2>2, <3>2
  <2>5. ASSUME IsFact(a), NEW q \in Below(a[2]) \ ({a[2]} \cup Unsafe), NoErrorBelow(a)'
        PROVE  WideFact(q)' \in facts'[a]
    <3>1. PICK imp \in Imports[a[2]] : q \in Below(imp)
      BY <1>0, <2>5, BelowSplit
    <3> DEFINE d == <<a[1], imp>>
    <3>2. d \in VerticalDeps(a) /\ imp \in Packages
      BY <1>0, <2>5, FactActionImports, BelowImport
    <3>3. imp \notin Unsafe
      <4>1. imp \in Unsafe => Imports[imp] = {}
        BY RunnerAssumption
      <4>2. imp \in Unsafe => q = imp
        BY <3>1, <3>2, <4>1, BelowSplit
      <4> QED
        BY <2>5, <4>2
    <3>4. NoErrorBelow(d)
      BY <1>0, <2>2, <2>5, BelowImport DEF NoErrorBelow
    <3>5. err[d] = None
      BY <3>2, <3>4, BelowSelf DEF NoErrorBelow
    <3>6. WideFact(q) \in facts[d]
      BY <1>0, <2>3, <2>5, <3>1, <3>2, <3>3, <3>4, <3>5 DEF FactsKept
    <3>7. WideFact(q) \in InheritedFacts(a)
      BY <3>2, <3>6 DEF InheritedFacts, WideFact
    <3> QED
      BY <2>2, <3>7 DEF WideFact
  <2> QED
    BY <2>4, <2>5
<1> QED
  BY <1>2, <1>3

LEMMA NextFactsInv ==
  ASSUME IInv, IInv', DataTyping, StageInv, StageInv', NeedInv, FactsInv, [Next]_vars
  PROVE  FactsInv'
<1> SUFFICES ASSUME ColdCache PROVE FactsKept' /\ FactsVisible'
  BY DEF FactsInv
<1>1. FactsKept /\ FactsVisible
  BY DEF FactsInv
<1>2. UsedAllTheWay'
  <2>1. IInv' => UsedAllTheWay'
    BY UsedDown, PTL
  <2> QED
    BY <2>1
<1>3. FactsKept'
  BY <1>1, <1>2, KeptStep DEF FactsKept
<1>4. ASSUME NEW a \in Actions, actState'[a] = "running"
      PROVE  /\ \A d \in VerticalDeps(a) :
                   (err'[d] = None /\ d[2] \notin Unsafe) =>
                       OwnFacts(d[2], types'[d[2]]) \subseteq facts'[a]
             /\ IsFact(a) => \A q \in Below(a[2]) \ ({a[2]} \cup Unsafe) :
                   NoErrorBelow(a)' => WideFact(q)' \in facts'[a]
  BY <1>1, <1>2, <1>4, VisibleStep
<1>5. FactsOfImportsVisible'
  BY <1>4 DEF FactsOfImportsVisible
<1>6. FactsOfAllDepsVisible'
  BY <1>4 DEF FactsOfAllDepsVisible, NoErrorBelow, WideFact
<1> QED
  BY <1>3, <1>5, <1>6 DEF FactsVisible

LEMMA FactsInvariant == Spec => []FactsInv
BY InitFactsInv, NextFactsInv, NeedInvariant, StageInvariant, InductiveInvariant,
   DataTypingCorrect, PTL DEF Spec

(* With an empty facts cache a pass sees the facts of its imports and of   *)
(* everything below, whatever other passes fail or panic.                  *)
THEOREM FactsVisibleCorrect ==
  ASSUME ColdCache
  PROVE  Spec => [](FactsOfImportsVisible /\ FactsOfAllDepsVisible)
<1>1. FactsInv => FactsOfImportsVisible /\ FactsOfAllDepsVisible
  BY DEF FactsInv, FactsVisible
<1> QED
  BY <1>1, FactsInvariant, PTL

-----------------------------------------------------------------------------
(* Results, when no analyzer fails. *)
NoFailures ==
    \A a \in Actions :
        actState[a] # "recovering" /\ err[a] \in {None, "load", "prerequisite", "illTyped"}

ResultsKept ==
    \A a \in Actions :
        (phase[a[2]] = "run" /\ actState[a] = "done" /\ need[a] /\ err[a] = None) => result[a]

ResultsInv ==
    (NobodyFails /\ RequirementsMarked) => NoFailures /\ ResultsKept /\ HorizontalDepsAnalyzed

LEMMA InitResultsInv == Init => ResultsInv
BY DEF Init, ResultsInv, NoFailures, ResultsKept, HorizontalDepsAnalyzed

LEMMA NextResultsInv ==
  ASSUME IInv, DataTyping, StageInv, StageInv', NeedInv, ResultsInv, [Next]_vars
  PROVE  ResultsInv'
<1> SUFFICES ASSUME NobodyFails, RequirementsMarked, NEW a \in Actions
             PROVE  /\ actState'[a] # "recovering"
                    /\ err'[a] \in {None, "load", "prerequisite", "illTyped"}
                    /\ (phase'[a[2]] = "run" /\ actState'[a] = "done" /\ need'[a] /\ err'[a] = None)
                          => result'[a]
                    /\ actState'[a] = "running" => \A d \in HorizontalDeps(a) : result'[d]
  BY DEF ResultsInv, NoFailures, ResultsKept, HorizontalDepsAnalyzed
<1>0. /\ NoFailures /\ ResultsKept /\ HorizontalDepsAnalyzed
      /\ a[2] \in Packages
      /\ \A d \in HorizontalDeps(a) : d \in Actions /\ d[2] = a[2]
      /\ actState \in [Actions -> ActStates]
      /\ err \in [Actions -> PlainErrors \cup WrappedErrors \cup {None}]
      /\ result \in [Actions -> BOOLEAN]
  BY ActionParts DEF ResultsInv, DataTyping
<1>1. ~RunFails(a) /\ ~RunPanics(a) /\ ~Recover(a)
  BY <1>0 DEF NobodyFails, RunFails, RunPanics, Recover, NoFailures, HorizontalDepsAnalyzed
<1>2. actState'[a] # "recovering" /\ err'[a] \in {None, "load", "prerequisite", "illTyped"}
  <2>1. CASE actState'[a] = actState[a] /\ err'[a] = err[a]
    BY <1>0, <2>1 DEF NoFailures
  <2>2. CASE actState'[a] # actState[a] \/ err'[a] # err[a]
    <3>1. ActionStep(a) \/ (actState'[a] = "done" /\ err'[a] = "load")
      BY <2>2, ActionMoves
    <3>2. CASE ActionStep(a)
      <4>1. SkipAction(a) \/ FailPrerequisites(a) \/ StartPass(a) \/ RunIllTyped(a) \/ RunSucceeds(a)
        BY <1>1, <3>2 DEF ActionStep
      <4>2. actState'[a] \in {"done", "running"} /\ err'[a] \in {err[a], "prerequisite", "illTyped"}
        BY <1>0, <4>1 DEF SkipAction, FailPrerequisites, StartPass, RunIllTyped, RunSucceeds
      <4> QED
        BY <1>0, <4>2 DEF NoFailures
    <3> QED
      BY <3>1, <3>2
  <2> QED
    BY <2>1, <2>2
<1>3. ASSUME phase'[a[2]] = "run", actState'[a] = "done", need'[a], err'[a] = None
      PROVE  result'[a]
  <2>1. CASE actState[a] = "done"
    <3>1. Loaded(a[2]) /\ err[a] = None
      BY <1>3, <2>1, FinishedStays DEF StageInv, ActionsInPhase
    <3>2. phase[a[2]] = "run" /\ need[a]
      BY <1>0, <1>3, <3>1, RunningBefore, FinishedStays
    <3>3. result[a]
      BY <1>0, <2>1, <3>1, <3>2 DEF ResultsKept
    <3> QED
      BY <3>2, <3>3, ResultsStay
  <2>2. CASE actState[a] # "done"
    BY <1>0, <1>3, <2>2, BecomesDone DEF RunSucceeds
  <2> QED
    BY <2>1, <2>2
<1>4. ASSUME actState'[a] = "running", NEW d \in HorizontalDeps(a) PROVE result'[d]
  <2>1. CASE actState[a] = "running"
    <3>1. result[d] /\ phase[a[2]] = "run"
      BY <1>0, <2>1 DEF HorizontalDepsAnalyzed, StageInv, ActionsInPhase
    <3> QED
      BY <1>0, <3>1, ResultsStay
  <2>2. CASE actState[a] # "running"
    <3>1. StartPass(a)
      BY <1>4, <2>2, BecomesRunning
    <3>2. /\ phase[a[2]] = "run" /\ need[a] /\ actState[d] \in {"recovering", "done"}
          /\ d \notin FailedPrerequisites(a) /\ result' = result
      BY <3>1 DEF StartPass, Ready, DoneChClosed
    <3>3. actState[d] = "done" /\ err[d] = None
      BY <1>0, <3>2 DEF NoFailures, FailedPrerequisites, Deps, WrappedErrors
    <3>4. need[d]
      BY <3>2 DEF NeedInv
    <3> QED
      BY <1>0, <3>2, <3>3, <3>4 DEF ResultsKept
  <2> QED
    BY <2>1, <2>2
<1> QED
  BY <1>2, <1>3, <1>4

LEMMA ResultsInvariant == Spec => []ResultsInv
BY InitResultsInv, NextResultsInv, NeedInvariant, StageInvariant, InductiveInvariant,
   DataTypingCorrect, PTL DEF Spec

(* A running pass finds the result of everything its analyzer requires if  *)
(* no analyzer fails and marking direct requirements marks them all.       *)
THEOREM HorizontalDepsAnalyzedCorrect ==
  ASSUME NobodyFails, RequirementsMarked
  PROVE  Spec => []HorizontalDepsAnalyzed
<1>1. ResultsInv => HorizontalDepsAnalyzed
  BY DEF ResultsInv
<1> QED
  BY <1>1, ResultsInvariant, PTL

(* A pass has the results and the facts that it was promised.              *)
THEOREM PassInputsCompleteCorrect ==
  ASSUME ColdCache, NobodyFails, RequirementsMarked
  PROVE  Spec => []PassInputsComplete
<1>1. ResultsInv /\ FactsInv => PassInputsComplete
  BY DEF ResultsInv, FactsInv, FactsVisible, PassInputsComplete
<1> QED
  BY <1>1, ResultsInvariant, FactsInvariant, PTL
=============================================================================
