-------------------------- MODULE IssueCacheProofs --------------------------
(***************************************************************************)
(* Theorems about IssueCache, for any import graph, linters and versions,  *)
(* any number of runs, and edits at any moment.                            *)
(***************************************************************************)
EXTENDS IssueCache, TLAPS

(* What has not been edited since the load was the same for everybody who  *)
(* has read it.                                                            *)
ViewsOK ==
    pc # "idle" =>
       \A q \in Packages \ edited :
          /\ listed[q] = content[q]
          /\ hashed[q] \in {None, content[q]}
          /\ seen[q] \in {None, content[q]}

(* A linter that saves has read, and compiled, all it was to analyse.      *)
PhaseOK ==
    /\ pc \in {"load", "analyze", "save"} => linter \in Linters
    /\ pc = "save" =>
          /\ todo \subseteq ToAnalyze
          /\ \A p \in ToAnalyze : \A q \in Below(p) : seen[q] # None /\ seen[q] \notin Broken

(* An entry holds what its linter found on code that compiled and, unless  *)
(* it is torn, that is the code its key names.                             *)
EntryOK(e) ==
    /\ e.by = e.linter
    /\ e.seen = e.hash \/ e.torn \cap Below(e.pkg) # {}
    /\ \A q \in Below(e.pkg) : e.hash[q] # None /\ e.seen[q] \notin Broken

EntriesOK == \A e \in entries \cup hits : EntryOK(e)

HitsOK == \A e \in hits : e.linter = linter /\ e.hash = Closure(e.pkg, hashed)

IInv == TypeOK /\ ViewsOK /\ PhaseOK /\ EntriesOK /\ HitsOK

(* The closure of imports stays within the graph. *)
LEMMA BelowInPackages == \A p : Below(p) \subseteq Packages
  BY DEF Below

(* The types of an entry. *)
LEMMA NewEntryTyped ==
    ASSUME TypeOK, linter \in Linters, NEW p \in Initial
    PROVE  NewEntry(p) \in Entries
<1>1. Closure(p, hashed) \in Views /\ Closure(p, seen) \in Views
  BY DEF Closure, Views, TypeOK
<1> QED
  BY <1>1 DEF NewEntry, KeyHash, Entries, TypeOK

(* What is saved satisfies EntryOK: an unedited package was hashed and     *)
(* read in the same version.                                               *)
LEMMA NewEntrySound ==
    ASSUME IInv, pc = "save", NEW p \in Initial, p \in todo, Hashed(p)
    PROVE  EntryOK(NewEntry(p))
<1>1. /\ NewEntry(p).by = linter /\ NewEntry(p).linter = linter /\ NewEntry(p).pkg = p
      /\ NewEntry(p).hash = Closure(p, hashed) /\ NewEntry(p).seen = Closure(p, seen)
      /\ NewEntry(p).torn = edited
  BY DEF NewEntry, KeyHash
<1>2. \A q \in Below(p) : /\ q \in Packages
                         /\ hashed[q] # None /\ seen[q] # None /\ seen[q] \notin Broken
  BY BelowInPackages DEF IInv, PhaseOK, Hashed
<1>3. \A q \in Below(p) : Closure(p, hashed)[q] = hashed[q] /\ Closure(p, seen)[q] = seen[q]
  BY <1>2 DEF Closure
<1>4. ASSUME edited \cap Below(p) = {} PROVE Closure(p, seen) = Closure(p, hashed)
  <2>1. \A q \in Below(p) : seen[q] = hashed[q]
    BY <1>2, <1>4 DEF IInv, ViewsOK
  <2> QED
    BY <2>1 DEF Closure
<1> QED
  BY <1>1, <1>2, <1>3, <1>4 DEF EntryOK

(* Each step keeps the types. *)
LEMMA TypeStep == TypeOK /\ PhaseOK /\ [Next]_vars => TypeOK'
<1> SUFFICES ASSUME TypeOK /\ PhaseOK, [Next]_vars PROVE TypeOK'
  OBVIOUS
<1> USE PackagesAssumption, IssueCacheAssumption, BelowInPackages
    DEF PackagesAssumption, IssueCacheAssumption, diskVars, loadVars
<1>1. ASSUME StartRun PROVE TypeOK'
  BY <1>1 DEF TypeOK, PhaseOK, Views, Entries, NoView, StartRun
<1>2. ASSUME LookupsDone PROVE TypeOK'
  BY <1>2 DEF TypeOK, PhaseOK, Views, Entries, NoView, LookupsDone
<1>3. ASSUME Conclude PROVE TypeOK'
  BY <1>3 DEF TypeOK, PhaseOK, Views, Entries, NoView, Conclude, MaySave, CompileErrors, AllRead, ToAnalyze, FromCache
<1>4. ASSUME SavesDone PROVE TypeOK'
  BY <1>4 DEF TypeOK, PhaseOK, Views, Entries, NoView, SavesDone
<1>5. ASSUME EndRun PROVE TypeOK'
  BY <1>5 DEF TypeOK, PhaseOK, Views, Entries, NoView, EndRun
<1>6. ASSUME NEW l \in Linters, StartLinter(l) PROVE TypeOK'
  BY <1>6 DEF TypeOK, PhaseOK, Views, Entries, NoView, StartLinter
<1>7. ASSUME NEW q \in Packages, HashFile(q) PROVE TypeOK'
  BY <1>7 DEF TypeOK, PhaseOK, Views, Entries, NoView, HashFile
<1>8. ASSUME NEW q \in Packages, Read(q) PROVE TypeOK'
  BY <1>8 DEF TypeOK, PhaseOK, Views, Entries, NoView, Read, Readable
<1>9. ASSUME NEW p \in Initial, LoadMiss(p) PROVE TypeOK'
  BY <1>9 DEF TypeOK, PhaseOK, Views, Entries, NoView, LoadMiss
<1>10. ASSUME NEW p \in Initial, Save(p) PROVE TypeOK'
  <2>1. NewEntry(p) \in Entries
    BY <1>10, NewEntryTyped DEF PhaseOK, Save
  <2> QED
    BY <1>10, <2>1 DEF TypeOK, Save
<1>11. ASSUME NEW p \in Initial, SaveFails(p) PROVE TypeOK'
  BY <1>11 DEF TypeOK, PhaseOK, Views, Entries, NoView, SaveFails
<1>12. ASSUME NEW e \in entries, Forget(e) PROVE TypeOK'
  BY <1>12 DEF TypeOK, PhaseOK, Views, Entries, NoView, Forget
<1>13. ASSUME NEW p \in Initial, NEW e \in entries, LoadHit(p, e) PROVE TypeOK'
  BY <1>13 DEF TypeOK, PhaseOK, Views, Entries, NoView, LoadHit, HasKey
<1>14. ASSUME NEW p \in Packages, NEW v \in Versions, Edit(p, v) PROVE TypeOK'
  BY <1>14 DEF TypeOK, PhaseOK, Views, Entries, NoView, Edit
<1>15. CASE UNCHANGED vars
  BY <1>15 DEF TypeOK, PhaseOK, Views, Entries, NoView, vars
<1> QED
  BY <1>1, <1>2, <1>3, <1>4, <1>5, <1>6, <1>7, <1>8, <1>9, <1>10, <1>11, <1>12, <1>13, <1>14, <1>15
  DEF Next

(* An edit spoils only the views of what it edits. *)
LEMMA ViewsStep == TypeOK /\ ViewsOK /\ [Next]_vars => ViewsOK'
<1> SUFFICES ASSUME TypeOK /\ ViewsOK, [Next]_vars PROVE ViewsOK'
  OBVIOUS
<1> USE PackagesAssumption, IssueCacheAssumption, BelowInPackages
    DEF PackagesAssumption, IssueCacheAssumption, diskVars, loadVars
<1>1. ASSUME StartRun PROVE ViewsOK'
  BY <1>1 DEF TypeOK, ViewsOK, Views, NoView, StartRun
<1>2. ASSUME LookupsDone PROVE ViewsOK'
  BY <1>2 DEF TypeOK, ViewsOK, Views, NoView, LookupsDone
<1>3. ASSUME Conclude PROVE ViewsOK'
  BY <1>3 DEF TypeOK, ViewsOK, Views, NoView, Conclude, MaySave, CompileErrors, AllRead, ToAnalyze, FromCache
<1>4. ASSUME SavesDone PROVE ViewsOK'
  BY <1>4 DEF TypeOK, ViewsOK, Views, NoView, SavesDone
<1>5. ASSUME EndRun PROVE ViewsOK'
  BY <1>5 DEF TypeOK, ViewsOK, Views, NoView, EndRun
<1>6. ASSUME NEW l \in Linters, StartLinter(l) PROVE ViewsOK'
  BY <1>6 DEF TypeOK, ViewsOK, Views, NoView, StartLinter
<1>7. ASSUME NEW q \in Packages, HashFile(q) PROVE ViewsOK'
  BY <1>7 DEF TypeOK, ViewsOK, Views, NoView, HashFile
<1>8. ASSUME NEW q \in Packages, Read(q) PROVE ViewsOK'
  BY <1>8 DEF TypeOK, ViewsOK, Views, NoView, Read, Readable
<1>9. ASSUME NEW p \in Initial, LoadMiss(p) PROVE ViewsOK'
  BY <1>9 DEF TypeOK, ViewsOK, Views, NoView, LoadMiss
<1>10. ASSUME NEW p \in Initial, Save(p) PROVE ViewsOK'
  BY <1>10 DEF TypeOK, ViewsOK, Views, NoView, Save, NewEntry, Closure
<1>11. ASSUME NEW p \in Initial, SaveFails(p) PROVE ViewsOK'
  BY <1>11 DEF TypeOK, ViewsOK, Views, NoView, SaveFails
<1>12. ASSUME NEW e \in entries, Forget(e) PROVE ViewsOK'
  BY <1>12 DEF TypeOK, ViewsOK, Views, NoView, Forget
<1>13. ASSUME NEW p \in Initial, NEW e \in entries, LoadHit(p, e) PROVE ViewsOK'
  BY <1>13 DEF TypeOK, ViewsOK, Views, NoView, LoadHit, HasKey
<1>14. ASSUME NEW p \in Packages, NEW v \in Versions, Edit(p, v) PROVE ViewsOK'
  BY <1>14 DEF TypeOK, ViewsOK, Views, NoView, Edit
<1>15. CASE UNCHANGED vars
  BY <1>15 DEF TypeOK, ViewsOK, Views, NoView, vars
<1> QED
  BY <1>1, <1>2, <1>3, <1>4, <1>5, <1>6, <1>7, <1>8, <1>9, <1>10, <1>11, <1>12, <1>13, <1>14, <1>15
  DEF Next

(* The phases of a linter. *)
LEMMA PhaseStep == TypeOK /\ PhaseOK /\ [Next]_vars => PhaseOK'
<1> SUFFICES ASSUME TypeOK /\ PhaseOK, [Next]_vars PROVE PhaseOK'
  OBVIOUS
<1> USE PackagesAssumption, IssueCacheAssumption, BelowInPackages
    DEF PackagesAssumption, IssueCacheAssumption, diskVars, loadVars
<1>1. ASSUME StartRun PROVE PhaseOK'
  BY <1>1 DEF TypeOK, PhaseOK, Views, ToAnalyze, FromCache, StartRun
<1>2. ASSUME LookupsDone PROVE PhaseOK'
  BY <1>2 DEF TypeOK, PhaseOK, Views, ToAnalyze, FromCache, LookupsDone
<1>3. ASSUME Conclude PROVE PhaseOK'
  BY <1>3 DEF TypeOK, PhaseOK, Views, ToAnalyze, FromCache, Conclude, MaySave, CompileErrors, AllRead, ToAnalyze, FromCache
<1>4. ASSUME SavesDone PROVE PhaseOK'
  BY <1>4 DEF TypeOK, PhaseOK, Views, ToAnalyze, FromCache, SavesDone
<1>5. ASSUME EndRun PROVE PhaseOK'
  BY <1>5 DEF TypeOK, PhaseOK, Views, ToAnalyze, FromCache, EndRun
<1>6. ASSUME NEW l \in Linters, StartLinter(l) PROVE PhaseOK'
  BY <1>6 DEF TypeOK, PhaseOK, Views, ToAnalyze, FromCache, StartLinter
<1>7. ASSUME NEW q \in Packages, HashFile(q) PROVE PhaseOK'
  BY <1>7 DEF TypeOK, PhaseOK, Views, ToAnalyze, FromCache, HashFile
<1>8. ASSUME NEW q \in Packages, Read(q) PROVE PhaseOK'
  BY <1>8 DEF TypeOK, PhaseOK, Views, ToAnalyze, FromCache, Read, Readable
<1>9. ASSUME NEW p \in Initial, LoadMiss(p) PROVE PhaseOK'
  BY <1>9 DEF TypeOK, PhaseOK, Views, ToAnalyze, FromCache, LoadMiss
<1>10. ASSUME NEW p \in Initial, Save(p) PROVE PhaseOK'
  BY <1>10 DEF TypeOK, PhaseOK, Views, ToAnalyze, FromCache, Save, NewEntry, Closure
<1>11. ASSUME NEW p \in Initial, SaveFails(p) PROVE PhaseOK'
  BY <1>11 DEF TypeOK, PhaseOK, Views, ToAnalyze, FromCache, SaveFails
<1>12. ASSUME NEW e \in entries, Forget(e) PROVE PhaseOK'
  BY <1>12 DEF TypeOK, PhaseOK, Views, ToAnalyze, FromCache, Forget
<1>13. ASSUME NEW p \in Initial, NEW e \in entries, LoadHit(p, e) PROVE PhaseOK'
  BY <1>13 DEF TypeOK, PhaseOK, Views, ToAnalyze, FromCache, LoadHit, HasKey
<1>14. ASSUME NEW p \in Packages, NEW v \in Versions, Edit(p, v) PROVE PhaseOK'
  BY <1>14 DEF TypeOK, PhaseOK, Views, ToAnalyze, FromCache, Edit
<1>15. CASE UNCHANGED vars
  BY <1>15 DEF TypeOK, PhaseOK, Views, ToAnalyze, FromCache, vars
<1> QED
  BY <1>1, <1>2, <1>3, <1>4, <1>5, <1>6, <1>7, <1>8, <1>9, <1>10, <1>11, <1>12, <1>13, <1>14, <1>15
  DEF Next

(* Only sound entries are saved. *)
LEMMA EntriesStep == IInv /\ [Next]_vars => EntriesOK'
<1> SUFFICES ASSUME IInv, [Next]_vars PROVE EntriesOK'
  OBVIOUS
<1> USE PackagesAssumption, IssueCacheAssumption, BelowInPackages
    DEF PackagesAssumption, IssueCacheAssumption, diskVars, loadVars
<1>1. ASSUME StartRun PROVE EntriesOK'
  BY <1>1 DEF IInv, EntriesOK, StartRun
<1>2. ASSUME LookupsDone PROVE EntriesOK'
  BY <1>2 DEF IInv, EntriesOK, LookupsDone
<1>3. ASSUME Conclude PROVE EntriesOK'
  BY <1>3 DEF IInv, EntriesOK, Conclude, MaySave, CompileErrors, AllRead, ToAnalyze, FromCache
<1>4. ASSUME SavesDone PROVE EntriesOK'
  BY <1>4 DEF IInv, EntriesOK, SavesDone
<1>5. ASSUME EndRun PROVE EntriesOK'
  BY <1>5 DEF IInv, EntriesOK, EndRun
<1>6. ASSUME NEW l \in Linters, StartLinter(l) PROVE EntriesOK'
  BY <1>6 DEF IInv, EntriesOK, StartLinter
<1>7. ASSUME NEW q \in Packages, HashFile(q) PROVE EntriesOK'
  BY <1>7 DEF IInv, EntriesOK, HashFile
<1>8. ASSUME NEW q \in Packages, Read(q) PROVE EntriesOK'
  BY <1>8 DEF IInv, EntriesOK, Read, Readable
<1>9. ASSUME NEW p \in Initial, LoadMiss(p) PROVE EntriesOK'
  BY <1>9 DEF IInv, EntriesOK, LoadMiss
<1>10. ASSUME NEW p \in Initial, Save(p) PROVE EntriesOK'
  <2>1. EntryOK(NewEntry(p))
    BY <1>10, NewEntrySound DEF Save
  <2> QED
    BY <1>10, <2>1 DEF IInv, EntriesOK, EntryOK, Save
<1>11. ASSUME NEW p \in Initial, SaveFails(p) PROVE EntriesOK'
  BY <1>11 DEF IInv, EntriesOK, SaveFails
<1>12. ASSUME NEW e \in entries, Forget(e) PROVE EntriesOK'
  BY <1>12 DEF IInv, EntriesOK, Forget
<1>13. ASSUME NEW p \in Initial, NEW e \in entries, LoadHit(p, e) PROVE EntriesOK'
  BY <1>13 DEF IInv, EntriesOK, LoadHit, HasKey
<1>14. ASSUME NEW p \in Packages, NEW v \in Versions, Edit(p, v) PROVE EntriesOK'
  BY <1>14 DEF IInv, EntriesOK, Edit
<1>15. CASE UNCHANGED vars
  BY <1>15 DEF IInv, EntriesOK, vars
<1> QED
  BY <1>1, <1>2, <1>3, <1>4, <1>5, <1>6, <1>7, <1>8, <1>9, <1>10, <1>11, <1>12, <1>13, <1>14, <1>15
  DEF Next

(* What a hit was found under stays the key of its package. *)
LEMMA HitsStep == IInv /\ [Next]_vars => HitsOK'
<1> SUFFICES ASSUME IInv, [Next]_vars PROVE HitsOK'
  OBVIOUS
<1> USE PackagesAssumption, IssueCacheAssumption, BelowInPackages
    DEF PackagesAssumption, IssueCacheAssumption, diskVars, loadVars
<1>1. ASSUME StartRun PROVE HitsOK'
  BY <1>1 DEF IInv, HitsOK, StartRun
<1>2. ASSUME LookupsDone PROVE HitsOK'
  BY <1>2 DEF IInv, HitsOK, LookupsDone
<1>3. ASSUME Conclude PROVE HitsOK'
  BY <1>3 DEF IInv, HitsOK, Conclude, MaySave, CompileErrors, AllRead, ToAnalyze, FromCache
<1>4. ASSUME SavesDone PROVE HitsOK'
  BY <1>4 DEF IInv, HitsOK, SavesDone
<1>5. ASSUME EndRun PROVE HitsOK'
  BY <1>5 DEF IInv, HitsOK, EndRun
<1>6. ASSUME NEW l \in Linters, StartLinter(l) PROVE HitsOK'
  BY <1>6 DEF IInv, HitsOK, StartLinter
<1>7. ASSUME NEW q \in Packages, HashFile(q) PROVE HitsOK'
  <2> SUFFICES ASSUME NEW e \in hits
               PROVE  e.linter = linter /\ e.hash = Closure(e.pkg, hashed')
    BY <1>7 DEF HitsOK, HashFile
  <2>1. e.hash = Closure(e.pkg, hashed) /\ \A r \in Below(e.pkg) : e.hash[r] # None
    BY DEF IInv, HitsOK, EntriesOK, EntryOK
  <2>2. \A r \in Below(e.pkg) : r \in Packages /\ hashed[r] # None
    BY <2>1 DEF Closure
  <2>3. \A r \in Below(e.pkg) : hashed'[r] = hashed[r]
    BY <1>7, <2>2 DEF HashFile, IInv, TypeOK, Views
  <2>4. Closure(e.pkg, hashed') = Closure(e.pkg, hashed)
    BY <2>3 DEF Closure
  <2> QED
    BY <2>1, <2>4 DEF IInv, HitsOK
<1>8. ASSUME NEW q \in Packages, Read(q) PROVE HitsOK'
  BY <1>8 DEF IInv, HitsOK, Read, Readable
<1>9. ASSUME NEW p \in Initial, LoadMiss(p) PROVE HitsOK'
  BY <1>9 DEF IInv, HitsOK, LoadMiss
<1>10. ASSUME NEW p \in Initial, Save(p) PROVE HitsOK'
  BY <1>10 DEF IInv, HitsOK, Save, NewEntry, Closure
<1>11. ASSUME NEW p \in Initial, SaveFails(p) PROVE HitsOK'
  BY <1>11 DEF IInv, HitsOK, SaveFails
<1>12. ASSUME NEW e \in entries, Forget(e) PROVE HitsOK'
  BY <1>12 DEF IInv, HitsOK, Forget
<1>13. ASSUME NEW p \in Initial, NEW e \in entries, LoadHit(p, e) PROVE HitsOK'
  BY <1>13 DEF IInv, HitsOK, LoadHit, HasKey, KeyHash
<1>14. ASSUME NEW p \in Packages, NEW v \in Versions, Edit(p, v) PROVE HitsOK'
  BY <1>14 DEF IInv, HitsOK, Edit
<1>15. CASE UNCHANGED vars
  BY <1>15 DEF IInv, HitsOK, vars
<1> QED
  BY <1>1, <1>2, <1>3, <1>4, <1>5, <1>6, <1>7, <1>8, <1>9, <1>10, <1>11, <1>12, <1>13, <1>14, <1>15
  DEF Next

-----------------------------------------------------------------------------
(* The inductive invariant. *)
LEMMA InvHolds == Spec => []IInv
<1>1. Init => IInv
  BY PackagesAssumption, IssueCacheAssumption
  DEF Init, IInv, TypeOK, ViewsOK, PhaseOK, EntriesOK, HitsOK, Views, NoView,
      PackagesAssumption, IssueCacheAssumption
<1>2. IInv /\ [Next]_vars => IInv'
  BY TypeStep, ViewsStep, PhaseStep, EntriesStep, HitsStep DEF IInv
<1> QED
  BY <1>1, <1>2, PTL DEF Spec

(* The states of the cache and of the runs have their types.               *)
THEOREM IssueCacheTypeCorrect == Spec => []TypeOK
  BY InvHolds, PTL DEF IInv

(* What a linter loads from the cache was found on the very files this run *)
(* has hashed, but for entries saved by a run whose files were edited.     *)
THEOREM IssuesFresh == Spec => []HitsAreFresh
<1>1. IInv => HitsAreFresh
  BY DEF IInv, EntriesOK, EntryOK, HitsOK, HitsAreFresh, Fresh
<1> QED
  BY <1>1, InvHolds, PTL

(* Code that does not compile never hides behind the cache.                *)
THEOREM CompileErrorsNotCached == Spec => []CompileErrorsSeen
<1>1. IInv => CompileErrorsSeen
  <2> SUFFICES ASSUME IInv, pc = "save", NEW p \in Initial, NEW q \in Below(p),
                      content[q] \in Broken, q \notin edited
               PROVE  \E e \in hits : e.pkg = p /\ e.torn \cap Below(p) # {}
    BY DEF CompileErrorsSeen
  <2>1. /\ q \in Packages
        /\ hashed[q] \in {None, content[q]} /\ seen[q] \in {None, content[q]}
    BY BelowInPackages DEF IInv, ViewsOK
  <2>2. p \notin ToAnalyze
    BY <2>1 DEF IInv, PhaseOK
  <2>3. PICK e \in hits : e.pkg = p
    BY <2>2 DEF ToAnalyze, FromCache
  <2>4. ASSUME e.seen = e.hash PROVE FALSE
    <3>1. e.hash[q] = hashed[q] /\ e.hash[q] # None /\ e.seen[q] \notin Broken
      BY <2>1, <2>3 DEF IInv, HitsOK, EntriesOK, EntryOK, Closure
    <3> QED
      BY <2>1, <2>4, <3>1
  <2> QED
    BY <2>3, <2>4 DEF IInv, EntriesOK, EntryOK
<1> QED
  BY <1>1, InvHolds, PTL
=============================================================================
