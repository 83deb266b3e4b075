-------------------------- MODULE RunCommandProofs --------------------------
(***************************************************************************)
(* Theorems about RunCommand, for any number of processes and linters and  *)
(* whatever may go wrong.                                                  *)
(***************************************************************************)
EXTENDS RunCommand, TLAPS

(* A process that has opened the lock file has an inode, and one that      *)
(* works has locked it; an open inode loses its name only to a remover.    *)
LockInv ==
    /\ \A p \in Processes :
         /\ pc[p] = "opened" \/ Working(p) => file[p] \in Inodes
         /\ Working(p) => holder[file[p]] = p
         /\ file[p] # None => file[p] = lockPath \/ removers # {}
         /\ p \in removers => pc[p] \in {"post", "exited"}

(* How far a run has come says what its exit code means so far.            *)
PhaseInv ==
    \A p \in Processes :
       /\ pc[p] \in {"start", "lock", "opened", "retry", "execute", "analysis"} =>
             exitCode[p] = Success /\ ~printed[p]
       /\ pc[p] \in {"start", "lock", "opened", "retry", "execute"} => ctx[p] = "open"
       /\ pc[p] \in {"analysis", "settle", "cancel"} => ctx[p] # "cancelled"
       /\ pc[p] = "settle" =>
             \/ /\ printed[p] /\ todo[p] = 0 /\ ~lintErr[p]
                /\ exitCode[p] = IF found[p] THEN IssuesExitCode ELSE Success
             \/ logged[p] /\ exitCode[p] \in {Failure, NoGoFiles}
       /\ pc[p] \in {"cancel", "await", "unlock", "remove", "post", "exited"} => Truthful(p)

IInv == TypeOK /\ LockInv /\ PhaseInv

(* TryLock opens the inode that has the name, or one that nobody has open. *)
LEMMA OpensAnInode ==
    ASSUME TypeOK, NEW p \in Processes, OpenLock(p)
    PROVE  /\ lockPath' \in Inodes
           /\ lockPath # None => lockPath' = lockPath
<1>1. CASE lockPath = None
  <2>1. PICK i \in Inodes : \A q \in Processes : file[q] # i
    BY InodesSuffice DEF InodesSuffice, TypeOK
  <2>2. i # lockPath
    BY <1>1, RunAssumption DEF RunAssumption
  <2>3. FreshInode \in Inodes
    BY <2>1, <2>2 DEF FreshInode
  <2> QED
    BY <1>1, <2>3 DEF OpenLock
<1>2. CASE lockPath # None
  BY <1>2 DEF OpenLock, TypeOK
<1> QED
  BY <1>1, <1>2

(* Each step keeps the types ... *)
LEMMA TypeStep == TypeOK /\ [Next]_vars => TypeOK'
<1> SUFFICES ASSUME TypeOK, [Next]_vars PROVE TypeOK'
  OBVIOUS
<1> USE RunAssumption DEF RunAssumption, Step, lockVars, watchVars, lintVars,
        Success, WarningInTest, Failure, Timeout, NoGoFiles, ErrorWasLogged, Killed
<1>1. ASSUME NEW p \in Processes, SetUp(p) PROVE TypeOK'
  BY <1>1 DEF TypeOK, Phases, SetUp
<1>2. ASSUME NEW p \in Processes, SetUpFails(p) PROVE TypeOK'
  BY <1>2 DEF TypeOK, Phases, SetUpFails, FailMain
<1>3. ASSUME NEW p \in Processes, OpenLock(p) PROVE TypeOK'
  BY <1>3, OpensAnInode DEF TypeOK, Phases, OpenLock
<1>4. ASSUME NEW p \in Processes, OpenLockFails(p) PROVE TypeOK'
  BY <1>4 DEF TypeOK, Phases, OpenLockFails, FailMain
<1>5. ASSUME NEW p \in Processes, TryLock(p) PROVE TypeOK'
  BY <1>5 DEF TypeOK, Phases, TryLock, IsFree
<1>6. ASSUME NEW p \in Processes, TryLockBusy(p) PROVE TypeOK'
  BY <1>6 DEF TypeOK, Phases, TryLockBusy, IsFree
<1>7. ASSUME NEW p \in Processes, GiveUp(p) PROVE TypeOK'
  BY <1>7 DEF TypeOK, Phases, GiveUp, FailMain
<1>8. ASSUME NEW p \in Processes, Execute(p) PROVE TypeOK'
  BY <1>8 DEF TypeOK, Phases, Execute
<1>9. ASSUME NEW p \in Processes, RunLinter(p) PROVE TypeOK'
  BY <1>9 DEF TypeOK, Phases, RunLinter, LintersLeft
<1>10. ASSUME NEW p \in Processes, LoadFails(p) PROVE TypeOK'
  BY <1>10 DEF TypeOK, Phases, LoadFails, RunningError
<1>11. ASSUME NEW p \in Processes, LintersFailed(p) PROVE TypeOK'
  BY <1>11 DEF TypeOK, Phases, LintersFailed, RunningError, LintersLeft
<1>12. ASSUME NEW p \in Processes, PrintFails(p) PROVE TypeOK'
  BY <1>12 DEF TypeOK, Phases, PrintFails, RunningError, LintersLeft
<1>13. ASSUME NEW p \in Processes, PrintIssues(p) PROVE TypeOK'
  <2>1. PICK some \in {found[p], FALSE} :
           /\ found' = [found EXCEPT ![p] = some]
           /\ exitCode' = [exitCode EXCEPT ![p] = IF some THEN IssuesExitCode ELSE @]
    BY <1>13 DEF PrintIssues
  <2>2. some \in BOOLEAN
    BY DEF TypeOK
  <2>3. found' \in [Processes -> BOOLEAN]
    BY <2>1, <2>2 DEF TypeOK
  <2>4. exitCode' \in [Processes -> 0..Killed]
    BY <2>1 DEF TypeOK
  <2> QED
    BY <1>13, <2>3, <2>4 DEF TypeOK, Phases, PrintIssues
<1>14. ASSUME NEW p \in Processes, Settle(p) PROVE TypeOK'
  BY <1>14 DEF TypeOK, Phases, Settle, SettledCode
<1>15. ASSUME NEW p \in Processes, Cancel(p) PROVE TypeOK'
  BY <1>15 DEF TypeOK, Phases, Cancel
<1>16. ASSUME NEW p \in Processes, AwaitTracker(p) PROVE TypeOK'
  BY <1>16 DEF TypeOK, Phases, AwaitTracker
<1>17. ASSUME NEW p \in Processes, Unlock(p) PROVE TypeOK'
  BY <1>17 DEF TypeOK, Phases, Unlock, Released
<1>18. ASSUME NEW p \in Processes, RemoveLockFile(p) PROVE TypeOK'
  BY <1>18 DEF TypeOK, Phases, RemoveLockFile
<1>19. ASSUME NEW p \in Processes, PostRun(p) PROVE TypeOK'
  BY <1>19 DEF TypeOK, Phases, PostRun
<1>20. ASSUME NEW p \in Processes, StopTracingFails(p) PROVE TypeOK'
  BY <1>20 DEF TypeOK, Phases, StopTracingFails, FailMain
<1>21. ASSUME NEW p \in Processes, WatchResources(p) PROVE TypeOK'
  BY <1>21 DEF TypeOK, Phases, WatchResources
<1>22. ASSUME NEW p \in Processes, Expire(p) PROVE TypeOK'
  BY <1>22 DEF TypeOK, Phases, Expire
<1>23. ASSUME NEW p \in Processes, Die(p) PROVE TypeOK'
  BY <1>23 DEF TypeOK, Phases, Die, Released
<1>24. CASE UNCHANGED vars
  BY <1>24 DEF TypeOK, Phases, vars
<1> QED
  BY <1>1, <1>2, <1>3, <1>4, <1>5, <1>6, <1>7, <1>8, <1>9, <1>10, <1>11, <1>12,
     <1>13, <1>14, <1>15, <1>16, <1>17, <1>18, <1>19, <1>20, <1>21, <1>22, <1>23, <1>24
  DEF Next, Go, Lock, Lint, Leave

(* ... the ownership of the lock file ... *)
LEMMA LockStep == TypeOK /\ LockInv /\ [Next]_vars => LockInv'
<1> SUFFICES ASSUME TypeOK /\ LockInv, [Next]_vars PROVE LockInv'
  OBVIOUS
<1> USE RunAssumption DEF RunAssumption, Step, lockVars, watchVars, lintVars,
        Success, WarningInTest, Failure, Timeout, NoGoFiles, ErrorWasLogged, Killed
<1>1. ASSUME NEW p \in Processes, SetUp(p) PROVE LockInv'
  BY <1>1 DEF TypeOK, LockInv, Working, SetUp
<1>2. ASSUME NEW p \in Processes, SetUpFails(p) PROVE LockInv'
  BY <1>2 DEF TypeOK, LockInv, Working, SetUpFails, FailMain
<1>3. ASSUME NEW p \in Processes, OpenLock(p) PROVE LockInv'
  <2>1. lockPath' \in Inodes /\ (lockPath # None => lockPath' = lockPath)
    BY <1>3, OpensAnInode
  <2>2. /\ pc' = [pc EXCEPT ![p] = "opened"] /\ file' = [file EXCEPT ![p] = lockPath']
        /\ UNCHANGED <<mode, holder, removers>>
        /\ pc[p] \in {"lock", "retry"}
    BY <1>3 DEF OpenLock
  <2> QED
    BY <2>1, <2>2 DEF TypeOK, LockInv, Working
<1>4. ASSUME NEW p \in Processes, OpenLockFails(p) PROVE LockInv'
  BY <1>4 DEF TypeOK, LockInv, Working, OpenLockFails, FailMain
<1>5. ASSUME NEW p \in Processes, TryLock(p) PROVE LockInv'
  BY <1>5 DEF TypeOK, LockInv, Working, TryLock, IsFree
<1>6. ASSUME NEW p \in Processes, TryLockBusy(p) PROVE LockInv'
  BY <1>6 DEF TypeOK, LockInv, Working, TryLockBusy, IsFree
<1>7. ASSUME NEW p \in Processes, GiveUp(p) PROVE LockInv'
  BY <1>7 DEF TypeOK, LockInv, Working, GiveUp, FailMain
<1>8. ASSUME NEW p \in Processes, Execute(p) PROVE LockInv'
  BY <1>8 DEF TypeOK, LockInv, Working, Execute
<1>9. ASSUME NEW p \in Processes, RunLinter(p) PROVE LockInv'
  BY <1>9 DEF TypeOK, LockInv, Working, RunLinter, LintersLeft
<1>10. ASSUME NEW p \in Processes, LoadFails(p) PROVE LockInv'
  BY <1>10 DEF TypeOK, LockInv, Working, LoadFails, RunningError
<1>11. ASSUME NEW p \in Processes, LintersFailed(p) PROVE LockInv'
  BY <1>11 DEF TypeOK, LockInv, Working, LintersFailed, RunningError, LintersLeft
<1>12. ASSUME NEW p \in Processes, PrintFails(p) PROVE LockInv'
  BY <1>12 DEF TypeOK, LockInv, Working, PrintFails, RunningError, LintersLeft
<1>13. ASSUME NEW p \in Processes, PrintIssues(p) PROVE LockInv'
  BY <1>13 DEF TypeOK, LockInv, Working, PrintIssues, LintersLeft
<1>14. ASSUME NEW p \in Processes, Settle(p) PROVE LockInv'
  BY <1>14 DEF TypeOK, LockInv, Working, Settle, SettledCode
<1>15. ASSUME NEW p \in Processes, Cancel(p) PROVE LockInv'
  BY <1>15 DEF TypeOK, LockInv, Working, Cancel
<1>16. ASSUME NEW p \in Processes, AwaitTracker(p) PROVE LockInv'
  BY <1>16 DEF TypeOK, LockInv, Working, AwaitTracker
<1>17. ASSUME NEW p \in Processes, Unlock(p) PROVE LockInv'
  BY <1>17 DEF TypeOK, LockInv, Working, Unlock, Released
<1>18. ASSUME NEW p \in Processes, RemoveLockFile(p) PROVE LockInv'
  BY <1>18 DEF TypeOK, LockInv, Working, RemoveLockFile
<1>19. ASSUME NEW p \in Processes, PostRun(p) PROVE LockInv'
  BY <1>19 DEF TypeOK, LockInv, Working, PostRun
<1>20. ASSUME NEW p \in Processes, StopTracingFails(p) PROVE LockInv'
  BY <1>20 DEF TypeOK, LockInv, Working, StopTracingFails, FailMain
<1>21. ASSUME NEW p \in Processes, WatchResources(p) PROVE LockInv'
  BY <1>21 DEF TypeOK, LockInv, Working, WatchResources
<1>22. ASSUME NEW p \in Processes, Expire(p) PROVE LockInv'
  BY <1>22 DEF TypeOK, LockInv, Working, Expire
<1>23. ASSUME NEW p \in Processes, Die(p) PROVE LockInv'
  BY <1>23 DEF TypeOK, LockInv, Working, Die, Released
<1>24. CASE UNCHANGED vars
  BY <1>24 DEF TypeOK, LockInv, Working, vars
<1> QED
  BY <1>1, <1>2, <1>3, <1>4, <1>5, <1>6, <1>7, <1>8, <1>9, <1>10, <1>11, <1>12,
     <1>13, <1>14, <1>15, <1>16, <1>17, <1>18, <1>19, <1>20, <1>21, <1>22, <1>23, <1>24
  DEF Next, Go, Lock, Lint, Leave

(* ... and the meaning of the exit code. *)
LEMMA PhaseStep == TypeOK /\ PhaseInv /\ [Next]_vars => PhaseInv'
<1> SUFFICES ASSUME TypeOK /\ PhaseInv, [Next]_vars PROVE PhaseInv'
  OBVIOUS
<1> USE RunAssumption DEF RunAssumption, Step, lockVars, watchVars, lintVars,
        Success, WarningInTest, Failure, Timeout, NoGoFiles, ErrorWasLogged, Killed
<1>1. ASSUME NEW p \in Processes, SetUp(p) PROVE PhaseInv'
  BY <1>1 DEF TypeOK, PhaseInv, Truthful, Clean, NothingToReport, SetUp
<1>2. ASSUME NEW p \in Processes, SetUpFails(p) PROVE PhaseInv'
  BY <1>2 DEF TypeOK, PhaseInv, Truthful, Clean, NothingToReport, SetUpFails, FailMain
<1>3. ASSUME NEW p \in Processes, OpenLock(p) PROVE PhaseInv'
  BY <1>3 DEF TypeOK, PhaseInv, Truthful, Clean, NothingToReport, OpenLock
<1>4. ASSUME NEW p \in Processes, OpenLockFails(p) PROVE PhaseInv'
  BY <1>4 DEF TypeOK, PhaseInv, Truthful, Clean, NothingToReport, OpenLockFails, FailMain
<1>5. ASSUME NEW p \in Processes, TryLock(p) PROVE PhaseInv'
  BY <1>5 DEF TypeOK, PhaseInv, Truthful, Clean, NothingToReport, TryLock, IsFree
<1>6. ASSUME NEW p \in Processes, TryLockBusy(p) PROVE PhaseInv'
  BY <1>6 DEF TypeOK, PhaseInv, Truthful, Clean, NothingToReport, TryLockBusy, IsFree
<1>7. ASSUME NEW p \in Processes, GiveUp(p) PROVE PhaseInv'
  BY <1>7 DEF TypeOK, PhaseInv, Truthful, Clean, NothingToReport, GiveUp, FailMain
<1>8. ASSUME NEW p \in Processes, Execute(p) PROVE PhaseInv'
  BY <1>8 DEF TypeOK, PhaseInv, Truthful, Clean, NothingToReport, Execute
<1>9. ASSUME NEW p \in Processes, RunLinter(p) PROVE PhaseInv'
  BY <1>9 DEF TypeOK, PhaseInv, Truthful, Clean, NothingToReport, RunLinter, LintersLeft
<1>10. ASSUME NEW p \in Processes, LoadFails(p) PROVE PhaseInv'
  BY <1>10 DEF TypeOK, PhaseInv, Truthful, Clean, NothingToReport, LoadFails, RunningError
<1>11. ASSUME NEW p \in Processes, LintersFailed(p) PROVE PhaseInv'
  BY <1>11 DEF TypeOK, PhaseInv, Truthful, Clean, NothingToReport, LintersFailed, RunningError, LintersLeft
<1>12. ASSUME NEW p \in Processes, PrintFails(p) PROVE PhaseInv'
  BY <1>12 DEF TypeOK, PhaseInv, Truthful, Clean, NothingToReport, PrintFails, RunningError, LintersLeft
<1>13. ASSUME NEW p \in Processes, PrintIssues(p) PROVE PhaseInv'
  BY <1>13 DEF TypeOK, PhaseInv, Truthful, Clean, NothingToReport, PrintIssues, LintersLeft
<1>14. ASSUME NEW p \in Processes, Settle(p) PROVE PhaseInv'
  <2>1. /\ pc[p] = "settle" /\ pc'[p] = "cancel"
        /\ exitCode'[p] = SettledCode(p)
        /\ UNCHANGED <<ctx, todo, lintErr, found, printed, warned, logged>>
    BY <1>14 DEF Settle, TypeOK
  <2>2. Truthful(p)'
    <3>1. CASE ctx[p] # "open"
      BY <2>1, <3>1 DEF TypeOK, PhaseInv, Truthful, Clean, NothingToReport, SettledCode
    <3>2. CASE ctx[p] = "open" /\ exitCode[p] # Success
      BY <2>1, <3>2 DEF TypeOK, PhaseInv, Truthful, Clean, NothingToReport, SettledCode
    <3>3. CASE ctx[p] = "open" /\ exitCode[p] = Success
      BY <2>1, <3>3 DEF TypeOK, PhaseInv, Truthful, Clean, NothingToReport, SettledCode
    <3> QED
      BY <3>1, <3>2, <3>3
  <2>3. ASSUME NEW q \in Processes, q # p
        PROVE  /\ pc'[q] = pc[q] /\ exitCode'[q] = exitCode[q]
               /\ Truthful(q) => Truthful(q)'
    BY <1>14, <2>3 DEF Settle, TypeOK, Truthful, Clean, NothingToReport
  <2> QED
    BY <1>14, <2>1, <2>2, <2>3 DEF Settle, PhaseInv, TypeOK
<1>15. ASSUME NEW p \in Processes, Cancel(p) PROVE PhaseInv'
  BY <1>15 DEF TypeOK, PhaseInv, Truthful, Clean, NothingToReport, Cancel
<1>16. ASSUME NEW p \in Processes, AwaitTracker(p) PROVE PhaseInv'
  BY <1>16 DEF TypeOK, PhaseInv, Truthful, Clean, NothingToReport, AwaitTracker
<1>17. ASSUME NEW p \in Processes, Unlock(p) PROVE PhaseInv'
  BY <1>17 DEF TypeOK, PhaseInv, Truthful, Clean, NothingToReport, Unlock, Released
<1>18. ASSUME NEW p \in Processes, RemoveLockFile(p) PROVE PhaseInv'
  BY <1>18 DEF TypeOK, PhaseInv, Truthful, Clean, NothingToReport, RemoveLockFile
<1>19. ASSUME NEW p \in Processes, PostRun(p) PROVE PhaseInv'
  BY <1>19 DEF TypeOK, PhaseInv, Truthful, Clean, NothingToReport, PostRun
<1>20. ASSUME NEW p \in Processes, StopTracingFails(p) PROVE PhaseInv'
  BY <1>20 DEF TypeOK, PhaseInv, Truthful, Clean, NothingToReport, StopTracingFails, FailMain
<1>21. ASSUME NEW p \in Processes, WatchResources(p) PROVE PhaseInv'
  BY <1>21 DEF TypeOK, PhaseInv, Truthful, Clean, NothingToReport, WatchResources
<1>22. ASSUME NEW p \in Processes, Expire(p) PROVE PhaseInv'
  BY <1>22 DEF TypeOK, PhaseInv, Truthful, Clean, NothingToReport, Expire
<1>23. ASSUME NEW p \in Processes, Die(p) PROVE PhaseInv'
  BY <1>23 DEF TypeOK, PhaseInv, Truthful, Clean, NothingToReport, Die, Released
<1>24. CASE UNCHANGED vars
  BY <1>24 DEF TypeOK, PhaseInv, Truthful, Clean, NothingToReport, vars
<1> QED
  BY <1>1, <1>2, <1>3, <1>4, <1>5, <1>6, <1>7, <1>8, <1>9, <1>10, <1>11, <1>12,
     <1>13, <1>14, <1>15, <1>16, <1>17, <1>18, <1>19, <1>20, <1>21, <1>22, <1>23, <1>24
  DEF Next, Go, Lock, Lint, Leave

-----------------------------------------------------------------------------
(* The inductive invariant. *)
LEMMA InvHolds == Spec => []IInv
<1>1. Init => IInv
  <2> SUFFICES ASSUME Init PROVE IInv
    OBVIOUS
  <2>1. \E i \in Inodes : TRUE
    <3>1. [p \in Processes |-> None] \in [Processes -> Inodes \cup {None}]
      OBVIOUS
    <3> QED
      BY <3>1, InodesSuffice DEF InodesSuffice
  <2>2. lockPath \in Inodes \cup {None}
    BY <2>1 DEF Init
  <2> QED
    BY <2>2, RunAssumption DEF Init, IInv, TypeOK, Phases, LockInv, PhaseInv, Working,
       RunAssumption, Success, Killed
<1>2. IInv /\ [Next]_vars => IInv'
  BY TypeStep, LockStep, PhaseStep DEF IInv
<1> QED
  BY <1>1, <1>2, PTL DEF Spec

(* The state of every process and of the lock file has its type.           *)
THEOREM RunTypeCorrect == Spec => []TypeOK
  BY InvHolds, PTL DEF IInv

(* The status a run leaves with tells the truth about it, whatever fails.  *)
THEOREM ExitCodesTruthful == Spec => []ExitCodeTruthful
<1>1. IInv => ExitCodeTruthful
  BY DEF IInv, PhaseInv, ExitCodeTruthful
<1> QED
  BY <1>1, InvHolds, PTL

(* Any two runs exclude each other until a third removes the lock file:    *)
(* they hold different inodes, and at most one of these has the name.      *)
THEOREM OverlapByRemovalOnly == Spec => []OverlapNeedsRemover
<1>1. IInv => OverlapNeedsRemover
  <2> SUFFICES ASSUME IInv, NEW p \in Processes, NEW q \in Processes,
                      Working(p), Working(q), p # q
               PROVE  removers \ {p, q} # {}
    BY DEF OverlapNeedsRemover
  <2>1. file[p] \in Inodes /\ file[q] \in Inodes /\ file[p] # file[q]
    BY DEF IInv, LockInv
  <2>2. removers # {}
    BY <2>1, RunAssumption DEF IInv, LockInv, RunAssumption
  <2>3. p \notin removers /\ q \notin removers
    BY DEF IInv, LockInv, Working
  <2> QED
    BY <2>2, <2>3
<1> QED
  BY <1>1, InvHolds, PTL
=============================================================================
