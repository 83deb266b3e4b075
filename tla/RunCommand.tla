----------------------------- MODULE RunCommand -----------------------------
(***************************************************************************)
(* Processes of `golangci-lint run` on one machine: preRunE takes the lock *)
(* on golangci-lint.lock, execute runs the linters under a timeout, prints *)
(* and settles the exit code while a goroutine may watch the resources,    *)
(* postRun releases the lock and removes its file.                         *)
(*                                                                         *)
(* A lock belongs to an inode: a process that has opened the file before   *)
(* another removes its name locks an inode that later runs cannot see.     *)
(***************************************************************************)
EXTENDS Integers

CONSTANTS
    Processes,
    Modes,              \* Modes[p]: the flags p may have on parallel and serial runners
    Verbose,            \* runs that watch their resources
    StrictWarnings,     \* runs with FAIL_ON_WARNINGS set
    Troubled,           \* runs in which something may go wrong
    Inodes,             \* names for the inodes of the lock file
    LinterCount,        \* number of linters of a run
    Outcomes,           \* Outcomes[p]: the ways p's linters may end
    IssuesExitCode,     \* --issues-exit-code
    None

(* exitcodes.go; Killed is the status the shell gives for SIGKILL. *)
Success        == 0
WarningInTest  == 2
Failure        == 3
Timeout        == 4
NoGoFiles      == 5
ErrorWasLogged == 7
Killed         == 137

ASSUME RunAssumption ==
    /\ Modes \in [Processes -> SUBSET {"parallel", "serial", "exclusive"}]
    /\ LinterCount \in Nat
    /\ Outcomes \in [Processes -> SUBSET {"clean", "issues", "failed", "panicked", "warned", "logged"}]
    /\ IssuesExitCode \in 0..125
    /\ None \notin Inodes \cup Processes

(* There is always an inode that no process has open. *)
ASSUME InodesSuffice ==
    \A open \in [Processes -> Inodes \cup {None}] :
       \E i \in Inodes : \A p \in Processes : open[p] # i

VARIABLES
    mode,       \* mode[p]: p allows parallel runners, serial runners, or no other; never changes
    lockPath,   \* the inode that has the name golangci-lint.lock, or None
    holder,     \* holder[i]: the process that has locked inode i, or None
    removers,   \* history: the processes that have released their lock and removed the name
    pc,         \* pc[p]: where p is
    file,       \* file[p]: the lock file's inode that p has open, or None
    ctx,        \* ctx[p]: the context of execute: "open", "expired" or "cancelled"
    tracker,    \* tracker[p]: watchResources is "off", "watching" or has "ended"
    todo,       \* todo[p]: number of linters that have not run
    lintErr,    \* lintErr[p]: a linter has failed
    found,      \* found[p]: issues were found
    printed,    \* printed[p]: the issues were printed
    warned,     \* warned[p]: reportData.Warnings is not empty
    logged,     \* logged[p]: reportData.Error is not empty
    exitCode    \* exitCode[p]: c.exitCode, and the status of p in the end

lockVars  == <<mode, lockPath, holder, removers, file>>
watchVars == <<ctx, tracker>>
lintVars  == <<todo, lintErr, found, printed, warned, logged>>
vars      == <<lockVars, pc, watchVars, lintVars, exitCode>>

Phases == {"start", "lock", "opened", "retry", "execute", "analysis", "settle", "cancel",
           "await", "unlock", "remove", "post", "exited"}

TypeOK ==
    /\ mode \in [Processes -> {"parallel", "serial", "exclusive"}]
    /\ lockPath \in Inodes \cup {None}
    /\ holder \in [Inodes -> Processes \cup {None}]
    /\ removers \subseteq Processes
    /\ pc \in [Processes -> Phases]
    /\ file \in [Processes -> Inodes \cup {None}]
    /\ ctx \in [Processes -> {"open", "expired", "cancelled"}]
    /\ tracker \in [Processes -> {"off", "watching", "ended"}]
    /\ todo \in [Processes -> 0..LinterCount]
    /\ lintErr \in [Processes -> BOOLEAN] /\ found \in [Processes -> BOOLEAN]
    /\ printed \in [Processes -> BOOLEAN] /\ warned \in [Processes -> BOOLEAN]
    /\ logged \in [Processes -> BOOLEAN]
    /\ exitCode \in [Processes -> 0..Killed]

(* Nothing is left of earlier runs, or the file of one that was killed.    *)
Init ==
    /\ mode \in {m \in [Processes -> {"parallel", "serial", "exclusive"}] :
                    \A p \in Processes : m[p] \in Modes[p]}
    /\ lockPath \in {None, CHOOSE i \in Inodes : TRUE}
    /\ holder = [i \in Inodes |-> None]
    /\ removers = {}
    /\ pc = [p \in Processes |-> "start"]
    /\ file = [p \in Processes |-> None]
    /\ ctx = [p \in Processes |-> "open"]
    /\ tracker = [p \in Processes |-> "off"]
    /\ todo = [p \in Processes |-> LinterCount]
    /\ lintErr = [p \in Processes |-> FALSE]
    /\ found = [p \in Processes |-> FALSE]
    /\ printed = [p \in Processes |-> FALSE]
    /\ warned = [p \in Processes |-> FALSE]
    /\ logged = [p \in Processes |-> FALSE]
    /\ exitCode = [p \in Processes |-> Success]

-----------------------------------------------------------------------------
Step(p, from, to) == pc[p] = from /\ pc' = [pc EXCEPT ![p] = to]

(* An error that preRunE or persistentPostRunE returns to main.            *)
FailMain(p, from) == Step(p, from, "exited") /\ exitCode' = [exitCode EXCEPT ![p] = Failure]

(* persistentPreRunE and preRunE, up to the lock. *)
SetUp(p) ==
    /\ Step(p, "start", IF mode[p] = "parallel" THEN "execute" ELSE "lock")
    /\ UNCHANGED <<lockVars, watchVars, lintVars, exitCode>>

SetUpFails(p) ==
    /\ p \in Troubled
    /\ FailMain(p, "start")
    /\ UNCHANGED <<lockVars, watchVars, lintVars>>

(* An inode that has neither the name nor a process that has it open.      *)
FreshInode == CHOOSE i \in Inodes : i # lockPath /\ \A q \in Processes : file[q] # i

(* Mutant of OpenLock: the file itself is the lock. *)
OpenLockExclusively(p) ==
    /\ pc[p] \in {"lock", "retry"}
    /\ lockPath = None
    /\ pc' = [pc EXCEPT ![p] = "opened"]
    /\ lockPath' = FreshInode
    /\ file' = [file EXCEPT ![p] = lockPath']
    /\ UNCHANGED <<mode, holder, removers, watchVars, lintVars, exitCode>>

(* TryLock opens the file, which creates it when there is none.            *)
OpenLock(p) ==
    /\ pc[p] \in {"lock", "retry"}
    /\ pc' = [pc EXCEPT ![p] = "opened"]
    /\ lockPath' = IF lockPath # None THEN lockPath ELSE FreshInode
    /\ file' = [file EXCEPT ![p] = lockPath']
    /\ UNCHANGED <<mode, holder, removers, watchVars, lintVars, exitCode>>

OpenLockFails(p) ==
    /\ p \in Troubled
    /\ FailMain(p, "lock") \/ FailMain(p, "retry")
    /\ UNCHANGED <<lockVars, watchVars, lintVars>>

(* Mutant of IsFree: the result of TryLockContext is ignored. *)
FreeAnyway(p) == TRUE

IsFree(p) == holder[file[p]] = None

TryLock(p) ==
    /\ Step(p, "opened", "execute")
    /\ IsFree(p)
    /\ holder' = [holder EXCEPT ![file[p]] = p]
    /\ UNCHANGED <<mode, lockPath, removers, file, watchVars, lintVars, exitCode>>

(* A busy lock: TryLock closes the file, and a second passes.              *)
TryLockBusy(p) ==
    /\ Step(p, "opened", "retry")
    /\ ~IsFree(p)
    /\ file' = [file EXCEPT ![p] = None]
    /\ UNCHANGED <<mode, lockPath, holder, removers, watchVars, lintVars, exitCode>>

(* The total timeout is over: "parallel golangci-lint is running".         *)
GiveUp(p) ==
    /\ mode[p] # "serial"
    /\ FailMain(p, "retry")
    /\ UNCHANGED <<lockVars, watchVars, lintVars>>

-----------------------------------------------------------------------------
Execute(p) ==
    /\ Step(p, "execute", "analysis")
    /\ tracker' = [tracker EXCEPT ![p] = IF p \in Verbose THEN "watching" ELSE "off"]
    /\ UNCHANGED <<lockVars, ctx, lintVars, exitCode>>

(* The timeout can no longer be told from the cancellation once the exit   *)
(* code is settled.                                                        *)
Expire(p) ==
    /\ p \in Troubled
    /\ pc[p] \in {"analysis", "settle"} /\ ctx[p] = "open"
    /\ ctx' = [ctx EXCEPT ![p] = "expired"]
    /\ UNCHANGED <<lockVars, pc, tracker, lintVars, exitCode>>

(* Mutant of LintersLeft: an off-by-one. *)
LintersLeftOffByOne(p) == todo[p] >= 0

LintersLeft(p) == todo[p] > 0

(* runLinterSafe: a linter finds issues, fails or panics, or it succeeds   *)
(* and yet a warning or an error is logged, as pkgerrors does, or later a  *)
(* processor of its issues.                                                *)
RunLinter(p) ==
    /\ pc[p] = "analysis" /\ LintersLeft(p)
    /\ todo' = [todo EXCEPT ![p] = @ - 1]
    /\ \E outcome \in Outcomes[p] :
         /\ found' = [found EXCEPT ![p] = @ \/ outcome = "issues"]
         /\ lintErr' = [lintErr EXCEPT ![p] = @ \/ outcome \in {"failed", "panicked"}]
         /\ warned' = [warned EXCEPT ![p] = @ \/ outcome \in {"failed", "panicked", "warned"}]
         /\ logged' = [logged EXCEPT ![p] = @ \/ outcome \in {"panicked", "logged"}]
    /\ UNCHANGED <<lockVars, pc, watchVars, printed, exitCode>>

(* "Running error": execute logs it and takes its exit code.               *)
RunningError(p, code) ==
    /\ Step(p, "analysis", "settle")
    /\ logged' = [logged EXCEPT ![p] = TRUE]
    /\ exitCode' = [exitCode EXCEPT ![p] = IF @ = Success THEN code ELSE @]
    /\ UNCHANGED <<lockVars, watchVars, todo, lintErr, found, printed, warned>>

(* Building the linters or loading the packages fails. *)
LoadFails(p) ==
    /\ p \in Troubled
    /\ todo[p] = LinterCount
    /\ \E code \in {Failure, NoGoFiles} : RunningError(p, code)

LintersFailed(p) == ~LintersLeft(p) /\ lintErr[p] /\ RunningError(p, Failure)

PrintFails(p) == p \in Troubled /\ ~LintersLeft(p) /\ ~lintErr[p] /\ RunningError(p, Failure)

(* The processors drop all the issues, or leave some. *)
PrintIssues(p) ==
    /\ Step(p, "analysis", "settle")
    /\ ~LintersLeft(p) /\ ~lintErr[p]
    /\ \E some \in {found[p], FALSE} :
         /\ found' = [found EXCEPT ![p] = some]
         /\ exitCode' = [exitCode EXCEPT ![p] = IF some THEN IssuesExitCode ELSE @]
    /\ printed' = [printed EXCEPT ![p] = TRUE]
    /\ UNCHANGED <<lockVars, watchVars, todo, lintErr, warned, logged>>

(* Mutant of SettledCode: the timeout does not take precedence.            *)
SettledCodeTimeoutLast(p) ==
    IF exitCode[p] # Success THEN exitCode[p]
    ELSE IF ctx[p] # "open" THEN Timeout
    ELSE Success

(* setupExitCode *)
SettledCode(p) ==
    IF ctx[p] # "open" THEN Timeout
    ELSE IF exitCode[p] # Success THEN exitCode[p]
    ELSE IF p \in StrictWarnings /\ warned[p] THEN WarningInTest
    ELSE IF logged[p] THEN ErrorWasLogged
    ELSE Success

Settle(p) ==
    /\ Step(p, "settle", "cancel")
    /\ exitCode' = [exitCode EXCEPT ![p] = SettledCode(p)]
    /\ UNCHANGED <<lockVars, watchVars, lintVars>>

(* Mutant of Cancel: the defers of execute in the other order. *)
CancelAfterTracker(p) ==
    /\ tracker[p] # "watching"
    /\ Step(p, "cancel", "await")
    /\ ctx' = [ctx EXCEPT ![p] = IF @ = "open" THEN "cancelled" ELSE @]
    /\ UNCHANGED <<lockVars, tracker, lintVars, exitCode>>

(* The deferred calls of execute, the last one first. *)
Cancel(p) ==
    /\ Step(p, "cancel", "await")
    /\ ctx' = [ctx EXCEPT ![p] = IF @ = "open" THEN "cancelled" ELSE @]
    /\ UNCHANGED <<lockVars, tracker, lintVars, exitCode>>

AwaitTracker(p) ==
    /\ tracker[p] # "watching"
    /\ Step(p, "await", IF mode[p] = "parallel" THEN "post" ELSE "unlock")
    /\ UNCHANGED <<lockVars, watchVars, lintVars, exitCode>>

WatchResources(p) ==
    /\ tracker[p] = "watching"
    /\ ctx[p] # "open"
    /\ pc[p] # "exited"
    /\ tracker' = [tracker EXCEPT ![p] = "ended"]
    /\ UNCHANGED <<lockVars, pc, ctx, lintVars, exitCode>>

-----------------------------------------------------------------------------
Released(p) == [i \in Inodes |-> IF holder[i] = p THEN None ELSE holder[i]]

Unlock(p) ==
    /\ Step(p, "unlock", "remove")
    /\ holder' = Released(p)
    /\ file' = [file EXCEPT ![p] = None]
    /\ UNCHANGED <<mode, lockPath, removers, watchVars, lintVars, exitCode>>

(* Whatever file has the name by now. *)
RemoveLockFile(p) ==
    /\ Step(p, "remove", "post")
    /\ lockPath' = None
    /\ removers' = removers \cup {p}
    /\ UNCHANGED <<mode, holder, file, watchVars, lintVars, exitCode>>

PostRun(p) ==
    /\ Step(p, "post", "exited")
    /\ UNCHANGED <<lockVars, watchVars, lintVars, exitCode>>

StopTracingFails(p) ==
    /\ p \in Troubled
    /\ FailMain(p, "post")
    /\ UNCHANGED <<lockVars, watchVars, lintVars>>

(* A signal, or an exit past the deferred calls: the kernel closes p's     *)
(* files, which unlocks them, and leaves the lock file where it is.        *)
Die(p) ==
    /\ p \in Troubled
    /\ pc[p] # "exited"
    /\ pc' = [pc EXCEPT ![p] = "exited"]
    /\ exitCode' = [exitCode EXCEPT ![p] = Killed]
    /\ holder' = Released(p)
    /\ file' = [file EXCEPT ![p] = None]
    /\ UNCHANGED <<mode, lockPath, removers, watchVars, lintVars>>

Lock(p)  == OpenLock(p) \/ OpenLockFails(p) \/ TryLock(p) \/ TryLockBusy(p) \/ GiveUp(p)
Lint(p)  == RunLinter(p) \/ LoadFails(p) \/ LintersFailed(p) \/ PrintFails(p) \/ PrintIssues(p)
Leave(p) == Settle(p) \/ Cancel(p) \/ AwaitTracker(p) \/ Unlock(p) \/ RemoveLockFile(p)
              \/ PostRun(p) \/ StopTracingFails(p)
Go(p)    == SetUp(p) \/ SetUpFails(p) \/ Lock(p) \/ Execute(p) \/ Lint(p) \/ Leave(p)

Next == \E p \in Processes : Go(p) \/ WatchResources(p) \/ Expire(p) \/ Die(p)

Spec == Init /\ [][Next]_vars

(* Linters end, goroutines run, and the kernel schedules every process.    *)
FairSpec == Spec /\ \A p \in Processes : WF_vars(Go(p) \/ WatchResources(p))

-----------------------------------------------------------------------------
(* The exit code tells the truth about the run: 0 is for a run that ended  *)
(* in time, printed all it found and logged no error; a run out of time    *)
(* never passes for any other; a run whose linters failed or whose issues  *)
(* were not printed never looks like one with or without issues.           *)
NothingToReport(p) == found[p] => IssuesExitCode = Success

Clean(p) ==
    /\ printed[p] /\ ~logged[p] /\ NothingToReport(p)
    /\ ~(p \in StrictWarnings /\ warned[p])

Truthful(p) ==
    /\ exitCode[p] = Success => Clean(p) /\ ctx[p] # "expired"
    /\ ctx[p] = "expired" => exitCode[p] \in {Timeout, Failure, Killed}
    /\ exitCode[p] = Timeout /\ IssuesExitCode # Timeout => ctx[p] = "expired"
    /\ exitCode[p] = ErrorWasLogged /\ IssuesExitCode # ErrorWasLogged =>
          logged[p] /\ NothingToReport(p)
    /\ exitCode[p] \notin {Failure, Timeout, NoGoFiles, Killed} =>
          printed[p] /\ todo[p] = 0 /\ ~lintErr[p]

ExitCodeTruthful == \A p \in Processes : pc[p] = "exited" => Truthful(p)

(* Runs that may not be parallel are, between preRunE and postRun, alone.  *)
Working(p) == mode[p] # "parallel"
                /\ pc[p] \in {"execute", "analysis", "settle", "cancel", "await", "unlock"}

(* Help of --allow-serial-runners: "Allow multiple golangci-lint instances *)
(* running, but serialize them around a lock".                             *)
Serialized == \A p, q \in Processes : Working(p) /\ Working(q) => p = q

(* Two runs work at once only after a third one has released its lock and  *)
(* removed the file: releaseFileLock does what no other step can do.       *)
OverlapNeedsRemover ==
    \A p, q \in Processes :
       Working(p) /\ Working(q) /\ p # q => removers \ {p, q} # {}

(* Every run ends, whatever fails and whoever watches: the resource        *)
(* watcher waits for a context that execute cancels in time.               *)
RunEnds == \A p \in Processes : <>(pc[p] = "exited")

(* A serial run that waits for the lock gets it in the end, however other  *)
(* runs end and whatever lock files they leave.                            *)
SerialRunStarts ==
    \A p \in Processes \ Troubled :
       mode[p] = "serial" /\ pc[p] = "lock" ~> pc[p] = "execute"
=============================================================================
