# A verification project for golangci-lint

golangci-lint loads Go packages once, runs many linters on them, most of them
as `go/analysis` analyzers, keeps what they computed in a cache, and passes the
issues they report through a chain of processors before printing them.  This
directory holds TLA+ models of its parts, the TLC configurations that check
them on small instances, and proofs of what matters most for every instance.

## 1. Inventory

For each part: the state it keeps, its operations, its partners, what is hard
about it, and what makes it correct.  Paths are relative to `src/`.

### go/analysis runner (`pkg/goanalysis/runner*.go`)
*State*: one `loadingPackage` per package (reference count `dependents`, types,
errors), one `action` per analyzer and package (done channel, pass, result,
error, facts), the semaphore `loadSem`.
*Operations*: build the action graph; one goroutine per package loads it and
starts one goroutine per action; `decUse` frees a package nobody needs any more;
`extractDiagnostics` collects results.
*Partners*: the facts cache, the type checker, the analyzers, `runAnalyzers`.
*Hard*: goroutines per package and per action waiting on each other through
`sync.Once`, wait groups, channels, a semaphore and recursive mutexes; errors
that must travel up an import graph; memory freed while others still use it;
cached facts keyed by types that a reload replaces.
*Correct when* every run ends; nothing is freed early; at most GOMAXPROCS
packages are in memory with their syntax; an analyzer runs only on code that
type-checks, after what it requires; a compile error is never lost.

### Issue cache (`pkg/goanalysis/runners*.go`, `internal/cache/cache.go`)
*State*: package hashes, entries keyed by sources, dependencies and analyzers.
*Operations*: load the issues of unchanged packages, analyse the others, save.
*Hard*: files edited between hashing and parsing; runs that failed; facts
persisted by a failed analysis and used by the next run.
*Correct when* issues served from the cache are those an analysis would report.

### Low-level cache on disk (`internal/go/cache/cache.go`)
*State*: index and data files shared by processes, `trim.txt`.
*Operations*: `Get`, `GetBytes`, `Put`, `PutBytes`, `Trim`.
*Hard*: concurrent writers of one file, crashes in the middle of a write,
trimming while another process reads.
*Correct when* a hit returns exactly the bytes some `Put` stored for that key.

### Cache served by a child process (`internal/go/cache/prog.go`)
*State*: requests in flight by id, `writeMu`, what the child declared it can do,
`closing`, the context that keeps the child alive.
*Operations*: the start with its handshake, `Get`, `Put`, `Close`, the read loop.
*Partners*: the same callers as the cache on disk, limited by `ioSem`.
*Hard*: a child that answers out of order, twice, or not at all, and dies or
leaves with requests in flight; bodies written after their heads by many
goroutines; `Close` while the read loop still runs.
*Correct when* every answer reaches the goroutine that asked, every call ends,
and the whole is the map that the cache on disk is.

### Lint runner and result processors (`pkg/lint/runner.go`, `pkg/result/processors`, `pkg/golinters/nolintlint`)
*State*: the issues so far, the errors of linters, per-processor caches and
counters, the directives of each file and what they matched, the fixed files.
*Operations*: run each linter, pass the issues through twenty-odd processors in a
fixed order, rewrite files.
*Hard*: a linter that panics or fails in the middle of a sequence; a processor
that fails and is skipped; the order of the chain; issues in generated, cgo and
unparsable files; overlapping fixes; a directive is called unused from what the
chain has let through before.
*Correct when* what is shown passes every filter, compile errors are shown, a
directive called unused hides nothing, and fixes do what was asked.

### Linters database and adapters (`pkg/lint/lintersdb`, `pkg/golinters`)
*State*: the table of linters with presets, load modes, deprecations; plugins;
the enabled set; the jobs, of which one is a metalinter of go/analysis linters.
*Operations*: build the table, validate, select, merge and sort; set each linter up.
*Hard*: precedence of enable, disable, presets, fast and disable-all; names of
old and of merged linters; bad settings, which end the process from inside an
adapter or fail its first use; versions of Go that a linter does not support.
*Correct when* the linters that run are those that were asked for.

### Configuration (`pkg/config`, `pkg/commands`)
*State*: flags, the file that was found, the merged configuration.
*Operations*: search for a file upwards, read, override by flags, rewrite
deprecated options, find the version of Go, validate.
*Hard*: an option that comes by several ways; a default that hides whether an
option was set; two commands that must come to the same conclusion.
*Correct when* flags win over files, and what is refused is refused early.

### Package loader (`pkg/lint/package.go`, `pkg/lint/context.go`)
*State*: the packages of `go list`, with errors, test variants and test mains.
*Hard*: a file belongs to several variants of a package; the load mode is the
join of what the linters need; some errors stop everything and others nothing.
*Correct when* each linter finds in the packages what its load mode promised.

### Run command (`pkg/commands/run.go`)
*State*: file lock, timeout context, exit code, `report.Data`.
*Hard*: two processes and a lock file that is removed after being unlocked;
timeout, errors, warnings and found issues competing for one exit code.
*Correct when* at most one process runs; exit code 0 means no issue and no error.

### Left aside
File and line caches (read-through, filled before any fix is written), printers,
logging, the helper commands, scripts and website: formatting or delegation,
listed in `PROJECT.json` with the reasons.

## 2. Plan

| order | module | abstract specification | theorems | state |
|---|---|---|---|---|
| 1 | PackageGraph, ActionGraph, AnalysisRunner (section 3) | PackageSchedule | every safety property, refinement | done |
| 2 | DiskCache (section 4) | CacheMap | types, refinement, writers never spoil a file, trims spare what was used | done |
| 3 | RunCommand (section 5) | exclusion but for removals | types, exit code, overlap | done |
| 4 | IssueCache (section 6) | reporting without a cache | types, freshness, compile errors | done |
| 5 | ProgCache (section 7) | CacheMap | types, answers reach their callers, frames, refinement | done |
| 6 | Issues, FormatDiff, NolintDirectives, IssueProcessors, LintRun (section 8) | filters of the shown, fixes of the asked | types, compile errors, filters, unused directives both ways, limits | done |
| 7 | Adapters, LintersTable, CheckSelection, ConfigLoading, LintersDB, PackageLoading, Startup (section 9) | the enabled set without an order of steps | every property | done |
| 8 | facts of a failed analysis used by the next run; what the fixes of a file come to (`FixedAsAsked` of section 8) as a theorem | | | left |

Which component feeds which: `Startup` ends where `LintRun` begins, with the
list of jobs and the packages.  `DiskCache` or `ProgCache` is the store behind
`IssueCache` (there, any lookup or save may fail and any entry may vanish) and
behind the facts of `AnalysisRunner` (there, a cached fact may be missing); both
implement the one `CacheMap`, which is why the layers above need not know which it
is.  `AnalysisRunner` is what `IssueCache` calls an analysis, and
`BrokenPackagesReported` is what it relies on; `IssueCache` with `AnalysisRunner`
is one linter of `LintRun`; a `LintRun` is the linters of `RunCommand`.

## 3. The go/analysis runner

### Modules
* `PackageGraph`: packages, imports, initial packages; `Below(p)`, what `p`
  reaches.  Closures are intersections of closed sets, so no recursion hides
  them from the prover.
* `ActionGraph`: analyzers and the actions `makeAction` builds for them.
* `AnalysisRunner`: one run.  `sync.Once` makes one goroutine responsible for a
  package, so the package names the process; its program counter is `phase`.
  An action's goroutine is `actState`.  Each region of code between two
  synchronisations is one action.
* `PackageSchedule`: what the runner promises about order and memory, without
  semaphores, reference counts or actions.
* `MCAnalysisRunner`: instances.
* `AnalysisRunnerProofs`, `PackageScheduleProofs`: theorems.

| TLA+ | code |
|---|---|
| `Begin`, `Acquire`, `Release` | `analyzeRecursive`, the semaphore part of `analyze` |
| `LoadUnsafe`, `LoadInitial`, `LoadFails`, `LoadImported` | `loadWithFacts` and what it calls |
| `Ready`, `SkipAction`, `FailPrerequisites`, `StartPass`, `Run*` | `waitUntilDependingAnalyzersWorked`, `action.analyze` |
| `Recover` | `analyzeSafe`: the done channel is closed before the panic is stored |
| `DecUseStillUsed`, `DecUseLast`, `DecUseReturn` | `decUse`, whose recursion holds one mutex per frame: `caller[p]` is the holder of `p`'s |
| `Extract` | `extractDiagnostics` |

A source is one of four states (`ok`, `parseError`, `typeError`, and `noExport`:
compiles but its export data cannot be read).  A `types.Package` is named by how
it came to be (from source, from export data, created empty).  A fact is either
*narrow* (about a function or a variable, which `exportedFrom` filters) or
*wide* (everything else), so that what inheritance keeps and drops is visible.

### Runs
| run | instance | question |
|---|---|---|
| `runner_faults` | diamond over `unsafe`, two initial packages of which one imports the other, one token, any cache, failures, panics | typing, soundness, compile errors reported, refinement; does every run end? |
| `runner_shared` | two roots over shared imports, three tokens, empty cache | reference counts, lifetime; are prerequisites met, do all facts arrive? |
| `prereq_error_ignored` | chain | finding: a failed prerequisite does not stop its dependents |

`PassInputsComplete` joins what an analyzer relies on when it starts: the
analyzers it requires have run on the package (`HorizontalDepsAnalyzed`), and the
facts of imports (`FactsOfImportsVisible`) and of everything below
(`FactsOfAllDepsVisible`) are there.  It is a property of runs with an empty
facts cache and analyzers that succeed: with a cache, only direct requirements
of an initial action are marked for analysis (`runner_action_cache.go:60`, where
the comment at `runner_action.go:58` speaks of all), and cached facts are
attached to objects that a later load from source replaces
(`runner_loadingpackage.go:336`), so TLC finds passes that miss a requirement of
a requirement or a fact.

*Bounds.*  Five packages give sharing above and below (the two ways reference
counts can race); the chain of three has the indirect import that error
propagation and facts need; three analyzers give a requirement of a requirement.
One token makes packages that are ready contend, three let all go at once.

*Fairness.*  Weak fairness of every goroutine's next step.  The Go scheduler runs
every runnable goroutine; a mutex or the semaphore is contended by finitely many
goroutines that each take it once, so a waiter is eventually alone.  Analyzers
are assumed to terminate: the code has no way to stop them.

### Proofs
The inductive invariant `IInv` joins the typing of the five variables that count
(`Typing`), reference counts and semaphore (`RefCount`, `AtMostMaxParallel`), and
`FramesOnUnused`: only a package without users drops its imports.  Without the
last, a frame of `decUse` could take a use away from an import on behalf of a
package that is still in use, and `RefCount` would not survive the step.
From it: `TypesOutliveUsers` (users exist all the way down: a package in use
still uses its imports), `TypesClearedLast`, the bounds in `TypeOK`, and the
refinement of `PackageSchedule`.  All are proved for every finite acyclic graph,
every set of analyzers and any positive capacity.

`SemaphoreCorrect` is proved only, as the bound is in the type of `loadSem`.

The other safety properties rest on five invariants, each proved from the ones
before it:

* `StageInv`: a package leaves "imports" after its imports have finished, and its
  actions are under way only in its "run" phase.  Then everything below a package
  that is loaded is done (`FinishedBelow`), which is what lets the next three speak
  of `Below` where a step looks at direct imports only.
* `SoundInv`: a package loaded without the flag `illTyped` has, all the way down,
  types in memory from code that compiles; and an action that was needed and ended
  without an error saw a package without the flag.  `RunOnSoundTypesCorrect` is the
  first half, with `TypesOutliveUsers`: types that were sound when a package was loaded
  are not cleared while an analyzer runs.  `BrokenPackagesReportedCorrect` is the second
  half on root actions, which are always needed.  The one assumption that it brings is
  `UnsafeCompiles`: `unsafe`, which has no source to load, is not a broken package.
* `NeedInv`: an action is needed no earlier than its package is loaded, what a needed
  action requires is needed, and without cached facts every fact action is needed or
  has failed to load.
* `FactsInv`: with an empty cache, an action that has succeeded on a package still in use
  holds the facts of what the package exports, attached to the types the package has
  now, and the wide facts of everything below that had no error.  That types are the
  ones of the moment is the point: a later load from source replaces them, and
  with a cache it does so after facts were attached (see above).
* `ResultsInv`: when nobody fails, a needed action that is done has a result until its
  package leaves the "run" phase, so whoever waited for it finds it.

`PassInputsCompleteCorrect` has three hypotheses, and each part of it is proved from
the ones it needs: `FactsVisibleCorrect` from `ColdCache` alone (failures and panics
elsewhere take nothing away), `HorizontalDepsAnalyzedCorrect` from `NobodyFails` and
`RequirementsMarked`, with any cache.  `RequirementsMarked` says that marking the
direct requirements of a fact action, as the code does, marks all of them; it holds in
`runner_shared`, where the cache is empty.

Only model-checked: termination (`RunTerminates`), since it is a liveness property.

### Not modelled
The branch of `loadWithFacts` for packages that already carry types
(`runner_loadingpackage.go:262`) is unreachable, since no linter asks the loader
for type information; the Go version check in `loadFromSource`; errors the
driver attached to packages.  What analyzers compute is external: success, an
error, a panic.

## 4. The low-level cache on disk

### Modules
* `CacheMap`: the promise, a map from ids to outputs that may forget.
* `DiskCache`: the directory and its clients, the goroutines of any number of
  processes.  Every system call that another client can come between is an
  action: Stat, open (with or without `O_TRUNC`), the write of a block, close,
  `Chtimes`, unlink.  `linked[c]` says whether the file `c` has open still has a
  name, so that a writer may go on writing to a file a trim has removed.
* `DiskCacheRecency`: the same with a history of uses, for what trims remove.
* `DiskCacheProofs`: theorems.

An output is its own hash, so a data file is named by what it should contain,
and a file content is a sequence of blocks, each good or bad.  The last block is
the last byte, which `copyFile` holds back until it has checked the hash.

### Runs
| run | instance | question |
|---|---|---|
| `disk_cache` | two clients, all operations, all faults, damaged files | does a hit return what was stored, do writers spoil each other's files? |
| `disk_trim` | two clients, intervals of two ticks | do trims spare what was used? |

A hit refreshes the mtime of what it uses, and `TrimKeepsUsed` is about hits only: a
`Put` of bytes that are already there leaves the mtime as it was (`cache.go:576`),
so a trim may remove what was just stored again.

*Bounds.*  Two clients are a pair of writers, a writer and a reader, or either
with a trim; two blocks have a beginning and a last byte, and the empty output
the early return of `copyFile`.  In `disk_cache` all intervals are zero, so that
a trim may remove any file that is a tick old; in `disk_trim` the refresh
interval is two ticks, the least with which an mtime lags behind.  Ages stop at
`MaxAge`, beyond which every comparison has the same result.

*Fairness.*  None: all properties are safety properties.

### Proofs
`Inv` joins the types with `PhaseOK`, which ties a client's phase to the id and
the output it works on.  Each step of the cache is then a step of `CacheMap` or
leaves it as it is (`CacheImplementsMap`): `PutIndexWrite` stores, an unlink
forgets, and `GetRead` may answer because the checksum names the content.

`EntriesStayComplete` needs more: of outputs that are not `spoiled`, data files
only grow along their right content (`DataOK`), and a writer is never ahead of
its file (`WriterOK`), because no writer truncates what another has written.
Nothing is assumed of the clients, the faults or the sizes.

`TrimKeepsUsed` is an action property with a history, and rests on `RecencyInv`:
no mtime of a file that a hit has used lags more than `MtimeInterval` behind its
last use, since `used` leaves only younger mtimes alone; what a reader has used is
fresh until its hit is recorded, as no tick falls within an operation; and no file
a trim is about to remove has been spared by a hit since.  The cutoff of `Trim`
adds that `MtimeInterval` to `TrimLimit` (`cache.go:402`), which is all the proof
needs of the intervals.

### Not modelled
`GODEBUG=gocacheverify`, which the copied code no longer reads; `GetFile`,
`GetMmap`, `PutNoVerify` and the fuzz directory, which the program does not use;
the retries of `robustio`; clocks that go backwards.  Operations are taken to be
short against the refresh interval of an hour: the clock ticks between them.

## 5. The run command

### Modules
* `RunCommand`: processes of `golangci-lint run`, from `preRunE` to the exit
  status.  A lock belongs to an inode, so the file is modelled as the inode that
  has the name (`lockPath`), the inode each process has open (`file`) and the
  holder of each inode's lock.
* `MCRunCommand`: instances.  `RunCommandProofs`: theorems.

| TLA+ | code |
|---|---|
| `SetUp`, `SetUpFails` | `persistentPreRunE` and `preRunE` up to the lock |
| `OpenLock`, `TryLock`, `TryLockBusy`, `GiveUp` | `acquireFileLock`, with the open and the flock of `TryLockContext` apart |
| `Execute`, `Expire`, `WatchResources` | `execute`, its timeout, `watchResources` |
| `RunLinter`, `LintersFailed` | `Runner.Run` and `runLinterSafe` |
| `LoadFails`, `PrintFails`, `PrintIssues` | `runAnalysis`, `runAndPrint`, `setExitCodeIfIssuesFound` |
| `Settle`, `Cancel`, `AwaitTracker` | `setupExitCode` and the deferred calls of `execute` |
| `Unlock`, `RemoveLockFile`, `PostRun` | `releaseFileLock`, `persistentPostRunE` |
| `Die` | a signal or an early `os.Exit` |

What a linter does is one of six outcomes, told apart by what they leave in the
error, in `report.Data` and in the issues.

### Runs
| run | instance | question |
|---|---|---|
| `run_command` | three processes, one meets every trouble | does the exit code tell the truth, who may overlap, does every run end, does a waiting run get its turn? |
| `file_lock` | three serial processes, no trouble | finding: serialized runs overlap, since the file is removed after it is unlocked |

*Bounds.*  An overlap needs a third process, which is why there are three; each
opens at most one inode, so four are enough for a fresh one to exist.  All
that can fail does so in `p1`, while `p2` and `p3` contend with it for the file;
exit codes of different processes do not depend on each other.  `p1` allows
parallel runners or excludes them; as a serial run it would do no more than as an
exclusive one that does not give up.  Two linters are enough for one to fail and
the other to find issues, in either order; the flags they leave only accumulate.

*Fairness.*  Weak fairness of each process as a whole: the kernel schedules it,
linters end (nothing stops one that does not: the timeout is only seen by those
that look at their context), and `TryLockContext` tries again after a second.
A process that holds the lock ends, so one that keeps trying finds it free.  Death
and timeout are never obliged to happen.

### Proofs
`IInv` joins the types, `LockInv` (a process that works holds the inode it has
open, which either still has the name or was taken from it by a remover) and
`PhaseInv` (what the flags say at each point of `execute`).  From it follow
`ExitCodeTruthful` and `OverlapNeedsRemover`, for any number of processes and linters.
The second says that `releaseFileLock` is the only way to lose exclusion.  An
issue exit code that equals one of the program's own codes is allowed, and
`Truthful` claims nothing that it would blur.

### Not modelled
Profiles and traces, statistics, warnings on deprecated linters, and what the
set-up builds.  Errors of Unlock and Remove, which are only logged.

## 6. The issue cache

### Modules
* `IssueCache`: successive runs over files that the user edits at any moment.
  A package is one file, and what a linter finds is determined by the versions it
  saw, so an entry records them (`seen`) beside the key (`hash`).
* `MCIssueCache`: instances.  `IssueCacheProofs`: theorems.

| TLA+ | code |
|---|---|
| `StartRun` | `PackageLoader.Load`: the snapshot that `go list` compiled |
| `HashFile`, `KeyHash` | `FileHash` with its cache for the process, `computePkgHash` over all dependencies |
| `LoadHit`, `LoadMiss` | `loadIssuesFromCache` |
| `Read`, `Conclude` | `runner.run`, and whether its errors allow a save |
| `Save`, `SaveFails` | `saveIssuesToCache` |
| `Edit`, `Forget` | the user; a trim of the low-level cache |

### Run
`issue_cache`: two initial packages on a chain of three, two linters that may
fail, two runs, two edits.  Two runs are one that saves and one that loads; two
edits break a file and repair it, or change a package and one below it.  The
chain has the import of an import that a key of direct dependencies would miss.
All properties are safety properties, so no fairness.

An edit during a run may end up in the hash and not in the analysis, or the other
way round.  `torn` records the files edited during the run that saved an entry:
`HitsAreFresh` claims nothing of entries whose closure is torn, and everything of
all the others.

### Proofs
`IInv` joins the types, `ViewsOK` (a file that was not edited during the run is the
same to the loader, the hashes and the analysis), `PhaseOK` (before a save, all
that was analysed compiles), `EntriesOK` (an entry that is not torn has seen what
its key says, and it compiles) and `HitsOK`.  Proved for every finite import
graph, any linters, versions, runs and edits.

### Not modelled
The encoding of issues; the salts of binary and configuration, which are constant
in a run and part of every key; the semaphore around I/O.

## 7. The cache behind a child process

### Modules
* `ProgCache`: the callers (goroutines that look up and save, and the one that
  closes), the read loop, two pipes of bounded size, and the child.  The id of a
  request comes from a counter under `mu`; writing is under `writeMu` and takes
  two messages for a `Put`, which the child reads as a request and its body.
* `CacheMap`: the promise, shared with section 4.
* `MCProgCache`: instances.  `ProgCacheProofs`: theorems.

| TLA+ | code |
|---|---|
| `Started` | `startCacheProg` after the answer with id 0 |
| `Begin`, `BeginClose` | `Get`, `Put`, `Close` up to `send`, the tokens of `ioSem` around them |
| `Register`, `LockWriter`, `Write`, `WriteBody`, `WriteFails`, `BodyErrorDropped` | `writeToChild` |
| `Unable`, `Unregister`, `Return` | the ends of `send`, `Get` and `Put` |
| `Cancel`, `CloseStdin`, `Closed` | the end of `Close`, and `cmd.Cancel` |
| `Deliver`, `EndOfAnswers` | `readLoop` |
| `ReadRequest`, `AnswerRequest`, `Evict`, `ChildExits`, `ChildDies`, `ChildLeaves` | the child (external) |

### Run
`prog_cache`: two clients and a closer, pipes of one message, three requests, a
child that declares all commands, only `get`, or none, answers in any order,
refuses, forgets, and may die, leave at `close`, or answer twice.  One message
per pipe is the least that works and the one with the most waiting; three requests
are two at once and the `close`.  The third goroutine of a queue for `writeMu` is
the closer.  A mismatched answer needs no more than two in flight.

*Fairness.*  Weak fairness of each goroutine, of the read loop and of a child that
runs: it reads its input and answers what it has read.  A child need not die.
A child that stops reading without dying would block everybody for ever: the code
has no timeout against that, so nothing is claimed.  `CloseReturns` makes one
exception: when the child goes without answering `close`, the read loop ends
quietly because `closing` is set, and nobody wakes the closer (`prog.go:417`): the context is cancelled only after the
exchange.

### Proofs
`IInv` joins the types with `IdsLeft` (everybody who is about to register finds an
id), `Phases` (the holder of `writeMu` is who writes), `Channels` (a channel is
registered for one request from the moment it has an id until it has its answer),
`Timely` (the child can only answer what was written in full, so nobody who is
still writing gets an answer) and `Framed` (a body follows its head; a head without
its body is the last thing in the pipe, and its writer holds `writeMu` or the pipe
is broken).  `AnswersReachCallers` needs `Channels` and `Timely`: without the second
an answer could arrive while its caller writes, and the caller's failure would then
leave it in the channel for the next request.  Proved for any number of clients
and requests, any capacities and any faults; that the bound on requests keeps one
for the closer is what makes `IdsLeft` inductive.  The one assumption beyond the
capacities, `NoneAssumption`, says that the absence of a value is not a value.

`ProgCacheIsAMap` adds two facts to `IInv`: a request has an id from its
registration on (`Numbered`), and a request that is in a pipe or read by the child is
still the one that its caller waits for (`Faithful`), which every step keeps because
an id is given out once and a caller that is registered does not turn to another
request.  The abstract lookup happens when the child answers: then the answer is
on its way to one goroutine, and `FirstFor` follows it through the pipe and the
channel, also past a second answer to the same request.  The end of a call is an
`Answer`, or a `Drop` for a save; a put that is answered is a `Store`.

Only model-checked: `EveryoneReturns` (liveness).

### Not modelled
The encodings; the size and the hash of a body, and the file a hit names (a hit is
checked by `GetBytes` as in section 4); what `os/exec` does after stdin is closed.

## 8. A run of the linters over the issues they find

### Modules
* `Issues`: issues, paths, replacements, and the filters over lists.
* `FormatDiff`: hunks of a diff turned into replacements, and the fixer that turns
  the replacements of a file into its new lines.
* `NolintDirectives`: what nolintlint says of a directive, which issues a directive
  hides, and which are unused.
* `IssueProcessors`: the other processors, each an operator on the list.
* `LintRun`: `lint.Runner.Run` as a state machine: linters in order, some failing
  or panicking, then the chain, of which a failing member is skipped.
* `MCLintRun`: the scenarios.
* `LintRunProofs`: theorems.

| TLA+ | code |
|---|---|
| `RunLinter`, `LinterFails` | `runLinterSafe` |
| `StartProcessing`, `Process`, `SkipProcessor` | `processIssues`, `processLintResults` |
| `Fix` | `Fixer.Process`, `fixIssuesInFile`, `mergeLineIssues`, `writeFixedFile` |
| `ExtractIssues`, `Overwritten`, `FixIssuesInFile` | `hunkChangesParser`, the fixer's in-place merging |
| `LinesExist` | the index into the file's lines in `mergeLineIssues`, which panics beyond the last |
| `Filter`, `FilterAt`, `Map` | `filterIssues`, `filterIssuesUnsafe`, `transformIssues` |

A regular expression is the set of what it matches; a file is its lines; the diff
behind `--new` is the set of changed lines.  A scenario fixes the configuration,
the files, and what the linters find, so that one run has every kind of each.

### Runs
| run | scenarios | question |
|---|---|---|
| `lint_run` | filters, failures, nolint, groups, limits, spelling, formats, mixed | are compile errors shown, do the filters hold for what is shown, is an unused directive harmless and reported, do fixes survive the limits and do what was asked? |
| `fix_blanks_line` | the same | finding: a line is emptied when two fixes meet on it |

`ShownPassesFilters` states the filters in terms of what the user sees, after all
processors, so an order of the chain that applies one to an intermediate form of
the issue breaks it; a processor that failed excuses its own filter only.
`UnusedIsHarmless` compares the directives called unused with what taking them away
would show: no issue of the code may come back.  Nothing more can be asked: of the
directives in one group of comments only the first is extended to the block below
(`nolint.go:274` stops at the first range it finds), so taking an unused first one away
can make the second one hide more, as the scenarios `Groups` show.
`UnusedIsReported` is the converse.  `FixedAsAsked` compares the files
written with the result of the formatter, or with the replacements made one by one.

*Bounds.*  The scenarios are products of small sets: one or two issues at twelve
kinds of places under ten configurations; one or two directives of eight shapes above
and beside code with nested nodes and at most two hidden issues; two directives in
one group above a block; three issues of five
kinds for the limits; up to three overlapping mistakes on a line; every way to remove
and add lines in files of one to three lines, with and without a final newline.  A pair
is enough for what the filters, `uniq_by_line` and the merging of fixes look at; the
limits are zero to two.  No fairness: all properties are safety properties.

### Not modelled
`path_shortener` (texts only), statistics, how regular expressions match, the
parsing of comments and of patches.  Sorting and the marking of identifiers are
modelled by what they do.

### Proofs
`LintRunProofs` proves, for any files, directives, configuration, linters and
failures: `LintTypeCorrect`, `CompileErrorsShownCorrect`, `ShownPassesFiltersCorrect`,
`UnusedIsReportedCorrect`, `UnusedIsHarmlessCorrect` and `FixesSurviveLimitsCorrect`.

*Lists.*  The processors filter, change, sort and fold lists.  To be reasoned about,
lists are written without recursion: `Kept` takes the elements at a set of places,
`InOrder` puts a finite set in the order of a rank that tells its elements apart, and
`Loop` is a function on the rounds of a loop.  The first part of the module proves
once what each of them returns (`KeptFact`, `InOrderFact`, `Follows` and `Recursion`
for `Loop`, `FlattenSteps` and what follows from it), by induction written as the least number for which a
set is not closed, since no induction theorem with an operator as parameter can be used.

*The invariant.*  `Good(i, n, c, src, sk)` says what is known of an issue before the
processor `n`: each filter is a conjunct that holds from its own place in the
chain on, on the form that the issue has by then, and not at all for errors of the
type checker.  A lemma per processor says that it takes a list of issues that are
good for its place to one that is good for the next (`...Serves`); the limits
also keep what will be fixed (`...Limits`).  This is where the order of the chain
matters: an issue with an adjusted name is not `Located` after the processor 2 unless it was
unadjusted, and its text may only change before `exclude` has compared it.
`IInv` adds the files, which are as they were up to the fixer (`SourceInv`); that
errors of the type checker are among the issues up to `invalid_issue` and all there is
from there on (`ErrorInv`); and that from `uniq_by_line` to the fixer every issue with a
replacement is still there, with nothing but its source lines and its severity filled in
(`FixInv`, when fixes are wanted and all lines count as new).
A run of TLC over the same scenarios has found no state outside `IInv`.

`UnusedIsReported` follows the directives through the loop of `Nolint`: what a range
has matched is among the linters of the issues where its directive applies (`Accounts`,
`Heard`), so that an issue the loop drops, if it calls a directive unused, is
`Explained` by one of those (`HideOneFact`).  That nolintlint's issues come last is not
needed for it.

`UnusedIsHarmless` compares two runs of the loop, one on the files without a directive.
Suppose that an issue of the code comes back without it.  Then some range hid
the issue, and it can only be one of that directive: every range of another
directive is still among the ranges of the file when one is removed, as wide or wider
(`WithoutFact`, through `InlineRangesFact`, `ExpandedFact` and `IgnoredFact`, which
say what the walk over the nodes of the file makes of the directives).  So the
directive has matched the linter of that issue (`HideOneEffect`, `WithoutHides`).
Nothing takes a match back, and nolintlint's issues are heard last (`OrderFact`,
`NolintHistory`), so that by then the loop knew of the match; it would have dropped what
nolintlint says of this directive (`SaidInVain`), unless that was about another linter than
the one hidden, which cannot be with a directive of at most one name (`NameIsHidden`).

For this the issue of nolintlint must still be recognised as one about that directive
when the processor `nolint` has its turn.  `IInv` does not say so, hence a second
invariant, `DirectiveInv` (`DirectivesInvariant`): until then, an issue that expects a
directive is at the place of one that says nothing else at this place, and expects a
name that the directive has (`FromDirective`).  It is established by the linter
(`ReportDirectiveFact`, `NolintlintFact`) and kept by the first ten processors
(`ProcessDirected`): they drop issues, change their texts, or move those of files that a
`//line` comment renames.  A run of TLC over the scenarios of `lint_run` has found no
state outside `DirectiveInv`.

*Assumptions.*  `ScenarioAssumption` types the inputs and says where issues are: a
place in a Go file is in one that was parsed, under its own name or the one of a `//line`
comment, or in the build cache; a type error has a place and no fix
(`pkgerrors.parseError`); only nolintlint expects a directive.  `DirectiveAssumption` is what `UnusedIsHarmless` needs of the inputs.  In a file, two
directives are at different places and each is in its group of comments, as
positions of a parsed file are.  A file with directives is not the
one that a `//line` comment of another parsed `.go` file names: generators name
their sources, which are not Go files, and cgo's rewritten files, which do name Go
files, are in the build cache without the suffix `.go` and left out by
`processUnadjusterFile`.  Where a Go file does name another one, issues of the second
are moved to the first (`filename_unadjuster.go:57`), those of nolintlint too, and the
property says nothing of them.  An enabled linter has a lower-case name
that is no other linter's alternative name: the names in `builder_linter.go` are lower case,
the alternative ones (`vet`, `gas`, `goerr113`, `logrlint`, `megacheck`, `vetshadow`) name no
linter of their own, and names of custom linters are keys of the configuration, which viper
turns to lower case; only a plugin that is called by one of the alternative names is left out.

`OrderAssumption`:
files have different places in the order of names.  `NoneAssumption`: the absence of a value
is not a value.  `WordAssumption`: the words of the program are strings, which the prover
has to be told.  The scenarios of `MCLintRun` satisfy all of them.

Only model-checked: `FixedAsAsked` and the finding.  `FixedAsAsked` says what the
folds over hunks and fixes compute, an induction over data; and for all inputs it
would need to say more of them than the code does: that the hunks are the difference
between the file and its formatted form, that no filter has dropped one of
several changes of the formatter, and that no mistake is reported twice.  The
scenarios are built that way.

## 9. From the command line to the jobs

### Modules
* `Adapters`: per adapter its load mode, how it reports, and what bad settings do.
* `LintersTable`: the built-in linters, one record per builder.
* `CheckSelection`: govet, gocritic and revive choose among checks of their own.
* `ConfigLoading`: search, reading, flags, deprecated options, version, validation.
* `LintersDB`: plugins, the enabled set, merging into a metalinter, the order.
* `PackageLoading`: arguments, load mode, errors, duplicates, test mains.
* `Startup`: one user, first `linters`, then `run`; one action per stage.
* `StartupProperties`, `MCStartup`: what is checked, and the inputs.
* `StartupProofs`: theorems.

| TLA+ | code |
|---|---|
| `SetConfigFile`, `ReadConfig`, `MergeConfig`, `SettleGoVersion`, `ValidateConfig` | `Loader.Load` |
| `NewManager`, `PlanJobs` | `NewManager`, `Validator`, `GetOptimizedLinters` |
| `ListLinters`, `StartRun` | `lintersCommand.execute` |
| `LoadPackages` | `PackageLoader.Load`, `ContextBuilder.Build` |
| `RunJob`, `RunFails`, `RunFatal` | the set-up in `preRun` and the adapters |

### Run
`startup`: 2698 inputs, each one choice of flags, file, modules, tree, plugins and
settings.  `EffectiveSet` states the enabled set without the order of the steps that
`build` takes; `ListedIsRun` says both commands come to the same set when they
read the same file; `FlagsAreHonoured` that a flag is in effect, or the user was warned
of what replaced it; `PackagesSuffice` that the packages carry what the enabled
linters need, and each file asked for once; `NoSilentSkip` that a linter asked for by
name has worked or was spoken of; `ChecksAsAsked` states the choices of govet,
gocritic and revive without their order.

*Bounds.*  Inputs are products over one subject at a time: selection of linters by
each of the ways to name them, searches in a tree of three directories, modules
of which the path of one is a prefix of another's, every pair of a deprecated option and
its replacement, plugins of each type, bad settings of linters of each adapter kind,
all combinations of govet, gocritic and revive switches over a few checks, and
packages with tests of both kinds and errors.  Subjects meet only where the code
lets them (an option and its flag, a linter and its settings), which the products
cover.  Properties are safety properties; the commands are sequences that end.

Three things the properties had to say precisely because the code does: revive
drops its default rules as soon as any other setting is given; a plugin may take the
name of a linter that is built in and replaces it; a custom linter with an unknown
type is ignored.

### Proofs
Every property of `startup` is proved, for all inputs, plugins, versions of Go and
trees, under three assumptions on the constants, which TLC evaluates on every run:
`InputsAssumption` (flags are flags that `run` has; options have the types of their
fields; two directories share neither an import path nor a file), `NamesAssumption` (every
linter has a rank in the alphabet) and `NameRankAssumption` (two names differ in rank).
Two hypotheses are part of what is stated.

`NoClash`: no plugin takes the name of a built-in linter.  `TypeCorrect` and
`FlagsAreHonouredCorrect` do without it.  A plugin of a built-in name takes over that
linter but not the other names it goes by; then a switch by one of these still
reaches the linter that was replaced, which is why `EffectiveSet` leaves such inputs
out, and a warning may call a linter by a name that the user has not written.

`NoTestNames`, for `PackagesSufficeCorrect` only: no directory has the import path that
the external tests of another one go by (`m/foo_test`, beside `m/foo`).
`filterDuplicatePackages` (`package.go:145`) drops a package when a test variant carries
its import path, and `foo`'s external tests are loaded as
`m/foo_test [m/foo.test]`, so the code of such a directory would not be linted.

The argument goes along the stages of the commands:

* `ConfigInv` says at every stage what the configuration is, as a function of the
  input: what was read, merged, rewritten, versioned, validated.  It is proved first
  and makes every other invariant a statement about the input.  `WarnedInv` adds what the
  log has by then, which is what `FlagsAreHonoured` excuses.
* `Planned`: the enabled set and the jobs are what `Build` and `GetOptimizedLinters`
  return for that configuration.  `Build` works on a map from names to linters, where
  a store replaces; the lemmas on stores show that when a name stands for one linter
  nothing is replaced by anything else, so each store is a union, each loop over names a
  filter, and the order of steps shows only in which of them comes last
  (`EnabledAsAsked`).
* That a name stands for one linter is proved of the table itself (`Named`,
  `OwnNames`): a hundred and some builders, versions of Go included, in the four parts
  of `LinterBuilder`.  `LoadsEnough` is the same for load modes, which
  `PackagesSuffice` needs: a linter marked for analysis asks for files and types.
* `SortedIsAll`: a finite set of jobs, ordered by speed and rank, has a sorted sequence
  with exactly these jobs.  From it `PlanJobs` loses no linter, and the jobs that are
  left, the names that work, and the log account for all that were planned
  (`WorkInv`, `LintedInv`), whichever job fails and whatever a bad setting ends.
* `ListedInv` keeps what `linters` has shown until `run` has planned; `ChecksInv`
  what govet, gocritic and revive have chosen; `PackagesInv` what was loaded.

`ConfigInv` and `WarnedInv` were first checked by TLC on `startup`.  Two properties
became more exact on the way: an empty version of Go given by a flag means the one
detected, and govet drops names that it does not know.

Only model-checked: what the properties say of the inputs that the two hypotheses leave out.

### Not modelled
`EnvTestRun` and the internal test commands; `handleLinterOptionDeprecations`, which
rewrites settings of single linters; the settings of all other linters, which are
good or bad and nothing else; the parsing of YAML, TOML and JSON; `go list` itself.
