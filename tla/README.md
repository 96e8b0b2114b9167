# SENTINEL_PY in TLA+

SENTINEL_PY judges a Python project by two measurements: a CRAP score computed
from coverage, and the share of mutants that the project's tests kill. It runs
both on private copies of the project, forms a verdict, and commits it as
tamper-evident evidence under `.sentinel`. This directory holds TLA+ modules of
the parts in which order, concurrency and failure decide whether a verdict can
be trusted, TLC configurations that check them on small instances, and theorems
that TLAPS checks for every value of the constants. `PROJECT.json` maps every
definition to the lines of source it stands for.

To check one configuration: `tlc -config EvidenceStoreCommits.cfg
EvidenceStoreMC.tla`; the proofs of a module: `tlapm EvidenceStore_proofs.tla`.

## 1. The system

| Component | State it keeps | Operations | What is hard about it |
|---|---|---|---|
| Evidence store (`evidence/store.py`) | `.sentinel/state-v1`: lock, keys, last sequence number, one directory per run | `commit_*_evidence`, `read_history` | several processes, a record lock, crashes and power loss between any two files, a rolled back sequence file |
| Parallel runner (`runner/parallel.py`) | two forked workers, a pipe each | `run_pair`, `_receive`, `_stop`, `_worker` | who holds which end of a pipe, deaths in the middle of a message, interrupts at any statement |
| Process supervision (`runner/mutation_backend.py`, `child_lifetime.py`) | one process group per test process | `_run_process`, `_completed_process`, `_terminate_process_group` | stray processes, a signal during the clean-up |
| Mutation run (`runner/mutation_backend.py`, `mutation.py`) | snapshot, plan, raw results, reports | `run_mutmut`, replays, gate | flaky tests, instrumentation that breaks tests, records that must be complete |
| Mutmut bridge (`mutmut_adapter.py`) | none | candidate enumeration, normalization | unknown raw states |
| Pytest reporter (`runner/pytest_reporter.py`) | one report per test process | hooks | a report may be missing or belong to another process |
| Quality commands (`quality.py`) | one run record | `run_strict_check` and three smaller shells | the project is edited while it is measured; verdict, findings and evidence must agree |
| Coverage run (`runner/coverage_backend.py`) | snapshot, report | `run_fresh_coverage` | the same, and the order in which errors win |
| Command line (`cli.py`) | none | `main` | exit codes against evidence, failing output, Ctrl-C |
| Project loading (`config/`, `project_files.py`) | the lists of six walks | `load_project`, `restrict_production` | walks that see different trees, a listing that gets old |
| Selection (`selection.py`) | none | pure functions | what a name selects later |
| Gates and rendering (`gate.py`, `rendering.py`) | none | pure functions | thresholds met exactly |
| Coverage and CRAP measurement (`coverage.py`, `crap.py`) | none | pure functions | line ownership of nested callables |
| Provenance, backend lock | none | digests against constants | none |
| Tool adapter (`sentinel-tool/sentinel-tool`) | one request, one response | `main` | cancellation with a deadline, results of a process that died |
| Toolchain launcher (`scripts/toolchain.py`, `toolchain_lock.py`) | `.toolchain` | `bootstrap`, `run` | several launchers without a lock, crashes in a download |
| Repository tooling (`scripts/docs_lint.py`, hooks) | none | lints | none |

How they meet: the adapter starts the launcher, which verifies the tool trees
and becomes `uv run`; uv starts the command line; `run_strict_check` takes an
inventory of the project and gives two jobs to `run_pair`; each job takes an
inventory and a snapshot of its own and supervises test processes; their results
come back through pipes; gates judge them; the store commits; the command line
writes a document and an exit code; the adapter reads both and answers.

What makes each part correct is in section 4 as properties; what can go wrong
and is hard to test is listed line by line under `hazards` in `PROJECT.json`.

## 2. Plan

The order follows what a wrong verdict would cost.

1. `EvidenceLog`, `EvidenceStore`: the promise and the implementation of the
   store, with the first theorems. **done**
2. `RunPair`: workers, pipes, signals and process groups. **done**
3. `MutationRun`: when a kill is a kill. **done**
4. `StrictCheck`: composition of loading, both jobs, verdict, commit and exit
   code while the project is edited. **done**
5. `ToolAdapter`, `ToolchainBootstrap`: the processes around the check. **done**
6. `ScopeClassification`: the walks of `config/` over a tree that changes, and
   their reconciliation against a reference definition of a tidy tree. **done**
7. `Thresholds`, `CallableLines`: the arithmetic of `gate.py` and `rendering.py` and
   the line ownership of `crap.py`, as pure operators. **done**
8. `QualityRun`: from measured lines and judged mutants to the verdict, the findings
   and the document that the store accepts. **done**
9. The theorems of section 5 for all modules that are checked. **done**
10. Composition of `StrictCheck` with the store as an abstract log, so that
    concurrent checks of one project are covered by one model. *next*

The idle and the absolute deadline of `_wait_for_progress`, planned at first, are
not modelled, because at this commit only tests call that code.

Abstract specifications: `EvidenceLog` for the store. `QualityRun` and
`ScopeClassification` are checked against definitions in the user's terms (`Earned`,
`Tidy`) that share nothing with the code's steps.

Every invariant that a passing run checks is a theorem, and so is every property of
steps and the refinement; section 5 says along which argument. What remains to be
proved is the composition of item 10: that each check of several sees the store as
`EvidenceLog`, and that `ExitMatchesEvidence` then speaks of its own record.

## 3. Modules and code

Conventions: an action is one system call or one step that somebody else can
observe; local computation between two of them belongs to the earlier one. A
definition marked *Mistake* is a plausible bug and is used by no specification;
each property is violated when the definition after it is replaced by it.

**EvidenceLog** is the promise: a log of runs that only grows, whose numbers
increase in publication order and may have gaps; readers are answered with the
log; a power loss takes only a suffix that nobody was told of. It has no run of its
own: `ImplementsLog` is what ties it to the code. `HistoryRow` is
`_history_row`: first and last sequence, count, `repeated`.

**EvidenceStore** is `store.py`. `disk` is the state directory, `writer` and
`sharers` are the record lock, `pc`, `run`, `found`, `seq` are the locals of a
commit, `rpc`, `got`, `result` those of a read. The three `commit_*` functions
differ only in their component summaries and are one sequence of actions:
`MakeStateRoot`, `OpenLock`, `Acquire` (`_exclusive_state`), `FindKeys` or
`CreateKeys` (`_project_keys`), `ReadSequence`, `RefuseSequence`,
`PublishSequence` (`_next_sequence`), `MakeRun` or `RunExists` (`_new_run_root`),
`PublishStarted`, `MakeEvents`, `PublishEvent`, `EventsDone`, `PublishEvidence`
(`_commit_completed_run`, `_commit_events`), a `Sync` after each rename
(`_atomic_bytes`) and `Unlock` in the `finally`. `Fail` is an error at any of
these points. The run identifier and the findings of a commit are chosen when
they are first used; nobody can tell. Authentication codes are perfect: a
document either is what was written or is rejected; the key of a run says which
`project.json` it was written under. The disk is a journaling file system
(`journal`): directory operations become durable in order, a sync makes all
earlier ones durable. `PowerLoss` picks any state since the last sync. `Crash`
ends one process and frees its lock. `RestoreSequence` puts an older
`commit-sequence.json` back.

**RunPair** is `run_pair` with `_receive`, `_stop` and `_worker`, and the helpers
that supervise a test process inside a worker. `parent` and `step[j]` are program
counters; `pipe[j]` and `holders[j]` are the bytes in a pipe and the processes
with its write end (the second fork inherits the first's), so that an end of file
is seen exactly when the code can see it. `group[j]` is what the job has started: the
test process that leads the group, and what the tests leave behind, a process that has
closed its output (`quiet`), one that still has the test process's (`loud`), or one
that has it in a session of its own, where no signal of the group finds it (`away`).
`communicate()` comes back only when nobody has the output any more (`ChildDone`, and
`Reap` after a SIGKILL). `linux` is fixed at the start: only there does the kernel kill
the leader of a dead worker's group (`arm_parent_death` returns at once elsewhere).
A message is small and written at once, or larger than the pipe,
and then complete only while the parent reads it. An end of file inside of a message
may be an error that `_receive` does not expect (`messageBroken`). Time is left out: the
ten seconds of `_stop` pass only for a worker that waits for room in its pipe or for
the output of a process that no signal reaches (`Stuck`), the quarter of a second
before SIGKILL passes always. A job starts one test process, where the code starts one
after the other under the same supervision. A process that leaves its session and
closes its output is seen by nothing in the code and is left out.

**MutationRun** is one mutation measurement. `truth[s]` is what the tests really
do with a mutant, the original or the instrumented tree; `Observe` is a test run
that shows the truth or, at most `MaxFlakes` times, something else. Steps:
`Plan`, two baselines, the backend that tests each mutant (`-x` and one child, so
one after the other), `Control` (the instrumented tree without a mutant),
`Replay` of each failure, `Load` (normalization and completeness of the records),
`Gate`. A report is perfect: it is missing, or it is the one of its process. Of the
states of a mutant that is neither killed nor survived the model has `uncovered` and
`runtimeError`; the others (timed out, pending, compile error, ignored) count alike. So
do errors: `runnerInternalError` is with `unknownRawState`, and a test command that is not
supported with `planFailed`.

**StrictCheck** is `load_project`, `run_strict_check`, the inventories of both jobs
and `main`. A file is its stamp: metadata and digest that no two edits share.
Every walk (listing, inventory, copy, reading of sources) visits the files one at
a time, in any order, and `Edit` may come between any two visits. A visit is one
step although the code calls `stat` and `read`: an edit between the two can only
make the entry differ from every other. `error[w]` is the set of exit codes that
the exception of a walker may lead to; one is chosen when `main` sees it. What
`run_pair` raises of its own is 6, or 1 for an `OSError` of its directory, of a fork or of
a broken message, which `main` does not catch. A job
that is stopped leaves nothing behind. Exit code 130 is a Ctrl-C that arrives
while an error is being reported.

**ToolAdapter** is `main` of the adapter, the verification and the `execve` of the
launcher, and of the check what the adapter meets. That uv runs the check as a
child, hands SIGINT to it and returns its exit code is taken from how the code
uses uv and marked external. An interrupt reaches the adapter alone or the
foreground group.

**ToolchainBootstrap** is `bootstrap` for one tool and `_download`, statement by
statement where a path is used: `exists`, `unlink`, `open`, each block, `stat`, hash,
`replace`, extraction, `rename`. Paths and files are different things: a launcher
goes on writing a file whose path somebody unlinked, and two launchers may write
one file. The content of a file is which of its blocks are right and how long it
is. Extraction with verification is one step, since the tree is private and is
compared with its digest at the end. The second tool repeats the steps on files of
its own. `alone` and `honest` are history variables for `RetrySucceeds`.

**ScopeClassification** is `load_project` from the listing of the sources to the
reconciliation. `kind[f]` is what the configuration says of a path and whether it is
a link; `present` is the tree. Six walks, in the order of the code, look at the paths
one at a time, and `Edit` creates or deletes a file between any two looks. `Look` is
one step although the code globs, asks `is_file` and resolves. Some walks judge the
path and some the target of a link (`Raises`, `Finds`); each ends with the checks that
follow it in the code, so that an inventory of a module is compared before the next
is taken and emptiness is checked last (`InventoryEnds`, `LastInventory`).
`CandidatesEnd` is the final comparison.

**Thresholds** is exact arithmetic: parsing and printing of thresholds, both gates,
the CRAP score as a fraction in lowest terms, and rounding half to even. Lowest terms
are stated, not computed: `Fraction` has the least denominator that gives the value.
**CallableLines** says which reported line counts for which callable. A file is a
sequence of callables with the lines of their declarations, bodies and ends. Two lines
begin a body: `body`, where the code begins to count, is the line of the first
statement's own `def` or `class`; `top` is that of its first decorator, if it has any.
`WellFormed` is external, it says what Python's layout allows, lambdas among those
decorators included. `ExcludedLines`
and `OwnedLines` are the code's; `Ancestors` is the smallest set that has the parents
of its members.

**QualityRun** is what `run_local_crap`, `run_strict_crap`, `run_strict_mutation` and
`run_strict_check` do with their measurements. A file is built callable by callable
(`NextCallable`), measured against any report of it (`MeasureSource`), the metrics
are selected (any subset) and sorted, mutants are counted, `Judge` forms gates,
summaries and findings, `Commit` builds the document and takes it if the reader's
own check does. Command and mode are fixed at the start; the thresholds, which are
arguments, are chosen at `Judge`, where they are first used. Sorting is the relation
between a sequence and its sorted permutations (`SelectMetrics`, by `Before`). Identifiers
and with them the order of equal scores are left out, and the printed result is layout.
The state `toolError` of a mutation run never comes out of the adapter and is left out.

**The proof modules** (`*_proofs`) hold the theorems of the module they are named
for, section 5. The `*MC` modules hold the symmetry sets and fixed sets that TLC needs.

## 4. Runs

| Run | Instance | Distinct states | Shows |
|---|---|---|---|
| `commits` | 2 committers, 2 runs, 1 finding, numbers to 3 | 0.6 M | `UniqueSequences`, `BundlesComplete`, `AckedDurable` under crashes, errors, power loss and rollback, and `ImplementsLog`: the store refines the log |
| `reads` | 1 committer, 1 reader, 2 runs, 1 finding, numbers to 2 | 0.3 M | `LockExcludes`, `RefusalsExplained`, `HistoryOnlyGrows`, `ImplementsLog` with reads, and with fairness `LocksReleased` |
| `pair` | 2 workers that fail and die, 1 stray process each, 2 interrupts | 0.4 M | `Finishes`, `PairComplete`, `NoFalseFailure`, `WorkersGone`, `DrainedBeforeReport` |
| `pair_masked`, `pair_left` | no deaths, at most 1 interrupt | – | violations, section 6 |
| `mutation` | 2 candidates, 1 flaky run, threshold 50 % | 49 k | `KillsAreReal`, `KillsAreCaused`, `PassIsEarned`, `NoFalseAlarm` |
| `check` | 2 files, 2 edits, both execution modes | 2.1 M | `OneTree`, `EditsReported`, `ExitMatchesEvidence`, `PassNeedsBoth` |
| `adapter` | 3 interrupts | 6.9 k | `VerdictIsRecorded`, `CancelledIsOver`, and with fairness `CancelEnds` |
| `adapter_silent` | 2 interrupts | – | violation, section 6 |
| `bootstrap` | 2 launchers, 2 blocks | 1.0 M | `InstalledIsLocked`, `RetrySucceeds` |
| `scope` | 3 paths, 2 modules, 2 edits | 1.3 M | `AcceptedScope` while files come and go, `TidyIffAccepted` on a tree left alone |
| `quality` | 4 lines, 3 callables, 2 mutants | 1.7 M | `VerdictIsExact`, `DocumentsAccepted`, `FailureIsRecorded`, `LinesCountedOnce` |

Why the bounds are enough to be interesting. *Store:* every conflict is between
two commits or a commit and a read; two runs and three numbers leave one number
to be wasted by a crash and one to be given twice; the last number is reached, so
the refusal at the limit is checked. One finding is enough to tell a complete
from a partial set of events, since a bundle with the event and without it both
occur. In `reads` the finding is in none, one or both of the two runs, so that a
history is empty, has a row, or has one that repeats, with a first and a last number.
`MaxUnsynced` bounds the one thing that comes from outside: an older
`commit-sequence.json` is put back only while at most that many states of the disk may
still be the one a power loss leaves. Without it `commits` has half as many states again
and shows the same; in `reads` it is 1, a disk that is synced, and a rollback between
two syncs is left to `commits`.
*Pair:* the code has exactly two jobs. Two interrupts reach every pair of
statements, the second also the cleanup after the first (`broken`); deaths are
unbounded. `MaxStrays` is 1 for each job: one is enough to keep a group alive or an output
open, and the kinds differ in nothing else; two of one job can only do both at once. *Mutation:* two candidates give every mixture of
killed and not killed at a threshold of one half, which is met exactly. One flake
is the largest number the claim allows. *Check:* two edits are what it takes to
change a file and something else after it, or to create a file and delete it,
between any two visits. *Adapter:* three interrupts exceed the two places
that handle one. *Bootstrap:* two blocks are the least with a hole; launchers are
called again without bound. Three files suffice: besides the two that paths
name, at most one more is open. *Scope:* two modules make an overlap, an empty one
and a file of the other module; three paths are a link, its target and one more; two
edits let a file vanish and come back, or one appear as another goes. The kinds
that the paths may have are listed in `ScopeClassificationMC`; one of them has no place of
its own and gets one only from a link that leads to it. One kind of path is a link with the name of a test. *Quality:* four lines
are the least in which a nested callable ends before its parent does and leaves it a
line on either side, and in which a decorated first statement has a body. The limits are met exactly: a score of 5/2 against `2.50`, one
mutant of two against `50`. Two times let the clock go back.

Every constant that bounds something is named: `MaxSeq` (which is the code's
`_UINT64_MAX`, not an artefact), `MaxUnsynced`, `MaxFlakes`, `MaxEdits`, `MaxInterrupts`, `MaxStrays`, `Size`,
`MaxLine`, `MaxCallables`, `MaxComplexity`, `MaxMutants`, `Times`.

**Deadlock** is checked in all runs but two. Where a component with several actors
stops, its last state repeats by an action of its own (`Finished`, `Done`, `Exited`,
`Over`). `scope` and `quality` turn the check off: each is one sequential call that
ends, so its last state is meant to have no successor.

**Fairness.** Three runs use it: `reads`, `pair` and `adapter`. `EvidenceStore`: weak
fairness of the steps of a call that has begun; `MakeStateRoot` and `BeginRead`, the
calls themselves, are not fair. A process that is scheduled runs its next statement, and `fcntl.lockf`
is waited for only by processes that hold nothing, so weak fairness is enough for
the release (not for every waiter to get the lock, which the kernel does not
promise and nothing here claims). `RunPair`: weak fairness of the parent, of each
worker, of the delivery of its signals and of the end of the test process it
started; nothing forces a death or an interrupt, and no process that the tests leave
behind has to appear or to end (`StrayExits` is not fair). A test process that never
ends by itself is excluded by that, as the code sets no time limit. A process left
behind that keeps the output is not: `Finishes` says that `run_pair` ends or that there is
such a process for ever. `ToolAdapter`:
weak fairness of the adapter only; launcher and check may hang.

**Mutants.** For each property of each passing run `PROJECT.json` names a mistake in
the code that breaks it: a lock that does not wait for readers, a sync left out,
a run directory reused, exit codes of workers ignored, a replay that compares exit
codes only, an inventory that is compared inside the jobs only, an archive that is
taken unverified, a link that is refused in one walk only, a limit that may not be
met exactly, the largest numerator taken for the largest score. They show that the
properties can fail.

## 5. Proofs

`EvidenceStore_proofs` proves, for every number of committers, readers, runs and
findings and every `MaxSeq`:

- `TypeCorrect`: `Spec => []TypeOK`. Not inductive alone: `MakeRun` and everything
  after it use `run[p]`, and a number is published only once it is allocated.
  `Typed` adds `LocalsSet`: between these steps the local variables are set.
- `LockExclusion`: `Spec => []LockExcludes`. Given `Typed` it is inductive: only
  `Acquire` gives the lock, when it is free, and only `Unlock`, `Crash` and
  `PowerLoss` take it away, together with the place in the commit.
- `SequencesUnique`: `Spec => []UniqueSequences`, for the disk and for every state
  a power loss may leave. The invariant `NumbersInv` adds `NumberAbove`: the number
  a commit has allocated is above every retained number, from its allocation to
  its publication. That holds because the lock excludes other commits
  (`LockExcludes`) and because `_next_sequence` compares `commit-sequence.json` with
  the retained runs, so a rolled back file is refused rather than trusted.

- `BundlesWhole` (`BundlesComplete`) and `AcknowledgedKept` (`AckedDurable`), from
  `BundlesInv`. It has two halves. `StoreInv` speaks of every state in the journal, not
  only of the disk: paths exist before what is under them, a published run has its
  whole bundle, and what a power loss takes is younger than what it leaves
  (`Older`). `CommitsInv` says, place by place, what a commit has written of
  its own run directory: `release` is reached only when every state in the journal
  has the run.
- `ReadsExplained` (`RefusalsExplained`) and `HistoryExtended` (`HistoryOnlyGrows`). A reader
  has no transaction. `ReadsInv` says that what it got is the published log as long as
  it holds its lock (`GotLog`), and that an earlier answer is a prefix of that log
  (`AnswersOld`): it was published, and everything else is younger.
- `LogImplemented` (`ImplementsLog`): the initial states are initial states of `EvidenceLog`,
  and each step of the store is mapped to a step of the log or changes nothing of
  it. Only `PublishEvidence` appends, only `PowerLoss` takes away, and only a read that
  is answered answers; all other steps leave the published runs as they are (`LogSame`).

The only assumption is `StoreAssumption`: `MaxSeq` is positive, `MaxUnsynced` is a number
and `Nobody` is no process and no run.

`MutationRun_proofs` proves, for any number of candidates and flaky runs and
every threshold (`RunAssumption`: these are numbers, the threshold is at most 100):

- `TypeCorrect`. `StepsInOrder` strengthens the type: after the backend every selected
  mutant has a raw result, and there is a verdict only at the end.
- `KillsReal`: `Spec => []KillsAreReal`. Inductive with `FailuresSeenOnce` (a raw
  failure was observed, truly or with a flake), `KillsSeenTwice` (a replayed failure
  was observed twice) and `KillsConfirmed` (a killed record was replayed): two
  observations of the same lie take two flakes.
- `PassEarned`: `Spec => []PassIsEarned`, from `KillsReal` and the gate; the set of
  real detections contains the set of kills, so the share does not shrink.
- `KillsCaused` (`KillsAreCaused`) and `AlarmsExplained` (`NoFalseAlarm`), for tests that are
  not flaky. `SteadyInv` says that then whatever was observed is true, of the original, of
  the instrumented tree and of each mutant, so that an outcome has the truth for
  its cause and not an observation.

`RunPair_proofs` proves, for any number of interrupts and of stray processes, with or
without workers that are killed from outside, on Linux and elsewhere (`PairAssumption`:
these are numbers):

- `TypeCorrect`, `ResultsComplete` (`PairComplete`), `FailuresTrue` (`NoFalseFailure`),
  `WorkersStopped` (`WorkersGone`) and `GroupsDrained` (`DrainedBeforeReport`), from one
  invariant, `PairInv`.
- It ties the parent to workers it cannot see. A complete message is in a pipe only of a
  worker that has nothing left to do but exit, and a live worker holds the write end
  of its own pipe (`MessagesSent`), so an end of file means that it is gone; what
  the parent received was sent (`ResultsReceived`); each outcome has a cause in a worker
  or in an interrupt, and the cause lasts (`OutcomesCaused`); a group has a leader only
  while its worker supervises it, or after that worker was killed or interrupted, and
  under a dead one never on Linux (`GroupsLed`); the connections are closed after the last
  worker has exited (`StoppedFirst`). That the two jobs fork in order is part of the type
  (`ForksInOrder`), without which `join` could be reached with a job that never ran.

`StrictCheck_proofs` proves, for every set of files and any number of edits
(`CheckAssumption`: the number of edits is a number):

- `TypeCorrect`, `EvidenceOfOneTree` (`OneTree`), `ExitAgrees` (`ExitMatchesEvidence`),
  `EditsAreReported` (`EditsReported`), `PassNeedsBothJobs` (`PassNeedsBoth`).
- The heart is that a stamp is never used twice. A file that the last inventory
  finds with the stamp of the first had it all the time in between (`OnlyStamp`), so
  every walk that saw the file saw that stamp (`TreeKept`). `JobsInOrder`,
  `MainInOrder`, `JobsComplete`, `BothDone` and `Compared` carry what each
  walker has finished when evidence is published; `VerdictInv` carries what the exit
  code and the recorded verdict owe to them.

`ToolchainBootstrap_proofs` proves, for any number of launchers, files and blocks
(`BootstrapAssumption`: there is at least one block and `None` is no file):

- `TypeCorrect`; `InstalledLocked` (`InstalledIsLocked`), which needs only that no
  launcher is about to install what it did not verify (`OnlyLocked`).
- `RetryWorks` (`RetrySucceeds`), a property of steps: a launcher that works
  alone and downloads honestly does not fail. `AtWork` says, place by place, that the
  paths and files are as it left them; `AloneInv` that nobody else is at work;
  `CountsReset` that its count of blocks starts at zero.

`ToolAdapter_proofs` proves, for any number of interrupts (`AdapterAssumption`: it is
a number): `TypeCorrect`, `VerdictRecorded` (`VerdictIsRecorded`), `CancelIsOver`
(`CancelledIsOver`), by one invariant that ties the document, the exit codes and the
answer to what the check recorded (`DocumentHonest`, `JudgesLate`, `AnswerHonest`).

`ScopeClassification_proofs` proves, for any number of files, links and modules and any
number of edits (`ScopeAssumption`: paths and modules are finite in number, the paths
are numbered, and the selected module is one of them):

- `TypeCorrect`, `ScopesRight` (`AcceptedScope`). `FoundRight` says that a walk finds only what
  belongs to it, `StoodFound` that it finds a file that was there all the time,
  `Reconciled` what the comparisons that the code has already made guarantee.
- `AcceptsTidyTrees` (`TidyIffAccepted`). On a tree that nobody changes, a walk that ended has
  found exactly what belongs to it (`ExactlyFound`), and every comparison passed so far is
  a conjunct of `Tidy` (`TidySoFar`), so the last one decides both ways.
- The first attempt failed for a reason. `AcceptedScope` used to say that every file
  that was there all the time has exactly one place. That is wrong for a file that the configuration gives no
  place and to which a link leads: it is reconciled as what the link is. No kind of
  that sort was in the checked instance. The property now says at most one place of
  its own, and exactly one unless a link leads to the file, and the instance has the kind.

`QualityRun_proofs` proves, for any number of callables, lines and mutants, any
complexity and any limits that can be typed (`QualityAssumption`: the limits parse
and are in range; `LinesAssumption`: there is a line):

- `MaximumDecides` (the store may check a gate from the largest score alone),
  `FormDoesNotMatter` (a fraction may be reduced), `AllMeansAll` (100 percent is every mutant),
  `RenderingIsNearest` (rounding half to even).
- `ReaderAgrees` (`DocumentsAccepted`): the store's reader recomputes the verdict from the
  document, that is from the largest score in lowest terms, the counts and the
  printed limits. The argument is that each of these forms decides the same:
  the fraction of least denominator has the same value (`FractionIs`), a printed limit parses
  to the limit that was typed (`ParseRoundTrip`), and the maximum decides for all
  (`MaximumAgrees`).
- `VerdictsExact` (`VerdictIsExact`) and `FailuresRecorded` (`FailureIsRecorded`), from
  `QualityInv`: the run is the verdict of the measured numbers under the limits
  (`RunOfNumbers`), and the document is the run's (`DocumentOfRun`).
- `LinesOnce` (`LinesCountedOnce`). Two callables are related or meet under a largest common
  ancestor, and there stand apart (`WaysPart`, `WhereTheyMeet`), so no line counts twice
  (`NoLineTwice`); of the callables around a line of code the innermost one counts it
  (`CodeCounts`). A decorator before the code of a first statement is code of the callable
  around the one it stands in, since a definition in a body begins with or after its
  code (`DefsInCode`); where there is none, only a lambda has it (`DecoratorsAlone`,
  `NoLineLost`). The files are well formed because each callable is added
  so (`FileInv`).

Where an argument needs induction, it goes by the least element of a well-founded
order, which the library states without an operator parameter: a set of numbers has a
least one (`LeastNumber`, for lowest terms), and a finite set of fractions a largest
(`LargestFraction`, by strict subsets).

The shape of each argument is the same: initial states satisfy the invariant, every
step preserves it (a lemma per group of actions, a step per action), the invariant
implies the property, and `PTL` lifts this to the specification.

Only model-checked: liveness (`LocksReleased`, `Finishes`, `CancelEnds`), since the proof
system has no rules for fairness; and the three violations of section 6, which are
counterexamples and need no proof.

## 6. Where code and documents disagree

- `pair_masked`: a job fails, its sibling is in the middle of sending a large result.
  SIGTERM makes the sibling send an error behind an unfinished message that nobody
  reads, `join(10)` runs out, `_stop` kills it and raises `parallelCleanupFailed`,
  which replaces the error of the job. `tests/test_parallel.py:59` expects the
  error of the job; there the sibling only sleeps.
- `pair_left`: something of `run_pair` outlives it. `README.md:36` says that the other
  job is stopped and cleaned up. There are two causes. With one interrupt: Ctrl-C
  between `process.start()` and `processes.append(process)`, so that the worker is not
  stopped, fills its pipe and waits forever, and the command waits for it at its
  exit. Without any: SIGTERM of `_stop` interrupts `_terminate_process_group` between
  its SIGTERM and its SIGKILL, and a test process that ignored SIGTERM survives the
  check (`MaxInterrupts = 0` in `RunPairLeft.cfg` shows that one).
- `adapter_silent`: a second Ctrl-C while the adapter waits for the cancelled check
  ends it with a traceback and no response; its docstring promises exactly one.

Observed and not counted as a disagreement, because nothing claims otherwise: a check
that does not end within 25 seconds of Ctrl-C outlives the launcher that the adapter
kills, and may still commit evidence; two
launchers that bootstrap at once may both fail and may publish a torn archive
(`RetrySucceeds` shows that one later call repairs it); a process that the tests leave
behind with their output open holds up the worker and the check for as long as it runs,
since nothing looks at the group before the output has ended (`mutation_backend.py:537`,
the exception in `Finishes`); where the kernel is not
Linux, the test process of a worker that is killed runs on (`child_lifetime.py:10`, the
exception in `WorkersGone`); a worker that dies inside of its message may end the check
with a traceback and exit code 1 (`parallel.py:59` catches only the end of file between
two parts of a message); a commit whose last sync
fails leaves evidence although the command exits with 7, and an interrupt after the
commit does so with 8 (`ExitMatchesEvidence` says what does hold); a file that is
created after `load_project` is measured but in nobody's list, and one that is
created and deleted between two inventories is seen by neither; a clock that is put
back between the judgement and the commit turns a finished run into `evidenceError`
(exit code 7, `DocumentsAccepted` excepts it); a function selected by name whose
identifier has changed is dropped without a word (`selection.py:63`); a local coverage
report of an older version of a file is read as one of today's (`quality.py:69`); the
line on which a lambda among the defaults of a definition ends and the definition's
one-line body begins counts for both callables (the exception in
`LinesCountedOnce`); the decorators of a first statement that is a definition or a class
count for the callable around, or for nobody if there is none, because a body begins
with the line of the `def` (`crap.py:631`); a lambda of several lines whose body starts on the line of its
declaration leaves its further lines to nobody; a lambda among the defaults of a
lambda is no callable at all.

## 7. Not modelled

- Parsing, of sources, of the configuration and of coverage reports, and with it the
  complexity and the identifier of a callable: syntax trees in, numbers and names out,
  without state. The models take any complexity, any callables that layout allows
  and any report of the file.
- The language of path patterns and the filter of test arguments (`resolver.py`): a
  path matches or does not. Links to directories.
- The matching of `--function` and `--changed` in `selection.py`: any subset.
- `provenance.py`, `backend_lock.py`: digests compared with constants, no state.
- Enumeration of candidates in `mutmut_adapter.py`: libcst code; a plan is any set.
- The format of evidence documents (identifiers, digests, timestamps, key sets): to
  `EvidenceStore` a bundle is valid or not, and `QualityRun` has the semantic part of
  the validation.
- `.sentinel-deps`, which is copied into each snapshot but is in no inventory.
- `_run_process_with_progress` and `_wait_for_progress`, which only tests call.
- Inventories and snapshots of `run_strict_crap`, `run_strict_mutation` and
  `run_local_crap`: the same shells as `run_strict_check` around one job without
  `run_pair`. Their verdicts are in `QualityRun`.
- `uv sync`, `deps`, lock file parsing, `docs_lint.py`, hooks.
