---------------------------- MODULE EvidenceStore ----------------------------
(***************************************************************************)
(* The local evidence store, evidence/store.py: processes that commit a    *)
(* completed run under an exclusive record lock, processes that read the   *)
(* history under a shared one, and the state directory they meet in.       *)
(*                                                                         *)
(* One action is one system call that other processes or a crash can       *)
(* observe. _atomic_bytes is two of them: the rename of a temporary file   *)
(* that was already written and synced, and the sync of its directory.     *)
(*                                                                         *)
(* The disk is a journaling file system: directory operations reach it in  *)
(* order, a sync makes everything before it durable, and a power loss      *)
(* leaves the disk in one of the states it went through since the last     *)
(* sync. `journal' is the set of those states.                             *)
(***************************************************************************)
EXTENDS Integers, FiniteSets

CONSTANTS
  Committers,  \* processes that call commit_*_evidence
  Readers,     \* processes that call read_history
  RunIds,      \* run identifiers
  Findings,    \* finding identities
  MaxSeq,      \* _UINT64_MAX
  MaxUnsynced, \* a file is restored while so many states may await a sync
  Nobody       \* no process, and no project key

ASSUME StoreAssumption ==
  /\ MaxSeq \in Nat \ {0}
  /\ MaxUnsynced \in Nat
  /\ Nobody \notin Committers \cup RunIds

VARIABLES
  disk,      \* the state directory as every process sees it
  journal,   \* the states the disk may have after a power loss
  writer,    \* holder of the exclusive lock, or Nobody
  sharers,   \* holders of the shared lock
  pc,        \* pc[p]: the next step of the commit p runs
  run,       \* run[p]: the run identifier p commits
  found,     \* found[p]: its unique findings
  seq,       \* seq[p]: the number p allocated, 0 before
  rpc,       \* rpc[q]: the next step of the read q runs
  got,       \* got[q]: the evidence q has verified
  result,    \* result[q]: the outcome of the last read of q
  acked      \* runs whose commit call returned

diskVars   == <<disk, journal>>
lockVars   == <<writer, sharers>>
commitVars == <<pc, run, found, seq>>
readVars   == <<rpc, got, result>>
vars == <<diskVars, lockVars, commitVars, readVars, acked>>
------------------------------------------------------------------------------
(***************************************************************************)
(* The state directory. A key is named after the process that created it;  *)
(* the number 0 means that the file does not exist.                        *)
(***************************************************************************)
RunRoot ==
  [made     : BOOLEAN,                  \* runs/<runId>
   started  : BOOLEAN,                  \* started.json
   evdir    : BOOLEAN,                  \* events
   events   : [Findings -> 0..MaxSeq],  \* events/<n>.json and its number
   evidence : 0..MaxSeq,                \* evidence.json and its number
   manifest : SUBSET Findings,          \* the events evidence.json names
   key      : Committers \cup {Nobody}] \* the key it is authenticated with

StateRoot ==
  [root    : BOOLEAN,                   \* .sentinel/state-v1
   lock    : BOOLEAN,                   \* lock
   project : Committers \cup {Nobody},  \* project.json
   last    : 0..MaxSeq,                 \* commit-sequence.json
   runsdir : BOOLEAN,                   \* runs
   runs    : [RunIds -> RunRoot]]

NoRun ==
  [made |-> FALSE, started |-> FALSE, evdir |-> FALSE,
   events |-> [f \in Findings |-> 0], evidence |-> 0, manifest |-> {},
   key |-> Nobody]

NoState ==
  [root |-> FALSE, lock |-> FALSE, project |-> Nobody, last |-> 0,
   runsdir |-> FALSE, runs |-> [r \in RunIds |-> NoRun]]

\* Mistake: runs above the number of commit-sequence.json do not count.
RetainedBelow(d) == {r \in RunIds : d.runs[r].evidence \in 1..d.last}

\* The runs with an evidence.json: the only ones a reader looks at.
Retained(d) == {r \in RunIds : d.runs[r].evidence # 0}

HighWaterBelow(d, bound) == \A r \in Retained(d) : d.runs[r].evidence <= bound

UniqueNumbers(d) ==
  \A r, s \in Retained(d) : d.runs[r].evidence = d.runs[s].evidence => r = s

\* _read_evidence accepts the run: started.json is there, events holds one
\* file per manifest entry, of the same number, and the key is the project's.
BundleValid(d, r) ==
  /\ d.runs[r].started
  /\ d.runs[r].evdir
  /\ \A f \in Findings :
       d.runs[r].events[f] =
         IF f \in d.runs[r].manifest THEN d.runs[r].evidence ELSE 0
  /\ d.runs[r].key = d.project

BundlesValid(d) == \A r \in Retained(d) : BundleValid(d, r)

Published(d) ==
  {[run |-> r, seq |-> d.runs[r].evidence, findings |-> d.runs[r].manifest] :
     r \in Retained(d)}

Log == INSTANCE EvidenceLog WITH log <- Published(disk)
------------------------------------------------------------------------------
Change(d) ==
  /\ disk' = d
  /\ journal' = journal \cup {d}

\* The disk with x as the directory of run r, and the directory p works in.
WithRun(r, x) == [disk EXCEPT !.runs = [disk.runs EXCEPT ![r] = x]]

Own(p) == disk.runs[run[p]]

Flush ==
  /\ journal' = {disk}
  /\ UNCHANGED disk

Goto(p, from, to) ==
  /\ pc[p] = from
  /\ pc' = [pc EXCEPT ![p] = to]

RGoto(q, from, to) ==
  /\ rpc[q] = from
  /\ rpc' = [rpc EXCEPT ![q] = to]

\* The local variables of a commit that is over.
Forget(p) ==
  /\ run' = [run EXCEPT ![p] = Nobody]
  /\ found' = [found EXCEPT ![p] = {}]
  /\ seq' = [seq EXCEPT ![p] = 0]

LocalSame == UNCHANGED <<run, found, seq>>
OthersSame == UNCHANGED <<lockVars, readVars, acked>>

Init ==
  /\ disk = NoState
  /\ journal = {NoState}
  /\ writer = Nobody
  /\ sharers = {}
  /\ pc = [p \in Committers |-> "idle"]
  /\ run = [p \in Committers |-> Nobody]
  /\ found = [p \in Committers |-> {}]
  /\ seq = [p \in Committers |-> 0]
  /\ rpc = [q \in Readers |-> "idle"]
  /\ got = [q \in Readers |-> {}]
  /\ result = [q \in Readers |-> Log!NoResult]
  /\ acked = {}
------------------------------------------------------------------------------
(***************************************************************************)
(* A commit, commit_quality_evidence / commit_mutation_evidence /          *)
(* commit_check_evidence. First _exclusive_state. The arguments of the     *)
(* call, a run identifier and its unique findings, are chosen where the    *)
(* call first uses them.                                                   *)
(***************************************************************************)
MakeStateRoot(p) ==
  /\ Goto(p, "idle", "open")
  /\ Change([disk EXCEPT !.root = TRUE])
  /\ LocalSame /\ OthersSame

OpenLock(p) ==
  /\ Goto(p, "open", "acquire")
  /\ Change([disk EXCEPT !.lock = TRUE])
  /\ LocalSame /\ OthersSame

\* Mistake: the byte is taken although readers share it.
AcquireOverReaders(p) ==
  /\ Goto(p, "acquire", "keys")
  /\ writer = Nobody
  /\ writer' = p
  /\ LocalSame
  /\ UNCHANGED <<diskVars, sharers, readVars, acked>>

\* fcntl.lockf(LOCK_EX): waits while any process holds the byte.
Acquire(p) ==
  /\ Goto(p, "acquire", "keys")
  /\ writer = Nobody
  /\ sharers = {}
  /\ writer' = p
  /\ LocalSame
  /\ UNCHANGED <<diskVars, sharers, readVars, acked>>

\* _project_keys: an absent project.json is created with fresh keys.
FindKeys(p) ==
  /\ Goto(p, "keys", "sequence")
  /\ disk.project # Nobody
  /\ LocalSame /\ OthersSame
  /\ UNCHANGED diskVars

CreateKeys(p) ==
  /\ Goto(p, "keys", "syncKeys")
  /\ disk.project = Nobody
  /\ Change([disk EXCEPT !.project = p])
  /\ LocalSame /\ OthersSame

\* Mistakes: the retained runs are not compared; the last number wraps.
AllocateUnchecked(d) == BundlesValid(d) /\ UniqueNumbers(d) /\ d.last # MaxSeq

AllocateUnbounded(d) ==
  BundlesValid(d) /\ UniqueNumbers(d) /\ HighWaterBelow(d, d.last)

\* _next_sequence reads every retained run and the last number.
MayAllocate(d) ==
  /\ BundlesValid(d)
  /\ UniqueNumbers(d)
  /\ HighWaterBelow(d, d.last)
  /\ d.last # MaxSeq

ReadSequence(p) ==
  /\ Goto(p, "sequence", "allocate")
  /\ MayAllocate(disk)
  /\ seq' = [seq EXCEPT ![p] = disk.last + 1]
  /\ UNCHANGED <<run, found, diskVars>>
  /\ OthersSame

RefuseSequence(p) ==
  /\ Goto(p, "sequence", "abort")
  /\ ~MayAllocate(disk)
  /\ LocalSame /\ OthersSame
  /\ UNCHANGED diskVars

PublishSequence(p) ==
  /\ Goto(p, "allocate", "syncSequence")
  /\ Change([disk EXCEPT !.last = seq[p]])
  /\ LocalSame /\ OthersSame

\* Mistake: mkdir(exist_ok=True) takes over a run that was left unfinished.
ReuseRun(p) ==
  /\ Goto(p, "mkrun", "started")
  /\ \E r \in RunIds :
       /\ disk.runs[r].evidence = 0
       /\ Change([WithRun(r, [disk.runs[r] EXCEPT !.made = TRUE]) EXCEPT !.runsdir = TRUE])
       /\ run' = [run EXCEPT ![p] = r]
  /\ UNCHANGED <<found, seq>>
  /\ OthersSame

\* _new_run_root: mkdir fails on a run that exists, finished or not.
MakeRun(p) ==
  /\ Goto(p, "mkrun", "started")
  /\ \E r \in RunIds :
       /\ ~disk.runs[r].made
       /\ Change([WithRun(r, [disk.runs[r] EXCEPT !.made = TRUE]) EXCEPT !.runsdir = TRUE])
       /\ run' = [run EXCEPT ![p] = r]
  /\ UNCHANGED <<found, seq>>
  /\ OthersSame

RunExists(p) ==
  /\ Goto(p, "mkrun", "abort")
  /\ \E r \in RunIds : disk.runs[r].made
  /\ LocalSame /\ OthersSame
  /\ UNCHANGED diskVars

PublishStarted(p) ==
  /\ Goto(p, "started", "syncStarted")
  /\ Change(WithRun(run[p], [Own(p) EXCEPT !.started = TRUE]))
  /\ LocalSame /\ OthersSame

\* Mistake: no events directory for a run without findings.
MakeEventsIfAny(p) ==
  /\ Goto(p, "mkevents", "events")
  /\ \E fs \in SUBSET Findings :
       /\ found' = [found EXCEPT ![p] = fs]
       /\ Change(WithRun(run[p], [Own(p) EXCEPT !.evdir = fs # {}]))
  /\ UNCHANGED <<run, seq>>
  /\ OthersSame

\* _commit_events: one file per finding, then the directory is synced.
MakeEvents(p) ==
  /\ Goto(p, "mkevents", "events")
  /\ Change(WithRun(run[p], [Own(p) EXCEPT !.evdir = TRUE]))
  /\ \E fs \in SUBSET Findings : found' = [found EXCEPT ![p] = fs]
  /\ UNCHANGED <<run, seq>>
  /\ OthersSame

Unwritten(p) == {f \in found[p] : Own(p).events[f] # seq[p]}

PublishEvent(p) ==
  /\ Goto(p, "events", "syncEvent")
  /\ \E f \in Unwritten(p) :
       Change(WithRun(run[p], [Own(p) EXCEPT !.events = [@ EXCEPT ![f] = seq[p]]]))
  /\ LocalSame /\ OthersSame

EventsDone(p) ==
  /\ Goto(p, "events", "evidence")
  /\ Unwritten(p) = {}
  /\ Flush
  /\ LocalSame /\ OthersSame

\* The commit point.
PublishEvidence(p) ==
  /\ Goto(p, "evidence", "syncEvidence")
  /\ Change(WithRun(run[p], [Own(p) EXCEPT !.evidence = seq[p],
                                           !.manifest = found[p],
                                           !.key = disk.project]))
  /\ LocalSame /\ OthersSame

SyncSteps == {"syncKeys", "syncSequence", "syncStarted", "syncEvent", "syncEvidence"}

AfterSync(step) ==
  CASE step = "syncKeys"     -> "sequence"
    [] step = "syncSequence" -> "mkrun"
    [] step = "syncStarted"  -> "mkevents"
    [] step = "syncEvent"    -> "events"
    [] step = "syncEvidence" -> "release"

\* Mistake: the rename is not followed by a sync.
SkipSync(p) ==
  /\ pc[p] \in SyncSteps
  /\ pc' = [pc EXCEPT ![p] = AfterSync(pc[p])]
  /\ UNCHANGED diskVars
  /\ LocalSame /\ OthersSame

\* _sync_directory of the directory the renamed file is in.
Sync(p) ==
  /\ pc[p] \in SyncSteps
  /\ pc' = [pc EXCEPT ![p] = AfterSync(pc[p])]
  /\ Flush
  /\ LocalSame /\ OthersSame

\* Mistakes: an error keeps the lock; an error is swallowed.
UnlockOnSuccess(p) ==
  /\ Goto(p, "release", "idle")
  /\ writer' = Nobody
  /\ acked' = acked \cup {[run |-> run[p], seq |-> seq[p], findings |-> found[p]]}
  /\ Forget(p)
  /\ UNCHANGED <<diskVars, sharers, readVars>>

SwallowError(p) ==
  /\ pc[p] \in {"release", "abort"}
  /\ pc' = [pc EXCEPT ![p] = "idle"]
  /\ writer' = Nobody
  /\ acked' = IF seq[p] = 0 THEN acked
              ELSE acked \cup {[run |-> run[p], seq |-> seq[p], findings |-> found[p]]}
  /\ Forget(p)
  /\ UNCHANGED <<diskVars, sharers, readVars>>

\* The finally of _exclusive_state, after success or after an error.
Unlock(p) ==
  /\ pc[p] \in {"release", "abort"}
  /\ pc' = [pc EXCEPT ![p] = "idle"]
  /\ writer' = Nobody
  /\ acked' = IF pc[p] = "release"
              THEN acked \cup {[run |-> run[p], seq |-> seq[p], findings |-> found[p]]}
              ELSE acked
  /\ Forget(p)
  /\ UNCHANGED <<diskVars, sharers, readVars>>

LockFree == {"open", "acquire"}

\* A system call of the commit fails, or evidence that is about to be
\* published fails its own validation (the clock stepped back): the error
\* leaves a temporary file removed and the disk as it is.
Fail(p) ==
  /\ pc[p] \notin {"idle", "release", "abort"}
  /\ IF pc[p] \in LockFree
     THEN /\ pc' = [pc EXCEPT ![p] = "idle"]
          /\ Forget(p)
     ELSE /\ pc' = [pc EXCEPT ![p] = "abort"]
          /\ LocalSame
  /\ UNCHANGED diskVars
  /\ OthersSame
------------------------------------------------------------------------------
(***************************************************************************)
(* A read, read_history.                                                   *)
(***************************************************************************)
Answer(q, docs) ==
  result' = [result EXCEPT ![q] = [status |-> "history", docs |-> docs]]

Reject(q) == result' = [result EXCEPT ![q].status = "refused"]

CommitSame == UNCHANGED <<diskVars, commitVars, acked>>

ReadNoState(q) ==
  /\ rpc[q] = "idle"
  /\ ~disk.root
  /\ Answer(q, {})
  /\ CommitSame
  /\ UNCHANGED <<lockVars, rpc, got>>

BeginRead(q) ==
  /\ RGoto(q, "idle", "open")
  /\ disk.root
  /\ CommitSame
  /\ UNCHANGED <<lockVars, got, result>>

\* _shared_state never creates the lock file.
OpenShared(q) ==
  /\ RGoto(q, "open", "acquire")
  /\ disk.lock
  /\ CommitSame
  /\ UNCHANGED <<lockVars, got, result>>

NoLockFile(q) ==
  /\ RGoto(q, "open", "idle")
  /\ ~disk.lock
  /\ Reject(q)
  /\ CommitSame
  /\ UNCHANGED <<lockVars, got>>

AcquireShared(q) ==
  /\ RGoto(q, "acquire", "scan")
  /\ writer = Nobody
  /\ sharers' = sharers \cup {q}
  /\ CommitSame
  /\ UNCHANGED <<writer, got, result>>

ReadNoRuns(q) ==
  /\ RGoto(q, "scan", "unlock")
  /\ ~disk.runsdir
  /\ Answer(q, {})
  /\ CommitSame
  /\ UNCHANGED <<lockVars, got>>

\* Project keys, then every retained run with its bundle, or the first
\* document that is not what it must be.
Scan(q) ==
  /\ rpc[q] = "scan"
  /\ disk.runsdir
  /\ IF disk.project # Nobody /\ BundlesValid(disk)
     THEN /\ rpc' = [rpc EXCEPT ![q] = "check"]
          /\ got' = [got EXCEPT ![q] = Published(disk)]
          /\ UNCHANGED result
     ELSE /\ rpc' = [rpc EXCEPT ![q] = "unlock"]
          /\ Reject(q)
          /\ UNCHANGED got
  /\ CommitSame
  /\ UNCHANGED lockVars

SequenceStateValid(docs, last) ==
  /\ \A e, x \in docs : e.seq = x.seq => e = x
  /\ \A e \in docs : e.seq <= last

\* _validate_sequence_state compares the runs with commit-sequence.json.
CheckSequence(q) ==
  /\ RGoto(q, "check", "unlock")
  /\ IF SequenceStateValid(got[q], disk.last) THEN Answer(q, got[q]) ELSE Reject(q)
  /\ got' = [got EXCEPT ![q] = {}]
  /\ CommitSame
  /\ UNCHANGED lockVars

UnlockShared(q) ==
  /\ RGoto(q, "unlock", "idle")
  /\ sharers' = sharers \ {q}
  /\ CommitSame
  /\ UNCHANGED <<writer, got, result>>
------------------------------------------------------------------------------
(***************************************************************************)
(* The environment: a process dies and the kernel releases its lock, the   *)
(* machine loses power, somebody restores an older commit-sequence.json.   *)
(***************************************************************************)
Crash(p) ==
  /\ pc[p] # "idle"
  /\ pc' = [pc EXCEPT ![p] = "idle"]
  /\ writer' = IF writer = p THEN Nobody ELSE writer
  /\ Forget(p)
  /\ UNCHANGED <<diskVars, sharers, readVars, acked>>

CrashReader(q) ==
  /\ rpc[q] # "idle"
  /\ rpc' = [rpc EXCEPT ![q] = "idle"]
  /\ got' = [got EXCEPT ![q] = {}]
  /\ sharers' = sharers \ {q}
  /\ CommitSame
  /\ UNCHANGED <<writer, result>>

PowerLoss ==
  /\ disk' \in journal
  /\ journal' = {disk'}
  /\ writer' = Nobody
  /\ sharers' = {}
  /\ pc' = [p \in Committers |-> "idle"]
  /\ run' = [p \in Committers |-> Nobody]
  /\ found' = [p \in Committers |-> {}]
  /\ seq' = [p \in Committers |-> 0]
  /\ rpc' = [q \in Readers |-> "idle"]
  /\ got' = [q \in Readers |-> {}]
  /\ result' = [q \in Readers |-> Log!NoResult]
  /\ UNCHANGED acked

RestoreSequence ==
  /\ Cardinality(journal) <= MaxUnsynced
  /\ \E s \in 0..(disk.last - 1) : Change([disk EXCEPT !.last = s])
  /\ UNCHANGED commitVars
  /\ OthersSame
------------------------------------------------------------------------------
CommitStep(p) ==
  \/ OpenLock(p) \/ Acquire(p)
  \/ FindKeys(p) \/ CreateKeys(p)
  \/ ReadSequence(p) \/ RefuseSequence(p) \/ PublishSequence(p)
  \/ MakeRun(p) \/ RunExists(p) \/ PublishStarted(p)
  \/ MakeEvents(p) \/ PublishEvent(p) \/ EventsDone(p)
  \/ PublishEvidence(p) \/ Sync(p) \/ Unlock(p)

ReadStep(q) ==
  \/ OpenShared(q) \/ NoLockFile(q) \/ AcquireShared(q)
  \/ ReadNoRuns(q) \/ Scan(q)
  \/ CheckSequence(q) \/ UnlockShared(q)

Next ==
  \/ \E p \in Committers : MakeStateRoot(p) \/ CommitStep(p) \/ Fail(p) \/ Crash(p)
  \/ \E q \in Readers : ReadNoState(q) \/ BeginRead(q) \/ ReadStep(q) \/ CrashReader(q)
  \/ PowerLoss
  \/ RestoreSequence

Spec == Init /\ [][Next]_vars

\* A call that has begun keeps running; nobody has to make a call.
Fairness ==
  /\ \A p \in Committers : WF_vars(CommitStep(p))
  /\ \A q \in Readers : WF_vars(ReadStep(q))

FairSpec == Spec /\ Fairness
------------------------------------------------------------------------------
CommitPcs ==
  LockFree \cup SyncSteps \cup
  {"idle", "keys", "sequence", "allocate", "mkrun", "started", "mkevents",
   "events", "evidence", "release", "abort"}

ReadPcs == {"idle", "open", "acquire", "scan", "check", "unlock"}

Holding == CommitPcs \ (LockFree \cup {"idle"})

(***************************************************************************)
(* Type invariant: the shapes of the state directory (store.py documents)  *)
(* and of the local variables of commits and reads.                        *)
(***************************************************************************)
TypeOK ==
  /\ disk \in StateRoot
  /\ journal \in SUBSET StateRoot
  /\ disk \in journal
  /\ writer \in Committers \cup {Nobody}
  /\ sharers \in SUBSET Readers
  /\ pc \in [Committers -> CommitPcs]
  /\ run \in [Committers -> RunIds \cup {Nobody}]
  /\ found \in [Committers -> SUBSET Findings]
  /\ seq \in [Committers -> 0..MaxSeq]
  /\ rpc \in [Readers -> ReadPcs]
  /\ got \in [Readers -> SUBSET Log!Entry]
  /\ result \in [Readers -> Log!Result]
  /\ acked \in SUBSET Log!Entry

(***************************************************************************)
(* A commit between its lock and its unlock excludes every other commit    *)
(* and every read between theirs, whatever fails or dies meanwhile         *)
(* (_exclusive_state, _shared_state).                                      *)
(***************************************************************************)
LockExcludes ==
  /\ \A p \in Committers : pc[p] \in Holding => writer = p
  /\ \A q \in Readers : rpc[q] \in {"scan", "check", "unlock"} => q \in sharers
  /\ writer # Nobody => sharers = {}

(***************************************************************************)
(* No two retained runs carry one sequence number, in any state a power    *)
(* loss may leave, also after commit-sequence.json was rolled back and     *)
(* after commits that died with their number (_next_sequence).             *)
(***************************************************************************)
UniqueSequences == \A d \in journal : UniqueNumbers(d)

(***************************************************************************)
(* Wherever a process dies or the power goes, a run that has evidence.json *)
(* has the whole bundle it names: started.json, exactly its events, and    *)
(* the keys of the project. Otherwise no run could be read or committed    *)
(* again (_commit_completed_run, _verify_run_bundle).                      *)
(***************************************************************************)
BundlesComplete == \A d \in journal : BundlesValid(d)

(***************************************************************************)
(* A run whose commit call returned is there after every power loss        *)
(* (_atomic_bytes syncs the directory after the rename).                   *)
(***************************************************************************)
AckedDurable == \A d \in journal : acked \subseteq Published(d)

(***************************************************************************)
(* read_history fails only on a store that holds no run yet, because the   *)
(* first commit has not reached its lock file, or on one whose             *)
(* commit-sequence.json was rolled back below a retained run.              *)
(***************************************************************************)
RefusalsExplained ==
  [][\A q \in Readers :
       result[q].status # "refused" /\ result'[q].status = "refused" =>
         Retained(disk) = {} \/ ~HighWaterBelow(disk, disk.last)]_vars

(***************************************************************************)
(* Two answers of one reader agree: the later extends the earlier. A row   *)
(* keeps its firstSequence and never stops being `repeated'                *)
(* (_history_row over runs committed meanwhile).                           *)
(***************************************************************************)
HistoryOnlyGrows ==
  [][\A q \in Readers :
       result'[q].status # "none" =>
         Log!HistoryExtends(result[q].docs, result'[q].docs)]_vars

(***************************************************************************)
(* The store implements the log: every run appears at one step, above      *)
(* every number before it, a read answers with the log of that moment, and *)
(* a power loss takes away nothing that was acknowledged.                  *)
(***************************************************************************)
ImplementsLog == Log!Spec

(***************************************************************************)
(* Every lock is given back: a commit or a read that got the record lock   *)
(* releases it, on each of its error paths too (the finally clauses).      *)
(***************************************************************************)
LocksReleased ==
  /\ \A p \in Committers : writer = p ~> writer # p
  /\ \A q \in Readers : q \in sharers ~> q \notin sharers
==============================================================================
