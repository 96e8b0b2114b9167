------------------------ MODULE EvidenceStore_proofs -------------------------
(***************************************************************************)
(* Theorems about EvidenceStore for every number of processes, runs,       *)
(* findings and sequence numbers.                                          *)
(***************************************************************************)
EXTENDS EvidenceStore, FiniteSetTheorems, WellFoundedInduction, TLAPS

\* The steps in which a commit owns a number it has not published yet.
Numbered ==
  {"allocate", "syncSequence", "mkrun", "started", "syncStarted", "mkevents",
   "events", "syncEvent", "evidence"}

\* The number of such a commit is above every number on the disk.
NumberAbove ==
  \A p \in Committers : pc[p] \in Numbered =>
    \A r \in RunIds : disk.runs[r].evidence < seq[p]

InRunPcs ==
  {"started", "syncStarted", "mkevents", "events", "syncEvent", "evidence",
   "syncEvidence", "release"}

NumberPcs == Numbered \cup {"syncEvidence", "release"}

\* A commit has its number and its run before it uses them.
LocalsSet ==
  \A p \in Committers :
    /\ pc[p] \in InRunPcs => run[p] \in RunIds
    /\ pc[p] \in NumberPcs => seq[p] # 0

Typed == TypeOK /\ LocalsSet

NumbersInv == Typed /\ LockExcludes /\ NumberAbove /\ UniqueSequences
------------------------------------------------------------------------------
(***************************************************************************)
(* A changed disk of the right shape keeps the disk and its journal typed. *)
(***************************************************************************)
LEMMA ChangeTyped ==
  ASSUME TypeOK, NEW d \in StateRoot, Change(d)
  PROVE  /\ disk' \in StateRoot
         /\ journal' \in SUBSET StateRoot
         /\ disk' \in journal'
  BY DEF TypeOK, Change

LEMMA FlushTyped ==
  ASSUME TypeOK, Flush
  PROVE  /\ disk' \in StateRoot
         /\ journal' \in SUBSET StateRoot
         /\ disk' \in journal'
  BY DEF TypeOK, Flush

(***************************************************************************)
(* The published runs of a typed disk are log entries.                     *)
(***************************************************************************)
LEMMA PublishedTyped ==
  ASSUME NEW d \in StateRoot
  PROVE  Published(d) \in SUBSET Log!Entry
  BY StoreAssumption DEF Published, Retained, StateRoot, RunRoot, Log!Entry

(***************************************************************************)
(* Replacing the directory of one run by a typed one keeps the disk typed. *)
(***************************************************************************)
LEMMA WithRunTyped ==
  ASSUME disk \in StateRoot, NEW r \in RunIds, NEW x \in RunRoot
  PROVE  /\ WithRun(r, x) \in StateRoot
         /\ WithRun(r, x).runs = [disk.runs EXCEPT ![r] = x]
         /\ WithRun(r, x).last = disk.last
         /\ WithRun(r, x).project = disk.project
  BY DEF WithRun, StateRoot

(***************************************************************************)
(* The directory a commit works in is typed once its run is chosen.        *)
(***************************************************************************)
LEMMA OwnTyped ==
  ASSUME TypeOK, NEW p \in Committers, run[p] \in RunIds
  PROVE  Own(p) \in RunRoot
  BY DEF TypeOK, StateRoot, Own

(***************************************************************************)
(* What PublishEvidence writes into a typed run directory is typed.        *)
(***************************************************************************)
LEMMA EvidenceTyped ==
  ASSUME NEW x \in RunRoot, NEW n \in 0..MaxSeq, NEW fs \in SUBSET Findings,
         NEW k \in Committers \cup {Nobody}
  PROVE  [x EXCEPT !.evidence = n, !.manifest = fs, !.key = k] \in RunRoot
  BY DEF RunRoot

(***************************************************************************)
(* A sync leads to the next step of the same part of the commit.           *)
(***************************************************************************)
LEMMA AfterSyncTyped ==
  ASSUME NEW step \in SyncSteps
  PROVE  /\ AfterSync(step) \in CommitPcs
         /\ AfterSync(step) \in InRunPcs => step \in InRunPcs
         /\ AfterSync(step) \in Numbered => step \in Numbered
         /\ AfterSync(step) \in NumberPcs => step \in NumberPcs
         /\ AfterSync(step) \in Holding
  BY DEF AfterSync, SyncSteps, CommitPcs, LockFree, InRunPcs, NumberPcs,
      Numbered, Holding

(***************************************************************************)
(* Type correctness of the store: the invariant TypeOK.                    *)
(***************************************************************************)
LEMMA InitTyped == Init => Typed
  BY StoreAssumption
  DEF Init, Typed, TypeOK, LocalsSet, InRunPcs, NumberPcs, Numbered, NoState, NoRun, StateRoot, RunRoot, CommitPcs, ReadPcs,
      LockFree, SyncSteps, Log!NoResult, Log!Result, Log!Entry

LEMMA CommitStepTyped ==
  ASSUME Typed, NEW p \in Committers, CommitStep(p)
  PROVE  Typed'
  <1> USE StoreAssumption DEF Typed, TypeOK, LocalsSet, InRunPcs, NumberPcs, Numbered, CommitPcs, LockFree,
          SyncSteps, Goto, LocalSame, OthersSame, lockVars, readVars, diskVars
  <1>1. CASE OpenLock(p)
    <2>1. [disk EXCEPT !.lock = TRUE] \in StateRoot
      BY DEF StateRoot
    <2> QED BY <1>1, <2>1, ChangeTyped DEF OpenLock
  <1>2. CASE Acquire(p)
    BY <1>2 DEF Acquire
  <1>3. CASE FindKeys(p)
    BY <1>3 DEF FindKeys
  <1>4. CASE CreateKeys(p)
    <2>1. [disk EXCEPT !.project = p] \in StateRoot
      BY DEF StateRoot
    <2> QED BY <1>4, <2>1, ChangeTyped DEF CreateKeys
  <1>5. CASE ReadSequence(p)
    <2>1. disk.last + 1 \in 1..MaxSeq
      BY <1>5 DEF ReadSequence, MayAllocate, StateRoot
    <2> QED BY <1>5, <2>1 DEF ReadSequence
  <1>6. CASE RefuseSequence(p)
    BY <1>6 DEF RefuseSequence
  <1>7. CASE PublishSequence(p)
    <2>1. [disk EXCEPT !.last = seq[p]] \in StateRoot
      BY DEF StateRoot
    <2> QED BY <1>7, <2>1, ChangeTyped DEF PublishSequence
  <1>8. CASE MakeRun(p)
    <2> DEFINE made(r) == [disk.runs[r] EXCEPT !.made = TRUE]
    <2>1. PICK r \in RunIds :
            /\ Change([WithRun(r, made(r)) EXCEPT !.runsdir = TRUE])
            /\ run' = [run EXCEPT ![p] = r]
      BY <1>8 DEF MakeRun
    <2>2. made(r) \in RunRoot
      <3>1. disk.runs[r] \in RunRoot
        BY DEF StateRoot
      <3> QED BY <3>1 DEF RunRoot
    <2>3. WithRun(r, made(r)) \in StateRoot
      BY <2>2, WithRunTyped
    <2> HIDE DEF made
    <2>4. [WithRun(r, made(r)) EXCEPT !.runsdir = TRUE] \in StateRoot
      BY <2>3 DEF StateRoot
    <2> QED BY <1>8, <2>1, <2>4, ChangeTyped DEF MakeRun
  <1>9. CASE RunExists(p)
    BY <1>9 DEF RunExists
  <1>10. CASE PublishStarted(p)
    <2> DEFINE x == [Own(p) EXCEPT !.started = TRUE]
    <2>1. run[p] \in RunIds
      BY <1>10 DEF PublishStarted
    <2>2. x \in RunRoot
      BY <2>1, OwnTyped DEF RunRoot
    <2>3. WithRun(run[p], x) \in StateRoot
      BY <2>1, <2>2, WithRunTyped
    <2> QED BY <1>10, <2>3, ChangeTyped DEF PublishStarted
  <1>11. CASE MakeEvents(p)
    <2> DEFINE x == [Own(p) EXCEPT !.evdir = TRUE]
    <2>1. run[p] \in RunIds
      BY <1>11 DEF MakeEvents
    <2>2. x \in RunRoot
      BY <2>1, OwnTyped DEF RunRoot
    <2>3. WithRun(run[p], x) \in StateRoot
      BY <2>1, <2>2, WithRunTyped
    <2> QED BY <1>11, <2>3, ChangeTyped DEF MakeEvents
  <1>12. CASE PublishEvent(p)
    <2> DEFINE x(f) == [Own(p) EXCEPT !.events = [@ EXCEPT ![f] = seq[p]]]
    <2>1. PICK f \in Findings : Change(WithRun(run[p], x(f)))
      BY <1>12 DEF PublishEvent, Unwritten
    <2>2. run[p] \in RunIds
      BY <1>12 DEF PublishEvent
    <2>3. x(f) \in RunRoot
      BY <2>2, OwnTyped DEF RunRoot
    <2>4. WithRun(run[p], x(f)) \in StateRoot
      BY <2>2, <2>3, WithRunTyped
    <2> QED BY <1>12, <2>1, <2>4, ChangeTyped DEF PublishEvent
  <1>13. CASE EventsDone(p)
    BY <1>13, FlushTyped DEF EventsDone
  <1>14. CASE PublishEvidence(p)
    <2> DEFINE x == [Own(p) EXCEPT !.evidence = seq[p],
                                   !.manifest = found[p],
                                   !.key = disk.project]
    <2>1. run[p] \in RunIds
      BY <1>14 DEF PublishEvidence
    <2>2. x \in RunRoot
      <3>1. disk.project \in Committers \cup {Nobody}
        BY DEF StateRoot
      <3> QED BY <2>1, <3>1, OwnTyped, EvidenceTyped
    <2>3. WithRun(run[p], x) \in StateRoot
      BY <2>1, <2>2, WithRunTyped
    <2> QED BY <1>14, <2>3, ChangeTyped DEF PublishEvidence
  <1>15. CASE Sync(p)
    <2> DEFINE step == AfterSync(pc[p])
    <2>1. pc' = [pc EXCEPT ![p] = step] /\ pc[p] \in SyncSteps /\ Flush
      BY <1>15 DEF Sync
    <2>2. /\ step \in CommitPcs
          /\ step \in InRunPcs => pc[p] \in InRunPcs
          /\ step \in NumberPcs => pc[p] \in NumberPcs
      BY <2>1, AfterSyncTyped
    <2> HIDE DEF step
    <2>3. pc' \in [Committers -> CommitPcs]
      BY <2>1, <2>2
    <2>4. LocalsSet'
      BY <1>15, <2>1, <2>2 DEF Sync
    <2>5. /\ disk' \in StateRoot
          /\ journal' \in SUBSET StateRoot
          /\ disk' \in journal'
      BY <2>1, FlushTyped
    <2>6. UNCHANGED <<run, found, seq, writer, sharers, rpc, got, result, acked>>
      BY <1>15 DEF Sync
    <2> QED BY <2>3, <2>4, <2>5, <2>6
  <1>16. CASE Unlock(p)
    BY <1>16 DEF Unlock, Forget, Log!Entry
  <1> QED
    BY <1>1, <1>2, <1>3, <1>4, <1>5, <1>6, <1>7, <1>8, <1>9, <1>10, <1>11,
       <1>12, <1>13, <1>14, <1>15, <1>16, CommitStep(p) DEF CommitStep

LEMMA ReadStepTyped ==
  ASSUME Typed, NEW q \in Readers, ReadNoState(q) \/ BeginRead(q) \/ ReadStep(q)
  PROVE  Typed'
  <1> USE DEF Typed, TypeOK, LocalsSet, RGoto, CommitSame, commitVars, lockVars,
          diskVars, ReadPcs
  <1>1. \A docs \in SUBSET Log!Entry : Answer(q, docs) => result' \in [Readers -> Log!Result]
    BY DEF Log!Result, Answer
  <1>2. Reject(q) => result' \in [Readers -> Log!Result]
    BY DEF Log!Result, Reject
  <1>3. CASE ReadNoState(q)
    BY <1>1, <1>3 DEF ReadNoState
  <1>4. CASE BeginRead(q)
    BY <1>4 DEF BeginRead
  <1>5. CASE OpenShared(q)
    BY <1>5 DEF OpenShared
  <1>6. CASE NoLockFile(q)
    BY <1>2, <1>6 DEF NoLockFile
  <1>7. CASE AcquireShared(q)
    BY <1>7 DEF AcquireShared
  <1>8. CASE ReadNoRuns(q)
    <2>1. result' \in [Readers -> Log!Result]
      BY <1>1, <1>8 DEF ReadNoRuns
    <2> QED BY <1>8, <2>1 DEF ReadNoRuns
  <1>9. CASE Scan(q)
    <2>1. CASE disk.project # Nobody /\ BundlesValid(disk)
      BY <1>9, <2>1, PublishedTyped DEF Scan
    <2>2. CASE ~(disk.project # Nobody /\ BundlesValid(disk))
      BY <1>2, <1>9, <2>2 DEF Scan
    <2> QED BY <2>1, <2>2
  <1>10. CASE CheckSequence(q)
    <2>1. result' \in [Readers -> Log!Result]
      BY <1>1, <1>2, <1>10 DEF CheckSequence
    <2>2. got' \in [Readers -> SUBSET Log!Entry]
      BY <1>10 DEF CheckSequence
    <2> QED BY <1>10, <2>1, <2>2 DEF CheckSequence
  <1>11. CASE UnlockShared(q)
    BY <1>11 DEF UnlockShared
  <1> QED
    BY <1>3, <1>4, <1>5, <1>6, <1>7, <1>8, <1>9, <1>10, <1>11 DEF ReadStep

LEMMA EnvironmentTyped ==
  ASSUME Typed,
         \/ \E p \in Committers : MakeStateRoot(p) \/ Fail(p) \/ Crash(p)
         \/ \E q \in Readers : CrashReader(q)
         \/ PowerLoss
         \/ RestoreSequence
  PROVE  Typed'
  <1> USE StoreAssumption DEF Typed, TypeOK, LocalsSet, InRunPcs, NumberPcs, Numbered,
          CommitPcs, LockFree, SyncSteps, Forget, LocalSame, OthersSame,
          commitVars, lockVars, readVars, diskVars
  <1>1. ASSUME NEW p \in Committers, MakeStateRoot(p)
        PROVE  Typed'
    <2>1. [disk EXCEPT !.root = TRUE] \in StateRoot
      BY DEF StateRoot
    <2> QED BY <1>1, <2>1, ChangeTyped DEF MakeStateRoot, Goto
  <1>2. ASSUME NEW p \in Committers, Fail(p)
        PROVE  Typed'
    BY <1>2 DEF Fail
  <1>3. ASSUME NEW p \in Committers, Crash(p)
        PROVE  Typed'
    BY <1>3 DEF Crash
  <1>4. ASSUME NEW q \in Readers, CrashReader(q)
        PROVE  Typed'
    BY <1>4 DEF CrashReader, CommitSame, ReadPcs
  <1>5. CASE PowerLoss
    BY <1>5 DEF PowerLoss, ReadPcs, Log!NoResult, Log!Result
  <1>6. CASE RestoreSequence
    <2>1. PICK s \in 0..(disk.last - 1) : Change([disk EXCEPT !.last = s])
      BY <1>6 DEF RestoreSequence
    <2>2. [disk EXCEPT !.last = s] \in StateRoot
      BY DEF StateRoot
    <2> QED BY <1>6, <2>1, <2>2, ChangeTyped DEF RestoreSequence
  <1> QED
    BY <1>1, <1>2, <1>3, <1>4, <1>5, <1>6

LEMMA NextTyped == Typed /\ [Next]_vars => Typed'
  <1>1. CASE UNCHANGED vars
    BY <1>1 DEF vars, diskVars, lockVars, commitVars, readVars, Typed, TypeOK, LocalsSet
  <1> QED
    BY <1>1, CommitStepTyped, ReadStepTyped, EnvironmentTyped DEF Next

THEOREM TypeCorrect == Spec => []TypeOK
  <1>1. Typed => TypeOK
    BY DEF Typed
  <1> QED BY <1>1, InitTyped, NextTyped, PTL DEF Spec
------------------------------------------------------------------------------
(***************************************************************************)
(* The record lock. Only Acquire and Unlock of a commit touch it, and no   *)
(* other step enters the part of a commit that holds it.                   *)
(***************************************************************************)
LEMMA UnlockedSteps ==
  ASSUME Typed, NEW p \in Committers,
         CommitStep(p) \/ MakeStateRoot(p) \/ Fail(p), ~Acquire(p), ~Unlock(p)
  PROVE  /\ UNCHANGED <<writer, sharers, rpc>>
         /\ \E step \in CommitPcs :
              /\ pc' = [pc EXCEPT ![p] = step]
              /\ step \in Holding => pc[p] \in Holding
  <1> USE DEF Goto, OthersSame, lockVars, readVars, Holding, CommitPcs, LockFree, SyncSteps
  <1>1. CASE Sync(p)
    BY <1>1, AfterSyncTyped DEF Sync
  <1>2. CASE Fail(p)
    <2>1. pc[p] \in CommitPcs
      BY DEF Typed, TypeOK
    <2> QED BY <1>2, <2>1 DEF Fail
  <1> QED
    BY <1>1, <1>2
    DEF CommitStep, MakeStateRoot, OpenLock, FindKeys, CreateKeys, ReadSequence,
        RefuseSequence, PublishSequence, MakeRun, RunExists, PublishStarted,
        MakeEvents, PublishEvent, EventsDone, PublishEvidence

LEMMA LockNext ==
  ASSUME Typed, LockExcludes, [Next]_vars
  PROVE  LockExcludes'
  <1> USE StoreAssumption DEF LockExcludes, Typed, TypeOK
  <1>1. ASSUME NEW p \in Committers,
               CommitStep(p) \/ MakeStateRoot(p) \/ Fail(p), ~Acquire(p), ~Unlock(p)
        PROVE  LockExcludes'
    BY <1>1, UnlockedSteps
  <1>2. ASSUME NEW p \in Committers, Acquire(p)
        PROVE  LockExcludes'
    BY <1>2 DEF Acquire, Goto, readVars
  <1>3. ASSUME NEW p \in Committers, Unlock(p)
        PROVE  LockExcludes'
    BY <1>3 DEF Unlock, readVars, Holding, LockFree, CommitPcs
  <1>4. ASSUME NEW p \in Committers, Crash(p)
        PROVE  LockExcludes'
    BY <1>4 DEF Crash, readVars, Holding
  <1>5. ASSUME NEW q \in Readers, ReadNoState(q) \/ BeginRead(q) \/ ReadStep(q)
        PROVE  LockExcludes'
    BY <1>5 DEF ReadStep, ReadNoState, BeginRead, OpenShared, NoLockFile, AcquireShared,
                ReadNoRuns, Scan, CheckSequence, UnlockShared, RGoto,
                CommitSame, commitVars, lockVars
  <1>6. ASSUME NEW q \in Readers, CrashReader(q)
        PROVE  LockExcludes'
    BY <1>6 DEF CrashReader, CommitSame, commitVars
  <1>7. CASE PowerLoss
    BY <1>7 DEF PowerLoss, Holding
  <1>8. CASE RestoreSequence
    BY <1>8 DEF RestoreSequence, commitVars, OthersSame, lockVars, readVars
  <1>9. CASE UNCHANGED vars
    BY <1>9 DEF vars, commitVars, lockVars, readVars
  <1> QED
    BY <1>1, <1>2, <1>3, <1>4, <1>5, <1>6, <1>7, <1>8, <1>9 DEF Next

(***************************************************************************)
(* Mutual exclusion of the store: LockExcludes, however commits and reads  *)
(* interleave, fail and die (_exclusive_state, _shared_state).             *)
(***************************************************************************)
THEOREM LockExclusion == Spec => []LockExcludes
  <1>1. Init => LockExcludes
    BY DEF Init, LockExcludes, Holding
  <1> QED BY <1>1, InitTyped, NextTyped, LockNext, PTL DEF Spec
------------------------------------------------------------------------------
(***************************************************************************)
(* The sequence numbers. Only PublishEvidence changes the number of a run. *)
(***************************************************************************)
SameNumbers(d) == \A r \in RunIds : d.runs[r].evidence = disk.runs[r].evidence

LEMMA SameNumbersUnique ==
  ASSUME NEW d, SameNumbers(d), UniqueNumbers(disk)
  PROVE  UniqueNumbers(d)
  BY DEF SameNumbers, UniqueNumbers, Retained

\* A run directory that is replaced keeping its number.
LEMMA WithRunSameNumbers ==
  ASSUME disk \in StateRoot, NEW r \in RunIds, NEW x \in RunRoot,
         x.evidence = disk.runs[r].evidence
  PROVE  SameNumbers(WithRun(r, x))
  <1>1. WithRun(r, x).runs = [disk.runs EXCEPT ![r] = x]
    BY WithRunTyped
  <1>2. DOMAIN disk.runs = RunIds
    BY DEF StateRoot
  <1>3. \A s \in RunIds : WithRun(r, x).runs[s].evidence = disk.runs[s].evidence
    BY <1>1, <1>2
  <1> QED BY <1>3 DEF SameNumbers

LEMMA OtherSteps ==
  ASSUME Typed, NEW p \in Committers,
         CommitStep(p) \/ MakeStateRoot(p) \/ Fail(p), ~PublishEvidence(p)
  PROVE  SameNumbers(disk') /\ journal' \subseteq journal \cup {disk'}
  <1>1. disk \in StateRoot /\ disk \in journal
    BY DEF Typed, TypeOK
  <1>2. disk' = disk => SameNumbers(disk')
    BY DEF SameNumbers
  <1>3. \A r \in RunIds : disk.runs[r] \in RunRoot
    BY <1>1 DEF StateRoot
  <1>4. pc[p] \in InRunPcs => run[p] \in RunIds
    BY DEF Typed, LocalsSet
  <1>5. CASE MakeStateRoot(p) \/ OpenLock(p) \/ CreateKeys(p) \/ PublishSequence(p)
    BY <1>1, <1>5 DEF MakeStateRoot, OpenLock, CreateKeys, PublishSequence, Change,
                      SameNumbers, StateRoot
  <1>6. CASE MakeRun(p)
    <2>1. PICK r \in RunIds :
            Change([WithRun(r, [disk.runs[r] EXCEPT !.made = TRUE]) EXCEPT !.runsdir = TRUE])
      BY <1>6 DEF MakeRun
    <2> DEFINE x == [disk.runs[r] EXCEPT !.made = TRUE]
    <2>2. x \in RunRoot /\ x.evidence = disk.runs[r].evidence
      BY <1>3 DEF RunRoot
    <2>3. SameNumbers(WithRun(r, x)) /\ WithRun(r, x) \in StateRoot
      BY <1>1, <2>2, WithRunSameNumbers, WithRunTyped
    <2> HIDE DEF x
    <2> QED BY <2>1, <2>3 DEF Change, SameNumbers, StateRoot, x
  <1>7. CASE PublishStarted(p)
    <2> DEFINE x == [Own(p) EXCEPT !.started = TRUE]
    <2>1. run[p] \in RunIds
      BY <1>4, <1>7 DEF PublishStarted, Goto, InRunPcs
    <2>2. x \in RunRoot /\ x.evidence = disk.runs[run[p]].evidence
      BY <1>3, <2>1 DEF RunRoot, Own
    <2> QED BY <1>1, <1>7, <2>1, <2>2, WithRunSameNumbers DEF PublishStarted, Change
  <1>8. CASE MakeEvents(p)
    <2> DEFINE x == [Own(p) EXCEPT !.evdir = TRUE]
    <2>1. run[p] \in RunIds
      BY <1>4, <1>8 DEF MakeEvents, Goto, InRunPcs
    <2>2. x \in RunRoot /\ x.evidence = disk.runs[run[p]].evidence
      BY <1>3, <2>1 DEF RunRoot, Own
    <2> QED BY <1>1, <1>8, <2>1, <2>2, WithRunSameNumbers DEF MakeEvents, Change
  <1>9. CASE PublishEvent(p)
    <2> DEFINE x(f) == [Own(p) EXCEPT !.events = [@ EXCEPT ![f] = seq[p]]]
    <2>1. run[p] \in RunIds
      BY <1>4, <1>9 DEF PublishEvent, Goto, InRunPcs
    <2>2. PICK f \in Findings : Change(WithRun(run[p], x(f)))
      BY <1>9 DEF PublishEvent, Unwritten, Typed, TypeOK
    <2>3. x(f) \in RunRoot /\ x(f).evidence = disk.runs[run[p]].evidence
      BY <1>3, <2>1 DEF RunRoot, Own, Typed, TypeOK
    <2> QED BY <1>1, <2>1, <2>2, <2>3, WithRunSameNumbers DEF Change
  <1> QED
    BY <1>1, <1>2, <1>5, <1>6, <1>7, <1>8, <1>9
    DEF CommitStep, Fail, Acquire, FindKeys, ReadSequence, RefuseSequence,
        RunExists, EventsDone, Sync, Unlock, Flush, diskVars

(***************************************************************************)
(* A commit that owns a number keeps it above every number on the disk.    *)
(***************************************************************************)
LEMMA NumberAboveNext ==
  ASSUME Typed, LockExcludes, NumberAbove, NEW p \in Committers,
         CommitStep(p) \/ MakeStateRoot(p) \/ Fail(p), ~PublishEvidence(p)
  PROVE  NumberAbove'
  <1>1. SameNumbers(disk')
    BY OtherSteps
  <1>2. ASSUME NEW o \in Committers, o # p
        PROVE  pc'[o] = pc[o] /\ seq'[o] = seq[o]
    BY <1>2 DEF Typed, TypeOK, CommitStep, MakeStateRoot, Fail, OpenLock, Acquire, FindKeys,
       CreateKeys, ReadSequence, RefuseSequence, PublishSequence, MakeRun,
       RunExists, PublishStarted, MakeEvents, PublishEvent, EventsDone,
       PublishEvidence, Sync, Unlock, Goto, Forget, LocalSame
  <1>3. CASE ReadSequence(p)
    <2>1. seq'[p] = disk.last + 1 /\ disk.last \in Nat
      BY <1>3, StoreAssumption DEF ReadSequence, Typed, TypeOK, StateRoot
    <2>2. \A r \in RunIds : disk.runs[r].evidence \in Nat /\ disk.runs[r].evidence <= disk.last
      BY <1>3, StoreAssumption
      DEF ReadSequence, MayAllocate, HighWaterBelow, Retained, Typed, TypeOK, StateRoot, RunRoot
    <2> QED BY <1>1, <1>2, <2>1, <2>2 DEF NumberAbove, SameNumbers
  <1>4. CASE ~ReadSequence(p)
    <2>1. pc'[p] \in Numbered => pc[p] \in Numbered /\ seq'[p] = seq[p]
      <3>1. CASE Sync(p)
        BY <3>1, AfterSyncTyped DEF Sync, LocalSame, Typed, TypeOK
      <3> QED
        BY <1>4, <3>1
        DEF Typed, TypeOK, CommitStep, MakeStateRoot, Fail, OpenLock, Acquire, FindKeys,
            CreateKeys, RefuseSequence, PublishSequence, MakeRun,
            RunExists, PublishStarted, MakeEvents, PublishEvent, EventsDone,
            PublishEvidence, Unlock, Goto, LocalSame, Numbered, LockFree
    <2> QED BY <1>1, <1>2, <2>1 DEF NumberAbove, SameNumbers
  <1> QED BY <1>3, <1>4

LEMMA PublishUnique ==
  ASSUME NumbersInv, NEW p \in Committers, PublishEvidence(p)
  PROVE  NumberAbove' /\ UniqueSequences'
  <1> DEFINE x == [Own(p) EXCEPT !.evidence = seq[p],
                                 !.manifest = found[p],
                                 !.key = disk.project]
  <1>1. pc[p] = "evidence" /\ pc' = [pc EXCEPT ![p] = "syncEvidence"]
        /\ disk' = WithRun(run[p], x) /\ journal' = journal \cup {disk'}
    BY DEF PublishEvidence, Goto, Change
  <1>2. run[p] \in RunIds /\ disk \in StateRoot /\ disk \in journal
    BY <1>1 DEF NumbersInv, Typed, TypeOK, LocalsSet, InRunPcs
  <1>3. x \in RunRoot /\ x.evidence = seq[p]
    <2>1. Own(p) \in RunRoot
      BY <1>2, OwnTyped DEF NumbersInv, Typed
    <2>2. disk.project \in Committers \cup {Nobody}
      BY <1>2 DEF StateRoot
    <2>3. seq[p] \in 0..MaxSeq /\ found[p] \in SUBSET Findings
      BY DEF NumbersInv, Typed, TypeOK
    <2>4. x \in RunRoot
      BY <2>1, <2>2, <2>3, EvidenceTyped
    <2> QED BY <2>1, <2>4 DEF RunRoot
  <1>4. disk'.runs = [disk.runs EXCEPT ![run[p]] = x]
    BY <1>1, <1>2, <1>3, WithRunTyped
  <1> HIDE DEF x
  <1>5. \A r \in RunIds : disk.runs[r].evidence < seq[p]
    BY <1>1 DEF NumbersInv, NumberAbove, Numbered
  <1>6. \A r \in RunIds :
          disk'.runs[r].evidence = IF r = run[p] THEN seq[p] ELSE disk.runs[r].evidence
    BY <1>2, <1>3, <1>4 DEF StateRoot
  <1>7. UniqueNumbers(disk')
    <2>1. UniqueNumbers(disk)
      BY <1>2 DEF NumbersInv, UniqueSequences
    <2>2. \A r \in RunIds : disk.runs[r].evidence \in Nat
      BY <1>2, StoreAssumption DEF StateRoot, RunRoot
    <2>3. seq[p] \in Nat
      BY StoreAssumption DEF NumbersInv, Typed, TypeOK
    <2> QED BY <1>5, <1>6, <2>1, <2>2, <2>3 DEF UniqueNumbers, Retained
  <1>8. \A o \in Committers : pc'[o] \notin Numbered
    <2>1. writer = p
      BY <1>1 DEF NumbersInv, LockExcludes, Holding, CommitPcs, LockFree
    <2>2. \A o \in Committers : o # p => pc[o] \notin Holding
      BY <2>1 DEF NumbersInv, LockExcludes
    <2>3. Numbered \subseteq Holding
      BY DEF Numbered, Holding, CommitPcs, SyncSteps, LockFree
    <2> QED BY <1>1, <2>2, <2>3 DEF NumbersInv, Typed, TypeOK, Numbered
  <1> QED BY <1>1, <1>7, <1>8 DEF NumberAbove, UniqueSequences, NumbersInv

LEMMA NumbersNext == NumbersInv /\ [Next]_vars => NumbersInv'
  <1> SUFFICES ASSUME NumbersInv, [Next]_vars
               PROVE  NumberAbove' /\ UniqueSequences'
    BY NextTyped, LockNext DEF NumbersInv
  <1> USE DEF NumbersInv
  <1>1. ASSUME NEW p \in Committers,
               CommitStep(p) \/ MakeStateRoot(p) \/ Fail(p), ~PublishEvidence(p)
        PROVE  NumberAbove' /\ UniqueSequences'
    <2>1. UniqueNumbers(disk') /\ journal' \subseteq journal \cup {disk'}
      BY <1>1, OtherSteps, SameNumbersUnique DEF UniqueSequences, Typed, TypeOK
    <2> QED BY <1>1, <2>1, NumberAboveNext DEF UniqueSequences
  <1>2. ASSUME NEW p \in Committers, PublishEvidence(p)
        PROVE  NumberAbove' /\ UniqueSequences'
    BY <1>2, PublishUnique
  <1>3. ASSUME NEW p \in Committers, Crash(p)
        PROVE  NumberAbove' /\ UniqueSequences'
    BY <1>3 DEF Crash, Forget, diskVars, NumberAbove, UniqueSequences, Numbered, Typed, TypeOK
  <1>4. ASSUME NEW q \in Readers,
               ReadNoState(q) \/ BeginRead(q) \/ ReadStep(q) \/ CrashReader(q)
        PROVE  NumberAbove' /\ UniqueSequences'
    <2>1. UNCHANGED <<diskVars, commitVars>>
      BY <1>4 DEF ReadStep, ReadNoState, BeginRead, OpenShared, NoLockFile, AcquireShared,
                  ReadNoRuns, Scan, CheckSequence, UnlockShared, CrashReader,
                  CommitSame
    <2> QED BY <2>1 DEF diskVars, commitVars, NumberAbove, UniqueSequences
  <1>5. CASE PowerLoss
    BY <1>5 DEF PowerLoss, NumberAbove, UniqueSequences, Numbered
  <1>6. CASE RestoreSequence
    <2>1. SameNumbers(disk') /\ journal' = journal \cup {disk'}
      BY <1>6 DEF RestoreSequence, Change, SameNumbers, Typed, TypeOK, StateRoot
    <2>2. UniqueNumbers(disk')
      BY <2>1, SameNumbersUnique DEF UniqueSequences, Typed, TypeOK
    <2> QED BY <1>6, <2>1, <2>2
            DEF RestoreSequence, commitVars, SameNumbers, NumberAbove, UniqueSequences
  <1>7. CASE UNCHANGED vars
    BY <1>7 DEF vars, diskVars, commitVars, NumberAbove, UniqueSequences
  <1> QED
    BY <1>1, <1>2, <1>3, <1>4, <1>5, <1>6, <1>7 DEF Next

(***************************************************************************)
(* One sequence number names at most one retained run, in every state a    *)
(* power loss may leave, for any number of commits (_next_sequence).       *)
(***************************************************************************)
THEOREM SequencesUnique == Spec => []UniqueSequences
  <1>1. Init => NumbersInv
    BY InitTyped
    DEF Init, NumbersInv, LockExcludes, NumberAbove, UniqueSequences, UniqueNumbers,
        Retained, NoState, NoRun, Holding, Numbered
  <1>2. NumbersInv => UniqueSequences
    BY DEF NumbersInv
  <1> QED BY <1>1, <1>2, NumbersNext, PTL DEF Spec
------------------------------------------------------------------------------
(***************************************************************************)
(* What the disk looks like while commits, crashes and power losses go on. *)
(***************************************************************************)
\* A run directory that does not exist is empty, and runs are published only
\* in a store that has its lock, its keys and its runs directory.
DiskSound(d) ==
  /\ \A r \in RunIds : ~d.runs[r].made =>
       d.runs[r].evidence = 0 /\ \A f \in Findings : d.runs[r].events[f] = 0
  /\ Retained(d) # {} => d.root /\ d.lock /\ d.runsdir /\ d.project # Nobody

\* What a power loss takes away is younger than what it leaves.
Older(d) ==
  /\ Published(d) \subseteq Published(disk)
  /\ \A e \in Published(d), x \in Published(disk) \ Published(d) : e.seq < x.seq

StoreInv == \A d \in journal : DiskSound(d) /\ BundlesValid(d) /\ Older(d)

Keyed == Holding \ {"keys", "abort"}

\* A commit finds what it has made on its way.
PathsMade(p) ==
  /\ pc[p] # "idle" => disk.root
  /\ pc[p] \notin {"idle", "open"} => disk.lock
  /\ pc[p] \in Keyed => disk.project # Nobody
  /\ pc[p] \in InRunPcs => disk.runsdir

Unpublished == InRunPcs \ {"syncEvidence", "release"}

\* The events in its directory are findings of this commit.
EventsOf(p) ==
  \A f \in Findings : Own(p).events[f] # 0 => f \in found[p] /\ Own(p).events[f] = seq[p]

EntryOf(p) == [run |-> run[p], seq |-> seq[p], findings |-> found[p]]

\* The bundle of a commit grows with its steps, and what it has published
\* is durable before its call returns.
RunGrows(p) ==
  /\ pc[p] \in Unpublished => Own(p).made /\ Own(p).evidence = 0
  /\ pc[p] \in Unpublished \ {"started"} => Own(p).started
  /\ pc[p] \in {"started", "syncStarted", "mkevents"} =>
       \A f \in Findings : Own(p).events[f] = 0
  /\ pc[p] \in {"events", "syncEvent", "evidence"} => Own(p).evdir /\ EventsOf(p)
  /\ pc[p] = "evidence" => \A f \in found[p] : Own(p).events[f] = seq[p]
  /\ pc[p] = "syncEvidence" => EntryOf(p) \in Published(disk)
  /\ pc[p] = "release" => \A d \in journal : EntryOf(p) \in Published(d)

CommitsInv == \A p \in Committers : PathsMade(p) /\ RunGrows(p)

BundlesInv == NumbersInv /\ StoreInv /\ CommitsInv /\ AckedDurable
------------------------------------------------------------------------------
(***************************************************************************)
(* Steps that leave the run directories alone.                             *)
(***************************************************************************)
PathsKept(d) ==
  /\ disk.root => d.root
  /\ disk.lock => d.lock
  /\ disk.runsdir => d.runsdir
  /\ disk.project # Nobody => d.project = disk.project

LEMMA RunsKept ==
  ASSUME NEW d, d.runs = disk.runs, PathsKept(d), DiskSound(disk), BundlesValid(disk)
  PROVE  DiskSound(d) /\ BundlesValid(d) /\ Published(d) = Published(disk)
  <1>1. Retained(d) = Retained(disk)
    BY DEF Retained
  <1>2. Published(d) = Published(disk)
    BY <1>1 DEF Published
  <1>3. DiskSound(d)
    BY <1>1 DEF DiskSound, PathsKept
  <1>4. BundlesValid(d)
    BY <1>1 DEF DiskSound, PathsKept, BundlesValid, BundleValid
  <1> QED BY <1>2, <1>3, <1>4

RunStep(p) ==
  MakeRun(p) \/ PublishStarted(p) \/ MakeEvents(p) \/ PublishEvent(p) \/ PublishEvidence(p)

LEMMA QuietSteps ==
  ASSUME Typed, NEW p \in Committers,
         CommitStep(p) \/ MakeStateRoot(p) \/ Fail(p), ~RunStep(p)
  PROVE  disk'.runs = disk.runs /\ PathsKept(disk') /\ journal' \subseteq journal \cup {disk'}
  <1>1. disk \in StateRoot /\ disk \in journal
    BY DEF Typed, TypeOK
  <1>2. CASE MakeStateRoot(p) \/ OpenLock(p) \/ CreateKeys(p) \/ PublishSequence(p)
    BY <1>1, <1>2 DEF MakeStateRoot, OpenLock, CreateKeys, PublishSequence, Change,
                      PathsKept, StateRoot
  <1> QED
    BY <1>1, <1>2
    DEF CommitStep, RunStep, Fail, Acquire, FindKeys, ReadSequence, RefuseSequence,
        RunExists, EventsDone, Sync, Unlock, Flush, diskVars, PathsKept

LEMMA RestoreKeeps ==
  ASSUME Typed, RestoreSequence
  PROVE  disk'.runs = disk.runs /\ PathsKept(disk') /\ journal' \subseteq journal \cup {disk'}
  BY DEF RestoreSequence, Change, PathsKept, Typed, TypeOK, StateRoot

(***************************************************************************)
(* While a commit holds the lock the steps of others leave it, the runs    *)
(* and the keys alone.                                                     *)
(***************************************************************************)
LEMMA OthersKeep ==
  ASSUME Typed, LockExcludes, NEW p \in Committers, NEW o \in Committers, o # p,
         pc[p] \in Holding,
         CommitStep(o) \/ MakeStateRoot(o) \/ Fail(o)
  PROVE  /\ pc'[p] = pc[p] /\ run'[p] = run[p] /\ found'[p] = found[p] /\ seq'[p] = seq[p]
         /\ disk'.runs = disk.runs /\ PathsKept(disk')
         /\ journal' \subseteq journal \cup {disk'}
         /\ UNCHANGED acked
  <1>1. writer = p /\ writer # Nobody /\ pc[o] \notin Holding
    BY StoreAssumption DEF LockExcludes
  <1>2. pc[o] \in {"idle", "open", "acquire"}
    BY <1>1 DEF Holding, LockFree, Typed, TypeOK
  <1>3. MakeStateRoot(o) \/ OpenLock(o) \/ Fail(o)
    BY <1>1, <1>2 DEF CommitStep, Acquire, FindKeys, CreateKeys, ReadSequence,
         RefuseSequence, PublishSequence, MakeRun, RunExists, PublishStarted, MakeEvents,
         PublishEvent, EventsDone, PublishEvidence, Sync, Unlock, Goto, SyncSteps
  <1>4. /\ pc'[p] = pc[p] /\ run'[p] = run[p] /\ found'[p] = found[p] /\ seq'[p] = seq[p]
        /\ UNCHANGED acked
    BY <1>3 DEF MakeStateRoot, OpenLock, Fail, Goto, Forget, LocalSame, OthersSame, Typed, TypeOK
  <1>5. ~RunStep(o)
    BY <1>2 DEF RunStep, MakeRun, PublishStarted, MakeEvents, PublishEvent, PublishEvidence, Goto
  <1> QED BY <1>3, <1>4, <1>5, QuietSteps

------------------------------------------------------------------------------
(***************************************************************************)
(* The published runs under steps that publish nothing.                    *)
(***************************************************************************)
LEMMA StoreSame ==
  ASSUME StoreInv, disk \in journal, DiskSound(disk'), BundlesValid(disk'),
         Published(disk') = Published(disk), journal' \subseteq journal \cup {disk'}
  PROVE  StoreInv'
  <1>1. \A d \in journal : DiskSound(d) /\ BundlesValid(d) /\ Older(d)
    BY DEF StoreInv
  <1>2. \A d \in journal' : DiskSound(d) /\ BundlesValid(d) /\ (d \in journal \/ d = disk')
    BY <1>1
  <1>3. ASSUME NEW d \in journal'
        PROVE  Older(d)'
    BY <1>1, <1>2 DEF Older
  <1> QED BY <1>2, <1>3 DEF StoreInv

LEMMA AckedSame ==
  ASSUME AckedDurable, disk \in journal, Published(disk) \subseteq Published(disk'),
         journal' \subseteq journal \cup {disk'}, UNCHANGED acked
  PROVE  AckedDurable'
  BY DEF AckedDurable

\* The directory of run r is replaced by x.
Written(r, x) ==
  /\ disk'.runs[r] = x
  /\ \A s \in RunIds \ {r} : disk'.runs[s] = disk.runs[s]
  /\ PathsKept(disk')
  /\ disk'.project = disk.project
  /\ journal' = journal \cup {disk'}

LEMMA WithRunWritten ==
  ASSUME Typed, NEW r \in RunIds, NEW x \in RunRoot, Change(WithRun(r, x))
  PROVE  Written(r, x)
  <1>1. disk \in StateRoot /\ DOMAIN disk.runs = RunIds
    BY DEF Typed, TypeOK, StateRoot
  <1>2. disk' = WithRun(r, x) /\ journal' = journal \cup {disk'}
    BY DEF Change
  <1>3. disk'.runs = [disk.runs EXCEPT ![r] = x] /\ disk'.project = disk.project
    BY <1>1, <1>2, WithRunTyped
  <1>4. disk'.root = disk.root /\ disk'.lock = disk.lock /\ disk'.runsdir = disk.runsdir
    BY <1>1, <1>2 DEF WithRun, StateRoot
  <1> QED BY <1>1, <1>2, <1>3, <1>4 DEF Written, PathsKept

LEMMA UnpublishedWritten ==
  ASSUME NEW r \in RunIds, NEW x, Written(r, x), DiskSound(disk), BundlesValid(disk),
         disk.runs[r].evidence = 0, x.evidence = 0, x.made
  PROVE  DiskSound(disk') /\ BundlesValid(disk') /\ Published(disk') = Published(disk)
  <1>1. /\ Retained(disk') = Retained(disk)
        /\ \A s \in Retained(disk) : s # r /\ disk'.runs[s] = disk.runs[s]
    BY DEF Written, Retained
  <1>2. Published(disk') = Published(disk)
    BY <1>1 DEF Published
  <1>3. DiskSound(disk')
    BY <1>1 DEF DiskSound, Written, PathsKept
  <1>4. BundlesValid(disk')
    BY <1>1 DEF BundlesValid, BundleValid, Written
  <1> QED BY <1>2, <1>3, <1>4

(***************************************************************************)
(* The commits that a step of another commit finds on their way.           *)
(***************************************************************************)
LEMMA OthersGoOn ==
  ASSUME BundlesInv, NEW p \in Committers, NEW o \in Committers, o # p,
         CommitStep(o) \/ MakeStateRoot(o) \/ Fail(o) \/ Crash(o)
  PROVE  PathsMade(p)' /\ RunGrows(p)'
  <1> USE DEF BundlesInv, NumbersInv
  <1>1. PathsMade(p) /\ RunGrows(p)
    BY DEF CommitsInv
  <1>2. disk \in journal /\ disk \in StateRoot /\ writer \in Committers \cup {Nobody}
    BY DEF Typed, TypeOK
  <1>3. pc'[p] = pc[p]
    BY DEF Typed, TypeOK, CommitStep, MakeStateRoot, Fail, OpenLock, Acquire, FindKeys,
       CreateKeys, ReadSequence, RefuseSequence, PublishSequence, MakeRun,
       RunExists, PublishStarted, MakeEvents, PublishEvent, EventsDone,
       PublishEvidence, Sync, Unlock, Goto, Crash
  <1>4. CASE Crash(o)
    BY <1>1, <1>3, <1>4 DEF Crash, Forget, diskVars, PathsMade, RunGrows, EventsOf, EntryOf, Own,
       Typed, TypeOK, Published, Retained
  <1>5. CASE pc[p] \notin Holding /\ ~Crash(o)
    <2>1. pc'[p] \notin Keyed /\ pc'[p] \notin InRunPcs /\ pc'[p] \notin Unpublished
      BY <1>3, <1>5 DEF Keyed, Unpublished, Holding, InRunPcs, CommitPcs, SyncSteps, LockFree
    <2>2. RunGrows(p)'
      BY <2>1 DEF RunGrows, InRunPcs, Unpublished
    <2>3. (disk.root => disk'.root) /\ (disk.lock => disk'.lock)
      <3>1. CASE RunStep(o)
        BY <1>2, <3>1 DEF RunStep, MakeRun, PublishStarted, MakeEvents, PublishEvent,
           PublishEvidence, Change, WithRun, StateRoot
      <3> QED
        BY <1>5, <3>1, QuietSteps DEF PathsKept
    <2> QED BY <1>1, <1>3, <2>1, <2>2, <2>3 DEF PathsMade
  <1>6. CASE pc[p] \in Holding /\ ~Crash(o)
    <2>1. /\ run'[p] = run[p] /\ found'[p] = found[p] /\ seq'[p] = seq[p]
          /\ disk'.runs = disk.runs /\ PathsKept(disk')
          /\ journal' \subseteq journal \cup {disk'}
      BY <1>6, OthersKeep
    <2>2. Published(disk') = Published(disk)
      BY <1>2, <2>1, RunsKept DEF StoreInv
    <2>3. Own(p)' = Own(p) /\ EntryOf(p)' = EntryOf(p)
      BY <2>1 DEF Own, EntryOf
    <2>4. EventsOf(p)' = EventsOf(p)
      BY <2>1, <2>3 DEF EventsOf
    <2>5. PathsMade(p)'
      BY <1>1, <1>3, <2>1, StoreAssumption DEF PathsMade, PathsKept
    <2>6. pc[p] = "release" => \A d \in journal' : EntryOf(p) \in Published(d)
      BY <1>1, <1>2, <2>1, <2>2 DEF RunGrows
    <2>7. RunGrows(p)'
      BY <1>1, <1>3, <2>1, <2>2, <2>3, <2>4, <2>6 DEF RunGrows
    <2> QED BY <2>5, <2>7
  <1> QED
    BY <1>4, <1>5, <1>6

(***************************************************************************)
(* The steps of a commit itself. Those that write no run directory.        *)
(***************************************************************************)
LEMMA QuietStore ==
  ASSUME BundlesInv, NEW p \in Committers,
         CommitStep(p) \/ MakeStateRoot(p) \/ Fail(p), ~RunStep(p), ~Unlock(p)
  PROVE  /\ StoreInv' /\ AckedDurable'
         /\ disk'.runs = disk.runs /\ Published(disk') = Published(disk) /\ PathsKept(disk')
         /\ journal' \subseteq journal \cup {disk'}
  <1> USE DEF BundlesInv, NumbersInv
  <1>1. disk \in journal
    BY DEF Typed, TypeOK
  <1>2. disk'.runs = disk.runs /\ PathsKept(disk') /\ journal' \subseteq journal \cup {disk'}
    BY QuietSteps
  <1>3. DiskSound(disk') /\ BundlesValid(disk') /\ Published(disk') = Published(disk)
    BY <1>1, <1>2, RunsKept DEF StoreInv
  <1>4. UNCHANGED acked
    BY DEF RunStep, CommitStep, MakeStateRoot, OpenLock, Acquire, FindKeys, CreateKeys,
           ReadSequence, RefuseSequence, PublishSequence, RunExists, EventsDone, Sync, Fail,
           OthersSame
  <1> QED BY <1>1, <1>2, <1>3, <1>4, StoreSame, AckedSame

LEMMA QuietPaths ==
  ASSUME BundlesInv, NEW p \in Committers,
         CommitStep(p) \/ MakeStateRoot(p) \/ Fail(p), ~RunStep(p), ~Unlock(p)
  PROVE  PathsMade(p)'
  <1> USE DEF BundlesInv, NumbersInv, PathsMade
  <1>1. PathsKept(disk') /\ disk \in StateRoot
    BY QuietStore DEF Typed, TypeOK
  <1>2. PathsMade(p) /\ pc \in [Committers -> CommitPcs]
    BY DEF CommitsInv, Typed, TypeOK
  <1> USE DEF Goto, PathsKept, Keyed, Holding, InRunPcs, CommitPcs, LockFree, SyncSteps
  <1>3. CASE Sync(p)
    <2>1. pc'[p] = AfterSync(pc[p]) /\ pc[p] \in SyncSteps
      BY <1>2, <1>3 DEF Sync
    <2> QED BY <1>1, <1>2, <2>1, StoreAssumption DEF AfterSync
  <1>4. CASE MakeStateRoot(p)
    BY <1>1, <1>2, <1>4 DEF MakeStateRoot, Change, StateRoot
  <1>5. CASE OpenLock(p)
    BY <1>1, <1>2, <1>5 DEF OpenLock, Change, StateRoot
  <1>6. CASE CreateKeys(p)
    BY <1>1, <1>2, <1>6, StoreAssumption DEF CreateKeys, Change, StateRoot
  <1>7. CASE FindKeys(p)
    BY <1>1, <1>2, <1>7 DEF FindKeys, diskVars
  <1> QED
    BY <1>1, <1>2, <1>3, <1>4, <1>5, <1>6, <1>7, StoreAssumption
    DEF RunStep, CommitStep, Acquire, ReadSequence, RefuseSequence, PublishSequence,
        RunExists, EventsDone, Fail

LEMMA QuietGrows ==
  ASSUME BundlesInv, NEW p \in Committers,
         CommitStep(p) \/ MakeStateRoot(p) \/ Fail(p), ~RunStep(p), ~Unlock(p)
  PROVE  RunGrows(p)'
  <1> USE DEF BundlesInv, NumbersInv, RunGrows
  <1>1. RunGrows(p) /\ pc \in [Committers -> CommitPcs]
    BY DEF CommitsInv, Typed, TypeOK
  <1> USE DEF Goto, Unpublished, InRunPcs
  <1>2. CASE Sync(p)
    <2>1. pc'[p] = AfterSync(pc[p]) /\ pc[p] \in SyncSteps
          /\ disk' = disk /\ journal' = {disk} /\ UNCHANGED <<run, found, seq>>
      BY <1>1, <1>2 DEF Sync, Flush, LocalSame
    <2>2. Own(p)' = Own(p) /\ EntryOf(p)' = EntryOf(p) /\ EventsOf(p)' = EventsOf(p)
      BY <2>1 DEF Own, EntryOf, EventsOf
    <2> QED BY <1>1, <2>1, <2>2 DEF AfterSync, SyncSteps
  <1>3. CASE EventsDone(p)
    <2>1. pc[p] = "events" /\ pc'[p] = "evidence" /\ Unwritten(p) = {}
          /\ disk' = disk /\ UNCHANGED <<run, found, seq>>
      BY <1>1, <1>3 DEF EventsDone, Flush, LocalSame
    <2>2. Own(p)' = Own(p) /\ EventsOf(p)' = EventsOf(p)
      BY <2>1 DEF Own, EventsOf
    <2>3. \A f \in found[p] : Own(p).events[f] = seq[p]
      BY <2>1 DEF Unwritten
    <2> QED BY <1>1, <2>1, <2>2, <2>3
  <1>4. CASE ~Sync(p) /\ ~EventsDone(p)
    <2>1. pc'[p] \notin InRunPcs
      BY <1>1, <1>4 DEF RunStep, CommitStep, MakeStateRoot, OpenLock, Acquire, FindKeys, CreateKeys,
           ReadSequence, RefuseSequence, PublishSequence, RunExists, Fail
    <2> QED BY <2>1
  <1> QED BY <1>2, <1>3, <1>4

LEMMA UnlockStore ==
  ASSUME BundlesInv, NEW p \in Committers, Unlock(p)
  PROVE  StoreInv' /\ AckedDurable' /\ PathsMade(p)' /\ RunGrows(p)'
  <1> USE DEF BundlesInv, NumbersInv
  <1>1. UNCHANGED <<disk, journal>> /\ pc'[p] = "idle"
    BY DEF Unlock, diskVars, Typed, TypeOK
  <1>2. RunGrows(p)
    BY DEF CommitsInv
  <1>3. AckedDurable'
    BY <1>1, <1>2 DEF AckedDurable, Unlock, RunGrows, EntryOf
  <1>4. PathsMade(p)' /\ RunGrows(p)'
    BY <1>1 DEF PathsMade, RunGrows, Unpublished, InRunPcs, Keyed, Holding
  <1>5. StoreInv'
    BY <1>1 DEF StoreInv, Older
  <1> QED BY <1>3, <1>4, <1>5

(***************************************************************************)
(* The steps that build the bundle, and the one that publishes it.         *)
(***************************************************************************)
LogSame == Published(disk') = Published(disk)

LEMMA BuildStore ==
  ASSUME BundlesInv, NEW r \in RunIds, NEW x, Written(r, x), UNCHANGED acked,
         disk.runs[r].evidence = 0, x.evidence = 0, x.made
  PROVE  StoreInv' /\ AckedDurable' /\ LogSame
  <1> USE DEF BundlesInv, NumbersInv
  <1>1. disk \in journal
    BY DEF Typed, TypeOK
  <1>2. DiskSound(disk') /\ BundlesValid(disk') /\ Published(disk') = Published(disk)
    BY <1>1, UnpublishedWritten DEF StoreInv
  <1> QED BY <1>1, <1>2, StoreSame, AckedSame DEF Written, LogSame

LEMMA MakeRunBuilds ==
  ASSUME BundlesInv, NEW p \in Committers, MakeRun(p)
  PROVE  StoreInv' /\ AckedDurable' /\ LogSame /\ PathsMade(p)' /\ RunGrows(p)'
  <1> USE DEF BundlesInv, NumbersInv
  <1>1. disk \in journal /\ disk \in StateRoot /\ pc \in [Committers -> CommitPcs]
        /\ run \in [Committers -> RunIds \cup {Nobody}]
    BY DEF Typed, TypeOK
  <1>2. PICK r \in RunIds :
          /\ ~disk.runs[r].made
          /\ Change([WithRun(r, [disk.runs[r] EXCEPT !.made = TRUE]) EXCEPT !.runsdir = TRUE])
          /\ run' = [run EXCEPT ![p] = r]
    BY DEF MakeRun
  <1> DEFINE x == [disk.runs[r] EXCEPT !.made = TRUE]
  <1>3. disk.runs[r] \in RunRoot
    BY <1>1 DEF StateRoot
  <1>4. /\ x \in RunRoot /\ x.made /\ x.evidence = disk.runs[r].evidence
        /\ x.events = disk.runs[r].events
    BY <1>3 DEF RunRoot
  <1>5. disk.runs[r].evidence = 0 /\ \A f \in Findings : disk.runs[r].events[f] = 0
    BY <1>1, <1>2 DEF StoreInv, DiskSound
  <1>6. WithRun(r, x) \in StateRoot /\ WithRun(r, x).runs = [disk.runs EXCEPT ![r] = x]
        /\ WithRun(r, x).project = disk.project
    BY <1>1, <1>4, WithRunTyped
  <1>7. WithRun(r, x).root = disk.root /\ WithRun(r, x).lock = disk.lock
    BY <1>1 DEF WithRun, StateRoot
  <1>8. disk' = [WithRun(r, x) EXCEPT !.runsdir = TRUE] /\ journal' = journal \cup {disk'}
    BY <1>2 DEF Change
  <1> HIDE DEF x
  <1>9. Written(r, x) /\ disk'.runsdir
    BY <1>1, <1>6, <1>7, <1>8 DEF Written, PathsKept, StateRoot
  <1>10. pc[p] = "mkrun" /\ pc'[p] = "started" /\ run'[p] = r /\ UNCHANGED acked
    BY <1>1, <1>2 DEF MakeRun, Goto, OthersSame
  <1>11. StoreInv' /\ AckedDurable' /\ LogSame
    BY <1>4, <1>5, <1>9, <1>10, BuildStore
  <1>12. PathsMade(p)'
    <2>1. PathsMade(p)
      BY DEF CommitsInv
    <2> QED BY <1>9, <1>10, <2>1, StoreAssumption
            DEF PathsMade, Written, PathsKept, Keyed, Holding, CommitPcs, LockFree
  <1>13. RunGrows(p)'
    <2>1. Own(p)' = x
      BY <1>9, <1>10 DEF Own, Written
    <2> QED BY <1>4, <1>5, <1>10, <2>1 DEF RunGrows, Unpublished, InRunPcs
  <1> QED BY <1>11, <1>12, <1>13

\* The three steps between the directory and its evidence.
LEMMA BuildSteps ==
  ASSUME BundlesInv, NEW p \in Committers,
         PublishStarted(p) \/ MakeEvents(p) \/ PublishEvent(p)
  PROVE  StoreInv' /\ AckedDurable' /\ LogSame /\ PathsMade(p)' /\ RunGrows(p)'
  <1> USE DEF BundlesInv, NumbersInv
  <1>1. /\ disk \in journal /\ disk \in StateRoot /\ pc \in [Committers -> CommitPcs]
        /\ found \in [Committers -> SUBSET Findings] /\ seq \in [Committers -> 0..MaxSeq]
    BY DEF Typed, TypeOK
  <1>2. PathsMade(p) /\ RunGrows(p)
    BY DEF CommitsInv
  <1>3. pc[p] \in Unpublished /\ pc'[p] \in Unpublished /\ pc'[p] # "started"
    BY <1>1 DEF PublishStarted, MakeEvents, PublishEvent, Goto, Unpublished, InRunPcs
  <1>4. run[p] \in RunIds /\ Own(p) \in RunRoot /\ Own(p) = disk.runs[run[p]]
    BY <1>3, OwnTyped DEF Typed, LocalsSet, Unpublished, Own
  <1>5. UNCHANGED <<run, acked>>
    BY DEF PublishStarted, MakeEvents, PublishEvent, LocalSame, OthersSame
  <1>6. ASSUME NEW x \in RunRoot, Change(WithRun(run[p], x)),
               x.made, x.evidence = Own(p).evidence
        PROVE  /\ StoreInv' /\ AckedDurable' /\ LogSame /\ PathsMade(p)'
               /\ Own(p)' = x
    <2>1. Written(run[p], x)
      BY <1>4, <1>6, WithRunWritten
    <2>2. StoreInv' /\ AckedDurable' /\ LogSame
      BY <1>2, <1>3, <1>4, <1>5, <1>6, <2>1, BuildStore DEF RunGrows
    <2>3. PathsMade(p)'
      BY <1>2, <1>3, <2>1
      DEF PathsMade, Written, PathsKept, Keyed, Holding, CommitPcs, LockFree, Unpublished,
          InRunPcs, SyncSteps
    <2>4. Own(p)' = x
      BY <1>5, <2>1 DEF Own, Written
    <2> QED BY <2>2, <2>3, <2>4
  <1>7. CASE PublishStarted(p)
    <2> DEFINE x == [Own(p) EXCEPT !.started = TRUE]
    <2>1. x \in RunRoot /\ x.started /\ x.made = Own(p).made
          /\ x.evidence = Own(p).evidence /\ x.events = Own(p).events
      BY <1>4 DEF RunRoot
    <2>2. Change(WithRun(run[p], x)) /\ pc[p] = "started" /\ pc'[p] = "syncStarted"
      BY <1>1, <1>7 DEF PublishStarted, Goto
    <2> HIDE DEF x
    <2>3. x.made
      BY <1>2, <1>3, <2>1 DEF RunGrows
    <2>4. StoreInv' /\ AckedDurable' /\ LogSame /\ PathsMade(p)' /\ Own(p)' = x
      BY <1>6, <2>1, <2>2, <2>3
    <2>5. RunGrows(p)'
      BY <1>2, <1>3, <2>1, <2>2, <2>3, <2>4 DEF RunGrows
    <2> QED BY <2>4, <2>5
  <1>8. CASE MakeEvents(p)
    <2> DEFINE x == [Own(p) EXCEPT !.evdir = TRUE]
    <2>1. x \in RunRoot /\ x.evdir /\ x.made = Own(p).made /\ x.started = Own(p).started
          /\ x.evidence = Own(p).evidence /\ x.events = Own(p).events
      BY <1>4 DEF RunRoot
    <2>2. Change(WithRun(run[p], x)) /\ pc[p] = "mkevents" /\ pc'[p] = "events"
      BY <1>1, <1>8 DEF MakeEvents, Goto
    <2> HIDE DEF x
    <2>3. x.made /\ x.started /\ \A f \in Findings : x.events[f] = 0
      BY <1>2, <1>3, <2>1, <2>2 DEF RunGrows
    <2>4. StoreInv' /\ AckedDurable' /\ LogSame /\ PathsMade(p)' /\ Own(p)' = x
      BY <1>6, <2>1, <2>2, <2>3
    <2>5. EventsOf(p)'
      BY <2>3, <2>4 DEF EventsOf
    <2>6. RunGrows(p)'
      BY <1>2, <1>3, <2>1, <2>2, <2>3, <2>4, <2>5 DEF RunGrows
    <2> QED BY <2>4, <2>6
  <1>9. CASE PublishEvent(p)
    <2> DEFINE x(f) == [Own(p) EXCEPT !.events = [@ EXCEPT ![f] = seq[p]]]
    <2>1. PICK f \in Unwritten(p) : Change(WithRun(run[p], x(f)))
      BY <1>9 DEF PublishEvent
    <2>2. f \in found[p] /\ f \in Findings /\ seq[p] \in 0..MaxSeq
      BY <1>1, <2>1 DEF Unwritten
    <2>3. x(f) \in RunRoot /\ x(f).evdir = Own(p).evdir /\ x(f).made = Own(p).made
          /\ x(f).started = Own(p).started /\ x(f).evidence = Own(p).evidence
          /\ \A g \in Findings : x(f).events[g] = IF g = f THEN seq[p] ELSE Own(p).events[g]
      BY <1>4, <2>2 DEF RunRoot
    <2>4. pc[p] = "events" /\ pc'[p] = "syncEvent" /\ UNCHANGED <<found, seq>>
      BY <1>1, <1>9 DEF PublishEvent, Goto, LocalSame
    <2> DEFINE y == x(f)
    <2> HIDE DEF x, y
    <2>5. y.made /\ y.started /\ y.evdir /\ y.evidence = 0
      BY <1>2, <1>3, <2>3, <2>4 DEF RunGrows, y
    <2>6. StoreInv' /\ AckedDurable' /\ LogSame /\ PathsMade(p)' /\ Own(p)' = y
      BY <1>6, <2>1, <2>3, <2>5 DEF y
    <2>7. EventsOf(p)'
      BY <1>2, <2>2, <2>3, <2>4, <2>6 DEF EventsOf, RunGrows, y
    <2>8. RunGrows(p)'
      BY <1>3, <2>4, <2>5, <2>6, <2>7 DEF RunGrows
    <2> QED BY <2>6, <2>8
  <1> QED BY <1>7, <1>8, <1>9

\* The commit point: one more run in the log, above all others.
LEMMA EvidenceWritten ==
  ASSUME BundlesInv, NEW p \in Committers, PublishEvidence(p)
  PROVE  /\ Published(disk') = Published(disk) \cup {EntryOf(p)}
         /\ \A e \in Published(disk) : e.run # run[p] /\ e.seq < seq[p]
         /\ DiskSound(disk') /\ BundlesValid(disk')
         /\ PathsKept(disk') /\ journal' = journal \cup {disk'}
         /\ UNCHANGED <<run, found, seq, acked>> /\ pc'[p] = "syncEvidence"
         /\ disk.project # Nobody /\ disk'.runsdir
         /\ run[p] \in RunIds /\ seq[p] \in 1..MaxSeq /\ found[p] \in SUBSET Findings
  <1> USE DEF BundlesInv, NumbersInv
  <1>1. /\ disk \in journal /\ disk \in StateRoot /\ pc \in [Committers -> CommitPcs]
        /\ found[p] \in SUBSET Findings /\ seq[p] \in 0..MaxSeq
    BY DEF Typed, TypeOK
  <1>2. PathsMade(p) /\ RunGrows(p) /\ DiskSound(disk) /\ BundlesValid(disk)
    BY <1>1 DEF CommitsInv, StoreInv
  <1>3. pc[p] = "evidence" /\ pc'[p] = "syncEvidence" /\ UNCHANGED <<run, found, seq, acked>>
    BY <1>1 DEF PublishEvidence, Goto, LocalSame, OthersSame
  <1>4. run[p] \in RunIds /\ Own(p) \in RunRoot /\ Own(p) = disk.runs[run[p]] /\ seq[p] # 0
    BY <1>3, OwnTyped DEF Typed, LocalsSet, InRunPcs, NumberPcs, Numbered, Own
  <1> DEFINE x == [Own(p) EXCEPT !.evidence = seq[p],
                                 !.manifest = found[p],
                                 !.key = disk.project]
  <1>5. /\ x \in RunRoot
        /\ x.evidence = seq[p] /\ x.manifest = found[p] /\ x.key = disk.project
        /\ x.made = Own(p).made /\ x.started = Own(p).started /\ x.evdir = Own(p).evdir
        /\ x.events = Own(p).events
    <2>1. disk.project \in Committers \cup {Nobody}
      BY <1>1 DEF StateRoot
    <2>2. x \in RunRoot
      BY <1>1, <1>4, <2>1, EvidenceTyped
    <2> QED BY <1>4, <2>2 DEF RunRoot
  <1>6. Change(WithRun(run[p], x))
    BY DEF PublishEvidence
  <1> HIDE DEF x
  <1>7. Written(run[p], x)
    BY <1>4, <1>5, <1>6, WithRunWritten
  <1>8. disk.runs[run[p]].evidence = 0 /\ x.made /\ x.started /\ x.evdir
        /\ \A f \in Findings : x.events[f] = IF f \in found[p] THEN seq[p] ELSE 0
    BY <1>1, <1>2, <1>3, <1>4, <1>5 DEF RunGrows, EventsOf, Unpublished, InRunPcs
  <1>9. /\ Retained(disk') = Retained(disk) \cup {run[p]}
        /\ \A s \in Retained(disk) : s # run[p] /\ disk'.runs[s] = disk.runs[s]
    BY <1>4, <1>5, <1>7, <1>8 DEF Written, Retained
  <1>10. Published(disk') = Published(disk) \cup {EntryOf(p)}
    <2>1. EntryOf(p) = [run |-> run[p], seq |-> disk'.runs[run[p]].evidence,
                        findings |-> disk'.runs[run[p]].manifest]
      BY <1>5, <1>7 DEF EntryOf, Written
    <2> QED BY <1>9, <2>1 DEF Published
  <1>11. \A e \in Published(disk) : e.run # run[p] /\ e.seq < seq[p]
    BY <1>3, <1>9 DEF Published, NumberAbove, Numbered, Retained
  <1>12. disk.root /\ disk.lock /\ disk.runsdir /\ disk.project # Nobody
    BY <1>2, <1>3 DEF PathsMade, Keyed, Holding, CommitPcs, LockFree, InRunPcs
  <1>13. DiskSound(disk')
    BY <1>2, <1>7, <1>8, <1>12, StoreAssumption DEF DiskSound, Written, PathsKept
  <1>14. BundlesValid(disk')
    <2>1. BundleValid(disk', run[p])
      BY <1>5, <1>7, <1>8 DEF BundleValid, Written
    <2>2. ASSUME NEW s \in Retained(disk)
          PROVE  BundleValid(disk', s)
      BY <1>2, <1>7, <1>9, <2>2 DEF BundlesValid, BundleValid, Written
    <2> QED BY <1>9, <2>1, <2>2 DEF BundlesValid
  <1> QED
    BY <1>1, <1>3, <1>4, <1>7, <1>10, <1>11, <1>12, <1>13, <1>14, StoreAssumption
    DEF Written, PathsKept

LEMMA EvidencePublished ==
  ASSUME BundlesInv, NEW p \in Committers, PublishEvidence(p)
  PROVE  StoreInv' /\ AckedDurable' /\ PathsMade(p)' /\ RunGrows(p)'
  <1> USE DEF BundlesInv, NumbersInv
  <1>1. disk \in journal /\ EntryOf(p).seq = seq[p] /\ EntryOf(p)' = EntryOf(p)
    BY EvidenceWritten DEF Typed, TypeOK, EntryOf
  <1>2. ASSUME NEW d \in journal
        PROVE  DiskSound(d) /\ BundlesValid(d) /\ Older(d)'
    <2>1. DiskSound(d) /\ BundlesValid(d) /\ Older(d)
      BY DEF StoreInv
    <2>2. Older(d)'
      BY <1>1, <2>1, EvidenceWritten DEF Older
    <2> QED BY <2>1, <2>2
  <1>3. DiskSound(disk') /\ BundlesValid(disk') /\ (\A d \in {disk'} : Older(d)')
    BY EvidenceWritten DEF Older
  <1>4. StoreInv'
    BY <1>2, <1>3, EvidenceWritten DEF StoreInv
  <1>5. AckedDurable'
    BY <1>1, EvidenceWritten, AckedSame
  <1>6. PathsMade(p)'
    <2>1. PathsMade(p) /\ pc[p] = "evidence"
      BY DEF CommitsInv, PublishEvidence, Goto
    <2> QED BY <2>1, EvidenceWritten, StoreAssumption DEF PathsMade, PathsKept
  <1>7. RunGrows(p)'
    BY <1>1, EvidenceWritten DEF RunGrows, Unpublished, InRunPcs
  <1> QED BY <1>4, <1>5, <1>6, <1>7

LEMMA BundlesNext == BundlesInv /\ [Next]_vars => BundlesInv'
  <1> SUFFICES ASSUME BundlesInv, [Next]_vars
               PROVE  StoreInv' /\ CommitsInv' /\ AckedDurable'
    BY NumbersNext DEF BundlesInv
  <1>1. ASSUME NEW p \in Committers, CommitStep(p) \/ MakeStateRoot(p) \/ Fail(p)
        PROVE  StoreInv' /\ CommitsInv' /\ AckedDurable'
    <2>1. StoreInv' /\ AckedDurable' /\ PathsMade(p)' /\ RunGrows(p)'
      BY <1>1, QuietStore, QuietPaths, QuietGrows, UnlockStore, MakeRunBuilds, BuildSteps,
         EvidencePublished DEF RunStep
    <2>2. \A o \in Committers \ {p} : PathsMade(o)' /\ RunGrows(o)'
      BY <1>1, OthersGoOn
    <2> QED BY <2>1, <2>2 DEF CommitsInv
  <1>2. ASSUME NEW p \in Committers, Crash(p)
        PROVE  StoreInv' /\ CommitsInv' /\ AckedDurable'
    <2>1. UNCHANGED <<disk, journal, acked>> /\ pc'[p] = "idle"
      BY <1>2 DEF Crash, diskVars, BundlesInv, NumbersInv, Typed, TypeOK
    <2>2. PathsMade(p)' /\ RunGrows(p)'
      BY <2>1 DEF PathsMade, RunGrows, Unpublished, InRunPcs, Keyed, Holding
    <2>3. \A o \in Committers \ {p} : PathsMade(o)' /\ RunGrows(o)'
      BY <1>2, OthersGoOn
    <2>4. StoreInv' /\ AckedDurable'
      BY <2>1 DEF BundlesInv, StoreInv, Older, AckedDurable
    <2> QED BY <2>2, <2>3, <2>4 DEF CommitsInv
  <1>3. CASE UNCHANGED <<diskVars, commitVars, acked>>
    BY <1>3 DEF diskVars, commitVars, BundlesInv, StoreInv, Older, AckedDurable, CommitsInv,
       PathsMade, RunGrows, Own, EventsOf, EntryOf
  <1>4. ASSUME NEW q \in Readers,
               ReadNoState(q) \/ BeginRead(q) \/ ReadStep(q) \/ CrashReader(q)
        PROVE  UNCHANGED <<diskVars, commitVars, acked>>
    BY <1>4 DEF ReadStep, ReadNoState, BeginRead, OpenShared, NoLockFile, AcquireShared,
                ReadNoRuns, Scan, CheckSequence, UnlockShared, CrashReader, CommitSame
  <1>5. CASE PowerLoss
    <2>1. disk' \in journal /\ journal' = {disk'} /\ UNCHANGED acked
          /\ \A p \in Committers : pc'[p] = "idle"
      BY <1>5 DEF PowerLoss
    <2>2. StoreInv' /\ AckedDurable'
      BY <2>1 DEF BundlesInv, StoreInv, Older, AckedDurable
    <2>3. CommitsInv'
      BY <2>1 DEF CommitsInv, PathsMade, RunGrows, Unpublished, InRunPcs, Keyed, Holding
    <2> QED BY <2>2, <2>3
  <1>6. CASE RestoreSequence
    <2>1. disk \in journal /\ UNCHANGED <<pc, run, found, seq, acked>>
      BY <1>6 DEF RestoreSequence, commitVars, OthersSame, BundlesInv, NumbersInv, Typed, TypeOK
    <2>2. disk'.runs = disk.runs /\ PathsKept(disk') /\ journal' \subseteq journal \cup {disk'}
      BY <1>6, RestoreKeeps DEF BundlesInv, NumbersInv
    <2>3. DiskSound(disk') /\ BundlesValid(disk') /\ Published(disk') = Published(disk)
      BY <2>1, <2>2, RunsKept DEF BundlesInv, StoreInv
    <2>4. StoreInv' /\ AckedDurable'
      BY <2>1, <2>2, <2>3, StoreSame, AckedSame DEF BundlesInv
    <2>5. ASSUME NEW p \in Committers
          PROVE  PathsMade(p)' /\ RunGrows(p)'
      <3>1. PathsMade(p) /\ RunGrows(p)
        BY DEF BundlesInv, CommitsInv
      <3>2. Own(p)' = Own(p) /\ EntryOf(p)' = EntryOf(p) /\ EventsOf(p)' = EventsOf(p)
        BY <2>1, <2>2 DEF Own, EntryOf, EventsOf
      <3>3. PathsMade(p)'
        BY <2>1, <2>2, <3>1, StoreAssumption DEF PathsMade, PathsKept
      <3>4. pc[p] = "release" => \A d \in journal' : EntryOf(p) \in Published(d)
        BY <2>1, <2>2, <2>3, <3>1 DEF RunGrows
      <3>5. RunGrows(p)'
        BY <2>1, <2>3, <3>1, <3>2, <3>4 DEF RunGrows
      <3> QED BY <3>3, <3>5
    <2> QED BY <2>4, <2>5 DEF CommitsInv
  <1>7. CASE UNCHANGED vars
    BY <1>3, <1>7 DEF vars
  <1> QED
    BY <1>1, <1>2, <1>3, <1>4, <1>5, <1>6, <1>7 DEF Next

LEMMA BundlesInit == Init => BundlesInv
  <1> SUFFICES ASSUME Init
               PROVE  BundlesInv
    OBVIOUS
  <1>1. NumbersInv
    BY InitTyped
    DEF Init, NumbersInv, LockExcludes, NumberAbove, UniqueSequences, UniqueNumbers,
        Retained, NoState, NoRun, Holding, Numbered
  <1>2. Retained(NoState) = {}
    BY DEF Retained, NoState, NoRun
  <1>3. Published(NoState) = {}
    BY <1>2 DEF Published
  <1>4. StoreInv
    <2>1. DiskSound(NoState)
      BY <1>2 DEF DiskSound, NoState, NoRun
    <2>2. BundlesValid(NoState)
      BY <1>2 DEF BundlesValid
    <2> QED BY <1>3, <2>1, <2>2 DEF Init, StoreInv, Older
  <1>5. CommitsInv
    BY DEF Init, CommitsInv, PathsMade, RunGrows, Unpublished, InRunPcs, Keyed, Holding
  <1>6. AckedDurable
    BY DEF Init, AckedDurable
  <1> QED BY <1>1, <1>4, <1>5, <1>6 DEF BundlesInv

LEMMA BundlesHold == Spec => []BundlesInv
  BY BundlesInit, BundlesNext, PTL DEF Spec

(***************************************************************************)
(* Wherever a process dies or the power goes, and for any number of runs   *)
(* and findings, a run that has evidence.json has the whole bundle it      *)
(* names (_commit_completed_run, _verify_run_bundle).                      *)
(***************************************************************************)
THEOREM BundlesWhole == Spec => []BundlesComplete
  <1>1. BundlesInv => BundlesComplete
    BY DEF BundlesInv, StoreInv, BundlesComplete
  <1> QED BY <1>1, BundlesHold, PTL

(***************************************************************************)
(* A run whose commit call returned is in every state that a power loss    *)
(* may leave (_atomic_bytes).                                              *)
(***************************************************************************)
THEOREM AcknowledgedKept == Spec => []AckedDurable
  <1>1. BundlesInv => AckedDurable
    BY DEF BundlesInv
  <1> QED BY <1>1, BundlesHold, PTL
------------------------------------------------------------------------------
(***************************************************************************)
(* Histories. A set of numbers up to MaxSeq has a least and a largest one. *)
(***************************************************************************)
LEMMA LeastNumber ==
  ASSUME NEW S \in SUBSET Nat, S # {}
  PROVE  \E s \in S : \A t \in S : s <= t
  <1> DEFINE R == StrictSubsetOrdering(Nat)
             T == {0..s : s \in S}
  <1>1. \A n \in Nat : IsFiniteSet(0..n) /\ (0..n) \in SUBSET Nat
    BY FS_Interval
  <1>2. T \subseteq FiniteSubsetsOf(Nat) /\ T # {}
    BY <1>1 DEF FiniteSubsetsOf
  <1>3. \E x \in T : \A y \in T : <<y, x>> \notin R
    <2> HIDE DEF T, R
    <2>1. IsWellFoundedOn(R, FiniteSubsetsOf(Nat))
      BY FS_StrictSubsetOrderingWellFounded DEF R
    <2> QED BY <1>2, <2>1, WFMin
  <1>4. PICK s \in S : \A t \in S : <<0..t, 0..s>> \notin R
    BY <1>3
  <1>5. ASSUME NEW t \in S, t < s
        PROVE  FALSE
    <2>1. s \in 0..s /\ s \notin 0..t /\ (0..t) \subseteq (0..s)
      BY <1>5
    <2>2. 0..t # 0..s /\ (0..t) \in SUBSET Nat /\ (0..s) \in SUBSET Nat
      BY <2>1
    <2>3. <<0..t, 0..s>> \in R
      BY <2>1, <2>2 DEF StrictSubsetOrdering
    <2> QED BY <1>4, <2>3
  <1> QED BY <1>4, <1>5

LEMMA LargestNumber ==
  ASSUME NEW S \in SUBSET (0..MaxSeq), S # {}
  PROVE  \E s \in S : \A t \in S : s >= t
  <1> USE StoreAssumption
  <1> DEFINE T == {MaxSeq - s : s \in S}
  <1>0. \A s \in S : s \in Int /\ MaxSeq - s \in Nat
    OBVIOUS
  <1>1. T \in SUBSET Nat /\ T # {}
    BY <1>0
  <1> HIDE DEF T
  <1>2. PICK m \in T : \A t \in T : m <= t
    BY <1>1, LeastNumber
  <1>3. PICK s \in S : m = MaxSeq - s
    BY <1>2 DEF T
  <1>4. \A t \in S : MaxSeq - s <= MaxSeq - t
    BY <1>2, <1>3 DEF T
  <1> QED BY <1>4

(***************************************************************************)
(* A history of more runs, all of the new ones younger, extends the old    *)
(* one (_history_row).                                                     *)
(***************************************************************************)
First(S) == CHOOSE s \in S : \A t \in S : s <= t
Last(S) == CHOOSE s \in S : \A t \in S : s >= t

LEMMA FirstOf ==
  ASSUME NEW S \in SUBSET (0..MaxSeq), S # {}
  PROVE  First(S) \in S /\ \A t \in S : First(S) <= t
  <1>1. S \in SUBSET Nat
    BY StoreAssumption
  <1>2. \E s \in S : \A t \in S : s <= t
    BY <1>1, LeastNumber
  <1> QED BY <1>2 DEF First

LEMMA LastOf ==
  ASSUME NEW S \in SUBSET (0..MaxSeq), S # {}
  PROVE  Last(S) \in S /\ \A t \in S : Last(S) >= t
  <1>1. \E s \in S : \A t \in S : s >= t
    BY LargestNumber
  <1> QED BY <1>1 DEF Last

LEMMA FirstLast ==
  ASSUME NEW S \in SUBSET (0..MaxSeq), NEW T \in SUBSET (0..MaxSeq), S # {}, S \subseteq T,
         \A s \in S, t \in T \ S : s < t
  PROVE  First(S) = First(T) /\ Last(S) <= Last(T)
  <1> USE StoreAssumption
  <1>1. First(S) \in S /\ \A t \in S : First(S) <= t
    BY FirstOf
  <1>2. First(T) \in T /\ \A t \in T : First(T) <= t
    BY FirstOf
  <1>3. Last(S) \in S
    BY LastOf
  <1>4. Last(T) \in T /\ \A t \in T : Last(T) >= t
    BY LastOf
  <1> DEFINE m == First(S)  n == First(T)
  <1> HIDE DEF m, n
  <1>5. m \in S /\ n \in T /\ m \in T /\ n <= m /\ m \in Int /\ n \in Int
    <2>1. m \in S /\ n \in T
      BY <1>1, <1>2 DEF m, n
    <2>2. n <= m
      BY <1>2, <2>1 DEF n
    <2> QED BY <2>1, <2>2
  <1>6. n \in S
    <2>1. n \notin S => m < n
      BY <1>5
    <2> QED BY <1>5, <2>1
  <1>7. m <= n
    BY <1>1, <1>6 DEF m
  <1>8. First(S) = First(T)
    BY <1>5, <1>7 DEF m, n
  <1>9. Last(S) \in T
    BY <1>3
  <1>10. Last(S) <= Last(T)
    BY <1>4, <1>9
  <1> QED BY <1>8, <1>10

RowExtends(before, after) ==
  /\ after.finding = before.finding
  /\ after.firstSequence = before.firstSequence
  /\ after.lastSequence >= before.lastSequence
  /\ after.observationCount >= before.observationCount
  /\ before.repeated => after.repeated

LEMMA RowsExtend ==
  ASSUME NEW f, NEW first, NEW l1 \in Nat, NEW l2 \in Nat, NEW a \in Nat, NEW b \in Nat,
         l1 <= l2, a <= b
  PROVE  RowExtends([finding |-> f, firstSequence |-> first, lastSequence |-> l1,
                     observationCount |-> a, repeated |-> a >= 2],
                    [finding |-> f, firstSequence |-> first, lastSequence |-> l2,
                     observationCount |-> b, repeated |-> b >= 2])
  <1>1. a >= 2 => b >= 2
    OBVIOUS
  <1> QED BY <1>1 DEF RowExtends

\* The cardinality of the log's module is that of this one.
LEMMA SameCount == \A S : Log!Cardinality(S) = Cardinality(S)
  BY DEF Log!Cardinality, Cardinality

LEMMA HistoryGrows ==
  ASSUME NEW old \in SUBSET Log!Entry, NEW new \in SUBSET Log!Entry, old \subseteq new,
         \A e \in old, x \in new \ old : e.seq < x.seq, IsFiniteSet(new)
  PROVE  Log!HistoryExtends(old, new)
  <1> USE StoreAssumption
  <1>1. Cardinality(old) <= Cardinality(new)
    BY FS_Subset
  <1>2. ASSUME NEW f \in UNION {e.findings : e \in old}
        PROVE  /\ f \in UNION {e.findings : e \in new}
               /\ RowExtends(Log!HistoryRow(old, f), Log!HistoryRow(new, f))
    <2> DEFINE O == Log!Observers(old, f)  N == Log!Observers(new, f)
               S == {e.seq : e \in O}      T == {e.seq : e \in N}
    <2>1. O \subseteq N /\ O # {} /\ O \subseteq old /\ N \subseteq new
          /\ \A e \in O, x \in N \ O : e.seq < x.seq
      BY <1>2 DEF Log!Observers
    <2>2. S \in SUBSET (0..MaxSeq) /\ T \in SUBSET (0..MaxSeq) /\ S # {} /\ S \subseteq T
          /\ \A s \in S, t \in T \ S : s < t
      BY <2>1 DEF Log!Entry
    <2>3. First(S) = First(T) /\ Last(S) <= Last(T)
      BY <2>2, FirstLast
    <2>4. Cardinality(O) <= Cardinality(N) /\ Cardinality(O) \in Nat /\ Cardinality(N) \in Nat
      <3>1. IsFiniteSet(N)
        BY <2>1, FS_Subset
      <3> QED BY <2>1, <3>1, FS_Subset, FS_CardinalityType
    <2>5. Last(S) \in 0..MaxSeq /\ Last(T) \in 0..MaxSeq
      BY <2>2, LargestNumber DEF Last
    <2>6. /\ Log!HistoryRow(old, f) =
               [finding |-> f, firstSequence |-> First(S), lastSequence |-> Last(S),
                observationCount |-> Cardinality(O), repeated |-> Cardinality(O) >= 2]
          /\ Log!HistoryRow(new, f) =
               [finding |-> f, firstSequence |-> First(T), lastSequence |-> Last(T),
                observationCount |-> Cardinality(N), repeated |-> Cardinality(N) >= 2]
      BY SameCount DEF Log!HistoryRow, First, Last
    <2>7. f \in UNION {e.findings : e \in new}
      OBVIOUS
    <2> DEFINE a == Cardinality(O)  b == Cardinality(N)
    <2> HIDE DEF S, T, O, N, a, b
    <2>8. a \in Nat /\ b \in Nat /\ a <= b /\ Last(S) <= Last(T) /\ First(S) = First(T)
      BY <2>3, <2>4 DEF a, b
    <2>9. RowExtends([finding |-> f, firstSequence |-> First(S), lastSequence |-> Last(S),
                      observationCount |-> a, repeated |-> a >= 2],
                     [finding |-> f, firstSequence |-> First(T), lastSequence |-> Last(T),
                      observationCount |-> b, repeated |-> b >= 2])
      <3>1. Last(S) \in Nat /\ Last(T) \in Nat
        BY <2>5
      <3> QED BY <2>8, <3>1, RowsExtend
    <2>10. RowExtends(Log!HistoryRow(old, f), Log!HistoryRow(new, f))
      BY <2>6, <2>9 DEF a, b
    <2> QED BY <2>7, <2>10
  <1>3. ASSUME NEW row \in Log!HistoryRows(old, FALSE)
        PROVE  \E after \in Log!HistoryRows(new, FALSE) : RowExtends(row, after)
    <2>1. PICK f \in UNION {e.findings : e \in old} : row = Log!HistoryRow(old, f)
      BY <1>3 DEF Log!HistoryRows
    <2>2. Log!HistoryRow(new, f) \in Log!HistoryRows(new, FALSE)
      BY <1>2 DEF Log!HistoryRows
    <2> QED BY <1>2, <2>1, <2>2
  <1> QED BY <1>1, <1>3, SameCount DEF Log!HistoryExtends, RowExtends
------------------------------------------------------------------------------
(***************************************************************************)
(* Reads. What a reader has verified is the log as long as it holds the    *)
(* shared lock, and what it answered is the older part of the log.         *)
(***************************************************************************)
GotLog == \A q \in Readers : rpc[q] = "check" => got[q] = Published(disk)

OlderPart(docs, all) ==
  docs \subseteq all /\ \A e \in docs, x \in all \ docs : e.seq < x.seq

AnswersOld == \A q \in Readers : OlderPart(result[q].docs, Published(disk))

ReadsInv == BundlesInv /\ GotLog /\ AnswersOld /\ IsFiniteSet(Published(disk))

\* The outcomes of a read: nothing yet, the log, or a refusal with its cause.
ReadOutcome(q) ==
  \/ result' = result
  \/ result' = [result EXCEPT ![q] = [status |-> "history", docs |-> Published(disk)]]
  \/ /\ result' = [result EXCEPT ![q].status = "refused"]
     /\ Retained(disk) = {} \/ ~HighWaterBelow(disk, disk.last)

ReaderStep(q) == ReadNoState(q) \/ BeginRead(q) \/ ReadStep(q) \/ CrashReader(q)

LEMMA NoRunsNoLog ==
  ASSUME BundlesInv, ~disk.root \/ ~disk.lock \/ ~disk.runsdir \/ disk.project = Nobody
  PROVE  Retained(disk) = {} /\ Published(disk) = {}
  <1>1. DiskSound(disk)
    BY DEF BundlesInv, StoreInv, NumbersInv, Typed, TypeOK
  <1>2. Retained(disk) = {}
    BY <1>1 DEF DiskSound
  <1> QED BY <1>2 DEF Published

\* A read that compares the whole log with commit-sequence.json can only
\* find a run above it.
LEMMA SequenceExplained ==
  ASSUME BundlesInv, ~SequenceStateValid(Published(disk), disk.last)
  PROVE  ~HighWaterBelow(disk, disk.last)
  <1>1. UniqueNumbers(disk)
    BY DEF BundlesInv, NumbersInv, UniqueSequences, Typed, TypeOK
  <1>2. \A e, x \in Published(disk) : e.seq = x.seq => e = x
    BY <1>1 DEF Published, UniqueNumbers
  <1>3. \E e \in Published(disk) : ~(e.seq <= disk.last)
    BY <1>2 DEF SequenceStateValid
  <1> QED BY <1>3 DEF Published, HighWaterBelow

LEMMA ReaderOutcome ==
  ASSUME ReadsInv, NEW q \in Readers, ReaderStep(q)
  PROVE  /\ ReadOutcome(q)
         /\ UNCHANGED <<diskVars, commitVars, acked>>
  <1> USE DEF ReadOutcome, RGoto, CommitSame
  <1>1. BundlesInv /\ (rpc[q] = "check" => got[q] = Published(disk))
    BY DEF ReadsInv, GotLog
  <1>2. CASE ReadNoState(q)
    BY <1>1, <1>2, NoRunsNoLog DEF ReadNoState, Answer
  <1>3. CASE BeginRead(q) \/ OpenShared(q) \/ AcquireShared(q) \/ UnlockShared(q) \/ CrashReader(q)
    BY <1>3 DEF BeginRead, OpenShared, AcquireShared, UnlockShared, CrashReader
  <1>4. CASE NoLockFile(q)
    BY <1>1, <1>4, NoRunsNoLog DEF NoLockFile, Reject
  <1>5. CASE ReadNoRuns(q)
    BY <1>1, <1>5, NoRunsNoLog DEF ReadNoRuns, Answer
  <1>6. CASE Scan(q)
    <2>1. BundlesValid(disk)
      BY <1>1 DEF BundlesInv, StoreInv, NumbersInv, Typed, TypeOK
    <2> QED BY <1>1, <1>6, <2>1, NoRunsNoLog DEF Scan, Reject
  <1>7. CASE CheckSequence(q)
    BY <1>1, <1>7, SequenceExplained DEF CheckSequence, Answer, Reject
  <1> QED
    BY <1>2, <1>3, <1>4, <1>5, <1>6, <1>7 DEF ReaderStep, ReadStep

(***************************************************************************)
(* A step of the store leaves the log as it is, adds one run above all     *)
(* others, or is a power loss.                                             *)
(***************************************************************************)
CommitterStep(p) == CommitStep(p) \/ MakeStateRoot(p) \/ Fail(p) \/ Crash(p)

LEMMA CommitterLog ==
  ASSUME BundlesInv, NEW p \in Committers, CommitterStep(p), ~PublishEvidence(p)
  PROVE  LogSame /\ UNCHANGED result
  <1>1. UNCHANGED result
    BY DEF CommitterStep, CommitStep, MakeStateRoot, OpenLock, Acquire, FindKeys, CreateKeys,
       ReadSequence, RefuseSequence, PublishSequence, MakeRun, RunExists, PublishStarted,
       MakeEvents, PublishEvent, EventsDone, Sync, Unlock, Fail, Crash, OthersSame, readVars
  <1>2. CASE Unlock(p) \/ Crash(p)
    BY <1>1, <1>2 DEF Unlock, Crash, diskVars, LogSame
  <1>3. CASE ~Unlock(p) /\ ~Crash(p)
    BY <1>1, <1>3, QuietStore, MakeRunBuilds, BuildSteps
    DEF RunStep, CommitterStep, LogSame
  <1> QED BY <1>2, <1>3

LEMMA RestoreLog ==
  ASSUME BundlesInv, RestoreSequence
  PROVE  LogSame /\ UNCHANGED <<result, acked>>
  <1>1. LogSame
    BY RestoreKeeps DEF BundlesInv, NumbersInv, LogSame, Published, Retained
  <1> QED BY <1>1 DEF RestoreSequence, OthersSame, readVars

(***************************************************************************)
(* No commit publishes while a reader is between its scan and its check.   *)
(***************************************************************************)
LEMMA NoPublishDuringRead ==
  ASSUME BundlesInv, NEW q \in Readers, rpc[q] = "check", NEW p \in Committers
  PROVE  ~PublishEvidence(p)
  BY StoreAssumption
  DEF BundlesInv, NumbersInv, LockExcludes, PublishEvidence, Goto, Holding, CommitPcs, LockFree

LEMMA ReadsNext == ReadsInv /\ [Next]_vars => ReadsInv'
  <1> SUFFICES ASSUME ReadsInv, [Next]_vars
               PROVE  GotLog' /\ AnswersOld' /\ IsFiniteSet(Published(disk'))
    BY BundlesNext DEF ReadsInv, Published, Retained
  <1> USE DEF ReadsInv
  <1>1. got \in [Readers -> SUBSET Log!Entry] /\ rpc \in [Readers -> ReadPcs]
        /\ result \in [Readers -> Log!Result]
    BY DEF BundlesInv, NumbersInv, Typed, TypeOK
  <1>2. ASSUME LogSame, UNCHANGED <<rpc, got, result>>
        PROVE  GotLog' /\ AnswersOld' /\ IsFiniteSet(Published(disk'))
    BY <1>2 DEF GotLog, AnswersOld, LogSame, OlderPart
  <1>3. ASSUME NEW p \in Committers, CommitterStep(p), ~PublishEvidence(p)
        PROVE  GotLog' /\ AnswersOld' /\ IsFiniteSet(Published(disk'))
    <2>1. UNCHANGED <<rpc, got>>
      BY <1>3
      DEF CommitterStep, CommitStep, MakeStateRoot, OpenLock, Acquire, FindKeys, CreateKeys,
          ReadSequence, RefuseSequence, PublishSequence, MakeRun, RunExists, PublishStarted,
          MakeEvents, PublishEvent, EventsDone, Sync, Unlock, Fail, Crash, OthersSame, readVars
    <2> QED BY <1>2, <1>3, <2>1, CommitterLog
  <1>4. ASSUME NEW p \in Committers, PublishEvidence(p)
        PROVE  GotLog' /\ AnswersOld' /\ IsFiniteSet(Published(disk'))
    <2>1. /\ Published(disk') = Published(disk) \cup {EntryOf(p)}
          /\ \A e \in Published(disk) : e.run # run[p] /\ e.seq < EntryOf(p).seq
      BY <1>4, EvidenceWritten DEF EntryOf
    <2>2. UNCHANGED <<rpc, got, result>>
      BY <1>4 DEF PublishEvidence, OthersSame, readVars
    <2>3. GotLog'
      BY <1>4, <2>2, NoPublishDuringRead DEF GotLog
    <2>4. AnswersOld'
      BY <2>1, <2>2 DEF AnswersOld, OlderPart
    <2>5. IsFiniteSet(Published(disk'))
      BY <2>1, FS_AddElement
    <2> QED BY <2>3, <2>4, <2>5
  <1>5. ASSUME NEW q \in Readers, ReaderStep(q)
        PROVE  GotLog' /\ AnswersOld' /\ IsFiniteSet(Published(disk'))
    <2>1. ReadOutcome(q) /\ disk' = disk
      BY <1>5, ReaderOutcome DEF diskVars
    <2>2. GotLog'
      <3>1. \A o \in Readers : rpc'[o] = "check" =>
              \/ rpc[o] = "check" /\ got'[o] = got[o]
              \/ got'[o] = Published(disk)
        BY <1>1, <1>5
        DEF ReaderStep, ReadStep, ReadNoState, BeginRead, OpenShared, NoLockFile, AcquireShared,
            ReadNoRuns, Scan, CheckSequence, UnlockShared, CrashReader, RGoto
      <3> QED BY <2>1, <3>1 DEF GotLog
    <2>3. AnswersOld'
      BY <1>1, <2>1 DEF ReadOutcome, AnswersOld, OlderPart, Log!Result
    <2> QED BY <2>1, <2>2, <2>3
  <1>6. CASE PowerLoss
    <2>1. disk' \in journal /\ \A q \in Readers : rpc'[q] = "idle" /\ result'[q].docs = {}
      BY <1>6 DEF PowerLoss, Log!NoResult
    <2>2. Published(disk') \subseteq Published(disk)
      BY <2>1 DEF BundlesInv, StoreInv, Older
    <2>3. IsFiniteSet(Published(disk'))
      BY <2>2, FS_Subset
    <2> QED BY <2>1, <2>3 DEF GotLog, AnswersOld, OlderPart
  <1>7. CASE RestoreSequence
    BY <1>2, <1>7, RestoreLog DEF RestoreSequence, OthersSame, readVars
  <1>8. CASE UNCHANGED vars
    BY <1>2, <1>8 DEF vars, diskVars, readVars, LogSame
  <1> QED
    BY <1>3, <1>4, <1>5, <1>6, <1>7, <1>8 DEF Next, CommitterStep, ReaderStep

LEMMA ReadsInit == Init => ReadsInv
  <1> SUFFICES ASSUME Init
               PROVE  GotLog /\ AnswersOld /\ IsFiniteSet(Published(disk))
    BY BundlesInit DEF ReadsInv
  <1>1. Published(disk) = {}
    BY DEF Init, NoState, NoRun, Published, Retained
  <1>2. IsFiniteSet(Published(disk))
    BY <1>1, FS_EmptySet
  <1> QED BY <1>1, <1>2 DEF Init, GotLog, AnswersOld, OlderPart, Log!NoResult

LEMMA ReadsHold == Spec => []ReadsInv
  BY ReadsInit, ReadsNext, PTL DEF Spec
------------------------------------------------------------------------------
(***************************************************************************)
(* What a step may do to the answers of a reader.                          *)
(***************************************************************************)
LEMMA AnswersStep ==
  ASSUME ReadsInv, [Next]_vars, NEW q \in Readers
  PROVE  \/ result'[q] = result[q]
         \/ result'[q] = [status |-> "history", docs |-> Published(disk)]
         \/ /\ result'[q] = [result[q] EXCEPT !.status = "refused"]
            /\ Retained(disk) = {} \/ ~HighWaterBelow(disk, disk.last)
         \/ result'[q] = Log!NoResult
  <1>1. BundlesInv /\ result \in [Readers -> Log!Result]
    BY DEF ReadsInv, BundlesInv, NumbersInv, Typed, TypeOK
  <1>2. CASE \E p \in Committers : CommitterStep(p) /\ ~PublishEvidence(p)
    BY <1>1, <1>2, CommitterLog
  <1>3. CASE \E p \in Committers : PublishEvidence(p)
    BY <1>3 DEF PublishEvidence, OthersSame, readVars
  <1>4. CASE \E o \in Readers : ReaderStep(o)
    BY <1>1, <1>4, ReaderOutcome DEF ReadOutcome
  <1>5. CASE PowerLoss
    BY <1>5 DEF PowerLoss
  <1>6. CASE RestoreSequence \/ UNCHANGED vars
    BY <1>6 DEF RestoreSequence, OthersSame, vars, readVars
  <1> QED
    BY <1>2, <1>3, <1>4, <1>5, <1>6 DEF Next, CommitterStep, ReaderStep

(***************************************************************************)
(* A read is refused only while the store holds no run, or after           *)
(* commit-sequence.json was rolled back below a run: for any number of     *)
(* commits and reads, whatever failed or died before (_shared_state,       *)
(* _read_history_state, _validate_sequence_state).                         *)
(***************************************************************************)
THEOREM ReadsExplained == Spec => RefusalsExplained
  <1>1. ASSUME ReadsInv, [Next]_vars, NEW q \in Readers,
               result[q].status # "refused", result'[q].status = "refused"
        PROVE  Retained(disk) = {} \/ ~HighWaterBelow(disk, disk.last)
    <2>1. /\ result'[q] # result[q]
          /\ result'[q] # [status |-> "history", docs |-> Published(disk)]
          /\ result'[q] # Log!NoResult
      BY <1>1 DEF Log!NoResult
    <2> QED BY <1>1, <2>1, AnswersStep
  <1>2. ReadsInv /\ [Next]_vars =>
          [\A q \in Readers :
             result[q].status # "refused" /\ result'[q].status = "refused" =>
               Retained(disk) = {} \/ ~HighWaterBelow(disk, disk.last)]_vars
    BY <1>1
  <1> QED BY <1>2, ReadsHold, PTL DEF Spec, RefusalsExplained

(***************************************************************************)
(* An answer extends every earlier answer to the same reader, however many *)
(* runs and findings were committed between the two: no row goes, no       *)
(* firstSequence moves, no count goes back (_history_row).                 *)
(***************************************************************************)
THEOREM HistoryExtended == Spec => HistoryOnlyGrows
  <1>1. ASSUME ReadsInv, [Next]_vars, NEW q \in Readers, result'[q].status # "none"
        PROVE  Log!HistoryExtends(result[q].docs, result'[q].docs)
    <2>1. /\ Published(disk) \in SUBSET Log!Entry /\ IsFiniteSet(Published(disk))
          /\ OlderPart(result[q].docs, Published(disk))
          /\ result \in [Readers -> Log!Result]
      <3>1. disk \in StateRoot /\ result \in [Readers -> Log!Result]
        BY <1>1 DEF ReadsInv, BundlesInv, NumbersInv, Typed, TypeOK
      <3> QED BY <1>1, <3>1, PublishedTyped DEF ReadsInv, AnswersOld
    <2>2. CASE result'[q].docs = result[q].docs
      <3>1. result[q].docs \in SUBSET Log!Entry /\ IsFiniteSet(result[q].docs)
        BY <2>1, FS_Subset DEF OlderPart
      <3> QED BY <2>2, <3>1, HistoryGrows
    <2>3. CASE result'[q].docs = Published(disk)
      <3>1. result[q].docs \in SUBSET Log!Entry
        BY <2>1 DEF OlderPart
      <3> QED BY <2>1, <2>3, <3>1, HistoryGrows DEF OlderPart
    <2>4. result'[q] # Log!NoResult
      BY <1>1 DEF Log!NoResult
    <2>5. [result[q] EXCEPT !.status = "refused"].docs = result[q].docs
      BY <2>1 DEF Log!Result
    <2>6. [status |-> "history", docs |-> Published(disk)].docs = Published(disk)
      OBVIOUS
    <2>7. \/ result'[q] = result[q]
          \/ result'[q] = [status |-> "history", docs |-> Published(disk)]
          \/ result'[q] = [result[q] EXCEPT !.status = "refused"]
      BY <1>1, <2>4, AnswersStep
    <2>8. result'[q].docs = result[q].docs \/ result'[q].docs = Published(disk)
      BY <2>5, <2>6, <2>7
    <2> QED BY <2>2, <2>3, <2>8
  <1>2. ReadsInv /\ [Next]_vars =>
          [\A q \in Readers :
             result'[q].status # "none" =>
               Log!HistoryExtends(result[q].docs, result'[q].docs)]_vars
    BY <1>1
  <1> QED BY <1>2, ReadsHold, PTL DEF Spec, HistoryOnlyGrows
------------------------------------------------------------------------------
(***************************************************************************)
(* The store implements the log. Every step of it is a step of the log or  *)
(* leaves the log, the acknowledged runs and the answers as they are.      *)
(***************************************************************************)
LEMMA LogInit == Init => Log!Init
  BY DEF Init, Log!Init, NoState, NoRun, Published, Retained

LEMMA LogUnchanged ==
  ASSUME LogSame
  PROVE  UNCHANGED Published(disk)
  BY DEF LogSame, Published, Retained

LEMMA PublishesEntry ==
  ASSUME ReadsInv, NEW p \in Committers, PublishEvidence(p)
  PROVE  Log!Next
  <1>1. BundlesInv
    BY DEF ReadsInv
  <1>2. EntryOf(p) \in Log!Entry
    BY <1>1, EvidenceWritten DEF EntryOf, Log!Entry
  <1>3. Published(disk)' = Published(disk) \cup {EntryOf(p)}
    BY <1>1, EvidenceWritten DEF Published, Retained
  <1>4. \A x \in Published(disk) : x.run # EntryOf(p).run /\ x.seq < EntryOf(p).seq
    BY <1>1, EvidenceWritten DEF EntryOf
  <1>5. UNCHANGED <<acked, result>>
    BY DEF PublishEvidence, OthersSame, readVars
  <1>6. Log!Publish(EntryOf(p))
    BY <1>3, <1>4, <1>5 DEF Log!Publish
  <1> QED BY <1>2, <1>6 DEF Log!Next

LEMMA CommitterImplements ==
  ASSUME ReadsInv, NEW p \in Committers, CommitterStep(p), ~PublishEvidence(p)
  PROVE  [Log!Next]_(Log!vars)
  <1>1. BundlesInv
    BY DEF ReadsInv
  <1>2. UNCHANGED Published(disk) /\ UNCHANGED result
    BY <1>1, CommitterLog, LogUnchanged
  <1>3. CASE Unlock(p)
    <2>1. CASE pc[p] = "release"
      <3>1. EntryOf(p) \in Published(disk)
        BY <1>1, <2>1 DEF BundlesInv, CommitsInv, RunGrows, NumbersInv, Typed, TypeOK
      <3>2. acked' = acked \cup {EntryOf(p)}
        BY <1>3, <2>1 DEF Unlock, EntryOf
      <3>3. Log!Acknowledge(EntryOf(p))
        BY <1>2, <3>2 DEF Log!Acknowledge
      <3> QED BY <3>1, <3>3 DEF Log!Next
    <2>2. CASE pc[p] # "release"
      BY <1>2, <1>3, <2>2 DEF Unlock, Log!vars
    <2> QED BY <2>1, <2>2
  <1>4. CASE ~Unlock(p)
    <2>1. UNCHANGED acked
      BY <1>4
      DEF CommitterStep, CommitStep, MakeStateRoot, OpenLock, Acquire, FindKeys, CreateKeys,
          ReadSequence, RefuseSequence, PublishSequence, MakeRun, RunExists, PublishStarted,
          MakeEvents, PublishEvent, EventsDone, Sync, Fail, Crash, OthersSame
    <2> QED BY <1>2, <2>1 DEF Log!vars
  <1> QED BY <1>3, <1>4

LEMMA ReaderImplements ==
  ASSUME ReadsInv, NEW q \in Readers, ReaderStep(q)
  PROVE  [Log!Next]_(Log!vars)
  <1>1. ReadOutcome(q) /\ UNCHANGED <<Published(disk), acked>>
    BY ReaderOutcome DEF diskVars, Published, Retained
  <1>2. result' = result \/ Log!Read(q) \/ Log!Refuse(q)
    BY <1>1 DEF ReadOutcome, Log!Read, Log!Refuse
  <1> QED BY <1>1, <1>2 DEF Log!Next, Log!vars

LEMMA PowerLossImplements ==
  ASSUME ReadsInv, PowerLoss
  PROVE  Log!Next
  <1>1. disk' \in journal /\ Older(disk') /\ acked \subseteq Published(disk')
    BY DEF PowerLoss, ReadsInv, BundlesInv, StoreInv, AckedDurable
  <1>2. Published(disk)' = Published(disk')
    BY DEF Published, Retained
  <1>3. UNCHANGED acked /\ result' = [q \in Readers |-> Log!NoResult]
    BY DEF PowerLoss
  <1>4. Log!Lose
    BY <1>1, <1>2, <1>3 DEF Log!Lose, Older, Log!NoResult
  <1> QED BY <1>4 DEF Log!Next

LEMMA LogStep == ReadsInv /\ [Next]_vars => [Log!Next]_(Log!vars)
  <1> SUFFICES ASSUME ReadsInv, [Next]_vars
               PROVE  [Log!Next]_(Log!vars)
    OBVIOUS
  <1>1. CASE RestoreSequence
    BY <1>1, RestoreLog, LogUnchanged DEF ReadsInv, Log!vars
  <1>2. CASE UNCHANGED vars
    BY <1>2 DEF vars, diskVars, readVars, Log!vars, Published, Retained
  <1> QED
    BY <1>1, <1>2, PublishesEntry, CommitterImplements, ReaderImplements, PowerLossImplements
    DEF Next, CommitterStep, ReaderStep

(***************************************************************************)
(* The store refines the log for every number of processes, runs and       *)
(* findings: a run enters it at the rename of evidence.json, above every   *)
(* run before it, every answered read is the log of one moment, and a      *)
(* power loss takes a younger part that no caller was told about.          *)
(***************************************************************************)
THEOREM LogImplemented == Spec => ImplementsLog
  BY LogInit, LogStep, ReadsHold, PTL DEF Spec, ImplementsLog, Log!Spec
==============================================================================
