\* One process that commits run after run and one that reads histories whose
\* rows may repeat; commit-sequence.json is restored while the disk is synced.
SPECIFICATION FairSpec
CONSTANTS
  Committers = {c1}
  Readers = {q1}
  RunIds = {r1, r2}
  Findings = {f1}
  MaxSeq = 2
  MaxUnsynced = 1
  Nobody = Nobody
INVARIANTS LockExcludes
PROPERTIES RefusalsExplained HistoryOnlyGrows ImplementsLog LocksReleased
