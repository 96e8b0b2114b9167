\* Two committers, no reader: every interleaving, crash, power loss and
\* rollback of the sequence file, with one number to waste.
SPECIFICATION Spec
CONSTANTS
  Committers = {c1, c2}
  Readers = {}
  RunIds = {r1, r2}
  Findings = {f1}
  MaxSeq = 3
  MaxUnsynced = 4
  Nobody = Nobody
SYMMETRY Symmetry
INVARIANTS TypeOK UniqueSequences BundlesComplete AckedDurable
PROPERTIES ImplementsLog
