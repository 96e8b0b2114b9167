\* Jobs fail, workers die, and the command is interrupted twice, so that the
\* second interrupt may hit the cleanup after the first.
SPECIFICATION FairSpec
CONSTANTS
  MaxInterrupts = 2
  MaxStrays = 1
  MayDie = TRUE
INVARIANTS TypeOK NoFalseFailure PairComplete WorkersGone
PROPERTIES Finishes DrainedBeforeReport
