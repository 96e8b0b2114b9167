\* Files of four lines, three callables, two mutants and limits that some
\* runs meet exactly. A command ends.
SPECIFICATION Spec
CONSTANTS
  MaxLine = 4
  MaxCallables = 3
  MaxComplexity = 2
  MaxMutants = 2
  Times = {1, 2}
  CrapMaxTexts <- MCCrapMaxTexts
  MutationMinTexts <- MCMutationMinTexts
INVARIANTS DocumentsAccepted VerdictIsExact FailureIsRecorded LinesCountedOnce
CHECK_DEADLOCK FALSE
