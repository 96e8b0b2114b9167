\* Two jobs, one of them fails while the other sends a large result.
SPECIFICATION Spec
CONSTANTS
  MaxInterrupts = 0
  MaxStrays = 1
  MayDie = FALSE
PROPERTIES OwnErrorKept
