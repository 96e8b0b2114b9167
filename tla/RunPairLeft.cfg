\* The user interrupts once; with MaxInterrupts = 0 the run shows the other
\* thing that is left behind.
SPECIFICATION Spec
CONSTANTS
  MaxInterrupts = 1
  MaxStrays = 1
  MayDie = FALSE
INVARIANTS CleanedUp
