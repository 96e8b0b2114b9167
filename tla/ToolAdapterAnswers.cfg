\* Every request, every end of the launcher and the check, three interrupts.
SPECIFICATION FairSpec
CONSTANT MaxInterrupts = 3
INVARIANTS TypeOK VerdictIsRecorded CancelledIsOver
PROPERTY CancelEnds
