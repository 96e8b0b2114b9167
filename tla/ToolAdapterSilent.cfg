\* The user presses Ctrl-C twice.
SPECIFICATION Spec
CONSTANT MaxInterrupts = 2
PROPERTY OneResponse
