\* Three paths of any kind and two modules; two times a file is created or deleted
\* during the load. Loading a project ends.
SPECIFICATION Spec
CONSTANTS
  Files = {1, 2, 3}
  Modules = {1, 2}
  Selected = 1
  Kinds <- MCKinds
  MaxEdits = 2
  Outside = Outside
  None = None
INVARIANTS TypeOK AcceptedScope TidyIffAccepted
CHECK_DEADLOCK FALSE
