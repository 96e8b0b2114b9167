\* Two files, two edits, the jobs at once or one after the other.
SPECIFICATION Spec
CONSTANTS
  Files = {a, b}
  MaxEdits = 2
SYMMETRY Symmetry
INVARIANTS TypeOK OneTree EditsReported ExitMatchesEvidence PassNeedsBoth
