\* Two candidates, one flaky test run, half of the mutants must be killed.
SPECIFICATION Spec
CONSTANTS
  N = 2
  MaxFlakes = 1
  MutationMin = 50
INVARIANTS TypeOK KillsAreReal KillsAreCaused PassIsEarned NoFalseAlarm
