SPECIFICATION PipeSpec
CONSTANTS
  Steps <- MCSteps
  Elsewhere = {"mutation"}
  Moves = 3
INVARIANT
  ValidatedIsCurrent
