SPECIFICATION Spec
CONSTANTS
  StackInc = 2
  StackMax = 0
  SizeMax = 15
  MaxFrames = 6
  MaxCount = 8
  MaxUnits = 3
  Calls = {"peek", "reset"}
  Targets = {}
  Careful = FALSE
INVARIANT
  ErrorHasMessage
