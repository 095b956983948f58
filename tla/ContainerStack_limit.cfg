SPECIFICATION StackSpec
CONSTANTS
  StackInc = 2
  StackMax = 2
  SizeMax = 15
  MaxFrames = 6
  MaxCount = 2
INVARIANT
  NestingWithinLimit
