SPECIFICATION StackSpec
CONSTANTS
  StackInc = 2
  StackMax = 3
  SizeMax = 15
  MaxFrames = 6
  MaxCount = 2
INVARIANTS
  OpenFramesWritten
  NestingWithinLimitPlusOne
PROPERTY
  RefinesAbstractStack
