SPECIFICATION StackSpec
CONSTANTS
  StackInc = 4
  StackMax = 1
  SizeMax = 15
  MaxFrames = 6
  MaxCount = 2
INVARIANT
  CurrentFrameWritten
