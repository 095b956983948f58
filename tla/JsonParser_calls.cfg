SPECIFICATION Spec
CONSTANTS
  StackInc = 2
  StackMax = 2
  SizeMax = 15
  MaxFrames = 6
  MaxCount = 8
  MaxUnits = 5
  Calls = {"peek", "skip", "skip_until", "reset", "set_streaming", "source_get", "source_peek"}
  Targets = {"array", "object_end", "string", "done"}
  Careful = TRUE
INVARIANTS
  NeverInvalidState
  TokenBelongsToEvent
PROPERTIES
  SkipStaysBeside
  DoneMeansExhausted
  SkipAdvances
  RefinesEventGrammar
  DrivesContainerStack
