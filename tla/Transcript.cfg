SPECIFICATION FairTranscriptSpec
CONSTANTS
  StackInc = 2
  StackMax = 0
  SizeMax = 15
  MaxFrames = 6
  MaxCount = 8
  MaxUnits = 6
  Calls = {"peek", "skip", "skip_until", "reset", "set_streaming", "source_get", "source_peek"}
  Targets = {"array", "string"}
  Careful = TRUE
  Modes = {"next", "nostream", "peek", "skip", "skipuntil", "sep", "after-end"}
  MaxRecords = 14
INVARIANTS
  NoViolation
  ObservedIsSpecified
PROPERTY
  TranscriptEnds
CHECK_DEADLOCK FALSE
