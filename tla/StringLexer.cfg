SPECIFICATION StringSpec
CONSTANTS
  Cell <- Octet
  Nul = 0
  Unwritten = Unwritten
  InitialSize = 2
  BufferMax = 17
  Bytes = {10, 34, 48, 56, 68, 70, 92, 99, 110, 117, 128, 144, 160, 191, 194, 224, 237, 240, 244, 255}
  MoreBytes = {65, 92, 110}
  MaxChars = 2
INVARIANTS
  CharacterIsDenoted
  RejectsOnlyNonText
  StringIsWellFormed
PROPERTIES
  DrivesTokenBuffer
  RefinesTokenReader
