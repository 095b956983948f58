SPECIFICATION NumberSpec
CONSTANTS
  Cell = {"-", "+", "0", "1-9", ".", "e", "nul", "other"}
  Nul = "nul"
  Unwritten = Unwritten
  InitialSize = 2
  BufferMax = 17
  MaxBytes = 8
INVARIANTS
  NumberIsLongest
  RejectsOnlyNonNumbers
PROPERTIES
  RefinesTokenReader
