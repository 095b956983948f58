SPECIFICATION TokenSpec
CONSTANTS
  Nul = Nul
  Unwritten = Unwritten
  Cell = {Nul, byte}
  InitialSize = 2
  BufferMax = 9
INVARIANTS
  BufferCarriesNul
