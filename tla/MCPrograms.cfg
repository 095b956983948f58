SPECIFICATION Spec
CONSTANTS
  Probes = {0, 34, 127, 128, 191, 192, 255}
  Rows = 4360
  DigitBits = 2
  AccBits = 6
  MantBits = 3
  EMax = 3
  ExpCap = 15
  IntLimit = 26
  Powers <- MCPowers
  MaxDigits = 5
  Inputs <- MCInputs
  Signed = TRUE
  Fixed = FALSE
  Length = 5
  Budget = 12
  Output = {"A", "B"}
  Cases <- MCCases
  Durations = {19, 20, 30}
  Batch = 2
  Rounds = 2
  Labels <- MCLabels
  JobsOf <- MCJobsOf
  Workers = 2
  Outcomes = {"none", "divergence", "raises"}
  Kills = TRUE
  Fixtures = {1, 2, 3}
  Defects = {1, 2}
  Detector = "full"
  Points <- MCPoints
  Steps <- MCSteps
  Elsewhere = {"mutation"}
  Moves = 3
  SweepRuns <- MCRuns
  Transitions = {"s", "t"}
  Strays = {"odd"}
  Assertions = {1, 2}
  SuiteCases = {1, 2, 3}
  Lines <- MCLines
  FileLength = 5
  Ruled <- MCRuled
  Documents <- MCDocuments
  Figures = {"318", "99", "0.16.0"}
  Reasoned = {"99"}
  Identifiers = {"0.16.0"}
  Ledger <- MCLedger
  Marked = {"parseFloat"}
  CopyMoves = 3
INVARIANTS
  EscapesNameUnicode
  LegalIsWellFormed
  HexFloatsRoundToNearest
  HarnessesAgree
  HiddenOnlyByFailure
  CleanSessionIsClean
  ReproducerShowsKind
  MinimizedIsMinimal
  EvidenceAgrees
  VerifiedMeansClaimed
  SweepsAreHonest
  CaughtByTheDefect
  ReportsAreHonest
  InventoryIsComplete
  CopyIsBacked
PROPERTY
  SourceIsSteady
CHECK_DEADLOCK FALSE
