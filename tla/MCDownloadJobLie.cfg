SPECIFICATION FairSpec
CONSTANTS
  Job = {j1}
  MaxCells = 3
  TrueLen = 2
  Lies = {3}
  Windows = {1}
  SharedRegistry = TRUE
  VerifyWhole = TRUE
  TornSaves = FALSE
PROPERTIES
  Recovers
