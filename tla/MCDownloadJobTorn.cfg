SPECIFICATION FairSpec
CONSTANTS
  Job = {j1}
  MaxCells = 2
  TrueLen = 2
  Lies = {}
  Windows = {1}
  SharedRegistry = TRUE
  VerifyWhole = TRUE
  TornSaves = TRUE
PROPERTIES
  Recovers
