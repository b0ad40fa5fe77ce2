SPECIFICATION RetriedJobsSpec
CONSTANTS
  Job = {j1, j2}
  MaxCells = 2
  TrueLen = 2
  Lies = {}
  Windows = {1, 2}
  SharedRegistry = TRUE
  VerifyWhole = TRUE
  TornSaves = FALSE

  Worker = {w1}
  Parts = {"job"}
  Submissions = 1
  Events = 0
  EventCap = 1
INVARIANTS
  ArtifactVerified
PROPERTIES
  Recovers
