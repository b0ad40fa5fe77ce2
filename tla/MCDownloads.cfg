SPECIFICATION DownloadsSpec
CONSTANTS
  Job = {j1}
  MaxCells = 3
  TrueLen = 2
  Lies = {1, 3}
  Windows = {1, 2}
  SharedRegistry = TRUE
  VerifyWhole = TRUE
  TornSaves = TRUE

  Worker = {w1, w2}
  Parts = {"job", "queue"}
  Submissions = 3
  Events = 2
  EventCap = 1
INVARIANTS
  TypeOK
  ArtifactVerified
  ActiveBounded
  BoundedOvertaking
PROPERTIES
  ArtifactSpec
  PromotesWhatItChecked
  VerifiedRangeNeverRefetched
  ReadersAreServed
CHECK_DEADLOCK FALSE
