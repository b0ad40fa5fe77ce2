SPECIFICATION Spec
CONSTANTS
  Peer = {p1, p2, p3}
  RangeCount = 3
  MaxConcurrency = 2
  MaxInflightPerSource = 1
  MaxRelocateAttempts = 1
  MaxRangeAttempts = 1
  RefreshEnabled = TRUE
  SelectorMayDecline = TRUE
  ControlCap = 2
  MaxCommands = 2
SYMMETRY PeerSymmetry
INVARIANTS
  TypeOK
  InFlightAccounting
  CapsRespected
  ProgressIsReal
  RetryBounded
PROPERTIES
  DoneNeverRefetched
  FetchesAreScheduled
  CheckpointGainsOnlyStaged
