SPECIFICATION Spec
CONSTANTS
  Peer = {p1, p2}
  RangeCount = 2
  MaxConcurrency = 2
  MaxInflightPerSource = 1
  MaxRelocateAttempts = 1
  MaxRangeAttempts = 1
  RefreshEnabled = TRUE
  SelectorMayDecline = FALSE
  ControlCap = 1
  MaxCommands = 2
PROPERTIES
  NoProvidersMeansExhausted
