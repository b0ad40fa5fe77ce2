SPECIFICATION FairSpec
CONSTANTS
  Peer = {h, l1, l2}
  Honest = {h}
  Truth <- MCTruth
  Rot = 9
  Descriptors <- MCLies
  HonestLens <- MCHonestLens
  MaxModuleSize = 3
  MaxModuleChunkCount = 2
  MaxAttempts = 2
  MaxVerdicts = 1
INVARIANTS
  TypeOK
  ArtifactAnchored
  LiarsCannotDeny
PROPERTIES
  HonestNeverBranded
  MemoryOnlyReorders
  CallEnds
