SPECIFICATION StreamSpec
CONSTANTS
    MaxWindow = 2
    PageSize = 2
    MaxCount = 3
    TrailerCap = 3
    ScratchSize = 2
    Senders = {"skipping"}
INVARIANT SkippedLayoutAssembled
CHECK_DEADLOCK FALSE
