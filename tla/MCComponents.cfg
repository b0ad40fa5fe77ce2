SPECIFICATION Spec
CONSTANTS
    MaxWindow = 2
    PageSize = 2
    MaxCount = 3
    TrailerCap = 3
    ScratchSize = 2
    Senders = {"conforming", "skipping", "arbitrary"}

    Requests = {r1, r2}
    Sessions = {s1, s2, s3}
    NoSession = NoSession
    Addresses <- MCAddresses
    HostOf <- MCHostOf
    MaxCandidates = 4
    MaxFaults = 2

    Paths = {p1, p2}
    Files = {f1, f2, f3, f4}
    Absent = Absent
    Jobs = {j1, j2}
    Sweeps = {w1}
    MaxClaims = 2
    MaxTrouble = 1

    Callers = {c1, c2}
    Conns = {k1, k2}
    GlobalRate = 2
    ConnRate = 1
    TicksPerSecond = 2
    Sizes = {0, 1, 5}
    MaxSize = 5

    Clients = {l1, l2}
    Urls = {u1}
    NoUrl = NoUrl

    Layouts <- MCLayouts
    MaxRangeWindow = 3
    MaxResourceSize = 5
    MaxChunkCount = 3
    MaxLength = 6
    DebugAssertions = FALSE

    Nodes = {n1, n2}
    Configs <- MCConfigs
    Window = 3
    MaxHopPath = 2
    Lengths = {0, 1, 2, 3}
    MaxStreams = 2
    Unreadable = Unreadable

INVARIANTS
    StreamBounded
    NeverPartialLayout
    NoRevisionBelieved
    ConformingAssembled
    ConnectTriesAll
    PromotesOwnFile
    RateKept
    AnswerJustified
    LeafOfWholeResource
    PlanIsVerifiable
    RelaySpendBounded
PROPERTIES
    BrokenSessionLeaves
    OrphansReaped
    AcquireReturns
CHECK_DEADLOCK FALSE
