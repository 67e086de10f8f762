SPECIFICATION NetworkSpec
CONSTANTS
    Metas <- SmallMetas
    Garbage <- SmallGarbage
    RADIX = 4
    V4 = 1
    V6 = 4
    HALF = 2
    Urls = {"h1", "h2", "u1", "u6", "w1"}
    scheme <- Scheme
    Over6 = {"u6"}
    Torrents <- SomeTorrents
    Bodies <- SomeBodies
    Outcomes <- SomeOutcomes
    MAX_ATTEMPTS = 3
    ConnectionIds = {k1, k2}
    Answers = {7, 20, 23, 26}
    EarlierTxns = {"b"}
    NumBlocks = 3
    MAX_PIPELINED_REQUESTS = 2
    REQUEST_TIMEOUT = 2
    SendBuffer = 1
    PeerReads = TRUE
    Calls = {"Running", "Paused", "Cancelled"}
    MaxClaims = 2
INVARIANTS
    SpanIsInfo
    PeersNamed
    NoneOverlooked
    OkIsRegistered
    SilenceBounded
PROPERTIES
    AnnounceEnds
    CancelHeeded
CHECK_DEADLOCK FALSE
