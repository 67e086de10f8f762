SPECIFICATION LoopSpec
CONSTANTS
    NumBlocks = 3
    MAX_PIPELINED_REQUESTS = 2
    REQUEST_TIMEOUT = 2
    SendBuffer = 2
    PeerReads = TRUE
    Calls = {"Running", "Paused"}
    MaxClaims = 2
INVARIANT OpenRequestTimed
