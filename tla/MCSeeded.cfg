SPECIFICATION SeededSpec
CONSTANTS
    NumPieces = 2
    Peers = {p1, p2}
    Seeds = {p1}
    NumBlocks <- TwoThenOne
    Aligned <- AllPieces
    MaxPipelined = 2
    Capacity = 1
    Bitfields <- SeedBitfield
    HaveIndices <- NoIndex
    ControlCalls <- PauseResume
INVARIANT SeedStillOwes
PROPERTIES
    SeedCompletes
