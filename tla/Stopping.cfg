SPECIFICATION FairSpec
CONSTANTS
    NumPieces = 2
    Peers = {p1, p2}
    NumBlocks <- OneBlock
    Aligned <- AllPieces
    MaxPipelined = 1
    Capacity = 1
    Bitfields <- SeedBitfield
    HaveIndices <- NoIndex
    ControlCalls <- AnyControl
PROPERTIES
    CompletionStops
    CancelStops
