SPECIFICATION FairSpec
CONSTANTS
    NumPieces = 1
    Peers = {p1, p2}
    NumBlocks <- OneBlock
    Aligned <- NoPieces
    MaxPipelined = 1
    Capacity = 1
    Bitfields <- SeedBitfield
    HaveIndices <- NoIndex
    ControlCalls <- OnlyPause
PROPERTY CompletionWakesEveryone
