SPECIFICATION Spec
CONSTANTS
    NumPieces = 2
    Peers = {p1, p2}
    NumBlocks <- TwoThenOne
    Aligned <- AllPieces
    MaxPipelined = 2
    Capacity = 1
    Bitfields <- FirstOrAll
    HaveIndices <- LastAndPastEnd
    ControlCalls <- AnyControl
SYMMETRY PeerSymmetry
INVARIANTS
    TypeOK
    HaveNotClaimed
    NoIdleWhileNeeded
    AvailabilityExact
    ClaimHasHolder
    DoneMeansComplete
    CompleteMeansWritten
PROPERTY
    ImplementsPieceStream
