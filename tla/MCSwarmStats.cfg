SPECIFICATION StatsSpec
CONSTANTS
    Peers = {p1, p2}
    Pieces = {0}
    NumBlocks = 2
    BLOCK_SIZE = 1
    NonZero <- ZeroTail
    BlockLengths = {0, 1, 2}
    MaxWire = 2
INVARIANTS
    WireCoversContent
    EntriesFollowSessions
PROPERTY
    SnapshotsAdvance
SYMMETRY PeerSymmetry
