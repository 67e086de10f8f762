SPECIFICATION PathSpec
CONSTANTS
    RADIX = 11
    WORD = 2
    HALF = 1
    MAX_MESSAGE_LEN = 8
    Messages <- SomeMessages
    Malformed <- BadFrames
    MaxItems = 2
    BITS = 3
    MaxPieces = 7
    MaxIndex = 8
    NumPieces = 3
    Counts <- SmallCounts
    U32 = 8
    BLOCK_SIZE = 2
    SHA1_LEN = 2
    Lengths = {4, 5}
    Bytes = {0, 1, 2}
    truth <- Pattern
    MaxData = 3
    Infos <- AllInfos
    Unsafe <- UnsafeComponents
    OldFiles <- NoneOrLonger
INVARIANTS
    StreamFaithful
    EndsForCause
    HasExact
    CountExact
    ScanCorrect
    RemainingExact
    GenuineAssembles
    PanicsOnlyAtTail
    FilesAreSlices
    BytesInPlace
    GeometryAgrees
CHECK_DEADLOCK FALSE
