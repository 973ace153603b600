CONSTANTS
    Sizes <- SmallSizes
    ServerPartSize = 2
    CustomPartSizes = {0, 1, 2, 3}
SPECIFICATION FairSpec
INVARIANTS
    FinalizedIsWhole
    PartsExpectedKept
    ClosedWhenRaised
    BlobKept
PROPERTIES
    UploadEnds
CHECK_DEADLOCK FALSE
