CONSTANTS
    Sizes <- SmallSizes
    ServerPartSize = 2
    CustomPartSizes = {0, 1, 2, 3}
SPECIFICATION Spec
INVARIANTS
    ClosedOnAnyFailure
CHECK_DEADLOCK FALSE
