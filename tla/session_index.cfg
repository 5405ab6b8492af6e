SPECIFICATION Spec
CONSTANTS
    ItemCount = 8
    Interval = 1
    Chunk = 1
    MaxCheckpoints = 5
    MaxCheckpointBytes = 5
    Sizes = {1}
    Failing <- NoItems
    Unrecordable <- NoItems
    OversizedFrames <- NoItems
INVARIANTS
    SeeksStayShort
