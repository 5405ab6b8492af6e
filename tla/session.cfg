SPECIFICATION FairSpec
CONSTANTS
    ItemCount = 8
    Interval = 2
    Chunk = 2
    MaxCheckpoints = 3
    MaxCheckpointBytes = 6
    Sizes <- MCSizes
    Failing <- MCFailing
    Unrecordable <- MCUnrecordable
    OversizedFrames <- MCOversizedFrames
INVARIANTS
    LiveAtBoundary
    CandidateAtTarget
    CheckpointsExact
    CheckpointBudget
    CheckpointTotal
    RollbackNeverFails
    IndexStopsForCause
PROPERTIES
    ShortestReplay
    ImplementsTimeline
    ReplaysSettle
