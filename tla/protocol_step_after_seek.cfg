\* A load, a seek and a step are enough.
SPECIFICATION FairSpec
CONSTANTS
    ItemCount = 1
    MaxTurns = 2
    MaxGeneration = 2
PROPERTIES
    StepsAnswered
CHECK_DEADLOCK FALSE
