SPECIFICATION FairSpec
CONSTANTS
    EventCount = 3
    Hidden <- MCHidden
    MaxGeneration = 3
    MaxSerial = 3
    EditsWhileBusy = FALSE
INVARIANTS
    Agreement
    OneCandidate
    ParkedIsAwaited
PROPERTIES
    ControlsReturn
CHECK_DEADLOCK FALSE
