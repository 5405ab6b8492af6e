SPECIFICATION Spec
CONSTANTS
    EventCount = 2
    Hidden <- MCHidden
    MaxGeneration = 2
    MaxSerial = 3
    EditsWhileBusy = FALSE
INVARIANTS
    NoRefusal
CHECK_DEADLOCK FALSE
