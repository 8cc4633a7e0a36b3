SPECIFICATION Spec
CONSTANTS
    BufferLimit = 1
    Threshold = 3
    MaxDelay = 2
    MaxOutages = 2
    MaxVerdicts = 1
INVARIANT AskedOnce
INVARIANT FatalIsDeserved
PROPERTY Reconnects
PROPERTY StopsInTheEnd
CHECK_DEADLOCK FALSE
