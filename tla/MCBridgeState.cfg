SPECIFICATION Spec
CONSTANTS
    MaxDrops = 2
    MaxResyncs = 1
    MaxChanges = 1
INVARIANT RunningIsOnline
INVARIANT DeviceIsCurrent
 
CHECK_DEADLOCK FALSE
