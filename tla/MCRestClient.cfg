SPECIFICATION RestSpec
CONSTANTS
    r1 = r1
    r2 = r2
    r3 = r3
    Requests = {r1, r2, r3}
    MaxInflight = 2
    MaxAttempts = 2
    Uuids = {sysap}
    NoUuid = NoUuid
INVARIANT TypeOK
INVARIANT SlotsAccounted
INVARIANT NoLostWakeup
PROPERTY EveryCallEnds
CHECK_DEADLOCK FALSE
