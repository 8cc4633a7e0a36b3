SPECIFICATION Spec
CONSTANTS
    Attrs = {0, 1}
    Values = {v0, v1}
    v0 = v0
    v1 = v1
    None = none
    Continuous = {}
    Confirmed = {0, 1}
    Faults = {}
    MaxCommands = 2
    MaxForeign = 0
    MaxFaults = 0
    MaxGets = 1
    MaxResyncs = 0
PROPERTY GuessesResolve
CHECK_DEADLOCK FALSE
