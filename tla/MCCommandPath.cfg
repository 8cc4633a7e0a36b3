SPECIFICATION Spec
CONSTANTS
    Attrs = {0}
    Values = {v0, v1}
    v0 = v0
    v1 = v1
    None = none
    Continuous = {0}
    Confirmed = {0}
    Faults = {"refused", "broken", "repeated", "ignored", "silent", "unread"}
    MaxCommands = 2
    MaxForeign = 1
    MaxFaults = 1
    MaxGets = 1
    MaxResyncs = 1
SYMMETRY Symmetry
INVARIANT TypeOK
INVARIANT UnmarkedIsTrue
INVARIANT GuessIsWatched
INVARIANT FinalValueSent
INVARIANT Obeyed
CHECK_DEADLOCK FALSE
