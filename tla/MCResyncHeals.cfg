SPECIFICATION Spec
CONSTANTS
    Points = {"p"}
    Topology = "topology"
    Values = {0, 1}
    BufferLimit = 1
    MaxChanges = 2
    MaxLosses = 1
    MaxOutages = 1
    MaxRequests = 0
INVARIANT TypeOK
PROPERTY Heals
CHECK_DEADLOCK FALSE
