SPECIFICATION Spec
CONSTANTS
    Points = {"p"}
    Topology = "topology"
    Values = {v0, v1}
    v0 = v0
    v1 = v1
    BufferLimit = 2
    MaxChanges = 2
    MaxLosses = 1
    MaxOutages = 1
    MaxRequests = 1
SYMMETRY Symmetry
INVARIANT NothingMissed
INVARIANT RefreshCatches
INVARIANT DirtyOrPublished
CHECK_DEADLOCK FALSE
