SPECIFICATION SpecWithoutRefresh
CONSTANTS
    Points = {"p"}
    Topology = "topology"
    Values = {0, 1}
    BufferLimit = 2
    MaxChanges = 1
    MaxLosses = 0
    MaxOutages = 0
    MaxRequests = 1
PROPERTY DebtsArePaid
CHECK_DEADLOCK FALSE
