SPECIFICATION Spec
CONSTANTS
    Entities = {1, 2}
    Names = {a, b}
    a = a
    b = b
    Looks = {x}
    x = x
    None = none
    Gone = gone
    Shapes <- MCShapes
    Installed <- MCInstalled
    MaxChanges = 1
    MaxRequests = 1
    MaxFaults = 1
    MaxRestarts = 1
    MaxEvents = 3
INVARIANT TypeOK
INVARIANT RecordIsTrue
INVARIANT RecordIsSaved
INVARIANT DiscoveryIsCurrent
INVARIANT StatesAreThere
INVARIANT RequestsAreObeyed
CHECK_DEADLOCK FALSE
