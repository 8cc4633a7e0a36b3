SPECIFICATION Spec
CONSTANTS
    Serials = {s1}
    s1 = s1
    Params = {short, other, forever}
    short = short
    other = other
    forever = forever
    Forever = {forever}
    MaxRequests = 3
    MaxFaults = 1
    Gone = gone
    None = none
INVARIANT AsAcknowledged
CHECK_DEADLOCK FALSE
