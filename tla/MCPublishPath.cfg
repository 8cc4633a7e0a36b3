SPECIFICATION Spec
CONSTANTS
    Entities = {0, 1}
    MaxWrites = 2
    MaxWire = 2
    MaxDrops = 2
    EscalationThreshold = 2
INVARIANT TypeOK
INVARIANT NoSilentDrop
INVARIANT BrokerFollows
PROPERTY DeliverySpec
PROPERTY Converges
CHECK_DEADLOCK FALSE
