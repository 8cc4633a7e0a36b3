SPECIFICATION Spec
CONSTANTS
    Spelling <- MCSpelling
    MaxSlugLength = 3
    Profiles <- MCProfiles
    KnownFunctions <- MCFunctions
    ChannelOrder <- MCOrder
    DeviceName <- MCDeviceName
    HiddenDevices = {}
    IncludeOrphans = FALSE
    TopicStyle = "slug"
    MaxPacketSize = 2
    SetpointLimits <- MCSetpointLimits
    Shapes <- MCShapes
    Start <- MCStart
    Names <- MCNames
    Payloads <- MCPayloads
    Stray <- MCStray
    Response <- MCResponse
    FirstReading <- MCFirstReading
    MaxChanges = 2
    MaxReports = 1
    MaxCommands = 1
INVARIANT TypeOK
INVARIANT CommandsLand
INVARIANT RestoreIsHarmless
INVARIANT InventoryIsTrue
INVARIANT ControlsAreHeard
PROPERTY TopicsNeverChangeHands
CHECK_DEADLOCK FALSE
