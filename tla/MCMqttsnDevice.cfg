CONSTANTS
    MaxRequests = 2
    MaxPackets = 2
    MaxFaults = 2
    FeedInterval = 2
    MaxWindow = 4
    MaxLate = 1

SPECIFICATION FairWdSpec

INVARIANTS
    WdTypeOK
    ConnectedMeansClient
    FeedArmed
    NoFalseReset
    OutageBounded

PROPERTIES
    RequestServed
    DeadDeviceResets
