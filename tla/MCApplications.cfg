CONSTANTS
    MaxRequests = 1
    MaxPackets = 1
    MaxFaults = 1
    Cooperative = TRUE
    MaxSamples = 3
    Readings = {"r1", "r2"}
    Topics = 2

SPECIFICATION FairAppsSpec

INVARIANTS
    AppsTypeOK
    AverageIsWhole
    NothingForgotten
    PublishedWhole

PROPERTIES
    NoSampleDropped
    EverySamplePublished
    LostRequestIsMadeUpFor
