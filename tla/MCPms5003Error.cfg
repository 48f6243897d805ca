CONSTANTS
    MaxRequests = 1
    MaxPackets = 1
    MaxFaults = 1
    Cooperative = TRUE
    MaxSamples = 1
    Readings = {"r1"}
    Topics = 1

SPECIFICATION FairAppsSpec

PROPERTY ErrorDelaysOnly
