CONSTANTS
    Data = {d}
    MaxWords = 2
    MaxFaults = 2

SPECIFICATION FairSpec

INVARIANTS
    CleanIsSent
    NoFillByteLeaks
    EndIsExact

PROPERTIES
    AttemptEnds
