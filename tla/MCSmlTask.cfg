CONSTANTS
    v = v
    w = w
    NoValue = NoValue
    Numbers <- MCNumbers
    Frames <- MCFrames

SPECIFICATION Spec

INVARIANTS
    TypeOK
    ReportsWhatWasSent
    ChecksumCoversMessage
