CONSTANTS
    Buffers = {b1, b2}
    BufSize = 2
    RingSize = 3
    NULL = NULL

SPECIFICATION FairSpec

INVARIANTS
    TypeOK
    SlabOwnership
    HandlerToken
    NoLostWakeup
    RestartArmed
    RequestAnswered

PROPERTIES
    Recovers
    ImplementsPipe
