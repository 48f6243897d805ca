CONSTANTS
    Documents <- HugeString
    UsizeRange = 4096

SPECIFICATION Spec

INVARIANTS
    LengthFits

CHECK_DEADLOCK FALSE
