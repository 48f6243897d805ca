CONSTANTS
    Documents <- LongList
    UsizeRange = 4096

SPECIFICATION Spec

INVARIANTS
    ListLengthIsItemCount

CHECK_DEADLOCK FALSE
