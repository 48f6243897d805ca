CONSTANTS
    Documents <- MCDocuments
    UsizeRange = 4096

SPECIFICATION Spec

INVARIANTS
    TypeOK
    ItemsInOrder
    NoFalseAlarm

PROPERTIES
    EndIsTheEnd

CHECK_DEADLOCK FALSE
