CONSTANTS
    Specifications <- MCSpecifications
    MaxLength = 9
    Items <- MCItems
    Documents <- MCDocuments
    Sent <- MCSent
    NoDocument = NoDocument
    Nothing = Nothing

SPECIFICATION Spec

INVARIANTS
    TypeOK
    SchemaIsSpecification
    VariantsToldApart
    FieldIsItsItem
    NoFalseRefusal

CHECK_DEADLOCK FALSE
