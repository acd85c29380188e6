SPECIFICATION Spec

CONSTANTS
    Texts <- AnyTexts
    Queries <- AllQueries
    Attributes <- AllAttributes
    Heads <- AllHeads

INVARIANTS
    PositionsInOrder
    ReadBack

CHECK_DEADLOCK FALSE
