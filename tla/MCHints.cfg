SPECIFICATION CheckedSpec
CONSTANTS
    Inputs <- LegalProofs
    PROP_PACKING_THRESHOLD = 2
    GratCapacity = 25
    CONST_TRUE = 2147483647
    BitsBeyond = {1}
    Padded = TRUE
INVARIANTS
    HintsAccepted
    LemmasNumberedInOrder
PROPERTY
    EventuallyAccepted
