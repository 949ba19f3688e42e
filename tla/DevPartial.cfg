SPECIFICATION CheckedSpec
CONSTANTS
    Inputs <- PartialProofs
    PROP_PACKING_THRESHOLD = 2
    GratCapacity = 25
    CONST_TRUE = 2147483647
    BitsBeyond = {0, 1}
    Padded = FALSE
INVARIANT
    DependenciesToTheLeft
