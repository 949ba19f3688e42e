SPECIFICATION Spec
CONSTANTS
    Inputs <- MixedProofs
    PROP_PACKING_THRESHOLD = 2
    GratCapacity = 25
    CONST_TRUE = 2147483647
    BitsBeyond = {0, 1}
INVARIANTS
    TypeOK
    CoreFound
    AxiomsCounted
    CoreFilesAreProofs
    NoDefaultInserted
    PhasesHaveEflits
    NoStalePhase
    NumbersNameTheirClauses
    PhasesSharedByMeaning
    KeptUntilLastUse
    DefinedOnce
    DependenciesToTheLeft
PROPERTIES
    HintsStayValid
    Terminates
