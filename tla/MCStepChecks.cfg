SPECIFICATION Spec
CONSTANTS
    QuantifierPrefixes <- ThreeVariables
    PrimaryType = 0
INVARIANTS
    ResolveIsReducedResolvent
    ResolventsAccepted
    AcceptedAreResolvents
    CollectedAreReducible
    OracleIsMembership
