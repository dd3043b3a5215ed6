CONSTANTS
    Orders <- MCOrders
    Stressed <- MCStressed
    None = None
SPECIFICATION Spec
INVARIANTS
    OrderIsHeard
    MixtureStaysInPlace
    NeutralMixtureIsHarmless
