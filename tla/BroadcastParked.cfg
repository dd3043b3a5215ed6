CONSTANTS
    NumDevices = 2
    NumEligible = 1
    NumPorts = 1
    Levels = {n, x}
    Neutral = n
    Configured <- AllBound
    OffGrace = 2
SPECIFICATION FairSpec
INVARIANT
    ParkedStaysOff
PROPERTIES
    LockoutEnds
    HeldValuesReachAir
