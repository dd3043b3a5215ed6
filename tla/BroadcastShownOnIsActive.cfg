CONSTANTS
    NumDevices = 2
    NumEligible = 2
    NumPorts = 1
    Levels = {n, x}
    Neutral = n
    Configured <- AllBound
    OffGrace = 3
SPECIFICATION Spec
INVARIANT
    ShownOnIsActive
