CONSTANTS
    NumDevices = 2
    NumEligible = 2
    NumPorts = 1
    Levels = {n, x}
    Neutral = n
    Configured <- FirstBound
    OffGrace = 2
SPECIFICATION FairSpec
PROPERTIES
    ActiveIsServiced
    ImplementsLifecycle
