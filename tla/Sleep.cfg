CONSTANTS
    NumDevices = 2
    NumEligible = 2
    NumPorts = 1
    Levels = {n, x}
    Neutral = n
    Configured <- AllBound
    OffGrace = 3
    WaitServices = 7
SPECIFICATION SleepSpec
INVARIANTS
    SleepTypeOK
    AsleepIsNeutral
    TimeoutMeansStaleRow
    CountdownHasOneWriter
    CountdownIsGuarded
    LockoutHasOwner
PROPERTIES
    DropIsServed
    QuietDropIsNeutral
    RejoinsAtNeutral
