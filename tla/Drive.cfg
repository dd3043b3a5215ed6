CONSTANTS
    Deadband = 2
    Kp = 3
    Floor = 15
    Ceiling = 60
    Devices <- TwoHubs
    Channels <- OnePort
    NumSeats = 1
    Axes <- MCAxes
    Triggers = {}
    Tables <- MCTables
    MaxBindings = 2
    Stored <- MCStored
    Reports <- MCReports
    Rest <- MCRest
    Headings <- MCHeadings
    CancelThreshold = 10
    MKH_PULSE_FRAMES = 1
    LastFrame = 3
    MaxStep = 2
SPECIFICATION Spec
INVARIANTS
    TypeOK
    FailsafeHolds
    LockIsExclusive
    PulseEndsOnTime
    LockTurnsShortWay
    DetectorsAreCurrent
PROPERTIES
    LockGivesWay
    PulseIsWhole
