CONSTANTS
    Deadband = 2
    Kp = 3
    Floor = 15
    Ceiling = 60
    Devices <- OneHub
    Channels <- OnePort
    NumSeats = 2
    Axes <- MCAxes
    Triggers = {}
    Tables <- SeatTables
    MaxBindings = 2
    Stored <- SeatTables
    Reports <- SeatReports
    Rest <- MCRest
    Headings <- AtRest
    CancelThreshold = 10
    MKH_PULSE_FRAMES = 1
    LastFrame = 0
    MaxStep = 1
SPECIFICATION FairSpec
PROPERTY
    DropReachesPorts
