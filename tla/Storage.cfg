CONSTANTS
    stick = stick
    stickWithMode = stickWithMode
    button = button
    bad = bad
    NumPorts = 2
    Bindings <- MCBindings
    AsWritten <- MCAsWritten
    Malformed = bad
    MaxBindings = 2
    Fallback <- MCFallback
    Current = 3
    BufferLines = 3
    FactoryFiles <- MCFactoryFiles
    Edits <- MCEdits
    Faults <- AnyButShort
SPECIFICATION Spec
INVARIANTS
    TypeOK
    FailedSaveLeavesConfig
    MigrationKeepsMapping
    StaleFileIsMigrated
    OneCopyLeft
    SaveSurvivesReboot
PROPERTY
    ImplementsStore
