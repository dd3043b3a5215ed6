CONSTANTS
    x = x
    y = y
    plain = plain
    tuned = tuned
    NumPorts = 3
    Bindings <- MCBindings
    AsWritten <- AsIs
    Malformed = Malformed
    MaxBindings = 2
    Fallback <- MCFallback
    Current = 3
    BufferLines = 4
    Inputs <- MCInputs
    None = None
    Settings <- MCSettings
    Default = plain
    HubOf <- MCHubOf
    NumEditable = 1
    Files <- MCFiles
    MaxEdits = 2
SPECIFICATION Spec
INVARIANTS
    TypeOK
    ShownIsEdited
    ReplaceHasTarget
PROPERTIES
    DirtyMeansChanged
    EditsStayOnTheirPort
    PagingKeepsEdit
    ImplementsSession
