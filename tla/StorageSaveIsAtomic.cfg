CONSTANTS
    stick = stick
    stickWithMode = stickWithMode
    button = button
    bad = bad
    NumPorts = 2
    Bindings <- MCBindings
    AsWritten <- MCAsWritten
    Malformed = bad
    MaxBindings = 2
    Fallback <- MCFallback
    Current = 3
    BufferLines = 3
    FactoryFiles <- MCFactoryFiles
    Edits <- MCEdits
    Faults <- PowerOnly
SPECIFICATION Spec
INVARIANT SaveIsAtomic
