CONSTANTS
    Jobs = {j1}
    Files = 4
    MaxRestarts = 1
    None = None
SPECIFICATION SpecEngineEnds
CHECK_DEADLOCK FALSE
INVARIANTS
    TypeOK
PROPERTIES
    TerminalStable
    ProgressMonotone
    ImplementsLifecycle
    WaiterReturns
