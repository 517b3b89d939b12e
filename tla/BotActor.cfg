SPECIFICATION Spec
CONSTANTS
    Callers = {c1, c2}
    Capacity = 1
    MaxCommands = 5
INVARIANTS
    OnlyActiveRunHasToken
    FlagsMatchState
PROPERTIES
    IsAtomicActor
    QueuedRestartRuns
    EveryCallReturns
CHECK_DEADLOCK FALSE
