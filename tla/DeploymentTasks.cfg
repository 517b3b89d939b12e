SPECIFICATION Spec
CONSTANTS
    Callers = {c1}
    Tasks = {1, 2, 3, 4}
    Exclusive = {"pkg", "napcat"}
    Keys = {"install"}
    Requests <- MCRequests
    MaxDownloads = 2
INVARIANTS
    HoldingsAreRunning
    WaitingHasReason
PROPERTIES
    DependenciesComeFirst
    EveryTaskEnds
CHECK_DEADLOCK FALSE
