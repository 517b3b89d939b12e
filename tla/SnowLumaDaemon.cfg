SPECIFICATION BackendsSpec
CONSTANTS
    Bots = {b1, b2}
    App = app
    MaxRuns = 2
    MaxPollers = 2
    MaxSwings = 3
    MaxPolls = 4
SYMMETRY Symmetry
INVARIANTS
    BusyStateHasOwner
    ChildIsWatched
    CountIsHolders
    ReadyHasClient
    OrphanNeedsFault
    HolderIsServed
    
    DeadNodeIsNoticed
PROPERTIES
    OutageIsReported
    
CHECK_DEADLOCK FALSE
