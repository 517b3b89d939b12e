SPECIFICATION Spec
CONSTANTS
    Bot = b
    Tasks = {t1, t2}
    Pids = {p1, p2}
    MaxLaunches = 2
    Announcing = {}
    Operations = {"start", "stop", "restart", "switch"}
    Overlapping = {"start", "stop"}
    MaxOps = 3
INVARIANTS
    SettledStateIsTrue
    OrphanNeedsFault
    OneLaunchAtATime
PROPERTIES
    StartingEnds
CHECK_DEADLOCK FALSE
