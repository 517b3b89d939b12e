SPECIFICATION Spec
CONSTANTS
    Bot = b
    Tasks = {t1, t2}
    Pids = {p1}
    MaxLaunches = 1
    Announcing = {}
    Operations = {"start", "stop"}
    Overlapping = {"start", "stop"}
    MaxOps = 2
PROPERTIES
    CancelledStartIsSilent
CHECK_DEADLOCK FALSE
