SPECIFICATION Spec
CONSTANTS
    Bot = b
    Tasks = {t1}
    Pids = {p1}
    MaxLaunches = 1
    Announcing = {1}
    Operations = {"start", "stop"}
    Overlapping = {}
    MaxOps = 3
INVARIANTS
    NoEndpointOnDeadPort
CHECK_DEADLOCK FALSE
