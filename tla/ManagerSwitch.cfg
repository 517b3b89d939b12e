SPECIFICATION Spec
CONSTANTS
    Bot = b
    Tasks = {t1}
    Pids = {p1}
    MaxLaunches = 1
    Announcing = {}
    Operations = {"start", "switch"}
    Overlapping = {}
    MaxOps = 2
PROPERTIES
    SwitchLaunchesNewBackend
CHECK_DEADLOCK FALSE
