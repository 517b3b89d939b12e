SPECIFICATION Spec
CONSTANTS
    Bot = b
    Tasks = {t1}
    Pids = {p1, p2}
    MaxLaunches = 2
    Announcing = {1, 2}
    Operations = {"start", "stop", "restart", "switch"}
    Overlapping = {}
    MaxOps = 3
INVARIANTS
    SettledLoginIsTrue
SYMMETRY Symmetry
CHECK_DEADLOCK FALSE
