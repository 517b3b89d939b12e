SPECIFICATION Spec
CONSTANTS
    Bots = {b1, b2}
    Tasks = {t1, t2}
    Pids = {p1, p2}
    MaxLaunches = 2
INVARIANTS
    EveryRecordIsWatched
    StopFlagHasOwner
    OrphansExplained
    StopOkMeansDead
PROPERTIES
    DeadRecordIsCleared
