SPECIFICATION Spec
CONSTANTS
    Callers = {c1}
    Tasks = {1, 2, 3, 4}
    Exclusive = {"pkg", "napcat"}
    Keys = {"install"}
    Requests <- MCInstalls
    MaxDownloads = 2
INVARIANTS
    DownloadsAreLimited
CHECK_DEADLOCK FALSE
