SPECIFICATION Spec
CONSTANTS
    Bots = {b1, b2}
    App = app
    MaxRuns = 2
PROPERTIES
    OnlyLastBotStopsNode
CHECK_DEADLOCK FALSE
