SPECIFICATION ServicesSpec
CONSTANTS
    ConfigWriters = {t1, t2}
    KeepBaks = 1
    KeepBackups = 1
    MaxTransactions = 2
    MaxSeconds = 2
    MaxCrashes = 1
    MaxFailures = 1
    BotIds = {x1, x2}
    MaxBots = 1
    Requesters = {t1, t2}
    MaxActors = 2
    MaxRequests = 3
    MaxBootstraps = 2
    Roots = {Home, x1, x2}
    Home = Home
    NoRoot = NoRoot
    Savers = {u1}
    MaxMoves = 2
    MaxChanges = 2
    MaxExits = 1
    MaxIoErrors = 1
    KeepZips = 2
    KeepArchives = 1
    MaxInterruptions = 4
    Servers = {s1}
    Clients = {t1, t2}
    MaxOperations = 2
    MaxSaveErrors = 1
    MaxRestarts = 1
    StackBots = {x1, x2}
    MaxStarts = 3
    MaxReopens = 1
    TreeBots = {x1, x2}
    MaxTasks = 2
    MaxIoFailures = 1
    MaxLaunches = 2
INVARIANTS
    ServicesTypeOK
    AcknowledgedSaveIsKept
    RegistryIsConsistent
    
    
    
    
    
    
    QqStartsAsAsked
PROPERTIES
    RollbackIsComplete
SYMMETRY Symmetry
CHECK_DEADLOCK FALSE
