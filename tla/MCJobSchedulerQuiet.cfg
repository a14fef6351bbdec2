CONSTANTS
    IntLimit = 8
    Data <- AllBodies
    Texts <- MCTexts
    CronNextRun <- EvenNext
    MaxSecond = 1
    MaxMinute = 1
    MaxHour = 1
    MaxDayOfWeek = 1
    MaxDayOfMonth = 2
    MaxMonth = 2
    CronIntSize = 8
    w1 = w1
    sc = sc
    c1 = c1
    c2 = c2
    w2 = w2
    Workers = {w1, w2}
    Scheduler = sc
    Clients = {c1, c2}
    NoClient = NoClient
    Bodies <- OneBody
    ReqIds = {1}
    Routes = {"CreateTask", "DeleteTask", "pause", "resume"}
    MaxTime = 1
    MaxId = 1
    Faults = {}
    ErrorCodes = {1}
    NoRow = NoRow
    StartupFaults = {}
SYMMETRY Symmetry
SPECIFICATION Spec
INVARIANT StoppedStaysQuiet
INVARIANT CleanExit
CHECK_DEADLOCK FALSE
