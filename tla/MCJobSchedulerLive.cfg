CONSTANTS
    IntLimit = 8
    Data <- AllBodies
    Texts <- MCTexts
    CronNextRun <- EvenNext
    MaxSecond = 1
    MaxMinute = 1
    MaxHour = 1
    MaxDayOfWeek = 1
    MaxDayOfMonth = 2
    MaxMonth = 2
    CronIntSize = 8
    w1 = w1
    sc = sc
    c1 = c1
    Workers = {w1}
    Scheduler = sc
    Clients = {c1}
    NoClient = NoClient
    Bodies <- SomeBodies
    ReqIds = {17}
    Routes = {"CreateTask", "Jobs", "job"}
    MaxTime = 1
    MaxId = 1
    Faults = {"prepare", "busy", "read"}
    ErrorCodes = {1}
    NoRow = NoRow
    StartupFaults = {"open", "table", "bind"}
SPECIFICATION FairSpec
INVARIANT TypeOK
INVARIANT NeverEarly
PROPERTY StopsWhenTold
PROPERTY DueIsReported
PROPERTY RequestsAreAnswered
CHECK_DEADLOCK FALSE
