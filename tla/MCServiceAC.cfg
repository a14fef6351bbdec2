CONSTANTS
    IntLimit = 64
    Data = {data1}
    data1 = data1
    Texts <- MCTexts
    CronNextRun <- cron_next
    MaxSecond = 1
    MaxMinute = 1
    MaxHour = 1
    MaxDayOfWeek = 1
    MaxDayOfMonth = 3
    MaxMonth = 3
    CronIntSize = 8
    Seconds = 2
    Minutes = 2
    Hours = 2
    WeekDays = 2
    MonthDays <- SmallMonths
    LongestMonth = 3
    LeapMonth = 1
    MaxCalls = 150
    Bodies <- MCBodies
    LeapYears = {0, 2, 4, 6, 8, 10, 12}
    MaxDaySteps = 9
    MaxYearsDiff = 2
    Clock = {3, 16, 62}
SPECIFICATION Spec
CHECK_DEADLOCK FALSE
INVARIANT StoresCorrectNextRunTime
