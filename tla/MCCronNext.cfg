CONSTANTS
    Seconds = 3
    Minutes = 2
    Hours = 2
    WeekDays = 2
    MonthDays <- SmallMonths
    LongestMonth = 3
    LeapMonth = 1
    LeapYears = {0, 2, 4, 6, 8, 10, 12}
    MaxDaySteps = 9
    MaxYearsDiff = 2
    MaxCalls = 220
    Times <- SmallTimes
    Exprs <- PlainExprs
SPECIFICATION AskSpec
INVARIANT PlainNextMatches
INVARIANT PlainNextIsEarliest
INVARIANT PlainIsAnswered
CHECK_DEADLOCK FALSE
