------------------------------ MODULE CronNext ------------------------------
(***************************************************************************)
(* cron_next of the vendored croncpp, which compute_cron_next_run() calls  *)
(* for the next_run_time of a CRON job.  The library is a template over    *)
(* its Traits; so is this module, over a calendar that an instance makes   *)
(* small enough to compare every answer with a search of the calendar.     *)
(*                                                                         *)
(* A time is a number of seconds; a date is the struct tm of it, with      *)
(* months and days of the week from 0 and days of the month from 1.  There *)
(* is no daylight saving time: mktime is exact and never fails.            *)
(***************************************************************************)
EXTENDS Integers, Sequences, FiniteSetsExt

CONSTANTS Seconds, Minutes, Hours,  \* in a minute, an hour, a day
          WeekDays,                 \* in a week
          MonthDays,                \* sequence of the lengths of the months
          LongestMonth,             \* no month is longer (CRON_MAX_DAYS_OF_MONTH)
          LeapMonth, LeapYears,     \* the month with a day more in leap years
          MaxDaySteps,              \* find_next_day gives up (366)
          MaxYearsDiff,             \* find_next gives up (CRON_MAX_YEARS_DIFF)
          MaxCalls                  \* bound: calls of find_next within each other

Months == Len(MonthDays)
INVALID == -1

\* No month is shorter than a week, nor longer than a search by days.
ASSUME CalendarAssumption ==
    /\ {Seconds, Minutes, Hours, WeekDays} \subseteq Nat \ {0}
    /\ LeapYears \subseteq Nat
    /\ MonthDays \in Seq(Nat) /\ Months > 0
    /\ \A m \in 1 .. Months : MonthDays[m] \in WeekDays .. LongestMonth
    /\ LeapMonth < Months => MonthDays[LeapMonth + 1] < LongestMonth
    /\ {LeapMonth, LongestMonth, MaxDaySteps, MaxYearsDiff, MaxCalls} \subseteq Nat
    /\ LongestMonth <= MaxDaySteps

-----------------------------------------------------------------------------
(***************************************************************************)
(* The calendar: mktime and localtime.                                     *)
(***************************************************************************)
\* Months are counted from the first month of year 0.
MonthLength(month) ==
    LET mon  == month % Months
        leap == mon = LeapMonth /\ month \div Months \in LeapYears
    IN  MonthDays[mon + 1] + IF leap THEN 1 ELSE 0

DaysBefore[month \in Nat] ==
    IF month = 0 THEN 0 ELSE DaysBefore[month - 1] + MonthLength(month - 1)

\* Fields out of their range, a day 31 of a month of 30 say, run on into the next.
tm_to_time(d) ==
    (((DaysBefore[d.year * Months + d.mon] + d.mday - 1)
        * Hours + d.hour) * Minutes + d.min) * Seconds + d.sec

\* The month of a day counted from the first day of year 0.
MonthAt(days) ==
    CHOOSE m \in 0 .. days : DaysBefore[m] <= days /\ days < DaysBefore[m + 1]

time_to_tm(t) ==
    LET minutes == t \div Seconds
        hours   == minutes \div Minutes
        days    == hours \div Hours
        month   == MonthAt(days)
    IN  [sec  |-> t % Seconds,
         min  |-> minutes % Minutes,
         hour |-> hours % Hours,
         mday |-> days - DaysBefore[month] + 1,
         mon  |-> month % Months,
         year |-> month \div Months,
         wday |-> days % WeekDays]

\* Every field that can be written, in its range or not.
Date == [sec : Nat, min : Nat, hour : Nat, mday : Nat \ {0}, mon : Nat, year : Nat, wday : Nat]

Normal(d) == time_to_tm(tm_to_time(d))

-----------------------------------------------------------------------------
(***************************************************************************)
(* The fields of a date.  Every assignment is followed by mktime, which    *)
(* also works the day of the week out again.                               *)
(***************************************************************************)
add_to_field(date, field, val) == Normal([date EXCEPT ![field] = @ + val])
set_field(date, field, val) == Normal([date EXCEPT ![field] = val])
reset_field(date, field) ==
    set_field(date, field, IF field = "mday" THEN 1 ELSE 0)

\* From the seconds up, in the order of the enumeration cron_field.
Reset(date, field, marked) == IF field \in marked THEN reset_field(date, field) ELSE date
reset_all_fields(date, marked) ==
    Reset(Reset(Reset(Reset(date, "sec", marked), "min", marked), "hour", marked), "mday", marked)

next_set_bit(target, offset) ==
    LET ahead == {i \in target : i >= offset}
    IN  IF ahead = {} THEN INVALID ELSE Min(ahead)

\* A find_next of one field that keeps the lower fields of the date.
KeepingFindField(target, date, field, next_field, marked) ==
    LET here   == next_set_bit(target, date[field])
        turned == reset_field(add_to_field(date, next_field, 1), field)
    IN  CASE here = date[field] -> [same |-> TRUE, date |-> date]
          [] here = INVALID ->
                [same |-> FALSE, date |-> set_field(turned, field, next_set_bit(target, 0))]
          [] OTHER -> [same |-> FALSE, date |-> set_field(date, field, here)]

\* find_next of one field: whether it keeps its value, and the date it leaves.
\* A value that is found in the next turn of the field is not the one it had.
Moved(date, field, value, marked) ==
    [same |-> FALSE, date |-> reset_all_fields(set_field(date, field, value), marked)]

FindField(target, date, field, next_field, marked) ==
    LET here   == next_set_bit(target, date[field])
        turned == reset_field(add_to_field(date, next_field, 1), field)
    IN  CASE here = date[field] -> [same |-> TRUE, date |-> date]
          [] here = INVALID -> Moved(turned, field, next_set_bit(target, 0), marked)
          [] OTHER -> Moved(date, field, here, marked)

DayMatches(cex, date) ==
    date.mday \in cex.days_of_month /\ date.wday \in cex.days_of_week

\* find_next_day: a day at a time, until one matches or there were too many.
\* The day of the month it returns is that of the date it leaves.
DayAfter(date, n, marked) ==
    IF n = 0 THEN date ELSE reset_all_fields(add_to_field(date, "mday", n), marked)

DaysToMatch(cex, date, marked) ==
    Min({n \in 0 .. MaxDaySteps : DayMatches(cex, DayAfter(date, n, marked))} \cup {MaxDaySteps})

find_next_day(cex, date, marked) ==
    LET found == DayAfter(date, DaysToMatch(cex, date, marked), marked)
    IN  [same |-> found.mday = date.mday, date |-> found]

-----------------------------------------------------------------------------
(***************************************************************************)
(* find_next of a date.  A field that has to move starts the search over   *)
(* from the date it moved to and then goes on with the next field.         *)
(***************************************************************************)
Found(date) == [ok |-> TRUE, date |-> date]
Failed(date) == [ok |-> FALSE, date |-> date]

Mark(marked, step, field) == IF step.same THEN marked \cup {field} ELSE marked

\* The search that starts over if the field has moved: again[date] is what it
\* returns for the date the field moved to.
Again(step, again) == IF step.same THEN Found(step.date) ELSE again[step.date]

\* The rest of a call, from one field on, unless the search that started over
\* at the field before has failed.
FindMonth(cex, past, marked, dot, again) ==
    LET month == FindField(cex.months, past.date, "mon", "year", marked)
    IN  CASE ~past.ok -> past
          [] past.ok /\ ~month.same /\ month.date.year - dot > MaxYearsDiff -> Failed(month.date)
          [] OTHER -> Again(month, again)

FindDay(cex, past, marked, dot, again) ==
    LET day == find_next_day(cex, past.date, marked)
    IN  IF past.ok THEN FindMonth(cex, Again(day, again), Mark(marked, day, "mday"), dot, again)
        ELSE past

FindHour(cex, past, marked, dot, again) ==
    LET hour == FindField(cex.hours, past.date, "hour", "mday", marked)
    IN  IF past.ok THEN FindDay(cex, Again(hour, again), Mark(marked, hour, "hour"), dot, again)
        ELSE past

FindMinute(cex, date, marked, dot, again) ==
    LET min == FindField(cex.minutes, date, "min", "hour", marked)
    IN  FindHour(cex, Again(min, again), Mark(marked, min, "min"), dot, again)

\* One call; the second does not start over.
Search(cex, start, dot, again) ==
    LET sec == FindField(cex.seconds, start, "sec", "min", {})
    IN  FindMinute(cex, sec.date, Mark({}, sec, "sec"), dot, again)

find_next(cex, start, dot) ==
    LET within[n \in Nat] ==
            [date \in Date |-> IF n = 0 THEN Failed(date)
                               ELSE Search(cex, date, dot, within[n - 1])]
    IN  within[MaxCalls][start]

Answer(found) == IF found.ok THEN tm_to_time(found.date) ELSE INVALID
AnswerFrom(cex, from) == Answer(find_next(cex, from, from.year))

\* cron_next that takes the date it was given for the answer, and one that
\* gives up on it.
SameCronNext(cex, date) == AnswerFrom(cex, time_to_tm(date))
OnceCronNext(cex, date) ==
    LET once == AnswerFrom(cex, time_to_tm(date))
    IN  IF once = date THEN INVALID ELSE once

\* The first time after date that matches, or INVALID.
cron_next(cex, date) ==
    LET once == AnswerFrom(cex, time_to_tm(date))
    IN  IF once = date
        THEN AnswerFrom(cex, add_to_field(time_to_tm(once), "sec", 1))
        ELSE once

-----------------------------------------------------------------------------
(***************************************************************************)
(* What an expression means: the times whose every field is in its set.    *)
(***************************************************************************)
NonEmpty(S) == (SUBSET S) \ {{}}

AllExprs ==
    [seconds       : NonEmpty(0 .. Seconds - 1),
     minutes       : NonEmpty(0 .. Minutes - 1),
     hours         : NonEmpty(0 .. Hours - 1),
     days_of_month : NonEmpty(1 .. LongestMonth),
     days_of_week  : NonEmpty(0 .. WeekDays - 1),
     months        : NonEmpty(0 .. Months - 1)]

Matches(cex, t) ==
    LET d == time_to_tm(t)
    IN  /\ d.sec \in cex.seconds
        /\ d.min \in cex.minutes
        /\ d.hour \in cex.hours
        /\ DayMatches(cex, d)
        /\ d.mon \in cex.months

NoneMatches(cex, times) == \A t \in times : ~Matches(cex, t)

\* The expressions for which the search is right: those that name one second
\* or all, and that name days every month has, on any day of the week, or leave
\* day and month open.
Plain(cex) ==
    /\ cex.seconds = 0 .. Seconds - 1 \/ \E s \in cex.seconds : cex.seconds = {s}
    /\ \/ /\ cex.days_of_week = 0 .. WeekDays - 1
          /\ \A d \in cex.days_of_month, m \in 1 .. Months : d <= MonthDays[m]
       \/ /\ cex.days_of_month = 1 .. LongestMonth
          /\ cex.months = 0 .. Months - 1
=============================================================================
