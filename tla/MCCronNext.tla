----------------------------- MODULE MCCronNext -----------------------------
(* cron_next over the expressions and many times of small calendars. *)
EXTENDS CronAnswer

PlainExprs == {c \in AllExprs : Plain(c)}

\* Expressions that name every day, and some months.
MonthExprs == {c \in AllExprs : /\ c.days_of_month = 1 .. LongestMonth
                                /\ c.days_of_week = 0 .. WeekDays - 1}

SmallMonths == <<3, 2, 3>>
SmallTimes == {t \in 1 .. 210 : t % 17 = 3}
=============================================================================
