--------------------------- MODULE MCJobScheduler ---------------------------
(* Instances of JobScheduler for TLC. *)
EXTENDS JobScheduler, TLC

Body(type, next, interval, cron) ==
    [kind |-> "object", name |-> String(1), type |-> type, payload |-> String(1),
     next_run_time |-> next, interval_seconds |-> interval, cron_expr |-> cron,
     max_retries |-> Absent]

OneTime   == Body(Number(0), Number(1), Absent, Absent)
WideTime  == Body(Number(0), Number(9), Absent, Absent)
Recurring == Body(Number(1), Absent, Number(1), Absent)
Cron      == Body(Number(2), Absent, Absent, String(1))
Thrower   == Body(Number(0), Number(1), Other, Absent)
Invalid   == Body(Number(0), Number(0), Absent, Absent)
Malformed == [Invalid EXCEPT !.kind = "malformed"]

AllBodies  == {OneTime, WideTime, Recurring, Cron, Thrower, Invalid, Malformed}
OneBody    == {OneTime}
SomeBodies == {OneTime, WideTime, Recurring, Thrower}

\* One expression, every second, written with a leading space and five fields.
MCTexts == <<[leading |-> TRUE, fields |-> [k \in 1 .. 5 |-> <<Single(Star)>>]]>>

\* The next even time.
EvenNext(cex, t) == t + 2 - (t % 2)

Symmetry == Permutations(Workers) \cup Permutations(Clients)
=============================================================================
