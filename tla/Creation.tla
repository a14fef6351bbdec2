------------------------------ MODULE Creation ------------------------------
(***************************************************************************)
(* create_job from the JSON body to the integer insert_job stores, with    *)
(* make_cron and cron_next under it: what the client asked for against     *)
(* what is kept of it.                                                     *)
(***************************************************************************)
EXTENDS Service, CronNext

CONSTANTS Clock,   \* the times at which the requests arrive
          Bodies   \* and what they can say

\* The parser and the search are instances of one template: they have the same
\* Traits, and CronNextRun is cron_next.
ASSUME TraitsAssumption ==
    /\ MaxSecond = Seconds - 1 /\ MaxMinute = Minutes - 1 /\ MaxHour = Hours - 1
    /\ MaxDayOfMonth = LongestMonth /\ MaxMonth = Months /\ MaxDayOfWeek = WeekDays - 1

Parts == [first : Int, last : Int, step : Int]

\* A text that does not begin with a space begins with a token.
ASSUME TextsAssumption ==
    \A k \in 1 .. Len(Texts) :
        /\ Texts[k].fields \in Seq(Seq(Parts))
        /\ \/ Texts[k].leading = TRUE
           \/ Texts[k].leading = FALSE /\ Texts[k].fields # <<>> /\ Texts[k].fields[1] # <<>>

ASSUME CronAssumption ==
    \A k \in 1 .. Len(Texts), t \in Clock :
        is_valid_cron(Texts[k]) =>
            compute_cron_next_run(Texts[k], t) = cron_next(make_cron(FullExpr(Texts[k])), t)

ASSUME BodiesAssumption ==
    /\ Clock \subseteq Nat
    /\ \A b \in Bodies :
          /\ {b.next_run_time.n, b.interval_seconds.n} \subseteq Int
          /\ IsText(b.cron_expr) => b.cron_expr.n \in 1 .. Len(Texts)

VARIABLES body, now,  \* the request, and when it came
          outcome,    \* what became of it
          stored      \* the next_run_time of the row

request == <<body, now, outcome, stored>>

Init ==
    /\ body \in Bodies
    /\ now \in Clock
    /\ outcome = "none"
    /\ stored = 0

\* create_job, with insert_job's sqlite3_bind_int.
Create ==
    /\ outcome = "none"
    /\ outcome' = CASE Throws(body)  -> "500"
                    [] Rejects(body) -> "rejected"
                    [] OTHER         -> "insert"
    /\ stored' = IF outcome' = "insert"
                 THEN ToInt(CreateJob(body, now).next_run_time) ELSE 0
    /\ UNCHANGED <<body, now>>

Spec == Init /\ [][Create]_request

-----------------------------------------------------------------------------
\* What the client wrote; a text of five fields leaves the seconds out: 0.
WrittenFields(text) ==
    IF Len(text.fields) = 5 THEN <<<<Single(0)>>>> \o text.fields ELSE text.fields

\* The values a part names, every number in it taken as it is written.
Meant(part, minval, maxval) ==
    LET first == IF part.first = Star THEN minval ELSE part.first
        last  == CASE part.last # None -> part.last
                   [] part.last = None /\ (part.first = Star \/ part.step # None) -> maxval
                   [] OTHER -> first
        step  == IF part.step = None THEN 1 ELSE part.step
    IN  {v \in first .. last : (v - first) % step = 0}

FieldMeant(field, minval, maxval) ==
    UNION {Meant(field[k], minval, maxval) : k \in DOMAIN field}

Written(text) ==
    LET fields == WrittenFields(text)
    IN  [seconds       |-> FieldMeant(fields[1], 0, MaxSecond),
         minutes       |-> FieldMeant(fields[2], 0, MaxMinute),
         hours         |-> FieldMeant(fields[3], 0, MaxHour),
         days_of_month |-> FieldMeant(fields[4], 1, MaxDayOfMonth),
         months        |-> {m - 1 : m \in FieldMeant(fields[5], 1, MaxMonth)},
         days_of_week  |-> FieldMeant(fields[6], 0, MaxDayOfWeek)]

\* A cron_int holds the numbers of a part, and the loop over it does not wrap.
Narrow(part) ==
    \A token \in {part.first, part.last, part.step}, max \in Maxima :
        token + max < CronIntSize

\* Such a text says what make_cron reads: its first token is a number, or is
\* not run together with the "0", and its numbers are small.
ReadAsWritten(text) ==
    /\ text.leading \/ Readable(text.fields[1][1].first)
    /\ \A f \in DOMAIN text.fields : \A k \in DOMAIN text.fields[f] : Narrow(text.fields[f][k])

\* The first time after now that the body's schedule names.
IsAskedFor(t) ==
    CASE body.type.n = ONE_TIME  -> t = body.next_run_time.n
      [] body.type.n = RECURRING -> t = now + body.interval_seconds.n
      [] body.type.n = CRON      ->
            LET cex == Written(Texts[body.cron_expr.n])
            IN  t > now /\ Matches(cex, t) /\ NoneMatches(cex, now + 1 .. t - 1)

\* AC2: a one_time job that is created is stored with the time it asked for.
StoresCorrectNextRunTime ==
    outcome = "insert" /\ body.type.n = ONE_TIME => IsAskedFor(stored)

\* The part of AC2 that holds: times an int can hold, and cron expressions
\* that are read as they are written and for which the search is right.
Ordinary ==
    /\ body.type.n = ONE_TIME => body.next_run_time.n \in CInt
    /\ body.type.n = RECURRING => now + body.interval_seconds.n \in CInt
    /\ body.type.n = CRON =>
          LET text == Texts[body.cron_expr.n]
          IN  /\ ReadAsWritten(text)
              /\ Plain(Written(text))
              /\ CreateJob(body, now).next_run_time \in CInt

OrdinaryStoredCorrectly ==
    outcome = "insert" /\ Ordinary => IsAskedFor(stored)
=============================================================================
