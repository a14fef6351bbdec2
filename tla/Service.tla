------------------------------ MODULE Service ------------------------------
(***************************************************************************)
(* Service/service.cpp: what becomes of the JSON body of POST /CreateTask. *)
(* The functions keep no state; CreateJob is everything create_job() does  *)
(* up to its call of insert_job().                                         *)
(*                                                                         *)
(* A JSON value is its type and an integer: the value of a Number, the     *)
(* number of a String in the list Texts (0 is the empty string).  A member *)
(* the body does not have is Absent.                                       *)
(***************************************************************************)
EXTENDS JobModel, CronExpr

CONSTANTS Texts,          \* the cron expressions strings can be
          CronNextRun(_, _) \* cron::cron_next of a parsed expression and a time

Json(t, n) == [t |-> t, n |-> n]
Absent    == Json("Absent", 0)
Null      == Json("Null", 0)
Number(n) == Json("Number", n)
String(n) == Json("String", n)
Other     == Json("Other", 0)    \* true, false, a list, an object

IsText(value) == value.t = "String" /\ value.n # 0
IsPositive(value) == value.t = "Number" /\ value.n > 0

-----------------------------------------------------------------------------
\* A cron text is [leading |-> it starts with a space, fields |-> its fields].
\* "0" is put in front of it without a space: it is a field of its own only
\* if the text starts with one, else it is the first digit of the first token.
Prefixed(token) == IF Readable(token) THEN token ELSE 0

FullExpr(text) ==
    IF text.leading
    THEN <<<<Single(0)>>>> \o text.fields
    ELSE [text.fields EXCEPT ![1][1].first = Prefixed(@)]

is_valid_cron(text) == Accepted(FullExpr(text))

compute_cron_next_run(text, now) == CronNextRun(make_cron(FullExpr(text)), now)

-----------------------------------------------------------------------------
ValidSchedule(body) ==
    CASE body.type.n = ONE_TIME  -> IsPositive(body.next_run_time)
      [] body.type.n = RECURRING -> IsPositive(body.interval_seconds)
      [] body.type.n = CRON      -> /\ IsText(body.cron_expr)
                                    /\ is_valid_cron(Texts[body.cron_expr.n])

validate_job_input(body) ==
    /\ IsText(body.name)
    /\ body.type.t = "Number" /\ body.type.n \in Job_Type
    /\ IsText(body.payload)
    /\ ValidSchedule(body)

\* A RECURRING job that forgets the time it is now.
RelativeNextRunTime(body, now) ==
    CASE body.type.n = ONE_TIME  -> body.next_run_time.n
      [] body.type.n = RECURRING -> ToInt(body.interval_seconds.n)
      [] body.type.n = CRON      -> compute_cron_next_run(Texts[body.cron_expr.n], now)

compute_next_run_time(body, now) ==
    CASE body.type.n = ONE_TIME  -> body.next_run_time.n
      [] body.type.n = RECURRING -> now + ToInt(body.interval_seconds.n)
      [] body.type.n = CRON      -> compute_cron_next_run(Texts[body.cron_expr.n], now)

\* The members no validation looked at: .i() throws unless it is given a
\* Number or a String, .s() unless a String.
Throws(body) ==
    \/ body.kind = "scalar"
    \/ /\ body.kind = "object"
       /\ validate_job_input(body)
       /\ \/ body.interval_seconds.t = "Other"
          \/ body.cron_expr.t \in {"Number", "Other"}

Rejects(body) == ~Throws(body) /\ ~validate_job_input(body)

max_retries(body) ==
    IF body.max_retries.t = "Number" THEN ToInt(body.max_retries.n) ELSE 3

\* The Job given to insert_job for a body that is neither rejected nor throws.
\* The columns that are copied from the body are the body, in data.
CreateJob(body, now) ==
    [data          |-> body,
     type          |-> int_to_type(ToInt(body.type.n)),
     status        |-> ACTIVE,
     next_run_time |-> compute_next_run_time(body, now),
     retry_count   |-> 0,
     max_retries   |-> max_retries(body)]
=============================================================================
