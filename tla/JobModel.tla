------------------------------ MODULE JobModel ------------------------------
(***************************************************************************)
(* Model/Job.h and Model/Job.cpp: the values the whole program talks       *)
(* about.  A C enum is the integer the compiler gives it, so a Status and  *)
(* a Job_Type are integers here too.  The columns no statement and no      *)
(* property looks at (name, payload, interval_seconds, cron_expr) are one  *)
(* opaque value, the field data.                                           *)
(***************************************************************************)
EXTENDS Integers

CONSTANTS IntLimit,   \* an int holds -IntLimit .. IntLimit - 1 (2^31 in the build)
          Data        \* what name, payload, interval_seconds and cron_expr can be

ASSUME IntLimitAssumption == IntLimit \in Nat \ {0}

ACTIVE    == 0
PAUSED    == 1
RUNNING   == 2
COMPLETED == 3
FAILED    == 4
CANCELED  == 5
Status    == ACTIVE .. CANCELED

ONE_TIME  == 0
RECURRING == 1
CRON      == 2
Job_Type  == ONE_TIME .. CRON

\* An int, and what is left of a long long that is assigned to one.
CInt == -IntLimit .. IntLimit - 1
ToInt(n) == ((n + IntLimit) % (2 * IntLimit)) - IntLimit

\* Integers read back from the database become enumerators, with a default.
int_to_type(number)   == IF number \in Job_Type THEN number ELSE ONE_TIME
int_to_status(number) == IF number \in Status THEN number ELSE ACTIVE

\* A Job; a row of the table jobs has the same columns.
Job == [data          : Data,
        type          : Job_Type,
        status        : Status,
        next_run_time : Int,
        retry_count   : Int,
        max_retries   : Int]
=============================================================================
