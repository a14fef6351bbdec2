---------------------------- MODULE MCRepository ----------------------------
(* Instances of Repository for TLC. *)
EXTENDS Repository, TLC

CONSTANTS Writes,   \* the functions called on one job
          CallIds,  \* the ids they are called with
          Scans     \* the scans that are called

\* next_run_time is 5 in the request: it does not fit the 3-bit int of the
\* instance, so what insert_job stores is not what update_job stores.
MCJob == [data          |-> CHOOSE d \in Data : TRUE,
          type          |-> CRON,
          status        |-> ACTIVE,
          next_run_time |-> 5,
          retry_count   |-> 0,
          max_retries   |-> 1]

\* What update_job stores: another status, the retries used up.
MCUpdated == [MCJob EXCEPT !.status = FAILED, !.retry_count = 1]

\* A job put off to 5, the time that update_job stores, is not due at 4, the time
\* of the scans.
MCCall(op, id) ==
    [op |-> op, id |-> id, status |-> COMPLETED,
     time |-> IF op = "update_next_run_time" THEN 5 ELSE 4,
     job |-> IF op = "update_job" THEN MCUpdated ELSE MCJob]

MCCalls == {MCCall(op, i) : op \in Writes, i \in CallIds}
              \cup {MCCall(op, 0) : op \in Scans}
              \cup {MCCall("insert_job", 0)}

Symmetry == Permutations(Threads)
=============================================================================
