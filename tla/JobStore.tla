------------------------------ MODULE JobStore ------------------------------
(***************************************************************************)
(* What the functions of database.h promise the threads that call them,    *)
(* with no connection, no statement and no sqlite3_* call in sight.        *)
(*                                                                         *)
(* A call changes the table at one moment between its beginning and its    *)
(* answer, or is refused and changes nothing.  Its answer is exact unless  *)
(* another caller spoiled it after that moment.  A list is a snapshot of   *)
(* no moment: it holds what was there at some time during the call, and    *)
(* all that was there the whole time.  A crash forgets the calls and keeps *)
(* the table.                                                              *)
(***************************************************************************)
EXTENDS JobModel, Sequences, FiniteSets

CONSTANTS Callers,   \* the threads
          Requests,  \* the calls they make
          MaxId,     \* the largest id
          NoRow      \* the content of an id no row of the table has

VARIABLES table,    \* for every id its row or NoRow
          issued,   \* the last id that was given out
          phase,    \* per caller: "idle", "called", "acted" or "answered"
          request,  \* per caller: its call
          outcome,  \* per caller: what its call did
          seen,     \* per caller: what a list may and must hold
          answer    \* per caller: the answer to its call

vars == <<table, issued, phase, request, outcome, seen, answer>>

Ids == 1 .. MaxId
Lists == {"select_all_jobs", "select_due_jobs"}
NoRequest == CHOOSE c \in Requests : TRUE
NoOutcome == [changed |-> 0, id |-> 0, alone |-> TRUE, failed |-> FALSE]
NothingSeen == [some |-> {}, all |-> {}]
NoAnswer == [ok |-> FALSE, id |-> 0, rows |-> <<>>]

\* A row as a Job object.
Entry(i, row) == [id |-> ToInt(i), job |-> row]

Wanted(c, row) ==
    c.op = "select_due_jobs" => row.status = ACTIVE /\ row.next_run_time <= c.time

Listed(c, rows) == {i \in Ids : rows[i] # NoRow /\ Wanted(c, rows[i])}
Entries(c, rows) == {Entry(i, rows[i]) : i \in Listed(c, rows)}

-----------------------------------------------------------------------------
\* What a call makes of the row it names; it leaves a job at its last retry.
Changes(c, row) ==
    c.op = "increment_retry_count" => row.retry_count < row.max_retries

Changed(c, row) ==
    CASE c.op = "update_job_status"     -> [row EXCEPT !.status = c.status]
      [] c.op = "update_job"            -> c.job
      [] c.op = "pause_job"             -> [row EXCEPT !.status = PAUSED]
      [] c.op = "resume_job"            -> [row EXCEPT !.status = ACTIVE]
      [] c.op = "update_next_run_time"  -> [row EXCEPT !.next_run_time = c.time]
      [] c.op = "increment_retry_count" -> [row EXCEPT !.retry_count = @ + 1]
      [] c.op = "reset_retry_count"     -> [row EXCEPT !.retry_count = 0]
      [] c.op = "delete_job"            -> NoRow

Enter(t, label) == phase' = [phase EXCEPT ![t] = label]

\* Every list in progress sees the table as it becomes.
See == seen' = [u \in Callers |->
                   IF phase[u] = "acted" /\ request[u].op \in Lists
                   THEN [some |-> seen[u].some \cup Entries(request[u], table'),
                         all  |-> seen[u].all \cap Listed(request[u], table')]
                   ELSE seen[u]]

\* Caller t's call did this; the others that have acted may be spoiled by it.
Did(t, effect) ==
    \E spoiled \in SUBSET {u \in Callers \ {t} : phase[u] = "acted"} :
        outcome' = [u \in Callers |->
                       IF u = t THEN effect
                       ELSE IF u \in spoiled THEN [outcome[u] EXCEPT !.alone = FALSE]
                       ELSE outcome[u]]

-----------------------------------------------------------------------------
Begin(t, c) ==
    /\ phase[t] = "idle"
    /\ Enter(t, "called")
    /\ request' = [request EXCEPT ![t] = c]
    /\ UNCHANGED <<table, issued, outcome, seen, answer>>

\* A new job gets an id above all that were given out before.
Insert(t) ==
    /\ phase[t] = "called"
    /\ request[t].op = "insert_job"
    /\ \E i \in Ids :
          /\ i > issued
          /\ issued' = i
          /\ table' = [table EXCEPT
                          ![i] = [request[t].job EXCEPT !.next_run_time = ToInt(@)]]
          /\ Did(t, [NoOutcome EXCEPT !.changed = 1, !.id = i])
    /\ See
    /\ Enter(t, "acted")
    /\ UNCHANGED <<request, answer>>

Change(t) ==
    LET c == request[t]
        hit == c.id \in Ids /\ table[c.id] # NoRow /\ Changes(c, table[c.id])
    IN  /\ phase[t] = "called"
        /\ c.op \notin Lists \cup {"insert_job", "get_job_by_id"}
        /\ table' = IF hit
                    THEN [table EXCEPT ![c.id] = Changed(c, @)] ELSE table
        /\ Did(t, [NoOutcome EXCEPT !.changed = IF hit THEN 1 ELSE 0])
        /\ See
        /\ Enter(t, "acted")
        /\ UNCHANGED <<issued, request, answer>>

\* A list begins to be read.
Open(t) ==
    /\ phase[t] = "called"
    /\ request[t].op \in Lists
    /\ Enter(t, "acted")
    /\ seen' = [seen EXCEPT ![t] = [some |-> Entries(request[t], table),
                                    all  |-> Listed(request[t], table)]]
    /\ UNCHANGED <<table, issued, request, outcome, answer>>

-----------------------------------------------------------------------------
\* The job of the call's id as it is now, if there is one.
Current(t) ==
    LET i == request[t].id
    IN  IF i \in Ids /\ table[i] # NoRow THEN <<Entry(i, table[i])>> ELSE <<>>

\* Whether a is the answer to a call that acted.
Answers(t, a) ==
    LET c == request[t]
        did == outcome[t]
    IN  CASE c.op = "insert_job" ->
               /\ ~a.ok /\ a.rows = <<>>
               /\ \E i \in did.id .. MaxId : a.id = ToInt(i)
               /\ did.alone => a.id = ToInt(did.id)
          [] c.op = "update_job_status" ->
               a.ok /\ a.rows \in {Current(t), <<>>}
          [] c.op \in Lists ->
               /\ ~a.ok
               /\ \A k \in DOMAIN a.rows : a.rows[k] \in seen[t].some
               /\ \A k, l \in DOMAIN a.rows : a.rows[k].id = a.rows[l].id => k = l
               /\ outcome'[t].failed
                  \/ \A i \in seen[t].all : \E k \in DOMAIN a.rows : a.rows[k].id = ToInt(i)
          [] OTHER ->
               a.rows = <<>> /\ (did.alone => a.ok = (did.changed = 1))

Give(t) ==
    /\ Enter(t, "answered")
    /\ answer' = [answer EXCEPT ![t] = answer'[t]]
    /\ UNCHANGED <<table, issued, request, seen>>

\* The answer to a call that acted; it may lack what could not be read.
Answer(t) ==
    /\ phase[t] = "acted"
    /\ \E failed \in BOOLEAN : outcome' = [outcome EXCEPT ![t].failed = failed]
    /\ Answers(t, answer'[t])
    /\ Give(t)

\* get_job_by_id acts and answers at once.
Get(t) ==
    /\ phase[t] = "called"
    /\ request[t].op = "get_job_by_id"
    /\ answer'[t].ok = (Current(t) # <<>>)
    /\ answer'[t].rows = Current(t)
    /\ Give(t)
    /\ UNCHANGED outcome

\* A call that could not be carried out.
Refuse(t) ==
    /\ phase[t] = "called"
    /\ Did(t, [NoOutcome EXCEPT !.failed = TRUE])
    /\ ~answer'[t].ok /\ answer'[t].rows = <<>>
    /\ Give(t)

Leave(t) ==
    /\ phase[t] = "answered"
    /\ Enter(t, "idle")
    /\ request' = [request EXCEPT ![t] = NoRequest]
    /\ outcome' = [outcome EXCEPT ![t] = NoOutcome]
    /\ seen' = [seen EXCEPT ![t] = NothingSeen]
    /\ answer' = [answer EXCEPT ![t] = NoAnswer]
    /\ UNCHANGED <<table, issued>>

-----------------------------------------------------------------------------
AllIdle ==
    /\ phase = [t \in Callers |-> "idle"]
    /\ request = [t \in Callers |-> NoRequest]
    /\ outcome = [t \in Callers |-> NoOutcome]
    /\ seen = [t \in Callers |-> NothingSeen]
    /\ answer = [t \in Callers |-> NoAnswer]

Init ==
    /\ table = [i \in Ids |-> NoRow]
    /\ issued = 0
    /\ AllIdle

Crash == AllIdle' /\ UNCHANGED <<table, issued>>

Next ==
    \/ \E t \in Callers :
          \/ \E c \in Requests : Begin(t, c)
          \/ Insert(t) \/ Change(t) \/ Open(t)
          \/ Answer(t) \/ Get(t) \/ Refuse(t)
          \/ Leave(t)
    \/ Crash

Spec == Init /\ [][Next]_vars
=============================================================================
