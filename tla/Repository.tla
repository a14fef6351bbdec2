----------------------------- MODULE Repository -----------------------------
(***************************************************************************)
(* Repository/database.cpp on the ONE sqlite3 connection that main() opens *)
(* and that every HTTP worker and the scheduler thread share.              *)
(*                                                                         *)
(* The connection is SQLITE_CONFIG_SERIALIZED: one sqlite3_* call is       *)
(* atomic, a function of database.cpp is not.  A thread inside a function  *)
(* stands at the sqlite3_* call its pc names; between two of them every    *)
(* other thread may run.  Two fields of the connection are shared by all   *)
(* of them: the change count sqlite3_changes() returns and the rowid       *)
(* sqlite3_last_insert_rowid() returns.                                    *)
(***************************************************************************)
EXTENDS JobModel, Sequences, FiniteSets

CONSTANTS Threads,     \* the threads that call the repository
          Calls,       \* the calls they make
          MaxId,       \* the largest rowid the engine gives out
          Faults,      \* the sqlite3_* calls that may fail in this instance
          ErrorCodes,  \* what a failing sqlite3_prepare_v2 returns
          NoRow        \* the content of an id no row of the table has

Ids == 1 .. MaxId

UpdateOps == {"update_job_status", "update_job", "pause_job", "resume_job",
              "update_next_run_time", "increment_retry_count",
              "reset_retry_count", "delete_job"}
ScanOps == {"select_all_jobs", "select_due_jobs"}
Ops == {"insert_job", "get_job_by_id"} \cup UpdateOps \cup ScanOps

\* A call: the function, and the arguments it has; the others are ignored.
Call == [op : Ops, id : Int, job : Job, status : Status, time : Int]

ASSUME RepositoryAssumption ==
    /\ MaxId \in Nat \ {0}
    /\ Calls \subseteq Call /\ Calls # {}
    /\ Faults \subseteq {"prepare", "busy", "commit", "read"}
    /\ ErrorCodes \subseteq Nat \ {0}
    /\ NoRow \notin Job

VARIABLES jobs,       \* the table: for every id its row or NoRow
          seq,        \* the AUTOINCREMENT counter, sqlite_sequence.seq
          nChange,    \* sqlite3_changes() of the connection
          lastRowid,  \* sqlite3_last_insert_rowid() of the connection
          pc,         \* per thread: the sqlite3_* call it is about to make
          call,       \* per thread: the function it is in, with its arguments
          reply,      \* per thread: what the function returns
          cursor,     \* per thread: the id of the row its SELECT is on
          own,        \* history: what the thread's own statement did
          view        \* history: the rows a scan could have reported

database   == <<jobs, seq>>
connection == <<nChange, lastRowid>>
vars == <<jobs, seq, nChange, lastRowid, pc, call, reply, cursor, own, view>>

Present == {i \in Ids : jobs[i] # NoRow}

-----------------------------------------------------------------------------
(***************************************************************************)
(* Statements on the table.                                                *)
(***************************************************************************)
\* A row read into a Job object.
ReadJob(i, row) ==
    [id |-> ToInt(i),
     job |-> [row EXCEPT !.type = int_to_type(row.type),
                         !.status = int_to_status(row.status)]]

\* A SELECT that has lost its test of the status.
AnyStatusSelects(c, row) ==
    c.op = "select_due_jobs" => row.next_run_time <= c.time

\* A SELECT that leaves out the jobs due at this very second.
StrictSelects(c, row) ==
    c.op = "select_due_jobs" => row.status = ACTIVE /\ row.next_run_time < c.time

\* The WHERE clause of a SELECT.
Selects(c, row) ==
    IF c.op = "select_due_jobs"
    THEN row.status = ACTIVE /\ row.next_run_time <= c.time
    ELSE TRUE

Matching(c, table) == {i \in Ids : table[i] # NoRow /\ Selects(c, table[i])}
Entries(c, table) == {ReadJob(i, table[i]) : i \in Matching(c, table)}

\* The id of a table without AUTOINCREMENT, and of one that fills its gaps.
UncountedRowid == IF Present = {} THEN 1
                  ELSE 1 + CHOOSE m \in Present : \A i \in Present : i <= m
LowestFreeRowid == CHOOSE m \in Ids \cup {MaxId + 1} :
                       m \notin Present /\ \A i \in Ids : i < m => i \in Present

\* The id an AUTOINCREMENT table gives a new row.
NewRowid == 1 + (CHOOSE m \in Present \cup {seq} :
                     \A i \in Present \cup {seq} : i <= m)

-----------------------------------------------------------------------------
(***************************************************************************)
(* History, for the properties only.                                       *)
(*   own[t].changed  rows thread t's statement changed                     *)
(*   own[t].id       rowid thread t's INSERT was given, 0 if none          *)
(*   own[t].alone    no other thread wrote to nChange or lastRowid between *)
(*                   thread t's statement and its look at them             *)
(*   own[t].failed   a sqlite3_* call of thread t failed                   *)
(*   view[t].some    the Job objects of rows that matched thread t's       *)
(*                   SELECT, as they were at some moment of the call       *)
(*   view[t].all     ids that matched it at every moment of the call       *)
(***************************************************************************)
NoEffect == [changed |-> 0, id |-> 0, alone |-> TRUE, failed |-> FALSE]
NoView == [some |-> {}, all |-> {}]

\* Thread t wrote to the fields of the connection.
Disturb(t, effect) ==
    own' = [u \in Threads |->
               CASE u = t -> effect
                 [] u # t /\ pc[u] = "check" -> [own[u] EXCEPT !.alone = FALSE]
                 [] OTHER -> own[u]]

\* The table became table.
Look(table) ==
    view' = [u \in Threads |->
                IF pc[u] = "scan"
                THEN [some |-> view[u].some \cup Entries(call[u], table),
                      all  |-> view[u].all \cap Matching(call[u], table)]
                ELSE view[u]]

-----------------------------------------------------------------------------
(***************************************************************************)
(* Entering and leaving a function.                                        *)
(***************************************************************************)
\* The result of a function: its bool, its int, the Job objects it fills in.
NoReply == [ok |-> FALSE, id |-> 0, rows |-> <<>>]
Failure == [ok |-> FALSE, id |-> -1, rows |-> <<>>]

\* What call[t] is while thread t is in no function.
AnyCall == CHOOSE c \in Calls : TRUE

Go(t, label) == pc' = [pc EXCEPT ![t] = label]
Finish(t, result) == Go(t, "done") /\ reply' = [reply EXCEPT ![t] = result]

Invoke(t, c) ==
    /\ pc[t] = "idle"
    /\ Go(t, "prepare")
    /\ call' = [call EXCEPT ![t] = c]
    /\ UNCHANGED <<database, connection, reply, cursor, own, view>>

\* sqlite3_prepare_v2 and the binds; sqlite3_step is next.
Prepare(t) ==
    /\ pc[t] = "prepare"
    /\ IF call[t].op \in ScanOps
       THEN /\ Go(t, "scan")
            /\ view' = [view EXCEPT ![t] = [some |-> Entries(call[t], jobs),
                                            all  |-> Matching(call[t], jobs)]]
       ELSE Go(t, "step") /\ UNCHANGED view
    /\ UNCHANGED <<database, connection, call, reply, cursor, own>>

\* A scan does not look at the return code: it steps a null statement and
\* comes back empty.  insert_job returns the error code itself.
PrepareFails(t) ==
    /\ pc[t] = "prepare"
    /\ \E rc \in ErrorCodes :
          Finish(t, CASE call[t].op = "insert_job" -> [NoReply EXCEPT !.id = rc]
                      [] call[t].op \in ScanOps -> NoReply
                      [] OTHER -> Failure)
    /\ own' = [own EXCEPT ![t].failed = TRUE]
    /\ UNCHANGED <<database, connection, call, cursor, view>>

Return(t) ==
    /\ pc[t] = "done"
    /\ Go(t, "idle")
    /\ call' = [call EXCEPT ![t] = AnyCall]
    /\ reply' = [reply EXCEPT ![t] = NoReply]
    /\ cursor' = [cursor EXCEPT ![t] = 0]
    /\ own' = [own EXCEPT ![t] = NoEffect]
    /\ view' = [view EXCEPT ![t] = NoView]
    /\ UNCHANGED <<database, connection>>

-----------------------------------------------------------------------------
(***************************************************************************)
(* sqlite3_step of the statements that write.  The statement and its       *)
(* commit are one sqlite3_step.                                            *)
(***************************************************************************)
InsertStep(t) ==
    /\ pc[t] = "step"
    /\ call[t].op = "insert_job"
    /\ NewRowid \in Ids
    /\ jobs' = [jobs EXCEPT ![NewRowid] =
                   [call[t].job EXCEPT !.next_run_time = ToInt(@)]]
    /\ seq' = NewRowid
    /\ nChange' = 1
    /\ lastRowid' = NewRowid
    /\ Disturb(t, [NoEffect EXCEPT !.changed = 1, !.id = NewRowid])
    /\ Look(jobs')
    /\ Go(t, "check")
    /\ UNCHANGED <<call, reply, cursor>>

\* Every rowid has been used: SQLITE_FULL.
InsertFull(t) ==
    /\ pc[t] = "step"
    /\ call[t].op = "insert_job"
    /\ NewRowid \notin Ids
    /\ nChange' = 0
    /\ Disturb(t, [NoEffect EXCEPT !.failed = TRUE])
    /\ Finish(t, Failure)
    /\ UNCHANGED <<database, lastRowid, call, cursor, view>>

\* sqlite3_total_changes() in the place of sqlite3_changes().
TotalWrite(t, condition, row) ==
    LET hit == call[t].id \in Present /\ condition
    IN  /\ pc[t] = "step"
        /\ jobs' = IF hit THEN [jobs EXCEPT ![call[t].id] = row] ELSE jobs
        /\ nChange' = nChange + IF hit THEN 1 ELSE 0
        /\ Disturb(t, [NoEffect EXCEPT !.changed = IF hit THEN 1 ELSE 0])
        /\ Look(jobs')
        /\ UNCHANGED <<seq, lastRowid, call, reply, cursor>>

\* One UPDATE or DELETE: the row of the call's id becomes row if the WHERE
\* clause, id = ? and condition, holds for it.
Write(t, condition, row) ==
    LET hit == call[t].id \in Present /\ condition
    IN  /\ pc[t] = "step"
        /\ jobs' = IF hit THEN [jobs EXCEPT ![call[t].id] = row] ELSE jobs
        /\ nChange' = IF hit THEN 1 ELSE 0
        /\ Disturb(t, [NoEffect EXCEPT !.changed = IF hit THEN 1 ELSE 0])
        /\ Look(jobs')
        /\ UNCHANGED <<seq, lastRowid, call, reply, cursor>>

Target(t) == jobs[call[t].id]

UpdateStatusStep(t) ==
    /\ call[t].op = "update_job_status"
    /\ Write(t, TRUE, [Target(t) EXCEPT !.status = call[t].status])
    /\ Go(t, "refetch")

DeleteStep(t) ==
    /\ call[t].op = "delete_job"
    /\ Write(t, TRUE, NoRow)
    /\ Go(t, "check")

UpdateJobStep(t) ==
    /\ call[t].op = "update_job"
    /\ Write(t, TRUE, call[t].job)
    /\ Go(t, "check")

PauseStep(t) ==
    /\ call[t].op = "pause_job"
    /\ Write(t, TRUE, [Target(t) EXCEPT !.status = PAUSED])
    /\ Go(t, "check")

ResumeStep(t) ==
    /\ call[t].op = "resume_job"
    /\ Write(t, TRUE, [Target(t) EXCEPT !.status = ACTIVE])
    /\ Go(t, "check")

UpdateNextRunTimeStep(t) ==
    /\ call[t].op = "update_next_run_time"
    /\ Write(t, TRUE, [Target(t) EXCEPT !.next_run_time = call[t].time])
    /\ Go(t, "check")

\* An increment whose WHERE clause does not look at max_retries.
UnboundedRetryStep(t) ==
    /\ call[t].op = "increment_retry_count"
    /\ Write(t, TRUE, [Target(t) EXCEPT !.retry_count = @ + 1])
    /\ Go(t, "check")

IncrementRetryStep(t) ==
    /\ call[t].op = "increment_retry_count"
    /\ Write(t, Target(t).retry_count < Target(t).max_retries,
             [Target(t) EXCEPT !.retry_count = @ + 1])
    /\ Go(t, "check")

ResetRetryStep(t) ==
    /\ call[t].op = "reset_retry_count"
    /\ Write(t, TRUE, [Target(t) EXCEPT !.retry_count = 0])
    /\ Go(t, "check")

\* The engine refuses to start the statement; the connection's change count
\* is cleared only when the function finalizes it.
StepBusy(t) ==
    /\ "busy" \in Faults
    /\ pc[t] = "step"
    /\ call[t].op # "get_job_by_id"
    /\ own' = [own EXCEPT ![t].failed = TRUE]
    /\ Go(t, "finalize")
    /\ UNCHANGED <<database, connection, call, reply, cursor, view>>

FinalizeBusy(t) ==
    /\ pc[t] = "finalize"
    /\ nChange' = 0
    /\ Disturb(t, own[t])
    /\ Finish(t, Failure)
    /\ UNCHANGED <<database, lastRowid, call, cursor, view>>

\* A failed commit after which the deletion of a row stands.
CommitKept(t) ==
    /\ "commit" \in Faults
    /\ pc[t] = "step"
    /\ call[t].op = "delete_job"
    /\ jobs' = [i \in Ids |-> IF i = call[t].id THEN NoRow ELSE jobs[i]]
    /\ nChange' = 0
    /\ Disturb(t, [NoEffect EXCEPT !.failed = TRUE])
    /\ Finish(t, Failure)
    /\ UNCHANGED <<seq, lastRowid, call, cursor, view>>

\* The statement ran but its commit failed and was rolled back: an INSERT has
\* already told the connection its rowid.
CommitFails(t) ==
    /\ "commit" \in Faults
    /\ pc[t] = "step"
    /\ call[t].op # "get_job_by_id"
    /\ nChange' = 0
    /\ IF call[t].op = "insert_job"
       THEN NewRowid \in Ids /\ lastRowid' = NewRowid
       ELSE UNCHANGED lastRowid
    /\ Disturb(t, [NoEffect EXCEPT !.failed = TRUE])
    /\ Finish(t, Failure)
    /\ UNCHANGED <<database, call, cursor, view>>

-----------------------------------------------------------------------------
(***************************************************************************)
(* After the statement: what the connection says of it.                    *)
(***************************************************************************)
InsertCheck(t) ==
    /\ pc[t] = "check"
    /\ call[t].op = "insert_job"
    /\ Finish(t, [NoReply EXCEPT !.id = ToInt(lastRowid)])
    /\ UNCHANGED <<database, connection, call, cursor, own, view>>

\* A function that does not ask how many rows its statement changed.
UnaskedChangesCheck(t) ==
    /\ pc[t] = "check"
    /\ call[t].op # "insert_job"
    /\ Finish(t, [NoReply EXCEPT !.ok = TRUE])
    /\ UNCHANGED <<database, connection, call, cursor, own, view>>

ChangesCheck(t) ==
    /\ pc[t] = "check"
    /\ call[t].op # "insert_job"
    /\ Finish(t, [NoReply EXCEPT !.ok = (nChange # 0)])
    /\ UNCHANGED <<database, connection, call, cursor, own, view>>

-----------------------------------------------------------------------------
(***************************************************************************)
(* Reading.                                                                *)
(***************************************************************************)
\* The Job objects get_job_by_id fills in: none if the id has no row.
Fetched(i) == IF i \in Present THEN <<ReadJob(i, jobs[i])>> ELSE <<>>

GetStep(t) ==
    /\ pc[t] = "step"
    /\ call[t].op = "get_job_by_id"
    /\ Finish(t, [NoReply EXCEPT !.ok = (call[t].id \in Present),
                                 !.rows = Fetched(call[t].id)])
    /\ UNCHANGED <<database, connection, call, cursor, own, view>>

\* The get_job_by_id inside update_job_status; its result is not looked at.
Refetch(t) ==
    /\ pc[t] = "refetch"
    /\ Finish(t, [NoReply EXCEPT !.ok = TRUE, !.rows = Fetched(call[t].id)])
    /\ UNCHANGED <<database, connection, call, cursor, own, view>>

\* The read fails.  get_job_by_id reports a job it does not have; a scan
\* returns the rows it has so far; update_job_status has nothing to fill in.
ReadFails(t) ==
    /\ \/ /\ "read" \in Faults
          /\ pc[t] = "step"
          /\ call[t].op = "get_job_by_id"
          /\ Finish(t, NoReply)
       \/ /\ Faults \cap {"prepare", "read"} # {}
          /\ pc[t] = "refetch"
          /\ Finish(t, [NoReply EXCEPT !.ok = TRUE])
       \/ /\ "read" \in Faults
          /\ pc[t] = "scan"
          /\ Finish(t, reply[t])
    /\ own' = [own EXCEPT ![t].failed = TRUE]
    /\ UNCHANGED <<database, connection, call, cursor, view>>

\* A scan that leaves a row out after each row it reads.
SkippingAhead(t) ==
    {i \in Matching(call[t], jobs) : i > cursor[t] + IF cursor[t] = 0 THEN 0 ELSE 1}

\* The rows a scan has not passed yet.
Ahead(t) == {i \in Matching(call[t], jobs) : i > cursor[t]}

\* sqlite3_step of a scan: the next matching row, in the order of the ids.
ScanRow(t) ==
    /\ pc[t] = "scan"
    /\ \E i \in Ahead(t) :
          /\ \A j \in Ahead(t) : i <= j
          /\ cursor' = [cursor EXCEPT ![t] = i]
          /\ reply' = [reply EXCEPT ![t].rows = Append(@, ReadJob(i, jobs[i]))]
    /\ UNCHANGED <<database, connection, pc, call, own, view>>

ScanDone(t) ==
    /\ pc[t] = "scan"
    /\ Ahead(t) = {}
    /\ Finish(t, reply[t])
    /\ UNCHANGED <<database, connection, call, cursor, own, view>>

-----------------------------------------------------------------------------
(***************************************************************************)
(* The process stops, wherever its threads are, and is started again on    *)
(* the same jobs.db: what has been committed is all that is left.          *)
(***************************************************************************)
Idle(v) == [t \in Threads |-> v]

Open ==
    /\ nChange = 0
    /\ lastRowid = 0
    /\ pc = Idle("idle")
    /\ call = Idle(AnyCall)
    /\ reply = Idle(NoReply)
    /\ cursor = Idle(0)
    /\ own = Idle(NoEffect)
    /\ view = Idle(NoView)

Restart ==
    /\ nChange' = 0
    /\ lastRowid' = 0
    /\ pc' = Idle("idle")
    /\ call' = Idle(AnyCall)
    /\ reply' = Idle(NoReply)
    /\ cursor' = Idle(0)
    /\ own' = Idle(NoEffect)
    /\ view' = Idle(NoView)
    /\ UNCHANGED database

Init ==
    /\ jobs = [i \in Ids |-> NoRow]
    /\ seq = 0
    /\ Open

WriteStep(t) ==
    \/ InsertStep(t)
    \/ InsertFull(t)
    \/ UpdateStatusStep(t)
    \/ DeleteStep(t)
    \/ UpdateJobStep(t)
    \/ PauseStep(t)
    \/ ResumeStep(t)
    \/ UpdateNextRunTimeStep(t)
    \/ IncrementRetryStep(t)
    \/ ResetRetryStep(t)

\* One sqlite3_* call of thread t.
Work(t) ==
    \/ Prepare(t)
    \/ WriteStep(t)
    \/ FinalizeBusy(t)
    \/ InsertCheck(t)
    \/ ChangesCheck(t)
    \/ GetStep(t)
    \/ Refetch(t)
    \/ ScanRow(t)
    \/ ScanDone(t)

Advance(t) == Work(t) \/ Return(t)

Fault(t) ==
    \/ "prepare" \in Faults /\ PrepareFails(t)
    \/ StepBusy(t)
    \/ CommitFails(t)
    \/ ReadFails(t)

Next ==
    \/ \E t \in Threads : (\E c \in Calls : Invoke(t, c)) \/ Advance(t) \/ Fault(t)
    \/ Restart

Spec == Init /\ [][Next]_vars

-----------------------------------------------------------------------------
(***************************************************************************)
(* Properties.                                                             *)
(***************************************************************************)
Counted == UpdateOps \ {"update_job_status"}

Reported(t) == {reply[t].rows[k].id : k \in DOMAIN reply[t].rows}

\* The variables have their types.
TypeOK ==
    /\ jobs \in [Ids -> Job \cup {NoRow}]
    /\ seq \in 0 .. MaxId
    /\ nChange \in 0 .. 1
    /\ lastRowid \in 0 .. MaxId
    /\ pc \in [Threads -> {"idle", "prepare", "step", "finalize", "check",
                           "refetch", "scan", "done"}]
    /\ call \in [Threads -> Calls]
    /\ reply \in [Threads -> [ok : BOOLEAN, id : Int,
                              rows : Seq([id : CInt, job : Job])]]
    /\ cursor \in [Threads -> 0 .. MaxId]
    /\ own \in [Threads -> [changed : 0 .. 1, id : 0 .. MaxId,
                            alone : BOOLEAN, failed : BOOLEAN]]
    /\ view \in [Threads -> [some : SUBSET [id : CInt, job : Job], all : SUBSET Ids]]

\* A function that tells its caller by sqlite3_changes() whether the job was
\* there, and insert_job, which tells the new id by sqlite3_last_insert_rowid(),
\* say what their own statement did if no other thread used the shared
\* connection between the statement and the look at it.
RepliesExactWhenAlone ==
    \A t \in Threads : pc[t] = "done" /\ own[t].alone =>
        /\ call[t].op \in Counted => reply[t].ok = (own[t].changed = 1)
        /\ call[t].op = "insert_job" /\ own[t].id # 0 =>
               reply[t].id = ToInt(own[t].id)

\* Whatever the other threads do, the id insert_job returns for a job it
\* inserted is never that of an older job: it is the new job's or a later one's.
ReturnedIdNotOlder ==
    \A t \in Threads :
        pc[t] = "done" /\ call[t].op = "insert_job" /\ own[t].id # 0 =>
            \E i \in own[t].id .. MaxId : reply[t].id = ToInt(i)

\* A new job never gets the id of an earlier one, deleted or not, across any
\* interleaving, failed commit and restart: a client that still holds the id of
\* a deleted job cannot pause, resume or delete a job it has never seen.
IdsNeverReused ==
    [][\A i \in Ids : jobs[i] = NoRow /\ jobs'[i] # NoRow => i > seq /\ i <= seq']_vars

\* increment_retry_count never takes a job past its max_retries, however many
\* threads retry it at once, provided the jobs given to insert_job and
\* update_job respect it themselves and have a max_retries of 0 at least.
RetryBounded ==
    \A i \in Present : jobs[i].retry_count <= jobs[i].max_retries

\* select_due_jobs and select_all_jobs read while other threads write.  Each
\* Job they report was in the table, exactly so, and matched at some moment of
\* the scan; each job that matched at every moment of it is reported unless a
\* read failed; and no job twice.
ScanConsistent ==
    \A t \in Threads : pc[t] = "done" /\ call[t].op \in ScanOps =>
        /\ \A k \in DOMAIN reply[t].rows : reply[t].rows[k] \in view[t].some
        /\ ~own[t].failed => \A i \in view[t].all : ToInt(i) \in Reported(t)
        /\ \A k, l \in DOMAIN reply[t].rows :
              reply[t].rows[k].id = reply[t].rows[l].id => k = l

-----------------------------------------------------------------------------
(***************************************************************************)
(* Why the replies are exact and the ids new.                              *)
(***************************************************************************)
\* What the connection and the history say of a thread at each of its calls.
Known(t) ==
    /\ pc[t] = "refetch" => call[t].op = "update_job_status"
    /\ pc[t] = "scan" => call[t].op \in ScanOps
    /\ pc[t] \in {"idle", "prepare", "step", "scan", "finalize"} =>
           own[t].changed = 0 /\ own[t].id = 0
    /\ pc[t] = "check" /\ call[t].op = "insert_job" =>
           /\ own[t].id \in 1 .. lastRowid
           /\ own[t].alone => lastRowid = own[t].id
    /\ pc[t] = "check" /\ call[t].op # "insert_job" =>
           (own[t].alone => nChange = own[t].changed)

\* The counter is at or above every id of the table, and the connection's last
\* rowid at most one above the counter (one when its INSERT was rolled back):
\* rowids are given out in order.  A thread about to look at the connection
\* finds its own rowid or a later one, and its own effect if it was alone.
ConnectionInvariant ==
    /\ \A i \in Present : i <= seq
    /\ lastRowid <= seq + 1
    /\ \A t \in Threads : Known(t)
    /\ RepliesExactWhenAlone
    /\ ReturnedIdNotOlder

-----------------------------------------------------------------------------
(***************************************************************************)
(* Why the scans are consistent, and the repository as its callers see it. *)
(***************************************************************************)
\* Where thread t stands: nothing is known of its call before its statement,
\* and a scan has reported, in the order of the ids, rows that were there and
\* every row that has always been there up to its cursor.
Standing(t) ==
    /\ pc[t] \in {"idle", "prepare", "step", "scan"} => own[t] = NoEffect
    /\ pc[t] = "finalize" => own[t] = [NoEffect EXCEPT !.failed = TRUE]
    /\ pc[t] \in {"step", "check", "refetch", "finalize"} => call[t].op \notin ScanOps
    /\ pc[t] = "check" => call[t].op \notin {"get_job_by_id", "update_job_status"}
    /\ pc[t] = "refetch" => call[t].op = "update_job_status"
    /\ pc[t] = "scan" => call[t].op \in ScanOps
    /\ pc[t] \notin {"scan", "done"} => reply[t] = NoReply /\ cursor[t] = 0
    /\ pc[t] = "scan" =>
          /\ Entries(call[t], jobs) \subseteq view[t].some
          /\ view[t].all \subseteq Matching(call[t], jobs)
          /\ ~reply[t].ok /\ reply[t].id = 0
          /\ \A k \in DOMAIN reply[t].rows :
                /\ reply[t].rows[k] \in view[t].some
                /\ reply[t].rows[k].id <= cursor[t]
          /\ \A k, l \in DOMAIN reply[t].rows :
                k < l => reply[t].rows[k].id < reply[t].rows[l].id
          /\ \A i \in view[t].all : i <= cursor[t] => ToInt(i) \in Reported(t)

\* Every thread stands so, and a scan that is done is consistent.
ScanInvariant == (\A t \in Threads : Standing(t)) /\ ScanConsistent

\* How far a thread's call has come, for somebody who sees no sqlite3_* call.
Phase(label) == CASE label = "idle" -> "idle"
                  [] label \in {"prepare", "step", "finalize"} -> "called"
                  [] label \in {"check", "refetch", "scan"} -> "acted"
                  [] label = "done" -> "answered"

Store == INSTANCE JobStore WITH
    Callers <- Threads,
    Requests <- Calls,
    table <- jobs,
    issued <- seq,
    phase <- [t \in Threads |-> Phase(pc[t])],
    request <- call,
    outcome <- [t \in Threads |-> IF pc[t] = "finalize" THEN NoEffect ELSE own[t]],
    seen <- view,
    answer <- [t \in Threads |-> IF pc[t] = "done" THEN reply[t] ELSE NoReply]

\* The functions of database.cpp, each several calls of a connection that other
\* threads use in between, keep the promises of JobStore: one effect or none,
\* an answer that is exact unless it was spoiled, a list of what was there,
\* and a table that survives a restart.
ImplementsJobStore == Store!Spec

-----------------------------------------------------------------------------
(***************************************************************************)
(* What the text of the program says and its code does not do.             *)
(***************************************************************************)
\* "No job found with id": a function answers with failure exactly when its
\* own statement found no job, whoever else is using the connection.
RowsAffectedIsOwn ==
    \A t \in Threads : pc[t] = "done" /\ call[t].op \in Counted /\ ~own[t].failed =>
        reply[t].ok = (own[t].changed = 1)
=============================================================================
