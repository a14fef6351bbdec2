------------------------- MODULE JobSchedulerSafety -------------------------
(***************************************************************************)
(* What holds of the running program, for any number of workers and        *)
(* clients, with any requests, faults and restarts: the types of its       *)
(* variables, how it ends, and what the scheduler reports.                 *)
(***************************************************************************)
EXTENDS JobScheduler, JobModelProofs

Threads == Workers \cup {Scheduler}

\* Where the threads may be.  A worker is inside the repository only in a
\* handler, the scheduler only in its query, and no handler runs before the
\* port is bound or after run() has returned.
ExitInvariant ==
    /\ DOMAIN pc = Threads
    /\ pc = [t \in Threads |-> pc[t]]
    /\ worker \in [Workers -> Clients \cup {NoClient}]
    /\ \A w \in Workers : worker[w] = NoClient => pc[w] = "idle"
    /\ sched # "scan" => pc[Scheduler] = "idle"
    /\ main \notin {"serving", "stopping"} => \A w \in Workers : worker[w] = NoClient
    /\ main \in {"open", "table", "spawn"} => sched = "none"
    /\ main = "exited" => sched = "exited"

-----------------------------------------------------------------------------
(***************************************************************************)
(* What the steps of the repository do to the threads.                     *)
(***************************************************************************)
\* A thread that goes on inside the repository was there, and is alone in it.
LEMMA OneMoves ==
    ASSUME NEW t \in Threads, DOMAIN pc = Threads, pc = [u \in Threads |-> pc[u]],
           Repo!Work(t) \/ Repo!PrepareFails(t) \/ Repo!Fault(t)
    PROVE  /\ pc[t] # "idle"
           /\ DOMAIN pc' = Threads
           /\ pc' = [u \in Threads |-> pc'[u]]
           /\ \A u \in Threads \ {t} : pc'[u] = pc[u]
<1>1. pc[t] # "idle" /\ (pc' = pc \/ \E place : pc' = [pc EXCEPT ![t] = place])
  <2>1. CASE Repo!Prepare(t)
    BY <2>1 DEF Repo!Prepare, Repo!Go
  <2>2. CASE Repo!WriteStep(t)
    BY <2>2 DEF Repo!WriteStep, Repo!InsertStep, Repo!InsertFull, Repo!UpdateStatusStep,
       Repo!DeleteStep, Repo!UpdateJobStep, Repo!PauseStep, Repo!ResumeStep,
       Repo!UpdateNextRunTimeStep, Repo!IncrementRetryStep, Repo!ResetRetryStep,
       Repo!Write, Repo!Go, Repo!Finish
  <2>3. CASE Repo!FinalizeBusy(t) \/ Repo!InsertCheck(t) \/ Repo!ChangesCheck(t)
    BY <2>3 DEF Repo!FinalizeBusy, Repo!InsertCheck, Repo!ChangesCheck, Repo!Finish, Repo!Go
  <2>4. CASE Repo!GetStep(t) \/ Repo!Refetch(t) \/ Repo!ScanRow(t) \/ Repo!ScanDone(t)
    BY <2>4 DEF Repo!GetStep, Repo!Refetch, Repo!ScanRow, Repo!ScanDone, Repo!Finish, Repo!Go
  <2>5. CASE Repo!PrepareFails(t)
    BY <2>5 DEF Repo!PrepareFails, Repo!Finish, Repo!Go
  <2>6. CASE Repo!StepBusy(t) \/ Repo!CommitFails(t) \/ Repo!ReadFails(t)
    BY <2>6 DEF Repo!StepBusy, Repo!CommitFails, Repo!ReadFails, Repo!Finish, Repo!Go
  <2>. QED
    BY <2>1, <2>2, <2>3, <2>4, <2>5, <2>6 DEF Repo!Work, Repo!Fault
<1>2. CASE pc' = pc
  BY <1>1, <1>2
<1>3. ASSUME NEW place, pc' = [pc EXCEPT ![t] = place]
      PROVE  /\ DOMAIN pc' = Threads
             /\ pc' = [u \in Threads |-> pc'[u]]
             /\ \A u \in Threads \ {t} : pc'[u] = pc[u]
  BY <1>3
<1>. QED
  BY <1>1, <1>2, <1>3

LEMMA RepoStepKeeps ==
    ASSUME ExitInvariant, NEW t \in Threads, RepoStep(t) \/ RepoFault(t)
    PROVE  ExitInvariant'
<1>1. /\ pc[t] # "idle" /\ DOMAIN pc' = Threads
      /\ pc' = [u \in Threads |-> pc'[u]]
      /\ \A u \in Threads \ {t} : pc'[u] = pc[u]
  <2>1. Repo!Work(t) \/ Repo!PrepareFails(t) \/ Repo!Fault(t)
    BY DEF RepoStep, RepoFault
  <2>. QED
    BY <2>1, OneMoves DEF ExitInvariant
<1>2. UNCHANGED <<main, sched, worker>>
  BY DEF RepoStep, RepoFault, mainVars, schedVars, httpVars
<1>3. \A w \in Workers : worker[w] = NoClient => w # t
  BY <1>1 DEF ExitInvariant
<1>4. sched # "scan" => Scheduler # t
  BY <1>1 DEF ExitInvariant
<1>5. Scheduler \in Threads /\ Workers \subseteq Threads
  BY DEF Threads
<1>. QED
  BY <1>1, <1>2, <1>3, <1>4, <1>5 DEF ExitInvariant

-----------------------------------------------------------------------------
(***************************************************************************)
(* The other steps.                                                        *)
(***************************************************************************)
LEMMA MainKeeps ==
    ASSUME ExitInvariant, MainStep \/ Signal
    PROVE  ExitInvariant'
<1>1. UNCHANGED <<pc, worker>>
  BY DEF MainStep, Signal, CreateDB, CreateTable, StartScheduler, Serve, RunReturns,
     ClearRunning, Join, repoVars, httpVars
<1>2. CASE CreateDB \/ CreateTable \/ Serve \/ ClearRunning \/ Signal
  BY <1>1, <1>2 DEF ExitInvariant, CreateDB, CreateTable, Serve, ClearRunning, Signal, schedVars
<1>3. CASE StartScheduler
  BY <1>1, <1>3 DEF ExitInvariant, StartScheduler
<1>4. CASE RunReturns
  BY <1>1, <1>4 DEF ExitInvariant, RunReturns, schedVars
<1>5. CASE Join
  BY <1>1, <1>5 DEF ExitInvariant, Join, schedVars
<1>. QED
  BY <1>2, <1>3, <1>4, <1>5 DEF MainStep

LEMMA SchedKeeps ==
    ASSUME ExitInvariant, SchedTest \/ SchedQuery \/ SchedDue \/ SchedPrint \/ SchedWake
    PROVE  ExitInvariant'
<1>1. UNCHANGED <<main, worker>>
  BY DEF SchedTest, SchedQuery, SchedDue, SchedPrint, SchedWake, mainVars, httpVars
<1>2. CASE SchedTest \/ SchedPrint \/ SchedWake
  BY <1>1, <1>2 DEF ExitInvariant, SchedTest, SchedPrint, SchedWake, repoVars
<1>3. Scheduler \in Threads /\ Scheduler \notin Workers /\ Workers \subseteq Threads
  BY JobSchedulerAssumption DEF Threads
<1>4. CASE SchedQuery
  <2>1. pc' = [pc EXCEPT ![Scheduler] = "prepare"]
    BY <1>4 DEF SchedQuery, Repo!Invoke, Repo!Go
  <2>. QED
    BY <1>1, <1>3, <1>4, <2>1 DEF ExitInvariant, SchedQuery
<1>5. CASE SchedDue
  <2>1. pc' = [pc EXCEPT ![Scheduler] = "idle"]
    BY <1>5 DEF SchedDue, Repo!Return, Repo!Go
  <2>. QED
    BY <1>1, <1>3, <1>5, <2>1 DEF ExitInvariant, SchedDue
<1>. QED
  BY <1>2, <1>4, <1>5

LEMMA RouteKeeps ==
    ASSUME ExitInvariant, NEW w \in Workers,
           Respond(w) \/ \E c \in Clients : HandleAtOnce(w, c) \/ Handle(w, c)
    PROVE  ExitInvariant'
<1>1. UNCHANGED <<main, sched>>
  BY DEF Respond, HandleAtOnce, Handle, mainVars, schedVars
<1>2. w \in Threads /\ w # Scheduler /\ Scheduler \in Threads /\ Workers \subseteq Threads
  BY JobSchedulerAssumption DEF Threads
<1>3. CASE Respond(w)
  <2>1. /\ pc' = [pc EXCEPT ![w] = "idle"]
        /\ worker' = [worker EXCEPT ![w] = NoClient]
    BY <1>3 DEF Respond, Repo!Return, Repo!Go
  <2>. QED
    BY <1>1, <1>2, <2>1 DEF ExitInvariant
<1>4. ASSUME NEW c \in Clients, HandleAtOnce(w, c)
      PROVE  ExitInvariant'
  BY <1>1, <1>4 DEF ExitInvariant, HandleAtOnce, repoVars
<1>5. ASSUME NEW c \in Clients, Handle(w, c)
      PROVE  ExitInvariant'
  <2>1. /\ pc' = [pc EXCEPT ![w] = "prepare"]
        /\ worker' = [worker EXCEPT ![w] = c]
        /\ main = "serving" /\ c # NoClient
    BY <1>5, JobSchedulerAssumption DEF Handle, Available, Repo!Invoke, Repo!Go
  <2>. QED
    BY <1>1, <1>2, <2>1 DEF ExitInvariant
<1>. QED
  BY <1>3, <1>4, <1>5

LEMMA OutsideKeeps ==
    ASSUME ExitInvariant,
           Tick \/ (\E c \in Clients : ClientStep(c) \/ CutOff(c)) \/ UNCHANGED vars
    PROVE  ExitInvariant'
<1>1. UNCHANGED <<pc, worker, main, sched>>
  BY DEF Tick, ClientStep, Send, Receive, CutOff, vars, repoVars, mainVars, schedVars, httpVars
<1>. QED
  BY <1>1 DEF ExitInvariant

LEMMA RestartKeeps ==
    ASSUME Restart
    PROVE  ExitInvariant'
<1>1. /\ pc' = [t \in Threads |-> "idle"]
      /\ worker' = [w \in Workers |-> NoClient]
      /\ main' = "open" /\ sched' = "none"
  BY DEF Restart, Repo!Restart, Repo!Idle, Threads
<1>. QED
  BY <1>1 DEF ExitInvariant, Threads

-----------------------------------------------------------------------------
(***************************************************************************)
(* The theorem.                                                            *)
(***************************************************************************)
LEMMA InitHolds ==
    ASSUME Init
    PROVE  ExitInvariant
<1>1. /\ pc = [t \in Threads |-> "idle"]
      /\ worker = [w \in Workers |-> NoClient]
      /\ main = "open" /\ sched = "none"
  BY DEF Init, Repo!Init, Repo!Open, Repo!Idle, Threads
<1>. QED
  BY <1>1 DEF ExitInvariant, Threads

LEMMA StepKeeps ==
    ASSUME ExitInvariant, [Next]_vars
    PROVE  ExitInvariant'
<1>1. Scheduler \in Threads /\ Workers \subseteq Threads
  BY DEF Threads
<1>2. CASE MainStep \/ Signal
  BY <1>2, MainKeeps
<1>3. CASE SchedStep
  BY <1>1, <1>3, SchedKeeps, RepoStepKeeps DEF SchedStep
<1>4. ASSUME NEW w \in Workers, WorkerStep(w)
      PROVE  ExitInvariant'
  BY <1>1, <1>4, RepoStepKeeps, RouteKeeps DEF WorkerStep
<1>5. ASSUME NEW c \in Clients, Take(c)
      PROVE  ExitInvariant'
  BY <1>5, RouteKeeps DEF Take
<1>6. ASSUME NEW t \in Workers \cup {Scheduler}, RepoFault(t)
      PROVE  ExitInvariant'
  BY <1>6, RepoStepKeeps DEF Threads
<1>7. CASE Restart
  BY <1>7, RestartKeeps
<1>8. CASE Tick \/ (\E c \in Clients : ClientStep(c) \/ CutOff(c)) \/ UNCHANGED vars
  BY <1>8, OutsideKeeps
<1>. QED
  BY <1>2, <1>3, <1>4, <1>5, <1>6, <1>7, <1>8 DEF Next

\* main() returns, and destroys what the threads refer to, only when run() and
\* join() have seen every one of them out of the repository, whatever was being
\* served when the signal came.
THEOREM ExitIsClean == Spec => []CleanExit
<1>1. Init => ExitInvariant
  BY InitHolds
<1>2. ExitInvariant /\ [Next]_vars => ExitInvariant'
  BY StepKeeps
<1>3. ExitInvariant => CleanExit
  BY DEF ExitInvariant, CleanExit, Threads
<1>. QED
  BY <1>1, <1>2, <1>3, PTL DEF Spec

-----------------------------------------------------------------------------
(***************************************************************************)
(* The repository inside the program.  What RepositoryScan proves of the   *)
(* repository holds of it: the calls the program makes are calls of the    *)
(* repository.  There a prepare may always fail, for it does on a database *)
(* that is not usable.                                                     *)
(***************************************************************************)
R == INSTANCE RepositoryScan WITH Threads <- Threads, Calls <- RepoCalls,
                                  Faults <- Faults \cup {"prepare"}

\* R and Repo are the same repository, but for the faults.
LEMMA SameRepository ==
    /\ Repo!Job = Job /\ R!Job = Job /\ Repo!CInt = CInt /\ R!CInt = CInt
    /\ \A n : Repo!ToInt(n) = ToInt(n) /\ R!ToInt(n) = ToInt(n)
    /\ Repo!Init <=> R!Init
    /\ Repo!Restart <=> R!Restart
    /\ Repo!TypeOK <=> R!TypeOK
    /\ Repo!TypeOK' <=> R!TypeOK'
    /\ \A t : /\ Repo!Work(t) <=> R!Work(t)
              /\ Repo!PrepareFails(t) <=> R!PrepareFails(t)
              /\ Repo!Return(t) <=> R!Return(t)
              /\ Repo!Fault(t) => R!Fault(t)
              /\ \A c : Repo!Invoke(t, c) <=> R!Invoke(t, c)
<1>1. /\ Repo!Job = Job /\ R!Job = Job /\ Repo!CInt = CInt /\ R!CInt = CInt
      /\ \A n : Repo!ToInt(n) = ToInt(n) /\ R!ToInt(n) = ToInt(n)
  BY DEF Job, CInt, ToInt, Job_Type, Status, ACTIVE, CANCELED, ONE_TIME, CRON,
     Repo!Job, Repo!CInt, Repo!ToInt, Repo!Job_Type, Repo!Status, Repo!ACTIVE,
     Repo!CANCELED, Repo!ONE_TIME, Repo!CRON,
     R!Job, R!CInt, R!ToInt, R!Job_Type, R!Status, R!ACTIVE, R!CANCELED, R!ONE_TIME, R!CRON
<1>2. /\ Repo!Init <=> R!Init
      /\ Repo!Restart <=> R!Restart
      /\ Repo!TypeOK <=> R!TypeOK
      /\ Repo!TypeOK' <=> R!TypeOK'
      /\ \A t : /\ Repo!Work(t) <=> R!Work(t)
                /\ Repo!PrepareFails(t) <=> R!PrepareFails(t)
                /\ Repo!Return(t) <=> R!Return(t)
                /\ Repo!Fault(t) => R!Fault(t)
                /\ \A c : Repo!Invoke(t, c) <=> R!Invoke(t, c)
  <2>. USE DEF Repo!Prepare, R!Prepare, Repo!WriteStep, R!WriteStep,
             Repo!InsertStep, R!InsertStep, Repo!InsertFull, R!InsertFull,
             Repo!UpdateStatusStep, R!UpdateStatusStep, Repo!DeleteStep, R!DeleteStep,
             Repo!UpdateJobStep, R!UpdateJobStep, Repo!PauseStep, R!PauseStep,
             Repo!ResumeStep, R!ResumeStep,
             Repo!UpdateNextRunTimeStep, R!UpdateNextRunTimeStep,
             Repo!IncrementRetryStep, R!IncrementRetryStep,
             Repo!ResetRetryStep, R!ResetRetryStep, Repo!Write, R!Write,
             Repo!FinalizeBusy, R!FinalizeBusy, Repo!InsertCheck, R!InsertCheck,
             Repo!ChangesCheck, R!ChangesCheck, Repo!GetStep, R!GetStep,
             Repo!Refetch, R!Refetch, Repo!ScanRow, R!ScanRow,
             Repo!ScanDone, R!ScanDone, Repo!PrepareFails, R!PrepareFails,
             Repo!StepBusy, R!StepBusy, Repo!CommitFails, R!CommitFails,
             Repo!ReadFails, R!ReadFails, Repo!Fault, R!Fault, Repo!Invoke, R!Invoke,
             Repo!Return, R!Return, Repo!Restart, R!Restart, Repo!Init, R!Init,
             Repo!Open, R!Open, Repo!Idle, R!Idle, Repo!Go, R!Go,
             Repo!Finish, R!Finish, Repo!Disturb, R!Disturb, Repo!Look, R!Look,
             Repo!Entries, R!Entries, Repo!Matching, R!Matching,
             Repo!Selects, R!Selects, Repo!ReadJob, R!ReadJob, Repo!ToInt, R!ToInt,
             Repo!int_to_type, R!int_to_type, Repo!int_to_status, R!int_to_status,
             Repo!Ids, R!Ids, Repo!ScanOps, R!ScanOps, Repo!Present, R!Present,
             Repo!Target, R!Target, Repo!NewRowid, R!NewRowid,
             Repo!Fetched, R!Fetched, Repo!Ahead, R!Ahead, Repo!NoReply, R!NoReply,
             Repo!NoEffect, R!NoEffect, Repo!NoView, R!NoView,
             Repo!Failure, R!Failure, Repo!AnyCall, R!AnyCall, Repo!ACTIVE, R!ACTIVE,
             Repo!PAUSED, R!PAUSED, Repo!CANCELED, R!CANCELED, Repo!Status, R!Status,
             Repo!ONE_TIME, R!ONE_TIME, Repo!RECURRING, R!RECURRING,
             Repo!CRON, R!CRON, Repo!Job_Type, R!Job_Type, Repo!database, R!database,
             Repo!connection, R!connection, Repo!Work, R!Work, Repo!Job, R!Job,
             Repo!CInt, R!CInt, Repo!TypeOK, R!TypeOK
  <2>. QED
    BY DEF Threads
<1>. QED
  BY <1>1, <1>2

\* What create_job makes of a body it inserts is a job.
LEMMA CreatedJob ==
    ASSUME NEW b \in Bodies, Inserting(b), NEW t \in 0 .. MaxTime
    PROVE  CreateJob(b, t) \in Job
<1>1. /\ b \in Data /\ b.type.n \in Job_Type
      /\ b.next_run_time.n \in Int /\ b.interval_seconds.n \in Int /\ b.max_retries.n \in Int
      /\ b.type.n = CRON => compute_cron_next_run(Texts[b.cron_expr.n], t) \in Int
  BY BodiesAssumption DEF Inserting, validate_job_input
<1>2. \A n \in Int : ToInt(n) \in Int
  BY ToIntIsInt, IntLimitAssumption DEF CInt
<1>3. int_to_type(ToInt(b.type.n)) \in Job_Type
  BY DEF int_to_type, Job_Type, ONE_TIME, RECURRING, CRON
<1>4. compute_next_run_time(b, t) \in Int
  <2>1. t \in Int
    BY JobSchedulerAssumption
  <2>2. CASE b.type.n = ONE_TIME
    BY <1>1, <2>2 DEF compute_next_run_time, ONE_TIME, RECURRING, CRON
  <2>3. CASE b.type.n = RECURRING
    BY <1>1, <1>2, <2>1, <2>3 DEF compute_next_run_time, ONE_TIME, RECURRING, CRON
  <2>4. CASE b.type.n = CRON
    BY <1>1, <2>4 DEF compute_next_run_time, ONE_TIME, RECURRING, CRON
  <2>. QED
    BY <1>1, <2>2, <2>3, <2>4 DEF Job_Type, ONE_TIME, RECURRING, CRON
<1>5. max_retries(b) \in Int
  BY <1>1, <1>2 DEF max_retries
<1>6. ACTIVE \in Status
  BY DEF ACTIVE, Status, CANCELED
<1>. QED
  BY <1>1, <1>3, <1>4, <1>5, <1>6 DEF CreateJob, Job

\* The assumptions of the repository.
LEMMA RepositoryMeets ==
    /\ MaxId \in Nat \ {0}
    /\ RepoCalls \subseteq R!Call /\ RepoCalls # {}
    /\ Faults \cup {"prepare"} \subseteq {"prepare", "busy", "commit", "read"}
    /\ ErrorCodes \subseteq Nat \ {0}
    /\ NoRow \notin R!Job
<1>1. DefaultJob \in Job
  BY BodiesAssumption DEF DefaultJob, Job, ONE_TIME, ACTIVE, Job_Type, Status, CRON, CANCELED
<1>2. R!Call = [op : R!Ops, id : Int, job : Job, status : Status, time : Int]
  BY SameRepository DEF R!Call, R!Status, Status, R!ACTIVE, R!CANCELED, ACTIVE, CANCELED
<1>3. /\ ACTIVE \in Status
      /\ {"insert_job", "select_all_jobs", "select_due_jobs", "delete_job", "get_job_by_id",
          "pause_job", "resume_job"} \subseteq R!Ops
  BY DEF ACTIVE, Status, CANCELED, R!Ops, R!UpdateOps, R!ScanOps
<1>4. ASSUME NEW op \in R!Ops, NEW id \in Int, NEW job \in Job, NEW time \in Int
      PROVE  CallOf(op, id, job, time) \in R!Call
  BY <1>2, <1>3 DEF CallOf
<1>5. \A n \in ReqIds : ToInt(n) \in Int
  BY JobSchedulerAssumption, IntLimitAssumption, ToIntIsInt DEF CInt
<1>6. \A t \in 0 .. MaxTime : t \in Int
  BY JobSchedulerAssumption
<1>7. AllCall \in R!Call
  BY <1>1, <1>3, <1>4 DEF AllCall
<1>8. \A t \in 0 .. MaxTime : get_due_jobs(t) \in R!Call
  BY <1>1, <1>3, <1>4, <1>6 DEF get_due_jobs
<1>9. \A op \in {"delete_job", "get_job_by_id", "pause_job", "resume_job"}, n \in ReqIds :
          IdCall(op, ToInt(n)) \in R!Call
  BY <1>1, <1>3, <1>4, <1>5 DEF IdCall
<1>10. \A b \in Bodies, t \in 0 .. MaxTime :
           Inserting(b) => InsertCall(CreateJob(b, t)) \in R!Call
  BY <1>3, <1>4, CreatedJob DEF InsertCall
<1>11. RepoCalls \subseteq R!Call /\ RepoCalls # {}
  BY <1>7, <1>8, <1>9, <1>10 DEF RepoCalls
<1>. QED
  BY <1>11, SameRepository, JobSchedulerAssumption

-----------------------------------------------------------------------------
(***************************************************************************)
(* Who is where.                                                           *)
(***************************************************************************)
Phases == {"free", "waiting", "handled", "answered", "hung", "closed"}

Requests == Request \cup {Free.request}
Responses == {NoResponse} \cup {ImmediateResponse(r) : r \in Requests}
                 \cup {RouteResponse(r, answer) : r \in Requests, answer \in R!Answer}
Connection == [phase : Phases, request : Requests, response : Responses]

\* Worker w makes the call of the request it handles.
Serves(w) ==
    LET request == client[worker[w]].request
    IN  /\ client[worker[w]].phase = "handled"
        /\ pc[w] # "idle"
        /\ call[w].op = "resume_job" =>
               request.route = "resume" /\ call[w].id = Named(request)
        /\ Stops(request) =>
               call[w].op \in {"pause_job", "delete_job"} /\ call[w].id = Named(request)

\* A pause or a delete of connection c is outstanding, and no resume.
Outstanding(c) ==
    LET request == client[c].request
    IN  /\ client[c].phase \in {"waiting", "handled"}
        /\ Stops(request)
        /\ Named(request) \in 1 .. seq
        /\ ~Resuming(Named(request))

\* Each worker in a handler serves a connection of its own; what was promised
\* is about ids that were given out.
HttpInvariant ==
    /\ client \in [Clients -> Connection]
    /\ worker \in [Workers -> Clients \cup {NoClient}]
    /\ \A w \in Workers : IF worker[w] = NoClient THEN pc[w] = "idle" ELSE Serves(w)
    /\ \A v, w \in Workers : worker[v] = worker[w] /\ worker[v] # NoClient => v = w
    /\ promise \in [clean : SUBSET Clients, told : SUBSET Ids, round : SUBSET Ids]
    /\ \A c \in promise.clean : Outstanding(c)
    /\ promise.told \subseteq 1 .. seq
    /\ promise.round \subseteq promise.told

\* The scheduler is in the repository for its query only, and has jobs to
\* print only after it.
SchedInvariant ==
    /\ sched # "scan" => pc[Scheduler] = "idle"
    /\ sched = "scan" => pc[Scheduler] # "idle" /\ call[Scheduler] = get_due_jobs(now)
    /\ sched # "print" => due = <<>>

ProgramInvariant ==
    TypeOK /\ R!ConnectionInvariant /\ HttpInvariant /\ SchedInvariant

-----------------------------------------------------------------------------
(***************************************************************************)
(* Each step of the program is one of the repository or leaves it alone.   *)
(***************************************************************************)
LEMMA RepoStepIs ==
    ASSUME NEW t \in Threads, RepoStep(t) \/ RepoFault(t)
    PROVE  /\ R!Step(t) /\ R!Next
           /\ UNCHANGED <<mainVars, clock, schedVars, httpVars, promise>>
<1>1. R!Work(t) \/ R!PrepareFails(t) \/ R!Fault(t)
  BY SameRepository DEF RepoStep, RepoFault
<1>2. R!PrepareFails(t) => R!Fault(t)
  BY DEF R!Fault
<1>. QED
  BY <1>1, <1>2 DEF R!Step, R!Next, R!Advance, RepoStep, RepoFault

\* The call of a route is one the program makes.
LEMMA RouteCalls ==
    ASSUME TypeOK, NEW r \in Request, ~Immediate(r)
    PROVE  /\ RouteCall(r) \in RepoCalls
           /\ RouteCall(r).op = "resume_job" =>
                  r.route = "resume" /\ RouteCall(r).id = Named(r)
           /\ Stops(r) => /\ RouteCall(r).op \in {"pause_job", "delete_job"}
                          /\ RouteCall(r).id = Named(r)
<1>1. CASE r.route = "Jobs"
  BY <1>1 DEF RouteCall, AllCall, CallOf, RepoCalls, Stops
<1>2. CASE r.route = "CreateTask"
  <2>1. r.body \in Bodies /\ Inserting(r.body) /\ clock \in 0 .. MaxTime
    BY <1>2 DEF Request, IdRoutes, Immediate, TypeOK
  <2>2. RouteCall(r) = InsertCall(CreateJob(r.body, clock))
    BY <1>2 DEF RouteCall
  <2>. QED
    BY <1>2, <2>1, <2>2 DEF InsertCall, CallOf, RepoCalls, Stops
<1>3. CASE r.route \in IdRoutes
  <2>1. r.id \in ReqIds
    BY <1>3 DEF Request, IdRoutes
  <2>2. PICK op \in {"delete_job", "get_job_by_id", "pause_job", "resume_job"} :
            /\ RouteCall(r) = IdCall(op, Named(r))
            /\ op = "resume_job" => r.route = "resume"
            /\ Stops(r) => op \in {"pause_job", "delete_job"}
    <3>1. CASE r.route = "DeleteTask"
      BY <3>1 DEF RouteCall, Stops
    <3>2. CASE r.route = "job"
      BY <3>2 DEF RouteCall, Stops
    <3>3. CASE r.route = "pause"
      BY <3>3 DEF RouteCall, Stops
    <3>4. CASE r.route = "resume"
      BY <3>4 DEF RouteCall, Stops
    <3>. QED
      BY <1>3, <3>1, <3>2, <3>3, <3>4 DEF IdRoutes
  <2>3. IdCall(op, Named(r)) \in RepoCalls
    BY <2>1 DEF RepoCalls, Named
  <2>. QED
    BY <2>2, <2>3 DEF IdCall, CallOf
<1>4. r.route \in IdRoutes \cup {"Jobs", "CreateTask"}
  BY DEF Request, Immediate
<1>. QED
  BY <1>1, <1>2, <1>3, <1>4

\* So a worker that takes up a request makes such a call.
LEMMA HandleCalls ==
    ASSUME TypeOK, HttpInvariant, NEW w \in Workers, NEW c \in Clients, Handle(w, c)
    PROVE  client[c].request \in Request /\ RouteCall(client[c].request) \in RepoCalls
<1>1. ~Immediate(client[c].request) /\ client[c].request \in Requests
  BY DEF Handle, HttpInvariant, Connection
<1>2. Immediate(Free.request)
  BY DEF Free, Immediate
<1>. QED
  BY <1>1, <1>2, RouteCalls DEF Requests

LEMMA StepIsRepository ==
    ASSUME TypeOK, HttpInvariant, [Next]_vars
    PROVE  [R!Next]_R!vars
<1>1. CASE UNCHANGED repoVars
  BY <1>1 DEF repoVars, R!vars
<1>2. Scheduler \in Threads /\ Workers \subseteq Threads
  BY DEF Threads
<1>3. ASSUME NEW t \in Threads, RepoStep(t) \/ RepoFault(t) PROVE R!Next
  BY <1>3, RepoStepIs
<1>4. CASE SchedQuery
  <2>1. get_due_jobs(clock) \in RepoCalls
    BY DEF RepoCalls, TypeOK
  <2>. QED
    BY <1>2, <1>4, <2>1, SameRepository DEF SchedQuery, R!Next
<1>5. CASE SchedDue
  BY <1>2, <1>5, SameRepository DEF SchedDue, R!Next, R!Advance
<1>6. ASSUME NEW w \in Workers, NEW c \in Clients, Handle(w, c) PROVE R!Next
  BY <1>2, <1>6, HandleCalls, SameRepository DEF Handle, R!Next
<1>7. ASSUME NEW w \in Workers, Respond(w) PROVE R!Next
  BY <1>2, <1>7, SameRepository DEF Respond, R!Next, R!Advance
<1>8. CASE Restart
  BY <1>8, SameRepository DEF Restart, R!Next
<1>9. MainStep \/ Signal \/ Tick \/ SchedTest \/ SchedPrint \/ SchedWake => UNCHANGED repoVars
  BY DEF MainStep, CreateDB, CreateTable, StartScheduler, Serve, RunReturns, ClearRunning,
     Join, Signal, Tick, SchedTest, SchedPrint, SchedWake
<1>10. ASSUME NEW c \in Clients,
              ClientStep(c) \/ CutOff(c) \/ \E w \in Workers : HandleAtOnce(w, c)
       PROVE  UNCHANGED repoVars
  BY <1>10 DEF ClientStep, Send, Receive, CutOff, HandleAtOnce
<1>11. UNCHANGED vars => UNCHANGED repoVars
  BY DEF vars
<1>. QED
  BY <1>1, <1>2, <1>3, <1>4, <1>5, <1>6, <1>7, <1>8, <1>9, <1>10, <1>11
     DEF Next, SchedStep, WorkerStep, Take, Threads

LEMMA RepositoryKept ==
    ASSUME ProgramInvariant, [Next]_vars
    PROVE  R!TypeOK' /\ R!ConnectionInvariant'
<1>1. R!TypeOK /\ R!ConnectionInvariant /\ [R!Next]_R!vars
  BY SameRepository, StepIsRepository DEF ProgramInvariant, TypeOK
<1>2. R!TypeOK'
  BY <1>1, R!NextType, RepositoryMeets, IntLimitAssumption
<1>3. R!ConnectionInvariant'
  BY <1>1, R!NextKnown, RepositoryMeets, IntLimitAssumption
<1>. QED
  BY <1>2, <1>3
-----------------------------------------------------------------------------
(***************************************************************************)
(* Who is where after each step.                                           *)
(***************************************************************************)
\* The threads, as functions.
LEMMA ThreadFacts ==
    ASSUME TypeOK
    PROVE  /\ DOMAIN pc = Threads /\ DOMAIN call = Threads /\ DOMAIN reply = Threads
           /\ pc = [t \in Threads |-> pc[t]]
           /\ seq \in 0 .. MaxId /\ MaxId \in Nat
           /\ Scheduler \in Threads /\ Scheduler \notin Workers /\ Workers \subseteq Threads
  BY JobSchedulerAssumption DEF TypeOK, Repo!TypeOK, Threads

\* Entering and leaving the repository.
LEMMA InvokeIs ==
    ASSUME TypeOK, NEW t \in Threads, NEW c, Repo!Invoke(t, c)
    PROVE  /\ pc[t] = "idle"
           /\ pc' = [pc EXCEPT ![t] = "prepare"] /\ call' = [call EXCEPT ![t] = c]
           /\ pc'[t] = "prepare" /\ call'[t] = c
           /\ \A u \in Threads \ {t} : pc'[u] = pc[u] /\ call'[u] = call[u]
           /\ UNCHANGED <<jobs, seq, reply>>
  BY ThreadFacts DEF Repo!Invoke, Repo!Go, Repo!database

LEMMA ReturnIs ==
    ASSUME TypeOK, NEW t \in Threads, Repo!Return(t)
    PROVE  /\ pc[t] = "done"
           /\ pc'[t] = "idle" /\ reply'[t] = Repo!NoReply
           /\ \A u \in Threads \ {t} :
                 pc'[u] = pc[u] /\ call'[u] = call[u] /\ reply'[u] = reply[u]
           /\ UNCHANGED <<jobs, seq>>
  BY ThreadFacts DEF Repo!Return, Repo!Go, Repo!database

\* What a resume that is on its way depends on.
LEMMA ResumingStays ==
    ASSUME UNCHANGED client
    PROVE  \A i : Resuming(i)' = Resuming(i)
  BY DEF Resuming, Named

LEMMA OutstandingStays ==
    ASSUME UNCHANGED client, seq \in Int, seq' \in Int, seq <= seq',
           NEW c \in Clients, Outstanding(c)
    PROVE  Outstanding(c)'
  BY ResumingStays DEF Outstanding, Stops, Named

\* A step that moves one thread inside the repository, or none.
LEMMA HttpInside ==
    ASSUME ProgramInvariant, UNCHANGED <<client, worker, promise>>,
           seq' \in Int, seq <= seq',
           \A w \in Workers : call'[w] = call[w] /\ (pc'[w] = "idle" <=> pc[w] = "idle")
    PROVE  HttpInvariant'
<1>1. seq \in Int
  BY ThreadFacts DEF ProgramInvariant
<1>2. \A c \in promise.clean : Outstanding(c)'
  BY <1>1, OutstandingStays DEF ProgramInvariant, HttpInvariant
<1>3. \A w \in Workers : worker[w] # NoClient => Serves(w)'
  BY DEF ProgramInvariant, HttpInvariant, Serves, Named, Stops
<1>4. promise.told \subseteq 1 .. seq'
  BY <1>1 DEF ProgramInvariant, HttpInvariant
<1>. QED
  BY <1>2, <1>3, <1>4 DEF ProgramInvariant, HttpInvariant

LEMMA HttpRepo ==
    ASSUME ProgramInvariant, NEW t \in Threads, RepoStep(t) \/ RepoFault(t)
    PROVE  HttpInvariant'
<1>1. R!Step(t) /\ R!TypeOK /\ R!ConnectionInvariant
  BY RepoStepIs, SameRepository DEF ProgramInvariant, TypeOK
<1>2. /\ pc[t] \notin {"idle", "done"} /\ pc'[t] # "idle"
      /\ UNCHANGED call
      /\ \A u \in Threads \ {t} : pc'[u] = pc[u] /\ reply'[u] = reply[u]
  BY <1>1, R!StepMoves, RepositoryMeets, IntLimitAssumption
<1>3. seq <= seq'
  BY <1>1, R!StepTouches, RepositoryMeets, IntLimitAssumption
<1>4. UNCHANGED <<client, worker, promise>>
  BY RepoStepIs DEF httpVars
<1>5. seq' \in Int
  <2>1. [Next]_vars
    BY DEF Next, SchedStep, WorkerStep, Threads
  <2>2. R!TypeOK'
    BY <2>1, RepositoryKept
  <2>. QED
    BY <2>2, JobSchedulerAssumption DEF R!TypeOK
<1>6. \A w \in Workers : call'[w] = call[w] /\ (pc'[w] = "idle" <=> pc[w] = "idle")
  BY <1>2 DEF Threads
<1>. QED
  BY <1>3, <1>4, <1>5, <1>6, HttpInside

LEMMA HttpElsewhere ==
    ASSUME ProgramInvariant,
           \/ MainStep \/ Signal \/ Tick \/ UNCHANGED vars
           \/ SchedTest \/ SchedPrint \/ SchedQuery \/ SchedDue
    PROVE  HttpInvariant'
<1>. TypeOK /\ seq \in Int
  BY ThreadFacts DEF ProgramInvariant
<1>1. CASE MainStep \/ Signal \/ Tick \/ UNCHANGED vars \/ SchedTest \/ SchedPrint
  <2>1. UNCHANGED <<pc, call, seq, client, worker, promise>>
    BY <1>1 DEF MainStep, CreateDB, CreateTable, StartScheduler, Serve, RunReturns,
       ClearRunning, Join, Signal, Tick, vars, SchedTest, SchedPrint, repoVars, httpVars
  <2>2. seq <= seq'
    BY <2>1
  <2>. QED
    BY <2>1, <2>2, HttpInside
<1>2. CASE SchedDue
  <2>1. UNCHANGED <<client, worker, promise>>
    BY <1>2 DEF SchedDue, httpVars
  <2>2. \A w \in Workers : call'[w] = call[w] /\ pc'[w] = pc[w]
    BY <1>2, ReturnIs, ThreadFacts DEF SchedDue
  <2>3. seq' \in Int /\ seq <= seq'
    BY <1>2, ReturnIs, ThreadFacts DEF SchedDue
  <2>. QED
    BY <2>1, <2>2, <2>3, HttpInside
<1>3. CASE SchedQuery
  <2>1. /\ UNCHANGED <<client, worker, seq>>
        /\ promise' = [promise EXCEPT !.round = promise.told]
        /\ \A w \in Workers : call'[w] = call[w] /\ pc'[w] = pc[w]
    BY <1>3, InvokeIs, ThreadFacts DEF SchedQuery, httpVars
  <2>2. /\ promise' \in [clean : SUBSET Clients, told : SUBSET Ids, round : SUBSET Ids]
        /\ promise'.clean = promise.clean /\ promise'.told = promise.told
        /\ promise'.round = promise.told
    BY <2>1 DEF ProgramInvariant, HttpInvariant
  <2>3. \A c \in promise.clean : Outstanding(c)'
    BY <2>1, OutstandingStays DEF ProgramInvariant, HttpInvariant
  <2>4. \A w \in Workers : worker[w] # NoClient => Serves(w)'
    BY <2>1 DEF ProgramInvariant, HttpInvariant, Serves, Named, Stops
  <2>. QED
    BY <2>1, <2>2, <2>3, <2>4 DEF ProgramInvariant, HttpInvariant
<1>. QED
  BY <1>1, <1>2, <1>3

LEMMA HttpWake ==
    ASSUME ProgramInvariant, SchedWake
    PROVE  HttpInvariant'
<1>. TypeOK /\ seq \in Int
  BY ThreadFacts DEF ProgramInvariant
<1>1. /\ UNCHANGED <<client, worker, seq, call, pc>>
      /\ promise' = [promise EXCEPT !.round = {}]
  BY DEF SchedWake, httpVars, repoVars
<1>2. /\ promise' \in [clean : SUBSET Clients, told : SUBSET Ids, round : SUBSET Ids]
      /\ promise'.clean = promise.clean /\ promise'.told = promise.told
      /\ promise'.round = {}
  BY <1>1 DEF ProgramInvariant, HttpInvariant
<1>3. \A c \in promise.clean : Outstanding(c)'
  BY <1>1, OutstandingStays DEF ProgramInvariant, HttpInvariant
<1>4. \A w \in Workers : worker[w] # NoClient => Serves(w)'
  BY <1>1 DEF ProgramInvariant, HttpInvariant, Serves, Named, Stops
<1>. QED
  BY <1>1, <1>2, <1>3, <1>4 DEF ProgramInvariant, HttpInvariant
\* What becomes of the connections when one of them takes a step.
Moved(c, phase, request) ==
    /\ client'[c].phase = phase /\ client'[c].request = request
    /\ \A d \in Clients \ {c} : client'[d] = client[d]
    /\ client' \in [Clients -> Connection]

LEMMA Moves ==
    ASSUME client \in [Clients -> Connection], NEW c \in Clients, NEW connection \in Connection,
           client' = [client EXCEPT ![c] = connection]
    PROVE  Moved(c, connection.phase, connection.request)
  BY DEF Moved

\* A connection whose request is taken up, or not answered.
LEMMA MovesOn ==
    ASSUME client \in [Clients -> Connection], NEW c \in Clients, NEW phase \in Phases,
           client' = [client EXCEPT ![c].phase = phase]
    PROVE  Moved(c, phase, client[c].request)
<1>. DEFINE connection == [client[c] EXCEPT !.phase = phase]
<1>1. connection \in Connection /\ connection.phase = phase /\ connection.request = client[c].request
  BY DEF Connection
<1>2. client' = [client EXCEPT ![c] = connection]
  OBVIOUS
<1>. HIDE DEF connection
<1>. QED
  BY <1>1, <1>2, Moves

\* A connection that sends a request.
LEMMA MovesWithRequest ==
    ASSUME client \in [Clients -> Connection], NEW c \in Clients, NEW phase \in Phases,
           NEW request \in Requests,
           client' = [client EXCEPT ![c].phase = phase, ![c].request = request]
    PROVE  Moved(c, phase, request)
<1>. DEFINE connection == [client[c] EXCEPT !.phase = phase, !.request = request]
<1>1. connection \in Connection /\ connection.phase = phase /\ connection.request = request
  BY DEF Connection
<1>2. client' = [client EXCEPT ![c] = connection]
  OBVIOUS
<1>. HIDE DEF connection
<1>. QED
  BY <1>1, <1>2, Moves

\* A connection that is answered.
LEMMA MovesWithResponse ==
    ASSUME client \in [Clients -> Connection], NEW c \in Clients, NEW phase \in Phases,
           NEW response \in Responses,
           client' = [client EXCEPT ![c].phase = phase, ![c].response = response]
    PROVE  Moved(c, phase, client[c].request)
<1>. DEFINE connection == [client[c] EXCEPT !.phase = phase, !.response = response]
<1>1. connection \in Connection /\ connection.phase = phase /\ connection.request = client[c].request
  BY DEF Connection
<1>2. client' = [client EXCEPT ![c] = connection]
  OBVIOUS
<1>. HIDE DEF connection
<1>. QED
  BY <1>1, <1>2, Moves

\* The resumes on their way: none is added unless the connection sends one.
LEMMA ResumingMoved ==
    ASSUME NEW c \in Clients, NEW phase \in Phases, NEW request, Moved(c, phase, request),
           NEW i, Resuming(i)'
    PROVE  \/ Resuming(i)
           \/ /\ phase \in {"waiting", "handled"}
              /\ request.route = "resume" /\ Named(request) = i
<1>1. PICK d \in Clients : /\ client'[d].phase \in {"waiting", "handled"}
                           /\ client'[d].request.route = "resume"
                           /\ Named(client'[d].request) = i
  BY DEF Resuming, Named
<1>2. CASE d = c
  BY <1>1, <1>2 DEF Moved
<1>3. CASE d # c
  BY <1>1, <1>3 DEF Moved, Resuming
<1>. QED
  BY <1>2, <1>3

LEMMA MovedOthers ==
    ASSUME HttpInvariant, NEW c \in Clients, NEW phase \in Phases, NEW request,
           Moved(c, phase, request), UNCHANGED seq,
           phase \in {"waiting", "handled"} /\ request.route = "resume"
               => Resuming(Named(request))
    PROVE  \A d \in promise.clean \ {c} : Outstanding(d)'
<1>1. ASSUME NEW i, Resuming(i)' PROVE Resuming(i)
  BY <1>1, ResumingMoved
<1>2. ASSUME NEW d \in promise.clean \ {c} PROVE Outstanding(d)'
  <2>1. Outstanding(d) /\ client'[d] = client[d]
    BY DEF HttpInvariant, Moved
  <2>. QED
    BY <1>1, <2>1 DEF Outstanding, Stops, Named
<1>. QED
  BY <1>2

\* The workers that serve another connection go on with it.
LEMMA ServesStay ==
    ASSUME HttpInvariant, NEW c \in Clients, NEW phase, NEW request,
           Moved(c, phase, request), NEW w \in Workers,
           worker[w] # NoClient, worker[w] # c, worker'[w] = worker[w],
           call'[w] = call[w], pc'[w] = pc[w]
    PROVE  Serves(w)'
<1>1. Serves(w) /\ worker[w] \in Clients
  BY DEF HttpInvariant
<1>2. client'[worker[w]] = client[worker[w]]
  BY <1>1 DEF Moved
<1>. QED
  BY <1>1, <1>2 DEF Serves, Stops, Named

\* No worker serves a connection that is not being handled.
LEMMA Unserved ==
    ASSUME HttpInvariant, NEW c \in Clients, client[c].phase # "handled", NEW w \in Workers
    PROVE  worker[w] # c
  BY JobSchedulerAssumption DEF HttpInvariant, Serves

LEMMA HttpSend ==
    ASSUME ProgramInvariant, NEW c \in Clients, NEW r \in Request, Send(c, r)
    PROVE  HttpInvariant'
<1>h. HttpInvariant /\ client \in [Clients -> Connection]
  BY DEF ProgramInvariant, HttpInvariant
<1>1. /\ UNCHANGED <<worker, pc, call, seq>> /\ PromiseOnSend(c, r)
      /\ client[c].phase = "free"
      /\ client' = [client EXCEPT ![c].phase = "waiting", ![c].request = r]
  BY DEF Send, repoVars
<1>3. Moved(c, "waiting", r)
  <2>1. r \in Requests /\ "waiting" \in Phases
    BY DEF Requests, Phases
  <2>. QED
    BY <1>1, <1>h, <2>1, MovesWithRequest
<1>4. \A w \in Workers : worker[w] # NoClient => Serves(w)'
  BY <1>1, <1>3, <1>h, Unserved, ServesStay
<1>5. c \notin promise.clean
  BY <1>1, <1>h DEF HttpInvariant, Outstanding
<1>6. /\ promise' \in [clean : SUBSET Clients, told : SUBSET Ids, round : SUBSET Ids]
      /\ promise'.clean \subseteq promise.clean \cup {c}
      /\ promise'.told \subseteq promise.told
      /\ promise'.round \subseteq promise'.told
      /\ \A d \in promise'.clean : Outstanding(d)'
  <2>1. CASE r.route = "resume"
    <3>1. promise' = [clean |-> {d \in promise.clean : Named(client[d].request) # Named(r)},
                      told  |-> promise.told \ {Named(r)},
                      round |-> promise.round \ {Named(r)}]
      BY <1>1, <2>1 DEF PromiseOnSend
    <3>2. ASSUME NEW d \in promise'.clean PROVE Outstanding(d)'
      <4>1. /\ Outstanding(d) /\ client'[d] = client[d]
            /\ Named(client[d].request) # Named(r)
        BY <1>3, <1>5, <1>h, <3>1 DEF HttpInvariant, Moved
      <4>2. "waiting" \in Phases
        BY DEF Phases
      <4>3. ~Resuming(Named(client[d].request))'
        BY <1>3, <4>1, <4>2, ResumingMoved DEF Outstanding
      <4>. QED
        BY <1>1, <4>1, <4>3 DEF Outstanding, Stops, Named
    <3>. QED
      BY <1>h, <3>1, <3>2 DEF HttpInvariant
  <2>2. CASE r.route # "resume"
    <3>1. "waiting" \in Phases
      BY DEF Phases
    <3>2. \A d \in promise.clean : Outstanding(d)'
      BY <1>1, <1>3, <1>5, <1>h, <2>2, <3>1, MovedOthers
    <3>3. CASE Stops(r) /\ ~Resuming(Named(r)) /\ Named(r) \in 1 .. seq
      <4>1. promise' = [promise EXCEPT !.clean = @ \cup {c}]
        BY <1>1, <2>2, <3>3 DEF PromiseOnSend
      <4>2. /\ promise' \in [clean : SUBSET Clients, told : SUBSET Ids, round : SUBSET Ids]
            /\ promise'.clean = promise.clean \cup {c}
            /\ promise'.told = promise.told /\ promise'.round = promise.round
        BY <1>h, <4>1 DEF HttpInvariant
      <4>3. ~Resuming(Named(r))'
        BY <1>3, <2>2, <3>1, <3>3, ResumingMoved
      <4>4. Outstanding(c)'
        BY <1>1, <1>3, <3>3, <4>3 DEF Outstanding, Moved, Stops, Named
      <4>. QED
        BY <1>h, <3>2, <4>2, <4>4 DEF HttpInvariant
    <3>4. CASE ~(Stops(r) /\ ~Resuming(Named(r)) /\ Named(r) \in 1 .. seq)
      <4>1. promise' = promise
        BY <1>1, <2>2, <3>4 DEF PromiseOnSend
      <4>. QED
        BY <1>h, <3>2, <4>1 DEF HttpInvariant
    <3>. QED
      BY <3>3, <3>4
  <2>. QED
    BY <2>1, <2>2
<1>. QED
  BY <1>1, <1>3, <1>4, <1>6, <1>h DEF HttpInvariant, Moved

LEMMA HttpMoved ==
    ASSUME ProgramInvariant, NEW c \in Clients, NEW phase \in Phases,
           NEW request \in Requests, Moved(c, phase, request),
           phase \in {"waiting", "handled"} /\ request.route = "resume"
               => Resuming(Named(request)),
           client[c].phase # "handled", c \notin promise.clean,
           UNCHANGED <<worker, pc, call, seq, promise>>
    PROVE  HttpInvariant'
<1>h. HttpInvariant /\ client \in [Clients -> Connection]
  BY DEF ProgramInvariant, HttpInvariant
<1>1. \A w \in Workers : worker[w] # NoClient => Serves(w)'
  BY <1>h, Unserved, ServesStay
<1>2. \A d \in promise.clean : Outstanding(d)'
  BY <1>h, MovedOthers
<1>. QED
  BY <1>1, <1>2, <1>h DEF HttpInvariant, Moved

LEMMA HttpReceive ==
    ASSUME ProgramInvariant, NEW c \in Clients, Receive(c)
    PROVE  HttpInvariant'
<1>h. HttpInvariant /\ client \in [Clients -> Connection]
  BY DEF ProgramInvariant, HttpInvariant
<1>1. /\ UNCHANGED <<worker, pc, call, seq, promise>>
      /\ client[c].phase \in {"answered", "closed"}
      /\ client' = [client EXCEPT ![c] = Free]
  BY DEF Receive, repoVars
<1>2. Moved(c, "free", Free.request)
  <2>1. Free \in Connection
    BY DEF Free, Connection, Phases, Requests, Responses
  <2>. QED
    BY <1>1, <1>h, <2>1 DEF HttpInvariant, Moved, Free
<1>3. c \notin promise.clean
  BY <1>1, <1>h DEF HttpInvariant, Outstanding
<1>4. "free" \in Phases /\ Free.request \in Requests /\ Free.request.route # "resume"
  BY DEF Phases, Requests, Free
<1>. QED
  BY <1>1, <1>2, <1>3, <1>4, HttpMoved

\* A connection that is cut off: nobody serves it, and nothing is promised.
LEMMA CutOffIs ==
    ASSUME HttpInvariant, NEW c \in Clients, CutOff(c)
    PROVE  /\ UNCHANGED <<jobs, worker, pc, call, reply, seq, due>>
           /\ client[c].phase = "waiting"
           /\ Moved(c, "closed", client[c].request)
           /\ promise' = [promise EXCEPT !.clean = @ \ {c}]
           /\ promise' \in [clean : SUBSET Clients, told : SUBSET Ids, round : SUBSET Ids]
           /\ promise'.clean = promise.clean \ {c}
           /\ promise'.told = promise.told /\ promise'.round = promise.round
<1>1. /\ UNCHANGED <<jobs, worker, pc, call, reply, seq, due>>
      /\ client[c].phase = "waiting"
      /\ client' = [client EXCEPT ![c].phase = "closed"]
      /\ promise' = [promise EXCEPT !.clean = @ \ {c}, !.told = @]
  BY DEF CutOff, PromiseOnAnswer, repoVars, schedVars
<1>2. Moved(c, "closed", client[c].request)
  BY <1>1, MovesOn DEF HttpInvariant, Phases
<1>3. promise \in [clean : SUBSET Clients, told : SUBSET Ids, round : SUBSET Ids]
  BY DEF HttpInvariant
<1>4. promise' = [promise EXCEPT !.clean = @ \ {c}]
  BY <1>1, <1>3
<1>. QED
  BY <1>1, <1>2, <1>3, <1>4

LEMMA HttpCutOff ==
    ASSUME ProgramInvariant, NEW c \in Clients, CutOff(c)
    PROVE  HttpInvariant'
<1>h. HttpInvariant
  BY DEF ProgramInvariant
<1>1. /\ UNCHANGED <<worker, pc, call, seq>> /\ client[c].phase = "waiting"
      /\ promise' \in [clean : SUBSET Clients, told : SUBSET Ids, round : SUBSET Ids]
      /\ promise'.clean = promise.clean \ {c}
      /\ promise'.told = promise.told /\ promise'.round = promise.round
  BY <1>h, CutOffIs
<1>2. PICK request : Moved(c, "closed", request)
  BY <1>h, CutOffIs
<1>3. \A w \in Workers : worker[w] # NoClient => Serves(w)'
  BY <1>1, <1>2, <1>h, Unserved, ServesStay
<1>4. \A d \in promise.clean \ {c} : Outstanding(d)'
  BY <1>1, <1>2, <1>h, MovedOthers DEF Phases
<1>. QED
  BY <1>1, <1>2, <1>3, <1>4, <1>h DEF HttpInvariant, Moved

LEMMA HttpAtOnce ==
    ASSUME ProgramInvariant, NEW w \in Workers, NEW c \in Clients, HandleAtOnce(w, c)
    PROVE  HttpInvariant'
<1>h. HttpInvariant /\ client \in [Clients -> Connection]
  BY DEF ProgramInvariant, HttpInvariant
<1>1. /\ UNCHANGED <<worker, pc, call, seq, promise>>
      /\ client[c].phase = "waiting" /\ Immediate(client[c].request)
      /\ client' = [client EXCEPT ![c].phase = "answered",
                                  ![c].response = ImmediateResponse(client[c].request)]
  BY DEF HandleAtOnce, Available, repoVars
<1>2. ImmediateResponse(client[c].request) \in Responses
  BY <1>h DEF HttpInvariant, Connection, Responses
<1>r. client[c].request \in Requests /\ "answered" \in Phases
  BY <1>h DEF HttpInvariant, Connection, Phases
<1>3. Moved(c, "answered", client[c].request)
  BY <1>1, <1>2, <1>h, <1>r, MovesWithResponse
<1>4. c \notin promise.clean
  BY <1>1, <1>h DEF HttpInvariant, Outstanding, Stops, Immediate
<1>. QED
  BY <1>1, <1>3, <1>4, <1>r, HttpMoved DEF Phases

LEMMA HttpHandle ==
    ASSUME ProgramInvariant, NEW w \in Workers, NEW c \in Clients, Handle(w, c)
    PROVE  HttpInvariant'
<1>h. HttpInvariant /\ TypeOK /\ w \in Threads
  BY ThreadFacts DEF ProgramInvariant
<1>. DEFINE r == client[c].request
<1>1. /\ Repo!Invoke(w, RouteCall(r))
      /\ client[c].phase = "waiting" /\ worker[w] = NoClient /\ c # NoClient
      /\ client' = [client EXCEPT ![c].phase = "handled"]
      /\ worker' = [worker EXCEPT ![w] = c] /\ promise' = promise
      /\ ~Immediate(r)
  BY JobSchedulerAssumption DEF Handle, Available
<1>2. r \in Request
  BY <1>h, HandleCalls
<1>3. /\ pc'[w] = "prepare" /\ call'[w] = RouteCall(r) /\ UNCHANGED seq
      /\ \A v \in Workers \ {w} : pc'[v] = pc[v] /\ call'[v] = call[v]
  BY <1>1, <1>h, InvokeIs, ThreadFacts
<1>4. Moved(c, "handled", r)
  BY <1>1, <1>h, MovesOn DEF HttpInvariant, Phases
<1>5. \A v \in Workers \ {w} : worker'[v] = worker[v] /\ worker[v] # c
  BY <1>1, <1>h, Unserved DEF HttpInvariant
<1>6. worker'[w] = c /\ worker' \in [Workers -> Clients \cup {NoClient}]
  BY <1>1, <1>h DEF HttpInvariant
<1>7. \A v \in Workers \ {w} : worker[v] # NoClient => Serves(v)'
  BY <1>3, <1>4, <1>5, <1>h, ServesStay
<1>8. Serves(w)'
  <2>1. client'[c].phase = "handled" /\ client'[c].request = r
    BY <1>4 DEF Moved
  <2>2. /\ RouteCall(r).op = "resume_job" =>
               r.route = "resume" /\ RouteCall(r).id = Named(r)
        /\ Stops(r) => /\ RouteCall(r).op \in {"pause_job", "delete_job"}
                       /\ RouteCall(r).id = Named(r)
    BY <1>1, <1>2, <1>h, RouteCalls
  <2>. HIDE DEF r
  <2>. QED
    BY <1>3, <1>6, <2>1, <2>2 DEF Serves, Stops, Named
<1>9. /\ "handled" \in Phases
      /\ r.route = "resume" => Resuming(Named(r))
  BY <1>1 DEF Phases, Resuming
<1>10. \A d \in promise.clean \ {c} : Outstanding(d)'
  BY <1>3, <1>4, <1>9, <1>h, MovedOthers
<1>11. c \in promise.clean => Outstanding(c)'
  <2>. SUFFICES ASSUME c \in promise.clean PROVE Outstanding(c)'
    OBVIOUS
  <2>1. Outstanding(c)
    BY <1>h DEF HttpInvariant
  <2>2. PICK q : q = r
    OBVIOUS
  <2>3. PICK i : i = Named(q)
    OBVIOUS
  <2>4. ~Resuming(i) /\ q.route # "resume" /\ Moved(c, "handled", q)
    BY <1>4, <2>1, <2>2, <2>3 DEF Outstanding, Stops
  <2>5. ~Resuming(i)'
    <3>. HIDE DEF r
    <3>. QED
      BY <1>9, <2>4, ResumingMoved
  <2>. QED
    BY <1>3, <2>1, <2>2, <2>3, <2>4, <2>5 DEF Outstanding, Moved, Stops, Named
<1>13. \A v \in Workers : IF worker'[v] = NoClient THEN pc'[v] = "idle" ELSE Serves(v)'
  BY <1>1, <1>3, <1>5, <1>6, <1>7, <1>8, <1>h DEF HttpInvariant
<1>14. \A u, v \in Workers : worker'[u] = worker'[v] /\ worker'[u] # NoClient => u = v
  BY <1>5, <1>6, <1>h DEF HttpInvariant
<1>. QED
  BY <1>1, <1>3, <1>4, <1>6, <1>10, <1>11, <1>13, <1>14, <1>h
     DEF HttpInvariant, Moved

\* A worker answers, or leaves the connection without an answer.
LEMMA RespondIs ==
    ASSUME ProgramInvariant, NEW w \in Workers, Respond(w)
    PROVE  /\ worker[w] \in Clients /\ worker[w] # NoClient
           /\ pc[w] = "done" /\ pc'[w] = "idle" /\ UNCHANGED <<jobs, seq>>
           /\ \A t \in Threads \ {w} :
                 pc'[t] = pc[t] /\ call'[t] = call[t] /\ reply'[t] = reply[t]
           /\ worker' = [worker EXCEPT ![w] = NoClient]
           /\ \E phase \in {"hung", "answered"} :
                 Moved(worker[w], phase, client[worker[w]].request)
           /\ promise' = [clean |-> promise.clean \ {worker[w]},
                          told  |-> IF worker[w] \in promise.clean /\ reply[w].ok
                                    THEN promise.told \cup {Named(client[worker[w]].request)}
                                    ELSE promise.told,
                          round |-> promise.round]
<1>h. HttpInvariant /\ TypeOK /\ w \in Threads
  BY ThreadFacts DEF ProgramInvariant
<1>1. /\ worker[w] \in Clients /\ worker[w] # NoClient /\ Repo!Return(w)
      /\ worker' = [worker EXCEPT ![w] = NoClient]
      /\ PromiseOnAnswer(worker[w], reply[w].ok)
  BY <1>h DEF Respond, HttpInvariant
<1>p. client \in [Clients -> Connection] /\ worker[w] \in Clients
  BY <1>1, <1>h DEF HttpInvariant
<1>2. /\ RouteResponse(client[worker[w]].request, reply[w]) \in Responses
      /\ client[worker[w]].request \in Requests /\ "hung" \in Phases /\ "answered" \in Phases
  <2>1. reply[w] \in R!Answer
    BY <1>h, SameRepository DEF TypeOK, R!TypeOK, R!Answer
  <2>2. client[worker[w]].request \in Requests
    BY <1>1, <1>h DEF HttpInvariant, Connection
  <2>. QED
    BY <2>1, <2>2 DEF Responses, Phases
<1>3. \E phase \in {"hung", "answered"} :
          Moved(worker[w], phase, client[worker[w]].request)
  <2>1. CASE client' = [client EXCEPT ![worker[w]].phase = "hung"]
    <3>1. Moved(worker[w], "hung", client[worker[w]].request)
      BY <1>1, <1>2, <1>h, <2>1, MovesOn DEF HttpInvariant
    <3>. QED
      BY <3>1
  <2>2. CASE client' = [client EXCEPT
                           ![worker[w]].phase = "answered",
                           ![worker[w]].response =
                               RouteResponse(client[worker[w]].request, reply[w])]
    <3>1. Moved(worker[w], "answered", client[worker[w]].request)
      BY <1>2, <1>p, <2>2, MovesWithResponse
    <3>. QED
      BY <3>1
  <2>. QED
    BY <2>1, <2>2 DEF Respond
<1>4. promise' = [clean |-> promise.clean \ {worker[w]},
                  told  |-> IF worker[w] \in promise.clean /\ reply[w].ok
                            THEN promise.told \cup {Named(client[worker[w]].request)}
                            ELSE promise.told,
                  round |-> promise.round]
  BY <1>1, <1>h DEF PromiseOnAnswer, HttpInvariant
<1>. QED
  BY <1>1, <1>3, <1>4, <1>h, ReturnIs

LEMMA HttpRespond ==
    ASSUME ProgramInvariant, NEW w \in Workers, Respond(w)
    PROVE  HttpInvariant'
<1>h. HttpInvariant /\ TypeOK /\ w \in Threads
  BY ThreadFacts DEF ProgramInvariant
<1>1. PICK c \in Clients : c = worker[w]
  BY RespondIs
<1>2. PICK request : request = client[c].request
  OBVIOUS
<1>3. /\ c # NoClient /\ UNCHANGED seq /\ pc'[w] = "idle"
      /\ \A v \in Workers \ {w} : pc'[v] = pc[v] /\ call'[v] = call[v]
      /\ worker' = [worker EXCEPT ![w] = NoClient]
      /\ promise' = [clean |-> promise.clean \ {c},
                     told  |-> IF c \in promise.clean /\ reply[w].ok
                               THEN promise.told \cup {Named(request)} ELSE promise.told,
                     round |-> promise.round]
  BY <1>1, <1>2, RespondIs DEF Threads
<1>4. PICK phase \in {"hung", "answered"} : Moved(c, phase, request)
  BY <1>1, <1>2, RespondIs
<1>5. phase \in Phases /\ phase \notin {"waiting", "handled"}
  BY DEF Phases
<1>6. \A d \in promise.clean \ {c} : Outstanding(d)'
  BY <1>3, <1>4, <1>5, <1>h, MovedOthers
<1>7. /\ worker'[w] = NoClient /\ worker' \in [Workers -> Clients \cup {NoClient}]
      /\ \A v \in Workers \ {w} : worker'[v] = worker[v]
  BY <1>3, <1>h DEF HttpInvariant
<1>8. \A v \in Workers \ {w} : worker[v] # NoClient => worker[v] # c
  BY <1>1, <1>h DEF HttpInvariant
<1>9. \A v \in Workers \ {w} : worker[v] # NoClient => Serves(v)'
  BY <1>3, <1>4, <1>7, <1>8, <1>h, ServesStay
<1>10. c \in promise.clean => Named(request) \in 1 .. seq
  BY <1>2, <1>h DEF HttpInvariant, Outstanding
<1>11. /\ promise' \in [clean : SUBSET Clients, told : SUBSET Ids, round : SUBSET Ids]
       /\ promise'.clean = promise.clean \ {c} /\ promise'.round = promise.round
       /\ promise.told \subseteq promise'.told /\ promise'.told \subseteq 1 .. seq
  <2>1. seq \in 0 .. MaxId /\ MaxId \in Nat
    BY <1>h, ThreadFacts
  <2>2. Named(request) \in 1 .. seq => Named(request) \in Ids
    BY <2>1 DEF Ids
  <2>. QED
    BY <1>3, <1>10, <1>h, <2>2 DEF HttpInvariant
<1>12. \A v \in Workers : IF worker'[v] = NoClient THEN pc'[v] = "idle" ELSE Serves(v)'
  BY <1>3, <1>7, <1>9, <1>h DEF HttpInvariant
<1>13. \A u, v \in Workers : worker'[u] = worker'[v] /\ worker'[u] # NoClient => u = v
  BY <1>7, <1>h DEF HttpInvariant
<1>. QED
  BY <1>3, <1>4, <1>6, <1>7, <1>11, <1>12, <1>13, <1>h DEF HttpInvariant, Moved

LEMMA HttpFresh ==
    ASSUME client = [c \in Clients |-> Free], worker = [w \in Workers |-> NoClient],
           pc = [t \in Threads |-> "idle"], promise.clean = {}, promise.round = {},
           promise \in [clean : SUBSET Clients, told : SUBSET Ids, round : SUBSET Ids],
           promise.told \subseteq 1 .. seq
    PROVE  HttpInvariant
<1>1. Free \in Connection
  BY DEF Free, Connection, Phases, Requests, Responses
<1>2. \A w \in Workers : pc[w] = "idle" /\ worker[w] = NoClient
  BY DEF Threads
<1>. QED
  BY <1>1, <1>2 DEF HttpInvariant

LEMMA HttpRestart ==
    ASSUME ProgramInvariant, Restart
    PROVE  HttpInvariant'
<1>1. /\ client' = [c \in Clients |-> Free] /\ worker' = [w \in Workers |-> NoClient]
      /\ promise' = [promise EXCEPT !.clean = {}, !.round = {}]
      /\ pc' = [t \in Threads |-> "idle"] /\ UNCHANGED seq
  BY DEF Restart, Repo!Restart, Repo!Idle, Repo!database, Threads
<1>2. /\ promise' \in [clean : SUBSET Clients, told : SUBSET Ids, round : SUBSET Ids]
      /\ promise'.clean = {} /\ promise'.round = {} /\ promise'.told = promise.told
      /\ promise'.told \subseteq 1 .. seq'
  BY <1>1 DEF ProgramInvariant, HttpInvariant
<1>3. Free \in Connection
  BY DEF Free, Connection, Phases, Requests, Responses
<1>4. \A w \in Workers : pc'[w] = "idle" /\ worker'[w] = NoClient
  BY <1>1 DEF Threads
<1>. QED
  BY <1>1, <1>2, <1>3, <1>4 DEF HttpInvariant

LEMMA NextHttp ==
    ASSUME ProgramInvariant, [Next]_vars
    PROVE  HttpInvariant'
<1>1. Scheduler \in Threads /\ Workers \subseteq Threads
  BY DEF Threads
<1>2. CASE MainStep \/ Signal \/ Tick \/ UNCHANGED vars
  BY <1>2, HttpElsewhere
<1>3. CASE SchedStep
  BY <1>1, <1>3, HttpElsewhere, HttpWake, HttpRepo DEF SchedStep
<1>4. ASSUME NEW w \in Workers, WorkerStep(w) PROVE HttpInvariant'
  BY <1>1, <1>4, HttpRepo, HttpRespond DEF WorkerStep
<1>5. ASSUME NEW c \in Clients, ClientStep(c) \/ Take(c) \/ CutOff(c) PROVE HttpInvariant'
  BY <1>5, HttpSend, HttpReceive, HttpCutOff, HttpAtOnce, HttpHandle DEF ClientStep, Take
<1>6. ASSUME NEW t \in Threads, RepoFault(t) PROVE HttpInvariant'
  BY <1>6, HttpRepo
<1>7. CASE Restart
  BY <1>7, HttpRestart
<1>. QED
  BY <1>2, <1>3, <1>4, <1>5, <1>6, <1>7 DEF Next, Threads

-----------------------------------------------------------------------------
(***************************************************************************)
(* The scheduler and its locals.                                           *)
(***************************************************************************)
LEMMA SchedRepo ==
    ASSUME ProgramInvariant, NEW t \in Threads, RepoStep(t) \/ RepoFault(t)
    PROVE  SchedInvariant'
<1>1. R!Step(t) /\ R!TypeOK /\ R!ConnectionInvariant
  BY RepoStepIs, SameRepository DEF ProgramInvariant, TypeOK
<1>2. /\ pc[t] # "idle" /\ pc'[t] # "idle" /\ UNCHANGED call
      /\ \A u \in Threads \ {t} : pc'[u] = pc[u]
  BY <1>1, R!StepMoves, RepositoryMeets, IntLimitAssumption
<1>3. UNCHANGED <<sched, now, due>>
  BY RepoStepIs DEF schedVars
<1>4. Scheduler \in Threads
  BY DEF Threads
<1>. QED
  BY <1>2, <1>3, <1>4 DEF ProgramInvariant, SchedInvariant, get_due_jobs, CallOf, DefaultJob

LEMMA SchedOwn ==
    ASSUME ProgramInvariant,
           SchedTest \/ SchedQuery \/ SchedDue \/ SchedPrint \/ SchedWake
    PROVE  SchedInvariant'
<1>h. TypeOK /\ SchedInvariant /\ Scheduler \in Threads
  BY DEF ProgramInvariant, Threads
<1>1. CASE SchedTest \/ SchedPrint \/ SchedWake
  <2>1. UNCHANGED <<pc, call>>
    BY <1>1 DEF SchedTest, SchedPrint, SchedWake, repoVars
  <2>. QED
    BY <1>1, <1>h, <2>1 DEF SchedTest, SchedPrint, SchedWake, SchedInvariant
<1>2. CASE SchedQuery
  <2>1. /\ sched = "query" /\ sched' = "scan" /\ now' = clock /\ due' = due
        /\ pc'[Scheduler] = "prepare" /\ call'[Scheduler] = get_due_jobs(clock)
    BY <1>2, <1>h, InvokeIs DEF SchedQuery
  <2>2. get_due_jobs(now)' = get_due_jobs(clock)
    BY <2>1 DEF get_due_jobs, CallOf, DefaultJob
  <2>. QED
    BY <1>h, <2>1, <2>2 DEF SchedInvariant
<1>3. CASE SchedDue
  <2>1. pc'[Scheduler] = "idle" /\ sched' = "print"
    BY <1>3, <1>h, ReturnIs DEF SchedDue
  <2>. QED
    BY <2>1 DEF SchedInvariant
<1>. QED
  BY <1>1, <1>2, <1>3

LEMMA SchedElsewhere ==
    ASSUME ProgramInvariant, UNCHANGED <<now, due>>,
           sched' = sched \/ (sched = "none" /\ sched' = "test"),
           pc'[Scheduler] = pc[Scheduler], call'[Scheduler] = call[Scheduler]
    PROVE  SchedInvariant'
  BY DEF ProgramInvariant, SchedInvariant, get_due_jobs, CallOf, DefaultJob

\* StartScheduler runs once: until then there is no scheduler.
LEMMA NextSched ==
    ASSUME ProgramInvariant, ExitInvariant, [Next]_vars
    PROVE  SchedInvariant'
<1>h. TypeOK /\ Scheduler \in Threads /\ Scheduler \notin Workers /\ Workers \subseteq Threads
  BY JobSchedulerAssumption DEF ProgramInvariant, Threads
<1>1. CASE MainStep \/ Signal \/ Tick \/ UNCHANGED vars
  <2>1. UNCHANGED <<pc, call, now, due>>
    BY <1>1 DEF MainStep, CreateDB, CreateTable, StartScheduler, Serve, RunReturns,
       ClearRunning, Join, Signal, Tick, vars, repoVars, schedVars
  <2>2. main = "spawn" => sched = "none"
    BY DEF ExitInvariant
  <2>3. StartScheduler => sched = "none" /\ sched' = "test"
    BY <2>2 DEF StartScheduler
  <2>4. ~StartScheduler => sched' = sched
    BY <1>1 DEF MainStep, CreateDB, CreateTable, Serve, RunReturns,
       ClearRunning, Join, Signal, Tick, vars, schedVars
  <2>. QED
    BY <2>1, <2>3, <2>4, SchedElsewhere
<1>2. CASE SchedStep
  BY <1>2, <1>h, SchedOwn, SchedRepo DEF SchedStep
<1>3. ASSUME NEW w \in Workers, Respond(w) PROVE SchedInvariant'
  <2>1. UNCHANGED <<sched, now, due>> /\ Repo!Return(w)
    BY <1>3 DEF Respond, schedVars
  <2>2. w \in Threads /\ Scheduler # w
    BY <1>h
  <2>3. pc'[Scheduler] = pc[Scheduler] /\ call'[Scheduler] = call[Scheduler]
    BY <1>h, <2>1, <2>2, ReturnIs
  <2>. QED
    BY <2>1, <2>3, SchedElsewhere
<1>4. ASSUME NEW w \in Workers, NEW c \in Clients, Handle(w, c) PROVE SchedInvariant'
  <2>1. UNCHANGED <<sched, now, due>> /\ Repo!Invoke(w, RouteCall(client[c].request))
    BY <1>4 DEF Handle, schedVars
  <2>2. PICK e : e = RouteCall(client[c].request)
    OBVIOUS
  <2>3. w \in Threads /\ Scheduler # w /\ Repo!Invoke(w, e)
    BY <1>h, <2>1, <2>2
  <2>4. pc'[Scheduler] = pc[Scheduler] /\ call'[Scheduler] = call[Scheduler]
    BY <1>h, <2>3, InvokeIs
  <2>. QED
    BY <2>1, <2>4, SchedElsewhere
<1>5. ASSUME NEW c \in Clients,
             ClientStep(c) \/ CutOff(c) \/ \E w \in Workers : HandleAtOnce(w, c)
      PROVE  SchedInvariant'
  <2>1. UNCHANGED <<pc, call, sched, now, due>>
    BY <1>5 DEF ClientStep, Send, Receive, CutOff, HandleAtOnce, repoVars, schedVars
  <2>2. pc'[Scheduler] = pc[Scheduler] /\ call'[Scheduler] = call[Scheduler]
    BY <2>1
  <2>. QED
    BY <2>1, <2>2, SchedElsewhere
<1>6. ASSUME NEW t \in Threads, RepoStep(t) \/ RepoFault(t) PROVE SchedInvariant'
  BY <1>6, SchedRepo
<1>7. CASE Restart
  BY <1>7, <1>h DEF Restart, SchedInvariant, Repo!Restart, Repo!Idle, Threads
<1>. QED
  BY <1>1, <1>2, <1>3, <1>4, <1>5, <1>6, <1>7, <1>h
     DEF Next, Threads, WorkerStep, Take

-----------------------------------------------------------------------------
(***************************************************************************)
(* The types.                                                              *)
(***************************************************************************)
Places == {"open", "table", "spawn", "run", "serving", "stopping", "stopped", "join", "exited"}

\* What TypeOK says of the variables that are the program's own.
OwnTypes ==
    /\ main \in Places
    /\ usable \in BOOLEAN /\ running \in BOOLEAN
    /\ clock \in 0 .. MaxTime /\ now \in 0 .. clock
    /\ sched \in {"none", "test", "query", "scan", "print", "sleep", "exited"}
    /\ due \in Seq([id : CInt, job : Job])

LEMMA MainTypes ==
    ASSUME OwnTypes, MainStep \/ Signal
    PROVE  OwnTypes'
<1>1. UNCHANGED <<clock, now, due>>
  BY DEF MainStep, CreateDB, CreateTable, StartScheduler, Serve, RunReturns, ClearRunning,
     Join, Signal, schedVars
<1>2. sched' = sched \/ sched' = "test"
  BY DEF MainStep, CreateDB, CreateTable, StartScheduler, Serve, RunReturns, ClearRunning,
     Join, Signal, schedVars
<1>3. main' \in Places /\ usable' \in BOOLEAN /\ running' \in BOOLEAN
  BY DEF OwnTypes, Places, MainStep, CreateDB, CreateTable, StartScheduler, Serve,
     RunReturns, ClearRunning, Join, Signal, Outcome
<1>. QED
  BY <1>1, <1>2, <1>3 DEF OwnTypes

LEMMA SchedTypes ==
    ASSUME Repo!TypeOK, OwnTypes,
           SchedTest \/ SchedQuery \/ SchedDue \/ SchedPrint \/ SchedWake
    PROVE  OwnTypes'
<1>1. UNCHANGED <<main, usable, running, clock>>
  BY DEF SchedTest, SchedQuery, SchedDue, SchedPrint, SchedWake, mainVars
<1>2. sched' \in {"none", "test", "query", "scan", "print", "sleep", "exited"}
  BY DEF OwnTypes, SchedTest, SchedQuery, SchedDue, SchedPrint, SchedWake
<1>3. now' \in 0 .. clock
  BY JobSchedulerAssumption DEF OwnTypes, SchedTest, SchedQuery, SchedDue, SchedPrint, SchedWake
<1>4. due' \in Seq([id : CInt, job : Job])
  <2>1. CASE SchedDue
    BY <2>1, SameRepository DEF SchedDue, Repo!TypeOK
  <2>2. CASE SchedPrint
    BY <2>2 DEF SchedPrint, OwnTypes
  <2>3. CASE SchedTest \/ SchedQuery \/ SchedWake
    BY <2>3 DEF SchedTest, SchedQuery, SchedWake, OwnTypes
  <2>. QED
    BY <2>1, <2>2, <2>3
<1>. QED
  BY <1>1, <1>2, <1>3, <1>4 DEF OwnTypes

LEMMA NextOwn ==
    ASSUME Repo!TypeOK, OwnTypes, [Next]_vars
    PROVE  OwnTypes'
<1>1. CASE MainStep \/ Signal
  BY <1>1, MainTypes
<1>2. CASE SchedTest \/ SchedQuery \/ SchedDue \/ SchedPrint \/ SchedWake
  BY <1>2, SchedTypes
<1>3. CASE Tick
  BY <1>3, JobSchedulerAssumption DEF Tick, OwnTypes, mainVars, schedVars
<1>n. <<>> \in Seq([id : CInt, job : Job]) /\ 0 \in 0 .. MaxTime
  BY JobSchedulerAssumption
<1>4. CASE Restart
  <2>1. 0 \in 0 .. clock
    BY JobSchedulerAssumption DEF OwnTypes
  <2>. QED
    BY <1>4, <1>n, <2>1 DEF Restart, OwnTypes, Places
<1>5. CASE UNCHANGED <<mainVars, clock, schedVars>>
  BY <1>5 DEF OwnTypes, mainVars, schedVars
<1>6. \A t : RepoStep(t) \/ RepoFault(t) => UNCHANGED <<mainVars, clock, schedVars>>
  BY DEF RepoStep, RepoFault
<1>7. \A w, c : HandleAtOnce(w, c) \/ Handle(w, c) => UNCHANGED <<mainVars, clock, schedVars>>
  BY DEF HandleAtOnce, Handle
<1>8. \A w : Respond(w) => UNCHANGED <<mainVars, clock, schedVars>>
  BY DEF Respond
<1>9. \A c : ClientStep(c) \/ CutOff(c) => UNCHANGED <<mainVars, clock, schedVars>>
  BY DEF ClientStep, Send, Receive, CutOff
<1>10. UNCHANGED vars => UNCHANGED <<mainVars, clock, schedVars>>
  BY DEF vars
<1>. QED
  BY <1>1, <1>2, <1>3, <1>4, <1>5, <1>6, <1>7, <1>8, <1>9, <1>10
     DEF Next, SchedStep, WorkerStep, Take

LEMMA TypeParts ==
    /\ TypeOK => Repo!TypeOK /\ OwnTypes
    /\ Repo!TypeOK /\ OwnTypes /\ HttpInvariant => TypeOK
<1>1. TypeOK => Repo!TypeOK /\ OwnTypes
  BY DEF TypeOK, OwnTypes, Places
<1>2. ASSUME HttpInvariant
      PROVE  \A c \in Clients :
                /\ client[c].phase \in {"free", "waiting", "handled", "answered", "hung", "closed"}
                /\ client[c].request \in Request \cup {Free.request}
  BY <1>2 DEF HttpInvariant, Phases, Requests, Connection
<1>3. Repo!TypeOK /\ OwnTypes /\ HttpInvariant => TypeOK
  BY <1>2 DEF TypeOK, OwnTypes, Places, HttpInvariant
<1>. QED
  BY <1>1, <1>3

LEMMA InitProgram ==
    ASSUME Init
    PROVE  ProgramInvariant
<1>1. Repo!TypeOK /\ R!ConnectionInvariant
  <2>1. R!Init
    BY SameRepository DEF Init
  <2>2. R!TypeOK
    BY <2>1, R!InitType, RepositoryMeets, IntLimitAssumption
  <2>3. R!ConnectionInvariant
    BY <2>1, R!InitKnown, RepositoryMeets, IntLimitAssumption
  <2>. QED
    BY <2>2, <2>3, SameRepository
<1>2. OwnTypes
  <2>1. <<>> \in Seq([id : CInt, job : Job]) /\ 0 \in 0 .. MaxTime /\ 0 \in 0 .. 0
    BY JobSchedulerAssumption
  <2>. QED
    BY <2>1 DEF Init, OwnTypes, Places
<1>3. HttpInvariant
  BY HttpFresh DEF Init, Repo!Init, Repo!Open, Repo!Idle, Threads, NoPromise
<1>4. SchedInvariant
  BY DEF Init, SchedInvariant, Repo!Init, Repo!Open, Repo!Idle
<1>. QED
  BY <1>1, <1>2, <1>3, <1>4, TypeParts DEF ProgramInvariant

LEMMA NextProgram ==
    ASSUME ProgramInvariant, ExitInvariant, [Next]_vars
    PROVE  ProgramInvariant'
<1>1. Repo!TypeOK' /\ R!ConnectionInvariant'
  BY RepositoryKept, SameRepository
<1>2. OwnTypes'
  BY NextOwn, TypeParts DEF ProgramInvariant
<1>3. HttpInvariant'
  BY NextHttp
<1>4. SchedInvariant'
  BY NextSched
<1>5. TypeOK'
  BY <1>1, <1>2, <1>3, TypeParts, PTL
<1>. QED
  BY <1>1, <1>3, <1>4, <1>5 DEF ProgramInvariant

\* The variables of the running program keep their types, whatever requests are
\* sent, whatever fails, however its threads interleave and wherever it is
\* killed: a job that a scan hands to the scheduler is a job, a worker holds a
\* connection or none, and a promise is about ids that were given out.
THEOREM ProgramTypes == Spec => []TypeOK
<1>1. Init => ProgramInvariant /\ ExitInvariant
  BY InitProgram, InitHolds
<1>2. ProgramInvariant /\ ExitInvariant /\ [Next]_vars => (ProgramInvariant /\ ExitInvariant)'
  BY NextProgram, StepKeeps
<1>3. ProgramInvariant => TypeOK
  BY DEF ProgramInvariant
<1>. QED
  BY <1>1, <1>2, <1>3, PTL DEF Spec

-----------------------------------------------------------------------------
(***************************************************************************)
(* The jobs that were paused or deleted.                                   *)
(***************************************************************************)
\* No scan for due jobs selects job i.
Quiet(i) == jobs[i] = NoRow \/ jobs[i].status # ACTIVE

\* The jobs promised to be quiet are, and nobody is about to resume one.  A
\* pause or delete that has succeeded, and is not answered yet, has made its
\* job quiet.  Of the jobs that were promised when the scheduler's round began
\* none is among those it reads, or has read.
QuietInvariant ==
    /\ \A i \in promise.told : Quiet(i) /\ ~Resuming(i)
    /\ \A w \in Workers : worker[w] \in promise.clean =>
          /\ pc[w] = "check" => Quiet(call[w].id)
          /\ pc[w] = "done" /\ reply[w].ok => Quiet(call[w].id)
    /\ \A k \in DOMAIN due : due[k].id \notin promise.round
    /\ \A k \in DOMAIN reply[Scheduler].rows :
          reply[Scheduler].rows[k].id \notin promise.round

RoundInvariant == ProgramInvariant /\ ExitInvariant /\ R!ScanInvariant /\ QuietInvariant

\* The calls of the program that write.
LEMMA ProgramCalls ==
    ASSUME NEW c \in RepoCalls
    PROVE  c.op \in {"insert_job", "delete_job", "get_job_by_id", "pause_job", "resume_job",
                     "select_all_jobs", "select_due_jobs"}
  BY DEF RepoCalls, InsertCall, IdCall, AllCall, get_due_jobs, CallOf

\* Whoever resumes a job does it for a connection that asks for it.
LEMMA ResumeIsAsked ==
    ASSUME ProgramInvariant, NEW t \in Threads, pc[t] # "idle", call[t].op = "resume_job"
    PROVE  Resuming(call[t].id)
<1>1. t # Scheduler
  <2>1. call[Scheduler] = get_due_jobs(now) \/ pc[Scheduler] = "idle"
    BY DEF ProgramInvariant, SchedInvariant
  <2>. QED
    BY <2>1 DEF get_due_jobs, CallOf
<1>2. t \in Workers /\ worker[t] # NoClient
  BY <1>1 DEF Threads, ProgramInvariant, HttpInvariant
<1>3. Serves(t) /\ worker[t] \in Clients
  BY <1>2 DEF ProgramInvariant, HttpInvariant
<1>. QED
  BY <1>3 DEF Serves, Resuming

\* A job that is quiet, and nobody asks to resume, stays so.
LEMMA QuietStays ==
    ASSUME ProgramInvariant, NEW t \in Threads, RepoStep(t) \/ RepoFault(t),
           NEW i \in 1 .. seq, Quiet(i), ~Resuming(i)
    PROVE  Quiet(i)'
<1>1. R!Step(t) /\ R!TypeOK /\ R!ConnectionInvariant
  BY RepoStepIs, SameRepository DEF ProgramInvariant, TypeOK
<1>2. i \in R!Ids /\ seq \in Int
  BY ThreadFacts DEF ProgramInvariant, R!Ids
<1>3. R!Touched(t, i)
  BY <1>1, <1>2, R!StepTouches, RepositoryMeets, IntLimitAssumption
<1>4. pc[t] # "idle" /\ call[t].op \in {"insert_job", "delete_job", "get_job_by_id",
          "pause_job", "resume_job", "select_all_jobs", "select_due_jobs"}
  <2>1. call[t] \in RepoCalls
    BY <1>1 DEF R!TypeOK
  <2>. QED
    BY <1>1, <2>1, ProgramCalls, R!StepMoves, RepositoryMeets, IntLimitAssumption
<1>5. ~(call[t].op = "resume_job" /\ i = call[t].id)
  BY <1>4, ResumeIsAsked
<1>6. CASE jobs'[i] = jobs[i]
  BY <1>6 DEF Quiet
<1>7. CASE jobs'[i] = NoRow
  BY <1>7 DEF Quiet
<1>8. CASE i \in R!Present /\ jobs'[i] = [jobs[i] EXCEPT !.status = R!PAUSED]
  <2>1. jobs[i] \in R!Job
    BY <1>1, <1>2, <1>8 DEF R!TypeOK, R!Present
  <2>2. jobs'[i].status = R!PAUSED
    BY <1>8, <2>1 DEF R!Job
  <2>. QED
    BY <2>2 DEF Quiet, R!PAUSED, ACTIVE
<1>9. i # seq + 1
  BY <1>2
<1>10. jobs'[i] = jobs[i] \/ jobs'[i] = NoRow
       \/ (i \in R!Present /\ jobs'[i] = [jobs[i] EXCEPT !.status = R!PAUSED])
  BY <1>3, <1>4, <1>5, <1>9 DEF R!Touched, R!UpdateOps
<1>. QED
  BY <1>6, <1>7, <1>8, <1>10

\* What a pause or delete that is not answered yet has made quiet stays so.
LEMMA CleanJob ==
    ASSUME ProgramInvariant, NEW w \in Workers, worker[w] \in promise.clean
    PROVE  /\ worker[w] \in Clients /\ worker[w] # NoClient /\ pc[w] # "idle"
           /\ call[w].op \in {"pause_job", "delete_job"}
           /\ call[w].id = Named(client[worker[w]].request)
           /\ call[w].id \in 1 .. seq /\ call[w].id \in Ids /\ ~Resuming(call[w].id)
<1>1. worker[w] \in Clients /\ worker[w] # NoClient
  BY JobSchedulerAssumption DEF ProgramInvariant, HttpInvariant
<1>2. Outstanding(worker[w]) /\ Serves(w)
  BY <1>1 DEF ProgramInvariant, HttpInvariant
<1>3. seq \in 0 .. MaxId /\ MaxId \in Nat
  BY ThreadFacts DEF ProgramInvariant
<1>4. call[w].id = Named(client[worker[w]].request) /\ call[w].id \in 1 .. seq
  BY <1>2 DEF Outstanding, Serves
<1>5. call[w].id \in Ids
  BY <1>3, <1>4 DEF Ids
<1>. QED
  BY <1>1, <1>2, <1>4, <1>5 DEF Outstanding, Serves

LEMMA QuietRepo ==
    ASSUME RoundInvariant, MaxId < IntLimit, NEW t \in Threads, RepoStep(t) \/ RepoFault(t)
    PROVE  QuietInvariant'
<1>h. ProgramInvariant /\ QuietInvariant /\ R!ScanInvariant
  BY DEF RoundInvariant
<1>1. R!Step(t) /\ R!TypeOK /\ R!ConnectionInvariant
  BY <1>h, RepoStepIs, SameRepository DEF ProgramInvariant, TypeOK
<1>2. UNCHANGED <<client, worker, due, promise>>
  BY RepoStepIs DEF httpVars, schedVars
<1>3. /\ pc[t] \notin {"idle", "done"} /\ pc'[t] # "idle"
      /\ UNCHANGED call
      /\ \A u \in Threads \ {t} : pc'[u] = pc[u] /\ reply'[u] = reply[u]
  BY <1>1, R!StepMoves, RepositoryMeets, IntLimitAssumption
<1>4. \A i \in promise.told : Quiet(i)' /\ ~Resuming(i)'
  <2>1. \A i \in promise.told : Resuming(i)' = Resuming(i)
    BY <1>2, ResumingStays
  <2>2. \A i \in promise.told : i \in 1 .. seq /\ Quiet(i) /\ ~Resuming(i)
    BY <1>h DEF QuietInvariant, ProgramInvariant, HttpInvariant
  <2>3. \A i \in promise.told : Quiet(i)'
    BY <1>h, <2>2, QuietStays
  <2>. QED
    BY <2>1, <2>2, <2>3
<1>5. ASSUME NEW w \in Workers, worker[w] \in promise.clean
      PROVE  /\ pc'[w] = "check" => Quiet(call[w].id)'
             /\ pc'[w] = "done" /\ reply'[w].ok => Quiet(call[w].id)'
  <2>1. PICK i \in Ids : i = call[w].id /\ i \in 1 .. seq /\ ~Resuming(i)
    BY <1>5, <1>h, CleanJob
  <2>2. Quiet(i) => Quiet(i)'
    BY <1>h, <2>1, QuietStays
  <2>3. Quiet(call[w].id)' <=> Quiet(i)'
    BY <1>3, <2>1 DEF Quiet
  <2>4. CASE w # t
    <3>1. pc'[w] = pc[w] /\ reply'[w] = reply[w]
      BY <1>3, <2>4 DEF Threads
    <3>. QED
      BY <1>5, <1>h, <2>1, <2>2, <2>3, <3>1 DEF QuietInvariant
  <2>5. CASE w = t
    <3>1. call[t].id \in R!Ids /\ call[t].op \in {"pause_job", "delete_job"}
      BY <1>5, <1>h, <2>1, <2>5, CleanJob DEF Ids, R!Ids
    <3>2. /\ pc'[t] = "check" =>
                jobs'[call[t].id] = NoRow \/ jobs'[call[t].id].status # R!ACTIVE
          /\ pc'[t] = "done" /\ reply'[t].ok => pc[t] = "check" /\ UNCHANGED jobs
      BY <1>1, <1>h, <3>1, R!StopAnswers, RepositoryMeets, IntLimitAssumption
    <3>3. pc'[t] = "check" => Quiet(i)'
      BY <2>1, <2>5, <3>2 DEF Quiet, R!ACTIVE, ACTIVE
    <3>4. pc[t] = "check" => Quiet(i)
      BY <1>5, <1>h, <2>1, <2>5 DEF QuietInvariant
    <3>. QED
      BY <2>2, <2>3, <2>5, <3>2, <3>3, <3>4
  <2>. QED
    BY <2>4, <2>5
<1>6. \A k \in DOMAIN reply'[Scheduler].rows :
          reply'[Scheduler].rows[k].id \notin promise.round
  <2>1. CASE t # Scheduler
    <3>1. reply'[Scheduler] = reply[Scheduler]
      BY <1>3, <2>1 DEF Threads
    <3>. QED
      BY <1>h, <3>1 DEF QuietInvariant
  <2>2. CASE t = Scheduler
    <3>1. call[t].op = "select_due_jobs"
      BY <1>3, <1>h, <2>2 DEF ProgramInvariant, SchedInvariant, get_due_jobs, CallOf
    <3>2. \/ reply'[t].rows = reply[t].rows
          \/ reply'[t].rows = <<>>
          \/ \E i \in R!Matching(call[t], jobs) :
                reply'[t].rows = Append(reply[t].rows, R!ReadJob(i, jobs[i]))
      BY <1>1, <1>h, <3>1, R!ScanAnswers, RepositoryMeets, IntLimitAssumption DEF R!ScanOps
    <3>3. ASSUME NEW i \in R!Matching(call[t], jobs)
          PROVE  R!ReadJob(i, jobs[i]).id \notin promise.round
      <4>1. i \in CInt /\ jobs[i] # NoRow /\ jobs[i].status = ACTIVE
        BY <3>1, JobSchedulerAssumption, IntLimitAssumption
           DEF R!Matching, R!Selects, R!Ids, R!ACTIVE, ACTIVE, CInt
      <4>2. R!ReadJob(i, jobs[i]).id = i
        BY <4>1, ToIntFits, SameRepository DEF R!ReadJob
      <4>. QED
        BY <1>h, <4>1, <4>2 DEF QuietInvariant, Quiet, ProgramInvariant, HttpInvariant
    <3>4. reply[t].rows \in Seq([id : CInt, job : Job])
      BY <1>1, SameRepository DEF R!TypeOK
    <3>5. CASE \E i \in R!Matching(call[t], jobs) :
                  reply'[t].rows = Append(reply[t].rows, R!ReadJob(i, jobs[i]))
      <4>i. PICK i \in R!Matching(call[t], jobs) :
                reply'[t].rows = Append(reply[t].rows, R!ReadJob(i, jobs[i]))
        BY <3>5
      <4>1. PICK entry : /\ entry = R!ReadJob(i, jobs[i])
                         /\ reply'[t].rows = Append(reply[t].rows, entry)
        BY <4>i
      <4>2. entry.id \notin promise.round
        BY <3>3, <4>1
      <4>3. \A k \in DOMAIN reply[t].rows : reply[t].rows[k].id \notin promise.round
        BY <1>h, <2>2 DEF QuietInvariant
      <4>4. \A k \in DOMAIN reply'[t].rows :
                \/ k \in DOMAIN reply[t].rows /\ reply'[t].rows[k] = reply[t].rows[k]
                \/ reply'[t].rows[k] = entry
        BY <3>4, <4>1
      <4>. QED
        BY <2>2, <4>2, <4>3, <4>4
    <3>6. CASE reply'[t].rows = <<>> \/ reply'[t].rows = reply[t].rows
      BY <1>h, <2>2, <3>6 DEF QuietInvariant
    <3>. QED
      BY <3>2, <3>5, <3>6
  <2>. QED
    BY <2>1, <2>2
<1>. QED
  BY <1>2, <1>4, <1>5, <1>6, <1>h DEF QuietInvariant

\* A step outside the repository that leaves the promises or takes some back.
LEMMA QuietOutside ==
    ASSUME RoundInvariant, UNCHANGED <<jobs, pc, call, reply, worker>>,
           due' = due \/ \A k \in DOMAIN due' : due'[k].id \notin promise'.round,
           promise'.told \subseteq promise.told, promise'.round \subseteq promise.round,
           \A w \in Workers : worker[w] \in promise'.clean => worker[w] \in promise.clean,
           \A i \in promise'.told : Resuming(i)' => Resuming(i)
    PROVE  QuietInvariant'
<1>1. \A i : Quiet(i)' = Quiet(i)
  BY DEF Quiet
<1>2. \A w : Quiet(call[w].id)' = Quiet(call[w].id)
  BY DEF Quiet
<1>. QED
  BY <1>1, <1>2 DEF RoundInvariant, QuietInvariant

LEMMA QuietSched ==
    ASSUME RoundInvariant, SchedTest \/ SchedQuery \/ SchedDue \/ SchedPrint \/ SchedWake
    PROVE  QuietInvariant'
<1>h. /\ ProgramInvariant /\ QuietInvariant /\ R!ScanInvariant /\ TypeOK /\ HttpInvariant
      /\ Scheduler \in Threads
  BY DEF RoundInvariant, ProgramInvariant, Threads
<1>1. UNCHANGED <<client, worker>> /\ \A i : Resuming(i)' = Resuming(i)
  BY ResumingStays DEF SchedTest, SchedQuery, SchedDue, SchedPrint, SchedWake, httpVars
<1>2. CASE SchedTest
  BY <1>1, <1>2, QuietOutside DEF SchedTest, repoVars
<1>3. CASE SchedWake
  <2>1. promise'.clean = promise.clean /\ promise'.told = promise.told /\ promise'.round = {}
    BY <1>3, <1>h DEF SchedWake, HttpInvariant
  <2>. QED
    BY <1>1, <1>3, <2>1, QuietOutside DEF SchedWake, repoVars
<1>4. CASE SchedPrint
  <2>1. due \in Seq([id : CInt, job : Job])
    BY <1>h DEF TypeOK
  <2>2. due' = due \/ (due # <<>> /\ due' = Tail(due))
    BY <1>4 DEF SchedPrint
  <2>3. \A k \in DOMAIN due' : \E l \in DOMAIN due : due'[k] = due[l]
    <3>1. CASE due' = due
      BY <3>1
    <3>2. CASE due # <<>> /\ due' = Tail(due)
      <4>1. \A k \in DOMAIN due' : k + 1 \in DOMAIN due /\ due'[k] = due[k + 1]
        BY <2>1, <3>2
      <4>. QED
        BY <4>1
    <3>. QED
      BY <2>2, <3>1, <3>2
  <2>4. \A k \in DOMAIN due' : due'[k].id \notin promise.round
    BY <1>h, <2>3 DEF QuietInvariant
  <2>. QED
    BY <1>1, <1>4, <2>4, QuietOutside DEF SchedPrint, repoVars
<1>5. CASE SchedQuery
  <2>1. /\ UNCHANGED <<jobs, reply, due>> /\ sched = "query"
        /\ \A w \in Workers : pc'[w] = pc[w] /\ call'[w] = call[w]
        /\ pc[Scheduler] = "idle"
    BY <1>5, <1>h, InvokeIs, ThreadFacts DEF SchedQuery
  <2>2. promise'.clean = promise.clean /\ promise'.told = promise.told
        /\ promise'.round = promise.told
    BY <1>5, <1>h DEF SchedQuery, HttpInvariant
  <2>3. due' = <<>>
    BY <1>h, <2>1 DEF ProgramInvariant, SchedInvariant
  <2>4. reply'[Scheduler].rows = <<>>
    BY <1>h, <2>1 DEF R!ScanInvariant, R!Standing, R!NoReply
  <2>5. \A i : Quiet(i)' = Quiet(i)
    BY <2>1 DEF Quiet
  <2>6. \A w \in Workers : Quiet(call[w].id)' = Quiet(call[w].id)
    BY <2>1 DEF Quiet
  <2>. QED
    BY <1>1, <1>h, <2>1, <2>2, <2>3, <2>4, <2>5, <2>6 DEF QuietInvariant
<1>6. CASE SchedDue
  <2>1. /\ UNCHANGED <<jobs, promise>> /\ due' = reply[Scheduler].rows
        /\ reply'[Scheduler].rows = <<>>
        /\ \A w \in Workers : pc'[w] = pc[w] /\ call'[w] = call[w] /\ reply'[w] = reply[w]
    BY <1>6, <1>h, ReturnIs, ThreadFacts DEF SchedDue, Repo!NoReply
  <2>2. \A i : Quiet(i)' = Quiet(i)
    BY <2>1 DEF Quiet
  <2>3. \A w \in Workers : Quiet(call[w].id)' = Quiet(call[w].id)
    BY <2>1 DEF Quiet
  <2>. QED
    BY <1>1, <1>h, <2>1, <2>2, <2>3 DEF QuietInvariant
<1>. QED
  BY <1>2, <1>3, <1>4, <1>5, <1>6

LEMMA QuietSend ==
    ASSUME RoundInvariant, NEW c \in Clients, NEW r \in Request, Send(c, r)
    PROVE  QuietInvariant'
<1>h. /\ ProgramInvariant /\ HttpInvariant /\ QuietInvariant
      /\ client \in [Clients -> Connection]
  BY DEF RoundInvariant, ProgramInvariant, HttpInvariant
<1>1. /\ UNCHANGED <<jobs, pc, call, reply, worker, due>> /\ PromiseOnSend(c, r)
      /\ client[c].phase = "free"
      /\ client' = [client EXCEPT ![c].phase = "waiting", ![c].request = r]
  BY DEF Send, repoVars, schedVars
<1>2. Moved(c, "waiting", r)
  <2>1. r \in Requests /\ "waiting" \in Phases
    BY DEF Requests, Phases
  <2>. QED
    BY <1>1, <1>h, <2>1, MovesWithRequest
<1>3. \A w \in Workers : worker[w] # c
  BY <1>1, <1>h, Unserved
<1>4. /\ promise'.told \subseteq promise.told /\ promise'.round \subseteq promise.round
      /\ promise'.clean \subseteq promise.clean \cup {c}
      /\ r.route = "resume" => Named(r) \notin promise'.told
  <2>1. CASE r.route = "resume"
    BY <1>1, <1>h, <2>1 DEF PromiseOnSend
  <2>2. CASE r.route # "resume"
    <3>1. promise' = [promise EXCEPT !.clean = @ \cup {c}] \/ promise' = promise
      BY <1>1, <2>2 DEF PromiseOnSend
    <3>. QED
      BY <1>h, <2>2, <3>1 DEF HttpInvariant
  <2>. QED
    BY <2>1, <2>2
<1>5. \A i \in promise'.told : Resuming(i)' => Resuming(i)
  <2>1. "waiting" \in Phases
    BY DEF Phases
  <2>. QED
    BY <1>2, <1>4, <2>1, ResumingMoved
<1>6. \A w \in Workers : worker[w] \in promise'.clean => worker[w] \in promise.clean
  BY <1>3, <1>4
<1>. QED
  BY <1>1, <1>4, <1>5, <1>6, QuietOutside

\* A connection moves on, and no resume is sent.
LEMMA QuietMoved ==
    ASSUME RoundInvariant, NEW c \in Clients, NEW phase \in Phases, NEW request,
           Moved(c, phase, request),
           phase \in {"waiting", "handled"} /\ request.route = "resume"
               => Resuming(Named(request))
    PROVE  \A i : Resuming(i)' => Resuming(i)
  BY ResumingMoved

LEMMA QuietReceive ==
    ASSUME RoundInvariant, NEW c \in Clients, Receive(c)
    PROVE  QuietInvariant'
<1>1. /\ client \in [Clients -> Connection] /\ UNCHANGED <<jobs, pc, call, reply, worker, due>>
      /\ promise' = promise /\ client' = [client EXCEPT ![c] = Free]
  BY DEF RoundInvariant, ProgramInvariant, HttpInvariant, Receive, repoVars, schedVars
<1>2. \A i : Resuming(i)' => Resuming(i)
  <2>1. Free \in Connection /\ Free.phase = "free" /\ "free" \in Phases
    BY DEF Free, Connection, Phases, Requests, Responses
  <2>2. Moved(c, "free", Free.request)
    BY <1>1, <2>1, Moves
  <2>. QED
    BY <2>1, <2>2, QuietMoved
<1>. QED
  BY <1>1, <1>2, QuietOutside

LEMMA QuietCutOff ==
    ASSUME RoundInvariant, NEW c \in Clients, CutOff(c)
    PROVE  QuietInvariant'
<1>1. /\ UNCHANGED <<jobs, pc, call, reply, worker, due>>
      /\ Moved(c, "closed", client[c].request) /\ "closed" \in Phases
      /\ promise'.clean = promise.clean \ {c}
      /\ promise'.told = promise.told /\ promise'.round = promise.round
  BY CutOffIs DEF RoundInvariant, ProgramInvariant, Phases
<1>2. \A i : Resuming(i)' => Resuming(i)
  BY <1>1, QuietMoved
<1>. QED
  BY <1>1, <1>2, QuietOutside

LEMMA QuietAtOnce ==
    ASSUME RoundInvariant, NEW w \in Workers, NEW c \in Clients, HandleAtOnce(w, c)
    PROVE  QuietInvariant'
<1>1. /\ client \in [Clients -> Connection] /\ UNCHANGED <<jobs, pc, call, reply, worker, due>>
      /\ promise' = promise /\ Immediate(client[c].request)
      /\ client' = [client EXCEPT ![c].phase = "answered",
                                  ![c].response = ImmediateResponse(client[c].request)]
  BY DEF RoundInvariant, ProgramInvariant, HttpInvariant, HandleAtOnce, repoVars, schedVars
<1>2. ImmediateResponse(client[c].request) \in Responses /\ "answered" \in Phases
  BY <1>1 DEF Connection, Responses, Phases
<1>3. Moved(c, "answered", client[c].request)
  BY <1>1, <1>2, MovesWithResponse
<1>4. \A i : Resuming(i)' => Resuming(i)
  BY <1>2, <1>3, QuietMoved
<1>. QED
  BY <1>1, <1>4, QuietOutside

LEMMA QuietHandle ==
    ASSUME RoundInvariant, NEW w \in Workers, NEW c \in Clients, Handle(w, c)
    PROVE  QuietInvariant'
<1>h. /\ ProgramInvariant /\ HttpInvariant /\ QuietInvariant /\ TypeOK /\ w \in Threads
      /\ client \in [Clients -> Connection] /\ w # Scheduler
  BY JobSchedulerAssumption DEF RoundInvariant, ProgramInvariant, HttpInvariant, Threads
<1>1. /\ Repo!Invoke(w, RouteCall(client[c].request)) /\ client[c].phase = "waiting"
      /\ client' = [client EXCEPT ![c].phase = "handled"]
      /\ worker' = [worker EXCEPT ![w] = c] /\ UNCHANGED <<promise, due>>
  BY DEF Handle, Available, schedVars
<1>2. /\ pc'[w] = "prepare" /\ UNCHANGED <<jobs, reply>>
      /\ \A v \in Workers \ {w} : pc'[v] = pc[v] /\ call'[v] = call[v]
  BY <1>1, <1>h, InvokeIs DEF Threads
<1>3. \A v \in Workers \ {w} : worker'[v] = worker[v]
  BY <1>1, <1>h DEF HttpInvariant
<1>4. \A i : Resuming(i)' => Resuming(i)
  <2>1. PICK r : r = client[c].request
    OBVIOUS
  <2>2. Moved(c, "handled", r) /\ "handled" \in Phases
    BY <1>1, <1>h, <2>1, MovesOn DEF Phases
  <2>3. r.route = "resume" => Resuming(Named(r))
    BY <1>1, <2>1 DEF Resuming
  <2>. QED
    BY <2>2, <2>3, QuietMoved
<1>5. \A i : Quiet(i)' = Quiet(i)
  BY <1>2 DEF Quiet
<1>6. \A v \in Workers \ {w} : Quiet(call[v].id)' = Quiet(call[v].id)
  BY <1>2 DEF Quiet
<1>. QED
  BY <1>1, <1>2, <1>3, <1>4, <1>5, <1>6, <1>h DEF QuietInvariant

LEMMA QuietRespond ==
    ASSUME RoundInvariant, NEW w \in Workers, Respond(w)
    PROVE  QuietInvariant'
<1>h. /\ ProgramInvariant /\ HttpInvariant /\ QuietInvariant /\ TypeOK /\ w \in Threads
      /\ client \in [Clients -> Connection] /\ w # Scheduler /\ Scheduler \in Threads
  BY JobSchedulerAssumption DEF RoundInvariant, ProgramInvariant, HttpInvariant, Threads
<1>c. worker[w] \in Clients
  BY <1>h, RespondIs
<1>1. PICK c, request : c = worker[w] /\ request = client[c].request
  OBVIOUS
<1>2. /\ c # NoClient /\ pc[w] = "done" /\ UNCHANGED jobs
      /\ \A t \in Threads \ {w} :
            pc'[t] = pc[t] /\ call'[t] = call[t] /\ reply'[t] = reply[t]
      /\ pc'[w] = "idle"
      /\ worker' = [worker EXCEPT ![w] = NoClient]
      /\ promise' = [clean |-> promise.clean \ {c},
                     told  |-> IF c \in promise.clean /\ reply[w].ok
                               THEN promise.told \cup {Named(request)} ELSE promise.told,
                     round |-> promise.round]
  BY <1>1, <1>h, RespondIs
<1>3. \A i : Resuming(i)' => Resuming(i)
  <2>1. PICK phase \in {"hung", "answered"} : Moved(c, phase, request)
    BY <1>1, <1>h, RespondIs
  <2>2. phase \in Phases /\ phase \notin {"waiting", "handled"}
    BY DEF Phases
  <2>. QED
    BY <1>1, <1>c, <2>1, <2>2, QuietMoved
<1>4. \A i \in promise'.told : Quiet(i) /\ ~Resuming(i)
  <2>1. c \in promise.clean /\ reply[w].ok =>
            Quiet(Named(request)) /\ ~Resuming(Named(request))
    BY <1>1, <1>2, <1>h, CleanJob DEF QuietInvariant
  <2>. QED
    BY <1>2, <1>h, <2>1 DEF QuietInvariant
<1>5. \A i : Quiet(i)' = Quiet(i)
  BY <1>2 DEF Quiet
<1>6. \A v \in Workers \ {w} : /\ Quiet(call[v].id)' = Quiet(call[v].id)
                               /\ worker'[v] = worker[v]
  BY <1>2, <1>h DEF Quiet, Threads, HttpInvariant
<1>7. \A v \in Workers : worker'[v] \in promise'.clean =>
          /\ pc'[v] = "check" => Quiet(call[v].id)'
          /\ pc'[v] = "done" /\ reply'[v].ok => Quiet(call[v].id)'
  BY <1>2, <1>6, <1>h DEF QuietInvariant, Threads
<1>8. due' = due
  BY DEF Respond, schedVars
<1>9. reply'[Scheduler] = reply[Scheduler] /\ promise'.round = promise.round
  BY <1>2, <1>h
<1>. QED
  BY <1>3, <1>4, <1>5, <1>7, <1>8, <1>9, <1>h DEF QuietInvariant

LEMMA QuietRestart ==
    ASSUME RoundInvariant, Restart
    PROVE  QuietInvariant'
<1>1. /\ client' = [c \in Clients |-> Free] /\ worker' = [w \in Workers |-> NoClient]
      /\ promise' = [promise EXCEPT !.clean = {}, !.round = {}] /\ UNCHANGED jobs
  BY DEF Restart, Repo!Restart, Repo!database
<1>2. promise'.clean = {} /\ promise'.round = {} /\ promise'.told = promise.told
  BY <1>1 DEF RoundInvariant, ProgramInvariant, HttpInvariant
<1>3. \A i : ~Resuming(i)'
  BY <1>1 DEF Resuming, Free
<1>4. \A i : Quiet(i)' = Quiet(i)
  BY <1>1 DEF Quiet
<1>. QED
  BY <1>2, <1>3, <1>4 DEF RoundInvariant, QuietInvariant

LEMMA NextQuiet ==
    ASSUME RoundInvariant, MaxId < IntLimit, [Next]_vars
    PROVE  QuietInvariant'
<1>1. Scheduler \in Threads /\ Workers \subseteq Threads
  BY DEF Threads
<1>2. CASE MainStep \/ Signal \/ Tick \/ UNCHANGED vars
  <2>1. UNCHANGED <<jobs, pc, call, reply, worker, due, client>> /\ promise' = promise
    BY <1>2 DEF MainStep, CreateDB, CreateTable, StartScheduler, Serve, RunReturns,
       ClearRunning, Join, Signal, Tick, vars, repoVars, schedVars, httpVars
  <2>2. \A i : Resuming(i)' = Resuming(i)
    BY <2>1, ResumingStays
  <2>. QED
    BY <2>1, <2>2, QuietOutside
<1>3. CASE SchedStep
  BY <1>1, <1>3, QuietSched, QuietRepo DEF SchedStep
<1>4. ASSUME NEW w \in Workers, WorkerStep(w) PROVE QuietInvariant'
  BY <1>1, <1>4, QuietRepo, QuietRespond DEF WorkerStep
<1>5. ASSUME NEW c \in Clients, ClientStep(c) \/ Take(c) \/ CutOff(c) PROVE QuietInvariant'
  BY <1>5, QuietSend, QuietReceive, QuietCutOff, QuietAtOnce, QuietHandle DEF ClientStep, Take
<1>6. ASSUME NEW t \in Threads, RepoFault(t) PROVE QuietInvariant'
  BY <1>6, QuietRepo
<1>7. CASE Restart
  BY <1>7, QuietRestart
<1>. QED
  BY <1>2, <1>3, <1>4, <1>5, <1>6, <1>7 DEF Next, Threads

LEMMA InitRound == Init => RoundInvariant
<1>. SUFFICES ASSUME Init PROVE RoundInvariant
  OBVIOUS
<1>1. R!ScanInvariant
  <2>1. R!Init
    BY SameRepository DEF Init
  <2>. QED
    BY <2>1, R!InitStands, RepositoryMeets, IntLimitAssumption
<1>2. QuietInvariant
  BY JobSchedulerAssumption
     DEF Init, QuietInvariant, NoPromise, Repo!Init, Repo!Open, Repo!Idle, Repo!NoReply
<1>. QED
  BY <1>1, <1>2, InitProgram, InitHolds DEF RoundInvariant

LEMMA NextRound ==
    ASSUME MaxId < IntLimit, RoundInvariant, [Next]_vars
    PROVE  RoundInvariant'
<1>1. ProgramInvariant' /\ ExitInvariant'
  BY NextProgram, StepKeeps DEF RoundInvariant
<1>2. R!ScanInvariant'
  <2>1. R!TypeOK /\ R!ScanInvariant /\ [R!Next]_R!vars
    BY SameRepository, StepIsRepository DEF RoundInvariant, ProgramInvariant, TypeOK
  <2>. QED
    BY <2>1, R!NextStands, RepositoryMeets, IntLimitAssumption
<1>3. QuietInvariant'
  BY NextQuiet
<1>. QED
  BY <1>1, <1>2, <1>3 DEF RoundInvariant

\* A client that was told its job is paused or deleted does not see it in a
\* round that begins later, whatever requests, faults and restarts come in
\* between: no thread makes the job due again but for a request to resume it,
\* and no scan returns a row that was quiet when the scan began.  (If the ids
\* fit an int: a wider one is read back as another.)
THEOREM StoppedJobsStayQuiet ==
    ASSUME MaxId < IntLimit
    PROVE  Spec => []StoppedStaysQuiet
<1>1. Init => RoundInvariant
  BY InitRound
<1>2. RoundInvariant /\ [Next]_vars => RoundInvariant'
  BY NextRound
<1>3. RoundInvariant => StoppedStaysQuiet
  BY DEF RoundInvariant, QuietInvariant, StoppedStaysQuiet
<1>. QED
  BY <1>1, <1>2, <1>3, PTL DEF Spec

-----------------------------------------------------------------------------
(***************************************************************************)
(* The time of a job.                                                      *)
(***************************************************************************)
\* A job of type ONE_TIME that asks for a time an int holds.
Holds(job) == job.type = ONE_TIME /\ job.data.next_run_time.n \in CInt

\* A row that is due only when its ONE_TIME schedule says so.
Punctual(row) == Holds(row) => row.data.next_run_time.n <= row.next_run_time

\* The schedule of a job that is read for the round that began at now.
Reached(job) == Holds(job) => job.data.next_run_time.n <= now

\* Every row is punctual; the scheduler reads, and has read, what is due.
TimeInvariant ==
    /\ \A i \in Ids : jobs[i] # NoRow => Punctual(jobs[i])
    /\ \A k \in DOMAIN due : Reached(due[k].job)
    /\ \A k \in DOMAIN reply[Scheduler].rows : Reached(reply[Scheduler].rows[k].job)

\* What create_job hands to insert_job is punctual, and is so when stored.
LEMMA CreatedPunctual ==
    ASSUME CRON < IntLimit, NEW c \in RepoCalls, c.op = "insert_job"
    PROVE  Punctual([c.job EXCEPT !.next_run_time = ToInt(@)])
<1>1. PICK b \in Bodies, t \in 0 .. MaxTime : Inserting(b) /\ c = InsertCall(CreateJob(b, t))
  BY DEF RepoCalls, IdCall, AllCall, get_due_jobs, CallOf
<1>2. c.job = CreateJob(b, t)
  BY <1>1 DEF InsertCall, CallOf
<1>3. /\ c.job \in Job /\ c.job.data = b /\ c.job.type = int_to_type(ToInt(b.type.n))
      /\ c.job.next_run_time = compute_next_run_time(b, t)
  BY <1>1, <1>2, CreatedJob DEF CreateJob
<1>4. b.type.n \in Job_Type
  BY <1>1 DEF Inserting, validate_job_input
<1>5. c.job.type = b.type.n
  <2>1. b.type.n \in CInt
    BY <1>4, IntLimitAssumption DEF Job_Type, ONE_TIME, CRON, CInt
  <2>. QED
    BY <1>3, <1>4, <2>1, ToIntFits, EnumeratorsSurvive
<1>6. CASE b.type.n = ONE_TIME /\ b.next_run_time.n \in CInt
  <2>1. c.job.next_run_time = b.next_run_time.n
    BY <1>3, <1>6 DEF compute_next_run_time, ONE_TIME, RECURRING, CRON
  <2>3. ToInt(c.job.next_run_time) = b.next_run_time.n /\ b.next_run_time.n \in Int
    BY <1>6, <2>1, ToIntFits, IntLimitAssumption DEF CInt
  <2>4. /\ [c.job EXCEPT !.next_run_time = ToInt(@)].data = b
        /\ [c.job EXCEPT !.next_run_time = ToInt(@)].next_run_time = b.next_run_time.n
    BY <1>3, <2>3 DEF Job
  <2>. QED
    BY <2>3, <2>4 DEF Punctual
<1>7. CASE ~(b.type.n = ONE_TIME /\ b.next_run_time.n \in CInt)
  <2>1. /\ [c.job EXCEPT !.next_run_time = ToInt(@)].type = b.type.n
        /\ [c.job EXCEPT !.next_run_time = ToInt(@)].data = b
    BY <1>3, <1>5 DEF Job
  <2>. QED
    BY <1>7, <2>1 DEF Punctual, Holds
<1>. QED
  BY <1>6, <1>7

LEMMA PunctualStays ==
    ASSUME CRON < IntLimit, ProgramInvariant, NEW t \in Threads, RepoStep(t) \/ RepoFault(t),
           \A i \in Ids : jobs[i] # NoRow => Punctual(jobs[i])
    PROVE  \A i \in Ids : jobs'[i] # NoRow => Punctual(jobs'[i])
<1>1. R!Step(t) /\ R!TypeOK /\ R!ConnectionInvariant
  BY RepoStepIs, SameRepository DEF ProgramInvariant, TypeOK
<1>2. SUFFICES ASSUME NEW i \in Ids, jobs'[i] # NoRow PROVE Punctual(jobs'[i])
  OBVIOUS
<1>3. R!Touched(t, i)
  BY <1>1, R!StepTouches, RepositoryMeets, IntLimitAssumption DEF Ids, R!Ids
<1>4. call[t] \in RepoCalls
  BY <1>1 DEF R!TypeOK
<1>5. call[t].op \notin R!UpdateOps \ {"delete_job", "pause_job", "resume_job"}
  BY <1>4, ProgramCalls DEF R!UpdateOps
<1>6. CASE jobs'[i] = jobs[i]
  BY <1>2, <1>6
<1>7. CASE call[t].op = "insert_job"
           /\ jobs'[i] = [call[t].job EXCEPT !.next_run_time = R!ToInt(@)]
  BY <1>4, <1>7, CreatedPunctual, SameRepository
<1>8. ASSUME NEW s, i \in R!Present, jobs'[i] = [jobs[i] EXCEPT !.status = s]
      PROVE  Punctual(jobs'[i])
  <2>1. jobs[i] \in Job /\ jobs[i] # NoRow
    BY <1>1, <1>8, SameRepository DEF R!TypeOK, R!Present
  <2>2. /\ jobs'[i].type = jobs[i].type /\ jobs'[i].data = jobs[i].data
        /\ jobs'[i].next_run_time = jobs[i].next_run_time
    BY <1>8, <2>1 DEF Job
  <2>. QED
    BY <2>1, <2>2 DEF Punctual, Holds
<1>. QED
  BY <1>2, <1>3, <1>5, <1>6, <1>7, <1>8 DEF R!Touched

LEMMA TimeRepo ==
    ASSUME CRON < IntLimit, RoundInvariant, TimeInvariant, NEW t \in Threads,
           RepoStep(t) \/ RepoFault(t)
    PROVE  TimeInvariant'
<1>h. ProgramInvariant /\ R!ScanInvariant
  BY DEF RoundInvariant
<1>1. R!Step(t) /\ R!TypeOK /\ R!ConnectionInvariant
  BY <1>h, RepoStepIs, SameRepository DEF ProgramInvariant, TypeOK
<1>2. UNCHANGED <<now, due>>
  BY RepoStepIs DEF schedVars
<1>3. /\ pc[t] # "idle" /\ UNCHANGED call
      /\ \A u \in Threads \ {t} : reply'[u] = reply[u]
  BY <1>1, R!StepMoves, RepositoryMeets, IntLimitAssumption
<1>4. \A i \in Ids : jobs'[i] # NoRow => Punctual(jobs'[i])
  BY <1>h, PunctualStays DEF TimeInvariant
<1>5. \A job : Reached(job)' = Reached(job)
  BY <1>2 DEF Reached, Holds
<1>6. \A k \in DOMAIN reply'[Scheduler].rows : Reached(reply'[Scheduler].rows[k].job)
  <2>1. CASE t # Scheduler
    <3>1. reply'[Scheduler] = reply[Scheduler]
      BY <1>3, <2>1 DEF Threads
    <3>. QED
      BY <3>1 DEF TimeInvariant
  <2>2. CASE t = Scheduler
    <3>1. call[t].op = "select_due_jobs" /\ call[t].time = now
      BY <1>3, <1>h, <2>2 DEF ProgramInvariant, SchedInvariant, get_due_jobs, CallOf
    <3>2. \/ reply'[t].rows = reply[t].rows
          \/ reply'[t].rows = <<>>
          \/ \E i \in R!Matching(call[t], jobs) :
                reply'[t].rows = Append(reply[t].rows, R!ReadJob(i, jobs[i]))
      BY <1>1, <1>h, <3>1, R!ScanAnswers, RepositoryMeets, IntLimitAssumption DEF R!ScanOps
    <3>3. ASSUME NEW i \in R!Matching(call[t], jobs)
          PROVE  Reached(R!ReadJob(i, jobs[i]).job)
      <4>1. i \in Ids /\ jobs[i] # NoRow /\ jobs[i].next_run_time <= now
        BY <3>1 DEF R!Matching, R!Selects, R!Ids, Ids
      <4>2. jobs[i] \in Job /\ now \in Int
        BY <1>1, <1>h, <4>1, SameRepository, JobSchedulerAssumption
           DEF R!TypeOK, R!Ids, Ids, ProgramInvariant, TypeOK
      <4>3. R!ReadJob(i, jobs[i]).job = [jobs[i] EXCEPT !.type = R!int_to_type(jobs[i].type),
                                                !.status = R!int_to_status(jobs[i].status)]
        BY DEF R!ReadJob
      <4>4. R!int_to_type(jobs[i].type) = jobs[i].type
        BY <4>2 DEF Job, R!int_to_type, R!Job_Type, R!ONE_TIME, R!CRON, Job_Type, ONE_TIME, CRON
      <4>5. /\ R!ReadJob(i, jobs[i]).job.type = jobs[i].type
            /\ R!ReadJob(i, jobs[i]).job.data = jobs[i].data
        BY <4>2, <4>3, <4>4 DEF Job
      <4>6. Punctual(jobs[i]) /\ jobs[i].next_run_time \in Int
        BY <4>1, <4>2 DEF TimeInvariant, Job
      <4>7. \A n \in CInt : n \in Int
        BY IntLimitAssumption DEF CInt
      <4>. QED
        BY <4>1, <4>2, <4>5, <4>6, <4>7 DEF Reached, Punctual, Holds
    <3>4. reply[t].rows \in Seq([id : CInt, job : Job])
      BY <1>1, SameRepository DEF R!TypeOK
    <3>5. \A k \in DOMAIN reply[t].rows : Reached(reply[t].rows[k].job)
      BY <2>2 DEF TimeInvariant
    <3>6. CASE \E i \in R!Matching(call[t], jobs) :
                  reply'[t].rows = Append(reply[t].rows, R!ReadJob(i, jobs[i]))
      <4>i. PICK i \in R!Matching(call[t], jobs) :
                reply'[t].rows = Append(reply[t].rows, R!ReadJob(i, jobs[i]))
        BY <3>6
      <4>1. PICK entry : /\ entry = R!ReadJob(i, jobs[i])
                         /\ reply'[t].rows = Append(reply[t].rows, entry)
        BY <4>i
      <4>2. Reached(entry.job)
        BY <3>3, <4>1
      <4>3. \A k \in DOMAIN reply'[t].rows :
                \/ k \in DOMAIN reply[t].rows /\ reply'[t].rows[k] = reply[t].rows[k]
                \/ reply'[t].rows[k] = entry
        BY <3>4, <4>1
      <4>. QED
        BY <2>2, <3>5, <4>2, <4>3
    <3>7. CASE reply'[t].rows = <<>> \/ reply'[t].rows = reply[t].rows
      BY <2>2, <3>5, <3>7
    <3>. QED
      BY <3>2, <3>6, <3>7
  <2>. QED
    BY <2>1, <2>2
<1>. QED
  BY <1>2, <1>4, <1>5, <1>6 DEF TimeInvariant

\* A step that leaves the table alone, and what is read for the round, if any.
LEMMA TimeOutside ==
    ASSUME TimeInvariant, UNCHANGED jobs,
           \/ UNCHANGED <<now, due>> /\ reply'[Scheduler] = reply[Scheduler]
           \/ /\ due' = <<>> /\ reply'[Scheduler].rows = <<>>
    PROVE  TimeInvariant'
<1>1. \A i \in Ids : jobs'[i] # NoRow => Punctual(jobs'[i])
  BY DEF TimeInvariant
<1>2. CASE UNCHANGED <<now, due>> /\ reply'[Scheduler] = reply[Scheduler]
  BY <1>1, <1>2 DEF TimeInvariant, Reached
<1>3. CASE due' = <<>> /\ reply'[Scheduler].rows = <<>>
  BY <1>1, <1>3 DEF TimeInvariant
<1>. QED
  BY <1>2, <1>3

LEMMA TimeSched ==
    ASSUME RoundInvariant, TimeInvariant,
           SchedTest \/ SchedQuery \/ SchedDue \/ SchedPrint \/ SchedWake
    PROVE  TimeInvariant'
<1>h. /\ ProgramInvariant /\ R!ScanInvariant /\ TypeOK /\ SchedInvariant
      /\ Scheduler \in Threads
  BY DEF RoundInvariant, ProgramInvariant, Threads
<1>n. pc[Scheduler] = "idle" => reply[Scheduler].rows = <<>>
  BY <1>h DEF R!ScanInvariant, R!Standing, R!NoReply
<1>1. CASE SchedTest
  BY <1>1, TimeOutside DEF SchedTest, repoVars
<1>2. CASE SchedWake
  <2>1. due' = <<>> /\ UNCHANGED <<jobs, reply>> /\ pc[Scheduler] = "idle"
    BY <1>2, <1>h DEF SchedWake, SchedInvariant, repoVars
  <2>. QED
    BY <1>n, <2>1, TimeOutside
<1>3. CASE SchedQuery
  <2>1. due' = <<>> /\ UNCHANGED <<jobs, reply>> /\ pc[Scheduler] = "idle"
    BY <1>3, <1>h, InvokeIs DEF SchedQuery, SchedInvariant
  <2>. QED
    BY <1>n, <2>1, TimeOutside
<1>4. CASE SchedPrint
  <2>1. UNCHANGED <<jobs, now, reply>>
    BY <1>4 DEF SchedPrint, repoVars
  <2>2. due \in Seq([id : CInt, job : Job])
    BY <1>h DEF TypeOK
  <2>3. CASE due # <<>> /\ due' = Tail(due)
    <3>1. \A k \in DOMAIN due' : k + 1 \in DOMAIN due /\ due'[k] = due[k + 1]
      BY <2>2, <2>3
    <3>. QED
      BY <2>1, <3>1 DEF TimeInvariant, Reached
  <2>4. CASE due' = due
    BY <2>1, <2>4, TimeOutside
  <2>. QED
    BY <1>4, <2>3, <2>4 DEF SchedPrint
<1>5. CASE SchedDue
  <2>1. /\ UNCHANGED <<jobs, now>> /\ due' = reply[Scheduler].rows
        /\ reply'[Scheduler].rows = <<>>
    BY <1>5, <1>h, ReturnIs DEF SchedDue, Repo!NoReply
  <2>. QED
    BY <2>1 DEF TimeInvariant, Reached
<1>. QED
  BY <1>1, <1>2, <1>3, <1>4, <1>5

LEMMA NextTime ==
    ASSUME CRON < IntLimit, RoundInvariant, TimeInvariant, [Next]_vars
    PROVE  TimeInvariant'
<1>h. /\ TypeOK /\ Scheduler \in Threads /\ Scheduler \notin Workers /\ Workers \subseteq Threads
  BY JobSchedulerAssumption DEF RoundInvariant, ProgramInvariant, Threads
<1>1. CASE MainStep \/ Signal \/ Tick \/ UNCHANGED vars
  <2>1. UNCHANGED <<jobs, reply, now, due>>
    BY <1>1 DEF MainStep, CreateDB, CreateTable, StartScheduler, Serve, RunReturns,
       ClearRunning, Join, Signal, Tick, vars, repoVars, schedVars
  <2>. QED
    BY <2>1, TimeOutside
<1>2. CASE SchedStep
  BY <1>2, <1>h, TimeSched, TimeRepo DEF SchedStep
<1>3. ASSUME NEW t \in Threads, RepoStep(t) \/ RepoFault(t) PROVE TimeInvariant'
  BY <1>3, TimeRepo
<1>4. ASSUME NEW w \in Workers, Respond(w) PROVE TimeInvariant'
  <2>1. /\ UNCHANGED <<jobs, now, due>> /\ w \in Threads /\ Scheduler \in Threads \ {w}
        /\ \A t \in Threads \ {w} : reply'[t] = reply[t]
    BY <1>4, <1>h, RespondIs DEF Respond, schedVars, RoundInvariant
  <2>2. reply'[Scheduler] = reply[Scheduler]
    BY <2>1
  <2>. QED
    BY <2>1, <2>2, TimeOutside
<1>5. ASSUME NEW w \in Workers, NEW c \in Clients, Handle(w, c) PROVE TimeInvariant'
  <2>1. UNCHANGED <<jobs, reply, now, due>>
    BY <1>5 DEF Handle, Repo!Invoke, Repo!database, schedVars
  <2>. QED
    BY <2>1, TimeOutside
<1>6. ASSUME NEW c \in Clients,
             ClientStep(c) \/ CutOff(c) \/ \E w \in Workers : HandleAtOnce(w, c)
      PROVE  TimeInvariant'
  <2>1. UNCHANGED <<jobs, reply, now, due>>
    BY <1>6 DEF ClientStep, Send, Receive, CutOff, HandleAtOnce, repoVars, schedVars
  <2>. QED
    BY <2>1, TimeOutside
<1>7. CASE Restart
  <2>1. UNCHANGED jobs /\ due' = <<>> /\ reply'[Scheduler].rows = <<>>
    BY <1>7, <1>h DEF Restart, Repo!Restart, Repo!database, Repo!Idle, Repo!NoReply, Threads
  <2>. QED
    BY <2>1, TimeOutside
<1>. QED
  BY <1>1, <1>2, <1>3, <1>4, <1>5, <1>6, <1>7, <1>h DEF Next, WorkerStep, Take, Threads

\* No ONE_TIME job is in a round that began before the time it asks for: from
\* the body of the request through create_job, insert_job, any pauses and
\* resumes, restarts, and the scan that reads it.  (NeverEarly is about times
\* that fit an int, which is all of a time that is stored; the enumerators and the
\* ids are to fit too.)
THEOREM NothingIsEarly ==
    ASSUME CRON < IntLimit, MaxId < IntLimit
    PROVE  Spec => []NeverEarly
<1>1. Init => RoundInvariant /\ TimeInvariant
  <2>1. Init => TimeInvariant
    BY JobSchedulerAssumption
       DEF Init, TimeInvariant, Repo!Init, Repo!Open, Repo!Idle, Repo!NoReply, Repo!Ids, Ids
  <2>. QED
    BY <2>1, InitRound
<1>2. RoundInvariant /\ TimeInvariant /\ [Next]_vars => (RoundInvariant /\ TimeInvariant)'
  BY NextRound, NextTime
<1>3. TimeInvariant => NeverEarly
  BY DEF TimeInvariant, NeverEarly, Reached, Holds
<1>. QED
  BY <1>1, <1>2, <1>3, PTL DEF Spec
=============================================================================
