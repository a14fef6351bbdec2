---------------------------- MODULE JobScheduler ----------------------------
(***************************************************************************)
(* The running program: main() opens the database, starts the scheduler    *)
(* thread and serves HTTP until it is told to stop; the routes of the      *)
(* controller run on Crow's worker threads and call the service and the    *)
(* repository; scheduler_loop() asks the repository for the due jobs once  *)
(* a second and prints them.  All of them share the connection Repo.       *)
(***************************************************************************)
EXTENDS Service, Sequences, FiniteSets

CONSTANTS Workers,       \* Crow's worker threads
          Scheduler,     \* the thread of scheduler_loop
          Clients,       \* the open HTTP connections
          NoClient,      \* the connection of a worker that runs no handler
          Bodies,        \* the bodies of the POST requests; "malformed" ones too
          ReqIds,        \* the ids in the URLs of the requests
          Routes,        \* the routes that are requested
          MaxTime,       \* the clock stops here
          MaxId, Faults, ErrorCodes, NoRow,  \* see Repository
          StartupFaults  \* what may fail in main(): "open", "table", "bind"

ASSUME JobSchedulerAssumption ==
    /\ Scheduler \notin Workers
    /\ NoClient \notin Clients
    /\ ReqIds \subseteq Int
    /\ MaxTime \in Nat
    /\ MaxId \in Nat \ {0}
    /\ Faults \subseteq {"prepare", "busy", "commit", "read"}
    /\ ErrorCodes \subseteq Nat \ {0}
    /\ NoRow \notin Job
    /\ StartupFaults \subseteq {"open", "table", "bind"}

Ids == 1 .. MaxId

IdRoutes == {"DeleteTask", "job", "pause", "resume"}
AllRoutes == {"root", "CreateTask", "Jobs"} \cup IdRoutes

VARIABLES
    jobs, seq, nChange, lastRowid, pc, call, reply, cursor, own, view,
    main,      \* where main() is
    usable,    \* the database was opened and has its table
    running,   \* the flag scheduler_loop tests
    clock,     \* time(nullptr)
    sched,     \* where scheduler_loop is
    now, due,  \* its locals: the time of the round, the jobs left to print
    client,    \* per connection: its request and the response to it
    worker,    \* per worker: the connection whose handler it runs, or NoClient
    promise    \* history, see below

-----------------------------------------------------------------------------
(***************************************************************************)
(* The calls of the repository that the program makes.                     *)
(***************************************************************************)
DefaultJob == [data          |-> CHOOSE d \in Data : TRUE,
               type          |-> ONE_TIME,
               status        |-> ACTIVE,
               next_run_time |-> 0,
               retry_count   |-> 0,
               max_retries   |-> 3]

CallOf(op, id, job, time) ==
    [op |-> op, id |-> id, job |-> job, status |-> ACTIVE, time |-> time]

IdCall(op, id) == CallOf(op, id, DefaultJob, 0)
InsertCall(job) == CallOf("insert_job", 0, job, 0)
AllCall == CallOf("select_all_jobs", 0, DefaultJob, 0)
early_due_jobs(time) == CallOf("select_due_jobs", 0, DefaultJob, time + 1)
get_due_jobs(time) == CallOf("select_due_jobs", 0, DefaultJob, time)

Inserting(body) ==
    /\ body.kind = "object"
    /\ validate_job_input(body)
    /\ ~Throws(body)

\* The numbers of a body are numbers, and so is a time that croncpp computes.
ASSUME BodiesAssumption ==
    /\ Data # {} /\ Bodies \subseteq Data
    /\ \A b \in Bodies : Inserting(b) =>
          /\ b.type.n \in Int /\ b.next_run_time.n \in Int
          /\ b.interval_seconds.n \in Int /\ b.max_retries.n \in Int
          /\ b.type.n = CRON => \A t \in 0 .. MaxTime :
                 compute_cron_next_run(Texts[b.cron_expr.n], t) \in Int

RepoCalls ==
    {InsertCall(CreateJob(b, t)) : b \in {c \in Bodies : Inserting(c)}, t \in 0 .. MaxTime}
        \cup {IdCall(op, i) : op \in {"delete_job", "get_job_by_id", "pause_job",
                                      "resume_job"}, i \in {ToInt(n) : n \in ReqIds}}
        \cup {AllCall}
        \cup {get_due_jobs(t) : t \in 0 .. MaxTime}

Repo == INSTANCE Repository WITH Threads <- Workers \cup {Scheduler},
                                 Calls <- RepoCalls

repoVars == <<jobs, seq, nChange, lastRowid, pc, call, reply, cursor, own, view>>
mainVars == <<main, usable, running>>
schedVars == <<sched, now, due>>
httpVars == <<client, worker>>
vars == <<repoVars, mainVars, clock, schedVars, httpVars, promise>>

-----------------------------------------------------------------------------
(***************************************************************************)
(* History.  A client has been promised that job i stays quiet when its    *)
(* pause or delete of i was answered with success and nobody has sent a    *)
(* resume of i since before it was sent.                                   *)
(*   promise.clean   connections whose pause or delete is outstanding with *)
(*                   no resume of the same job                             *)
(*   promise.told    the jobs promised to be quiet                         *)
(*   promise.round   those that were when the scheduler's round began      *)
(***************************************************************************)
NoPromise == [clean |-> {}, told |-> {}, round |-> {}]

Stops(request) == request.route \in {"pause", "DeleteTask"}

\* A route that takes all of the number in the URL.
WideNamed(request) == request.id

\* The job a request names: its route takes an int, the URL may hold more.
Named(request) == ToInt(request.id)

\* A resume is on its way in another connection.
Resuming(i) ==
    \E c \in Clients : /\ client[c].phase \in {"waiting", "handled"}
                       /\ client[c].request.route = "resume"
                       /\ Named(client[c].request) = i

PromiseOnSend(c, request) ==
    promise' =
        IF request.route = "resume"
        THEN [clean |-> {d \in promise.clean : Named(client[d].request) # Named(request)},
              told  |-> promise.told \ {Named(request)},
              round |-> promise.round \ {Named(request)}]
        ELSE IF Stops(request) /\ ~Resuming(Named(request)) /\ Named(request) \in 1 .. seq
        THEN [promise EXCEPT !.clean = @ \cup {c}]
        ELSE promise

PromiseOnAnswer(c, ok) ==
    promise' = [promise EXCEPT
                   !.clean = @ \ {c},
                   !.told = IF c \in promise.clean /\ ok
                            THEN @ \cup {Named(client[c].request)} ELSE @]

-----------------------------------------------------------------------------
(***************************************************************************)
(* main().  What create_DB and create_table return is not looked at.       *)
(***************************************************************************)
Outcome(fault) == IF fault \in StartupFaults THEN BOOLEAN ELSE {TRUE}

CreateDB ==
    /\ main = "open"
    /\ usable' \in Outcome("open")
    /\ main' = "table"
    /\ UNCHANGED <<repoVars, running, clock, schedVars, httpVars, promise>>

CreateTable ==
    /\ main = "table"
    /\ \E ok \in Outcome("table") : usable' = (usable /\ ok)
    /\ main' = "spawn"
    /\ UNCHANGED <<repoVars, running, clock, schedVars, httpVars, promise>>

StartScheduler ==
    /\ main = "spawn"
    /\ running' = TRUE
    /\ sched' = "test"
    /\ main' = "run"
    /\ UNCHANGED <<repoVars, usable, clock, now, due, httpVars, promise>>

\* run() binds the port and starts the workers, or returns at once.
Serve ==
    /\ main = "run"
    /\ \E bound \in Outcome("bind") : main' = IF bound THEN "serving" ELSE "stopped"
    /\ UNCHANGED <<repoVars, usable, running, clock, schedVars, httpVars, promise>>

\* SIGINT or SIGTERM: Crow stops its workers.
Signal ==
    /\ main = "serving"
    /\ main' = "stopping"
    /\ UNCHANGED <<repoVars, usable, running, clock, schedVars, httpVars, promise>>

\* run() returns when every worker has left the handler it was in.
RunReturns ==
    /\ main = "stopping"
    /\ \A w \in Workers : worker[w] = NoClient
    /\ main' = "stopped"
    /\ UNCHANGED <<repoVars, usable, running, clock, schedVars, httpVars, promise>>

\* main() that forgets to clear the flag.
ForgetRunning ==
    /\ main = "stopped"
    /\ main' = "join"
    /\ UNCHANGED <<repoVars, usable, running, clock, schedVars, httpVars, promise>>

ClearRunning ==
    /\ main = "stopped"
    /\ running' = FALSE
    /\ main' = "join"
    /\ UNCHANGED <<repoVars, usable, clock, schedVars, httpVars, promise>>

\* main() that detaches the scheduler thread.
Detach ==
    /\ main = "join"
    /\ main' = "exited"
    /\ UNCHANGED <<repoVars, usable, running, clock, schedVars, httpVars, promise>>

Join ==
    /\ main = "join"
    /\ sched = "exited"
    /\ main' = "exited"
    /\ UNCHANGED <<repoVars, usable, running, clock, schedVars, httpVars, promise>>

-----------------------------------------------------------------------------
(***************************************************************************)
(* One sqlite3_* call of a thread that is inside the repository.  On a     *)
(* database that is not usable no statement can be prepared.               *)
(***************************************************************************)
RepoStep(t) ==
    /\ IF usable \/ pc[t] # "prepare" THEN Repo!Work(t) ELSE Repo!PrepareFails(t)
    /\ UNCHANGED <<mainVars, clock, schedVars, httpVars, promise>>

RepoFault(t) ==
    /\ Repo!Fault(t)
    /\ UNCHANGED <<mainVars, clock, schedVars, httpVars, promise>>

-----------------------------------------------------------------------------
(***************************************************************************)
(* scheduler_loop().                                                       *)
(***************************************************************************)
SchedTest ==
    /\ sched = "test"
    /\ sched' = IF running THEN "query" ELSE "exited"
    /\ UNCHANGED <<repoVars, mainVars, clock, now, due, httpVars, promise>>

SchedQuery ==
    /\ sched = "query"
    /\ now' = clock
    /\ Repo!Invoke(Scheduler, get_due_jobs(clock))
    /\ sched' = "scan"
    /\ promise' = [promise EXCEPT !.round = promise.told]
    /\ UNCHANGED <<mainVars, clock, due, httpVars>>

SchedDue ==
    /\ sched = "scan"
    /\ due' = reply[Scheduler].rows
    /\ Repo!Return(Scheduler)
    /\ sched' = "print"
    /\ UNCHANGED <<mainVars, clock, now, httpVars, promise>>

SchedPrint ==
    /\ sched = "print"
    /\ IF due # <<>>
       THEN due' = Tail(due) /\ UNCHANGED sched
       ELSE sched' = "sleep" /\ UNCHANGED due
    /\ UNCHANGED <<repoVars, mainVars, clock, now, httpVars, promise>>

\* now and due_jobs live for one round.
SchedWake ==
    /\ sched = "sleep"
    /\ sched' = "test"
    /\ now' = 0
    /\ promise' = [promise EXCEPT !.round = {}]
    /\ UNCHANGED <<repoVars, mainVars, clock, due, httpVars>>

Tick ==
    /\ clock < MaxTime
    /\ clock' = clock + 1
    /\ UNCHANGED <<repoVars, mainVars, schedVars, httpVars, promise>>

-----------------------------------------------------------------------------
(***************************************************************************)
(* The routes.  A connection has one request at a time.                    *)
(***************************************************************************)
NoResponse == [code |-> 0, text |-> "none"]
Response(code, text) == [code |-> code, text |-> text]

Request ==
    {[route |-> r, id |-> 0, body |-> NoRow] : r \in Routes \cap {"root", "Jobs"}}
        \cup {[route |-> "CreateTask", id |-> 0, body |-> b] :
                  b \in IF "CreateTask" \in Routes THEN Bodies ELSE {}}
        \cup {[route |-> r, id |-> i, body |-> NoRow] : r \in Routes \cap IdRoutes, i \in ReqIds}

Free == [phase |-> "free", request |-> [route |-> "root", id |-> 0, body |-> NoRow],
         response |-> NoResponse]

Send(c, request) ==
    /\ main = "serving"
    /\ client[c].phase = "free"
    /\ client' = [client EXCEPT ![c].phase = "waiting", ![c].request = request]
    /\ PromiseOnSend(c, request)
    /\ UNCHANGED <<repoVars, mainVars, clock, schedVars, worker>>

\* The connection's deadline closes it between the arrival of the request and the
\* callback of its read: the route is never run, and the client connects anew.
CutOff(c) ==
    /\ main = "serving"
    /\ client[c].phase = "waiting"
    /\ client' = [client EXCEPT ![c].phase = "closed"]
    /\ PromiseOnAnswer(c, FALSE)
    /\ UNCHANGED <<repoVars, mainVars, clock, schedVars, worker>>

Receive(c) ==
    /\ client[c].phase \in {"answered", "closed"}
    /\ client' = [client EXCEPT ![c] = Free]
    /\ UNCHANGED <<repoVars, mainVars, clock, schedVars, worker, promise>>

\* The routes that never reach the repository, and what they answer.
\* res.body = 400 sets a character of the body: the status code stays 200.
Immediate(request) ==
    \/ request.route = "root"
    \/ request.route = "CreateTask" /\ ~Inserting(request.body)

ImmediateResponse(request) ==
    CASE request.route = "root" -> Response(200, "listening")
      [] request.route = "CreateTask" /\ request.body.kind = "malformed" ->
            Response(200, "Invalid Json Body")
      [] request.route = "CreateTask" /\ request.body.kind # "malformed" ->
            IF Throws(request.body) THEN Response(500, "") ELSE Response(200, "error")

RouteCall(request) ==
    CASE request.route = "CreateTask" -> InsertCall(CreateJob(request.body, clock))
      [] request.route = "DeleteTask" -> IdCall("delete_job", Named(request))
      [] request.route = "Jobs"       -> AllCall
      [] request.route = "job"        -> IdCall("get_job_by_id", Named(request))
      [] request.route = "pause"      -> IdCall("pause_job", Named(request))
      [] request.route = "resume"     -> IdCall("resume_job", Named(request))

\* A worker takes up a request; it takes up none after Crow was stopped.
Available(w, c) ==
    /\ main = "serving"
    /\ worker[w] = NoClient
    /\ client[c].phase = "waiting"

HandleAtOnce(w, c) ==
    /\ Available(w, c)
    /\ Immediate(client[c].request)
    /\ client' = [client EXCEPT ![c].phase = "answered",
                                ![c].response = ImmediateResponse(client[c].request)]
    /\ UNCHANGED <<repoVars, mainVars, clock, schedVars, worker, promise>>

Handle(w, c) ==
    /\ Available(w, c)
    /\ ~Immediate(client[c].request)
    /\ Repo!Invoke(w, RouteCall(client[c].request))
    /\ client' = [client EXCEPT ![c].phase = "handled"]
    /\ worker' = [worker EXCEPT ![w] = c]
    /\ UNCHANGED <<mainVars, clock, schedVars, promise>>

\* "if (job.id = -1)" assigns: the id it tests is -1 whatever insert_job returned.
TestedId(id) == -1

\* The error text of a job that was handed to insert_job is empty.
RouteResponse(request, result) ==
    CASE request.route = "CreateTask" ->
            Response(200, IF TestedId(result.id) # 0 THEN "" ELSE "created")
      [] request.route # "CreateTask" ->
            Response(200, IF result.ok THEN "success" ELSE "failed")

\* Routes that end their response only when the repository succeeded.
RespondOnSuccess(w) ==
    LET c == worker[w]
        request == client[c].request
    IN  /\ worker[w] # NoClient
        /\ Repo!Return(w)
        /\ client' = IF request.route = "Jobs" \/ ~(reply[w].ok \/ reply[w].id > 0)
                     THEN [client EXCEPT ![c].phase = "hung"]
                     ELSE [client EXCEPT ![c].phase = "answered",
                                         ![c].response = RouteResponse(request, reply[w])]
        /\ worker' = [worker EXCEPT ![w] = NoClient]
        /\ PromiseOnAnswer(c, reply[w].ok)
        /\ UNCHANGED <<mainVars, clock, schedVars>>

\* get_all_jobs_route never ends its response: nothing is ever sent.
Respond(w) ==
    LET c == worker[w]
        request == client[c].request
    IN  /\ worker[w] # NoClient
        /\ Repo!Return(w)
        /\ client' = IF request.route = "Jobs"
                     THEN [client EXCEPT ![c].phase = "hung"]
                     ELSE [client EXCEPT ![c].phase = "answered",
                                         ![c].response = RouteResponse(request, reply[w])]
        /\ worker' = [worker EXCEPT ![w] = NoClient]
        /\ PromiseOnAnswer(c, reply[w].ok)
        /\ UNCHANGED <<mainVars, clock, schedVars>>

-----------------------------------------------------------------------------
(***************************************************************************)
(* The program is killed, wherever its threads are, or has ended; it is    *)
(* started again on the same jobs.db.  Its connections are lost, requests  *)
(* and responses with them; what a client was told it still knows.         *)
(***************************************************************************)
Restart ==
    /\ Repo!Restart
    /\ main' = "open"
    /\ usable' = FALSE
    /\ running' = FALSE
    /\ sched' = "none"
    /\ now' = 0
    /\ due' = <<>>
    /\ client' = [c \in Clients |-> Free]
    /\ worker' = [w \in Workers |-> NoClient]
    /\ promise' = [promise EXCEPT !.clean = {}, !.round = {}]
    /\ UNCHANGED clock

-----------------------------------------------------------------------------
Init ==
    /\ Repo!Init
    /\ main = "open"
    /\ usable = FALSE
    /\ running = FALSE
    /\ clock = 0
    /\ sched = "none"
    /\ now = 0
    /\ due = <<>>
    /\ client = [c \in Clients |-> Free]
    /\ worker = [w \in Workers |-> NoClient]
    /\ promise = NoPromise

MainStep ==
    \/ CreateDB
    \/ CreateTable
    \/ StartScheduler
    \/ Serve
    \/ RunReturns
    \/ ClearRunning
    \/ Join

SchedStep ==
    \/ SchedTest
    \/ SchedQuery
    \/ RepoStep(Scheduler)
    \/ SchedDue
    \/ SchedPrint
    \/ SchedWake

Take(c) == \E w \in Workers : HandleAtOnce(w, c) \/ Handle(w, c)

WorkerStep(w) == RepoStep(w) \/ Respond(w)

ClientStep(c) == (\E r \in Request : Send(c, r)) \/ Receive(c)

Next ==
    \/ MainStep
    \/ Signal
    \/ SchedStep
    \/ Tick
    \/ \E w \in Workers : WorkerStep(w)
    \/ \E c \in Clients : ClientStep(c) \/ Take(c) \/ CutOff(c)
    \/ \E t \in Workers \cup {Scheduler} : RepoFault(t)
    \/ Restart

Spec == Init /\ [][Next]_vars

\* The scheduler, main and the workers run whenever they can; a connection
\* with a request is taken up by a worker (asio serves its queue in order) or cut
\* off.  Nothing makes a client send, the clock advance, or the operator stop it, kill
\* it or start it again.
FairSpec ==
    /\ Spec
    /\ WF_vars(MainStep)
    /\ WF_vars(SchedStep)
    /\ \A w \in Workers : WF_vars(WorkerStep(w))
    /\ \A c \in Clients : WF_vars(Take(c) \/ CutOff(c))

-----------------------------------------------------------------------------
(***************************************************************************)
(* Properties.                                                             *)
(***************************************************************************)
\* The variables have their types.
TypeOK ==
    /\ Repo!TypeOK
    /\ main \in {"open", "table", "spawn", "run", "serving", "stopping",
                 "stopped", "join", "exited"}
    /\ usable \in BOOLEAN /\ running \in BOOLEAN
    /\ clock \in 0 .. MaxTime /\ now \in 0 .. clock
    /\ sched \in {"none", "test", "query", "scan", "print", "sleep", "exited"}
    /\ due \in Seq([id : CInt, job : Job])
    /\ \A c \in Clients :
          /\ client[c].phase \in {"free", "waiting", "handled", "answered", "hung", "closed"}
          /\ client[c].request \in Request \cup {Free.request}
    /\ worker \in [Workers -> Clients \cup {NoClient}]
    /\ promise \in [clean : SUBSET Clients, told : SUBSET Ids, round : SUBSET Ids]

\* A client that was told its job is paused or deleted does not see it
\* reported by a round of the scheduler that begins after the answer, whatever
\* the other workers do, until somebody asks for it to be resumed.
StoppedStaysQuiet ==
    \A k \in DOMAIN due : due[k].id \notin promise.round

\* No job is reported before the time its ONE_TIME schedule asked for, if an int
\* holds that time.
NeverEarly ==
    \A k \in DOMAIN due :
        LET job == due[k].job
        IN  job.type = ONE_TIME /\ job.data.next_run_time.n \in CInt
                => job.data.next_run_time.n <= now

\* main() does not return, and so does not destroy the flag and the routes the
\* other threads refer to, while one of them is still inside the program.
CleanExit ==
    main = "exited" =>
        /\ \A t \in Workers \cup {Scheduler} : pc[t] = "idle"
        /\ sched = "exited"

\* Once it is told to stop, the program ends, unless it is killed first.
StopsWhenTold == main = "stopping" ~> main \in {"exited", "open"}

Due(i) == usable /\ jobs[i] # NoRow /\ jobs[i].status = ACTIVE /\ jobs[i].next_run_time <= clock
Reporting(i) == sched = "print" /\ due # <<>> /\ Head(due).id = i

PollFailed == pc[Scheduler] = "done" /\ own[Scheduler].failed

\* A job that stays due is reported while the program serves, unless polls fail:
\* no traffic of the other threads hides it from every round, and no failed poll
\* from the rounds after it.
DueIsReported ==
    \A i \in Ids : Due(i) /\ main = "serving"
                     ~> Reporting(i) \/ ~Due(i) \/ PollFailed \/ main # "serving"

\* Every request but GET /Jobs is answered, or finds its connection closed, while
\* the program serves.
RequestsAreAnswered ==
    \A c \in Clients :
        client[c].phase = "waiting" /\ client[c].request.route # "Jobs"
            ~> client[c].phase \in {"answered", "closed"} \/ main # "serving"
=============================================================================
