# Job_Scheduler in TLA+

This directory holds a TLA+ model of the job scheduler under `src/Src`: an HTTP
service that keeps jobs in a SQLite table and a thread that polls the table once
a second for the jobs that are due. The modules follow the code function by
function; TLC checks them on small instances and TLAPS proves the most important
facts about the repository, the program around it, what `create_job` stores and
`cron_next` answers, the server's timers and the file's transactions for every
instance.

## The system

| Part | Code | State it keeps | What it does |
| --- | --- | --- | --- |
| Model | `Model/Job.h`, `Job.cpp` | none | `Job`, `Status`, `Job_Type` and their conversions |
| Repository | `Repository/database.cpp` | the table `jobs` and the connection of `jobs.db` | `create_DB`, `create_table`, `insert_job`, the scans, `get_job_by_id`, seven UPDATEs and a DELETE |
| Service | `Service/service.cpp` | none | validates the body of a POST, works out the first run, calls `insert_job` |
| Controller | `Controller/Controller.cpp` | none | seven routes; each calls the service or the repository and answers |
| Scheduler | `Scheduler/scheduler.cpp` | `now`, `due_jobs` | while `running`: select the due jobs, print them, sleep a second |
| main | `main.cpp:743-762` | `running` | opens the database, starts the scheduler thread, runs Crow, clears the flag, joins |
| croncpp | `croncpp/.../croncpp.h` (vendored) | none | `make_cron` parses an expression, `cron_next` finds its next time |
| Crow | `crow/.../crow_all.h` (vendored) | per worker an `io_context` and a `task_timer`; per connection its socket, its `task_id_` | accepts connections, reads requests, runs routes, closes what is silent too long |
| SQLite's pager | `sqlite3/sqlite3.c` (vendored) | the file, the rollback journal, the locks; per process a page cache | makes a statement's commit one moment, across failures, crashes and other processes |
| rest of SQLite, asio | `sqlite3/...`, `asio/...` (vendored) | | the SQL engine; the event loop |

`main()` opens **one** `sqlite3*` and hands it to the routes, which run on Crow's
worker threads, and to `scheduler_loop`, which runs on a thread of its own.
Everything the threads share is in that connection: the table, the change count
`sqlite3_changes()` returns, the rowid `sqlite3_last_insert_rowid()` returns, and
the positions of open SELECTs. `main()` and the scheduler share `running`. Crow's
workers share nothing with one another but the accepting socket: a connection
stays with the worker it was given. The file `jobs.db` outlives the process and may be
opened by another one.

What is hard, and where it bites, is listed as hazards in `PROJECT.json`:

* a repository function makes several `sqlite3_*` calls; SQLite's SERIALIZED mode
  makes each atomic and leaves the function interruptible between any two;
* a scan takes one call per row, and other threads write between the rows;
* a call may fail half way: prepare, step (a locked file), commit, a read;
* the process may stop anywhere and be started again on the same file;
* shutdown: three kinds of threads, one flag, one join;
* between a network event and its callback lies a worker's queue, and the deadline
  of the connection may fire in between; the ids of a timer begin again;
* a commit is a dozen writes, syncs and locks; each may fail, the process may die
  between two and the power may take what was not synced;
* numbers: a `long long` bound as an `int`, an `int64_t` narrowed, the eight bits of a
  `cron_int`, `INVALID_TIME`;
* the search in `cron_next`, which normalises overflowing dates with `mktime`.

What makes each part correct: the repository answers for its own statement, never
gives an id out twice, never exceeds `max_retries`, and its scans report what was
there; the service stores the time the client asked for and nothing invalid;
`cron_next` returns the next matching time; the scheduler reports what is due and
nothing that a client was told is paused or deleted; requests are answered or cut off; the
program stops when told and leaves nothing running; a deadline closes the connection
that was silent and no other; a transaction is in the file whole or not at all.

## Modules

| Module | Models |
| --- | --- |
| `JobModel` | `Job`, the enumerations as the integers they are, `ToInt`: what an `int` keeps |
| `Repository` | `database.cpp` on the shared connection: per thread a `pc` that names the `sqlite3_*` call it is about to make |
| `JobStore` | the abstract repository: a call, one moment at which it acts, its answer, exact unless it was spoiled |
| `CronExpr` | `make_cron` on the tokens the parser tells apart, in numbers of `CronIntSize` values |
| `CronNext` | `cron_next`, `find_next`, `find_next_day` and the field operations, over a calendar |
| `CronAnswer` | a call of `cron_next`, and what it promises: the next time that matches |
| `Service` | `create_job` up to `insert_job`, with `CronExpr`; `cron_next` is a constant operator |
| `Creation` | a POST from its JSON body to the stored integer, and what the client asked for |
| `JobScheduler` | `main`, the scheduler loop and the routes over `Repo == INSTANCE Repository` |
| `Crow` | `Server`, `Connection` and `task_timer` of Crow: accepting, reading, deadlines, the end of a connection |
| `Pager` | the pager, its journal, locks, cache and recovery, one lock, write, sync or deletion at a time |
| `AtomicFile` | the abstract file: a transaction at one moment, and what a power loss may take back |
| `MCRepository`, `MCCronNext`, `MCService`, `MCJobScheduler`, `MCCrow`, `MCPager` | instances for TLC |
| `JobModelProofs`, `RepositorySafety`, `RepositoryScan`, `RepositoryStore`, `CronNextSafety`, `CrowSafety`, `JobSchedulerSafety`, `PagerSafety` | theorems |

`Service` EXTENDS `JobModel` and `CronExpr`. `JobScheduler` EXTENDS `Service` and
INSTANCEs `Repository` with its workers and the scheduler as the threads and with
the calls the routes and the loop can make; a handler is `Handle` (the call of the
repository begins), steps of `Repo!Work`, and `Respond` (the function returned).
`Creation` EXTENDS `Service` and `CronNext` and assumes (`CronAssumption`) that the
constant operator `CronNextRun` is `cron_next`, as the configurations of `MCService`
make it; so it goes from the JSON body through `make_cron` and `cron_next` to the
stored integer. `CronAnswer` asks `cron_next` alone.

Two modules lie around the program rather than in it. `Crow` is what carries a
request to a route and knows of the route only how its response ends; `JobScheduler`
has the routes and takes the carrying as `Send`, `Take`, `CutOff` and `Receive`. `Pager` is
what a `sqlite3_step` that writes does to the file; `Repository` takes it as one
step, and what justifies that is `Pager`'s refinement of `AtomicFile`: a commit
happens at one moment (`Repository!Write`), a failed one leaves nothing
(`Repository!CommitFails`), a crash keeps what was committed
(`Repository!Restart`). A loss of power is more than `Restart`: `AtomicFile` allows it to
take back the last commit, because `sqlite3.c` does not sync the directory when it
deletes a journal (`extraSync` is off by default). No property of `Repository` is
claimed for that case.

### How state and actions correspond to the code

*Repository.* `jobs` maps every id to its row or to `NoRow`; `seq` is SQLite's
`sqlite_sequence` row for the AUTOINCREMENT table. `nChange` and `lastRowid` are
the two fields of the connection. `call[t]`, `reply[t]` and `cursor[t]` are the
locals of the function thread `t` is in. `Invoke` enters a function, `Prepare` is
`sqlite3_prepare_v2` with the binds, one action per statement is `sqlite3_step`
(an autocommit statement commits inside it), `InsertCheck` and `ChangesCheck` are
the looks at the connection, `ScanRow` is a step of a SELECT, `Return` leaves.
`sqlite3_finalize` is folded into the call before it, except after a busy step,
where it clears the change count (`FinalizeBusy`). `Restart` keeps only the
table and `seq`. `own` and `view` are history for the properties: what a thread's
statement did, whether it was alone, and what a scan could have seen.

*JobStore* has no connection and no calls of SQLite. A caller begins, acts (or is
refused, and nothing changes), is given an answer, and leaves; a list gathers what
was there at some time and what was there all the time between its opening and its
answer. The refinement mapping takes `pc` to the phases (`prepare`, `step` and `finalize` are
called; `check`, `refetch` and `scan` have acted; `done` is answered) and `own`, `view` and `reply`
to the outcome, the view and the answer.

*JobScheduler.* `main`, `sched` and the `phase` of a connection are program
counters. `usable` says that both start-up steps worked; their results are ignored
by `main()`, so the program runs on and every prepare fails. `Signal` is Crow's
signal handler; after it no worker takes a request. `Named` is what a route gets of
the number in a URL: Crow parses 64 bits and the route takes an `int`. `CutOff` is what
`Crow` shows may happen between the arrival of a request and the callback of its read:
the connection's deadline closes the socket, so the route is never run, and whatever the
client was promised about that request it was not told. `now` and `due_jobs` live
for one round, so `SchedWake` clears what remembers it. `Restart` is the process
killed at any moment, or ended, and started again on its file. `promise` is history:
which jobs a client was told are quiet; being told outlives a restart.

*Crow.* A `Connection` object has a phase, a worker, a socket that is open or not, and
its `task_id_`; the response of a hanging route holds the object. `queue[w]` is the
callbacks `w`'s io_context has ready, in order; `tasks[w]` and `highest[w]` are its
`task_timer`. `Start` and `Read` run one callback to its end: parse, handle, write and
read on, or cancel the deadline and let go of the object. `Tick` is the timer's
handler: it closes the sockets whose deadline has passed, which queues an aborted read
for each that was waiting. `Second`, `Deliver`, `Send`, `Leave` and `Notice` are the
clock, the network and the clients. `ran` is history: whose route has run with no
answer sent.

*Pager.* `file` is what a read returns; `maybe` what of each page the disk may hold;
`journal`, `jsync` and `ghosts` the journal, how much of it is durable, and deleted
journals a power loss may bring back. `at[p]` names the next call of process `p`'s
pager: `SharedLock` to `Validate` are `sqlite3PagerSharedLock` with its three looks
for a hot journal, `Begin` to `Finish` a transaction, `Undo`, `Play` and what
follows the rollback. A page's content is the number of the transaction that wrote
it, and the first page's is the change counter. `Content` is the file with what the
next process would roll back; it is what `AtomicFile`'s `content` is mapped to.

*make_cron.* A `cron_int` is a `uint8_t`. `to_cron_int` cuts what `std::stoul` read down to
one (modulo `CronIntSize`, 256 in the code) before anything is compared with the limits
of its field, so 300 is a minute, 44, and a step of 256 is 0 and refused. `PartValues` is
the loop over an increment with a loop variable that wraps: it goes on until the
variable is past the range, which a step of more than half of a `cron_int` puts off.
`CronIntAssumption`, which 256 and the six maxima meet, is why it ends. In `Creation`,
`Written` is what the text says with every number as it is written; `Narrow` is when
the two are the same, and `Ordinary` asks for it.

*cron_next.* A `struct tm` is a record of its fields; every change of a field is
followed by `mktime` (`Normal`). croncpp's three `find_next` are `FindField` (one field),
`find_next_day` and `find_next` (a call, of itself among others). The latter is a
recursive function: `within[n]` is a call where `n` may be within each other, and
`Search` has its body, one operator per field (`FindMinute` to `FindMonth`), each
of which passes on the date and the fields marked so far. A search that failed
ends the call (`Failed`). `Plain` are the expressions for which the search is right.

*Where the commit does not compile.* The sources at this commit have typing slips
(`retrun`, `Db`, `vector<Job> due_jobs get_due_jobs(...)`, include paths). They are
read as the token that was meant, and so is `res.end;` in `create_task_route`
(`Controller.cpp:35`), which names a member function without calling it: read as
`res.end()`. Slips that are legal C++ are modelled as they
are written: `if (job.id = -1)`, `res.body = 400`, the missing `res.end()` in
`get_all_jobs_route`.

*What is abstracted.* Name, payload, interval and cron text travel unchanged from
the body to the row, so they are one value, `data`. Messages are a word each. A
cron text is its fields of tokens, and whether it begins with a space, because
`"0" + cron_expr` joins the first token. Parts with two `-` or two `/`, trailing
commas, names of days and months and `?` are left out of `CronExpr`. There is no
daylight saving time in `CronNext` and `mktime` does not fail. A request in `Crow` is
its kind: how its response ends, whether it closes the connection, whether it is whole and
can be parsed. In `Pager` no transaction changes the size of the file, the
journal's header is written whole or not at all, a journal record that was not synced is
recognised by its checksum, and a busy return that changes no lock, cache or file is no step.

## Checks

The instances are in the `.cfg` files. Passing runs:

| Run | Shows |
| --- | --- |
| `repository_writes` | Two threads, one called job of a table of two, every writing function and `get_job_by_id`, all four faults, restarts. `RepliesExactWhenAlone`, `ReturnedIdNotOlder`, `IdsNeverReused`, `RetryBounded`, `ConnectionInvariant`, the invariant the proofs use, and `ImplementsJobStore`. |
| `repository_scan` | Three rows, one thread scans while the other inserts, deletes, pauses, resumes; prepares and reads fail. `ScanConsistent`, the `ScanInvariant` it follows from, and `ImplementsJobStore`. |
| `cron_next` | Every expression called `Plain` over a calendar of 3 x 2 x 2 time values, 2 weekdays and months of 3, 2 (3) and 3 days, from thirteen times of two years. The answer is a match, the first one, and not `INVALID`. |
| `create_job` | Bodies with members of every type, thirteen cron texts, some with numbers no `cron_int` holds. An accepted job with an ordinary schedule is stored with the time asked for. |
| `program_quiet` | Two workers, two clients, requests that are cut off, restarts. `StoppedStaysQuiet`, also across a restart, and `CleanExit`. |
| `program_live` | The whole program with a worker and a client: polls and requests that fail at the prepare, at a locked database or at a read, start-up steps that fail, a handler that throws, times and ids no `int` holds, requests that are cut off, and restarts. `NeverEarly`; `StopsWhenTold`, `RequestsAreAnswered` and `DueIsReported` under `FairSpec`. The last speaks of every moment, so that a job due after the last poll that fails is reported. |
| `crow` | Two clients of one worker, every kind of request, silence and leaving. `DeadlinesAreOfTheWaiting`, `CutOffIsUndone`, `OwedStaysOpen`; `RequestsAreServed` and `LeftIsFreed` under `FairSpec`. |
| `pager` | Two processes, three transactions, every failure, crashes and power losses. `ReadersSeeCommitted`, `FailedLeavesNothing`, `ImplementsAtomicFile`. |

Runs in which TLC finds the code at odds with its own text (`findings` in
`PROJECT.json` has the lines):

| Run | The disagreement |
| --- | --- |
| `rows_affected_is_own` | Another thread's statement replaces the count before `sqlite3_changes()`: a delete of a missing job succeeds. |
| `cron_next_ac` | `cron_next` passes over matches: `0 0 0 * 4 *` from 2026-01-30 12:00 gives 2027-04-01. |
| `create_job_ac` | A ONE_TIME job beyond an `int` is stored with another time. |
| `crow_timeout` | Connection A's deadline fires and its aborted read is queued; the timer is empty, so its ids begin again; connection B is given A's id; A's read then cancels that id once more. B's silent client is never timed out. |

### Bounds

* `Threads`: two. Each hazard of the connection is one thread's steps between two
  steps of another; a third adds no new order of two. The theorems hold for any
  number.
* `MaxId`: two for the writes, so that one id can be deleted and another taken and
  the table can be full; three for the scans, so that rows before, at and after the
  cursor change; one in the program runs. It also bounds the state: a full table is
  SQLite's SQLITE_FULL, not a guard of the model's own.
* `IntLimit`: 4 in the repository runs, where the request's time, 5, does not fit;
  64 in `create_job`, where 70 does not; 8 in the program runs, where the id 17 of
  `program_live` is read as job 1 and the time 9 of one of its bodies as -7.
* `Workers`, `Clients`: two of each in `program_quiet`, for a pause against a resume of the
  same job; one of each in `program_live`, against the scheduler, since a worker waits
  for no other.
* `CronIntSize`: 8 for 256, the least that `CronIntAssumption` allows for days and
  months up to 3: the numbers 8 and 9 do not fit and a step of 7 wraps.
* `MaxTime` (a counter stopped by a guard): 1, enough for a job to be not due
  and then due. A trace in which the clock stops is one of a slow second.
* `MaxDaySteps`: 9 days of the small calendar for croncpp's 366, a little over its
  year of eight or nine days; `MaxYearsDiff`: 2 for croncpp's 4. The calendar keeps
  months of unequal lengths and a leap month, and three seconds in `cron_next`, since
  with two every expression names one or all. `MaxCalls`, the number of calls of
  `find_next` within each other, is a bound of the model's own, above the seconds of two
  years (`TwoYears`), so that it cuts no search of a `Plain` expression; a search that
  reached it would answer `INVALID`. The counterexample was repeated on
  the library itself, with the dates above; so were two others: `0 0 9 1 * 1` from
  2026-01-01 09:00 gives 2026-06-01 00:00, not 09:00, because a search over the days
  that ends on the same day of another month is not started over; and
  `10,50 7 * * * *` from 00:05:20 gives 00:07:50, not 00:07:10, because seconds are moved
  first and not marked, so if the minute then moves they stay where they are. `Plain`
  excludes the three: months that have not all of the named days, days and weekdays
  named together, and several seconds named but not all.
* `Conns` 2, `WorkerCount` 1: an id can be met again only by two connections of one
  timer, and workers share nothing else. `Timeout` 1: a tick for a deadline to be
  scheduled and one for it to pass, for the code's five. `MaxTaskId` 3 (clients wait
  when the timer has issued so many; `Room` is the guard): two waits at once and one more;
  the ids begin again at 0 when the timer is empty, so a run is not cut at three
  waits. The theorems hold for every value of these.
* `MaxTxn` 3: one transaction to be in the file, one that fails or is
  lost, one after it; it guards `Begin` alone. `DataPages` one page besides the first, so
  that a commit writes two pages and can stop between them. Two processes: the one
  that dies and the one that recovers, or a reader and a writer.
* Symmetry is used in runs without liveness only, over threads, workers, clients and
  processes, which no property tells apart.
* Deadlock is checked in `Repository` and `Pager`. It is not in `JobScheduler`, where
  the program ends, in `Crow`, where the server stops, nor in `MCCronNext` and
  `MCService`, which ask one question.

### Fairness

`JobScheduler!FairSpec` has weak fairness of `main`, the scheduler and each worker's
current handler, and of what they do inside the repository: the mutex of the
connection is held for one call, and a thread never waits for another between two.
Nothing is assumed of the faults, nor of which of two connections is served first. It has
weak fairness of `Take(c) \/ CutOff(c)`: while `c`'s request waits either is possible, the
cut-off always and the other whenever a worker is free, so one of them happens. More the
code does not give: a request that arrived may be closed by its deadline before its
callback. That what is ready is handled or closed in the end is `Crow!RequestsAreServed`.
Clients, the clock, the operator and restarts are not fair.

`Crow!FairSpec` has weak fairness of each worker (its thread runs whatever its
io_context has ready, in order), of `Second` (time passes) and of `Deliver` (what was sent
arrives). No client must connect, send or leave, and nobody must stop the server.

## Proofs

The proofs about the repository are for any set of threads, any calls, any table, any subset
of the faults, under `IntLimitAssumption` and `RepositoryAssumption`; those about
Crow for any finite set of connections, any number of workers and any timeout, under
`CrowAssumption`; those about the program for any workers, clients and bodies, under
`JobSchedulerAssumption` and `BodiesAssumption` (a number in a JSON body is an integer,
and so is what `cron_next` returns); those about the pager for any processes, pages
and number of transactions, under `PagerAssumption`; those about `cron_next` and
`create_job` for any calendar, limits, expressions, texts and bodies, under
`CalendarAssumption` (no month is shorter than a week; the Gregorian calendar is such a
calendar, counted from 1899, which began on a Sunday, with `LeapYears` to match),
`AskedAssumption`, `CronIntAssumption` (at least half of a `cron_int`'s numbers are above every
field; 256 and the limits of croncpp are such) and
`Creation`'s assumptions (the parser and the search have the same ranges, a text that does not begin
with a space begins with a token, `CronNextRun` is `cron_next`).

* `RepositorySafety!TypeCorrect`: `Spec => []TypeOK`. One lemma per kind of action;
  what is added to a record of the state is typed by update lemmas
  (`AnswerUpdate`, `JobUpdate`, `EffectUpdate`) and by `ReadJobType`, which rests on
  `JobModelProofs!ToIntIsInt`.
* `RepositorySafety!ConnectionCorrect`: `Spec => []ConnectionInvariant`. Neither
  `RepliesExactWhenAlone` nor `ReturnedIdNotOlder` is inductive: they speak of the
  state after the look at the connection. `Known(t)` says what holds before it: a
  thread at its look that was alone finds its own count and rowid, and in any case a
  rowid at or above its own. That needs rowids to be given out in order, hence
  `i <= seq` for every row and `lastRowid <= seq + 1` (the one above is the rowid of
  an INSERT that was rolled back). `QuietStep` and `LoudStep` say what a step of one
  thread does to what the others know; each action is then one lemma about its own
  thread.
* `RepliesExact`, `ReturnedIdIsNotOlder` follow from it; `IdsAreNew`
  (`Spec => IdsNeverReused`) from it and `NewRowidIsNext`, by which the CHOOSE in
  `NewRowid` is `seq + 1`.
* `RetriesAreBounded`: `Spec => []RetryBounded` for calls whose jobs respect
  `max_retries` themselves; the invariant adds `0 <= max_retries`, which
  `reset_retry_count` needs.
* `RepositoryScan!ScansAreConsistent`: `Spec => []ScanConsistent` if the ids fit an `int`
  (`MaxId < IntLimit`; else two rows may be reported under one id). It speaks of a scan that is over;
  `ScanInvariant` says what a running one has: its cursor, rows in the order of their ids at or
  before it, each of them seen in the table, and no row at or before the cursor that
  matched throughout and is missing. A writer beside it can only add to what was
  seen and take from what was there throughout (`WritingBeside`), and `ScanRow` takes the
  least id ahead, so nothing that stayed is passed over.
* `RepositoryStore!RepositoryImplementsJobStore`: the initial states map to initial
  states of `JobStore`, every step to a step of it or a stutter, again if the ids fit
  an `int`, with both invariants above as premises: an answer is exact by `Known`, a list by
  `ScanInvariant`.
* `CrowSafety`: `TypesHold`, `DeadlinesHold`, `CutOffHolds`, `OwedHolds` from one
  inductive `CrowInvariant`. None of the four is inductive: what a late callback
  does depends on its being about the wait it was queued for. So `Orderly` says that a
  callback's connection is in the phase and of the worker the callback is for and has no second one in
  the queue, `Timely` that tasks and waits match one to one, and `Held` which
  objects may have been closed or have a client that was cut off. That `Tick` queues
  finitely many aborted reads rests on `Timely` (tasks map one to one into
  `Conns`); that a worker can be picked for a new connection, on a minimum of the
  queue lengths (`LeastNat`, from the well-foundedness of inclusion of finite sets).
* `JobSchedulerSafety!ExitIsClean`: `Spec => []CleanExit`. `ExitInvariant` ties each
  thread's place in the repository to its place in the program: a worker is inside only
  with a handler, the scheduler only in its query, and no handler before the port is
  bound or after `run()` has returned.

The three that follow carry the repository's theorems to the program. `R` is
`RepositoryScan` with the program's threads and calls, where a prepare may always fail, as it
does on a database that is not usable; a step of a thread in the
repository is a step of `R!Next`, so `R`'s lemmas hold of it, and the invariants of
the program are about what lies around it.

* `ProgramTypes`: `Spec => []TypeOK`. `ProgramInvariant` has the repository's types and
  ties calls to requests: a worker in a handler makes the call of the request it serves,
  no two serve one connection, and `due` is empty but while it is printed.
* `StoppedJobsStayQuiet`: `Spec => []StoppedStaysQuiet`, if the ids fit an `int`. The
  property speaks of the rows the scheduler has in its hands; `QuietInvariant` says why
  they are not of a promised job: a promised job is not ACTIVE in the table and no thread
  is about to resume it, a pause or delete that has succeeded and is still to be answered
  has already made its job quiet, and none of the jobs that were promised when the
  scheduler's round began is among the rows its scan has read. `ScanInvariant` is
  what says that such a row cannot have been there for the scan to read.
* `NothingIsEarly`: `Spec => []NeverEarly`, if ids and enumerators fit an `int`. The
  property itself is about the jobs whose time does (`create_job_ac` shows what happens to
  one that does not); the others may be in the table beside them. `TimeInvariant` says that every such ONE_TIME row stores the time of its body or a later
  one, and that what the scan has read was due when the round began;
  `CreatedPunctual`, that what `create_job` hands to `insert_job` is stored so.

`PagerSafety` has one inductive `PagerInvariant`, of these parts:

* `Holds` and `Excludes`: which lock goes with which step, and that whoever holds
  RESERVED or more is alone with it, whoever holds EXCLUSIVE alone at all. No process
  reads the file while a sealed journal lies there.
* `DiskInvariant`: a page that may be torn, or is not durable, has a record in a sealed
  journal that no power loss takes; a journal that is being synced stands beside a file
  that is whole; `Content` and what each deleted journal would bring back were left by
  transactions of which none was reported as failed.
* `ReaderInvariant`: a cache that is kept is right, or its change counter is behind
  the file's, so that `Validate` drops it. Counters do not repeat because the one that commits
  is one above `Content`'s.
* `Owns`, `Stage`: the writer's journal has exactly its dirty pages, with what
  `Content` has there, and its pages are written up to `pos` in the order of `Rank`.
  `HotInvariant`: the same of a process that plays back another's journal.

From it, with one lemma per action (`...Keeps`):

* `PagerTypes`, `ReadersSeeCommits`, `FailuresLeaveNothing`: the run's three
  invariants. The last rests on `Outcomes`: a power loss leaves `Content` or what
  one of the deleted journals brings back.
* `FileIsAtomic`: `Spec => ImplementsAtomicFile`. `StepHolds` shows that a step of a
  process leaves `Content` and adds nothing to what may come back (`Settles`, AtomicFile's
  `Settle`), but for `Finish`, its `Commit`; `OlderIs` that what a power loss can
  leave besides `Content` is what deleted journals bring back, which is the one of the
  last commit at most.

The invariant itself was checked by TLC on the instance of the run `pager` before it was
proved. Step names are words without spaces, for Z3's encoding of strings.

`CronNextSafety` is about two recursive functions, the days before a month and
`find_next`'s calls within each other. The library's theorems about such
definitions take operators, which the provers cannot instantiate, so it derives
induction and recursion over the naturals for sets and functions (`SetInduction`,
`Recursion`) from the well-foundedness of inclusion of finite sets. On them stand:

* the calendar: `DivMod` and `DivUnique`, `DaysBeforeFacts`, `MonthAtUnique` (each day is in one
  month), and with them `DateFacts` and `RoundTrip` (`mktime` undoes `localtime`);
* what each operation does to a date, in minutes, hours, days and months since the
  beginning (`AbsMin` to `AbsMonth`): `SecOps` to `MonthOps`, the resets, `FindMin` to
  `FindMonths`, and `PlainDay`, by which the search by days stops in time and never on the
  same day of another month;
* the search: `Good(c, t, r)` says that a search from `t` failed or found the first match
  from `t` on, and is proved by induction on the calls within it (`WithinGood`). Inside a call
  `Past` says where it has got to: at a match, or at a time before which nothing
  matches, whose lower fields are at their least (`Ready`). `GoodSearch` to `GoodMonth` are one
  lemma per field;
* the answer: `FindNextFinds` is that no search fails that has a match `m` ahead of it, in
  a year near enough and with as many calls as there are seconds until `m`, because a
  search that starts over does so later and not after `m` (`Reached`, `StepFinds`); `MatchAhead`
  finds such an `m` for every `Plain` expression before the end of the year after,
  since every month has all the named days or all the weekdays.

* `PlainMatches`, `PlainIsEarliest`: `AskSpec` implies the two invariants of the run
  `cron_next`, for every limit.
* `PlainAnswered`: `AskSpec => []PlainIsAnswered` if `MaxYearsDiff` is one at least and
  `TwoYears <= MaxCalls`, as in the run; the code has 4, and no bound on its calls.
* `OrdinaryStored`: `Spec => []OrdinaryStoredCorrectly` of `Creation`, under the same two
  hypotheses. `MakeCronType` is that a field the parser accepts names a non-empty set
  within its bounds, so that what it gives to `cron_next` is one of `AllExprs`;
  `TakenAsWritten` that `make_cron` of `FullExpr`'s text is what the client wrote, if its
  first token is a number and its numbers are narrow. It rests on `LoopFacts`: the values of a
  loop that never wraps within the range are the multiples of its step, and the turn after
  the last of them is past the range and still a `cron_int`. `ToIntFits` that an `int` keeps the answer.

Only model-checked: the liveness properties (`StopsWhenTold`, `DueIsReported`,
`RequestsAreAnswered`, `RequestsAreServed`, `LeftIsFreed`), which are out of the prover's
reach. Every invariant and action property of a passing run, and both refinements, are
also proved.

## Not modelled

* asio: the event loop and the sockets, third-party; what the program relies on (queues in
  order, delivery, timers) is in `Crow` as actions and fairness.
* Of Crow: parsing of HTTP and JSON, middlewares, static files, websockets,
  compression and SSL, of which the program uses the parsers alone.
* Of SQLite: the SQL compiler, the virtual machine and the B-tree, of which
  `Repository` has what the statements of `database.cpp` do; the write-ahead log, memory mapping,
  savepoints, multi-file commits, auto-vacuum and changes of the file's size, none of
  which the program turns on except the last.
* `shell.c`, the commented-out earlier versions in `main.cpp`, the empty `json`
  submodule, the Crow example, the build output, and printing.

These libraries are most of the repository's lines and little of its behaviour; the part of them the models stand for
is the part the program runs through.

## Plan

Done, in this order: `JobModel`, `Repository`, `CronNext`, `CronExpr`, `Service`,
`JobScheduler`, their first theorems; `JobStore` with the refinement, checked and
proved; `ScanInvariant` and the proof of `ScanConsistent`; crash and restart of the
program; `Crow` with its proofs; `Pager` and `AtomicFile`; `CleanExit`, `TypeOK`,
`StoppedStaysQuiet` and `NeverEarly` of the program proved; `Pager`'s invariants and its
refinement of `AtomicFile` proved; `CronNext`'s loops as recursive functions, and the answers
of `cron_next` and what `create_job` stores proved.

Left, most important first:

1. That a job which stays due is in the list of every round that begins while it does
   (the safety half of `DueIsReported`), from `ScanInvariant`.
2. Changes of the file's size in `Pager`, and a journal header that is written in part.
