-------------------------------- MODULE Crow --------------------------------
(***************************************************************************)
(* The HTTP server under the routes: crow::Server gives every connection   *)
(* to one of its workers, a worker runs the callbacks of its io_context    *)
(* one after the other, and the task_timer of the worker closes a          *)
(* connection whose client stays silent too long.                          *)
(*                                                                         *)
(* A callback runs to its end before the worker takes the next.  What      *)
(* makes the order hard is the queue between an event and its callback: a  *)
(* read that is complete, or that was aborted because the deadline closed  *)
(* the socket, waits there while the timer and other connections go on.    *)
(* A client has one request at a time; what a route does is JobScheduler.  *)
(***************************************************************************)
EXTENDS Naturals, Sequences, FiniteSets

CONSTANTS Conns,        \* the Connection objects there may be at once
          WorkerCount,  \* worker_thread_count
          Timeout,      \* timeout_, in ticks of the task_timer
          MaxTaskId,    \* clients wait when a timer has issued this many ids
          Requests      \* the kinds of requests the clients send

Workers == 1 .. WorkerCount

\* "answered": the route ends its response.  "last": so, and the client asked
\* for the connection to be closed.  "hanging": get_all_jobs_route, which does
\* not.  "bad": bytes the parser refuses.  "part": a beginning of a request.
Kinds == {"answered", "last", "hanging", "bad", "part"}

ASSUME CrowAssumption ==
    /\ WorkerCount \in Nat \ {0} /\ Timeout \in Nat
    /\ MaxTaskId \in Nat /\ Requests \subseteq Kinds
    /\ IsFiniteSet(Conns) /\ Conns # {}

VARIABLES serving,  \* not shutting_down_
          next,     \* the object do_accept waits with: {} or a singleton
          conn,     \* the Connection objects
          queue,    \* per worker: the callbacks its io_context has ready
          tasks,    \* per worker: task_timer::tasks_
          highest,  \* per worker: task_timer::highest_id_
          client,   \* per object: what its client is doing
          inbox,    \* per object: what the client sent and nobody has read
          ran       \* history: objects with a route run and no answer sent

vars == <<serving, next, conn, queue, tasks, highest, client, inbox, ran>>

\* phase "gone": no object.  "starting": start() is posted.  "reading":
\* async_read_some is pending.  "read": its callback is in the queue.
\* "hung": the response was not ended; the response holds the object.
\* task is task_id_, whether the timer still has that task or not.
Gone == [phase |-> "gone", worker |-> 1, open |-> FALSE, task |-> 0]

Phases == {"gone", "accepting", "starting", "reading", "read", "hung"}

Callback(kind, c, piece) == [kind |-> kind, conn |-> c, piece |-> piece]
TickOf(w) == [kind |-> "tick", conn |-> CHOOSE c \in Conns : TRUE, piece |-> "none"]

-----------------------------------------------------------------------------
(***************************************************************************)
(* task_timer.                                                             *)
(***************************************************************************)
Cancel(ts, id) == {t \in ts : t.id # id}

\* std::map::insert leaves a task alone that has the id already.
Insert(ts, task) ==
    IF \E t \in ts : t.id = task.id THEN ts ELSE ts \cup {task}

\* A timer that begins its ids again whenever a task has run.
EagerReset(rest, high) == 0

\* The ids begin again when no task is scheduled.
ResetIds(rest, high) == IF rest = {} THEN 0 ELSE high

\* A deadline that is a tick late.
ReadNextLate(w, c) ==
    LET id == highest[w] + 1
    IN  /\ tasks' = [tasks EXCEPT ![w] =
                        Insert(Cancel(@, conn[c].task),
                               [id |-> id, conn |-> c, left |-> Timeout + 1])]
        /\ highest' = [highest EXCEPT ![w] = id]
        /\ conn' = [conn EXCEPT ![c].task = id, ![c].phase = "reading"]

\* start_deadline() and do_read().
ReadNext(w, c) ==
    LET id == highest[w] + 1
    IN  /\ tasks' = [tasks EXCEPT ![w] =
                        Insert(Cancel(@, conn[c].task),
                               [id |-> id, conn |-> c, left |-> Timeout])]
        /\ highest' = [highest EXCEPT ![w] = id]
        /\ conn' = [conn EXCEPT ![c].task = id, ![c].phase = "reading"]

\* cancel_deadline_timer().
CancelDeadline(w, c) ==
    /\ tasks' = [tasks EXCEPT ![w] = Cancel(@, conn[c].task)]
    /\ UNCHANGED highest

-----------------------------------------------------------------------------
(***************************************************************************)
(* Server: accepting, and stopping.                                        *)
(***************************************************************************)
\* task_queue_length_pool_.
QueueLength(w) ==
    Cardinality({c \in Conns : conn[c].phase # "gone" /\ conn[c].worker = w})

\* The first worker that has no connection, or else the first of those that
\* have the fewest.
pick_io_context_idx ==
    CHOOSE w \in Workers :
        /\ \A v \in Workers : QueueLength(w) <= QueueLength(v)
        /\ \A v \in Workers : v < w => QueueLength(w) < QueueLength(v)

\* Bound: each timer has ids left for what the clients have sent.
Room == \A w \in Workers :
            highest[w] + Cardinality({c \in Conns : conn[c].worker = w /\
                (conn[c].phase \in {"starting", "read"} \/ inbox[c] # <<>>)}) < MaxTaskId

\* do_accept makes the object the next client will get and binds it to a worker.
\* Bound: with all of Conns in use it waits until one is free.
Unused == {d \in Conns : conn[d].phase = "gone" /\ client[d] = "none"}
Waiting == [Gone EXCEPT !.phase = "accepting", !.open = TRUE, !.worker = pick_io_context_idx]

\* A client connects: its object is posted to the worker picked for it before,
\* and do_accept makes the next one.
Accept(c) ==
    /\ serving /\ Room
    /\ next = {c}
    /\ queue' = [queue EXCEPT ![conn[c].worker] =
                    Append(@, Callback("start", c, "none"))]
    /\ client' = [client EXCEPT ![c] = "idle"]
    /\ \/ \E d \in Unused :
             /\ next' = {d}
             /\ conn' = [conn EXCEPT ![c].phase = "starting", ![d] = Waiting]
       \/ /\ Unused = {}
          /\ next' = {}
          /\ conn' = [conn EXCEPT ![c].phase = "starting"]
    /\ UNCHANGED <<serving, tasks, highest, inbox, ran>>

AcceptAgain(d) ==
    /\ serving
    /\ next = {} /\ d \in Unused
    /\ next' = {d}
    /\ conn' = [conn EXCEPT ![d] = Waiting]
    /\ UNCHANGED <<serving, queue, tasks, highest, client, inbox, ran>>

\* The io_contexts run no further callback.
Stop ==
    /\ serving
    /\ serving' = FALSE
    /\ UNCHANGED <<next, conn, queue, tasks, highest, client, inbox, ran>>

-----------------------------------------------------------------------------
(***************************************************************************)
(* The callbacks a worker runs.                                            *)
(***************************************************************************)
Ready(w, kind) == serving /\ queue[w] # <<>> /\ Head(queue[w]).kind = kind
Taken(w) == queue' = [queue EXCEPT ![w] = Tail(@)]

Start(w) ==
    /\ Ready(w, "start")
    /\ Taken(w)
    /\ ReadNext(w, Head(queue[w]).conn)
    /\ UNCHANGED <<serving, next, client, inbox, ran>>

\* The last reference to the object goes, and the socket with it.
Destroy(c) ==
    /\ conn' = [conn EXCEPT ![c] = Gone]
    /\ inbox' = [inbox EXCEPT ![c] = <<>>]
    /\ client' = [client EXCEPT ![c] = IF @ \in {"part", "waiting"} THEN "cut" ELSE "none"]

\* A read error that closes the socket and forgets the object.
ReadErrorKeeping(w, c, piece) ==
    /\ \/ piece \in {"aborted", "eof", "bad"}
       \/ ~conn[c].open
       \/ piece # "part" /\ client[c] = "left"
    /\ CancelDeadline(w, c)
    /\ conn' = [conn EXCEPT ![c].open = FALSE]
    /\ UNCHANGED <<client, inbox, ran>>

\* The read failed, the parser refused what it read, or the deadline closed
\* the socket after the read was complete: then handle() throws when it asks
\* for the address of the client, before it has called the route.
\* remote_endpoint() may also throw when the client has left.
ReadError(w, c, piece) ==
    /\ \/ piece \in {"aborted", "eof", "bad"}
       \/ ~conn[c].open
       \/ piece # "part" /\ client[c] = "left"
    /\ CancelDeadline(w, c)
    /\ Destroy(c)
    /\ UNCHANGED ran

\* A partial request after which nothing is read.
ReadPartOnly(w, c, piece) ==
    /\ piece = "part" /\ conn[c].open
    /\ CancelDeadline(w, c)
    /\ UNCHANGED <<conn, client, inbox, ran>>

\* The request is not complete.
ReadPart(w, c, piece) ==
    /\ piece = "part" /\ conn[c].open
    /\ ReadNext(w, c)
    /\ UNCHANGED <<client, inbox, ran>>

\* A handle() that does not look whether the client can be answered.
HandleBlind(w, c, piece) ==
    /\ piece \in {"answered", "last"}
    /\ IF conn[c].open
       THEN /\ client' = [client EXCEPT ![c] = IF @ = "left" THEN @ ELSE "idle"]
            /\ ReadNext(w, c) /\ UNCHANGED <<inbox, ran>>
       ELSE CancelDeadline(w, c) /\ Destroy(c) /\ ran' = ran \cup {c}

\* The route ends its response: it is written, and the next request read.
HandleAnswered(w, c, piece) ==
    /\ piece = "answered" /\ conn[c].open
    /\ client' = [client EXCEPT ![c] = IF @ = "left" THEN @ ELSE "idle"]
    /\ ReadNext(w, c)
    /\ UNCHANGED <<inbox, ran>>

\* So, with close_connection_: nothing refers to the object any more.
HandleLast(w, c, piece) ==
    /\ piece = "last" /\ conn[c].open
    /\ CancelDeadline(w, c)
    /\ conn' = [conn EXCEPT ![c] = Gone]
    /\ inbox' = [inbox EXCEPT ![c] = <<>>]
    /\ client' = [client EXCEPT ![c] = "none"]
    /\ UNCHANGED ran

\* handle() that leaves the deadline to run on.
HandleTimed(w, c, piece) ==
    /\ piece = "hanging" /\ conn[c].open
    /\ conn' = [conn EXCEPT ![c].phase = "hung"]
    /\ ran' = ran \cup {c}
    /\ UNCHANGED <<tasks, highest, client, inbox>>

\* The route does not end its response: handle() has cancelled the deadline,
\* and no read is started.
HandleHanging(w, c, piece) ==
    /\ piece = "hanging" /\ conn[c].open
    /\ CancelDeadline(w, c)
    /\ conn' = [conn EXCEPT ![c].phase = "hung"]
    /\ ran' = ran \cup {c}
    /\ UNCHANGED <<client, inbox>>

\* The callback of async_read_some.
Read(w) ==
    /\ Ready(w, "read")
    /\ Taken(w)
    /\ LET c == Head(queue[w]).conn
           piece == Head(queue[w]).piece
       IN  \/ ReadError(w, c, piece)
           \/ ReadPart(w, c, piece)
           \/ HandleAnswered(w, c, piece)
           \/ HandleLast(w, c, piece)
           \/ HandleHanging(w, c, piece)
    /\ UNCHANGED <<serving, next>>

\* tick_handler: the deadlines that have passed close their sockets, in the
\* order of their ids; a read that is pending is aborted and its callback
\* queued, one that is complete stays as it is.
Tick(w) ==
    LET expired == {t \in tasks[w] : t.left = 0}
        hit == {t \in expired : conn[t.conn].phase = "reading"}
    IN  /\ Ready(w, "tick")
        /\ \E order \in [1 .. Cardinality(hit) -> hit] :
              /\ \A i, j \in DOMAIN order : i < j => order[i].id < order[j].id
              /\ queue' = [queue EXCEPT ![w] =
                    Tail(@) \o [k \in DOMAIN order |->
                                   Callback("read", order[k].conn, "aborted")]]
        /\ tasks' = [tasks EXCEPT ![w] = @ \ expired]
        /\ highest' = [highest EXCEPT ![w] = ResetIds(tasks[w] \ expired, @)]
        /\ conn' = [c \in Conns |->
                       IF \E t \in expired : t.conn = c
                       THEN [conn[c] EXCEPT
                                !.open = FALSE,
                                !.phase = IF @ = "reading" THEN "read" ELSE @]
                       ELSE conn[c]]
        /\ UNCHANGED <<serving, next, client, inbox, ran>>

-----------------------------------------------------------------------------
(***************************************************************************)
(* The operating system: time, the network, the clients.                   *)
(***************************************************************************)
Ticking(w) == \E k \in DOMAIN queue[w] : queue[w][k].kind = "tick"

\* A tick length passes.
Second ==
    /\ serving
    /\ tasks' = [w \in Workers |->
                    {[t EXCEPT !.left = IF @ = 0 THEN 0 ELSE @ - 1] : t \in tasks[w]}]
    /\ queue' = [w \in Workers |->
                    IF Ticking(w) THEN queue[w] ELSE Append(queue[w], TickOf(w))]
    /\ UNCHANGED <<serving, next, conn, highest, client, inbox, ran>>

\* What the client sent completes the pending read.
Deliver(c) ==
    /\ serving
    /\ conn[c].phase = "reading"
    /\ inbox[c] # <<>>
    /\ queue' = [queue EXCEPT ![conn[c].worker] =
                    Append(@, Callback("read", c, Head(inbox[c])))]
    /\ inbox' = [inbox EXCEPT ![c] = Tail(@)]
    /\ conn' = [conn EXCEPT ![c].phase = "read"]
    /\ UNCHANGED <<serving, next, tasks, highest, client, ran>>

Send(c, piece) ==
    /\ serving /\ Room
    /\ client[c] = "idle" \/ (client[c] = "part" /\ piece # "part")
    /\ conn[c].open
    /\ inbox' = [inbox EXCEPT ![c] = Append(@, piece)]
    /\ client' = [client EXCEPT ![c] = IF piece = "part" THEN "part" ELSE "waiting"]
    /\ UNCHANGED <<serving, next, conn, queue, tasks, highest, ran>>

\* The client closes its connection, answered or not.
Leave(c) ==
    /\ serving
    /\ client[c] \in {"idle", "part", "waiting"}
    /\ inbox' = [inbox EXCEPT ![c] = Append(@, "eof")]
    /\ client' = [client EXCEPT ![c] = "left"]
    /\ UNCHANGED <<serving, next, conn, queue, tasks, highest, ran>>

\* A client that was waiting finds its connection closed.
Notice(c) ==
    /\ client[c] = "cut"
    /\ client' = [client EXCEPT ![c] = "none"]
    /\ ran' = ran \ {c}
    /\ UNCHANGED <<serving, next, conn, queue, tasks, highest, inbox>>

-----------------------------------------------------------------------------
\* The workers have their timers, and do_accept has made the first object.
Init ==
    \E c \in Conns :
       /\ serving = TRUE
       /\ next = {c}
       /\ conn = [d \in Conns |-> IF d = c THEN [Gone EXCEPT !.phase = "accepting",
                                                             !.open = TRUE]
                                  ELSE Gone]
       /\ queue = [w \in Workers |-> <<>>]
       /\ tasks = [w \in Workers |-> {}]
       /\ highest = [w \in Workers |-> 0]
       /\ client = [d \in Conns |-> "none"]
       /\ inbox = [d \in Conns |-> <<>>]
       /\ ran = {}

Work(w) == Start(w) \/ Read(w) \/ Tick(w)

Next ==
    \/ \E c \in Conns : Accept(c) \/ AcceptAgain(c)
    \/ \E w \in Workers : Work(w)
    \/ Second
    \/ \E c \in Conns :
          \/ Deliver(c)
          \/ \E piece \in Requests : Send(c, piece)
          \/ Leave(c)
          \/ Notice(c)
    \/ Stop

Spec == Init /\ [][Next]_vars

\* The workers take what is in their queues, time passes, and what was sent
\* arrives.  No client must connect, send or leave, and nobody must stop it.
FairSpec ==
    /\ Spec
    /\ \A w \in Workers : WF_vars(Work(w))
    /\ WF_vars(Second)
    /\ \A c \in Conns : WF_vars(Deliver(c))

-----------------------------------------------------------------------------
(***************************************************************************)
(* Properties.                                                             *)
(***************************************************************************)
TypeOK ==
    /\ serving \in BOOLEAN
    /\ next \in SUBSET Conns
    /\ conn \in [Conns -> [phase : Phases, worker : Workers, open : BOOLEAN, task : Nat]]
    /\ tasks \in [Workers -> SUBSET [id : Nat, conn : Conns, left : 0 .. Timeout]]
    /\ highest \in [Workers -> Nat]
    /\ client \in [Conns -> {"none", "idle", "part", "waiting", "cut", "left"}]
    /\ ran \in SUBSET Conns

\* No task of a timer outlives the wait it was made for: it belongs to a
\* connection of this worker that is waiting for its client and knows it by
\* its id, and the next id is new.
DeadlinesAreOfTheWaiting ==
    \A w \in Workers : \A t \in tasks[w] :
        /\ conn[t.conn].worker = w
        /\ conn[t.conn].phase \in {"reading", "read"}
        /\ conn[t.conn].open
        /\ conn[t.conn].task = t.id
        /\ t.id <= highest[w]

\* A client whose connection was closed while it waited may send its request
\* again: no route has run for it.
CutOffIsUndone == \A c \in Conns : client[c] = "cut" => c \notin ran

\* The server does not close a connection while a route's response is owed.
OwedStaysOpen == \A c \in Conns : conn[c].phase = "hung" => conn[c].open

\* A complete request to a route that ends its response is answered, or its
\* client finds the connection closed.
RequestsAreServed ==
    \A c \in Conns :
        client[c] = "waiting" /\ conn[c].phase # "hung" /\ inbox[c] # <<"hanging">>
            ~> client[c] # "waiting" \/ conn[c].phase = "hung" \/ ~serving

\* When a client leaves its connection is freed, unless its request hangs.
LeftIsFreed ==
    \A c \in Conns :
        client[c] = "left" ~> client[c] # "left" \/ conn[c].phase = "hung" \/ ~serving

-----------------------------------------------------------------------------
(***************************************************************************)
(* What the text of the program says and its code does not do.             *)
(***************************************************************************)
Silent(c) == conn[c].phase = "reading" /\ inbox[c] = <<>>

\* "Set the connection timeout in seconds": a connection on which the client
\* stays silent is closed.
SilentIsClosed ==
    \A c \in Conns : Silent(c) ~> ~Silent(c) \/ ~serving
=============================================================================
