----------------------------- MODULE CrowSafety -----------------------------
(***************************************************************************)
(* Crow's connections and their deadlines, for any number of clients and   *)
(* of workers, any timeout and any requests.                               *)
(***************************************************************************)
EXTENDS Crow, FiniteSetTheorems, SequenceTheorems, WellFoundedInduction, TLAPS

-----------------------------------------------------------------------------
(***************************************************************************)
(* The invariant.                                                          *)
(***************************************************************************)
Pieces == Kinds \cup {"eof", "aborted", "none"}
Callbacks == [kind : {"start", "read", "tick"}, conn : Conns, piece : Pieces]

Typed ==
    /\ TypeOK
    /\ queue \in [Workers -> Seq(Callbacks)]
    /\ inbox \in [Conns -> Seq(Pieces)]

\* A callback in worker w's queue is one its connection waits for.
Fits(b, w, cn) ==
    /\ b.kind = "start" => cn[b.conn].phase = "starting" /\ cn[b.conn].worker = w
    /\ b.kind = "read" => cn[b.conn].phase = "read" /\ cn[b.conn].worker = w

Mentions(q, c) == \E i \in 1 .. Len(q) : q[i].kind # "tick" /\ q[i].conn = c

\* No connection has two callbacks in a queue.
Orderly(q, w, cn) ==
    /\ \A i \in 1 .. Len(q) : Fits(q[i], w, cn)
    /\ \A i, j \in 1 .. Len(q) :
          i # j /\ q[i].kind # "tick" /\ q[j].kind # "tick" => q[i].conn # q[j].conn

\* The tasks of worker w are the deadlines of waits that last, one each.
Timely(w) ==
    /\ \A t \in tasks[w] :
          /\ conn[t.conn].worker = w
          /\ conn[t.conn].phase \in {"reading", "read"}
          /\ conn[t.conn].open
          /\ conn[t.conn].task = t.id
          /\ t.id <= highest[w]
    /\ \A t, u \in tasks[w] : t.conn = u.conn => t = u

\* An object nobody waits for has not been closed; one whose route is still to
\* answer has its client, and a client that was cut off has no object.
Held(c) ==
    /\ conn[c].phase \in {"accepting", "starting", "hung"} => conn[c].open
    /\ c \in next => conn[c].phase = "accepting"
    /\ c \in ran => conn[c].phase = "hung"
    /\ client[c] = "cut" => conn[c].phase = "gone"

CrowInvariant ==
    /\ Typed
    /\ \A w \in Workers : Orderly(queue[w], w, conn) /\ Timely(w)
    /\ \A c \in Conns : Held(c)

-----------------------------------------------------------------------------
(***************************************************************************)
(* Lemmas about queues.                                                    *)
(***************************************************************************)
LEMMA TailOrderly ==
    ASSUME NEW q \in Seq(Callbacks), q # <<>>, NEW w, NEW cn, Orderly(q, w, cn)
    PROVE  /\ Tail(q) \in Seq(Callbacks)
           /\ Orderly(Tail(q), w, cn)
           /\ Head(q) \in Callbacks
           /\ Fits(Head(q), w, cn)
           /\ Head(q).kind # "tick" => ~Mentions(Tail(q), Head(q).conn)
<1>1. /\ Len(q) \in Nat \ {0}
      /\ Head(q) \in Callbacks /\ Tail(q) \in Seq(Callbacks)
      /\ Len(Tail(q)) = Len(q) - 1
      /\ \A i \in 1 .. Len(Tail(q)) : Tail(q)[i] = q[i + 1]
      /\ Head(q) = q[1]
  BY EmptySeq, HeadTailProperties, LenProperties
<1>2. \A i \in 1 .. Len(Tail(q)) : i + 1 \in 1 .. Len(q) /\ i + 1 # 1
  BY <1>1
<1>3. \A i, j \in 1 .. Len(Tail(q)) : i # j => i + 1 # j + 1
  BY <1>1
<1>4. 1 \in 1 .. Len(q)
  BY <1>1
<1>5. Orderly(Tail(q), w, cn)
  BY <1>1, <1>2, <1>3 DEF Orderly
<1>. QED
  BY <1>1, <1>2, <1>4, <1>5 DEF Orderly, Mentions

LEMMA AppendOrderly ==
    ASSUME NEW q \in Seq(Callbacks), NEW w, NEW cn, Orderly(q, w, cn),
           NEW b \in Callbacks, Fits(b, w, cn),
           b.kind # "tick" => ~Mentions(q, b.conn)
    PROVE  /\ Append(q, b) \in Seq(Callbacks)
           /\ Orderly(Append(q, b), w, cn)
<1>1. /\ Len(q) \in Nat
      /\ Append(q, b) \in Seq(Callbacks)
      /\ Len(Append(q, b)) = Len(q) + 1
      /\ \A i \in 1 .. Len(q) : Append(q, b)[i] = q[i]
      /\ Append(q, b)[Len(q) + 1] = b
  BY AppendProperties, LenProperties
<1>2. \A i \in 1 .. Len(Append(q, b)) : i \in 1 .. Len(q) \/ i = Len(q) + 1
  BY <1>1
<1>3. \A i \in 1 .. Len(Append(q, b)) : Fits(Append(q, b)[i], w, cn)
  BY <1>1, <1>2 DEF Orderly
<1>4. ASSUME NEW i \in 1 .. Len(Append(q, b)), NEW j \in 1 .. Len(Append(q, b)), i # j,
             Append(q, b)[i].kind # "tick", Append(q, b)[j].kind # "tick"
      PROVE  Append(q, b)[i].conn # Append(q, b)[j].conn
  <2>1. CASE i \in 1 .. Len(q) /\ j \in 1 .. Len(q)
    BY <1>1, <1>4, <2>1 DEF Orderly
  <2>2. CASE i = Len(q) + 1 /\ j \in 1 .. Len(q)
    BY <1>1, <1>4, <2>2 DEF Mentions
  <2>3. CASE j = Len(q) + 1 /\ i \in 1 .. Len(q)
    BY <1>1, <1>4, <2>3 DEF Mentions
  <2>. QED
    BY <1>2, <1>4, <2>1, <2>2, <2>3
<1>. QED
  BY <1>1, <1>3, <1>4 DEF Orderly

\* A change of objects that no callback of the queue is about, or that leaves
\* what a callback depends on.
LEMMA OrderlyAs ==
    ASSUME NEW q \in Seq(Callbacks), NEW w, NEW cn, NEW cm, Orderly(q, w, cn),
           \A c \in Conns : \/ cm[c].phase = cn[c].phase /\ cm[c].worker = cn[c].worker
                            \/ ~Mentions(q, c)
    PROVE  Orderly(q, w, cm)
<1>1. \A i \in 1 .. Len(q) : q[i] \in Callbacks
  BY ElementOfSeq
<1>2. ASSUME NEW i \in 1 .. Len(q)
      PROVE  Fits(q[i], w, cm)
  <2>1. CASE q[i].kind = "tick"
    BY <2>1 DEF Fits
  <2>2. CASE q[i].kind # "tick"
    <3>1. Mentions(q, q[i].conn) /\ q[i].conn \in Conns
      BY <1>1, <2>2 DEF Mentions, Callbacks
    <3>. QED
      BY <3>1 DEF Orderly, Fits
  <2>. QED
    BY <2>1, <2>2
<1>. QED
  BY <1>2 DEF Orderly

LEMMA OrderlyElsewhere ==
    ASSUME NEW q \in Seq(Callbacks), NEW w, NEW cn, NEW cm, Orderly(q, w, cn),
           \A c \in Conns : cm[c] = cn[c] \/ ~Mentions(q, c)
    PROVE  Orderly(q, w, cm)
  BY OrderlyAs

LEMMA ConcatOrderly ==
    ASSUME NEW q \in Seq(Callbacks), NEW r \in Seq(Callbacks), NEW w, NEW cn,
           Orderly(q, w, cn), Orderly(r, w, cn),
           \A c \in Conns : ~Mentions(q, c) \/ ~Mentions(r, c)
    PROVE  /\ q \o r \in Seq(Callbacks)
           /\ Orderly(q \o r, w, cn)
<1>. DEFINE s == q \o r
<1>1. /\ s \in Seq(Callbacks) /\ Len(s) = Len(q) + Len(r)
      /\ Len(q) \in Nat /\ Len(r) \in Nat
      /\ \A i \in 1 .. Len(q) + Len(r) :
            s[i] = IF i <= Len(q) THEN q[i] ELSE r[i - Len(q)]
  BY ConcatProperties, LenProperties
<1>. HIDE DEF s
<1>2. ASSUME NEW i \in 1 .. Len(s)
      PROVE  \/ i \in 1 .. Len(q) /\ s[i] = q[i]
             \/ /\ i - Len(q) \in 1 .. Len(r) /\ s[i] = r[i - Len(q)]
                /\ i \notin 1 .. Len(q)
  BY <1>1
<1>3. \A i \in 1 .. Len(s) : Fits(s[i], w, cn) /\ s[i].conn \in Conns
  <2>1. \A i \in 1 .. Len(s) : s[i] \in Callbacks
    BY <1>1, ElementOfSeq
  <2>. QED
    BY <1>2, <2>1 DEF Orderly, Callbacks
<1>4. ASSUME NEW i \in 1 .. Len(s), NEW j \in 1 .. Len(s), i # j,
             s[i].kind # "tick", s[j].kind # "tick"
      PROVE  s[i].conn # s[j].conn
  <2>1. CASE i \in 1 .. Len(q) /\ j \in 1 .. Len(q)
    BY <1>2, <1>4, <2>1 DEF Orderly
  <2>2. CASE i \notin 1 .. Len(q) /\ j \notin 1 .. Len(q)
    <3>1. i - Len(q) # j - Len(q)
      BY <1>1, <1>4
    <3>. QED
      BY <1>2, <1>4, <2>2, <3>1 DEF Orderly
  <2>3. CASE i \in 1 .. Len(q) /\ j \notin 1 .. Len(q)
    BY <1>2, <1>3, <1>4, <2>3 DEF Mentions
  <2>4. CASE j \in 1 .. Len(q) /\ i \notin 1 .. Len(q)
    BY <1>2, <1>3, <1>4, <2>4 DEF Mentions
  <2>. QED
    BY <2>1, <2>2, <2>3, <2>4
<1>5. Orderly(s, w, cn)
  BY <1>3, <1>4 DEF Orderly
<1>. QED
  BY <1>1, <1>5 DEF s

\* A connection that is in no phase of a callback, or another worker's, has none.
LEMMA NotMentioned ==
    ASSUME NEW q \in Seq(Callbacks), NEW w, NEW cn, Orderly(q, w, cn), NEW c \in Conns,
           cn[c].phase \notin {"starting", "read"} \/ cn[c].worker # w
    PROVE  ~Mentions(q, c)
<1>1. \A i \in 1 .. Len(q) : q[i] \in Callbacks
  BY ElementOfSeq
<1>. QED
  BY <1>1 DEF Orderly, Fits, Mentions, Callbacks

-----------------------------------------------------------------------------
(***************************************************************************)
(* The choice of a worker.                                                 *)
(***************************************************************************)
\* By the well-founded inclusion of finite sets, here of the intervals 0 .. x.
LEMMA LeastNat ==
    ASSUME NEW T, T \subseteq Nat, T # {}
    PROVE  \E x \in T : \A y \in T : x <= y
<1>. DEFINE Below == {0 .. x : x \in T}
<1>1. \A x \in T : 0 .. x \in FiniteSubsetsOf(Nat)
  <2>1. \A x \in T : IsFiniteSet(0 .. x)
    BY FS_Interval
  <2>2. \A x \in T : 0 .. x \in SUBSET Nat
    OBVIOUS
  <2>. QED
    BY <2>1, <2>2 DEF FiniteSubsetsOf
<1>2. Below \subseteq FiniteSubsetsOf(Nat) /\ Below # {}
  BY <1>1
<1>3. PICK X \in Below : \A Y \in Below : <<Y, X>> \notin StrictSubsetOrdering(Nat)
  <2>. HIDE DEF Below
  <2>. QED
    BY <1>2, FS_StrictSubsetOrderingWellFounded, WFMin
<1>4. PICK x \in T : X = 0 .. x
  BY <1>3
<1>5. ASSUME NEW y \in T, ~(x <= y)
      PROVE  FALSE
  <2>1. 0 .. y \subseteq 0 .. x /\ x \in 0 .. x /\ x \notin 0 .. y
    BY <1>5
  <2>2. 0 .. y \in SUBSET Nat /\ 0 .. x \in SUBSET Nat /\ 0 .. y # 0 .. x
    BY <2>1
  <2>3. <<0 .. y, X>> \in StrictSubsetOrdering(Nat)
    BY <1>4, <2>1, <2>2 DEF StrictSubsetOrdering
  <2>. QED
    BY <1>3, <1>5, <2>3
<1>. QED
  BY <1>5

LEMMA PickType ==
    pick_io_context_idx \in Workers
<1>1. \A w \in Workers : QueueLength(w) \in Nat
  <2>1. \A S \in SUBSET Conns : Cardinality(S) \in Nat
    BY FS_Subset, FS_CardinalityType, CrowAssumption
  <2>. QED
    BY <2>1 DEF QueueLength
<1>2. Workers \subseteq Nat /\ 1 \in Workers
  BY CrowAssumption DEF Workers
<1>3. PICK m \in {QueueLength(w) : w \in Workers} :
          \A n \in {QueueLength(w) : w \in Workers} : m <= n
  BY <1>1, <1>2, LeastNat
<1>4. PICK w \in {v \in Workers : QueueLength(v) = m} :
          \A v \in {u \in Workers : QueueLength(u) = m} : w <= v
  <2>1. {v \in Workers : QueueLength(v) = m} # {}
    BY <1>3
  <2>. QED
    BY <1>2, <2>1, LeastNat
<1>5. \A v \in Workers : QueueLength(w) <= QueueLength(v)
  BY <1>3, <1>4
<1>6. ASSUME NEW v \in Workers, v < w
      PROVE  QueueLength(w) < QueueLength(v)
  BY <1>1, <1>2, <1>4, <1>5, <1>6
<1>. QED
  BY <1>4, <1>5, <1>6 DEF pick_io_context_idx

-----------------------------------------------------------------------------
(***************************************************************************)
(* The timer of a worker.                                                  *)
(***************************************************************************)
\* Every record of conn has the fields of a Connection.
Object == [phase : Phases, worker : Workers, open : BOOLEAN, task : Nat]
Task == [id : Nat, conn : Conns, left : 0 .. Timeout]

LEMMA Parts ==
    ASSUME CrowInvariant
    PROVE  /\ conn \in [Conns -> Object]
           /\ tasks \in [Workers -> SUBSET Task]
           /\ highest \in [Workers -> Nat]
           /\ queue \in [Workers -> Seq(Callbacks)]
           /\ client \in [Conns -> {"none", "idle", "part", "waiting", "cut", "left"}]
           /\ ran \subseteq Conns /\ next \subseteq Conns
           /\ inbox \in [Conns -> Seq(Pieces)]
           /\ \A w \in Workers : Orderly(queue[w], w, conn) /\ Timely(w)
           /\ \A c \in Conns : Held(c)
  BY DEF CrowInvariant, Typed, TypeOK, Object, Task

\* What becomes of the timer and of the object is right for every worker.
TimerKept ==
    /\ conn' \in [Conns -> Object]
    /\ tasks' \in [Workers -> SUBSET Task]
    /\ highest' \in [Workers -> Nat]
    /\ \A w \in Workers : Timely(w)'

\* A task of worker w for connection c is the one whose id c knows.
LEMMA CancelRemoves ==
    ASSUME CrowInvariant, NEW w \in Workers, NEW c \in Conns
    PROVE  /\ Cancel(tasks[w], conn[c].task) \subseteq tasks[w]
           /\ \A t \in Cancel(tasks[w], conn[c].task) : t.conn # c
  BY Parts DEF Timely, Cancel

\* Tasks of other workers are not about c.
LEMMA TasksElsewhere ==
    ASSUME CrowInvariant, NEW v \in Workers, NEW c \in Conns,
           conn[c].worker # v \/ conn[c].phase \notin {"reading", "read"}
    PROVE  \A t \in tasks[v] : t.conn # c
  BY Parts DEF Timely

LEMMA ReadNextKeeps ==
    ASSUME CrowInvariant, NEW w \in Workers, NEW c \in Conns,
           conn[c].worker = w, conn[c].open, ReadNext(w, c)
    PROVE  /\ TimerKept
           /\ conn'[c].phase = "reading" /\ conn'[c].worker = w
           /\ \A d \in Conns \ {c} : conn'[d] = conn[d]
<1>. DEFINE id == highest[w] + 1
            rest == Cancel(tasks[w], conn[c].task)
            new == [id |-> id, conn |-> c, left |-> Timeout]
<1>1. id \in Nat /\ new \in Task /\ highest[w] < id
  BY Parts, CrowAssumption DEF Task
<1>2. rest \subseteq tasks[w] /\ \A t \in rest : t.conn # c
  BY CancelRemoves
<1>3. \A t \in rest : t.id <= highest[w] /\ t.id \in Nat
  BY <1>2, Parts DEF Timely, Task
<1>4. Insert(rest, new) = rest \cup {new}
  <2>1. \A t \in rest : t.id # new.id
    BY <1>1, <1>3, Parts
  <2>. QED
    BY <2>1 DEF Insert
<1>5. /\ tasks' = [tasks EXCEPT ![w] = rest \cup {new}]
      /\ highest' = [highest EXCEPT ![w] = id]
      /\ conn' = [conn EXCEPT ![c].task = id, ![c].phase = "reading"]
  BY <1>4 DEF ReadNext
<1>6. /\ tasks'[w] = rest \cup {new}
      /\ highest'[w] = id
      /\ conn'[c] = [conn[c] EXCEPT !.task = id, !.phase = "reading"]
      /\ \A v \in Workers \ {w} : tasks'[v] = tasks[v] /\ highest'[v] = highest[v]
      /\ \A d \in Conns \ {c} : conn'[d] = conn[d]
  BY <1>5, Parts
<1>7. /\ conn'[c].phase = "reading" /\ conn'[c].worker = w
      /\ conn'[c].open /\ conn'[c].task = id
  BY <1>6, Parts DEF Object
<1>8. /\ conn' \in [Conns -> Object]
      /\ tasks' \in [Workers -> SUBSET Task]
      /\ highest' \in [Workers -> Nat]
  <2>1. [conn[c] EXCEPT !.task = id, !.phase = "reading"] \in Object
    BY <1>1, Parts DEF Object, Phases
  <2>2. rest \cup {new} \in SUBSET Task
    BY <1>1, <1>2, Parts
  <2>. HIDE DEF rest, new, id
  <2>. QED
    BY <1>1, <1>5, <2>1, <2>2, Parts
<1>9. Timely(w)'
  <2>. HIDE DEF rest
  <2>1. \A t \in rest : t \in tasks[w] /\ conn'[t.conn] = conn[t.conn] /\ t.id <= id
    BY <1>1, <1>2, <1>3, <1>6, Parts DEF Task
  <2>2. new.conn = c /\ new.id = id
    OBVIOUS
  <2>3. \A t \in rest : t.conn # new.conn
    BY <1>2, <2>2
  <2>4. \A t \in tasks[w] : /\ conn[t.conn].worker = w
                            /\ conn[t.conn].phase \in {"reading", "read"}
                            /\ conn[t.conn].open
                            /\ conn[t.conn].task = t.id
    BY Parts DEF Timely
  <2>5. \A t, u \in tasks[w] : t.conn = u.conn => t = u
    BY Parts DEF Timely
  <2>. HIDE DEF new, id
  <2>6. \A t \in rest \cup {new} : /\ conn'[t.conn].worker = w
                                  /\ conn'[t.conn].phase \in {"reading", "read"}
                                  /\ conn'[t.conn].open
                                  /\ conn'[t.conn].task = t.id
                                  /\ t.id <= id
    <3>1. ASSUME NEW t \in rest
          PROVE  /\ conn'[t.conn].worker = w
                 /\ conn'[t.conn].phase \in {"reading", "read"}
                 /\ conn'[t.conn].open
                 /\ conn'[t.conn].task = t.id
                 /\ t.id <= id
      BY <2>1, <2>4
    <3>2. id <= id
      BY <1>1
    <3>. QED
      BY <1>7, <2>2, <3>1, <3>2
  <2>7. \A t, u \in rest \cup {new} : t.conn = u.conn => t = u
    BY <2>1, <2>3, <2>5
  <2>. QED
    BY <1>6, <2>6, <2>7 DEF Timely
<1>10. ASSUME NEW v \in Workers \ {w}
       PROVE  Timely(v)'
  <2>1. \A t \in tasks[v] : t.conn # c /\ t.conn \in Conns
    BY TasksElsewhere, Parts DEF Task
  <2>. QED
    BY <1>6, <2>1, Parts DEF Timely
<1>. QED
  BY <1>6, <1>7, <1>8, <1>9, <1>10 DEF TimerKept

\* A connection's deadline is cancelled: what becomes of the object then is no
\* matter of the timer.
LEMMA CancelKeeps ==
    ASSUME CrowInvariant, NEW w \in Workers, NEW c \in Conns,
           conn[c].worker = w, CancelDeadline(w, c),
           NEW o \in Object, conn' = [conn EXCEPT ![c] = o]
    PROVE  TimerKept
<1>1. /\ tasks' = [tasks EXCEPT ![w] = Cancel(tasks[w], conn[c].task)]
      /\ highest' = highest
  BY DEF CancelDeadline
<1>2. /\ Cancel(tasks[w], conn[c].task) \subseteq tasks[w]
      /\ \A t \in Cancel(tasks[w], conn[c].task) : t.conn # c
  BY CancelRemoves
<1>3. /\ tasks'[w] \subseteq tasks[w] /\ \A t \in tasks'[w] : t.conn # c
      /\ \A v \in Workers \ {w} : tasks'[v] = tasks[v]
      /\ \A d \in Conns \ {c} : conn'[d] = conn[d]
      /\ conn' \in [Conns -> Object] /\ tasks' \in [Workers -> SUBSET Task]
  BY <1>1, <1>2, Parts
<1>4. ASSUME NEW v \in Workers
      PROVE  Timely(v)'
  <2>1. \A t \in tasks'[v] : t.conn \in Conns \ {c} /\ t \in tasks[v]
    <3>1. CASE v = w
      BY <1>3, <3>1, Parts DEF Task
    <3>2. CASE v # w
      BY <1>3, <3>2, TasksElsewhere, Parts DEF Task
    <3>. QED
      BY <3>1, <3>2
  <2>. QED
    BY <1>1, <1>3, <2>1, Parts DEF Timely
<1>. QED
  BY <1>1, <1>3, <1>4, Parts DEF TimerKept

\* A step that leaves the timers alone, and the objects that have a deadline.
LEMMA TimerLeft ==
    ASSUME CrowInvariant, UNCHANGED <<tasks, highest>>, conn' \in [Conns -> Object],
           \A c \in Conns : \/ conn'[c] = conn[c]
                            \/ conn[c].phase \notin {"reading", "read"}
                            \/ conn'[c] = [conn[c] EXCEPT !.phase = "read"]
    PROVE  TimerKept
<1>1. ASSUME NEW v \in Workers
      PROVE  Timely(v)'
  <2>1. ASSUME NEW t \in tasks[v]
        PROVE  /\ conn'[t.conn].worker = conn[t.conn].worker
               /\ conn'[t.conn].phase \in {"reading", "read"}
               /\ conn'[t.conn].open = conn[t.conn].open
               /\ conn'[t.conn].task = conn[t.conn].task
    <3>1. t.conn \in Conns /\ conn[t.conn] \in Object
          /\ conn[t.conn].phase \in {"reading", "read"}
      BY Parts DEF Timely, Task
    <3>. QED
      BY <3>1 DEF Object
  <2>2. tasks'[v] = tasks[v] /\ highest'[v] = highest[v]
    OBVIOUS
  <2>3. /\ \A t \in tasks[v] : /\ conn[t.conn].worker = v
                               /\ conn[t.conn].open
                               /\ conn[t.conn].task = t.id
                               /\ t.id <= highest[v]
        /\ \A t, u \in tasks[v] : t.conn = u.conn => t = u
    BY Parts DEF Timely
  <2>4. \A t \in tasks'[v] : /\ conn'[t.conn].worker = v
                            /\ conn'[t.conn].phase \in {"reading", "read"}
                            /\ conn'[t.conn].open
                            /\ conn'[t.conn].task = t.id
                            /\ t.id <= highest'[v]
    BY <2>1, <2>2, <2>3
  <2>. QED
    BY <2>2, <2>3, <2>4 DEF Timely
<1>. QED
  BY <1>1, Parts DEF TimerKept

-----------------------------------------------------------------------------
(***************************************************************************)
(* The queues of the workers.                                              *)
(***************************************************************************)
QueuesKept ==
    /\ queue' \in [Workers -> Seq(Callbacks)]
    /\ \A w \in Workers : Orderly(queue[w], w, conn)'

\* What the callback that is run finds, and what it leaves in the queues.
LEMMA Taking ==
    ASSUME CrowInvariant, NEW w \in Workers, NEW kind \in {"start", "read"},
           Ready(w, kind), Taken(w),
           \A d \in Conns \ {Head(queue[w]).conn} : conn'[d] = conn[d]
    PROVE  QueuesKept
<1>. DEFINE c == Head(queue[w]).conn
<1>1. queue[w] \in Seq(Callbacks) /\ queue[w] # <<>> /\ Orderly(queue[w], w, conn)
  BY Parts DEF Ready
<1>2. /\ Tail(queue[w]) \in Seq(Callbacks)
      /\ Orderly(Tail(queue[w]), w, conn)
      /\ Head(queue[w]) \in Callbacks
      /\ Fits(Head(queue[w]), w, conn)
      /\ Head(queue[w]).kind # "tick" => ~Mentions(Tail(queue[w]), c)
  BY <1>1, TailOrderly
<1>3. c \in Conns /\ Head(queue[w]).kind \in {"start", "read"}
  BY <1>2 DEF Callbacks, Ready
<1>4. conn[c].worker = w
  BY <1>2, <1>3 DEF Fits
<1>5. /\ queue'[w] = Tail(queue[w])
      /\ \A v \in Workers \ {w} : queue'[v] = queue[v]
      /\ queue' \in [Workers -> Seq(Callbacks)]
  BY <1>2, Parts DEF Taken
<1>6. ASSUME NEW v \in Workers
      PROVE  Orderly(queue'[v], v, conn')
  <2>1. CASE v = w
    <3>1. \A d \in Conns : conn'[d] = conn[d] \/ ~Mentions(Tail(queue[w]), d)
      BY <1>2, <1>3
    <3>. QED
      BY <1>2, <1>5, <2>1, <3>1, OrderlyElsewhere
  <2>2. CASE v # w
    <3>1. queue[v] \in Seq(Callbacks) /\ Orderly(queue[v], v, conn)
      BY Parts
    <3>2. ~Mentions(queue[v], c)
      BY <1>3, <1>4, <2>2, <3>1, NotMentioned
    <3>3. \A d \in Conns : conn'[d] = conn[d] \/ ~Mentions(queue[v], d)
      BY <3>2
    <3>. QED
      BY <1>5, <2>2, <3>1, <3>3, OrderlyElsewhere
  <2>. QED
    BY <2>1, <2>2
<1>. QED
  BY <1>5, <1>6 DEF QueuesKept

LEMMA Runs ==
    ASSUME CrowInvariant, NEW w \in Workers, NEW kind \in {"start", "read"},
           Ready(w, kind)
    PROVE  /\ Head(queue[w]).conn \in Conns
           /\ conn[Head(queue[w]).conn].worker = w
           /\ conn[Head(queue[w]).conn].phase = IF kind = "start" THEN "starting" ELSE "read"
<1>1. queue[w] \in Seq(Callbacks) /\ queue[w] # <<>> /\ Orderly(queue[w], w, conn)
  BY Parts DEF Ready
<1>2. Head(queue[w]) \in Callbacks /\ Fits(Head(queue[w]), w, conn)
  BY <1>1, TailOrderly
<1>. QED
  BY <1>2 DEF Callbacks, Fits, Ready

\* Objects that wait for no callback may change.
LEMMA QueueLeft ==
    ASSUME CrowInvariant,
           \A d \in Conns : conn'[d] = conn[d] \/ conn[d].phase \notin {"starting", "read"},
           NEW v \in Workers
    PROVE  Orderly(queue[v], v, conn')
<1>1. queue[v] \in Seq(Callbacks) /\ Orderly(queue[v], v, conn)
  BY Parts
<1>2. \A d \in Conns : conn'[d] = conn[d] \/ ~Mentions(queue[v], d)
  BY <1>1, NotMentioned
<1>. QED
  BY <1>1, <1>2, OrderlyElsewhere

LEMMA Adding ==
    ASSUME CrowInvariant, NEW c \in Conns, NEW b \in Callbacks, b.conn = c,
           conn[c].phase \notin {"starting", "read"},
           Fits(b, conn[c].worker, conn'),
           queue' = [queue EXCEPT ![conn[c].worker] = Append(@, b)],
           \A d \in Conns : conn'[d] = conn[d] \/ conn[d].phase \notin {"starting", "read"}
    PROVE  QueuesKept
<1>1. PICK w \in Workers : w = conn[c].worker
  BY Parts DEF Object
<1>2. queue[w] \in Seq(Callbacks) /\ Orderly(queue[w], w, conn) /\ Orderly(queue[w], w, conn')
  BY <1>1, Parts, QueueLeft
<1>3. ~Mentions(queue[w], b.conn)
  BY <1>2, NotMentioned
<1>4. /\ Append(queue[w], b) \in Seq(Callbacks)
      /\ Orderly(Append(queue[w], b), w, conn')
  <2>1. Fits(b, w, conn')
    BY <1>1
  <2>. QED
    BY <1>2, <1>3, <2>1, AppendOrderly
<1>5. /\ queue'[w] = Append(queue[w], b)
      /\ \A v \in Workers \ {w} : queue'[v] = queue[v]
      /\ queue' \in [Workers -> Seq(Callbacks)]
  BY <1>1, <1>4, Parts
<1>6. ASSUME NEW v \in Workers
      PROVE  Orderly(queue'[v], v, conn')
  <2>1. CASE v = w
    BY <1>4, <1>5, <2>1
  <2>2. CASE v # w
    BY <1>5, <2>2, QueueLeft
  <2>. QED
    BY <2>1, <2>2
<1>. QED
  BY <1>5, <1>6 DEF QueuesKept

-----------------------------------------------------------------------------
(***************************************************************************)
(* The steps.                                                              *)
(***************************************************************************)
Clients == {"none", "idle", "part", "waiting", "cut", "left"}

\* What is left to show of a step when its timers and queues are right.
LEMMA Assembled ==
    ASSUME TimerKept, QueuesKept, serving' \in BOOLEAN, next' \subseteq Conns,
           client' \in [Conns -> Clients], ran' \subseteq Conns,
           inbox' \in [Conns -> Seq(Pieces)], \A c \in Conns : Held(c)'
    PROVE  CrowInvariant'
  BY DEF TimerKept, QueuesKept, CrowInvariant, Typed, TypeOK, Object, Task, Clients

LEMMA HeldElsewhere ==
    ASSUME CrowInvariant, NEW c \in Conns, conn'[c] = conn[c], client'[c] = client[c],
           c \in next' => c \in next, c \in ran' => c \in ran
    PROVE  Held(c)'
  BY Parts DEF Held

LEMMA StartKeeps ==
    ASSUME CrowInvariant, NEW w \in Workers, Start(w)
    PROVE  CrowInvariant'
<1>1. PICK c \in Conns : /\ c = Head(queue[w]).conn
                         /\ conn[c].worker = w /\ conn[c].phase = "starting"
  BY Runs DEF Start
<1>2. /\ ReadNext(w, c) /\ conn[c].open
      /\ UNCHANGED <<serving, next, client, inbox, ran>>
  BY <1>1, Parts DEF Start, Held
<1>3. /\ TimerKept
      /\ conn'[c].phase = "reading"
      /\ \A d \in Conns \ {c} : conn'[d] = conn[d]
  BY <1>1, <1>2, ReadNextKeeps
<1>4. QueuesKept
  BY <1>1, <1>3, Taking DEF Start
<1>5. Held(c)'
  BY <1>1, <1>2, <1>3, Parts DEF Held
<1>6. \A d \in Conns \ {c} : Held(d)'
  BY <1>2, <1>3, HeldElsewhere
<1>. QED
  BY <1>2, <1>3, <1>4, <1>5, <1>6, Assembled, Parts DEF Clients, CrowInvariant, Typed, TypeOK

\* The outcomes of a read: what they make of the object and of its client.
LEMMA ReadKeeps ==
    ASSUME CrowInvariant, NEW w \in Workers, Read(w)
    PROVE  CrowInvariant'
<1>. DEFINE piece == Head(queue[w]).piece
<1>1. PICK c \in Conns : /\ c = Head(queue[w]).conn /\ conn[c] \in Object
                         /\ conn[c].worker = w /\ conn[c].phase = "read"
  BY Runs, Parts DEF Read
<1>2. UNCHANGED <<serving, next>> /\ Ready(w, "read") /\ Taken(w)
  BY DEF Read
<1>3. c \notin next /\ c \notin ran /\ client[c] # "cut"
  BY <1>1, Parts DEF Held
<1>4. Gone \in Object
  BY CrowAssumption DEF Gone, Object, Phases, Workers
<1>5. SUFFICES /\ TimerKept
               /\ client' \in [Conns -> Clients] /\ inbox' \in [Conns -> Seq(Pieces)]
               /\ \A d \in Conns \ {c} : conn'[d] = conn[d] /\ client'[d] = client[d]
               /\ ran' \in SUBSET (ran \cup {c})
               /\ Held(c)'
  <2>1. QueuesKept
    BY <1>1, <1>2, <1>5, Taking
  <2>2. \A d \in Conns \ {c} : Held(d)'
    BY <1>2, <1>5, HeldElsewhere
  <2>. QED
    BY <1>1, <1>2, <1>5, <2>1, <2>2, Assembled, Parts DEF CrowInvariant, Typed, TypeOK
<1>6. CASE ReadError(w, c, piece)
  <2>1. CancelDeadline(w, c) /\ Destroy(c) /\ ran' = ran
    BY <1>6 DEF ReadError
  <2>2. TimerKept
    BY <1>1, <1>4, <2>1, CancelKeeps DEF Destroy
  <2>3. /\ conn'[c] = Gone /\ client'[c] \in {"cut", "none"}
        /\ client' \in [Conns -> Clients]
        /\ \A d \in Conns \ {c} : conn'[d] = conn[d] /\ client'[d] = client[d]
    BY <1>1, <2>1, Parts DEF Destroy, Clients
  <2>4. inbox' \in [Conns -> Seq(Pieces)]
    <3>1. <<>> \in Seq(Pieces)
      BY EmptySeq
    <3>. QED
      BY <1>1, <2>1, <3>1, Parts DEF Destroy
  <2>5. Held(c)'
    BY <1>2, <1>3, <2>1, <2>3 DEF Held, Gone
  <2>. QED
    BY <2>1, <2>2, <2>3, <2>4, <2>5
<1>7. CASE ReadPart(w, c, piece)
  <2>1. /\ conn[c].open /\ ReadNext(w, c)
        /\ UNCHANGED <<client, inbox, ran>>
    BY <1>7 DEF ReadPart
  <2>2. /\ TimerKept /\ conn'[c].phase = "reading"
        /\ \A d \in Conns \ {c} : conn'[d] = conn[d]
    BY <1>1, <2>1, ReadNextKeeps
  <2>3. Held(c)'
    BY <1>2, <1>3, <2>1, <2>2 DEF Held
  <2>. QED
    BY <2>1, <2>2, <2>3, Parts DEF Clients
<1>8. CASE HandleAnswered(w, c, piece)
  <2>1. /\ conn[c].open /\ ReadNext(w, c)
        /\ client' = [client EXCEPT ![c] = IF @ = "left" THEN @ ELSE "idle"]
        /\ UNCHANGED <<inbox, ran>>
    BY <1>8 DEF HandleAnswered
  <2>2. /\ TimerKept /\ conn'[c].phase = "reading"
        /\ \A d \in Conns \ {c} : conn'[d] = conn[d]
    BY <1>1, <2>1, ReadNextKeeps
  <2>3. /\ client'[c] \in {"left", "idle"} /\ client' \in [Conns -> Clients]
        /\ \A d \in Conns \ {c} : client'[d] = client[d]
    BY <1>1, <2>1, Parts DEF Clients
  <2>4. Held(c)'
    BY <1>2, <1>3, <2>1, <2>2, <2>3 DEF Held
  <2>. QED
    BY <2>1, <2>2, <2>3, <2>4, Parts
<1>9. CASE HandleLast(w, c, piece)
  <2>1. /\ CancelDeadline(w, c) /\ conn' = [conn EXCEPT ![c] = Gone]
        /\ inbox' = [inbox EXCEPT ![c] = <<>>]
        /\ client' = [client EXCEPT ![c] = "none"]
        /\ ran' = ran
    BY <1>9 DEF HandleLast
  <2>2. TimerKept
    BY <1>1, <1>4, <2>1, CancelKeeps
  <2>3. /\ conn'[c] = Gone /\ client'[c] = "none"
        /\ client' \in [Conns -> Clients]
        /\ \A d \in Conns \ {c} : conn'[d] = conn[d] /\ client'[d] = client[d]
    BY <1>1, <2>1, Parts DEF Clients
  <2>4. inbox' \in [Conns -> Seq(Pieces)]
    <3>1. <<>> \in Seq(Pieces)
      BY EmptySeq
    <3>. QED
      BY <1>1, <2>1, <3>1, Parts
  <2>5. Held(c)'
    BY <1>2, <1>3, <2>1, <2>3 DEF Held, Gone
  <2>. QED
    BY <2>1, <2>2, <2>3, <2>4, <2>5
<1>10. CASE HandleHanging(w, c, piece)
  <2>1. /\ conn[c].open /\ CancelDeadline(w, c)
        /\ conn' = [conn EXCEPT ![c].phase = "hung"]
        /\ ran' = ran \cup {c}
        /\ UNCHANGED <<client, inbox>>
    BY <1>10 DEF HandleHanging
  <2>. DEFINE o == [conn[c] EXCEPT !.phase = "hung"]
  <2>2. o \in Object /\ conn' = [conn EXCEPT ![c] = o] /\ o.phase = "hung" /\ o.open
    BY <1>1, <2>1 DEF Object, Phases
  <2>. HIDE DEF o
  <2>3. TimerKept
    BY <1>1, <2>1, <2>2, CancelKeeps
  <2>4. conn'[c] = o /\ \A d \in Conns \ {c} : conn'[d] = conn[d]
    BY <1>1, <2>2, Parts
  <2>5. Held(c)'
    BY <1>2, <1>3, <2>1, <2>2, <2>4 DEF Held
  <2>. QED
    BY <2>1, <2>3, <2>4, <2>5, Parts DEF Clients
<1>. QED
  BY <1>1, <1>6, <1>7, <1>8, <1>9, <1>10 DEF Read

LEMMA WaitingType ==
    Waiting \in Object /\ Waiting.phase = "accepting" /\ Waiting.open
  BY PickType DEF Waiting, Gone, Object, Phases

LEMMA AcceptKeeps ==
    ASSUME CrowInvariant, NEW c \in Conns, Accept(c)
    PROVE  CrowInvariant'
<1>. DEFINE started == [conn[c] EXCEPT !.phase = "starting"]
            b == Callback("start", c, "none")
<1>1. /\ conn[c] \in Object /\ conn[c].phase = "accepting" /\ conn[c].open
      /\ c \notin ran /\ next = {c}
  BY Parts DEF Accept, Held
<1>2. /\ queue' = [queue EXCEPT ![conn[c].worker] = Append(@, b)]
      /\ client' = [client EXCEPT ![c] = "idle"]
      /\ UNCHANGED <<serving, tasks, highest, inbox, ran>>
  BY DEF Accept
<1>3. /\ started \in Object /\ started.phase = "starting" /\ started.open
      /\ started.worker = conn[c].worker
  BY <1>1 DEF Object, Phases
<1>4. b \in Callbacks /\ b.kind = "start" /\ b.conn = c
  BY DEF Callback, Callbacks, Pieces
<1>. HIDE DEF b, started
<1>5. /\ next' \subseteq Conns /\ c \notin next'
      /\ conn' \in [Conns -> Object] /\ conn'[c] = started
      /\ \A d \in Conns \ {c} : \/ conn'[d] = conn[d] /\ d \notin next'
                                \/ conn'[d] = Waiting /\ d \in Unused
  <2>1. CASE \E d \in Unused :
               /\ next' = {d}
               /\ conn' = [conn EXCEPT ![c].phase = "starting", ![d] = Waiting]
    <3>1. PICK d \in Unused :
             /\ next' = {d}
             /\ conn' = [conn EXCEPT ![c].phase = "starting", ![d] = Waiting]
      BY <2>1
    <3>2. d \in Conns /\ d # c
      BY <1>1 DEF Unused
    <3>3. conn' = [conn EXCEPT ![c] = started, ![d] = Waiting]
      BY <3>1 DEF started
    <3>4. /\ conn'[c] = started /\ conn'[d] = Waiting
          /\ \A e \in Conns \ {c, d} : conn'[e] = conn[e]
          /\ conn' \in [Conns -> Object]
      BY <1>3, <3>2, <3>3, WaitingType, Parts
    <3>. QED
      BY <3>1, <3>2, <3>4
  <2>2. CASE next' = {} /\ conn' = [conn EXCEPT ![c].phase = "starting"]
    <3>1. conn' = [conn EXCEPT ![c] = started]
      BY <2>2 DEF started
    <3>. QED
      BY <1>3, <2>2, <3>1, Parts
  <2>. QED
    BY <2>1, <2>2 DEF Accept
<1>6. \A d \in Conns : conn'[d] = conn[d] \/ conn[d].phase \in {"accepting", "gone"}
  BY <1>1, <1>5 DEF Unused
<1>7. TimerKept
  BY <1>2, <1>5, <1>6, TimerLeft
<1>8. QueuesKept
  <2>1. Fits(b, conn[c].worker, conn')
    BY <1>3, <1>4, <1>5 DEF Fits
  <2>. QED
    BY <1>1, <1>2, <1>4, <1>6, <2>1, Adding
<1>9. client' \in [Conns -> Clients] /\ client'[c] = "idle"
      /\ \A d \in Conns \ {c} : client'[d] = client[d]
  BY <1>2, Parts DEF Clients
<1>10. Held(c)'
  BY <1>1, <1>2, <1>3, <1>5, <1>9 DEF Held
<1>11. ASSUME NEW d \in Conns \ {c}
       PROVE  Held(d)'
  <2>1. CASE conn'[d] = conn[d] /\ d \notin next'
    BY <1>2, <1>9, <2>1, HeldElsewhere
  <2>2. CASE conn'[d] = Waiting /\ d \in Unused
    BY <1>2, <1>9, <2>2, WaitingType, Parts DEF Held, Unused
  <2>. QED
    BY <1>5, <2>1, <2>2
<1>. QED
  BY <1>2, <1>5, <1>7, <1>8, <1>9, <1>10, <1>11, Assembled, Parts
  DEF CrowInvariant, Typed, TypeOK

LEMMA AcceptAgainKeeps ==
    ASSUME CrowInvariant, NEW d \in Conns, AcceptAgain(d)
    PROVE  CrowInvariant'
<1>1. /\ next' = {d} /\ d \in Unused
      /\ conn' = [conn EXCEPT ![d] = Waiting]
      /\ UNCHANGED <<serving, queue, tasks, highest, client, inbox, ran>>
  BY DEF AcceptAgain
<1>2. /\ conn' \in [Conns -> Object] /\ conn'[d] = Waiting
      /\ \A e \in Conns \ {d} : conn'[e] = conn[e]
  BY <1>1, WaitingType, Parts
<1>3. \A e \in Conns : conn'[e] = conn[e] \/ conn[e].phase = "gone"
  BY <1>1, <1>2 DEF Unused
<1>4. TimerKept
  BY <1>1, <1>2, <1>3, TimerLeft
<1>5. QueuesKept
  BY <1>1, <1>3, QueueLeft, Parts DEF QueuesKept
<1>6. \A e \in Conns \ {d} : Held(e)'
  BY <1>1, <1>2, HeldElsewhere
<1>7. Held(d)'
  BY <1>1, <1>2, WaitingType, Parts DEF Held, Unused
<1>. QED
  BY <1>1, <1>4, <1>5, <1>6, <1>7, Assembled, Parts
  DEF Clients, CrowInvariant, Typed, TypeOK

LEMMA DeliverKeeps ==
    ASSUME CrowInvariant, NEW c \in Conns, Deliver(c)
    PROVE  CrowInvariant'
<1>. DEFINE b == Callback("read", c, Head(inbox[c]))
            complete == [conn[c] EXCEPT !.phase = "read"]
<1>1. /\ conn[c].phase = "reading" /\ inbox[c] # <<>> /\ conn[c] \in Object
      /\ queue' = [queue EXCEPT ![conn[c].worker] = Append(@, b)]
      /\ inbox' = [inbox EXCEPT ![c] = Tail(@)]
      /\ conn' = [conn EXCEPT ![c] = complete]
      /\ UNCHANGED <<serving, next, tasks, highest, client, ran>>
  BY Parts DEF Deliver
<1>2. inbox[c] \in Seq(Pieces) /\ Head(inbox[c]) \in Pieces /\ Tail(inbox[c]) \in Seq(Pieces)
  BY <1>1, HeadTailProperties, Parts
<1>3. b \in Callbacks /\ b.kind = "read" /\ b.conn = c
  BY <1>2 DEF Callback, Callbacks
<1>4. /\ complete \in Object /\ complete.phase = "read"
      /\ complete.worker = conn[c].worker
  BY <1>1 DEF Object, Phases
<1>5. /\ conn' \in [Conns -> Object] /\ conn'[c] = complete
      /\ \A d \in Conns \ {c} : conn'[d] = conn[d]
  <2>. HIDE DEF complete
  <2>. QED
    BY <1>1, <1>4, Parts
<1>6. TimerKept
  BY <1>1, <1>5, TimerLeft
<1>7. QueuesKept
  <2>. HIDE DEF b, complete
  <2>1. Fits(b, conn[c].worker, conn')
    BY <1>3, <1>4, <1>5 DEF Fits
  <2>. QED
    BY <1>1, <1>3, <1>5, <2>1, Adding
<1>8. Held(c)'
  <2>. HIDE DEF complete
  <2>. QED
    BY <1>1, <1>4, <1>5, Parts DEF Held
<1>9. \A d \in Conns \ {c} : Held(d)'
  BY <1>1, <1>5, HeldElsewhere
<1>10. inbox' \in [Conns -> Seq(Pieces)]
  BY <1>1, <1>2, Parts
<1>. QED
  BY <1>1, <1>6, <1>7, <1>8, <1>9, <1>10, Assembled, Parts
  DEF Clients, CrowInvariant, Typed, TypeOK

\* The client and its network: nothing the server has changes.
LEMMA ClientKeeps ==
    ASSUME CrowInvariant, NEW c \in Conns,
           UNCHANGED <<serving, next, conn, queue, tasks, highest>>,
           inbox' \in [Conns -> Seq(Pieces)],
           client' \in [Conns -> Clients],
           \A d \in Conns : client'[d] = client[d] \/ client'[d] # "cut",
           ran' \subseteq ran
    PROVE  CrowInvariant'
<1>1. TimerKept
  BY TimerLeft, Parts
<1>2. QueuesKept
  BY QueueLeft, Parts DEF QueuesKept
<1>3. \A d \in Conns : Held(d)'
  BY Parts DEF Held
<1>. QED
  BY <1>1, <1>2, <1>3, Assembled, Parts DEF CrowInvariant, Typed, TypeOK

LEMMA SendKeeps ==
    ASSUME CrowInvariant, NEW c \in Conns, NEW piece \in Requests, Send(c, piece)
    PROVE  CrowInvariant'
<1>1. piece \in Pieces
  BY CrowAssumption DEF Pieces
<1>2. Append(inbox[c], piece) \in Seq(Pieces)
  BY <1>1, AppendProperties, Parts
<1>3. inbox' \in [Conns -> Seq(Pieces)]
  BY <1>2, Parts DEF Send
<1>4. /\ client' \in [Conns -> Clients]
      /\ \A d \in Conns : client'[d] = client[d] \/ client'[d] # "cut"
  BY Parts DEF Send, Clients
<1>. QED
  BY <1>3, <1>4, ClientKeeps DEF Send

LEMMA LeaveKeeps ==
    ASSUME CrowInvariant, NEW c \in Conns, Leave(c)
    PROVE  CrowInvariant'
<1>1. Append(inbox[c], "eof") \in Seq(Pieces)
  BY AppendProperties, Parts DEF Pieces
<1>2. inbox' \in [Conns -> Seq(Pieces)]
  BY <1>1, Parts DEF Leave
<1>3. /\ client' \in [Conns -> Clients]
      /\ \A d \in Conns : client'[d] = client[d] \/ client'[d] # "cut"
  BY Parts DEF Leave, Clients
<1>. QED
  BY <1>2, <1>3, ClientKeeps DEF Leave

LEMMA NoticeKeeps ==
    ASSUME CrowInvariant, NEW c \in Conns, Notice(c)
    PROVE  CrowInvariant'
<1>1. /\ client' \in [Conns -> Clients]
      /\ \A d \in Conns : client'[d] = client[d] \/ client'[d] # "cut"
  BY Parts DEF Notice, Clients
<1>. QED
  BY <1>1, ClientKeeps, Parts DEF Notice

LEMMA StopKeeps ==
    ASSUME CrowInvariant, Stop
    PROVE  CrowInvariant'
<1>1. TimerKept
  BY TimerLeft, Parts DEF Stop
<1>2. QueuesKept
  BY QueueLeft, Parts DEF QueuesKept, Stop
<1>3. \A d \in Conns : Held(d)'
  BY Parts DEF Held, Stop
<1>. QED
  BY <1>1, <1>2, <1>3, Assembled, Parts DEF Stop, Clients, CrowInvariant, Typed, TypeOK

LEMMA SecondKeeps ==
    ASSUME CrowInvariant, Second
    PROVE  CrowInvariant'
<1>1. /\ UNCHANGED <<serving, next, conn, highest, client, inbox, ran>>
      /\ queue' = [w \in Workers |->
                      IF Ticking(w) THEN queue[w] ELSE Append(queue[w], TickOf(w))]
  BY DEF Second
<1>2. ASSUME NEW w \in Workers
      PROVE  \A u \in tasks'[w] : \E t \in tasks[w] :
                u = [t EXCEPT !.left = IF @ = 0 THEN 0 ELSE @ - 1]
  BY <1>2 DEF Second
<1>3. ASSUME NEW w \in Workers
      PROVE  \A u \in tasks'[w] :
                /\ u \in Task
                /\ \E t \in tasks[w] : /\ t.id = u.id /\ t.conn = u.conn
                                       /\ u = [t EXCEPT !.left = IF @ = 0 THEN 0 ELSE @ - 1]
  <2>1. ASSUME NEW t \in tasks[w],
               NEW u, u = [t EXCEPT !.left = IF @ = 0 THEN 0 ELSE @ - 1]
        PROVE  u \in Task /\ u.id = t.id /\ u.conn = t.conn
    <3>1. t \in Task
      BY Parts
    <3>2. (IF t.left = 0 THEN 0 ELSE t.left - 1) \in 0 .. Timeout
      BY <3>1, CrowAssumption DEF Task
    <3>. QED
      BY <2>1, <3>1, <3>2 DEF Task
  <2>2. ASSUME NEW u \in tasks'[w]
        PROVE  /\ u \in Task
               /\ \E t \in tasks[w] : /\ t.id = u.id /\ t.conn = u.conn
                                      /\ u = [t EXCEPT !.left = IF @ = 0 THEN 0 ELSE @ - 1]
    <3>1. PICK t \in tasks[w] : u = [t EXCEPT !.left = IF @ = 0 THEN 0 ELSE @ - 1]
      BY <1>2
    <3>. QED
      BY <2>1, <3>1
  <2>. QED
    BY <2>2
<1>4. TimerKept
  <2>1. tasks' \in [Workers -> SUBSET Task]
    <3>1. /\ DOMAIN tasks' = Workers
          /\ tasks' = [w \in Workers |-> tasks'[w]]
      BY DEF Second
    <3>2. \A w \in Workers : tasks'[w] \in SUBSET Task
      BY <1>3
    <3>. QED
      BY <3>1, <3>2
  <2>2. ASSUME NEW w \in Workers
        PROVE  Timely(w)'
    <3>1. \A t, u \in tasks'[w] : t.conn = u.conn => t = u
      <4>1. \A t, u \in tasks[w] : t.conn = u.conn => t = u
        BY Parts DEF Timely
      <4>. QED
        BY <1>3, <4>1
    <3>2. \A t \in tasks[w] : /\ conn[t.conn].worker = w
                              /\ conn[t.conn].phase \in {"reading", "read"}
                              /\ conn[t.conn].open
                              /\ conn[t.conn].task = t.id
                              /\ t.id <= highest[w]
      BY Parts DEF Timely
    <3>3. ASSUME NEW u \in tasks'[w]
          PROVE  /\ conn'[u.conn].worker = w
                 /\ conn'[u.conn].phase \in {"reading", "read"}
                 /\ conn'[u.conn].open
                 /\ conn'[u.conn].task = u.id
                 /\ u.id <= highest'[w]
      <4>1. PICK t \in tasks[w] : t.id = u.id /\ t.conn = u.conn
        BY <1>3
      <4>. QED
        BY <1>1, <3>2, <4>1
    <3>. QED
      BY <3>1, <3>3 DEF Timely
  <2>. QED
    BY <1>1, <2>1, <2>2, Parts DEF TimerKept
<1>5. QueuesKept
  <2>1. \A w \in Workers : TickOf(w) \in Callbacks /\ TickOf(w).kind = "tick"
    BY CrowAssumption DEF TickOf, Callbacks, Pieces
  <2>2. ASSUME NEW w \in Workers
        PROVE  queue'[w] \in Seq(Callbacks) /\ Orderly(queue'[w], w, conn)
    <3>1. queue[w] \in Seq(Callbacks) /\ Orderly(queue[w], w, conn)
      BY Parts
    <3>2. Fits(TickOf(w), w, conn)
      BY <2>1 DEF Fits
    <3>3. /\ Append(queue[w], TickOf(w)) \in Seq(Callbacks)
          /\ Orderly(Append(queue[w], TickOf(w)), w, conn)
      BY <2>1, <3>1, <3>2, AppendOrderly
    <3>. QED
      BY <1>1, <3>1, <3>3
  <2>3. queue' \in [Workers -> Seq(Callbacks)]
    BY <1>1, <2>2
  <2>. QED
    BY <1>1, <2>2, <2>3 DEF QueuesKept
<1>6. \A c \in Conns : Held(c)'
  BY <1>1, Parts DEF Held
<1>. QED
  BY <1>1, <1>4, <1>5, <1>6, Assembled, Parts DEF Clients, CrowInvariant, Typed, TypeOK

LEMMA TickKeeps ==
    ASSUME CrowInvariant, NEW w \in Workers, Tick(w)
    PROVE  CrowInvariant'
<1>. DEFINE expired == {t \in tasks[w] : t.left = 0}
            hit == {t \in expired : conn[t.conn].phase = "reading"}
<1>1. PICK order \in [1 .. Cardinality(hit) -> hit] :
         /\ \A i, j \in DOMAIN order : i < j => order[i].id < order[j].id
         /\ queue' = [queue EXCEPT ![w] =
               Tail(@) \o [k \in DOMAIN order |->
                              Callback("read", order[k].conn, "aborted")]]
  BY DEF Tick
<1>2. /\ tasks' = [tasks EXCEPT ![w] = @ \ expired]
      /\ highest' = [highest EXCEPT ![w] = ResetIds(tasks[w] \ expired, @)]
      /\ UNCHANGED <<serving, next, client, inbox, ran>>
      /\ queue[w] # <<>>
  BY DEF Tick, Ready
<1>3. conn' = [c \in Conns |->
                  IF \E t \in expired : t.conn = c
                  THEN [conn[c] EXCEPT
                           !.open = FALSE,
                           !.phase = IF @ = "reading" THEN "read" ELSE @]
                  ELSE conn[c]]
  BY DEF Tick
<1>4. /\ \A t \in tasks[w] : /\ t \in Task /\ conn[t.conn].worker = w
                             /\ conn[t.conn].phase \in {"reading", "read"}
      /\ \A t, u \in tasks[w] : t.conn = u.conn => t = u
  BY Parts DEF Timely
<1>5. \A c \in Conns : (~ \E t \in expired : t.conn = c) => conn'[c] = conn[c]
  BY <1>3
<1>6. ASSUME NEW t \in expired
      PROVE  /\ t.conn \in Conns /\ conn'[t.conn] \in Object
             /\ conn[t.conn].worker = w /\ conn'[t.conn].worker = w
             /\ conn[t.conn].phase \in {"reading", "read"}
             /\ conn'[t.conn].phase = "read"
  <2>1. t.conn \in Conns /\ conn[t.conn] \in Object
    BY <1>4, Parts DEF Task
  <2>2. conn'[t.conn] = [conn[t.conn] EXCEPT
                           !.open = FALSE,
                           !.phase = IF @ = "reading" THEN "read" ELSE @]
    BY <1>3, <2>1
  <2>. QED
    BY <1>4, <2>1, <2>2 DEF Object, Phases
<1>7. conn' \in [Conns -> Object]
  <2>1. ASSUME NEW c \in Conns
        PROVE  conn'[c] \in Object
    <3>1. CASE \E t \in expired : t.conn = c
      BY <1>6, <3>1
    <3>2. CASE ~ \E t \in expired : t.conn = c
      BY <1>5, <3>2, Parts
    <3>. QED
      BY <3>1, <3>2
  <2>2. conn' = [c \in Conns |-> conn'[c]]
    BY <1>3
  <2>. QED
    BY <2>1, <2>2
<1>8. TimerKept
  <2>1. /\ tasks'[w] = tasks[w] \ expired
        /\ \A v \in Workers \ {w} : tasks'[v] = tasks[v] /\ highest'[v] = highest[v]
        /\ tasks'[w] # {} => highest'[w] = highest[w]
        /\ highest'[w] \in {0, highest[w]}
    BY <1>2, Parts DEF ResetIds
  <2>2. tasks' \in [Workers -> SUBSET Task] /\ highest' \in [Workers -> Nat]
    <3>1. tasks[w] \ expired \in SUBSET Task
      BY Parts
    <3>2. ResetIds(tasks[w] \ expired, highest[w]) \in Nat
      BY Parts DEF ResetIds
    <3>. HIDE DEF expired
    <3>. QED
      BY <1>2, <3>1, <3>2, Parts
  <2>3. ASSUME NEW v \in Workers
        PROVE  Timely(v)'
    <3>1. \A t \in tasks'[v] : /\ t \in tasks[v]
                               /\ conn'[t.conn] = conn[t.conn]
                               /\ highest'[v] = highest[v]
      <4>1. CASE v = w
        BY <1>4, <1>5, <2>1, <4>1 DEF Task
      <4>2. CASE v # w
        <5>1. \A t \in tasks[v] : t.conn \in Conns /\ conn[t.conn].worker = v
          BY Parts DEF Timely, Task
        <5>. QED
          BY <1>5, <1>6, <2>1, <4>2, <5>1
      <4>. QED
        BY <4>1, <4>2
    <3>. HIDE DEF expired
    <3>2. /\ \A t \in tasks[v] : /\ conn[t.conn].worker = v
                                 /\ conn[t.conn].phase \in {"reading", "read"}
                                 /\ conn[t.conn].open
                                 /\ conn[t.conn].task = t.id
                                 /\ t.id <= highest[v]
          /\ \A t, u \in tasks[v] : t.conn = u.conn => t = u
      BY Parts DEF Timely
    <3>. QED
      BY <3>1, <3>2 DEF Timely
  <2>. QED
    BY <1>7, <2>2, <2>3 DEF TimerKept
<1>9. \A c \in Conns : Held(c)'
  <2>1. ASSUME NEW t \in expired
        PROVE  Held(t.conn)'
    <3>1. PICK c \in Conns : c = t.conn
      BY <1>6
    <3>2. Held(c)'
      BY <1>2, <1>6, <3>1, Parts DEF Held
    <3>. QED
      BY <3>1, <3>2
  <2>2. ASSUME NEW c \in Conns, ~ \E t \in expired : t.conn = c
        PROVE  Held(c)'
    BY <1>2, <1>5, <2>2, HeldElsewhere
  <2>. QED
    BY <2>1, <2>2
<1>10. QueuesKept
  <2>. DEFINE n == Cardinality(hit)
              aborted == [k \in 1 .. n |-> Callback("read", order[k].conn, "aborted")]
  <2>1. n \in Nat
    <3>1. IsFiniteSet(hit)
      <4>1. [t \in hit |-> t.conn] \in Injection(hit, Conns)
        BY <1>4, <1>6 DEF Injection, IsInjective
      <4>. QED
        BY <4>1, FS_Injection, CrowAssumption
    <3>. QED
      BY <3>1, FS_CardinalityType
  <2>2. DOMAIN order = 1 .. n
    OBVIOUS
  <2>3. ASSUME NEW k \in 1 .. n
        PROVE  /\ aborted[k] \in Callbacks
               /\ aborted[k].kind = "read" /\ aborted[k].conn = order[k].conn
               /\ order[k] \in hit
    <3>1. order[k] \in hit
      OBVIOUS
    <3>2. order[k].conn \in Conns
      BY <1>6, <3>1
    <3>. QED
      BY <3>1, <3>2 DEF Callback, Callbacks, Pieces
  <2>4. aborted \in Seq(Callbacks) /\ Len(aborted) = n
    <3>1. aborted \in [1 .. n -> Callbacks]
      BY <2>3
    <3>. HIDE DEF aborted, n
    <3>. QED
      BY <2>1, <3>1
  <2>5. queue'[w] = Tail(queue[w]) \o aborted
    BY <1>1, <2>2, Parts
  <2>6. /\ Tail(queue[w]) \in Seq(Callbacks)
        /\ Orderly(Tail(queue[w]), w, conn)
    BY <1>2, TailOrderly, Parts
  <2>7. \A t \in hit : ~Mentions(Tail(queue[w]), t.conn)
    BY <1>6, <2>6, NotMentioned
  <2>8. ASSUME NEW q \in Seq(Callbacks), NEW v \in Workers, Orderly(q, v, conn),
               \A t \in hit : ~Mentions(q, t.conn)
        PROVE  Orderly(q, v, conn')
    <3>1. ASSUME NEW c \in Conns, Mentions(q, c)
          PROVE  conn'[c].phase = conn[c].phase /\ conn'[c].worker = conn[c].worker
      <4>1. CASE \E t \in expired : t.conn = c
        BY <1>6, <2>8, <3>1, <4>1
      <4>2. CASE ~ \E t \in expired : t.conn = c
        BY <1>5, <4>2
      <4>. QED
        BY <4>1, <4>2
    <3>. HIDE DEF hit, expired
    <3>. QED
      BY <2>8, <3>1, OrderlyAs
  <2>9. Orderly(aborted, w, conn')
    <3>1. \A k \in 1 .. n : Fits(aborted[k], w, conn')
      BY <1>6, <2>3 DEF Fits
    <3>2. ASSUME NEW i \in 1 .. n, NEW j \in 1 .. n, i # j
          PROVE  aborted[i].conn # aborted[j].conn
      <4>1. order[i] \in hit /\ order[j] \in hit
        BY <2>3
      <4>2. order[i].id # order[j].id
        <5>1. order[i].id \in Nat /\ order[j].id \in Nat
          BY <1>4, <4>1 DEF Task
        <5>2. CASE i < j
          BY <1>1, <2>2, <5>1, <5>2
        <5>3. CASE j < i
          BY <1>1, <2>2, <5>1, <5>3
        <5>. QED
          BY <2>1, <3>2, <5>2, <5>3
      <4>3. order[i].conn # order[j].conn
        BY <1>4, <4>1, <4>2
      <4>. QED
        BY <2>3, <4>3
    <3>. HIDE DEF aborted, n
    <3>. QED
      BY <2>4, <3>1, <3>2 DEF Orderly
  <2>10. \A c \in Conns : ~Mentions(Tail(queue[w]), c) \/ ~Mentions(aborted, c)
    <3>1. ASSUME NEW c \in Conns, Mentions(aborted, c)
          PROVE  ~Mentions(Tail(queue[w]), c)
      <4>1. PICK k \in 1 .. n : aborted[k].conn = c
        <5>. HIDE DEF aborted, n
        <5>. QED
          BY <2>4, <3>1 DEF Mentions
      <4>. QED
        BY <2>3, <2>7, <4>1
    <3>. QED
      BY <3>1
  <2>. HIDE DEF aborted, n
  <2>11. /\ queue'[w] \in Seq(Callbacks)
         /\ Orderly(queue'[w], w, conn')
    <3>1. Orderly(Tail(queue[w]), w, conn')
      BY <2>6, <2>7, <2>8
    <3>. QED
      <4>. DEFINE q == Tail(queue[w])
      <4>1. /\ q \in Seq(Callbacks) /\ Orderly(q, w, conn')
            /\ \A c \in Conns : ~Mentions(q, c) \/ ~Mentions(aborted, c)
            /\ queue'[w] = q \o aborted
        BY <2>5, <2>6, <2>10, <3>1
      <4>. HIDE DEF q
      <4>. QED
        BY <2>4, <2>9, <4>1, ConcatOrderly
  <2>12. ASSUME NEW v \in Workers \ {w}
         PROVE  queue'[v] = queue[v] /\ Orderly(queue'[v], v, conn')
    <3>1. queue'[v] = queue[v] /\ queue[v] \in Seq(Callbacks) /\ Orderly(queue[v], v, conn)
      BY <1>1, Parts
    <3>2. \A t \in hit : ~Mentions(queue[v], t.conn)
      BY <1>6, <3>1, NotMentioned
    <3>. QED
      BY <2>8, <3>1, <3>2
  <2>13. queue' \in [Workers -> Seq(Callbacks)]
    <3>1. queue' = [v \in Workers |-> queue'[v]]
      BY <1>1, Parts
    <3>2. \A v \in Workers : queue'[v] \in Seq(Callbacks)
      BY <2>11, <2>12, Parts
    <3>. QED
      BY <3>1, <3>2
  <2>. QED
    BY <2>11, <2>12, <2>13 DEF QueuesKept
<1>. QED
  BY <1>2, <1>8, <1>9, <1>10, Assembled, Parts DEF Clients, CrowInvariant, Typed, TypeOK

-----------------------------------------------------------------------------
(***************************************************************************)
(* The theorems.                                                           *)
(***************************************************************************)
LEMMA InitHolds ==
    ASSUME Init
    PROVE  CrowInvariant
<1>1. PICK c \in Conns :
         /\ serving = TRUE /\ next = {c}
         /\ conn = [d \in Conns |-> IF d = c THEN [Gone EXCEPT !.phase = "accepting",
                                                               !.open = TRUE]
                                    ELSE Gone]
         /\ queue = [w \in Workers |-> <<>>]
         /\ tasks = [w \in Workers |-> {}] /\ highest = [w \in Workers |-> 0]
         /\ client = [d \in Conns |-> "none"] /\ inbox = [d \in Conns |-> <<>>]
         /\ ran = {}
  BY DEF Init
<1>2. /\ Gone \in Object /\ Gone.phase = "gone"
      /\ [Gone EXCEPT !.phase = "accepting", !.open = TRUE] \in Object
  <2>1. 1 \in Workers
    BY CrowAssumption DEF Workers
  <2>2. Gone \in Object
    BY <2>1 DEF Gone, Object, Phases
  <2>. QED
    BY <2>2 DEF Gone, Object, Phases
<1>3. conn \in [Conns -> Object]
  BY <1>1, <1>2
<1>4. TypeOK
  <2>1. 0 \in Nat
    OBVIOUS
  <2>. QED
    BY <1>1, <1>3, <2>1 DEF TypeOK, Object
<1>5. Typed
  <2>1. <<>> \in Seq(Callbacks) /\ <<>> \in Seq(Pieces)
    BY EmptySeq
  <2>. QED
    BY <1>1, <1>4, <2>1 DEF Typed
<1>6. ASSUME NEW w \in Workers
      PROVE  Orderly(queue[w], w, conn) /\ Timely(w)
  <2>1. queue[w] = <<>> /\ tasks[w] = {} /\ Len(queue[w]) = 0
    BY <1>1
  <2>. QED
    BY <2>1 DEF Orderly, Timely
<1>7. ASSUME NEW d \in Conns
      PROVE  Held(d)
  BY <1>1 DEF Held, Gone
<1>. QED
  BY <1>5, <1>6, <1>7 DEF CrowInvariant

LEMMA StepKeeps ==
    ASSUME CrowInvariant, [Next]_vars
    PROVE  CrowInvariant'
<1>1. CASE UNCHANGED vars
  <2>1. TimerKept
    BY <1>1, TimerLeft, Parts DEF vars
  <2>2. QueuesKept
    BY <1>1, QueueLeft, Parts DEF QueuesKept, vars
  <2>3. \A d \in Conns : Held(d)'
    BY <1>1, Parts DEF Held, vars
  <2>. QED
    BY <1>1, <2>1, <2>2, <2>3, Assembled, Parts
    DEF vars, Clients, CrowInvariant, Typed, TypeOK
<1>2. ASSUME NEW c \in Conns, Accept(c) \/ AcceptAgain(c)
      PROVE  CrowInvariant'
  BY <1>2, AcceptKeeps, AcceptAgainKeeps
<1>3. ASSUME NEW w \in Workers, Work(w)
      PROVE  CrowInvariant'
  BY <1>3, StartKeeps, ReadKeeps, TickKeeps DEF Work
<1>4. CASE Second
  BY <1>4, SecondKeeps
<1>5. ASSUME NEW c \in Conns,
             \/ Deliver(c)
             \/ \E piece \in Requests : Send(c, piece)
             \/ Leave(c)
             \/ Notice(c)
      PROVE  CrowInvariant'
  BY <1>5, DeliverKeeps, SendKeeps, LeaveKeeps, NoticeKeeps
<1>6. CASE Stop
  BY <1>6, StopKeeps
<1>. QED
  BY <1>1, <1>2, <1>3, <1>4, <1>5, <1>6 DEF Next

LEMMA InvariantHolds == Spec => []CrowInvariant
  BY InitHolds, StepKeeps, PTL DEF Spec

\* Whatever order reads, ticks and clients take, Crow's state has its type.
THEOREM TypesHold == Spec => []TypeOK
<1>1. CrowInvariant => TypeOK
  BY DEF CrowInvariant, Typed
<1>. QED
  BY <1>1, InvariantHolds, PTL

\* task_timer and Connection never lose sight of one another: a task that is
\* scheduled belongs to a wait that lasts and knows its id, although the ids
\* begin again whenever the timer runs empty.
THEOREM DeadlinesHold == Spec => []DeadlinesAreOfTheWaiting
<1>1. CrowInvariant => DeadlinesAreOfTheWaiting
  BY DEF CrowInvariant, Timely, DeadlinesAreOfTheWaiting
<1>. QED
  BY <1>1, InvariantHolds, PTL

\* When handle() throws because the deadline closed the socket, no route has
\* run for the request that was read: its client may send it again.
THEOREM CutOffHolds == Spec => []CutOffIsUndone
<1>1. CrowInvariant => CutOffIsUndone
  BY Parts DEF Held, CutOffIsUndone
<1>. QED
  BY <1>1, InvariantHolds, PTL

\* handle() cancels the deadline before it calls the route, so a route that has
\* not ended its response never has its connection closed under it.
THEOREM OwedHolds == Spec => []OwedStaysOpen
<1>1. CrowInvariant => OwedStaysOpen
  BY Parts DEF Held, OwedStaysOpen
<1>. QED
  BY <1>1, InvariantHolds, PTL
=============================================================================
