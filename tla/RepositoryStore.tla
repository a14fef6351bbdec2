-------------------------- MODULE RepositoryStore --------------------------
(***************************************************************************)
(* Repository implements JobStore: its initial states are initial states   *)
(* of JobStore, and each of its steps is a step of JobStore or leaves      *)
(* everything a caller can see as it was.                                  *)
(***************************************************************************)
EXTENDS RepositoryScan

\* The variables of JobStore that the mapping computes.
phase == [t \in Threads |-> Phase(pc[t])]
outcome == [t \in Threads |-> IF pc[t] = "finalize" THEN NoEffect ELSE own[t]]
answer == [t \in Threads |-> IF pc[t] = "done" THEN reply[t] ELSE NoReply]

\* Did of JobStore, in these variables.
Spoils(t, e) ==
    \E spoiled \in SUBSET {u \in Threads \ {t} : phase[u] = "acted"} :
        outcome' = [u \in Threads |->
                       IF u = t THEN e
                       ELSE IF u \in spoiled THEN [outcome[u] EXCEPT !.alone = FALSE]
                       ELSE outcome[u]]

LEMMA PhaseValues ==
    /\ Phase("idle") = "idle"
    /\ Phase("prepare") = "called" /\ Phase("step") = "called" /\ Phase("finalize") = "called"
    /\ Phase("check") = "acted" /\ Phase("refetch") = "acted" /\ Phase("scan") = "acted"
    /\ Phase("done") = "answered"
  BY DEF Phase

LEMMA SameValues ==
    /\ Store!NoOutcome = NoEffect
    /\ Store!NothingSeen = NoView
    /\ Store!NoAnswer = NoReply
    /\ Store!NoRequest = AnyCall
    /\ Store!Lists = ScanOps
    /\ Store!Ids = Ids
  BY DEF Store!NoOutcome, NoEffect, Store!NothingSeen, NoView, Store!NoAnswer, NoReply,
         Store!NoRequest, AnyCall, Store!Lists, ScanOps, Store!Ids, Ids

\* What is read of a row of the table is the row itself.
LEMMA SameEntry ==
    ASSUME NEW i, NEW row \in Job
    PROVE  ReadJob(i, row) = Store!Entry(i, row)
<1>1. row.type \in Job_Type /\ row.status \in Status
  BY DEF Job
<1>2. int_to_type(row.type) = row.type /\ int_to_status(row.status) = row.status
  BY <1>1, EnumeratorsSurvive
<1>3. [row EXCEPT !.type = row.type, !.status = row.status] = row
  BY DEF Job
<1>. QED
  BY <1>2, <1>3 DEF ReadJob, Store!Entry, Store!ToInt, ToInt

LEMMA SameListing ==
    ASSUME NEW c, NEW table \in [Ids -> Job \cup {NoRow}]
    PROVE  /\ Store!Listed(c, table) = Matching(c, table)
           /\ Store!Entries(c, table) = Entries(c, table)
<1>1. \A row : Store!Wanted(c, row) <=> Selects(c, row)
  BY DEF Store!Wanted, Selects, Store!ACTIVE, ACTIVE
<1>2. Store!Listed(c, table) = Matching(c, table)
  <2>. HIDE DEF Selects
  <2>. QED
    BY <1>1 DEF Store!Listed, Matching, Store!Ids, Ids
<1>3. \A i \in Matching(c, table) : ReadJob(i, table[i]) = Store!Entry(i, table[i])
  BY SameEntry DEF Matching
<1>4. {Store!Entry(i, table[i]) : i \in Matching(c, table)}
          = {ReadJob(i, table[i]) : i \in Matching(c, table)}
  BY <1>3
<1>. QED
  BY <1>2, <1>4 DEF Store!Entries, Entries

-----------------------------------------------------------------------------
(***************************************************************************)
(* How the computed variables change.                                      *)
(***************************************************************************)
LEMMA PhaseStep ==
    ASSUME TypeOK, NEW t \in Threads, NEW label, Go(t, label)
    PROVE  Store!Enter(t, Phase(label)) /\ pc'[t] = label
<1>1. \A u \in Threads : pc'[u] = IF u = t THEN label ELSE pc[u]
  BY DEF Go, TypeOK
<1>. QED
  BY <1>1 DEF Store!Enter

LEMMA PhaseKept ==
    ASSUME TypeOK, NEW t \in Threads, NEW label, Go(t, label), Phase(label) = Phase(pc[t])
    PROVE  UNCHANGED phase
<1>1. \A u \in Threads : pc'[u] = IF u = t THEN label ELSE pc[u]
  BY DEF Go, TypeOK
<1>. QED
  BY <1>1 DEF phase

\* Until a call is done its answer cannot be seen.
LEMMA AnswerKept ==
    ASSUME TypeOK, NEW t \in Threads, NEW label, Go(t, label),
           label # "done", pc[t] # "done", UNCHANGED reply
    PROVE  UNCHANGED answer
<1>1. \A u \in Threads : pc'[u] = IF u = t THEN label ELSE pc[u]
  BY DEF Go, TypeOK
<1>. QED
  BY <1>1 DEF answer

LEMMA AnswerStep ==
    ASSUME TypeOK, NEW t \in Threads, NEW a, Finish(t, a)
    PROVE  /\ answer' = [answer EXCEPT ![t] = a]
           /\ answer' = [answer EXCEPT ![t] = answer'[t]]
           /\ answer'[t] = a
<1>1. \A u \in Threads : pc'[u] = IF u = t THEN "done" ELSE pc[u]
  BY DEF Finish, Go, TypeOK
<1>2. \A u \in Threads : reply'[u] = IF u = t THEN a ELSE reply[u]
  BY DEF Finish, TypeOK
<1>. QED
  BY <1>1, <1>2 DEF answer

\* A disturbed connection may spoil the answers of those that have acted.
LEMMA OutcomeStep ==
    ASSUME TypeOK, NEW t \in Threads, NEW e, Disturb(t, e),
           NEW label, Go(t, label), label # "finalize"
    PROVE  Spoils(t, e)
<1>. DEFINE spoiled == {u \in Threads \ {t} : pc[u] = "check"}
<1>1. \A u \in Threads : pc'[u] = IF u = t THEN label ELSE pc[u]
  BY DEF Go, TypeOK
<1>2. spoiled \in SUBSET {u \in Threads \ {t} : phase[u] = "acted"}
  BY PhaseValues DEF phase
<1>3. outcome' = [u \in Threads |->
                     IF u = t THEN e
                     ELSE IF u \in spoiled THEN [outcome[u] EXCEPT !.alone = FALSE]
                     ELSE outcome[u]]
  <2>1. \A u \in Threads \ {t} :
            own'[u] = IF u \in spoiled THEN [own[u] EXCEPT !.alone = FALSE] ELSE own[u]
    BY DEF Disturb
  <2>2. own'[t] = e
    BY DEF Disturb
  <2>. QED
    BY <1>1, <2>1, <2>2 DEF outcome
<1>. QED
  BY <1>2, <1>3 DEF Spoils

\* Lists in progress see the table as it becomes.
LEMMA SeeStep ==
    ASSUME TypeOK, ScanInvariant, Look(jobs'), jobs' \in [Ids -> Job \cup {NoRow}]
    PROVE  Store!See
<1>1. ASSUME NEW u \in Threads
      PROVE  pc[u] = "scan" <=> phase[u] = "acted" /\ call[u].op \in ScanOps
  <2>1. Standing(u) /\ pc[u] \in Labels
    BY ScanParts DEF TypeOK, Labels
  <2>. QED
    BY <2>1, PhaseValues DEF Standing, phase, Labels
<1>2. \A u \in Threads : /\ Store!Listed(call[u], jobs') = Matching(call[u], jobs')
                         /\ Store!Entries(call[u], jobs') = Entries(call[u], jobs')
  BY SameListing
<1>. HIDE DEF phase
<1>3. view' = [u \in Threads |->
                  IF phase[u] = "acted" /\ call[u].op \in ScanOps
                  THEN [some |-> view[u].some \cup Store!Entries(call[u], jobs'),
                        all  |-> view[u].all \cap Store!Listed(call[u], jobs')]
                  ELSE view[u]]
  BY <1>1, <1>2 DEF Look
<1>. QED
  BY <1>3, SameValues DEF Store!See, phase

\* A call is answered, or refused.
LEMMA GiveStep ==
    ASSUME TypeOK, NEW t \in Threads, NEW a, Finish(t, a), UNCHANGED <<database, call, view>>
    PROVE  Store!Give(t) /\ answer'[t] = a
<1>1. Store!Enter(t, "answered")
  BY PhaseStep, PhaseValues DEF Finish
<1>2. answer' = [answer EXCEPT ![t] = answer'[t]] /\ answer'[t] = a
  BY AnswerStep
<1>. QED
  BY <1>1, <1>2 DEF Store!Give, answer, database

\* The outcome of a thread whose call fails or is as it was.
LEMMA OutcomeKept ==
    ASSUME TypeOK, NEW t \in Threads, NEW label, Go(t, label),
           pc[t] # "finalize", label # "finalize", UNCHANGED own
    PROVE  UNCHANGED outcome
<1>1. \A u \in Threads : pc'[u] = IF u = t THEN label ELSE pc[u]
  BY DEF Go, TypeOK
<1>. QED
  BY <1>1 DEF outcome

LEMMA OutcomeFails ==
    ASSUME TypeOK, NEW t \in Threads, NEW label, Go(t, label),
           pc[t] # "finalize", label # "finalize", own' = [own EXCEPT ![t].failed = TRUE]
    PROVE  /\ outcome' = [outcome EXCEPT ![t].failed = TRUE]
           /\ outcome[t] = own[t]
           /\ outcome'[t] = [own[t] EXCEPT !.failed = TRUE]
<1>1. \A u \in Threads : pc'[u] = IF u = t THEN label ELSE pc[u]
  BY DEF Go, TypeOK
<1>2. \A u \in Threads : own'[u] = IF u = t THEN [own[t] EXCEPT !.failed = TRUE] ELSE own[u]
  BY DEF TypeOK
<1>. QED
  BY <1>1, <1>2 DEF outcome

-----------------------------------------------------------------------------
(***************************************************************************)
(* The steps.                                                              *)
(***************************************************************************)
LEMMA StoreInit == Init => Store!Init
  BY PhaseValues, SameValues
     DEF Init, Open, Idle, Store!Init, Store!AllIdle, database

LEMMA StoreCrash == Restart => Store!Crash
  BY PhaseValues, SameValues
     DEF Restart, Idle, Store!Crash, Store!AllIdle, database

LEMMA StoreBegin ==
    ASSUME TypeOK, NEW t \in Threads, NEW c \in Calls, Invoke(t, c)
    PROVE  Store!Begin(t, c)
<1>1. /\ pc[t] = "idle" /\ Go(t, "prepare") /\ call' = [call EXCEPT ![t] = c]
      /\ UNCHANGED <<jobs, seq, reply, own, view>>
  BY DEF Invoke, database
<1>2. Store!Enter(t, "called") /\ UNCHANGED answer /\ UNCHANGED outcome
  BY <1>1, PhaseStep, PhaseValues, AnswerKept, OutcomeKept
<1>3. phase[t] = "idle"
  BY <1>1, PhaseValues DEF phase
<1>. QED
  BY <1>1, <1>2, <1>3 DEF Store!Begin, phase, outcome, answer

LEMMA StoreOpen ==
    ASSUME TypeOK, NEW t \in Threads, Prepare(t)
    PROVE  Store!Open(t) \/ UNCHANGED <<jobs, seq, phase, call, outcome, view, answer>>
<1>1. /\ pc[t] = "prepare" /\ UNCHANGED <<jobs, seq, call, reply, own>>
  BY DEF Prepare, database
<1>2. CASE call[t].op \in ScanOps
  <2>1. /\ Go(t, "scan")
        /\ view' = [view EXCEPT ![t] = [some |-> Entries(call[t], jobs),
                                        all  |-> Matching(call[t], jobs)]]
    BY <1>2 DEF Prepare
  <2>2. Store!Enter(t, "acted") /\ UNCHANGED answer /\ UNCHANGED outcome
    BY <1>1, <2>1, PhaseStep, PhaseValues, AnswerKept, OutcomeKept
  <2>3. /\ Store!Entries(call[t], jobs) = Entries(call[t], jobs)
        /\ Store!Listed(call[t], jobs) = Matching(call[t], jobs)
    BY SameListing DEF TypeOK
  <2>4. phase[t] = "called"
    BY <1>1, PhaseValues DEF phase
  <2>. QED
    BY <1>1, <1>2, <2>1, <2>2, <2>3, <2>4, SameValues
       DEF Store!Open, phase, outcome, answer
<1>3. CASE call[t].op \notin ScanOps
  <2>1. Go(t, "step") /\ UNCHANGED view
    BY <1>3 DEF Prepare
  <2>. QED
    BY <1>1, <2>1, PhaseKept, PhaseValues, AnswerKept, OutcomeKept
<1>. QED
  BY <1>2, <1>3

LEMMA StoreLeave ==
    ASSUME TypeOK, NEW t \in Threads, Return(t)
    PROVE  Store!Leave(t)
<1>1. /\ pc[t] = "done" /\ Go(t, "idle") /\ UNCHANGED <<jobs, seq>>
      /\ call' = [call EXCEPT ![t] = AnyCall] /\ view' = [view EXCEPT ![t] = NoView]
  BY DEF Return, database
<1>2. Store!Enter(t, "idle")
  BY <1>1, PhaseStep, PhaseValues
<1>3. \A u \in Threads : pc'[u] = IF u = t THEN "idle" ELSE pc[u]
  BY <1>1 DEF Go, TypeOK
<1>4. /\ \A u \in Threads : own'[u] = IF u = t THEN NoEffect ELSE own[u]
      /\ \A u \in Threads : reply'[u] = IF u = t THEN NoReply ELSE reply[u]
  BY DEF Return, TypeOK
<1>5. outcome' = [outcome EXCEPT ![t] = NoEffect] /\ answer' = [answer EXCEPT ![t] = NoReply]
  BY <1>3, <1>4 DEF outcome, answer
<1>6. phase[t] = "answered"
  BY <1>1, PhaseValues DEF phase
<1>. QED
  BY <1>1, <1>2, <1>5, <1>6, SameValues DEF Store!Leave, phase, outcome, answer

\* A call that fails before it has an effect.
LEMMA RefuseStep ==
    ASSUME TypeOK, NEW t \in Threads, NEW a, Finish(t, a), ~a.ok, a.rows = <<>>,
           UNCHANGED <<database, call, view>>,
           pc[t] \in {"prepare", "step", "finalize"},
           Spoils(t, [NoEffect EXCEPT !.failed = TRUE])
    PROVE  Store!Refuse(t)
<1>1. Store!Give(t) /\ answer'[t] = a
  BY GiveStep
<1>2. phase[t] = "called"
  BY PhaseValues DEF phase
<1>3. Store!Did(t, [Store!NoOutcome EXCEPT !.failed = TRUE])
  BY SameValues DEF Spoils, Store!Did, outcome, phase
<1>. QED
  BY <1>1, <1>2, <1>3 DEF Store!Refuse, answer, phase

LEMMA StoreRefuse ==
    ASSUME TypeOK, ScanInvariant, NEW t \in Threads,
           \/ InsertFull(t) \/ FinalizeBusy(t) \/ CommitFails(t) \/ PrepareFails(t)
           \/ ReadFails(t) /\ pc[t] = "step"
    PROVE  Store!Refuse(t)
<1>1. Standing(t) /\ own[t] \in Effect
  BY ScanParts DEF TypeOK, Effect
<1>2. /\ ~NoReply.ok /\ NoReply.rows = <<>> /\ ~Failure.ok /\ Failure.rows = <<>>
      /\ \A rc : ~[NoReply EXCEPT !.id = rc].ok /\ [NoReply EXCEPT !.id = rc].rows = <<>>
  BY DEF NoReply, Failure
<1>3. CASE InsertFull(t) \/ CommitFails(t)
  <2>1. /\ Disturb(t, [NoEffect EXCEPT !.failed = TRUE]) /\ Finish(t, Failure)
        /\ pc[t] = "step" /\ UNCHANGED <<database, call, view>>
    BY <1>3 DEF InsertFull, CommitFails, database
  <2>2. Spoils(t, [NoEffect EXCEPT !.failed = TRUE])
    BY <2>1, OutcomeStep DEF Finish
  <2>. QED
    BY <1>2, <2>1, <2>2, RefuseStep
<1>4. CASE FinalizeBusy(t)
  <2>1. /\ Disturb(t, own[t]) /\ Finish(t, Failure)
        /\ pc[t] = "finalize" /\ UNCHANGED <<database, call, view>>
    BY <1>4 DEF FinalizeBusy, database
  <2>2. own[t] = [NoEffect EXCEPT !.failed = TRUE]
    BY <1>1, <2>1 DEF Standing
  <2>3. Spoils(t, [NoEffect EXCEPT !.failed = TRUE])
    BY <2>1, <2>2, OutcomeStep DEF Finish
  <2>. QED
    BY <1>2, <2>1, <2>3, RefuseStep
<1>5. CASE PrepareFails(t) \/ (ReadFails(t) /\ pc[t] = "step")
  <2>1. /\ pc[t] \in {"prepare", "step"} /\ UNCHANGED <<database, call, view>>
        /\ own' = [own EXCEPT ![t].failed = TRUE]
    BY <1>5 DEF PrepareFails, ReadFails
  <2>2. PICK a : Finish(t, a) /\ ~a.ok /\ a.rows = <<>>
    BY <1>2, <1>5 DEF PrepareFails, ReadFails
  <2>3. Go(t, "done")
    BY <2>2 DEF Finish
  <2>4. own[t] = NoEffect
    BY <1>1, <2>1 DEF Standing
  <2>5. /\ outcome' = [outcome EXCEPT ![t].failed = TRUE]
        /\ outcome[t] = NoEffect
    BY <2>1, <2>3, <2>4, OutcomeFails
  <2>6. outcome' = [u \in Threads |-> IF u = t THEN [NoEffect EXCEPT !.failed = TRUE]
                                     ELSE IF u \in {} THEN [outcome[u] EXCEPT !.alone = FALSE]
                                     ELSE outcome[u]]
    BY <2>5 DEF outcome
  <2>7. {} \in SUBSET {u \in Threads \ {t} : phase[u] = "acted"}
    OBVIOUS
  <2>8. Spoils(t, [NoEffect EXCEPT !.failed = TRUE])
    BY <2>6, <2>7, Zenon DEF Spoils
  <2>. QED
    BY <2>1, <2>2, <2>8, RefuseStep
<1>. QED
  BY <1>3, <1>4, <1>5

\* A statement that ran: its one effect, which the lists in progress see.
LEMMA ActStep ==
    ASSUME TypeOK, TypeOK', ScanInvariant, NEW t \in Threads, pc[t] = "step",
           NEW label \in {"check", "refetch"}, Go(t, label),
           NEW e, Disturb(t, e), Look(jobs'), UNCHANGED <<call, reply>>
    PROVE  /\ Store!Enter(t, "acted") /\ Spoils(t, e) /\ Store!See
           /\ UNCHANGED answer /\ phase[t] = "called"
<1>1. jobs' \in [Ids -> Job \cup {NoRow}]
  BY DEF TypeOK
<1>. QED
  BY <1>1, PhaseStep, PhaseValues, OutcomeStep, SeeStep, AnswerKept DEF phase

LEMMA StoreInsert ==
    ASSUME TypeOK, TypeOK', ScanInvariant, ConnectionInvariant, NEW t \in Threads, InsertStep(t)
    PROVE  Store!Insert(t)
<1>. DEFINE effect == [NoEffect EXCEPT !.changed = 1, !.id = NewRowid]
<1>1. NewRowid = seq + 1 /\ NewRowid \in Ids /\ seq \in Int
  <2>1. Rowids /\ NewRowid \in Ids
    BY Parts DEF InsertStep
  <2>2. seq \in Int
    BY MaxIdType DEF TypeOK
  <2>. QED
    BY <2>1, <2>2, NewRowidIsNext
<1>2. /\ pc[t] = "step" /\ call[t].op = "insert_job" /\ Go(t, "check")
      /\ Disturb(t, effect)
      /\ Look(jobs') /\ UNCHANGED <<call, reply>>
      /\ seq' = NewRowid
      /\ jobs' = [jobs EXCEPT ![NewRowid] =
                     [call[t].job EXCEPT !.next_run_time = ToInt(@)]]
  BY DEF InsertStep
<1>3. /\ Store!Enter(t, "acted") /\ Store!See /\ UNCHANGED answer /\ phase[t] = "called"
      /\ Spoils(t, effect)
  <2>. HIDE DEF effect
  <2>. QED
    BY <1>2, ActStep
<1>4. \A n : Store!ToInt(n) = ToInt(n)
  BY DEF Store!ToInt, ToInt
<1>5. effect = [Store!NoOutcome EXCEPT !.changed = 1, !.id = NewRowid]
  BY SameValues
<1>6. Store!Did(t, [Store!NoOutcome EXCEPT !.changed = 1, !.id = NewRowid])
  <2>. HIDE DEF effect
  <2>. QED
    BY <1>3, <1>5 DEF Spoils, Store!Did, outcome, phase
<1>7. /\ NewRowid \in Store!Ids /\ NewRowid > seq
      /\ jobs' = [jobs EXCEPT ![NewRowid] =
                     [call[t].job EXCEPT !.next_run_time = Store!ToInt(@)]]
  <2>1. NewRowid \in Store!Ids /\ NewRowid > seq
    BY <1>1, SameValues
  <2>. QED
    BY <1>2, <1>4, <2>1
<1>. HIDE DEF NewRowid, effect
<1>8. \E i \in Store!Ids :
          /\ i > seq /\ seq' = i
          /\ jobs' = [jobs EXCEPT ![i] = [call[t].job EXCEPT !.next_run_time = Store!ToInt(@)]]
          /\ Store!Did(t, [Store!NoOutcome EXCEPT !.changed = 1, !.id = i])
  BY <1>2, <1>6, <1>7 DEF Store!Did
<1>. QED
  BY <1>2, <1>3, <1>8 DEF Store!Insert, answer, phase

\* What a call makes of a row: the UPDATE and DELETE of database.cpp, and
\* Changed of JobStore.
LEMMA ChangeStep ==
    ASSUME TypeOK, TypeOK', ScanInvariant, NEW t \in Threads,
           NEW condition \in BOOLEAN, NEW row, Write(t, condition, row),
           NEW label \in {"check", "refetch"}, Go(t, label),
           call[t].op \notin ScanOps \cup {"insert_job", "get_job_by_id"},
           call[t].id \in Present =>
               /\ condition <=> Store!Changes(call[t], Target(t))
               /\ row = Store!Changed(call[t], Target(t))
    PROVE  Store!Change(t)
<1>. DEFINE hit == call[t].id \in Present /\ condition
            effect == [NoEffect EXCEPT !.changed = IF hit THEN 1 ELSE 0]
            found == /\ call[t].id \in Store!Ids /\ jobs[call[t].id] # NoRow
                     /\ Store!Changes(call[t], jobs[call[t].id])
<1>1. /\ pc[t] = "step" /\ Look(jobs') /\ UNCHANGED <<seq, call, reply>>
      /\ jobs' = IF hit THEN [jobs EXCEPT ![call[t].id] = row] ELSE jobs
      /\ Disturb(t, effect)
  BY DEF Write
<1>2. /\ Store!Enter(t, "acted") /\ Store!See /\ UNCHANGED answer /\ phase[t] = "called"
      /\ Spoils(t, effect)
  <2>. HIDE DEF effect
  <2>. QED
    BY <1>1, ActStep
<1>3. hit <=> found
  BY SameValues DEF Present, Target
<1>4. hit => row = Store!Changed(call[t], jobs[call[t].id])
  BY DEF Target
<1>5. jobs' = IF found THEN [jobs EXCEPT ![call[t].id] =
                                Store!Changed(call[t], jobs[call[t].id])] ELSE jobs
  BY <1>1, <1>3, <1>4
<1>6. effect = [Store!NoOutcome EXCEPT !.changed = IF found THEN 1 ELSE 0]
  <2>1. (IF hit THEN 1 ELSE 0) = (IF found THEN 1 ELSE 0)
    BY <1>3
  <2>. HIDE DEF hit, found
  <2>. QED
    BY <2>1, SameValues
<1>7. Store!Did(t, [Store!NoOutcome EXCEPT !.changed = IF found THEN 1 ELSE 0])
  <2>. HIDE DEF effect, found
  <2>. QED
    BY <1>2, <1>6 DEF Spoils, Store!Did, outcome, phase
<1>8. call[t].op \notin Store!Lists \cup {"insert_job", "get_job_by_id"}
  BY SameValues
<1>. HIDE DEF effect, hit
<1>. QED
  BY <1>1, <1>2, <1>5, <1>7, <1>8 DEF Store!Change, Store!Did, answer, phase

LEMMA StoreChange ==
    ASSUME TypeOK, TypeOK', ScanInvariant, NEW t \in Threads,
           WriteStep(t), ~InsertStep(t), ~InsertFull(t)
    PROVE  Store!Change(t)
<1>c. /\ Store!ACTIVE = ACTIVE /\ Store!PAUSED = PAUSED
      /\ TRUE \in BOOLEAN
  BY DEF Store!ACTIVE, ACTIVE, Store!PAUSED, PAUSED
<1>1. CASE UpdateStatusStep(t)
  BY <1>1, <1>c, ChangeStep
     DEF UpdateStatusStep, Store!Changes, Store!Changed, ScanOps
<1>2. CASE DeleteStep(t)
  BY <1>2, <1>c, ChangeStep DEF DeleteStep, Store!Changes, Store!Changed, ScanOps
<1>3. CASE UpdateJobStep(t)
  BY <1>3, <1>c, ChangeStep DEF UpdateJobStep, Store!Changes, Store!Changed, ScanOps
<1>4. CASE PauseStep(t)
  BY <1>4, <1>c, ChangeStep DEF PauseStep, Store!Changes, Store!Changed, ScanOps
<1>5. CASE ResumeStep(t)
  BY <1>5, <1>c, ChangeStep DEF ResumeStep, Store!Changes, Store!Changed, ScanOps
<1>6. CASE UpdateNextRunTimeStep(t)
  BY <1>6, <1>c, ChangeStep
     DEF UpdateNextRunTimeStep, Store!Changes, Store!Changed, ScanOps
<1>7. CASE IncrementRetryStep(t)
  <2>1. (Target(t).retry_count < Target(t).max_retries) \in BOOLEAN
    OBVIOUS
  <2>. QED
    BY <1>7, <2>1, ChangeStep
       DEF IncrementRetryStep, Store!Changes, Store!Changed, ScanOps
<1>8. CASE ResetRetryStep(t)
  BY <1>8, <1>c, ChangeStep DEF ResetRetryStep, Store!Changes, Store!Changed, ScanOps
<1>. QED
  BY <1>1, <1>2, <1>3, <1>4, <1>5, <1>6, <1>7, <1>8 DEF WriteStep

\* What get_job_by_id fills in is the job as JobStore has it.
LEMMA SameCurrent ==
    ASSUME TypeOK, NEW t \in Threads
    PROVE  Store!Current(t) = Fetched(call[t].id)
<1>1. CASE call[t].id \in Present
  <2>1. call[t].id \in Ids /\ jobs[call[t].id] \in Job /\ jobs[call[t].id] # NoRow
    BY <1>1 DEF Present, TypeOK
  <2>2. ReadJob(call[t].id, jobs[call[t].id]) = Store!Entry(call[t].id, jobs[call[t].id])
    BY <2>1, SameEntry
  <2>. QED
    BY <1>1, <2>1, <2>2, SameValues DEF Store!Current, Fetched
<1>2. CASE call[t].id \notin Present
  BY <1>2, SameValues DEF Store!Current, Fetched, Present
<1>. QED
  BY <1>1, <1>2

LEMMA StoreGet ==
    ASSUME TypeOK, NEW t \in Threads, GetStep(t)
    PROVE  Store!Get(t)
<1>. DEFINE a == [NoReply EXCEPT !.ok = (call[t].id \in Present),
                                 !.rows = Fetched(call[t].id)]
<1>1. /\ pc[t] = "step" /\ call[t].op = "get_job_by_id" /\ Finish(t, a)
      /\ UNCHANGED <<database, call, own, view>>
  BY DEF GetStep
<1>2. a.ok = (call[t].id \in Present) /\ a.rows = Fetched(call[t].id)
  BY DEF NoReply
<1>3. (call[t].id \in Present) = (Fetched(call[t].id) # <<>>)
  BY DEF Fetched
<1>4. a.ok = (Store!Current(t) # <<>>) /\ a.rows = Store!Current(t)
  BY <1>2, <1>3, SameCurrent
<1>. HIDE DEF a
<1>5. Store!Give(t) /\ answer'[t] = a
  BY <1>1, GiveStep
<1>6. UNCHANGED outcome
  BY <1>1, OutcomeKept DEF Finish
<1>7. phase[t] = "called"
  BY <1>1, PhaseValues DEF phase
<1>. QED
  BY <1>1, <1>4, <1>5, <1>6, <1>7 DEF Store!Get, phase, outcome, answer

\* A call that acted answers, having read everything or not.
LEMMA AnswerSuffices ==
    ASSUME TypeOK, TypeOK', NEW t \in Threads, NEW a, Finish(t, a),
           UNCHANGED <<database, call, view>>, pc[t] \in {"check", "refetch", "scan"},
           own' = own \/ own' = [own EXCEPT ![t].failed = TRUE],
           Store!Answers(t, answer'[t])
    PROVE  Store!Answer(t)
<1>1. Store!Give(t)
  BY GiveStep
<1>2. phase[t] = "acted"
  BY PhaseValues DEF phase
<1>3. \E failed \in BOOLEAN : outcome' = [outcome EXCEPT ![t].failed = failed]
  <2>1. CASE own' = own
    <3>1. own[t] \in Effect
      BY DEF TypeOK, Effect
    <3>2. UNCHANGED outcome /\ outcome[t] = own[t]
      BY <2>1, OutcomeKept DEF Finish, outcome
    <3>3. own[t].failed \in BOOLEAN /\ [own[t] EXCEPT !.failed = own[t].failed] = own[t]
      BY <3>1 DEF Effect
    <3>4. outcome' = [outcome EXCEPT ![t].failed = own[t].failed]
      BY <3>2, <3>3 DEF outcome
    <3>. QED
      BY <3>3, <3>4
  <2>2. CASE own' = [own EXCEPT ![t].failed = TRUE]
    BY <2>2, OutcomeFails DEF Finish
  <2>. QED
    BY <2>1, <2>2
<1>. QED
  BY <1>1, <1>2, <1>3 DEF Store!Answer, phase, outcome, answer

LEMMA StoreAnswerCheck ==
    ASSUME TypeOK, TypeOK', ScanInvariant, ConnectionInvariant, NEW t \in Threads,
           InsertCheck(t) \/ ChangesCheck(t)
    PROVE  Store!Answer(t)
<1>1. Known(t) /\ Standing(t) /\ own[t] \in Effect /\ pc[t] = "check"
  BY Parts, ScanParts DEF TypeOK, Effect, InsertCheck, ChangesCheck
<1>2. outcome[t] = own[t]
  BY <1>1 DEF outcome
<1>3. CASE InsertCheck(t)
  <2>. DEFINE a == [NoReply EXCEPT !.id = ToInt(lastRowid)]
  <2>1. Finish(t, a) /\ UNCHANGED <<database, call, view, own>> /\ call[t].op = "insert_job"
    BY <1>3 DEF InsertCheck
  <2>2. ~a.ok /\ a.rows = <<>> /\ a.id = ToInt(lastRowid)
    BY DEF NoReply
  <2>3. /\ lastRowid \in own[t].id .. MaxId
        /\ own[t].alone => lastRowid = own[t].id
    BY <1>1, <2>1, MaxIdType DEF Known, TypeOK, Effect
  <2>4. answer'[t] = a
    <3>. HIDE DEF a
    <3>. QED
      BY <2>1, GiveStep
  <2>5. \A n : Store!ToInt(n) = ToInt(n)
    BY DEF Store!ToInt, ToInt
  <2>6. Store!Answers(t, answer'[t])
    <3>. HIDE DEF a
    <3>1. /\ ~answer'[t].ok /\ answer'[t].rows = <<>>
          /\ \E i \in outcome[t].id .. MaxId : answer'[t].id = Store!ToInt(i)
          /\ outcome[t].alone => answer'[t].id = Store!ToInt(outcome[t].id)
      BY <1>2, <2>2, <2>3, <2>4, <2>5
    <3>2. call[t].op \notin Store!Lists
      BY <2>1, SameValues DEF ScanOps
    <3>. QED
      BY <2>1, <3>1, <3>2 DEF Store!Answers, outcome, answer
  <2>. HIDE DEF a
  <2>. QED
    BY <1>1, <2>1, <2>6, AnswerSuffices
<1>4. CASE ChangesCheck(t)
  <2>. DEFINE a == [NoReply EXCEPT !.ok = (nChange # 0)]
  <2>1. Finish(t, a) /\ UNCHANGED <<database, call, view, own>> /\ call[t].op # "insert_job"
    BY <1>4 DEF ChangesCheck
  <2>2. a.rows = <<>> /\ a.ok = (nChange # 0)
    BY DEF NoReply
  <2>3. /\ own[t].alone => nChange = own[t].changed
        /\ nChange \in 0 .. 1
        /\ call[t].op \notin ScanOps \cup {"insert_job", "get_job_by_id", "update_job_status"}
    BY <1>1, <2>1 DEF Known, Standing, TypeOK
  <2>4. answer'[t] = a
    <3>. HIDE DEF a
    <3>. QED
      BY <2>1, GiveStep
  <2>5. outcome[t].alone => a.ok = (outcome[t].changed = 1)
    <3>. HIDE DEF a
    <3>1. nChange # 0 <=> nChange = 1
      BY <2>3
    <3>2. ASSUME outcome[t].alone PROVE (nChange # 0) = (outcome[t].changed = 1)
      BY <1>2, <2>3, <3>1, <3>2
    <3>. QED
      BY <2>2, <3>2, Zenon
  <2>6. Store!Answers(t, answer'[t])
    <3>. HIDE DEF a
    <3>1. call[t].op \notin Store!Lists
      BY <2>3, SameValues
    <3>2. answer'[t].rows = <<>> /\ (outcome[t].alone => answer'[t].ok = (outcome[t].changed = 1))
      BY <2>2, <2>4, <2>5
    <3>. QED
      BY <2>3, <3>1, <3>2 DEF Store!Answers, outcome, answer
  <2>. HIDE DEF a
  <2>. QED
    BY <1>1, <2>1, <2>6, AnswerSuffices
<1>. QED
  BY <1>3, <1>4

LEMMA StoreAnswerRead ==
    ASSUME TypeOK, TypeOK', ScanInvariant, ScanInvariant', NEW t \in Threads,
           \/ Refetch(t) \/ ScanDone(t)
           \/ ReadFails(t) /\ pc[t] # "step"
    PROVE  Store!Answer(t)
<1>1. Standing(t)
  BY ScanParts
<1>2. /\ pc[t] \in {"refetch", "scan"} /\ UNCHANGED <<database, call, view>>
      /\ own' = own \/ own' = [own EXCEPT ![t].failed = TRUE]
  BY DEF Refetch, ScanDone, ReadFails
<1>3. CASE pc[t] = "refetch"
  <2>1. call[t].op = "update_job_status"
    BY <1>1, <1>3 DEF Standing
  <2>2. PICK a : Finish(t, a) /\ a.ok /\ a.rows \in {Fetched(call[t].id), <<>>}
    <3>1. \A r : LET a == [NoReply EXCEPT !.ok = TRUE, !.rows = r]
                IN  a.ok /\ a.rows = r
      BY DEF NoReply
    <3>2. [NoReply EXCEPT !.ok = TRUE].ok /\ [NoReply EXCEPT !.ok = TRUE].rows = <<>>
      BY DEF NoReply
    <3>3. \/ Finish(t, [NoReply EXCEPT !.ok = TRUE, !.rows = Fetched(call[t].id)])
          \/ Finish(t, [NoReply EXCEPT !.ok = TRUE])
      BY <1>3 DEF Refetch, ScanDone, ReadFails
    <3>. QED
      BY <3>1, <3>2, <3>3
  <2>3. answer'[t] = a
    BY <1>2, <2>2, GiveStep
  <2>4. answer'[t].ok /\ answer'[t].rows \in {Store!Current(t), <<>>}
    BY <2>2, <2>3, SameCurrent
  <2>5. call[t].op \notin Store!Lists
    BY <2>1, SameValues DEF ScanOps
  <2>6. Store!Answers(t, answer'[t])
    BY <2>1, <2>4, <2>5 DEF Store!Answers, answer
  <2>. QED
    BY <1>2, <2>2, <2>6, AnswerSuffices
<1>4. CASE pc[t] = "scan"
  <2>1. call[t].op \in ScanOps /\ ~reply[t].ok
    BY <1>1, <1>4 DEF Standing
  <2>2. Finish(t, reply[t])
    BY <1>4 DEF Refetch, ScanDone, ReadFails
  <2>3. answer'[t] = reply[t] /\ reply'[t] = reply[t] /\ pc'[t] = "done"
    BY <1>2, <2>2, GiveStep DEF Finish, Go, TypeOK
  <2>4. Consistent(t)' /\ call'[t] = call[t] /\ view'[t] = view[t]
    BY <1>2, ScanParts
  <2>5. outcome'[t] = own'[t]
    BY <2>3 DEF outcome
  <2>6. /\ \A k \in DOMAIN reply[t].rows : reply[t].rows[k] \in view[t].some
        /\ \A k, l \in DOMAIN reply[t].rows :
              reply[t].rows[k].id = reply[t].rows[l].id => k = l
        /\ own'[t].failed
           \/ \A i \in view[t].all : \E k \in DOMAIN reply[t].rows :
                                         reply[t].rows[k].id = ToInt(i)
    BY <2>1, <2>3, <2>4 DEF Consistent, Reported
  <2>7. \A n : Store!ToInt(n) = ToInt(n)
    BY DEF Store!ToInt, ToInt
  <2>8. Store!Answers(t, answer'[t])
    <3>1. call[t].op \in Store!Lists /\ call[t].op \notin {"insert_job", "update_job_status"}
      BY <2>1, SameValues DEF ScanOps
    <3>2. /\ ~answer'[t].ok
          /\ \A k \in DOMAIN answer'[t].rows : answer'[t].rows[k] \in view[t].some
          /\ \A k, l \in DOMAIN answer'[t].rows :
                answer'[t].rows[k].id = answer'[t].rows[l].id => k = l
          /\ outcome'[t].failed
             \/ \A i \in view[t].all : \E k \in DOMAIN answer'[t].rows :
                                           answer'[t].rows[k].id = Store!ToInt(i)
      BY <2>1, <2>3, <2>5, <2>6, <2>7
    <3>. QED
      BY <3>1, <3>2 DEF Store!Answers, answer, outcome
  <2>. QED
    BY <1>2, <2>2, <2>8, AnswerSuffices
<1>. QED
  BY <1>2, <1>3, <1>4

\* A busy statement and a row that is read are seen by no caller.
LEMMA StoreStutter ==
    ASSUME TypeOK, ScanInvariant, NEW t \in Threads, StepBusy(t) \/ ScanRow(t)
    PROVE  UNCHANGED <<jobs, seq, phase, call, outcome, view, answer>>
<1>1. CASE StepBusy(t)
  <2>1. /\ pc[t] = "step" /\ Go(t, "finalize") /\ UNCHANGED <<jobs, seq, call, reply, view>>
        /\ own' = [own EXCEPT ![t].failed = TRUE]
    BY <1>1 DEF StepBusy, database
  <2>2. own[t] = NoEffect
    BY <2>1, ScanParts DEF Standing
  <2>3. UNCHANGED outcome
    <3>1. \A u \in Threads : pc'[u] = IF u = t THEN "finalize" ELSE pc[u]
      BY <2>1 DEF Go, TypeOK
    <3>2. \A u \in Threads \ {t} : own'[u] = own[u]
      BY <2>1 DEF TypeOK
    <3>. QED
      BY <2>1, <2>2, <3>1, <3>2 DEF outcome
  <2>. QED
    BY <2>1, <2>3, PhaseKept, PhaseValues, AnswerKept
<1>2. CASE ScanRow(t)
  <2>1. pc[t] = "scan" /\ UNCHANGED <<jobs, seq, pc, call, own, view>>
    BY <1>2 DEF ScanRow, database
  <2>2. \A u \in Threads \ {t} : reply'[u] = reply[u]
    BY <1>2 DEF ScanRow, TypeOK
  <2>. QED
    BY <2>1, <2>2 DEF phase, outcome, answer
<1>. QED
  BY <1>1, <1>2

-----------------------------------------------------------------------------
LEMMA StoreNext ==
    ASSUME TypeOK, TypeOK', ScanInvariant, ScanInvariant', ConnectionInvariant, [Next]_vars
    PROVE  [Store!Next]_(Store!vars)
<1>s. UNCHANGED <<jobs, seq, phase, call, outcome, view, answer>> => UNCHANGED Store!vars
  BY DEF Store!vars, phase, outcome, answer
<1>1. ASSUME NEW t \in Threads, NEW c \in Calls, Invoke(t, c) PROVE Store!Next
  BY <1>1, StoreBegin DEF Store!Next
<1>2. ASSUME NEW t \in Threads, Advance(t) PROVE [Store!Next]_(Store!vars)
  <2>1. CASE Prepare(t)
    BY <2>1, <1>s, StoreOpen DEF Store!Next
  <2>2. CASE WriteStep(t)
    BY <2>2, StoreInsert, StoreRefuse, StoreChange DEF Store!Next
  <2>3. CASE FinalizeBusy(t)
    BY <2>3, StoreRefuse DEF Store!Next
  <2>4. CASE InsertCheck(t) \/ ChangesCheck(t)
    BY <2>4, StoreAnswerCheck DEF Store!Next
  <2>5. CASE GetStep(t)
    BY <2>5, StoreGet DEF Store!Next
  <2>6. CASE Refetch(t) \/ ScanDone(t)
    BY <2>6, StoreAnswerRead DEF Store!Next
  <2>7. CASE ScanRow(t)
    BY <2>7, <1>s, StoreStutter
  <2>8. CASE Return(t)
    BY <2>8, StoreLeave DEF Store!Next
  <2>. QED
    BY <1>2, <2>1, <2>2, <2>3, <2>4, <2>5, <2>6, <2>7, <2>8 DEF Advance, Work
<1>3. ASSUME NEW t \in Threads, Fault(t) PROVE [Store!Next]_(Store!vars)
  <2>1. CASE PrepareFails(t) \/ CommitFails(t)
    BY <2>1, StoreRefuse DEF Store!Next
  <2>2. CASE StepBusy(t)
    BY <2>2, <1>s, StoreStutter
  <2>3. CASE ReadFails(t)
    BY <2>3, StoreRefuse, StoreAnswerRead DEF Store!Next
  <2>. QED
    BY <1>3, <2>1, <2>2, <2>3 DEF Fault
<1>4. CASE Restart
  BY <1>4, StoreCrash DEF Store!Next
<1>5. CASE UNCHANGED vars
  BY <1>5, <1>s DEF vars, phase, outcome, answer
<1>. QED
  BY <1>1, <1>2, <1>3, <1>4, <1>5 DEF Next

\* The repository keeps every promise of JobStore, for any number of threads,
\* any calls and faults, across restarts, if the ids fit an int.
THEOREM RepositoryImplementsJobStore ==
    ASSUME MaxId < IntLimit
    PROVE  Spec => ImplementsJobStore
<1>1. Init => TypeOK /\ ScanInvariant /\ ConnectionInvariant
  BY InitType, InitStands, InitKnown
<1>2. TypeOK /\ ScanInvariant /\ ConnectionInvariant /\ [Next]_vars
          => (TypeOK /\ ScanInvariant /\ ConnectionInvariant)'
  BY NextType, NextStands, NextKnown
<1>3. (/\ TypeOK /\ ScanInvariant /\ ConnectionInvariant
       /\ (TypeOK /\ ScanInvariant /\ ConnectionInvariant)'
       /\ [Next]_vars) => [Store!Next]_(Store!vars)
  BY StoreNext
<1>. QED
  BY <1>1, <1>2, <1>3, StoreInit, PTL DEF Spec, ImplementsJobStore, Store!Spec
=============================================================================
