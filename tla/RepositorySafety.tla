-------------------------- MODULE RepositorySafety --------------------------
(***************************************************************************)
(* Types, and what the callers of the repository may rely on, proved for   *)
(* any number of threads, any calls, any faults and a table of any size.   *)
(***************************************************************************)
EXTENDS Repository, JobModelProofs

Answer == [ok : BOOLEAN, id : Int, rows : Seq([id : CInt, job : Job])]
Effect == [changed : 0 .. 1, id : 0 .. MaxId, alone : BOOLEAN, failed : BOOLEAN]

Listing == [id : CInt, job : Job]
View == [some : SUBSET Listing, all : SUBSET Ids]

LEMMA MaxIdType == MaxId \in Nat /\ MaxId > 0
  BY RepositoryAssumption

LEMMA InitialValues ==
    /\ NoReply \in Answer
    /\ Failure \in Answer
    /\ NoEffect \in Effect
    /\ NoView \in View
    /\ AnyCall \in Calls
<1>1. AnyCall \in Calls
  BY RepositoryAssumption DEF AnyCall
<1>2. <<>> \in Seq([id : CInt, job : Job])
  OBVIOUS
<1>3. NoReply \in Answer /\ Failure \in Answer
  BY <1>2 DEF NoReply, Failure, Answer
<1>4. NoEffect \in Effect
  BY MaxIdType DEF NoEffect, Effect
<1>. QED
  BY <1>1, <1>3, <1>4 DEF NoView, View

\* A row that is read is a Job object with an int for its id.
LEMMA ReadJobType ==
    ASSUME NEW i \in Ids, NEW row \in Job
    PROVE  ReadJob(i, row) \in [id : CInt, job : Job]
<1>1. ToInt(i) \in CInt
  BY MaxIdType, ToIntIsInt DEF Ids
<1>2. int_to_type(row.type) \in Job_Type /\ int_to_status(row.status) \in Status
  BY DEF int_to_type, int_to_status, Job_Type, Status, ONE_TIME, RECURRING, CRON,
         ACTIVE, CANCELED
<1>. QED
  BY <1>1, <1>2 DEF ReadJob, Job

LEMMA FetchedType ==
    ASSUME jobs \in [Ids -> Job \cup {NoRow}], NEW i
    PROVE  Fetched(i) \in Seq([id : CInt, job : Job])
<1>1. CASE i \in Present
  <2>1. i \in Ids /\ jobs[i] \in Job
    BY <1>1 DEF Present
  <2>. QED
    BY <1>1, <2>1, ReadJobType DEF Fetched
<1>2. CASE i \notin Present
  BY <1>2 DEF Fetched
<1>. QED
  BY <1>1, <1>2

\* What a call asks for and what it finds are jobs.
LEMMA CallType == ASSUME NEW c \in Calls
                  PROVE  /\ c \in Call
                         /\ c.job \in Job
                         /\ c.status \in Status
                         /\ c.time \in Int
                         /\ c.op \in Ops
  BY RepositoryAssumption DEF Call

\* Records of the state keep their type when a field of them is assigned.
LEMMA AnswerUpdate ==
    ASSUME NEW a \in Answer
    PROVE  /\ \A ok \in BOOLEAN : [a EXCEPT !.ok = ok] \in Answer
           /\ \A n \in Int : [a EXCEPT !.id = n] \in Answer
           /\ \A r \in Seq([id : CInt, job : Job]) : [a EXCEPT !.rows = r] \in Answer
           /\ \A ok \in BOOLEAN, r \in Seq([id : CInt, job : Job]) :
                  [a EXCEPT !.ok = ok, !.rows = r] \in Answer
  BY DEF Answer

LEMMA JobUpdate ==
    ASSUME NEW j \in Job
    PROVE  /\ \A s \in Status : [j EXCEPT !.status = s] \in Job
           /\ \A n \in Int : [j EXCEPT !.next_run_time = n] \in Job
           /\ \A n \in Int : [j EXCEPT !.retry_count = n] \in Job
  BY DEF Job

LEMMA EffectUpdate ==
    ASSUME NEW e \in Effect
    PROVE  /\ \A b \in BOOLEAN : [e EXCEPT !.alone = b] \in Effect
           /\ \A b \in BOOLEAN : [e EXCEPT !.failed = b] \in Effect
           /\ \A n \in 0 .. 1 : [e EXCEPT !.changed = n] \in Effect
           /\ \A n \in 0 .. 1, i \in 0 .. MaxId :
                  [e EXCEPT !.changed = n, !.id = i] \in Effect
  BY DEF Effect

LEMMA DisturbType ==
    ASSUME own \in [Threads -> Effect], NEW t, NEW e \in Effect, Disturb(t, e)
    PROVE  own' \in [Threads -> Effect]
<1>1. \A u \in Threads : own[u] \in Effect /\ [own[u] EXCEPT !.alone = FALSE] \in Effect
  BY EffectUpdate
<1>. QED
  BY <1>1 DEF Disturb

\* The rows a table lists are Job objects.
LEMMA EntriesType ==
    ASSUME NEW c, NEW table \in [Ids -> Job \cup {NoRow}]
    PROVE  Entries(c, table) \subseteq Listing
<1>1. ASSUME NEW i \in Matching(c, table) PROVE ReadJob(i, table[i]) \in Listing
  <2>1. i \in Ids /\ table[i] \in Job
    BY DEF Matching
  <2>. QED
    BY <2>1, ReadJobType DEF Listing
<1>. QED
  BY <1>1 DEF Entries

LEMMA LookType ==
    ASSUME view \in [Threads -> View],
           NEW table \in [Ids -> Job \cup {NoRow}], Look(table)
    PROVE  view' \in [Threads -> View]
<1>1. \A u \in Threads : /\ view[u].some \cup Entries(call[u], table) \in SUBSET Listing
                         /\ view[u].all \cap Matching(call[u], table) \in SUBSET Ids
  BY EntriesType DEF View
<1>2. \A u \in Threads : [some |-> view[u].some \cup Entries(call[u], table),
                         all  |-> view[u].all \cap Matching(call[u], table)] \in View
  BY <1>1 DEF View
<1>. QED
  BY <1>2 DEF Look

\* One UPDATE or DELETE keeps the table a table if what it writes is a row.
LEMMA WriteType ==
    ASSUME TypeOK, NEW t \in Threads, NEW condition, NEW row,
           Write(t, condition, row),
           call[t].id \in Present /\ condition => row \in Job \cup {NoRow},
           NEW label \in {"check", "refetch"}, Go(t, label)
    PROVE  TypeOK'
<1>1. jobs' \in [Ids -> Job \cup {NoRow}]
  BY DEF Write, TypeOK
<1>2. nChange' \in 0 .. 1
  BY DEF Write
<1>3. own' \in [Threads -> Effect]
  <2>1. \A n \in 0 .. 1 : [NoEffect EXCEPT !.changed = n] \in Effect
    BY InitialValues, EffectUpdate
  <2>2. PICK n \in 0 .. 1 : Disturb(t, [NoEffect EXCEPT !.changed = n])
    BY DEF Write
  <2>. QED
    BY <2>1, <2>2, DisturbType DEF TypeOK, Effect
<1>4. view' \in [Threads -> View]
  BY <1>1, LookType DEF Write, TypeOK, View, Listing
<1>. QED
  BY <1>1, <1>2, <1>3, <1>4 DEF Write, Go, TypeOK, Effect, View, Listing

\* A function that finishes leaves a thread that is done with an answer.
LEMMA FinishType ==
    ASSUME pc \in [Threads -> {"idle", "prepare", "step", "finalize", "check",
                               "refetch", "scan", "done"}],
           reply \in [Threads -> Answer],
           NEW t \in Threads, NEW a \in Answer, Finish(t, a)
    PROVE  /\ pc' \in [Threads -> {"idle", "prepare", "step", "finalize", "check",
                                   "refetch", "scan", "done"}]
           /\ reply' \in [Threads -> Answer]
  BY DEF Finish, Go

-----------------------------------------------------------------------------
(***************************************************************************)
(* The type invariant.                                                     *)
(***************************************************************************)
Labels == {"idle", "prepare", "step", "finalize", "check", "refetch", "scan", "done"}

LEMMA InitType == Init => TypeOK
<1>. SUFFICES ASSUME Init PROVE TypeOK
  OBVIOUS
<1>1. own \in [Threads -> Effect]
  BY InitialValues DEF Init, Open, Idle
<1>2. reply \in [Threads -> Answer]
  BY InitialValues DEF Init, Open, Idle
<1>. QED
  BY <1>1, <1>2, MaxIdType, InitialValues DEF Init, Open, Idle, TypeOK, Effect, Answer, View, Listing

\* A row in the table that an UPDATE finds.
LEMMA TargetType ==
    ASSUME TypeOK, NEW t \in Threads, call[t].id \in Present
    PROVE  /\ Target(t) \in Job
           /\ \A s \in Status : [Target(t) EXCEPT !.status = s] \in Job
           /\ \A n \in Int : [Target(t) EXCEPT !.next_run_time = n] \in Job
           /\ \A n \in Int : [Target(t) EXCEPT !.retry_count = n] \in Job
<1>1. Target(t) \in Job
  BY DEF Target, Present, TypeOK
<1>. QED
  BY <1>1, JobUpdate

LEMMA WriteStepType ==
    ASSUME TypeOK, NEW t \in Threads, WriteStep(t)
    PROVE  TypeOK'
<1>c. call[t] \in Calls
  BY DEF TypeOK
<1>s. ACTIVE \in Status /\ PAUSED \in Status
  BY DEF Status, ACTIVE, PAUSED, CANCELED
<1>1. CASE InsertStep(t)
  <2>1. NewRowid \in 1 .. MaxId /\ MaxId \in Nat
    BY <1>1, MaxIdType DEF InsertStep, Ids
  <2>2. [call[t].job EXCEPT !.next_run_time = ToInt(@)] \in Job
    <3>1. ToInt(call[t].job.next_run_time) \in Int
      BY <1>c, CallType, ToIntIsInt, IntLimitAssumption DEF Job, CInt
    <3>. QED
      BY <3>1, <1>c, CallType, JobUpdate
  <2>3. own' \in [Threads -> Effect]
    <3>1. [NoEffect EXCEPT !.changed = 1, !.id = NewRowid] \in Effect
      <4>1. 1 \in 0 .. 1 /\ NewRowid \in 0 .. MaxId
        BY <2>1
      <4>. QED
        BY <4>1, InitialValues, EffectUpdate
    <3>. QED
      BY <1>1, <3>1, DisturbType DEF InsertStep, TypeOK, Effect
  <2>j. jobs' \in [Ids -> Job \cup {NoRow}]
    BY <1>1, <2>1, <2>2 DEF InsertStep, TypeOK, Ids
  <2>4. view' \in [Threads -> View]
    BY <1>1, <2>j, LookType DEF InsertStep, TypeOK, View, Listing
  <2>. QED
    <3>1. jobs' \in [Ids -> Job \cup {NoRow}]
      BY <2>j
    <3>2. seq' \in 0 .. MaxId /\ nChange' \in 0 .. 1 /\ lastRowid' \in 0 .. MaxId
      BY <1>1, <2>1 DEF InsertStep
    <3>3. pc' \in [Threads -> Labels]
      BY <1>1 DEF InsertStep, TypeOK, Go, Labels
    <3>4. UNCHANGED <<call, reply, cursor>>
      BY <1>1 DEF InsertStep
    <3>. QED
      BY <2>3, <2>4, <3>1, <3>2, <3>3, <3>4 DEF TypeOK, Effect, Labels, View, Listing
<1>2. CASE InsertFull(t)
  <2>1. [NoEffect EXCEPT !.failed = TRUE] \in Effect
    BY InitialValues, EffectUpdate
  <2>2. own' \in [Threads -> Effect]
    BY <1>2, <2>1, DisturbType DEF InsertFull, TypeOK, Effect
  <2>3. /\ pc' \in [Threads -> Labels]
        /\ reply' \in [Threads -> Answer]
    BY <1>2, InitialValues, FinishType DEF InsertFull, TypeOK, Answer, Labels
  <2>. QED
    <3>1. UNCHANGED <<jobs, seq, lastRowid, call, cursor, view>> /\ nChange' = 0
      BY <1>2 DEF InsertFull, database
    <3>2. nChange' \in 0 .. 1
      BY <3>1
    <3>3. /\ jobs' \in [Ids -> Job \cup {NoRow}]
          /\ seq' \in 0 .. MaxId /\ lastRowid' \in 0 .. MaxId
          /\ call' \in [Threads -> Calls]
          /\ cursor' \in [Threads -> 0 .. MaxId]
          /\ view' \in [Threads -> View]
      BY <3>1 DEF TypeOK, View, Listing
    <3>. QED
      BY <2>2, <2>3, <3>2, <3>3 DEF TypeOK, Effect, Answer, Labels, View, Listing
<1>3. CASE UpdateStatusStep(t)
  BY <1>3, <1>c, CallType, TargetType, WriteType DEF UpdateStatusStep
<1>4. CASE DeleteStep(t)
  BY <1>4, WriteType DEF DeleteStep
<1>5. CASE UpdateJobStep(t)
  BY <1>5, <1>c, CallType, WriteType DEF UpdateJobStep
<1>6. CASE PauseStep(t)
  BY <1>6, <1>s, TargetType, WriteType DEF PauseStep
<1>7. CASE ResumeStep(t)
  BY <1>7, <1>s, TargetType, WriteType DEF ResumeStep
<1>8. CASE UpdateNextRunTimeStep(t)
  BY <1>8, <1>c, CallType, TargetType, WriteType DEF UpdateNextRunTimeStep
<1>9. CASE IncrementRetryStep(t)
  <2>1. call[t].id \in Present =>
            [Target(t) EXCEPT !.retry_count = Target(t).retry_count + 1] \in Job
    BY TargetType DEF Job
  <2>. QED
    BY <1>9, <2>1, WriteType DEF IncrementRetryStep
<1>10. CASE ResetRetryStep(t)
  <2>1. call[t].id \in Present => [Target(t) EXCEPT !.retry_count = 0] \in Job
    BY TargetType DEF Job
  <2>. QED
    BY <1>10, <2>1, WriteType DEF ResetRetryStep
<1>. QED
  BY <1>1, <1>2, <1>3, <1>4, <1>5, <1>6, <1>7, <1>8, <1>9, <1>10 DEF WriteStep

LEMMA EnterLeaveType ==
    ASSUME TypeOK, NEW t \in Threads
    PROVE  /\ \A c \in Calls : Invoke(t, c) => TypeOK'
           /\ Prepare(t) => TypeOK'
           /\ Return(t) => TypeOK'
<1>1. ASSUME NEW c \in Calls, Invoke(t, c) PROVE TypeOK'
  BY <1>1 DEF Invoke, Go, TypeOK, database, connection
<1>2. ASSUME Prepare(t) PROVE TypeOK'
  <2>1. view' \in [Threads -> View]
    <3>. DEFINE window == [some |-> Entries(call[t], jobs),
                           all  |-> Matching(call[t], jobs)]
    <3>1. window \in View
      BY EntriesType DEF Matching, TypeOK, View
    <3>2. view' = view \/ view' = [view EXCEPT ![t] = window]
      BY <1>2 DEF Prepare
    <3>. HIDE DEF window
    <3>. QED
      BY <3>1, <3>2 DEF TypeOK, View, Listing
  <2>2. pc' \in [Threads -> Labels]
    BY <1>2 DEF Prepare, Go, TypeOK, Labels
  <2>. QED
    BY <1>2, <2>1, <2>2 DEF Prepare, TypeOK, Labels, View, Listing, database, connection
<1>3. ASSUME Return(t) PROVE TypeOK'
  <2>1. reply' \in [Threads -> Answer]
    BY <1>3, InitialValues DEF Return, TypeOK, Answer
  <2>2. own' \in [Threads -> Effect]
    BY <1>3, InitialValues DEF Return, TypeOK, Effect
  <2>3. view' \in [Threads -> View]
    BY <1>3, InitialValues DEF Return, TypeOK, View, Listing
  <2>4. call' \in [Threads -> Calls] /\ cursor' \in [Threads -> 0 .. MaxId]
    BY <1>3, InitialValues, MaxIdType DEF Return, TypeOK
  <2>5. pc' \in [Threads -> Labels]
    BY <1>3 DEF Return, Go, TypeOK, Labels
  <2>. QED
    BY <1>3, <2>1, <2>2, <2>3, <2>4, <2>5
       DEF Return, TypeOK, Labels, Answer, Effect, View, Listing, database, connection
<1>. QED
  BY <1>1, <1>2, <1>3

\* What is left of the state when only these parts of it change.
LEMMA RestType ==
    ASSUME TypeOK, nChange' \in 0 .. 1, lastRowid' \in 0 .. MaxId,
           pc' \in [Threads -> Labels], reply' \in [Threads -> Answer],
           own' \in [Threads -> Effect], cursor' \in [Threads -> 0 .. MaxId],
           UNCHANGED <<jobs, seq, call, view>>
    PROVE  TypeOK'
  BY DEF TypeOK, Labels, Answer, Effect

LEMMA FinishOnlyType ==
    ASSUME TypeOK, NEW t \in Threads, NEW a \in Answer, Finish(t, a),
           UNCHANGED <<database, call, cursor, view>>,
           nChange' \in 0 .. 1, lastRowid' \in 0 .. MaxId, own' \in [Threads -> Effect]
    PROVE  TypeOK'
<1>1. pc' \in [Threads -> Labels] /\ reply' \in [Threads -> Answer]
  BY FinishType DEF TypeOK, Answer, Labels
<1>2. cursor' \in [Threads -> 0 .. MaxId]
  BY DEF TypeOK
<1>. QED
  BY <1>1, <1>2, RestType DEF database

LEMMA CheckType ==
    ASSUME TypeOK, NEW t \in Threads,
           InsertCheck(t) \/ ChangesCheck(t) \/ GetStep(t) \/ Refetch(t) \/ ScanDone(t)
    PROVE  TypeOK'
<1>u. /\ UNCHANGED <<database, call, cursor, view>>
      /\ nChange' \in 0 .. 1 /\ lastRowid' \in 0 .. MaxId
      /\ own' \in [Threads -> Effect]
  BY DEF InsertCheck, ChangesCheck, GetStep, Refetch, ScanDone, TypeOK, Effect, connection
<1>f. Fetched(call[t].id) \in Seq([id : CInt, job : Job])
  BY FetchedType DEF TypeOK
<1>1. CASE InsertCheck(t)
  <2>1. ToInt(lastRowid) \in Int
    BY ToIntIsInt, IntLimitAssumption DEF TypeOK, CInt
  <2>2. [NoReply EXCEPT !.id = ToInt(lastRowid)] \in Answer
    BY <2>1, InitialValues, AnswerUpdate
  <2>. QED
    BY <1>1, <1>u, <2>2, FinishOnlyType DEF InsertCheck
<1>2. CASE ChangesCheck(t)
  <2>1. [NoReply EXCEPT !.ok = (nChange # 0)] \in Answer
    BY InitialValues, AnswerUpdate
  <2>. QED
    BY <1>2, <1>u, <2>1, FinishOnlyType DEF ChangesCheck
<1>3. CASE GetStep(t)
  <2>1. [NoReply EXCEPT !.ok = (call[t].id \in Present),
                        !.rows = Fetched(call[t].id)] \in Answer
    <3>1. (call[t].id \in Present) \in BOOLEAN
      OBVIOUS
    <3>. QED
      BY <1>f, <3>1, InitialValues, AnswerUpdate
  <2>. QED
    BY <1>3, <1>u, <2>1, FinishOnlyType DEF GetStep
<1>4. CASE Refetch(t)
  <2>1. [NoReply EXCEPT !.ok = TRUE, !.rows = Fetched(call[t].id)] \in Answer
    BY <1>f, InitialValues, AnswerUpdate
  <2>. QED
    BY <1>4, <1>u, <2>1, FinishOnlyType DEF Refetch
<1>5. CASE ScanDone(t)
  <2>1. reply[t] \in Answer
    BY DEF TypeOK, Answer
  <2>. QED
    BY <1>5, <1>u, <2>1, FinishOnlyType DEF ScanDone
<1>. QED
  BY <1>1, <1>2, <1>3, <1>4, <1>5

LEMMA ScanRowType == ASSUME TypeOK, NEW t \in Threads, ScanRow(t) PROVE TypeOK'
<1>1. PICK i \in Ahead(t) :
          /\ cursor' = [cursor EXCEPT ![t] = i]
          /\ reply' = [reply EXCEPT ![t].rows = Append(@, ReadJob(i, jobs[i]))]
  BY DEF ScanRow
<1>2. i \in Ids /\ jobs[i] \in Job
  BY DEF Ahead, Matching, TypeOK
<1>3. reply' \in [Threads -> Answer]
  <2>1. reply[t] \in Answer
    BY DEF TypeOK, Answer
  <2>2. Append(reply[t].rows, ReadJob(i, jobs[i])) \in Seq([id : CInt, job : Job])
    BY <1>2, <2>1, ReadJobType DEF Answer
  <2>3. [reply[t] EXCEPT !.rows = Append(reply[t].rows, ReadJob(i, jobs[i]))] \in Answer
    BY <2>1, <2>2, AnswerUpdate
  <2>. QED
    BY <1>1, <2>3 DEF TypeOK, Answer
<1>4. cursor' \in [Threads -> 0 .. MaxId]
  BY <1>1, <1>2, MaxIdType DEF TypeOK, Ids
<1>. QED
  BY <1>3, <1>4, RestType
     DEF ScanRow, TypeOK, Labels, Effect, database, connection

LEMMA FaultType ==
    ASSUME TypeOK, NEW t \in Threads, Fault(t) \/ FinalizeBusy(t)
    PROVE  TypeOK'
<1>o. own[t] \in Effect /\ [own[t] EXCEPT !.failed = TRUE] \in Effect
  BY EffectUpdate DEF TypeOK, Effect
<1>f. [own EXCEPT ![t].failed = TRUE] \in [Threads -> Effect]
  BY <1>o DEF TypeOK, Effect
<1>1. CASE PrepareFails(t)
  <2>1. \A rc \in ErrorCodes : [NoReply EXCEPT !.id = rc] \in Answer
    <3>1. \A rc \in ErrorCodes : rc \in Int
      BY RepositoryAssumption
    <3>. QED
      BY <3>1, InitialValues, AnswerUpdate
  <2>2. \E a \in Answer : Finish(t, a)
    BY <1>1, <2>1, InitialValues DEF PrepareFails
  <2>. QED
    BY <1>1, <1>f, <2>2, FinishOnlyType DEF PrepareFails, TypeOK, connection
<1>2. CASE StepBusy(t)
  <2>1. pc' \in [Threads -> Labels]
    BY <1>2 DEF StepBusy, Go, TypeOK, Labels
  <2>2. UNCHANGED <<jobs, seq, nChange, lastRowid, call, reply, cursor, view>>
    BY <1>2 DEF StepBusy, database, connection
  <2>3. own' \in [Threads -> Effect]
    BY <1>2, <1>f DEF StepBusy
  <2>4. /\ nChange' \in 0 .. 1 /\ lastRowid' \in 0 .. MaxId
        /\ reply' \in [Threads -> Answer] /\ cursor' \in [Threads -> 0 .. MaxId]
    BY <2>2 DEF TypeOK, Answer
  <2>. QED
    BY <2>1, <2>2, <2>3, <2>4, RestType
<1>3. CASE FinalizeBusy(t)
  <2>1. own' \in [Threads -> Effect]
    BY <1>3, <1>o, DisturbType DEF FinalizeBusy, TypeOK, Effect
  <2>2. /\ UNCHANGED <<database, call, cursor, view>>
        /\ nChange' \in 0 .. 1 /\ lastRowid' \in 0 .. MaxId
    <3>1. UNCHANGED <<database, lastRowid, call, cursor, view>> /\ nChange' = 0
      BY <1>3 DEF FinalizeBusy
    <3>. QED
      BY <3>1 DEF TypeOK
  <2>3. Finish(t, Failure)
    BY <1>3 DEF FinalizeBusy
  <2>. QED
    BY <2>1, <2>2, <2>3, InitialValues, FinishOnlyType
<1>4. CASE CommitFails(t)
  <2>1. lastRowid' \in 0 .. MaxId
    BY <1>4, MaxIdType DEF CommitFails, TypeOK, Ids
  <2>2. [NoEffect EXCEPT !.failed = TRUE] \in Effect
    BY InitialValues, EffectUpdate
  <2>3. own' \in [Threads -> Effect]
    BY <1>4, <2>2, DisturbType DEF CommitFails, TypeOK, Effect
  <2>. QED
    BY <1>4, <2>1, <2>3, InitialValues, FinishOnlyType DEF CommitFails
<1>5. CASE ReadFails(t)
  <2>1. reply[t] \in Answer /\ [NoReply EXCEPT !.ok = TRUE] \in Answer
    BY InitialValues, AnswerUpdate DEF TypeOK, Answer
  <2>2. \E a \in Answer : Finish(t, a)
    BY <1>5, <2>1, InitialValues DEF ReadFails
  <2>. QED
    BY <1>5, <1>f, <2>2, FinishOnlyType DEF ReadFails, TypeOK, connection
<1>. QED
  BY <1>1, <1>2, <1>3, <1>4, <1>5 DEF Fault

LEMMA RestartType == TypeOK /\ Restart => TypeOK'
<1>. SUFFICES ASSUME TypeOK, Restart PROVE TypeOK'
  OBVIOUS
<1>1. own' \in [Threads -> Effect] /\ reply' \in [Threads -> Answer]
  BY InitialValues DEF Restart, Idle
<1>. QED
  BY <1>1, MaxIdType, InitialValues DEF Restart, Idle, TypeOK, Effect, Answer, View, Listing, database

LEMMA NextType == TypeOK /\ [Next]_vars => TypeOK'
<1>. SUFFICES ASSUME TypeOK, [Next]_vars PROVE TypeOK'
  OBVIOUS
<1>1. CASE \E t \in Threads : \E c \in Calls : Invoke(t, c)
  BY <1>1, EnterLeaveType
<1>2. CASE \E t \in Threads : Advance(t)
  BY <1>2, EnterLeaveType, WriteStepType, CheckType, ScanRowType, FaultType
     DEF Advance, Work
<1>3. CASE \E t \in Threads : Fault(t)
  BY <1>3, FaultType
<1>4. CASE Restart
  BY <1>4, RestartType
<1>5. CASE UNCHANGED vars
  BY <1>5 DEF vars, TypeOK
<1>. QED
  BY <1>1, <1>2, <1>3, <1>4, <1>5 DEF Next

\* Every variable of the repository keeps its type, for any number of threads
\* and any table, under every fault and restart.
THEOREM TypeCorrect == Spec => []TypeOK
<1>1. Init => TypeOK
  BY InitType
<1>2. TypeOK /\ [Next]_vars => TypeOK'
  BY NextType
<1>. QED
  BY <1>1, <1>2, PTL DEF Spec

-----------------------------------------------------------------------------
\* ConnectionInvariant, taken apart: what it says of the rowids and of one
\* thread.
Rowids == (\A i \in Present : i <= seq) /\ lastRowid <= seq + 1

Told(t) ==
    pc[t] = "done" =>
        /\ own[t].alone /\ call[t].op \in Counted => reply[t].ok = (own[t].changed = 1)
        /\ own[t].alone /\ call[t].op = "insert_job" /\ own[t].id # 0 =>
               reply[t].id = ToInt(own[t].id)
        /\ call[t].op = "insert_job" /\ own[t].id # 0 =>
               \E i \in own[t].id .. MaxId : reply[t].id = ToInt(i)

LEMMA Parts == ConnectionInvariant <=> Rowids /\ \A t \in Threads : Known(t) /\ Told(t)
  BY DEF ConnectionInvariant, RepliesExactWhenAlone, ReturnedIdNotOlder, Rowids, Told

LEMMA PartsNext ==
    ConnectionInvariant' <=> Rowids' /\ \A t \in Threads : Known(t)' /\ Told(t)'
  BY DEF ConnectionInvariant, RepliesExactWhenAlone, ReturnedIdNotOlder, Rowids, Told, Known

\* An AUTOINCREMENT rowid is one above the counter.
LEMMA NewRowidIsNext ==
    ASSUME TypeOK, Rowids
    PROVE  NewRowid = seq + 1
<1>1. seq \in Int /\ Present \subseteq Int
  BY MaxIdType DEF TypeOK, Present, Ids
<1>. DEFINE Above(m) == \A i \in Present \cup {seq} : i <= m
            largest == CHOOSE m \in Present \cup {seq} : Above(m)
<1>2. \A m \in Present \cup {seq} : Above(m) <=> m = seq
  BY <1>1 DEF Rowids
<1>3. \E m \in Present \cup {seq} : Above(m)
  BY <1>2
<1>4. largest \in Present \cup {seq} /\ Above(largest)
  <2>. HIDE DEF Above
  <2>. QED
    BY <1>3
<1>5. largest = seq
  BY <1>2, <1>4
<1>6. NewRowid = 1 + largest
  BY DEF NewRowid
<1>. HIDE DEF largest
<1>. QED
  BY <1>1, <1>5, <1>6

-----------------------------------------------------------------------------
(***************************************************************************)
(* A step of one thread and what the others know.                          *)
(***************************************************************************)
Apart(t) == \A u \in Threads \ {t} :
                pc'[u] = pc[u] /\ call'[u] = call[u] /\ reply'[u] = reply[u]

\* The step leaves the connection alone.
LEMMA QuietStep ==
    ASSUME ConnectionInvariant, NEW t \in Threads, Apart(t),
           \A u \in Threads \ {t} : own'[u] = own[u],
           UNCHANGED connection, seq' = seq, Present' \subseteq Present,
           Known(t)', Told(t)'
    PROVE  ConnectionInvariant'
<1>1. Rowids'
  BY Parts DEF Rowids, connection
<1>2. \A u \in Threads \ {t} : Known(u)' /\ Told(u)'
  BY Parts DEF Known, Told, Apart, connection
<1>. QED
  BY <1>1, <1>2, PartsNext

\* The step writes to the connection: the others that have yet to look at it
\* are not alone any more, and its rowid is no older than before.
LEMMA LoudStep ==
    ASSUME TypeOK, ConnectionInvariant, NEW t \in Threads, Apart(t),
           NEW effect, Disturb(t, effect),
           lastRowid' \in Nat, lastRowid <= lastRowid', Rowids',
           Known(t)', Told(t)'
    PROVE  ConnectionInvariant'
<1>1. ASSUME NEW u \in Threads \ {t} PROVE Known(u)' /\ Told(u)'
  <2>o. own[u] \in Effect /\ lastRowid \in Nat
    BY MaxIdType DEF TypeOK, Effect
  <2>k. Known(u) /\ Told(u) /\ pc'[u] = pc[u] /\ call'[u] = call[u] /\ reply'[u] = reply[u]
    BY Parts DEF Apart
  <2>1. CASE pc[u] = "check"
    <3>1. own'[u] = [own[u] EXCEPT !.alone = FALSE]
      BY <2>1 DEF Disturb
    <3>2. own'[u].alone = FALSE /\ own'[u].id = own[u].id
      BY <2>o, <3>1 DEF Effect
    <3>3. call[u].op = "insert_job" => own'[u].id \in 1 .. lastRowid'
      BY <2>o, <2>k, <2>1, <3>2 DEF Known, Effect
    <3>. QED
      BY <2>k, <2>1, <3>2, <3>3 DEF Known, Told
  <2>2. CASE pc[u] # "check"
    <3>1. own'[u] = own[u]
      BY <2>2 DEF Disturb
    <3>. QED
      BY <2>k, <2>2, <3>1 DEF Known, Told
  <2>. QED
    BY <2>1, <2>2
<1>. QED
  BY <1>1, PartsNext

\* A thread that goes to another call leaves the others where they are.
LEMMA GoApart ==
    ASSUME TypeOK, NEW t \in Threads, NEW label, Go(t, label)
    PROVE  /\ UNCHANGED <<call, reply>> => Apart(t)
           /\ pc'[t] = label
  BY DEF Go, Apart, TypeOK

LEMMA FinishApart ==
    ASSUME TypeOK, NEW t \in Threads, NEW a, Finish(t, a)
    PROVE  /\ UNCHANGED call => Apart(t)
           /\ pc'[t] = "done"
           /\ reply'[t] = a
  BY DEF Finish, Go, Apart, TypeOK

LEMMA DisturbOwn ==
    ASSUME NEW t \in Threads, NEW effect, Disturb(t, effect)
    PROVE  own'[t] = effect
  BY DEF Disturb

\* Entering a function, and each of its calls that does not write.
LEMMA EnterKnown ==
    ASSUME TypeOK, ConnectionInvariant, NEW t \in Threads,
           (\E c \in Calls : Invoke(t, c)) \/ Prepare(t) \/ StepBusy(t)
    PROVE  ConnectionInvariant'
<1>o. own[t] \in Effect /\ Known(t)
  BY Parts DEF TypeOK, Effect
<1>j. Present' \subseteq Present /\ seq' = seq /\ UNCHANGED connection
  BY DEF Invoke, Prepare, StepBusy, database, Present
<1>1. PICK label \in {"prepare", "step", "scan", "finalize"} :
          Go(t, label) /\ pc[t] \in {"idle", "prepare", "step"}
  BY DEF Invoke, Prepare, StepBusy
<1>2. pc'[t] = label /\ Apart(t)
  <2>1. CASE \E c \in Calls : Invoke(t, c)
    BY <1>1, <2>1, GoApart DEF Invoke, Go, Apart, TypeOK
  <2>2. CASE Prepare(t) \/ StepBusy(t)
    BY <1>1, <2>2, GoApart DEF Prepare, StepBusy
  <2>. QED
    BY <2>1, <2>2
<1>3. /\ \A u \in Threads \ {t} : own'[u] = own[u]
      /\ own'[t].changed = own[t].changed /\ own'[t].id = own[t].id
  <2>1. CASE StepBusy(t)
    <3>1. own' = [own EXCEPT ![t].failed = TRUE]
      BY <2>1 DEF StepBusy
    <3>. QED
      BY <1>o, <3>1 DEF TypeOK, Effect
  <2>2. CASE UNCHANGED own
    BY <2>2
  <2>. QED
    BY <2>1, <2>2 DEF Invoke, Prepare
<1>4. label = "scan" => call'[t].op \in ScanOps
  BY <1>2 DEF Invoke, Prepare, StepBusy, Go, TypeOK
<1>5. Known(t)' /\ Told(t)'
  BY <1>o, <1>1, <1>2, <1>3, <1>4 DEF Known, Told
<1>. QED
  BY <1>j, <1>2, <1>3, <1>5, QuietStep

LEMMA ReturnKnown ==
    ASSUME TypeOK, ConnectionInvariant, NEW t \in Threads, Return(t)
    PROVE  ConnectionInvariant'
<1>1. pc'[t] = "idle" /\ Apart(t)
  BY DEF Return, Go, Apart, TypeOK
<1>2. own'[t] = NoEffect /\ \A u \in Threads \ {t} : own'[u] = own[u]
  BY DEF Return, TypeOK
<1>3. Known(t)' /\ Told(t)'
  BY <1>1, <1>2 DEF Known, Told, NoEffect
<1>4. Present' \subseteq Present /\ seq' = seq /\ UNCHANGED connection
  BY DEF Return, database, Present
<1>. QED
  BY <1>1, <1>2, <1>3, <1>4, QuietStep

\* The answers a thread may leave with.
LEMMA CountedOps ==
    /\ "insert_job" \notin Counted /\ "get_job_by_id" \notin Counted
    /\ "update_job_status" \notin Counted
    /\ \A op \in ScanOps : op \notin Counted /\ op # "insert_job"
  BY DEF Counted, UpdateOps, ScanOps

LEMMA FinishKnown ==
    ASSUME TypeOK, ConnectionInvariant, NEW t \in Threads, NEW a, Finish(t, a),
           UNCHANGED <<database, connection, call>>,
           own' = own \/ own' = [own EXCEPT ![t].failed = TRUE],
           \/ /\ call[t].op \notin Counted
              /\ call[t].op # "insert_job"
           \/ own[t].changed = 0 /\ own[t].id = 0 /\ a.ok = FALSE
    PROVE  ConnectionInvariant'
<1>o. own[t] \in Effect
  BY DEF TypeOK, Effect
<1>1. pc'[t] = "done" /\ reply'[t] = a /\ Apart(t) /\ call'[t] = call[t]
  BY FinishApart
<1>2. /\ \A u \in Threads \ {t} : own'[u] = own[u]
      /\ own'[t].changed = own[t].changed /\ own'[t].id = own[t].id
  BY <1>o DEF TypeOK, Effect
<1>3. Known(t)'
  BY <1>1 DEF Known
<1>4. Told(t)'
  <2>1. CASE call[t].op \notin Counted /\ call[t].op # "insert_job"
    BY <1>1, <2>1 DEF Told
  <2>2. CASE own[t].changed = 0 /\ own[t].id = 0 /\ a.ok = FALSE
    <3>1. ~(own'[t].changed = 1)
      BY <1>2, <2>2
    <3>2. reply'[t].ok = FALSE
      BY <1>1, <2>2
    <3>3. reply'[t].ok = (own'[t].changed = 1)
      BY <3>1, <3>2, Zenon
    <3>4. own'[t].id = 0
      BY <1>2, <2>2
    <3>. QED
      BY <3>3, <3>4 DEF Told
  <2>. QED
    BY <2>1, <2>2
<1>5. Present' \subseteq Present /\ seq' = seq
  BY DEF database, Present
<1>. QED
  BY <1>1, <1>2, <1>3, <1>4, <1>5, QuietStep

\* Every read, and a prepare that fails.
LEMMA ReadKnown ==
    ASSUME TypeOK, ConnectionInvariant, NEW t \in Threads,
           GetStep(t) \/ Refetch(t) \/ ScanDone(t) \/ ReadFails(t) \/ PrepareFails(t)
    PROVE  ConnectionInvariant'
<1>k. Known(t)
  BY Parts
<1>1. CASE GetStep(t)
  <2>1. call[t].op \notin Counted /\ call[t].op # "insert_job"
    BY <1>1, CountedOps DEF GetStep
  <2>. QED
    BY <1>1, <2>1, FinishKnown DEF GetStep
<1>2. CASE Refetch(t)
  <2>1. call[t].op \notin Counted /\ call[t].op # "insert_job"
    BY <1>2, <1>k, CountedOps DEF Refetch, Known
  <2>. QED
    BY <1>2, <2>1, FinishKnown DEF Refetch
<1>3. CASE ScanDone(t)
  <2>1. call[t].op \notin Counted /\ call[t].op # "insert_job"
    BY <1>3, <1>k, CountedOps DEF ScanDone, Known
  <2>. QED
    BY <1>3, <2>1, FinishKnown DEF ScanDone
<1>4. CASE ReadFails(t)
  <2>1. call[t].op \notin Counted /\ call[t].op # "insert_job"
    BY <1>4, <1>k, CountedOps DEF ReadFails, Known
  <2>2. \E a : Finish(t, a)
    BY <1>4 DEF ReadFails
  <2>. QED
    BY <1>4, <2>1, <2>2, FinishKnown DEF ReadFails
<1>5. CASE PrepareFails(t)
  <2>1. own[t].changed = 0 /\ own[t].id = 0
    BY <1>5, <1>k DEF PrepareFails, Known
  <2>2. PICK rc \in ErrorCodes :
            Finish(t, CASE call[t].op = "insert_job" -> [NoReply EXCEPT !.id = rc]
                        [] call[t].op \in ScanOps -> NoReply
                        [] OTHER -> Failure)
    BY <1>5 DEF PrepareFails
  <2>3. \E a : Finish(t, a) /\ a.ok = FALSE
    <3>1. [NoReply EXCEPT !.id = rc].ok = FALSE /\ NoReply.ok = FALSE /\ Failure.ok = FALSE
      BY DEF NoReply, Failure
    <3>2. \/ Finish(t, [NoReply EXCEPT !.id = rc])
          \/ Finish(t, NoReply)
          \/ Finish(t, Failure)
      BY <2>2, CountedOps
    <3>. QED
      BY <3>1, <3>2
  <2>. QED
    BY <1>5, <2>1, <2>3, FinishKnown DEF PrepareFails
<1>. QED
  BY <1>1, <1>2, <1>3, <1>4, <1>5

LEMMA ScanRowKnown ==
    ASSUME TypeOK, ConnectionInvariant, NEW t \in Threads, ScanRow(t)
    PROVE  ConnectionInvariant'
<1>1. /\ pc[t] = "scan" /\ UNCHANGED <<pc, call, own>> /\ UNCHANGED connection
      /\ Present' \subseteq Present /\ seq' = seq
  BY DEF ScanRow, database, Present
<1>2. Apart(t)
  BY <1>1 DEF ScanRow, Apart, TypeOK
<1>3. Known(t)' /\ Told(t)'
  BY <1>1, Parts DEF Known, Told
<1>. QED
  BY <1>1, <1>2, <1>3, QuietStep

\* The look at the connection after a write.
LEMMA CheckKnown ==
    ASSUME TypeOK, ConnectionInvariant, NEW t \in Threads,
           InsertCheck(t) \/ ChangesCheck(t)
    PROVE  ConnectionInvariant'
<1>o. own[t] \in Effect /\ Known(t) /\ pc[t] = "check" /\ lastRowid \in 0 .. MaxId
  BY Parts DEF TypeOK, Effect, InsertCheck, ChangesCheck
<1>u. /\ UNCHANGED <<connection, call, own>> /\ Present' \subseteq Present /\ seq' = seq
      /\ \A u \in Threads \ {t} : own'[u] = own[u]
  BY DEF InsertCheck, ChangesCheck, database, Present
<1>1. CASE InsertCheck(t)
  <2>1. /\ pc'[t] = "done" /\ Apart(t) /\ call'[t].op = "insert_job"
        /\ reply'[t] = [NoReply EXCEPT !.id = ToInt(lastRowid)]
    BY <1>1, <1>u, FinishApart DEF InsertCheck
  <2>2. reply'[t].id = ToInt(lastRowid)
    BY <2>1 DEF NoReply
  <2>3. /\ own[t].id \in 1 .. lastRowid
        /\ own[t].alone => lastRowid = own[t].id
    BY <1>1, <1>o DEF Known, InsertCheck
  <2>4. lastRowid \in own[t].id .. MaxId
    BY <1>o, <2>3, MaxIdType DEF Effect
  <2>5. Known(t)' /\ Told(t)'
    BY <1>u, <2>1, <2>2, <2>3, <2>4, CountedOps DEF Known, Told
  <2>. QED
    BY <1>u, <2>1, <2>5, QuietStep
<1>2. CASE ChangesCheck(t)
  <2>1. /\ pc'[t] = "done" /\ Apart(t) /\ call'[t].op # "insert_job"
        /\ reply'[t] = [NoReply EXCEPT !.ok = (nChange # 0)]
    BY <1>2, <1>u, FinishApart DEF ChangesCheck
  <2>2. reply'[t].ok = (nChange # 0)
    BY <2>1 DEF NoReply
  <2>3. own[t].alone => nChange = own[t].changed
    BY <1>2, <1>o DEF Known, ChangesCheck
  <2>4. own[t].alone => (nChange # 0 <=> own[t].changed = 1)
    BY <1>o, <2>3 DEF Effect
  <2>5. own[t].alone => reply'[t].ok = (own[t].changed = 1)
    BY <2>2, <2>4, Zenon
  <2>6. Known(t)' /\ Told(t)'
    BY <1>u, <2>1, <2>5 DEF Known, Told
  <2>. QED
    BY <1>u, <2>1, <2>6, QuietStep
<1>. QED
  BY <1>1, <1>2

\* A statement that fails after the engine has touched the connection.
LEMMA FailKnown ==
    ASSUME TypeOK, ConnectionInvariant, NEW t \in Threads, NEW effect,
           Disturb(t, effect), effect.changed = 0, effect.id = 0,
           Finish(t, Failure), UNCHANGED <<database, call>>,
           lastRowid' \in Nat, lastRowid <= lastRowid', lastRowid' <= seq + 1
    PROVE  ConnectionInvariant'
<1>1. pc'[t] = "done" /\ reply'[t] = Failure /\ Apart(t)
  BY FinishApart
<1>2. own'[t].changed = 0 /\ own'[t].id = 0
  BY DisturbOwn
<1>3. reply'[t].ok = (own'[t].changed = 1)
  <2>1. reply'[t].ok = FALSE
    BY <1>1 DEF Failure
  <2>2. ~(own'[t].changed = 1)
    BY <1>2
  <2>. QED
    BY <2>1, <2>2, Zenon
<1>4. Known(t)' /\ Told(t)'
  BY <1>1, <1>2, <1>3 DEF Known, Told
<1>5. Rowids'
  BY Parts DEF Rowids, Present, database
<1>. QED
  BY <1>1, <1>4, <1>5, LoudStep

LEMMA FailuresKnown ==
    ASSUME TypeOK, ConnectionInvariant, NEW t \in Threads,
           InsertFull(t) \/ FinalizeBusy(t) \/ CommitFails(t)
    PROVE  ConnectionInvariant'
<1>r. Rowids /\ Known(t) /\ lastRowid \in Nat
  BY Parts, MaxIdType DEF TypeOK
<1>e. [NoEffect EXCEPT !.failed = TRUE].changed = 0 /\ [NoEffect EXCEPT !.failed = TRUE].id = 0
  BY DEF NoEffect
<1>1. CASE InsertFull(t)
  <2>1. lastRowid' = lastRowid
    BY <1>1 DEF InsertFull
  <2>2. Disturb(t, [NoEffect EXCEPT !.failed = TRUE])
    BY <1>1 DEF InsertFull
  <2>3. PICK effect : Disturb(t, effect) /\ effect.changed = 0 /\ effect.id = 0
    BY <1>e, <2>2
  <2>4. Finish(t, Failure) /\ UNCHANGED <<database, call>>
    BY <1>1 DEF InsertFull
  <2>5. lastRowid' <= seq + 1 /\ lastRowid <= lastRowid'
    BY <1>r, <2>1 DEF Rowids
  <2>. QED
    BY <1>r, <2>1, <2>3, <2>4, <2>5, FailKnown
<1>2. CASE FinalizeBusy(t)
  <2>1. lastRowid' = lastRowid /\ own[t].changed = 0 /\ own[t].id = 0
    BY <1>2, <1>r DEF FinalizeBusy, Known
  <2>. QED
    BY <1>2, <1>r, <2>1, FailKnown DEF FinalizeBusy, Rowids
<1>3. CASE CommitFails(t)
  <2>1. lastRowid' \in Nat /\ lastRowid <= lastRowid' /\ lastRowid' <= seq + 1
    <3>1. NewRowid = seq + 1
      BY <1>r, NewRowidIsNext
    <3>n. seq \in Nat
      BY MaxIdType DEF TypeOK
    <3>2. lastRowid' = NewRowid \/ lastRowid' = lastRowid
      BY <1>3 DEF CommitFails
    <3>. QED
      BY <1>r, <3>1, <3>n, <3>2 DEF Rowids
  <2>. QED
    BY <1>3, <1>e, <2>1, FailKnown DEF CommitFails
<1>. QED
  BY <1>1, <1>2, <1>3

\* An UPDATE or a DELETE adds no row and gives out no rowid.
LEMMA WriteKnown ==
    ASSUME TypeOK, ConnectionInvariant, NEW t \in Threads, NEW condition, NEW row,
           Write(t, condition, row), NEW label \in {"check", "refetch"}, Go(t, label),
           call[t].op # "insert_job",
           label = "refetch" => call[t].op = "update_job_status"
    PROVE  ConnectionInvariant'
<1>1. pc'[t] = label /\ Apart(t) /\ call' = call /\ lastRowid' = lastRowid
  BY GoApart DEF Write
<1>2. PICK n \in 0 .. 1 : Disturb(t, [NoEffect EXCEPT !.changed = n]) /\ nChange' = n
  BY DEF Write
<1>3. own'[t].changed = n
  <2>1. own'[t] = [NoEffect EXCEPT !.changed = n]
    BY <1>2, DisturbOwn
  <2>. QED
    BY <2>1 DEF NoEffect
<1>4. Known(t)' /\ Told(t)'
  BY <1>1, <1>2, <1>3 DEF Known, Told
<1>5. Rowids'
  <2>1. Present' \subseteq Present
    BY DEF Write, Present, TypeOK
  <2>. QED
    BY <1>1, <2>1, Parts DEF Rowids, Write
<1>6. lastRowid' \in Nat /\ lastRowid <= lastRowid'
  BY <1>1, MaxIdType DEF TypeOK
<1>. QED
  BY <1>1, <1>2, <1>4, <1>5, <1>6, LoudStep

LEMMA InsertKnown ==
    ASSUME TypeOK, ConnectionInvariant, NEW t \in Threads, InsertStep(t)
    PROVE  ConnectionInvariant'
<1>r. Rowids /\ seq \in Nat /\ lastRowid \in Nat
  BY Parts, MaxIdType DEF TypeOK
<1>n. NewRowid = seq + 1
  BY <1>r, NewRowidIsNext
<1>1. /\ pc'[t] = "check" /\ Apart(t) /\ call' = call /\ call[t].op = "insert_job"
      /\ lastRowid' = seq + 1 /\ seq' = seq + 1
  BY <1>n, GoApart DEF InsertStep
<1>2. Disturb(t, [NoEffect EXCEPT !.changed = 1, !.id = NewRowid])
  BY DEF InsertStep
<1>3. own'[t].id = seq + 1
  <2>1. own'[t] = [NoEffect EXCEPT !.changed = 1, !.id = NewRowid]
    BY <1>2, DisturbOwn
  <2>. QED
    BY <1>n, <2>1 DEF NoEffect
<1>4. Known(t)' /\ Told(t)'
  BY <1>r, <1>1, <1>3 DEF Known, Told
<1>5. Rowids'
  <2>1. Present' \subseteq Present \cup {seq + 1}
    BY <1>n DEF InsertStep, Present, TypeOK
  <2>2. \A i \in Present' : i <= seq'
    BY <1>r, <1>1, <2>1 DEF Rowids, Present, Ids
  <2>. QED
    BY <1>r, <1>1, <2>2 DEF Rowids
<1>6. lastRowid' \in Nat /\ lastRowid <= lastRowid'
  BY <1>r, <1>1 DEF Rowids
<1>. QED
  BY <1>1, <1>2, <1>4, <1>5, <1>6, LoudStep

LEMMA WriteStepKnown ==
    ASSUME TypeOK, ConnectionInvariant, NEW t \in Threads, WriteStep(t)
    PROVE  ConnectionInvariant'
<1>1. CASE InsertStep(t)
  BY <1>1, InsertKnown
<1>2. CASE InsertFull(t)
  BY <1>2, FailuresKnown
<1>3. CASE UpdateStatusStep(t)
  BY <1>3, WriteKnown DEF UpdateStatusStep
<1>4. CASE DeleteStep(t)
  BY <1>4, WriteKnown DEF DeleteStep
<1>5. CASE UpdateJobStep(t)
  BY <1>5, WriteKnown DEF UpdateJobStep
<1>6. CASE PauseStep(t)
  BY <1>6, WriteKnown DEF PauseStep
<1>7. CASE ResumeStep(t)
  BY <1>7, WriteKnown DEF ResumeStep
<1>8. CASE UpdateNextRunTimeStep(t)
  BY <1>8, WriteKnown DEF UpdateNextRunTimeStep
<1>9. CASE IncrementRetryStep(t)
  BY <1>9, WriteKnown DEF IncrementRetryStep
<1>10. CASE ResetRetryStep(t)
  BY <1>10, WriteKnown DEF ResetRetryStep
<1>. QED
  BY <1>1, <1>2, <1>3, <1>4, <1>5, <1>6, <1>7, <1>8, <1>9, <1>10 DEF WriteStep

-----------------------------------------------------------------------------
(***************************************************************************)
(* The theorems.                                                           *)
(***************************************************************************)
LEMMA InitKnown == Init => ConnectionInvariant
<1>. SUFFICES ASSUME Init PROVE ConnectionInvariant
  OBVIOUS
<1>1. Present = {} /\ seq = 0 /\ lastRowid = 0
  BY DEF Init, Open, Present
<1>2. ASSUME NEW t \in Threads PROVE Known(t) /\ Told(t)
  BY DEF Init, Open, Idle, Known, Told, NoEffect
<1>. QED
  BY <1>1, <1>2, Parts DEF Rowids

LEMMA RestartKnown == TypeOK /\ ConnectionInvariant /\ Restart => ConnectionInvariant'
<1>. SUFFICES ASSUME TypeOK, ConnectionInvariant, Restart PROVE ConnectionInvariant'
  OBVIOUS
<1>1. Rowids'
  <2>1. lastRowid' = 0 /\ seq' = seq /\ Present' = Present /\ seq \in Nat
    BY MaxIdType DEF Restart, Present, TypeOK, database
  <2>. QED
    BY <2>1, Parts DEF Rowids
<1>2. ASSUME NEW t \in Threads PROVE Known(t)' /\ Told(t)'
  BY DEF Restart, Idle, Known, Told, NoEffect
<1>. QED
  BY <1>1, <1>2, PartsNext

LEMMA NextKnown == TypeOK /\ ConnectionInvariant /\ [Next]_vars => ConnectionInvariant'
<1>. SUFFICES ASSUME TypeOK, ConnectionInvariant, [Next]_vars PROVE ConnectionInvariant'
  OBVIOUS
<1>1. CASE \E t \in Threads : \E c \in Calls : Invoke(t, c)
  BY <1>1, EnterKnown
<1>2. CASE \E t \in Threads : Work(t)
  BY <1>2, EnterKnown, WriteStepKnown, FailuresKnown, CheckKnown, ReadKnown, ScanRowKnown
     DEF Work
<1>3. CASE \E t \in Threads : Return(t)
  BY <1>3, ReturnKnown
<1>4. CASE \E t \in Threads : Fault(t)
  BY <1>4, EnterKnown, FailuresKnown, ReadKnown DEF Fault
<1>5. CASE Restart
  BY <1>5, RestartKnown
<1>6. CASE UNCHANGED vars
  <2>1. UNCHANGED <<jobs, seq, nChange, lastRowid, pc, call, reply, own>>
    BY <1>6 DEF vars
  <2>2. Rowids' /\ \A t \in Threads : Known(t)' /\ Told(t)'
    BY <2>1, Parts DEF Rowids, Present, Known, Told
  <2>. QED
    BY <2>2, PartsNext
<1>. QED
  BY <1>1, <1>2, <1>3, <1>4, <1>5, <1>6 DEF Next, Advance

\* The rowid counter bounds the ids, and every thread that is about to look at
\* the shared connection knows of it what ConnectionInvariant says.
THEOREM ConnectionCorrect == Spec => []ConnectionInvariant
<1>1. Init => ConnectionInvariant
  BY InitKnown
<1>2. TypeOK /\ ConnectionInvariant /\ [Next]_vars => ConnectionInvariant'
  BY NextKnown
<1>. QED
  BY <1>1, <1>2, TypeCorrect, PTL DEF Spec

\* delete_job, pause_job, resume_job, update_job and the other functions that
\* read sqlite3_changes(), and insert_job, which reads
\* sqlite3_last_insert_rowid(), tell their caller the truth whenever no other
\* thread wrote between their statement and that read.
THEOREM RepliesExact == Spec => []RepliesExactWhenAlone
<1>1. ConnectionInvariant => RepliesExactWhenAlone
  BY DEF ConnectionInvariant
<1>. QED
  BY <1>1, ConnectionCorrect, PTL

\* With any number of other writers, insert_job never returns the id of a job
\* older than the one it inserted.
THEOREM ReturnedIdIsNotOlder == Spec => []ReturnedIdNotOlder
<1>1. ConnectionInvariant => ReturnedIdNotOlder
  BY DEF ConnectionInvariant
<1>. QED
  BY <1>1, ConnectionCorrect, PTL

\* Only an INSERT adds a row, at the rowid it was given.
LEMMA OnlyInsertAdds ==
    ASSUME TypeOK, Rowids, Next
    PROVE  \/ Present' \subseteq Present
           \/ Present' \subseteq Present \cup {seq + 1} /\ seq' = seq + 1
<1>1. ASSUME NEW t \in Threads, InsertStep(t)
      PROVE  Present' \subseteq Present \cup {seq + 1} /\ seq' = seq + 1
  BY <1>1, NewRowidIsNext DEF InsertStep, Present, TypeOK
<1>2. ASSUME NEW t \in Threads, NEW condition, NEW row, Write(t, condition, row)
      PROVE  Present' \subseteq Present
  BY <1>2 DEF Write, Present, TypeOK
<1>3. ASSUME NEW t \in Threads, WriteStep(t), ~InsertStep(t)
      PROVE  Present' \subseteq Present
  <2>1. CASE InsertFull(t)
    BY <2>1 DEF InsertFull, database, Present
  <2>2. CASE \E condition, row : Write(t, condition, row)
    BY <1>2, <2>2
  <2>. QED
    BY <1>3, <2>1, <2>2
       DEF WriteStep, UpdateStatusStep, DeleteStep, UpdateJobStep, PauseStep, ResumeStep,
           UpdateNextRunTimeStep, IncrementRetryStep, ResetRetryStep
<1>4. \/ \E t \in Threads : WriteStep(t)
      \/ UNCHANGED jobs
  BY DEF Next, Advance, Work, Fault, Invoke, Prepare, Return, FinalizeBusy, InsertCheck,
         ChangesCheck, GetStep, Refetch, ScanRow, ScanDone, PrepareFails, StepBusy,
         CommitFails, ReadFails, Restart, database
<1>5. UNCHANGED jobs => Present' \subseteq Present
  BY DEF Present
<1>. QED
  BY <1>1, <1>3, <1>4, <1>5

\* A job's id is used once: every row that appears has an id above all the ids
\* given out before, through every interleaving, failed commit and restart.
THEOREM IdsAreNew == Spec => IdsNeverReused
<1>1. TypeOK /\ ConnectionInvariant /\ [Next]_vars =>
          [\A i \in Ids : jobs[i] = NoRow /\ jobs'[i] # NoRow => i > seq /\ i <= seq']_vars
  <2>. SUFFICES ASSUME TypeOK, ConnectionInvariant, Next, NEW i \in Ids,
                       jobs[i] = NoRow, jobs'[i] # NoRow
                PROVE  i > seq /\ i <= seq'
    OBVIOUS
  <2>1. i \in Present' /\ i \notin Present
    BY DEF Present
  <2>2. i = seq + 1 /\ seq' = seq + 1
    BY <2>1, OnlyInsertAdds, Parts
  <2>. QED
    BY <2>2, MaxIdType DEF TypeOK
<1>. QED
  BY <1>1, TypeCorrect, ConnectionCorrect, PTL DEF Spec, IdsNeverReused

-----------------------------------------------------------------------------
(***************************************************************************)
(* The retries of a job.                                                   *)
(***************************************************************************)
RespectsRetries(job) == 0 <= job.max_retries /\ job.retry_count <= job.max_retries

\* RetryBounded says nothing of max_retries itself, which reset_retry_count
\* relies on.
RowsRespectRetries == \A i \in Present : RespectsRetries(jobs[i])

\* Every row after a step is an unchanged row, or the one row that was written.
LEMMA WriteRespects ==
    ASSUME TypeOK, RowsRespectRetries, NEW t \in Threads, NEW condition, NEW row,
           Write(t, condition, row),
           call[t].id \in Present /\ condition /\ row # NoRow => RespectsRetries(row)
    PROVE  RowsRespectRetries'
<1>1. ASSUME NEW i \in Ids, jobs'[i] # NoRow PROVE RespectsRetries(jobs'[i])
  <2>1. CASE jobs'[i] = jobs[i]
    BY <1>1, <2>1 DEF RowsRespectRetries, Present
  <2>2. CASE jobs'[i] # jobs[i]
    BY <1>1, <2>2 DEF Write, TypeOK
  <2>. QED
    BY <2>1, <2>2
<1>. QED
  BY <1>1 DEF RowsRespectRetries, Present

LEMMA UpdatedRetries ==
    ASSUME NEW j \in Job
    PROVE  /\ \A s : /\ [j EXCEPT !.status = s].retry_count = j.retry_count
                     /\ [j EXCEPT !.status = s].max_retries = j.max_retries
           /\ \A n : /\ [j EXCEPT !.next_run_time = n].retry_count = j.retry_count
                     /\ [j EXCEPT !.next_run_time = n].max_retries = j.max_retries
           /\ \A n : /\ [j EXCEPT !.retry_count = n].retry_count = n
                     /\ [j EXCEPT !.retry_count = n].max_retries = j.max_retries
  BY DEF Job

LEMMA RespectKept ==
    ASSUME NEW j \in Job, RespectsRetries(j)
    PROVE  /\ \A s : RespectsRetries([j EXCEPT !.status = s])
           /\ \A n : RespectsRetries([j EXCEPT !.next_run_time = n])
           /\ \A n : n <= j.max_retries => RespectsRetries([j EXCEPT !.retry_count = n])
  BY UpdatedRetries DEF RespectsRetries

LEMMA NextRespects ==
    ASSUME \A c \in Calls : RespectsRetries(c.job), TypeOK, RowsRespectRetries,
           [Next]_vars
    PROVE  RowsRespectRetries'
<1>1. ASSUME NEW t \in Threads, InsertStep(t) PROVE RowsRespectRetries'
  <2>1. call[t] \in Calls /\ call[t].job \in Job
    BY CallType DEF TypeOK
  <2>. DEFINE row == [call[t].job EXCEPT !.next_run_time = ToInt(@)]
  <2>2. RespectsRetries(row)
    BY <2>1, RespectKept
  <2>3. jobs' = [jobs EXCEPT ![NewRowid] = row]
    BY <1>1 DEF InsertStep
  <2>4. \A i \in Ids : jobs'[i] = jobs[i] \/ jobs'[i] = row
    BY <2>3 DEF TypeOK
  <2>. HIDE DEF row
  <2>. QED
    BY <2>2, <2>4 DEF RowsRespectRetries, Present
<1>2. ASSUME NEW t \in Threads, WriteStep(t), ~InsertStep(t), ~InsertFull(t)
      PROVE  RowsRespectRetries'
  <2>c. call[t] \in Calls /\ RespectsRetries(call[t].job)
    BY DEF TypeOK
  <2>t. call[t].id \in Present => Target(t) \in Job /\ RespectsRetries(Target(t))
    BY TargetType DEF RowsRespectRetries, Target
  <2>1. CASE UpdateStatusStep(t)
    BY <2>1, <2>t, RespectKept, WriteRespects DEF UpdateStatusStep
  <2>2. CASE DeleteStep(t)
    BY <2>2, WriteRespects DEF DeleteStep
  <2>3. CASE UpdateJobStep(t)
    BY <2>3, <2>c, WriteRespects DEF UpdateJobStep
  <2>4. CASE PauseStep(t)
    BY <2>4, <2>t, RespectKept, WriteRespects DEF PauseStep
  <2>5. CASE ResumeStep(t)
    BY <2>5, <2>t, RespectKept, WriteRespects DEF ResumeStep
  <2>6. CASE UpdateNextRunTimeStep(t)
    BY <2>6, <2>t, RespectKept, WriteRespects DEF UpdateNextRunTimeStep
  <2>7. CASE IncrementRetryStep(t)
    <3>1. call[t].id \in Present /\ Target(t).retry_count < Target(t).max_retries
              => RespectsRetries([Target(t) EXCEPT !.retry_count = Target(t).retry_count + 1])
      BY <2>t, RespectKept DEF Job
    <3>. QED
      BY <2>7, <3>1, WriteRespects DEF IncrementRetryStep
  <2>8. CASE ResetRetryStep(t)
    <3>1. call[t].id \in Present => RespectsRetries([Target(t) EXCEPT !.retry_count = 0])
      <4>1. call[t].id \in Present => 0 <= Target(t).max_retries
        BY <2>t DEF RespectsRetries
      <4>. QED
        BY <2>t, <4>1, RespectKept
    <3>. QED
      BY <2>8, <3>1, WriteRespects DEF ResetRetryStep
  <2>. QED
    BY <1>2, <2>1, <2>2, <2>3, <2>4, <2>5, <2>6, <2>7, <2>8 DEF WriteStep
<1>3. \/ \E t \in Threads : WriteStep(t) /\ ~InsertFull(t)
      \/ UNCHANGED jobs
  BY DEF Next, Advance, Work, Fault, Invoke, Prepare, Return, FinalizeBusy, InsertCheck,
         ChangesCheck, GetStep, Refetch, ScanRow, ScanDone, PrepareFails, StepBusy,
         CommitFails, ReadFails, Restart, InsertFull, database, vars
<1>4. UNCHANGED jobs => RowsRespectRetries'
  BY DEF RowsRespectRetries, Present
<1>. QED
  BY <1>1, <1>2, <1>3, <1>4

\* However many threads call increment_retry_count at once, no job is retried
\* more often than its max_retries, if the jobs handed to insert_job and
\* update_job are not over it themselves.
THEOREM RetriesAreBounded ==
    ASSUME \A c \in Calls : RespectsRetries(c.job)
    PROVE  Spec => []RetryBounded
<1>1. Init => RowsRespectRetries
  BY DEF Init, RowsRespectRetries, Present
<1>2. TypeOK /\ RowsRespectRetries /\ [Next]_vars => RowsRespectRetries'
  BY NextRespects
<1>3. RowsRespectRetries => RetryBounded
  BY DEF RowsRespectRetries, RespectsRetries, RetryBounded
<1>. QED
  BY <1>1, <1>2, <1>3, TypeCorrect, PTL DEF Spec
=============================================================================
