--------------------------- MODULE RepositoryScan ---------------------------
(***************************************************************************)
(* select_all_jobs and select_due_jobs are consistent while any number of  *)
(* other threads insert, update and delete, if ids fit an int.             *)
(***************************************************************************)
EXTENDS RepositorySafety

\* ScanConsistent, of one thread.
Consistent(t) ==
    pc[t] = "done" /\ call[t].op \in ScanOps =>
        /\ \A k \in DOMAIN reply[t].rows : reply[t].rows[k] \in view[t].some
        /\ ~own[t].failed => \A i \in view[t].all : ToInt(i) \in Reported(t)
        /\ \A k, l \in DOMAIN reply[t].rows :
              reply[t].rows[k].id = reply[t].rows[l].id => k = l

LEMMA ScanParts ==
    /\ ScanInvariant <=> \A t \in Threads : Standing(t) /\ Consistent(t)
    /\ ScanInvariant' <=> \A t \in Threads : Standing(t)' /\ Consistent(t)'
  BY DEF ScanInvariant, ScanConsistent, Consistent

\* What a step of thread t may do to the others: change the connection under a
\* thread about to look at it, and the table under one that scans and sees it.
Seen(u) ==
    \/ view'[u] = view[u] /\ (pc[u] # "scan" \/ jobs' = jobs)
    \/ /\ pc[u] = "scan"
       /\ view'[u] = [some |-> view[u].some \cup Entries(call[u], jobs'),
                      all  |-> view[u].all \cap Matching(call[u], jobs')]

Beside(t) ==
    \A u \in Threads \ {t} :
        /\ pc'[u] = pc[u] /\ call'[u] = call[u]
        /\ reply'[u] = reply[u] /\ cursor'[u] = cursor[u]
        /\ own'[u] = own[u] \/ pc[u] = "check"
        /\ Seen(u)

LEMMA OthersStand ==
    ASSUME TypeOK, ScanInvariant, NEW t \in Threads, Beside(t),
           NEW u \in Threads \ {t}
    PROVE  Standing(u)' /\ Consistent(u)'
<1>1. Standing(u) /\ Consistent(u)
  BY ScanParts
<1>2. Reported(u)' = Reported(u)
  BY DEF Beside, Reported
<1>u. /\ pc'[u] = pc[u] /\ call'[u] = call[u]
      /\ own'[u] = own[u] \/ pc[u] = "check"
      /\ reply'[u] = reply[u] /\ cursor'[u] = cursor[u]
  BY DEF Beside
<1>3. CASE /\ pc[u] = "scan"
           /\ view'[u] = [some |-> view[u].some \cup Entries(call[u], jobs'),
                          all  |-> view[u].all \cap Matching(call[u], jobs')]
  <2>1. /\ Entries(call[u], jobs)' \subseteq view'[u].some
        /\ view'[u].all \subseteq Matching(call[u], jobs)'
        /\ view[u].some \subseteq view'[u].some /\ view'[u].all \subseteq view[u].all
    BY <1>3, <1>u DEF Entries, Matching, Selects
  <2>. QED
    BY <1>1, <1>2, <1>3, <1>u, <2>1 DEF Standing, Consistent
<1>4. CASE view'[u] = view[u] /\ (pc[u] # "scan" \/ jobs' = jobs)
  <2>1. pc[u] = "scan" => /\ Entries(call[u], jobs)' = Entries(call[u], jobs)
                          /\ Matching(call[u], jobs)' = Matching(call[u], jobs)
    BY <1>4, <1>u DEF Entries, Matching, Selects
  <2>. QED
    BY <1>1, <1>2, <1>4, <1>u, <2>1 DEF Standing, Consistent
<1>. QED
  BY <1>3, <1>4 DEF Beside, Seen

LEMMA StandSuffices ==
    ASSUME TypeOK, ScanInvariant, NEW t \in Threads, Beside(t),
           Standing(t)', Consistent(t)'
    PROVE  ScanInvariant'
  BY OthersStand, ScanParts

-----------------------------------------------------------------------------
(***************************************************************************)
(* The step of each thread leaves the others beside it.                    *)
(***************************************************************************)
\* A statement that changes the table: whoever scans sees it.
LEMMA WritingBeside ==
    ASSUME TypeOK, NEW t \in Threads, pc[t] = "step",
           NEW p, Go(t, p), NEW e, Disturb(t, e), Look(jobs'),
           UNCHANGED <<call, reply, cursor>>
    PROVE  Beside(t) /\ view'[t] = view[t] /\ own'[t] = e /\ pc'[t] = p
<1>1. ASSUME NEW u \in Threads \ {t}
      PROVE  /\ own'[u] = own[u] \/ pc[u] = "check"
             /\ Seen(u)
  BY DEF Disturb, Look, Seen
<1>. QED
  BY <1>1 DEF Beside, TypeOK, Go, Disturb, Look

-----------------------------------------------------------------------------
(***************************************************************************)
(* Where the thread that takes the step stands after it.                   *)
(***************************************************************************)
LEMMA EnterStands ==
    ASSUME TypeOK, ScanInvariant, NEW t \in Threads, NEW c \in Calls, Invoke(t, c)
    PROVE  ScanInvariant'
<1>1. Standing(t)
  BY ScanParts
<1>2. /\ pc'[t] = "prepare" /\ own'[t] = own[t] /\ reply'[t] = reply[t]
      /\ cursor'[t] = cursor[t] /\ pc[t] = "idle"
  BY DEF Invoke, Go, TypeOK
<1>3. Standing(t)' /\ Consistent(t)'
  BY <1>1, <1>2 DEF Standing, Consistent
<1>4. Beside(t)
  BY DEF Beside, Seen, Invoke, Go, TypeOK, database
<1>. QED
  BY <1>3, <1>4, StandSuffices

LEMMA PrepareStands ==
    ASSUME TypeOK, ScanInvariant, NEW t \in Threads, Prepare(t)
    PROVE  ScanInvariant'
<1>1. Standing(t)
  BY ScanParts
<1>2. /\ pc[t] = "prepare" /\ UNCHANGED <<jobs, call, reply, cursor, own>>
  BY DEF Prepare, database
<1>3. own[t] = NoEffect /\ reply[t] = NoReply /\ cursor[t] = 0
  BY <1>1, <1>2 DEF Standing
<1>4. Beside(t)
  BY <1>2 DEF Beside, Seen, Prepare, Go, TypeOK
<1>5. Standing(t)' /\ Consistent(t)'
  <2>1. CASE call[t].op \in ScanOps
    <3>1. /\ pc'[t] = "scan"
          /\ view'[t] = [some |-> Entries(call[t], jobs), all |-> Matching(call[t], jobs)]
      BY <2>1 DEF Prepare, Go, TypeOK
    <3>2. /\ Entries(call[t], jobs)' = Entries(call[t], jobs)
          /\ Matching(call[t], jobs)' = Matching(call[t], jobs)
      BY <1>2 DEF Entries, Matching, Selects
    <3>3. reply'[t] = NoReply /\ cursor'[t] = 0 /\ own'[t] = NoEffect /\ call'[t] = call[t]
      BY <1>2, <1>3
    <3>4. DOMAIN reply'[t].rows = {}
      BY <3>3 DEF NoReply
    <3>5. \A i \in view'[t].all : ~(i <= cursor'[t])
      BY <3>1, <3>3 DEF Matching, Ids
    <3>. QED
      BY <2>1, <3>1, <3>2, <3>3, <3>4, <3>5 DEF Standing, Consistent, NoReply
  <2>2. CASE call[t].op \notin ScanOps
    <3>1. pc'[t] = "step"
      BY <2>2 DEF Prepare, Go, TypeOK
    <3>. QED
      BY <1>2, <1>3, <2>2, <3>1 DEF Standing, Consistent
  <2>. QED
    BY <2>1, <2>2
<1>. QED
  BY <1>4, <1>5, StandSuffices

\* A call that is not a scan ends.
LEMMA AnswerStands ==
    ASSUME TypeOK, ScanInvariant, NEW t \in Threads, NEW a, Finish(t, a),
           call[t].op \notin ScanOps, UNCHANGED <<jobs, call, cursor, view>>,
           (\E e : own' = [own EXCEPT ![t] = e]) \/ (\E e : Disturb(t, e)) \/ UNCHANGED own
    PROVE  ScanInvariant'
<1>1. pc'[t] = "done" /\ call'[t] = call[t]
  BY DEF Finish, Go, TypeOK
<1>2. Standing(t)' /\ Consistent(t)'
  BY <1>1 DEF Standing, Consistent
<1>3. Beside(t)
  <2>1. CASE (\E e : own' = [own EXCEPT ![t] = e]) \/ UNCHANGED own
    BY <2>1 DEF Beside, Seen, Finish, Go, TypeOK
  <2>2. CASE \E e : Disturb(t, e)
    <3>1. \A u \in Threads \ {t} : own'[u] = own[u] \/ pc[u] = "check"
      BY <2>2 DEF Disturb
    <3>. QED
      BY <3>1 DEF Beside, Seen, Finish, Go, TypeOK
  <2>. QED
    BY <2>1, <2>2
<1>. QED
  BY <1>2, <1>3, StandSuffices

LEMMA CallEnds ==
    ASSUME TypeOK, ScanInvariant, NEW t \in Threads,
           \/ InsertFull(t) \/ FinalizeBusy(t) \/ CommitFails(t)
           \/ InsertCheck(t) \/ ChangesCheck(t) \/ GetStep(t) \/ Refetch(t)
    PROVE  ScanInvariant'
<1>1. Standing(t)
  BY ScanParts
<1>2. call[t].op \notin ScanOps
  BY <1>1 DEF Standing, InsertFull, FinalizeBusy, CommitFails, InsertCheck,
              ChangesCheck, GetStep, Refetch, ScanOps
<1>3. \E a : Finish(t, a)
  BY DEF InsertFull, FinalizeBusy, CommitFails, InsertCheck, ChangesCheck, GetStep, Refetch
<1>4. UNCHANGED <<jobs, call, cursor, view>>
  BY DEF InsertFull, FinalizeBusy, CommitFails, InsertCheck, ChangesCheck, GetStep,
         Refetch, database
<1>5. (\E e : Disturb(t, e)) \/ UNCHANGED own
  BY DEF InsertFull, FinalizeBusy, CommitFails, InsertCheck, ChangesCheck, GetStep, Refetch
<1>. QED
  BY <1>2, <1>3, <1>4, <1>5, AnswerStands

LEMMA WriteStands ==
    ASSUME TypeOK, ScanInvariant, NEW t \in Threads, WriteStep(t)
    PROVE  ScanInvariant'
<1>1. Standing(t)
  BY ScanParts
<1>2. CASE InsertFull(t)
  BY <1>2, CallEnds
<1>3. CASE ~InsertFull(t)
  <2>1. /\ pc[t] = "step" /\ call[t].op \notin ScanOps
        /\ reply[t] = NoReply /\ cursor[t] = 0
    BY <1>1, <1>3 DEF Standing, WriteStep, InsertStep, UpdateStatusStep, DeleteStep,
          UpdateJobStep, PauseStep, ResumeStep, UpdateNextRunTimeStep,
          IncrementRetryStep, ResetRetryStep, Write
  <2>2. PICK p \in {"check", "refetch"} : Go(t, p)
    BY <1>3 DEF WriteStep, InsertStep, UpdateStatusStep, DeleteStep, UpdateJobStep,
          PauseStep, ResumeStep, UpdateNextRunTimeStep, IncrementRetryStep, ResetRetryStep
  <2>3. (\E e : Disturb(t, e)) /\ Look(jobs') /\ UNCHANGED <<call, reply, cursor>>
    BY <1>3 DEF WriteStep, InsertStep, UpdateStatusStep, DeleteStep, UpdateJobStep,
          PauseStep, ResumeStep, UpdateNextRunTimeStep, IncrementRetryStep,
          ResetRetryStep, Write
  <2>4. Beside(t) /\ pc'[t] = p
    BY <2>1, <2>2, <2>3, WritingBeside
  <2>5. /\ p = "check" => call[t].op \notin {"get_job_by_id", "update_job_status"}
        /\ p = "refetch" => call[t].op = "update_job_status"
    BY <1>3, <2>2, <2>4 DEF WriteStep, InsertStep, UpdateStatusStep, DeleteStep,
          UpdateJobStep, PauseStep, ResumeStep, UpdateNextRunTimeStep,
          IncrementRetryStep, ResetRetryStep, Go, TypeOK
  <2>6. Standing(t)' /\ Consistent(t)'
    BY <2>1, <2>3, <2>4, <2>5 DEF Standing, Consistent
  <2>. QED
    BY <2>4, <2>6, StandSuffices
<1>. QED
  BY <1>2, <1>3

LEMMA BusyStands ==
    ASSUME TypeOK, ScanInvariant, NEW t \in Threads, StepBusy(t)
    PROVE  ScanInvariant'
<1>1. Standing(t) /\ own[t] \in Effect
  BY ScanParts DEF TypeOK, Effect
<1>2. /\ pc[t] = "step" /\ pc'[t] = "finalize" /\ UNCHANGED <<jobs, call, reply, cursor, view>>
      /\ own'[t] = [own[t] EXCEPT !.failed = TRUE]
  BY DEF StepBusy, Go, TypeOK, database
<1>3. Standing(t)' /\ Consistent(t)'
  BY <1>1, <1>2 DEF Standing, Consistent
<1>4. Beside(t)
  BY DEF Beside, Seen, StepBusy, Go, TypeOK, database
<1>. QED
  BY <1>3, <1>4, StandSuffices

LEMMA ReturnStands ==
    ASSUME TypeOK, ScanInvariant, NEW t \in Threads, Return(t)
    PROVE  ScanInvariant'
<1>1. /\ pc'[t] = "idle" /\ own'[t] = NoEffect /\ reply'[t] = NoReply /\ cursor'[t] = 0
  BY DEF Return, Go, TypeOK
<1>2. Standing(t)' /\ Consistent(t)'
  BY <1>1 DEF Standing, Consistent
<1>3. Beside(t)
  BY DEF Beside, Seen, Return, Go, TypeOK, database
<1>. QED
  BY <1>2, <1>3, StandSuffices

\* A row that is read comes after all that were read before it.
LEMMA ScanRowStands ==
    ASSUME MaxId < IntLimit, TypeOK, ScanInvariant, NEW t \in Threads, ScanRow(t)
    PROVE  ScanInvariant'
<1>1. Standing(t)
  BY ScanParts
<1>2. PICK i \in Ahead(t) :
          /\ \A j \in Ahead(t) : i <= j
          /\ cursor' = [cursor EXCEPT ![t] = i]
          /\ reply' = [reply EXCEPT ![t].rows = Append(@, ReadJob(i, jobs[i]))]
  BY DEF ScanRow
<1>. DEFINE entry == ReadJob(i, jobs[i])
            rows == reply[t].rows
<1>3. /\ pc[t] = "scan" /\ UNCHANGED <<jobs, pc, call, own, view>>
      /\ i \in Matching(call[t], jobs) /\ i > cursor[t] /\ i \in Ids /\ jobs[i] \in Job
      /\ cursor'[t] = i /\ cursor[t] \in Int
  BY <1>2, MaxIdType DEF ScanRow, Ahead, Matching, TypeOK, database
<1>4. \A j \in Ids : ToInt(j) = j
  BY MaxIdType, ToIntFits, IntLimitAssumption DEF Ids, CInt
<1>5. entry.id = i
  BY <1>3, <1>4 DEF ReadJob
<1>6. rows \in Seq(Listing) /\ entry \in Listing
  BY <1>3, ReadJobType DEF TypeOK, Listing
<1>7. /\ reply'[t] = [reply[t] EXCEPT !.rows = Append(rows, entry)]
      /\ reply[t] \in Answer
  BY <1>2 DEF TypeOK, Answer
<1>8. /\ reply'[t].rows = Append(rows, entry)
      /\ reply'[t].ok = reply[t].ok /\ reply'[t].id = reply[t].id
  BY <1>7 DEF Answer
<1>. HIDE DEF entry, rows
<1>9. /\ DOMAIN reply'[t].rows = 1 .. Len(rows) + 1
      /\ Len(rows) \in Nat /\ DOMAIN rows = 1 .. Len(rows)
      /\ \A k \in DOMAIN rows : reply'[t].rows[k] = rows[k] /\ rows[k].id \in Int
      /\ reply'[t].rows[Len(rows) + 1] = entry
  <2>1. \A e \in Listing : e.id \in Int
    BY DEF Listing, CInt
  <2>2. /\ DOMAIN Append(rows, entry) = 1 .. Len(rows) + 1
        /\ Len(rows) \in Nat /\ DOMAIN rows = 1 .. Len(rows)
        /\ \A k \in DOMAIN rows : Append(rows, entry)[k] = rows[k] /\ rows[k] \in Listing
        /\ Append(rows, entry)[Len(rows) + 1] = entry
    BY <1>6
  <2>. QED
    BY <1>8, <2>1, <2>2
<1>10. /\ \A k \in DOMAIN rows : rows[k] \in view[t].some /\ rows[k].id <= cursor[t]
       /\ \A k, l \in DOMAIN rows : k < l => rows[k].id < rows[l].id
       /\ \A j \in view[t].all : j <= cursor[t] => \E k \in DOMAIN rows : rows[k].id = ToInt(j)
       /\ Entries(call[t], jobs) \subseteq view[t].some
       /\ view[t].all \subseteq Matching(call[t], jobs)
  BY <1>1, <1>3 DEF Standing, Reported, rows
<1>11. entry \in view[t].some
  BY <1>3, <1>10 DEF Entries, entry
<1>12. \A k \in DOMAIN reply'[t].rows :
           reply'[t].rows[k] \in view[t].some /\ reply'[t].rows[k].id <= i
  <2>. SUFFICES ASSUME NEW k \in DOMAIN reply'[t].rows
                PROVE  reply'[t].rows[k] \in view[t].some /\ reply'[t].rows[k].id <= i
    OBVIOUS
  <2>1. CASE k \in DOMAIN rows
    BY <2>1, <1>3, <1>9, <1>10 DEF Ids
  <2>2. CASE k = Len(rows) + 1
    BY <2>2, <1>3, <1>5, <1>9, <1>11, MaxIdType DEF Ids
  <2>. QED
    BY <2>1, <2>2, <1>9
<1>13. \A k, l \in DOMAIN reply'[t].rows :
           k < l => reply'[t].rows[k].id < reply'[t].rows[l].id
  <2>. SUFFICES ASSUME NEW k \in DOMAIN reply'[t].rows, NEW l \in DOMAIN reply'[t].rows, k < l
                PROVE  reply'[t].rows[k].id < reply'[t].rows[l].id
    OBVIOUS
  <2>1. k \in DOMAIN rows
    BY <1>9
  <2>2. CASE l \in DOMAIN rows
    BY <2>1, <2>2, <1>9, <1>10
  <2>3. CASE l = Len(rows) + 1
    BY <2>1, <2>3, <1>3, <1>5, <1>9, <1>10 DEF Ids
  <2>. QED
    BY <2>2, <2>3, <1>9
<1>14. \A j \in view[t].all : j <= i => \E k \in DOMAIN reply'[t].rows : reply'[t].rows[k].id = ToInt(j)
  <2>. SUFFICES ASSUME NEW j \in view[t].all, j <= i
                PROVE  \E k \in DOMAIN reply'[t].rows : reply'[t].rows[k].id = ToInt(j)
    OBVIOUS
  <2>1. CASE j <= cursor[t]
    <3>1. PICK k \in DOMAIN rows : rows[k].id = ToInt(j)
      BY <2>1, <1>10
    <3>. QED
      BY <3>1, <1>9
  <2>2. CASE ~(j <= cursor[t])
    <3>1. j \in Ids /\ j \in Matching(call[t], jobs) /\ j \in Int
      BY <1>10 DEF Matching, Ids
    <3>2. j \in Ahead(t)
      BY <2>2, <3>1, <1>3 DEF Ahead
    <3>3. j = i
      BY <3>1, <3>2, <1>2, <1>3 DEF Ids
    <3>. QED
      BY <3>3, <1>3, <1>4, <1>5, <1>9
  <2>. QED
    BY <2>1, <2>2
<1>15. /\ Entries(call[t], jobs)' = Entries(call[t], jobs)
       /\ Matching(call[t], jobs)' = Matching(call[t], jobs)
  BY <1>3 DEF Entries, Matching, Selects
<1>16. Standing(t)'
  <2>1. ~reply[t].ok /\ reply[t].id = 0 /\ call[t].op \in ScanOps /\ own[t] = NoEffect
    BY <1>1, <1>3 DEF Standing
  <2>2. \A j \in view[t].all : j <= i => ToInt(j) \in Reported(t)'
    BY <1>14 DEF Reported
  <2>. QED
    BY <2>1, <2>2, <1>3, <1>8, <1>10, <1>12, <1>13, <1>15 DEF Standing
<1>17. Consistent(t)'
  BY <1>3 DEF Consistent
<1>18. Beside(t)
  BY <1>2, <1>3 DEF Beside, Seen, TypeOK
<1>. QED
  BY <1>16, <1>17, <1>18, StandSuffices

LEMMA ScanEnds ==
    ASSUME TypeOK, ScanInvariant, NEW t \in Threads,
           ScanDone(t) \/ (pc[t] = "scan" /\ ReadFails(t))
    PROVE  ScanInvariant'
<1>1. Standing(t) /\ own[t] \in Effect
  BY ScanParts DEF TypeOK, Effect
<1>2. /\ pc[t] = "scan" /\ Finish(t, reply[t]) /\ UNCHANGED <<jobs, call, cursor, view>>
      /\ own' = own \/ own' = [own EXCEPT ![t].failed = TRUE]
  BY DEF ScanDone, ReadFails, database
<1>3. pc'[t] = "done" /\ reply' = reply
  BY <1>2 DEF Finish, Go, TypeOK
<1>4. Ahead(t) = {} \/ own'[t].failed
  <2>1. CASE ScanDone(t)
    BY <2>1 DEF ScanDone
  <2>2. CASE ReadFails(t)
    <3>1. own'[t] = [own[t] EXCEPT !.failed = TRUE]
      BY <2>2 DEF ReadFails, TypeOK
    <3>. QED
      BY <1>1, <3>1 DEF Effect
  <2>. QED
    BY <2>1, <2>2
<1>5. ~own'[t].failed => \A i \in view[t].all : ToInt(i) \in Reported(t)
  <2>. SUFFICES ASSUME ~own'[t].failed, NEW i \in view[t].all PROVE ToInt(i) \in Reported(t)
    OBVIOUS
  <2>1. Ahead(t) = {}
    BY <1>4
  <2>2. i \in Matching(call[t], jobs) /\ i \in Int /\ cursor[t] \in Int
    BY <1>1, <1>2, MaxIdType DEF Standing, Matching, Ids, TypeOK
  <2>3. i <= cursor[t]
    BY <2>1, <2>2 DEF Ahead
  <2>. QED
    BY <1>1, <1>2, <2>3 DEF Standing
<1>6. \A k, l \in DOMAIN reply[t].rows :
          reply[t].rows[k].id = reply[t].rows[l].id => k = l
  <2>1. \A k \in DOMAIN reply[t].rows : k \in Int /\ reply[t].rows[k].id \in Int
    <3>1. reply[t].rows \in Seq(Listing)
      BY DEF TypeOK, Listing
    <3>2. \A k \in DOMAIN reply[t].rows : k \in Int /\ reply[t].rows[k] \in Listing
      BY <3>1
    <3>. QED
      BY <3>2 DEF Listing, CInt
  <2>2. \A k, l \in DOMAIN reply[t].rows :
            k < l => reply[t].rows[k].id < reply[t].rows[l].id
    BY <1>1, <1>2 DEF Standing
  <2>. QED
    BY <2>1, <2>2
<1>7. Reported(t)' = Reported(t)
  BY <1>3 DEF Reported
<1>8. Consistent(t)'
  BY <1>1, <1>2, <1>3, <1>5, <1>6, <1>7 DEF Standing, Consistent
<1>9. Standing(t)'
  BY <1>1, <1>2, <1>3 DEF Standing
<1>10. Beside(t)
  BY <1>2, <1>3 DEF Beside, Seen, Finish, Go, TypeOK
<1>. QED
  BY <1>8, <1>9, <1>10, StandSuffices

LEMMA FaultStands ==
    ASSUME TypeOK, ScanInvariant, NEW t \in Threads, Fault(t)
    PROVE  ScanInvariant'
<1>1. Standing(t) /\ own[t] \in Effect
  BY ScanParts DEF TypeOK, Effect
<1>2. CASE PrepareFails(t)
  <2>1. UNCHANGED <<jobs, call, cursor, view>> /\ own' = [own EXCEPT ![t].failed = TRUE]
    BY <1>2 DEF PrepareFails, database
  <2>2. CASE call[t].op \in ScanOps
    <3>1. Finish(t, NoReply)
      BY <1>2, <2>2 DEF PrepareFails, ScanOps
    <3>2. /\ pc'[t] = "done" /\ reply'[t] = NoReply
          /\ own'[t] = [own[t] EXCEPT !.failed = TRUE]
      BY <2>1, <3>1 DEF Finish, Go, TypeOK
    <3>3. own'[t].failed /\ DOMAIN reply'[t].rows = {}
      BY <1>1, <3>2 DEF Effect, NoReply
    <3>4. Standing(t)' /\ Consistent(t)'
      BY <3>2, <3>3 DEF Standing, Consistent
    <3>5. Beside(t)
      BY <2>1, <3>1 DEF Beside, Seen, Finish, Go, TypeOK
    <3>. QED
      BY <3>4, <3>5, StandSuffices
  <2>3. CASE call[t].op \notin ScanOps
    <3>1. \E a : Finish(t, a)
      BY <1>2 DEF PrepareFails
    <3>2. \E e : own' = [own EXCEPT ![t] = e]
      BY <2>1
    <3>. QED
      BY <2>1, <2>3, <3>1, <3>2, AnswerStands
  <2>. QED
    BY <2>2, <2>3
<1>3. CASE StepBusy(t)
  BY <1>3, BusyStands
<1>4. CASE CommitFails(t)
  BY <1>4, CallEnds
<1>5. CASE ReadFails(t)
  <2>1. CASE pc[t] = "scan"
    BY <1>5, <2>1, ScanEnds
  <2>2. CASE pc[t] # "scan"
    <3>1. pc[t] \in {"step", "refetch"} /\ \E a : Finish(t, a)
      BY <1>5, <2>2 DEF ReadFails
    <3>2. call[t].op \notin ScanOps
      BY <1>1, <3>1 DEF Standing
    <3>3. \E e : own' = [own EXCEPT ![t] = e]
      BY <1>5 DEF ReadFails
    <3>4. UNCHANGED <<jobs, call, cursor, view>>
      BY <1>5 DEF ReadFails, database
    <3>. QED
      BY <3>1, <3>2, <3>3, <3>4, AnswerStands
  <2>. QED
    BY <2>1, <2>2
<1>. QED
  BY <1>2, <1>3, <1>4, <1>5 DEF Fault

-----------------------------------------------------------------------------
LEMMA InitStands == Init => ScanInvariant
  BY ScanParts DEF Init, Open, Idle, Standing, Consistent

LEMMA RestartStands == Restart => ScanInvariant'
  BY ScanParts DEF Restart, Idle, Standing, Consistent

LEMMA NextStands ==
    ASSUME MaxId < IntLimit
    PROVE  TypeOK /\ ScanInvariant /\ [Next]_vars => ScanInvariant'
<1>. SUFFICES ASSUME TypeOK, ScanInvariant, [Next]_vars PROVE ScanInvariant'
  OBVIOUS
<1>1. CASE \E t \in Threads : \E c \in Calls : Invoke(t, c)
  BY <1>1, EnterStands
<1>2. ASSUME NEW t \in Threads, Advance(t) PROVE ScanInvariant'
  BY <1>2, PrepareStands, WriteStands, CallEnds, ScanRowStands, ScanEnds, ReturnStands
     DEF Advance, Work
<1>3. CASE \E t \in Threads : Fault(t)
  BY <1>3, FaultStands
<1>4. CASE Restart
  BY <1>4, RestartStands
<1>5. CASE UNCHANGED vars
  <2>1. ASSUME NEW t \in Threads PROVE Standing(t)' /\ Consistent(t)'
    <3>1. Standing(t) /\ Consistent(t)
      BY ScanParts
    <3>2. UNCHANGED <<jobs, pc, call, reply, cursor, own, view>>
      BY <1>5 DEF vars
    <3>3. /\ Entries(call[t], jobs)' = Entries(call[t], jobs)
          /\ Matching(call[t], jobs)' = Matching(call[t], jobs)
          /\ Reported(t)' = Reported(t)
      BY <3>2 DEF Entries, Matching, Selects, Reported
    <3>. QED
      BY <3>1, <3>2, <3>3 DEF Standing, Consistent
  <2>. QED
    BY <2>1, ScanParts
<1>. QED
  BY <1>1, <1>2, <1>3, <1>4, <1>5 DEF Next

\* Every thread stands where the reading of a scan needs it to, whatever the
\* others do: what a scan has read so far is in the order of the ids, each row
\* of it was there, and no row that has always been there is passed over.
THEOREM ScansStand ==
    ASSUME MaxId < IntLimit
    PROVE  Spec => []ScanInvariant
<1>1. Init => TypeOK /\ ScanInvariant
  BY InitType, InitStands
<1>2. TypeOK /\ ScanInvariant /\ [Next]_vars => (TypeOK /\ ScanInvariant)'
  BY NextType, NextStands
<1>. QED
  BY <1>1, <1>2, PTL DEF Spec

\* What the scans report was there, and what was there all the time they
\* report: for any number of threads, any calls and a table of any size whose
\* ids fit an int.
THEOREM ScansAreConsistent ==
    ASSUME MaxId < IntLimit
    PROVE  Spec => []ScanConsistent
<1>1. Spec => []ScanInvariant
  BY ScansStand
<1>2. ScanInvariant => ScanConsistent
  BY DEF ScanInvariant
<1>. QED
  BY <1>1, <1>2, PTL

-----------------------------------------------------------------------------
(***************************************************************************)
(* What one sqlite3_* call of a thread does to the others, to a row and to *)
(* the answer, for the proofs about the callers.                           *)
(***************************************************************************)
Step(t) == Work(t) \/ PrepareFails(t) \/ Fault(t)

\* The statement of thread t on the row of id i.
Touched(t, i) ==
    \/ jobs'[i] = jobs[i]
    \/ /\ call[t].op = "insert_job" /\ i = seq + 1
       /\ jobs'[i] = [call[t].job EXCEPT !.next_run_time = ToInt(@)]
    \/ /\ i = call[t].id /\ i \in Present
       /\ \/ call[t].op = "delete_job" /\ jobs'[i] = NoRow
          \/ call[t].op = "pause_job" /\ jobs'[i] = [jobs[i] EXCEPT !.status = PAUSED]
          \/ call[t].op = "resume_job" /\ jobs'[i] = [jobs[i] EXCEPT !.status = ACTIVE]
          \/ call[t].op \in UpdateOps \ {"delete_job", "pause_job", "resume_job"}

LEMMA StepMoves ==
    ASSUME TypeOK, NEW t \in Threads, Step(t)
    PROVE  /\ pc[t] \notin {"idle", "done"} /\ pc'[t] # "idle"
           /\ UNCHANGED call
           /\ \A u \in Threads \ {t} : pc'[u] = pc[u] /\ reply'[u] = reply[u]
<1>1. CASE Prepare(t) \/ StepBusy(t)
  BY <1>1 DEF Prepare, StepBusy, Go, TypeOK
<1>2. CASE WriteStep(t)
  BY <1>2 DEF WriteStep, InsertStep, InsertFull, UpdateStatusStep, DeleteStep,
     UpdateJobStep, PauseStep, ResumeStep, UpdateNextRunTimeStep, IncrementRetryStep,
     ResetRetryStep, Write, Go, Finish, TypeOK
<1>3. CASE FinalizeBusy(t) \/ InsertCheck(t) \/ ChangesCheck(t) \/ GetStep(t)
  BY <1>3 DEF FinalizeBusy, InsertCheck, ChangesCheck, GetStep, Finish, Go, TypeOK
<1>4. CASE Refetch(t) \/ ScanRow(t) \/ ScanDone(t)
  BY <1>4 DEF Refetch, ScanRow, ScanDone, Finish, Go, TypeOK
<1>5. CASE PrepareFails(t) \/ CommitFails(t) \/ ReadFails(t)
  BY <1>5 DEF PrepareFails, CommitFails, ReadFails, Finish, Go, TypeOK
<1>. QED
  BY <1>1, <1>2, <1>3, <1>4, <1>5 DEF Step, Work, Fault

LEMMA StepLeavesTable ==
    ASSUME NEW t \in Threads, Step(t), ~WriteStep(t) \/ InsertFull(t)
    PROVE  UNCHANGED <<jobs, seq>>
  BY DEF Step, Work, Fault, Prepare, InsertFull, FinalizeBusy, InsertCheck, ChangesCheck,
     GetStep, Refetch, ScanRow, ScanDone, PrepareFails, StepBusy, CommitFails, ReadFails,
     database

LEMMA StepTouches ==
    ASSUME TypeOK, ConnectionInvariant, NEW t \in Threads, Step(t)
    PROVE  /\ seq <= seq'
           /\ \A i \in Ids : Touched(t, i)
<1>. seq \in Int
  BY MaxIdType DEF TypeOK
<1>1. CASE ~WriteStep(t) \/ InsertFull(t)
  BY <1>1, StepLeavesTable DEF Touched
<1>2. CASE InsertStep(t)
  <2>1. NewRowid = seq + 1
    BY Parts, NewRowidIsNext
  <2>. QED
    BY <1>2, <2>1 DEF InsertStep, Touched, TypeOK
<1>3. CASE WriteStep(t) /\ ~InsertStep(t) /\ ~InsertFull(t)
  <2>1. seq' = seq /\ \A i \in Ids \ {call[t].id} : jobs'[i] = jobs[i]
    BY <1>3 DEF WriteStep, UpdateStatusStep, DeleteStep, UpdateJobStep, PauseStep,
       ResumeStep, UpdateNextRunTimeStep, IncrementRetryStep, ResetRetryStep, Write, TypeOK
  <2>2. jobs' = jobs \/ call[t].id \in Present
    BY <1>3 DEF WriteStep, UpdateStatusStep, DeleteStep, UpdateJobStep, PauseStep,
       ResumeStep, UpdateNextRunTimeStep, IncrementRetryStep, ResetRetryStep, Write, TypeOK
  <2>3. CASE DeleteStep(t)
    BY <2>1, <2>2, <2>3 DEF DeleteStep, Write, Touched, TypeOK
  <2>4. CASE PauseStep(t)
    <3>1. jobs' = jobs \/ jobs'[call[t].id] = [jobs[call[t].id] EXCEPT !.status = PAUSED]
      BY <2>4 DEF PauseStep, Write, Target, Present, TypeOK
    <3>. QED
      BY <2>1, <2>2, <2>4, <3>1 DEF PauseStep, Touched
  <2>5. CASE ResumeStep(t)
    <3>1. jobs' = jobs \/ jobs'[call[t].id] = [jobs[call[t].id] EXCEPT !.status = ACTIVE]
      BY <2>5 DEF ResumeStep, Write, Target, Present, TypeOK
    <3>. QED
      BY <2>1, <2>2, <2>5, <3>1 DEF ResumeStep, Touched
  <2>6. CASE call[t].op \in UpdateOps \ {"delete_job", "pause_job", "resume_job"}
    BY <2>1, <2>2, <2>6 DEF Touched
  <2>7. call[t].op \in UpdateOps
    BY <1>3 DEF UpdateOps, WriteStep, UpdateStatusStep, DeleteStep, UpdateJobStep, PauseStep,
       ResumeStep, UpdateNextRunTimeStep, IncrementRetryStep, ResetRetryStep
  <2>8. /\ call[t].op = "delete_job" => DeleteStep(t)
        /\ call[t].op = "pause_job" => PauseStep(t)
        /\ call[t].op = "resume_job" => ResumeStep(t)
    BY <1>3 DEF WriteStep, UpdateStatusStep, DeleteStep, UpdateJobStep, PauseStep,
       ResumeStep, UpdateNextRunTimeStep, IncrementRetryStep, ResetRetryStep
  <2>9. seq <= seq'
    BY <2>1
  <2>. QED
    BY <2>3, <2>4, <2>5, <2>6, <2>7, <2>8, <2>9
<1>. QED
  BY <1>1, <1>2, <1>3 DEF WriteStep

\* pause_job and delete_job leave no row that a scan for due jobs selects, and
\* report a success only after their statement.
LEMMA StopAnswers ==
    ASSUME TypeOK, ScanInvariant, NEW t \in Threads, Step(t), call[t].id \in Ids,
           call[t].op \in {"pause_job", "delete_job"}
    PROVE  /\ pc'[t] = "check" =>
                 jobs'[call[t].id] = NoRow \/ jobs'[call[t].id].status # ACTIVE
           /\ pc'[t] = "done" /\ reply'[t].ok => pc[t] = "check" /\ UNCHANGED jobs
<1>s. Standing(t)
  BY ScanParts
<1>o. call[t].op \notin ScanOps
  BY DEF ScanOps
<1>1. CASE PauseStep(t)
  <2>1. pc'[t] = "check"
    BY <1>1 DEF PauseStep, Go, TypeOK
  <2>2. call[t].id \in Present => Target(t) \in Job
    BY TargetType
  <2>3. CASE call[t].id \in Present
    <3>1. jobs'[call[t].id] = [Target(t) EXCEPT !.status = PAUSED]
      BY <1>1, <2>3 DEF PauseStep, Write, TypeOK
    <3>. QED
      BY <2>1, <2>2, <2>3, <3>1 DEF Job, PAUSED, ACTIVE
  <2>4. CASE call[t].id \notin Present
    BY <1>1, <2>1, <2>4 DEF PauseStep, Write, Present
  <2>. QED
    BY <2>3, <2>4
<1>2. CASE DeleteStep(t)
  <2>1. pc'[t] = "check" /\ jobs'[call[t].id] = NoRow
    BY <1>2 DEF DeleteStep, Write, Go, Present, TypeOK
  <2>. QED
    BY <2>1
<1>3. CASE ChangesCheck(t)
  BY <1>3 DEF ChangesCheck, Finish, Go, TypeOK, database
<1>4. CASE Prepare(t) \/ StepBusy(t)
  BY <1>4 DEF Prepare, StepBusy, Go, TypeOK
<1>5. CASE FinalizeBusy(t) \/ CommitFails(t) \/ PrepareFails(t)
  BY <1>5, <1>o DEF FinalizeBusy, CommitFails, PrepareFails, Finish, Go, Failure, TypeOK
<1>6. ~InsertCheck(t) /\ ~GetStep(t) /\ ~Refetch(t) /\ ~ScanRow(t) /\ ~ScanDone(t) /\ ~ReadFails(t)
  BY <1>s, <1>o DEF Standing, InsertCheck, GetStep, Refetch, ScanRow, ScanDone, ReadFails
<1>7. WriteStep(t) => PauseStep(t) \/ DeleteStep(t)
  BY DEF WriteStep, InsertStep, InsertFull, UpdateStatusStep, UpdateJobStep, ResumeStep,
     UpdateNextRunTimeStep, IncrementRetryStep, ResetRetryStep
<1>. QED
  BY <1>1, <1>2, <1>3, <1>4, <1>5, <1>6, <1>7 DEF Step, Work, Fault

\* A scan appends rows that match, as they are.
LEMMA ScanAnswers ==
    ASSUME TypeOK, ScanInvariant, NEW t \in Threads, Step(t), call[t].op \in ScanOps
    PROVE  /\ UNCHANGED jobs
           /\ pc'[t] \in {"scan", "done"}
           /\ \/ reply'[t].rows = reply[t].rows
              \/ reply'[t].rows = <<>>
              \/ \E i \in Matching(call[t], jobs) :
                    reply'[t].rows = Append(reply[t].rows, ReadJob(i, jobs[i]))
<1>1. CASE Prepare(t)
  BY <1>1 DEF Prepare, Go, TypeOK, database
<1>2. CASE ScanRow(t)
  <2>1. PICK i \in Ahead(t) :
            reply' = [reply EXCEPT ![t].rows = Append(@, ReadJob(i, jobs[i]))]
    BY <1>2 DEF ScanRow
  <2>2. reply'[t] = [reply[t] EXCEPT !.rows = Append(@, ReadJob(i, jobs[i]))]
    BY <2>1 DEF TypeOK
  <2>3. reply[t] \in Answer
    BY DEF TypeOK, Answer
  <2>4. reply'[t].rows = Append(reply[t].rows, ReadJob(i, jobs[i]))
    BY <2>2, <2>3 DEF Answer
  <2>. QED
    BY <1>2, <2>4 DEF ScanRow, Ahead, database
<1>3. CASE ScanDone(t)
  BY <1>3 DEF ScanDone, Finish, Go, TypeOK, database
<1>4. CASE PrepareFails(t)
  BY <1>4 DEF PrepareFails, ScanOps, Finish, Go, NoReply, TypeOK, database
<1>5. CASE ReadFails(t)
  <2>1. pc[t] = "scan" /\ Finish(t, reply[t])
    BY <1>5, ScanParts DEF ReadFails, Standing
  <2>. QED
    BY <1>5, <2>1 DEF ReadFails, Finish, Go, TypeOK, database
<1>6. pc[t] \notin {"step", "check", "refetch", "finalize"}
  BY ScanParts DEF Standing
<1>7. /\ ~WriteStep(t) /\ ~FinalizeBusy(t) /\ ~InsertCheck(t) /\ ~ChangesCheck(t)
      /\ ~GetStep(t) /\ ~Refetch(t) /\ ~StepBusy(t) /\ ~CommitFails(t)
  BY <1>6 DEF WriteStep, InsertStep, InsertFull, UpdateStatusStep, DeleteStep,
     UpdateJobStep, PauseStep, ResumeStep, UpdateNextRunTimeStep, IncrementRetryStep,
     ResetRetryStep, Write, FinalizeBusy, InsertCheck, ChangesCheck, GetStep, Refetch,
     StepBusy, CommitFails
<1>. QED
  BY <1>1, <1>2, <1>3, <1>4, <1>5, <1>7 DEF Step, Work, Fault
=============================================================================
