-------------------------- MODULE ExportJobs_proofs --------------------------
(***************************************************************************)
(* Proofs about export jobs for any number of jobs, runners, cancellations *)
(* and faults.                                                             *)
(***************************************************************************)
EXTENDS ExportJobs, TLAPS

\* A runner at work has a job.
HasJob == \A w \in Runners : pc[w] # "idle" => on[w] \in Jobs

\* Steps from which a run cannot end without writing a final status.
Owing == Steps \ {"idle", "metrics", "log", "faillog"}

\* The runner that owes the job a final status, and whose session has not loaded one.
Owes(w, j) ==
    /\ on[w] = j
    /\ pc[w] \in Owing
    /\ row[w] = Expired \/ row[w].status \in Active

\* Whoever wrote an active status last will also write the final one.
ActiveIsOwed ==
    \A j \in Jobs : status[j] \in Active => lost[j] \/ \E w \in Runners : Owes(w, j)

\* A job is completed only by a run that has settled it, or that had an e-mail to send.
FinishIsSettled ==
    /\ \A j \in Jobs : status[j] = "completed" => settled[j] \/ emailed[j]
    /\ \A w \in Runners : pc[w] = "finish" => settled[on[w]] \/ emailed[on[w]]

IInv == TypeOK /\ HasJob /\ ActiveIsOwed /\ FinishIsSettled

\* What a commit does to the columns and to the session.
LEMMA WriteStep ==
  ASSUME TypeOK, NEW w \in Runners, on[w] \in Jobs,
         NEW s, s \in Statuses \/ s = row[w].status, NEW n \in Nat, Write(w, s, n)
  PROVE  /\ status' \in [Jobs -> Statuses]
         /\ retries' \in [Jobs -> Nat]
         /\ row' \in [Runners -> Rows]
         /\ row[w] # Expired
         /\ row'[w] = Expired
         /\ \A v \in Runners : v # w => row'[v] = row[v]
         /\ \A j \in Jobs : j # on[w] => status'[j] = status[j]
         /\ status'[on[w]] = IF row[w].status = s THEN status[on[w]] ELSE s
  <1>1. Expired \in Rows
    BY DEF Expired, Rows
  <1>2. status' \in [Jobs -> Statuses] /\ retries' \in [Jobs -> Nat]
    BY DEF TypeOK, Write
  <1>3. row' \in [Runners -> Rows]
    BY <1>1 DEF TypeOK, Write
  <1>4. row'[w] = Expired /\ row[w] # Expired
    BY DEF TypeOK, Write
  <1>5. \A v \in Runners : v # w => row'[v] = row[v]
    BY DEF TypeOK, Write
  <1>6. \A j \in Jobs : j # on[w] => status'[j] = status[j]
    BY DEF TypeOK, Write
  <1>7. status'[on[w]] = IF row[w].status = s THEN status[on[w]] ELSE s
    BY DEF TypeOK, Write
  <1> QED
    BY <1>2, <1>3, <1>4, <1>5, <1>6, <1>7

\* A loaded row has a status of a job and a count.
LEMMA LoadedRow ==
  ASSUME TypeOK, NEW w \in Runners
  PROVE  /\ row[w].status \in Statuses \union {"expired"}
         /\ row[w].retries \in Nat
         /\ row[w].retries + 1 \in Nat
  <1>1. row[w] \in Rows
    BY DEF TypeOK
  <1> QED
    BY <1>1 DEF Rows

\* What Break does, for a worker and for a task of the API.
LEMMA BreakStep ==
  ASSUME TypeOK, HasJob, NEW w \in Runners, pc[w] # "idle", Break(w)
  PROVE  /\ row' \in [Runners -> Rows]
         /\ pc' \in [Runners -> Steps]
         /\ on' \in [Runners -> Jobs \union {NoJob}]
         /\ lost' \in [Jobs -> BOOLEAN]
         /\ \A v \in Runners : v # w => pc'[v] = pc[v] /\ on'[v] = on[v] /\ row'[v] = row[v]
         /\ \A j \in Jobs : lost[j] => lost'[j]
         /\ \/ pc'[w] = "outer" /\ on'[w] = on[w] /\ row'[w] = Expired
            \/ pc'[w] = "idle" /\ lost'[on[w]]
  <1>1. Expired \in Rows
    BY DEF Expired, Rows
  <1>2. row' \in [Runners -> Rows] /\ row'[w] = Expired
    BY <1>1 DEF TypeOK, Break
  <1>3. CASE w \in Workers
    BY <1>2, <1>3 DEF TypeOK, Break, GoTo, Steps
  <1>4. CASE w \notin Workers
    <2>1. on[w] \in Jobs
      BY DEF HasJob
    <2>2. lost' = [lost EXCEPT ![on[w]] = TRUE]
      BY <1>4 DEF Break
    <2>3. lost' \in [Jobs -> BOOLEAN] /\ lost'[on[w]] /\ \A j \in Jobs : lost[j] => lost'[j]
      BY <2>1, <2>2 DEF TypeOK
    <2> QED
      BY <1>2, <1>4, <2>3 DEF TypeOK, Break, GoTo, Steps
  <1> QED
    BY <1>3, <1>4

\* The initial state.
LEMMA InitHolds == Init => IInv
  BY ExportAssumption
     DEF Init, IInv, TypeOK, HasJob, ActiveIsOwed, FinishIsSettled, Active, Statuses, Steps,
         Rows, Expired, Final

\* A committed status is final, or its writer still owes a final one: nobody else's debt
\* is touched, and a commit that changes nothing leaves the debt with another runner.
LEMMA OwedAfterWrite ==
  ASSUME TypeOK, HasJob, ActiveIsOwed, NEW w \in Runners, pc[w] \in Owing,
         NEW s, NEW n \in Nat, Write(w, s, n), lost' = lost,
         \A v \in Runners : v # w => pc'[v] = pc[v] /\ on'[v] = on[v],
         \/ s \in Final
         \/ s \in Active \union {row[w].status} /\ pc'[w] \in Owing /\ on'[w] = on[w]
  PROVE  ActiveIsOwed'
  <1>1. on[w] \in Jobs
    BY DEF HasJob, Owing
  <1>2. s \in Statuses \/ s = row[w].status
    BY DEF Statuses
  <1>3. /\ row[w] # Expired
        /\ row'[w] = Expired
        /\ \A v \in Runners : v # w => row'[v] = row[v]
        /\ \A j \in Jobs : j # on[w] => status'[j] = status[j]
        /\ status'[on[w]] = IF row[w].status = s THEN status[on[w]] ELSE s
    BY <1>1, <1>2, WriteStep
  <1> SUFFICES ASSUME NEW j \in Jobs, status'[j] \in Active
               PROVE  lost'[j] \/ \E v \in Runners : Owes(v, j)'
    BY DEF ActiveIsOwed
  <1>4. ASSUME NEW v \in Runners, v # w, Owes(v, j) PROVE Owes(v, j)'
    BY <1>3, <1>4 DEF Owes
  <1>5. CASE j # on[w]
    <2>1. status[j] \in Active
      BY <1>3, <1>5
    <2>2. \A v \in Runners : Owes(v, j) => v # w
      BY <1>5 DEF Owes
    <2> QED
      BY <1>4, <2>1, <2>2 DEF ActiveIsOwed
  <1>6. CASE j = on[w] /\ s \in Final
    <2>1. row[w].status = s /\ status[j] \in Active /\ s \notin Active
      BY <1>3, <1>6 DEF Active, Final
    <2>2. \A v \in Runners : Owes(v, j) => v # w
      BY <1>3, <2>1 DEF Owes
    <2> QED
      BY <1>4, <2>1, <2>2 DEF ActiveIsOwed
  <1>7. CASE j = on[w] /\ pc'[w] \in Owing /\ on'[w] = on[w]
    BY <1>3, <1>7 DEF Owes
  <1> QED
    BY <1>5, <1>6, <1>7

\* Steps that write no status keep every debt, as long as whoever has one keeps it.
LEMMA OwedWithoutWrite ==
  ASSUME ActiveIsOwed, NEW w \in Runners, status' = status,
         \A j \in Jobs : lost[j] => lost'[j],
         \A v \in Runners : v # w => pc'[v] = pc[v] /\ on'[v] = on[v] /\ row'[v] = row[v],
         \A j \in Jobs : Owes(w, j) /\ status[j] \in Active => Owes(w, j)' \/ lost'[j]
  PROVE  ActiveIsOwed'
  <1> SUFFICES ASSUME NEW j \in Jobs, status'[j] \in Active
               PROVE  lost'[j] \/ \E v \in Runners : Owes(v, j)'
    BY DEF ActiveIsOwed
  <1>1. lost[j] \/ \E v \in Runners : Owes(v, j)
    BY DEF ActiveIsOwed
  <1>2. ASSUME NEW v \in Runners, Owes(v, j) PROVE lost'[j] \/ Owes(v, j)'
    BY <1>2 DEF Owes
  <1> QED
    BY <1>1, <1>2

\* Creating, taking and loading.
LEMMA BeginStep ==
  ASSUME IInv, NEW w \in Runners,
         Load(w) \/ \E j \in Jobs : Create(w, j) \/ Take(w, j)
  PROVE  IInv'
  <1> USE DEF IInv
  <1>0. Expired \in Rows
    BY DEF Expired, Rows
  <1>1. CASE Load(w)
    <2>1. on[w] \in Jobs
      BY <1>1 DEF Load, HasJob
    <2>2. [status |-> status[on[w]], retries |-> retries[on[w]]] \in Rows
      BY <2>1 DEF TypeOK, Rows
    <2>3. TypeOK' /\ HasJob'
      BY <1>1, <2>1, <2>2 DEF TypeOK, HasJob, Load
    <2>4. row'[w].status = status[on[w]]
      BY <1>1 DEF TypeOK, Load
    <2>5. ActiveIsOwed'
      BY <1>1, <2>1, <2>4, OwedWithoutWrite DEF TypeOK, Load, Owes
    <2>6. FinishIsSettled'
      BY <1>1 DEF FinishIsSettled, Load
    <2> QED
      BY <2>3, <2>5, <2>6
  <1>2. ASSUME NEW j \in Jobs, Create(w, j) PROVE IInv'
    <2>1. status' = [status EXCEPT ![j] = "pending"]
      BY <1>2 DEF Create
    <2>2. TypeOK'
      BY <1>0, <1>2 DEF TypeOK, Create, Begin, GoTo, Statuses, Steps
    <2>3. HasJob'
      BY <1>2 DEF TypeOK, HasJob, Create, Begin, GoTo
    <2>4. \A v \in Runners : pc[v] # "idle" =>
              pc'[v] = pc[v] /\ on'[v] = on[v] /\ row'[v] = row[v]
      BY <1>2 DEF TypeOK, Create, Begin, GoTo
    <2>5. ActiveIsOwed'
      <3>1. \A k \in Jobs : status'[k] \in Active => status[k] \in Active
        BY <2>1 DEF TypeOK, Active
      <3>2. \A v \in Runners, k \in Jobs : Owes(v, k) => Owes(v, k)'
        BY <2>4 DEF Owes, Owing
      <3> QED
        BY <1>2, <3>1, <3>2 DEF ActiveIsOwed, Create
    <2>6. FinishIsSettled'
      <3>1. \A k \in Jobs : status'[k] = "completed" => status[k] = "completed"
        BY <2>1 DEF TypeOK
      <3>2. \A v \in Runners : pc'[v] = "finish" => pc[v] = "finish" /\ on'[v] = on[v]
        BY <1>2 DEF TypeOK, Create, Begin, GoTo
      <3> QED
        BY <1>2, <3>1, <3>2 DEF FinishIsSettled, Create
    <2> QED
      BY <2>2, <2>3, <2>5, <2>6
  <1>3. ASSUME NEW j \in Jobs, Take(w, j) PROVE IInv'
    <2>1. queued' \in [Jobs -> Nat]
      BY <1>3 DEF TypeOK, Take
    <2>2. TypeOK' /\ HasJob'
      BY <1>0, <1>3, <2>1 DEF TypeOK, HasJob, Take, Begin, GoTo, Steps
    <2>3. \A v \in Runners : pc[v] # "idle" =>
              pc'[v] = pc[v] /\ on'[v] = on[v] /\ row'[v] = row[v]
      BY <1>3 DEF TypeOK, Take, Begin, GoTo
    <2>4. ActiveIsOwed'
      <3>1. \A v \in Runners, k \in Jobs : Owes(v, k) => Owes(v, k)'
        BY <2>3 DEF Owes, Owing
      <3> QED
        BY <1>3, <3>1 DEF ActiveIsOwed, Take
    <2>5. FinishIsSettled'
      BY <1>3 DEF TypeOK, FinishIsSettled, Take, Begin, GoTo
    <2> QED
      BY <2>2, <2>4, <2>5
  <1> QED
    BY <1>1, <1>2, <1>3

\* The steps that commit a status or a count.
LEMMA WriterStep ==
  ASSUME IInv, NEW w \in Runners,
         \/ Prepare(w) \/ Query(w) \/ Batch(w) \/ Complete(w) \/ Finish(w) \/ Fail(w)
         \/ Outer(w)
  PROVE  IInv'
  <1> USE DEF IInv
  <1>1. PICK s, n : Write(w, s, n) /\ n \in Nat
                    /\ \/ s = "preparing" /\ Prepare(w)
                       \/ s = row[w].status /\ Query(w)
                       \/ s = "processing" /\ Batch(w)
                       \/ s = "completed" /\ (Complete(w) \/ Finish(w))
                       \/ s = "failed" /\ (Fail(w) \/ Outer(w))
    BY LoadedRow DEF Prepare, Query, Batch, Complete, Finish, Fail, Outer
  <1>2. pc[w] \in Owing
    BY DEF Prepare, Query, Batch, Complete, Finish, Fail, Outer, Owing, Steps
  <1>3. on[w] \in Jobs
    BY <1>2 DEF HasJob, Owing
  <1>4. s \in Statuses \/ s = row[w].status
    BY <1>1 DEF Statuses, Active, Final
  <1>5. /\ status' \in [Jobs -> Statuses]
        /\ retries' \in [Jobs -> Nat]
        /\ row' \in [Runners -> Rows]
        /\ row[w] # Expired
        /\ \A j \in Jobs : j # on[w] => status'[j] = status[j]
        /\ status'[on[w]] = IF row[w].status = s THEN status[on[w]] ELSE s
    BY <1>1, <1>3, <1>4, WriteStep
  <1>6. /\ pc' \in [Runners -> Steps]
        /\ on' \in [Runners -> Jobs \union {NoJob}]
        /\ \A v \in Runners : v # w => pc'[v] = pc[v] /\ on'[v] = on[v]
        /\ pc'[w] # "idle" => on'[w] = on[w]
    BY DEF Prepare, Query, Batch, Complete, Finish, Fail, Outer, GoTo, Leave, TypeOK, Steps
  <1>7. /\ settled' \in [Jobs -> BOOLEAN]
        /\ \A j \in Jobs : settled[j] => settled'[j]
        /\ Complete(w) => settled'[on[w]]
        /\ UNCHANGED <<metrics, queued, cancel, lost, faults, emailed>>
    BY <1>3 DEF Prepare, Query, Batch, Complete, Finish, Fail, Outer, TypeOK
  <1>8. TypeOK'
    BY <1>5, <1>6, <1>7 DEF TypeOK
  <1>9. HasJob'
    BY <1>3, <1>6 DEF HasJob
  <1>10. ActiveIsOwed'
    <2>1. \/ s \in Final
          \/ s \in Active \union {row[w].status} /\ pc'[w] \in Owing /\ on'[w] = on[w]
      BY <1>1 DEF Prepare, Query, Batch, GoTo, Final, Active, Owing, Steps, TypeOK
    <2> QED
      BY <1>1, <1>2, <1>6, <1>7, <2>1, OwedAfterWrite
  <1>11. FinishIsSettled'
    <2>1. ASSUME NEW j \in Jobs, status'[j] = "completed" PROVE settled'[j] \/ emailed'[j]
      <3>1. CASE status[j] = "completed"
        BY <1>7, <3>1 DEF FinishIsSettled
      <3>2. CASE status[j] # "completed"
        <4>1. j = on[w] /\ s = "completed"
          BY <1>5, <2>1, <3>2
        <4>2. Complete(w) \/ Finish(w) \/ Query(w)
          BY <1>1, <4>1
        <4>3. CASE Query(w)
          BY <1>1, <1>5, <2>1, <3>2, <4>1, <4>3 DEF Query, Prepare, Complete, Finish, Batch, Fail, Outer
        <4>4. CASE Finish(w)
          BY <1>7, <4>1, <4>4 DEF Finish, FinishIsSettled
        <4> QED
          BY <1>7, <4>1, <4>2, <4>3, <4>4
      <3> QED
        BY <3>1, <3>2
    <2>2. ASSUME NEW v \in Runners, pc'[v] = "finish" PROVE settled'[on'[v]] \/ emailed'[on'[v]]
      <3>1. v # w
        BY <2>2 DEF Prepare, Query, Batch, Complete, Finish, Fail, Outer, GoTo, Leave, TypeOK
      <3>2. (settled[on[v]] \/ emailed[on[v]]) /\ on[v] \in Jobs
        BY <1>6, <2>2, <3>1 DEF FinishIsSettled, HasJob
      <3> QED
        BY <1>6, <1>7, <3>1, <3>2
    <2> QED
      BY <2>1, <2>2 DEF FinishIsSettled
  <1> QED
    BY <1>8, <1>9, <1>10, <1>11

\* The steps that commit nothing of the job, broken and killed runs among them.
LEMMA OtherRunnerStep ==
  ASSUME IInv, NEW w \in Runners,
         \/ FileWritten(w) \/ Send(w) \/ Metrics(w) \/ Log(w) \/ Raise(w)
         \/ SoftLimit(w) \/ DbError(w) \/ Crash(w)
  PROVE  IInv'
  <1> USE DEF IInv
  <1>1. pc[w] # "idle"
    BY DEF FileWritten, Send, Metrics, Log, Raise, SoftLimit, DbError, Crash
  <1>2. on[w] \in Jobs
    BY <1>1 DEF HasJob
  <1>3. status' = status
    BY DEF FileWritten, Send, Metrics, Log, Raise, SoftLimit, DbError, Crash
  <1>4. /\ row' \in [Runners -> Rows]
        /\ pc' \in [Runners -> Steps]
        /\ on' \in [Runners -> Jobs \union {NoJob}]
        /\ lost' \in [Jobs -> BOOLEAN]
        /\ \A v \in Runners : v # w => pc'[v] = pc[v] /\ on'[v] = on[v] /\ row'[v] = row[v]
        /\ \A j \in Jobs : lost[j] => lost'[j]
        /\ \/ pc'[w] \in Owing \ {"finish"} /\ on'[w] = on[w] /\ row'[w] \in {row[w], Expired}
           \/ pc'[w] = "finish" /\ on'[w] = on[w] /\ row'[w] = row[w] /\ Send(w)
           \/ pc'[w] = "log" /\ on'[w] = on[w] /\ pc[w] \notin Owing
           \/ pc'[w] = "idle" /\ (lost'[on[w]] \/ pc[w] \notin Owing)
    <2>1. CASE Break(w)
      BY <1>1, <2>1, BreakStep DEF Owing, Steps
    <2>2. CASE FileWritten(w)
      BY <2>2 DEF FileWritten, GoTo, TypeOK, Steps, Owing
    <2>3. CASE Send(w)
      BY <2>3 DEF Send, GoTo, TypeOK, Steps, Owing
    <2>4. CASE Raise(w)
      BY <2>4 DEF Raise, GoTo, TypeOK, Steps, Owing
    <2>5. CASE Log(w)
      BY <2>5 DEF Log, Leave, GoTo, TypeOK, Steps, Owing
    <2>6. CASE Metrics(w) /\ ~Break(w)
      BY <2>6 DEF Metrics, GoTo, TypeOK, Steps, Owing
    <2>7. CASE Crash(w)
      BY <1>2, <2>7 DEF Crash, Leave, GoTo, TypeOK, Steps, Owing
    <2>8. CASE SoftLimit(w)
      <3>1. Expired \in Rows
        BY DEF Expired, Rows
      <3> QED
        BY <2>8, <3>1 DEF SoftLimit, GoTo, TypeOK, Steps, Owing
    <2> QED
      BY <2>1, <2>2, <2>3, <2>4, <2>5, <2>6, <2>7, <2>8 DEF DbError
  <1>5. /\ retries' = retries /\ queued' = queued
        /\ cancel' = cancel /\ emailed' = emailed
    BY DEF FileWritten, Send, Metrics, Log, Raise, SoftLimit, DbError, Crash
  <1>6. metrics' \in [Jobs -> BOOLEAN] /\ faults' \in Nat
    <2>1. metrics' = metrics \/ metrics' = [metrics EXCEPT ![on[w]] = TRUE]
      BY DEF FileWritten, Send, Metrics, Log, Raise, SoftLimit, DbError, Crash
    <2>2. faults' = faults \/ faults' = faults + 1
      BY DEF FileWritten, Send, Metrics, Log, Raise, SoftLimit, DbError, Crash
    <2>3. metrics \in [Jobs -> BOOLEAN] /\ faults \in Nat
      BY DEF TypeOK
    <2>4. metrics' \in [Jobs -> BOOLEAN]
      BY <2>1, <2>3
    <2>5. faults' \in Nat
      BY <2>2, <2>3
    <2> QED
      BY <2>4, <2>5
  <1>7. settled' \in [Jobs -> BOOLEAN] /\ \A j \in Jobs : settled[j] => settled'[j]
    BY <1>2 DEF FileWritten, Send, Metrics, Log, Raise, SoftLimit, DbError, Crash, TypeOK
  <1>8. TypeOK'
    BY <1>3, <1>4, <1>5, <1>6, <1>7 DEF TypeOK
  <1>9. HasJob'
    BY <1>2, <1>4 DEF HasJob
  <1>10. ActiveIsOwed'
    <2>1. \A j \in Jobs : Owes(w, j) /\ status[j] \in Active => Owes(w, j)' \/ lost'[j]
      BY <1>4 DEF Owes, Owing, Steps
    <2> QED
      BY <1>3, <1>4, <2>1, OwedWithoutWrite
  <1>11. FinishIsSettled'
    <2>1. \A j \in Jobs : status'[j] = "completed" => settled'[j] \/ emailed'[j]
      BY <1>3, <1>5, <1>7 DEF FinishIsSettled
    <2>2. ASSUME NEW v \in Runners, pc'[v] = "finish" PROVE settled'[on'[v]] \/ emailed'[on'[v]]
      <3>1. CASE v = w
        <4>1. Send(w) /\ on'[w] = on[w]
          BY <1>4, <2>2, <3>1 DEF Owing
        <4>2. settled' = [settled EXCEPT ![on[w]] = settled[on[w]] \/ ~emailed[on[w]]]
          BY <4>1 DEF Send
        <4> QED
          BY <1>2, <1>5, <3>1, <4>1, <4>2 DEF TypeOK
      <3>2. CASE v # w
        <4>1. (settled[on[v]] \/ emailed[on[v]]) /\ on[v] \in Jobs
          BY <1>4, <2>2, <3>2 DEF FinishIsSettled, HasJob
        <4> QED
          BY <1>4, <1>5, <1>7, <3>2, <4>1
      <3> QED
        BY <3>1, <3>2
    <2> QED
      BY <2>1, <2>2 DEF FinishIsSettled
  <1> QED
    BY <1>8, <1>9, <1>10, <1>11

\* Cancelling, sweeping and cleaning up touch no run.
LEMMA OutsideStep ==
  ASSUME IInv,
         \/ \E c \in Cancellers : CancelCommit(c) \/ \E j \in Jobs : CancelCheck(c, j)
         \/ \E j \in Jobs : Retry(j) \/ CleanUp(j)
  PROVE  IInv'
  <1> USE DEF IInv
  <1>1. UNCHANGED <<retries, metrics, pc, on, row, settled, lost, faults, emailed>>
    BY DEF CancelCommit, CancelCheck, Retry, CleanUp
  <1>2. /\ status' \in [Jobs -> Statuses]
        /\ \A j \in Jobs : status'[j] \in {status[j], "cancelled"}
    BY DEF CancelCommit, CancelCheck, Retry, CleanUp, TypeOK, Statuses, Final
  <1>3. queued' \in [Jobs -> Nat] /\ cancel' \in [Cancellers -> Jobs \union {NoJob}]
    BY DEF CancelCommit, CancelCheck, Retry, CleanUp, TypeOK
  <1>4. TypeOK'
    BY <1>1, <1>2, <1>3 DEF TypeOK
  <1>5. \A j \in Jobs, w \in Runners : Owes(w, j)' <=> Owes(w, j)
    BY <1>1 DEF Owes
  <1>6. ActiveIsOwed'
    BY <1>1, <1>2, <1>5 DEF ActiveIsOwed, Active
  <1>7. HasJob' /\ FinishIsSettled'
    BY <1>1, <1>2 DEF HasJob, FinishIsSettled
  <1> QED
    BY <1>4, <1>6, <1>7

\* The invariant is inductive.
LEMMA StepHolds == IInv /\ [Next]_vars => IInv'
  <1> SUFFICES ASSUME IInv, [Next]_vars PROVE IInv'
    OBVIOUS
  <1>1. CASE UNCHANGED vars
    BY <1>1 DEF vars, IInv, TypeOK, HasJob, ActiveIsOwed, Owes, FinishIsSettled
  <1>2. CASE Next
    BY <1>2, BeginStep, WriterStep, OtherRunnerStep, OutsideStep DEF Next, RunnerStep
  <1> QED
    BY <1>1, <1>2

\* The invariant holds in every state.
THEOREM Invariance == Spec => []IInv
  BY InitHolds, StepHolds, PTL DEF Spec

\* Jobs, runners and sessions keep their types.
THEOREM TypeCorrect == Spec => []TypeOK
  <1>1. IInv => TypeOK
    BY DEF IInv
  <1> QED
    BY <1>1, Invariance, PTL

\* However many runs and cancellations overlap, a completed job was delivered or had
\* nothing to deliver, unless its destination is an e-mail, which is not sent.
THEOREM Delivered == Spec => []CompletedWasDelivered
  <1>1. IInv => CompletedWasDelivered
    BY DEF IInv, FinishIsSettled, CompletedWasDelivered
  <1> QED
    BY <1>1, Invariance, PTL

\* However stale the rows of the runs, an active job has a runner or a lost run.
THEOREM WorkedOn == Spec => []ActiveIsWorkedOn
  <1>1. IInv => ActiveIsWorkedOn
    <2> SUFFICES ASSUME IInv, NEW j \in Jobs, status[j] \in Active, ~lost[j]
                 PROVE  \E w \in Runners : pc[w] # "idle" /\ on[w] = j
      BY DEF ActiveIsWorkedOn
    <2>1. PICK w \in Runners : Owes(w, j)
      BY DEF IInv, ActiveIsOwed
    <2> QED
      BY <2>1 DEF Owes, Owing
  <1> QED
    BY <1>1, Invariance, PTL
=============================================================================
