------------------------- MODULE TaskRuntimeProofs -------------------------
(***************************************************************************)
(* The queue and its clients, for any number of tasks, workers, operators  *)
(* and claims: who holds a task, what a step may do to its row, and that   *)
(* the rows implement TaskLifecycle.                                       *)
(***************************************************************************)
EXTENDS TaskRuntime, TLAPS

LEMMA StatusFacts ==
    /\ Queued \subseteq Statuses /\ Active \subseteq Statuses
    /\ Settled \subseteq Statuses
BY DEF Queued, Active, Settled, Statuses

LEMMA FinishedRow ==
    ASSUME NEW row \in Row, NEW status \in Statuses, NEW now \in Nat
    PROVE  /\ Finished(row, status, now) \in Row
           /\ Finished(row, status, now).status = status
           /\ Finished(row, status, now).attempts = row.attempts
           /\ Finished(row, status, now).deadline = row.deadline
           /\ Finished(row, status, now).updatedAt = now
           /\ Finished(row, status, now).token = NoToken
           /\ Finished(row, status, now).until = 0
BY DEF Finished, Unleased, Row, NoToken

LEMMA ReopenedRow ==
    ASSUME NEW row \in Row, NEW now \in Nat
    PROVE  /\ Reopened(row, now) \in Row
           /\ Reopened(row, now).status = "new"
           /\ Reopened(row, now).attempts = 0
           /\ Reopened(row, now).token = NoToken
BY DEF Reopened, Finished, Unleased, Row, NoToken, Statuses, Active, Queued

LEMMA NewTaskRow ==
    ASSUME NEW a \in Nat, NEW d \in Nat \cup {NoDeadline}, NEW now \in Nat
    PROVE  /\ NewTask(a, d, now) \in Row
           /\ NewTask(a, d, now).status = "new"
           /\ NewTask(a, d, now).attempts = 0
           /\ NewTask(a, d, now).token = NoToken
BY DEF NewTask, NoRow, Row, NoToken, Statuses, Active, Queued, NoDeadline

LEMMA CappedNat ==
    ASSUME NEW row, row.deadline \in Nat \cup {NoDeadline}, NEW until \in Nat
    PROVE  /\ CappedByDeadline(row, until) \in Nat
           /\ row.deadline # NoDeadline =>
                 CappedByDeadline(row, until) <= row.deadline
BY DEF CappedByDeadline, NoDeadline

LEMMA LeasedRow ==
    ASSUME NEW row \in Row, NEW token \in Nat \ {NoToken}, NEW now \in Nat
    PROVE  /\ Leased(row, token, now) \in Row
           /\ Leased(row, token, now).status = "processing"
           /\ Leased(row, token, now).attempts = row.attempts + 1
           /\ Leased(row, token, now).token = token
           /\ Leased(row, token, now).deadline = row.deadline
           /\ row.deadline # NoDeadline =>
                 Leased(row, token, now).until <= row.deadline
<1>1. row.deadline \in Nat \cup {NoDeadline} BY DEF Row
<1>2. now + LeaseDuration \in Nat BY QueueAssumption
<1>3. /\ CappedByDeadline(row, now + LeaseDuration) \in Nat
      /\ row.deadline # NoDeadline =>
            CappedByDeadline(row, now + LeaseDuration) <= row.deadline
  BY <1>1, <1>2, CappedNat
<1>4. "processing" \in Statuses BY DEF Statuses, Active
<1>5. row.attempts + 1 \in Nat BY DEF Row
<1>6. Leased(row, token, now) \in Row
  BY <1>3, <1>4, <1>5 DEF Leased, Row
<1>7. QED
  BY <1>3, <1>6 DEF Leased, Row

LEMMA ExpireOverdueRows ==
    ASSUME NEW rows \in [Keys -> Row], NEW now \in Nat
    PROVE  /\ ExpireOverdue(rows, now) \in [Keys -> Row]
           /\ \A k \in Keys :
                 \/ ExpireOverdue(rows, now)[k] = rows[k]
                 \/ /\ rows[k].status \in Active
                    /\ PastDeadline(rows[k], now)
                    /\ ExpireOverdue(rows, now)[k]
                         = Finished(rows[k], "failed", now)
<1>1. "failed" \in Statuses BY DEF Statuses, Settled
<1>2. \A k \in Keys : Finished(rows[k], "failed", now) \in Row
  BY <1>1, FinishedRow
<1>3. QED BY <1>2 DEF ExpireOverdue

LEMMA LeaseOfType ==
    ASSUME NEW k \in Keys, NEW row \in Row, row.token # NoToken
    PROVE  LeaseOf(k, row) \in Lease
BY DEF LeaseOf, Lease, Row

-----------------------------------------------------------------------------
LEMMA InitType == Init => TypeOK
BY DEF Init, QueueInit, TypeOK, NoRow, Row, Statuses, Worker, Idle, PCs,
       Outcomes, NoLease, NoToken, NoDeadline, Busy

LEMMA StoppedType == Stopped \in Worker /\ Stopped.lease = NoLease
                     /\ Stopped.pc = "stopped"
BY DEF Stopped, Idle, Worker, PCs, Outcomes, NoLease

LEMMA IdleType == Idle \in Worker /\ Idle.lease = NoLease /\ Idle.pc = "idle"
BY DEF Idle, Worker, PCs, Outcomes, NoLease

(* A worker that ends a task or stops drops its lease.                     *)
LEMMA WorkerReset ==
    ASSUME TypeOK, NEW w \in Workers,
           Becomes(w, Idle) \/ Becomes(w, Stopped)
    PROVE  /\ worker' \in [Workers -> Worker]
           /\ \A v \in Workers :
                 worker'[v].lease # NoLease <=> worker'[v].pc \in Busy
<1>1. "idle" \notin Busy /\ "stopped" \notin Busy BY DEF Busy
<1>2. QED BY <1>1, StoppedType, IdleType DEF TypeOK, Becomes

LEMMA WorkerBecomes ==
    ASSUME TypeOK, NEW w \in Workers, NEW s \in Worker,
           s.lease # NoLease <=> s.pc \in Busy, Becomes(w, s)
    PROVE  /\ worker' \in [Workers -> Worker]
           /\ \A v \in Workers :
                 worker'[v].lease # NoLease <=> worker'[v].pc \in Busy
BY DEF TypeOK, Becomes

LEMMA BusyLease ==
    ASSUME TypeOK, NEW w \in Workers, worker[w].pc \in Busy
    PROVE  worker[w].lease \in Lease
BY DEF TypeOK, Worker

LEMMA LeaseFields ==
    ASSUME NEW lease \in Lease
    PROVE  /\ lease.key \in Keys /\ lease.token \in Nat \ {NoToken}
           /\ lease.until \in Nat /\ lease.attempts \in Nat
           /\ lease.deadline \in Nat \cup {NoDeadline}
BY DEF Lease

(* What Complete and Fail do to the rows.                                  *)
LEMMA FinishRows ==
    ASSUME TypeOK, NEW k \in Keys, NEW status \in Statuses, NEW now \in Nat,
           tasks' = [tasks EXCEPT ![k] = Finished(@, status, now)]
    PROVE  /\ tasks' \in [Keys -> Row]
           /\ tasks'[k] = Finished(tasks[k], status, now)
           /\ \A j \in Keys \ {k} : tasks'[j] = tasks[j]
<1>1. Finished(tasks[k], status, now) \in Row BY FinishedRow DEF TypeOK
<1>2. QED BY <1>1 DEF TypeOK

(* What Extend does to the rows.                                           *)
LEMMA ExtendRows ==
    ASSUME TypeOK, NEW lease \in Lease, NEW until \in Nat, NEW now \in Nat,
           Extend(lease, until, now)
    PROVE  /\ tasks' \in [Keys -> Row]
           /\ tasks'[lease.key] = Extended(tasks[lease.key], until, now)
           /\ \A j \in Keys \ {lease.key} : tasks'[j] = tasks[j]
<1>1. lease.key \in Keys BY LeaseFields
<1>2. Extended(tasks[lease.key], until, now) \in Row
  BY <1>1 DEF TypeOK, Extended, Row
<1>3. QED BY <1>1, <1>2 DEF TypeOK, Extend

(* What Retry does to the rows.                                            *)
LEMMA RetryRows ==
    ASSUME TypeOK, NEW lease \in Lease, NEW pacing \in BOOLEAN,
           NEW retryAt \in Nat, NEW now \in Nat,
           Retry(lease, pacing, retryAt, now)
    PROVE  /\ tasks' \in [Keys -> Row]
           /\ tasks'[lease.key].status = "retry_scheduled"
           /\ tasks'[lease.key].token = NoToken
           /\ tasks'[lease.key].attempts \in
                 {tasks[lease.key].attempts, tasks[lease.key].attempts - 1}
           /\ \A j \in Keys \ {lease.key} : tasks'[j] = tasks[j]
<1> DEFINE row == tasks[lease.key]
           done == Finished(row, "retry_scheduled", now)
           left == IF pacing /\ row.attempts > 0 THEN row.attempts - 1
                   ELSE row.attempts
<1>1. lease.key \in Keys BY LeaseFields
<1>2. "retry_scheduled" \in Statuses BY DEF Statuses, Active, Queued
<1>3. row \in Row BY <1>1 DEF TypeOK
<1>4. /\ done \in Row /\ done.status = "retry_scheduled"
      /\ done.token = NoToken /\ done.attempts = row.attempts
  BY <1>2, <1>3, FinishedRow
<1>5. left \in Nat /\ left \in {row.attempts, row.attempts - 1}
  BY <1>3 DEF Row
<1>6. tasks' = [tasks EXCEPT ![lease.key] =
                  [done EXCEPT !.availableAt = retryAt, !.attempts = left]]
  BY DEF Retry, Rescheduled
<1> HIDE DEF done, left
<1>7. /\ [done EXCEPT !.availableAt = retryAt, !.attempts = left] \in Row
      /\ [done EXCEPT !.availableAt = retryAt, !.attempts = left].status
            = "retry_scheduled"
      /\ [done EXCEPT !.availableAt = retryAt, !.attempts = left].token
            = NoToken
      /\ [done EXCEPT !.availableAt = retryAt, !.attempts = left].attempts
            = left
  BY <1>4, <1>5 DEF Row
<1>8. QED BY <1>1, <1>5, <1>6, <1>7 DEF TypeOK

(* What a successful Claim does to the rows.                               *)
LEMMA ClaimRows ==
    ASSUME TypeOK, NEW k \in Keys, NEW type, NEW now \in Nat,
           Claim(k, type, now)
    PROVE  /\ tasks' \in [Keys -> Row]
           /\ issued' = issued + 1
           /\ tasks'[k] = Leased(tasks[k], issued + 1, now)
           /\ tasks[k].status \in Active
           /\ tasks[k].status = "processing" => tasks[k].until <= now
           /\ \A j \in Keys \ {k} :
                 tasks'[j] = ExpireOverdue(tasks, now)[j]
<1> DEFINE rows == ExpireOverdue(tasks, now)
<1>1. tasks \in [Keys -> Row] /\ issued \in Nat BY DEF TypeOK
<1>2. /\ rows \in [Keys -> Row]
      /\ \/ rows[k] = tasks[k]
         \/ rows[k] = Finished(tasks[k], "failed", now)
  BY <1>1, ExpireOverdueRows
<1>3. Eligible(rows[k], now)
  BY DEF Claim, First, Claimable
<1>4. "failed" \in Statuses /\ "failed" \notin Active
  BY DEF Statuses, Settled, Active, Queued
<1>5. Finished(tasks[k], "failed", now).status = "failed"
  BY <1>1, <1>4, FinishedRow
<1>6. rows[k].status \in Active
  BY <1>3 DEF Eligible, Active
<1>7. rows[k] = tasks[k]
  BY <1>2, <1>4, <1>5, <1>6
<1>8. tasks' = [rows EXCEPT ![k] = Leased(rows[k], issued + 1, now)]
      /\ issued' = issued + 1
  BY DEF Claim
<1>9. Leased(tasks[k], issued + 1, now) \in Row
  <2>1. issued + 1 \in Nat \ {NoToken} BY <1>1 DEF NoToken
  <2>2. QED BY <1>1, <2>1, LeasedRow
<1>10. tasks[k].status = "processing" => tasks[k].until <= now
  BY <1>3, <1>7 DEF Eligible, Queued
<1> HIDE DEF rows
<1>11. /\ tasks' \in [Keys -> Row]
       /\ tasks'[k] = Leased(tasks[k], issued + 1, now)
       /\ \A j \in Keys \ {k} : tasks'[j] = rows[j]
  BY <1>2, <1>7, <1>8, <1>9
<1>12. QED BY <1>6, <1>7, <1>8, <1>10, <1>11 DEF rows

(* What an operator control does to the rows.                              *)
LEMMA ControlRows ==
    ASSUME TypeOK, NEW op \in Controls, NEW k \in Keys, NEW u, NEW now \in Nat,
           Control(op, k, u, now)
    PROVE  /\ tasks' \in [Keys -> Row]
           /\ tasks[k].status \in {"new", "retry_scheduled", "failed",
                                   "dismissed"}
           /\ \/ /\ tasks[k].status \in {"failed", "dismissed"}
                 /\ tasks'[k] = Reopened(tasks[k], now)
              \/ /\ tasks[k].status \in {"new", "retry_scheduled", "failed"}
                 /\ tasks'[k] = Finished(tasks[k], "dismissed", now)
           /\ \A j \in Keys \ {k} : tasks'[j] = tasks[j]
<1>1. "dismissed" \in Statuses BY DEF Statuses, Settled
<1>2. /\ Finished(tasks[k], "dismissed", now) \in Row
      /\ Reopened(tasks[k], now) \in Row
  BY <1>1, FinishedRow, ReopenedRow DEF TypeOK
<1>3. tasks[k].status \in ControlFrom(op)
  BY DEF Control, ControlMatches
<1>4. CASE op \in {"restart", "requeue"}
  <2>1. tasks' = [tasks EXCEPT ![k] = Reopened(tasks[k], now)]
    BY <1>4 DEF Control
  <2>2. tasks[k].status \in {"failed", "dismissed"}
    BY <1>3, <1>4 DEF ControlFrom
  <2>3. QED BY <1>2, <2>1, <2>2 DEF TypeOK
<1>5. CASE op \in {"cancel", "dismiss"}
  <2>1. tasks' = [tasks EXCEPT ![k] = Finished(tasks[k], "dismissed", now)]
    BY <1>5 DEF Control
  <2>2. tasks[k].status \in {"new", "retry_scheduled", "failed"}
    BY <1>3, <1>5 DEF ControlFrom, Queued
  <2>3. QED BY <1>2, <2>1, <2>2 DEF TypeOK
<1>6. QED BY <1>4, <1>5 DEF Controls

-----------------------------------------------------------------------------
LEMMA TypeStep == TypeOK /\ [Next]_vars => TypeOK'
<1> SUFFICES ASSUME TypeOK, [Next]_vars PROVE TypeOK'
  OBVIOUS
<1> USE QueueAssumption, RuntimeAssumption
<1>1. CASE Tick
  BY <1>1 DEF TypeOK, Tick
<1>2. ASSUME NEW k \in Keys, Produce(k) PROVE TypeOK'
  <2>1. PICK a \in AvailableIn, d \in Deadlines :
           Enqueue(k, clock + a, d, clock)
    BY <1>2 DEF Produce
  <2>2. NewTask(clock + a, d, clock) \in Row
    BY NewTaskRow DEF TypeOK
  <2>3. tasks' \in [Keys -> Row]
    BY <2>1, <2>2 DEF Enqueue, TypeOK
  <2>4. QED BY <1>2, <2>1, <2>3 DEF TypeOK, Produce, Enqueue
<1>3. ASSUME NEW w \in Workers, Poll(w) PROVE TypeOK'
  <2> DEFINE s == [worker[w] EXCEPT !.pc = "polling", !.now = clock]
  <2>1. worker[w] \in Worker /\ "polling" \in PCs /\ clock \in Nat
    BY DEF TypeOK, PCs
  <2>2. s \in Worker BY <2>1 DEF Worker
  <2>3. s.lease # NoLease <=> s.pc \in Busy
    BY <1>3, <2>1 DEF TypeOK, Poll, Worker, Busy
  <2>4. QED BY <1>3, <2>2, <2>3, WorkerBecomes DEF TypeOK, Poll
<1>4. ASSUME NEW w \in Workers, RunOnce(w) PROVE TypeOK'
  <2>1. worker[w].now \in Nat BY DEF TypeOK, Worker
  <2>2. ASSUME NEW k \in Keys, Claim(k, Serves[w], worker[w].now),
               Becomes(w, [worker[w] EXCEPT !.pc = "running", !.now = 0,
                                        !.lease = LeaseOf(k, tasks'[k])])
        PROVE  TypeOK'
    <3> DEFINE s == [worker[w] EXCEPT !.pc = "running", !.now = 0,
                                      !.lease = LeaseOf(k, tasks'[k])]
    <3>1. /\ tasks' \in [Keys -> Row] /\ issued' = issued + 1
          /\ tasks'[k] = Leased(tasks[k], issued + 1, worker[w].now)
      BY <2>1, <2>2, ClaimRows
    <3>2. issued + 1 \in Nat \ {NoToken} BY DEF TypeOK, NoToken
    <3>3. tasks'[k].token = issued + 1
      BY <2>1, <3>1, <3>2, LeasedRow DEF TypeOK
    <3>4. LeaseOf(k, tasks'[k]) \in Lease
      BY <3>1, <3>2, <3>3, LeaseOfType
    <3>5. LeaseOf(k, tasks'[k]) # NoLease
      BY <3>2, <3>3 DEF LeaseOf, NoLease
    <3>6. worker[w] \in Worker /\ "running" \in PCs /\ 0 \in Nat
      BY DEF TypeOK, PCs
    <3>7. s \in Worker BY <3>4, <3>6 DEF Worker
    <3>8. s.lease # NoLease <=> s.pc \in Busy
      BY <3>5, <3>6 DEF Worker, Busy
    <3>9. Becomes(w, s) BY <2>2
    <3> HIDE DEF s
    <3>10. issued' \in Nat BY <3>1, <3>2
    <3>11. QED
      BY <1>4, <3>1, <3>7, <3>8, <3>9, <3>10, WorkerBecomes
      DEF TypeOK, RunOnce
  <2>3. ASSUME ClaimNothing(Serves[w], worker[w].now), Becomes(w, Idle)
        PROVE  TypeOK'
    <3>1. tasks' \in [Keys -> Row]
      BY <2>1, <2>3, ExpireOverdueRows DEF TypeOK, ClaimNothing
    <3>2. QED
      BY <1>4, <2>3, <3>1, WorkerReset DEF TypeOK, RunOnce, ClaimNothing
  <2>4. QED BY <1>4, <2>2, <2>3 DEF RunOnce
<1>5. ASSUME NEW w \in Workers, Heartbeat(w) PROVE TypeOK'
  <2> DEFINE lease == worker[w].lease
             now == worker[w].now
             until == LongerLease(w, now)
             s == [worker[w] EXCEPT !.pc = "running", !.now = 0,
                                    !.lease = [lease EXCEPT !.until = until]]
  <2>1. lease \in Lease BY <1>5, BusyLease DEF Heartbeat, Busy
  <2>2. now \in Nat /\ until \in Nat
    <3>1. now \in Nat /\ now + LeaseDuration \in Nat
      BY QueueAssumption DEF TypeOK, Worker
    <3>2. QED BY <2>1, <3>1, LeaseFields, CappedNat DEF LongerLease
  <2>3. ASSUME Extend(lease, until, now), Becomes(w, s)
        PROVE  TypeOK'
    <3> HIDE DEF until, now
    <3>1. tasks' \in [Keys -> Row]
      BY <2>1, <2>2, <2>3, ExtendRows DEF TypeOK
    <3>2. /\ [lease EXCEPT !.until = until] \in Lease
          /\ [lease EXCEPT !.until = until] # NoLease
      BY <2>1, <2>2 DEF Lease, NoLease, NoToken
    <3>3. worker[w] \in Worker /\ "running" \in PCs
      BY <1>5 DEF Heartbeat, TypeOK, PCs
    <3>4. s \in Worker BY <3>2, <3>3 DEF Worker
    <3>5. s.lease # NoLease <=> s.pc \in Busy
      BY <3>2, <3>3 DEF Worker, Busy
    <3>6. QED
      BY <1>5, <2>3, <3>1, <3>4, <3>5, WorkerBecomes
      DEF TypeOK, Heartbeat, Extend
  <2>4. ASSUME Becomes(w, Stopped), UNCHANGED <<tasks, issued>>
        PROVE  TypeOK'
    BY <1>5, <2>4, WorkerReset DEF TypeOK, Heartbeat
  <2>5. QED BY <1>5, <2>3, <2>4 DEF Heartbeat
<1>5a. ASSUME NEW w \in Workers, ReadHeartbeat(w) PROVE TypeOK'
  <2> DEFINE s == [worker[w] EXCEPT !.pc = "extending", !.now = clock]
  <2>1. /\ worker[w] \in Worker /\ worker[w].lease # NoLease /\ clock \in Nat
        /\ "extending" \in PCs /\ "extending" \in Busy
    BY <1>5a DEF TypeOK, ReadHeartbeat, PCs, Busy
  <2>2. s \in Worker BY <2>1 DEF Worker
  <2>3. s.lease # NoLease <=> s.pc \in Busy BY <2>1 DEF Worker
  <2>4. QED BY <1>5a, <2>2, <2>3, WorkerBecomes DEF TypeOK, ReadHeartbeat
<1>6. ASSUME NEW w \in Workers, HandlerReturns(w) PROVE TypeOK'
  <2>1. PICK o \in Results :
           Becomes(w, [worker[w] EXCEPT
                         !.pc = IF o = "unauthorized" THEN "guarding"
                                ELSE "recording",
                         !.now = clock, !.outcome = o])
    BY <1>6 DEF HandlerReturns
  <2> DEFINE pc == IF o = "unauthorized" THEN "guarding" ELSE "recording"
             s == [worker[w] EXCEPT !.pc = pc, !.now = clock, !.outcome = o]
  <2>2. pc \in PCs /\ pc \in Busy BY DEF PCs, Busy
  <2>3. /\ worker[w] \in Worker /\ worker[w].lease # NoLease
        /\ clock \in Nat /\ o \in Outcomes
    BY <1>6 DEF TypeOK, HandlerReturns, Busy
  <2>4. Becomes(w, s) BY <2>1
  <2> HIDE DEF pc
  <2>5. s \in Worker BY <2>2, <2>3 DEF Worker
  <2>6. s.lease # NoLease <=> s.pc \in Busy BY <2>2, <2>3 DEF Worker
  <2>7. QED
    BY <1>6, <2>4, <2>5, <2>6, WorkerBecomes DEF TypeOK, HandlerReturns
<1>7. ASSUME NEW w \in Workers, Guard(w) PROVE TypeOK'
  <2> DEFINE s == [worker[w] EXCEPT !.pc = "recording"]
  <2>1. worker[w].lease \in Lease BY <1>7, BusyLease DEF Guard, Busy
  <2>2. worker[w].lease.key \in Keys BY <2>1, LeaseFields
  <2>3. /\ worker[w] \in Worker /\ worker[w].lease # NoLease
        /\ "recording" \in PCs /\ "recording" \in Busy
    BY <1>7 DEF TypeOK, Guard, PCs, Busy
  <2>4. s \in Worker BY <2>3 DEF Worker
  <2>5. s.lease # NoLease <=> s.pc \in Busy BY <2>3 DEF Worker
  <2>6. QED
    BY <1>7, <2>2, <2>4, <2>5, WorkerBecomes DEF TypeOK, Guard
<1>8. ASSUME NEW w \in Workers, RecordComplete(w) PROVE TypeOK'
  <2>1. worker[w].lease \in Lease
    BY <1>8, BusyLease DEF RecordComplete, Busy
  <2>2. worker[w].lease.key \in Keys BY <2>1, LeaseFields
  <2>3. "completed" \in Statuses BY DEF Statuses, Settled
  <2>4. worker[w].now \in Nat BY DEF TypeOK, Worker
  <2>5. tasks' \in [Keys -> Row]
    BY <1>8, <2>2, <2>3, <2>4, FinishRows DEF RecordComplete, Complete
  <2>6. QED
    BY <1>8, <2>5, WorkerReset DEF TypeOK, RecordComplete, Complete
<1>9. ASSUME NEW w \in Workers, RecordRetry(w) PROVE TypeOK'
  <2>1. worker[w].lease \in Lease BY <1>9, BusyLease DEF RecordRetry, Busy
  <2>2. worker[w].now \in Nat BY DEF TypeOK, Worker
  <2>3. PICK d \in RetryDelays :
           Retry(worker[w].lease, worker[w].outcome = "pacing",
                 worker[w].now + d, worker[w].now)
    BY <1>9 DEF RecordRetry
  <2>4. worker[w].now + d \in Nat
    <3>1. d \in Nat BY RuntimeAssumption
    <3>2. QED BY <2>2, <3>1
  <2>5. tasks' \in [Keys -> Row] BY <2>1, <2>2, <2>3, <2>4, RetryRows
  <2>6. issued' = issued BY <2>3 DEF Retry
  <2>7. QED BY <1>9, <2>5, <2>6, WorkerReset DEF TypeOK, RecordRetry
<1>10. ASSUME NEW w \in Workers, RecordFail(w) PROVE TypeOK'
  <2>1. worker[w].lease \in Lease BY <1>10, BusyLease DEF RecordFail, Busy
  <2>2. worker[w].lease.key \in Keys BY <2>1, LeaseFields
  <2>3. "failed" \in Statuses BY DEF Statuses, Settled
  <2>4. worker[w].now \in Nat BY DEF TypeOK, Worker
  <2>5. tasks' \in [Keys -> Row]
    BY <1>10, <2>2, <2>3, <2>4, FinishRows DEF RecordFail, Fail
  <2>6. QED BY <1>10, <2>5, WorkerReset DEF TypeOK, RecordFail, Fail
<1>11. ASSUME NEW w \in Workers, RecordRefused(w) PROVE TypeOK'
  BY <1>11, WorkerReset DEF TypeOK, RecordRefused
<1>12. ASSUME NEW w \in Workers, Crash(w) PROVE TypeOK'
  BY <1>12, WorkerReset DEF TypeOK, Crash
<1>13. ASSUME NEW w \in Workers, Restart(w) PROVE TypeOK'
  BY <1>13, WorkerReset DEF TypeOK, Restart
<1>14. ASSUME NEW o \in Operators, ControlRead(o) PROVE TypeOK'
  BY <1>14 DEF TypeOK, ControlRead, Pending, Row
<1>15. ASSUME NEW o \in Operators, ControlWrite(o) PROVE TypeOK'
  <2>1. operator[o] \in Pending BY <1>15 DEF ControlWrite, TypeOK
  <2>2. /\ operator[o].op \in Controls /\ operator[o].key \in Keys
        /\ operator[o].now \in Nat
    BY <2>1 DEF Pending
  <2>3. tasks' \in [Keys -> Row] /\ issued' = issued
    <3>1. CASE Control(operator[o].op, operator[o].key,
                       operator[o].updatedAt, operator[o].now)
      BY <2>2, <3>1, ControlRows DEF Control
    <3>2. CASE UNCHANGED <<tasks, issued>>
      BY <3>2 DEF TypeOK
    <3>3. QED BY <1>15, <3>1, <3>2 DEF ControlWrite
  <2>4. QED BY <1>15, <2>3 DEF TypeOK, ControlWrite
<1>16. CASE UNCHANGED vars
  BY <1>16 DEF TypeOK, vars
<1>17. QED
  BY <1>1, <1>2, <1>3, <1>4, <1>5, <1>5a, <1>6, <1>7, <1>8, <1>9, <1>10, <1>11,
     <1>12, <1>13, <1>14, <1>15, <1>16 DEF Next

(* Every reachable state of the queue and its clients is well typed: rows  *)
(* keep their columns in range and a worker holds a lease exactly while it *)
(* executes or records a task.                                             *)
THEOREM TypeCorrect == Spec => []TypeOK
BY InitType, TypeStep, PTL DEF Spec

-----------------------------------------------------------------------------
(* A step that starts and prolongs no lease: rows stay or lose their lease *)
(* and workers keep or drop theirs.                                        *)
LEMMA NoNewLease ==
    ASSUME IInv, TypeOK', issued' = issued,
           \A k \in Keys :
              \/ tasks'[k] = tasks[k]
              \/ /\ tasks'[k].token = NoToken
                 /\ tasks'[k].status # "processing"
                 /\ tasks'[k].status = "retry_scheduled"
                       => tasks'[k].attempts < MaxAttempts,
           \A w \in Workers : worker'[w].lease \in {worker[w].lease, NoLease}
    PROVE  IInv'
<1>1. NoLease.token = NoToken BY DEF NoLease
<1>2. issued \in Nat /\ NoToken \in Nat /\ NoToken <= issued
  BY DEF IInv, TypeOK, NoToken
<1>3. TokensIssued' BY <1>1, <1>2 DEF IInv, TokensIssued
<1>4. LeasedWhileProcessing' BY DEF IInv, LeasedWhileProcessing
<1>5. LeasesDistinct' BY <1>1 DEF IInv, LeasesDistinct
<1>6. HolderSeesRow'
  <2> SUFFICES ASSUME NEW k \in Keys, NEW w \in Workers, Holds(w, k)'
               PROVE  worker'[w].lease = LeaseOf(k, tasks'[k])
    BY DEF HolderSeesRow
  <2>1. tasks'[k] = tasks[k] BY DEF Holds
  <2>2. worker'[w].lease = worker[w].lease BY DEF Holds
  <2>3. Holds(w, k) BY <2>1, <2>2 DEF Holds
  <2>4. QED BY <2>1, <2>2, <2>3 DEF IInv, HolderSeesRow
<1>7. RetryHasAttemptLeft' BY DEF IInv, RetryHasAttemptLeft
<1>8. LeaseEndsByDeadline' BY DEF IInv, LeaseEndsByDeadline
<1>9. QED BY <1>3, <1>4, <1>5, <1>6, <1>7, <1>8 DEF IInv

LEMMA LeasesKept ==
    ASSUME TypeOK, NEW w \in Workers, NEW s, Becomes(w, s),
           s.lease \in {worker[w].lease, NoLease}
    PROVE  \A v \in Workers : worker'[v].lease \in {worker[v].lease, NoLease}
BY DEF Becomes, TypeOK

(* The rows after the expiry that opens every claim.                       *)
LEMMA ExpiredRows ==
    ASSUME TypeOK, NEW now \in Nat, NEW k \in Keys
    PROVE  LET row == ExpireOverdue(tasks, now)[k] IN
           \/ row = tasks[k]
           \/ row.token = NoToken /\ row.status = "failed"
<1>1. tasks \in [Keys -> Row] /\ "failed" \in Statuses
  BY DEF TypeOK, Statuses, Settled
<1>2. QED BY <1>1, ExpireOverdueRows, FinishedRow

LEMMA ClaimStep ==
    ASSUME IInv, TypeOK', NEW w \in Workers, NEW k \in Keys, NEW type,
           NEW now \in Nat, Claim(k, type, now), NEW s, Becomes(w, s),
           s.lease = LeaseOf(k, tasks'[k])
    PROVE  IInv'
<1>1. TypeOK /\ issued \in Nat /\ issued + 1 \in Nat \ {NoToken}
  BY DEF IInv, TypeOK, NoToken
<1>2. /\ issued' = issued + 1
      /\ tasks'[k] = Leased(tasks[k], issued + 1, now)
      /\ \A j \in Keys \ {k} : tasks'[j] = ExpireOverdue(tasks, now)[j]
  BY <1>1, ClaimRows
<1>3. /\ tasks'[k].status = "processing" /\ tasks'[k].token = issued + 1
      /\ tasks'[k].deadline # NoDeadline
            => tasks'[k].until <= tasks'[k].deadline
  BY <1>1, <1>2, LeasedRow DEF TypeOK
<1>4. \A j \in Keys \ {k} :
         \/ tasks'[j] = tasks[j]
         \/ tasks'[j].token = NoToken /\ tasks'[j].status = "failed"
  BY <1>1, <1>2, ExpiredRows
<1>5. \A v \in Workers \ {w} : worker'[v] = worker[v]
  BY <1>1 DEF Becomes, TypeOK
<1>6. /\ worker'[w].lease = LeaseOf(k, tasks'[k])
      /\ worker'[w].lease.key = k
      /\ worker'[w].lease.token = issued + 1
  BY <1>1, <1>3 DEF Becomes, TypeOK, LeaseOf
<1>7. /\ \A v \in Workers : worker[v].lease.token \in Nat
      /\ \A j \in Keys : tasks[j].token \in Nat
  <2>1. \A v \in Workers : worker[v].lease \in Lease \cup {NoLease}
    BY <1>1 DEF TypeOK, Worker
  <2>2. QED BY <1>1, <2>1, LeaseFields DEF NoLease, NoToken, TypeOK, Row
<1>8. TokensIssued'
  BY <1>1, <1>2, <1>3, <1>4, <1>5, <1>6, <1>7
  DEF IInv, TokensIssued, NoToken
<1>9. LeasedWhileProcessing'
  BY <1>1, <1>3, <1>4 DEF IInv, LeasedWhileProcessing
<1>10. LeasesDistinct'
  BY <1>1, <1>5, <1>6, <1>7 DEF IInv, LeasesDistinct, TokensIssued
<1>11. HolderSeesRow'
  <2> SUFFICES ASSUME NEW j \in Keys, NEW v \in Workers, Holds(v, j)'
               PROVE  worker'[v].lease = LeaseOf(j, tasks'[j])
    BY DEF HolderSeesRow
  <2>1. CASE v = w
    BY <2>1, <1>6 DEF Holds
  <2>2. CASE v # w /\ j = k
    <3>1. worker[v].lease.token = issued + 1
      BY <2>2, <1>3, <1>5 DEF Holds
    <3>2. QED BY <3>1, <1>1, <1>7 DEF IInv, TokensIssued
  <2>3. CASE v # w /\ j # k
    <3>1. tasks'[j] = tasks[j] /\ worker'[v] = worker[v]
      BY <2>3, <1>4, <1>5 DEF Holds
    <3>2. Holds(v, j) BY <3>1 DEF Holds
    <3>3. QED BY <3>1, <3>2 DEF IInv, HolderSeesRow
  <2>4. QED BY <2>1, <2>2, <2>3
<1>12. RetryHasAttemptLeft'
  BY <1>3, <1>4 DEF IInv, RetryHasAttemptLeft
<1>13. LeaseEndsByDeadline'
  BY <1>3, <1>4 DEF IInv, LeaseEndsByDeadline
<1>14. QED BY <1>8, <1>9, <1>10, <1>11, <1>12, <1>13 DEF IInv

(* A lease that the store accepts is the row's: its holder sees the row.   *)
LEMMA HeldIsHeld ==
    ASSUME IInv, NEW w \in Workers, worker[w].pc \in Busy, NEW now,
           LeaseHeld(worker[w].lease, now)
    PROVE  /\ Holds(w, worker[w].lease.key)
           /\ worker[w].lease.attempts = tasks[worker[w].lease.key].attempts
           /\ worker[w].lease.deadline = tasks[worker[w].lease.key].deadline
<1> DEFINE k == worker[w].lease.key
<1>1. TypeOK BY DEF IInv
<1>2. worker[w].lease \in Lease BY <1>1, BusyLease
<1>3. k \in Keys BY <1>2, LeaseFields
<1>4. worker[w].lease # NoLease BY <1>1 DEF TypeOK
<1>5. Holds(w, k) BY <1>4 DEF Holds, LeaseHeld, LeaseMatches
<1>6. worker[w].lease = LeaseOf(k, tasks[k])
  BY <1>3, <1>5 DEF IInv, HolderSeesRow
<1>7. QED BY <1>5, <1>6 DEF LeaseOf

LEMMA HeartbeatStep ==
    ASSUME IInv, TypeOK', NEW w \in Workers, worker[w].pc = "extending",
           NEW until \in Nat, Extend(worker[w].lease, until, worker[w].now),
           Becomes(w, [worker[w] EXCEPT
                         !.pc = "running", !.now = 0,
                         !.lease = [worker[w].lease EXCEPT !.until = until]]),
           worker[w].lease.deadline # NoDeadline
              => until <= worker[w].lease.deadline
    PROVE  IInv'
<1> DEFINE lease == worker[w].lease
           k == lease.key
<1>1. TypeOK /\ issued' = issued /\ worker[w].now \in Nat
  BY DEF IInv, TypeOK, Worker, Extend
<1>2. worker[w].pc \in Busy BY DEF Busy
<1>3. lease \in Lease /\ k \in Keys BY <1>1, <1>2, BusyLease, LeaseFields
<1>4. /\ Holds(w, k) /\ lease.attempts = tasks[k].attempts
      /\ lease.deadline = tasks[k].deadline
  BY <1>2, HeldIsHeld DEF Extend
<1>5. /\ tasks'[k] = Extended(tasks[k], until, worker[w].now)
      /\ \A j \in Keys \ {k} : tasks'[j] = tasks[j]
  BY <1>1, <1>3, ExtendRows
<1>6. /\ tasks'[k].status = tasks[k].status
      /\ tasks'[k].token = tasks[k].token
      /\ tasks'[k].attempts = tasks[k].attempts
      /\ tasks'[k].deadline = tasks[k].deadline
      /\ tasks'[k].until = until
  BY <1>1, <1>3, <1>5 DEF TypeOK, Row, Extended
<1>7. \A v \in Workers \ {w} : worker'[v] = worker[v]
  BY <1>1 DEF Becomes, TypeOK
<1>8. worker'[w].lease = [lease EXCEPT !.until = until]
  BY <1>1 DEF Becomes, TypeOK, Worker
<1>9. /\ worker'[w].lease.key = k
      /\ worker'[w].lease.token = lease.token
      /\ worker'[w].lease.attempts = lease.attempts
      /\ worker'[w].lease.deadline = lease.deadline
      /\ worker'[w].lease.until = until
  BY <1>3, <1>8 DEF Lease
<1>10. TokensIssued'
  BY <1>1, <1>5, <1>6, <1>7, <1>9 DEF IInv, TokensIssued
<1>11. LeasedWhileProcessing'
  BY <1>5, <1>6 DEF IInv, LeasedWhileProcessing
<1>12. LeasesDistinct'
  BY <1>7, <1>9 DEF IInv, LeasesDistinct
<1>13. HolderSeesRow'
  <2> SUFFICES ASSUME NEW j \in Keys, NEW v \in Workers, Holds(v, j)'
               PROVE  worker'[v].lease = LeaseOf(j, tasks'[j])
    BY DEF HolderSeesRow
  <2>1. CASE v = w
    <3>1. j = k BY <2>1, <1>9 DEF Holds
    <3>2. lease = LeaseOf(k, tasks[k])
      BY <1>3, <1>4 DEF IInv, HolderSeesRow
    <3>3. QED BY <2>1, <3>1, <3>2, <1>6, <1>8 DEF LeaseOf
  <2>2. CASE v # w
    <3>1. worker'[v] = worker[v] BY <2>2, <1>7
    <3>2. CASE j = k
      <4>1. worker[v].lease.token = lease.token
        BY <3>1, <3>2, <1>4, <1>6 DEF Holds
      <4>2. lease.token # NoToken BY <1>3, LeaseFields
      <4>3. QED BY <2>2, <4>1, <4>2 DEF IInv, LeasesDistinct
    <3>3. CASE j # k
      <4>1. tasks'[j] = tasks[j] BY <3>3, <1>5
      <4>2. Holds(v, j) BY <3>1, <4>1 DEF Holds
      <4>3. QED BY <3>1, <4>1, <4>2 DEF IInv, HolderSeesRow
    <3>4. QED BY <3>2, <3>3
  <2>3. QED BY <2>1, <2>2
<1>14. RetryHasAttemptLeft'
  BY <1>5, <1>6 DEF IInv, RetryHasAttemptLeft
<1>15. LeaseEndsByDeadline'
  BY <1>4, <1>5, <1>6 DEF IInv, LeaseEndsByDeadline
<1>16. QED BY <1>10, <1>11, <1>12, <1>13, <1>14, <1>15 DEF IInv

-----------------------------------------------------------------------------
LEMMA InitIInv == Init => IInv
<1> SUFFICES ASSUME Init PROVE IInv
  OBVIOUS
<1>1. TypeOK BY InitType
<1>2. /\ \A k \in Keys : tasks[k].status = "absent" /\ tasks[k].token = NoToken
      /\ issued = 0
      /\ \A w \in Workers : worker[w].lease = NoLease
  BY DEF Init, QueueInit, NoRow, Idle
<1>3. QED
  BY <1>1, <1>2 DEF IInv, TokensIssued, LeasedWhileProcessing, LeasesDistinct,
     HolderSeesRow, Holds, RetryHasAttemptLeft, LeaseEndsByDeadline, NoLease,
     NoToken

(* A worker records a result: Complete and Fail end the lease of the row.  *)
LEMMA FinishStep ==
    ASSUME IInv, TypeOK', NEW w \in Workers, worker[w].pc \in Busy,
           NEW status \in {"completed", "failed"}, NEW now \in Nat,
           tasks' = [tasks EXCEPT ![worker[w].lease.key] =
                        Finished(@, status, now)],
           issued' = issued, Becomes(w, Idle)
    PROVE  IInv'
<1>1. TypeOK BY DEF IInv
<1>2. worker[w].lease.key \in Keys BY <1>1, BusyLease, LeaseFields
<1>3. status \in Statuses BY DEF Statuses, Settled
<1>4. \A j \in Keys : \/ tasks'[j] = tasks[j]
                      \/ tasks'[j].token = NoToken /\ tasks'[j].status = status
  BY <1>1, <1>2, <1>3, FinishRows, FinishedRow DEF TypeOK
<1>5. QED BY <1>1, <1>4, IdleType, LeasesKept, NoNewLease

LEMMA IInvStep == IInv /\ [Next]_vars => IInv'
<1> SUFFICES ASSUME IInv, [Next]_vars PROVE IInv'
  OBVIOUS
<1> USE QueueAssumption, RuntimeAssumption
<1>0. TypeOK /\ TypeOK'
  BY TypeStep DEF IInv
<1>1. CASE Tick
  BY <1>0, <1>1, NoNewLease DEF Tick
<1>2. ASSUME NEW k \in Keys, Produce(k) PROVE IInv'
  <2>1. PICK a \in AvailableIn, d \in Deadlines :
           Enqueue(k, clock + a, d, clock)
    BY <1>2 DEF Produce
  <2>2. /\ NewTask(clock + a, d, clock).token = NoToken
        /\ NewTask(clock + a, d, clock).status = "new"
    <3>1. clock \in Nat /\ clock + a \in Nat BY <1>0 DEF TypeOK
    <3>2. QED BY <3>1, NewTaskRow
  <2>3. \A j \in Keys : \/ tasks'[j] = tasks[j]
                        \/ tasks'[j].token = NoToken /\ tasks'[j].status = "new"
    BY <1>0, <2>1, <2>2 DEF Enqueue, TypeOK
  <2>4. QED BY <1>0, <1>2, <2>1, <2>3, NoNewLease DEF Produce, Enqueue
<1>3. ASSUME NEW w \in Workers, Poll(w) PROVE IInv'
  <2> DEFINE s == [worker[w] EXCEPT !.pc = "polling", !.now = clock]
  <2>1. s.lease = worker[w].lease BY <1>0 DEF TypeOK, Worker
  <2>2. Becomes(w, s) BY <1>3 DEF Poll
  <2> HIDE DEF s
  <2>3. QED BY <1>0, <1>3, <2>1, <2>2, LeasesKept, NoNewLease DEF Poll
<1>4. ASSUME NEW w \in Workers, RunOnce(w) PROVE IInv'
  <2>1. worker[w].now \in Nat BY <1>0 DEF TypeOK, Worker
  <2>2. ASSUME NEW k \in Keys, Claim(k, Serves[w], worker[w].now),
               Becomes(w, [worker[w] EXCEPT !.pc = "running", !.now = 0,
                                        !.lease = LeaseOf(k, tasks'[k])])
        PROVE  IInv'
    <3> DEFINE s == [worker[w] EXCEPT !.pc = "running", !.now = 0,
                                      !.lease = LeaseOf(k, tasks'[k])]
    <3>1. s.lease = LeaseOf(k, tasks'[k]) BY <1>0 DEF TypeOK, Worker
    <3>2. Becomes(w, s) BY <2>2
    <3> HIDE DEF s
    <3>3. QED BY <1>0, <2>1, <2>2, <3>1, <3>2, ClaimStep
  <2>3. ASSUME ClaimNothing(Serves[w], worker[w].now), Becomes(w, Idle)
        PROVE  IInv'
    <3>1. \A j \in Keys :
             \/ tasks'[j] = tasks[j]
             \/ tasks'[j].token = NoToken /\ tasks'[j].status = "failed"
      BY <1>0, <2>1, <2>3, ExpiredRows DEF ClaimNothing
    <3>2. QED
      BY <1>0, <2>3, <3>1, IdleType, LeasesKept, NoNewLease DEF ClaimNothing
  <2>4. QED BY <1>4, <2>2, <2>3 DEF RunOnce
<1>5. ASSUME NEW w \in Workers, Heartbeat(w) PROVE IInv'
  <2> DEFINE lease == worker[w].lease
             now == worker[w].now
             until == LongerLease(w, now)
  <2>1. worker[w].pc = "extending" /\ worker[w].pc \in Busy
    BY <1>5 DEF Heartbeat, Busy
  <2>2. until \in Nat /\ (lease.deadline # NoDeadline => until <= lease.deadline)
    <3>1. now + LeaseDuration \in Nat BY <1>0, QueueAssumption DEF TypeOK, Worker
    <3>2. lease \in Lease BY <1>0, <2>1, BusyLease
    <3>3. QED BY <3>1, <3>2, LeaseFields, CappedNat DEF LongerLease
  <2>3. ASSUME Extend(lease, until, now),
               Becomes(w, [worker[w] EXCEPT
                             !.pc = "running", !.now = 0,
                             !.lease = [lease EXCEPT !.until = until]])
        PROVE  IInv'
    BY <1>0, <2>1, <2>2, <2>3, HeartbeatStep
  <2>4. ASSUME Becomes(w, Stopped), UNCHANGED <<tasks, issued>>
        PROVE  IInv'
    BY <1>0, <2>4, StoppedType, LeasesKept, NoNewLease
  <2>5. QED BY <1>5, <2>3, <2>4 DEF Heartbeat
<1>5a. ASSUME NEW w \in Workers, ReadHeartbeat(w) PROVE IInv'
  <2> DEFINE s == [worker[w] EXCEPT !.pc = "extending", !.now = clock]
  <2>1. s.lease = worker[w].lease BY <1>0 DEF TypeOK, Worker
  <2>2. Becomes(w, s) BY <1>5a DEF ReadHeartbeat
  <2> HIDE DEF s
  <2>3. QED
    BY <1>0, <1>5a, <2>1, <2>2, LeasesKept, NoNewLease DEF ReadHeartbeat
<1>6. ASSUME NEW w \in Workers, HandlerReturns(w) PROVE IInv'
  <2>1. PICK o \in Results :
           Becomes(w, [worker[w] EXCEPT
                         !.pc = IF o = "unauthorized" THEN "guarding"
                                ELSE "recording",
                         !.now = clock, !.outcome = o])
    BY <1>6 DEF HandlerReturns
  <2> DEFINE s == [worker[w] EXCEPT
                     !.pc = IF o = "unauthorized" THEN "guarding"
                            ELSE "recording",
                     !.now = clock, !.outcome = o]
  <2>2. s.lease = worker[w].lease BY <1>0 DEF TypeOK, Worker
  <2>3. Becomes(w, s) BY <2>1
  <2> HIDE DEF s
  <2>4. QED
    BY <1>0, <1>6, <2>2, <2>3, LeasesKept, NoNewLease DEF HandlerReturns
<1>7. ASSUME NEW w \in Workers, Guard(w) PROVE IInv'
  <2> DEFINE s == [worker[w] EXCEPT !.pc = "recording"]
  <2>1. s.lease = worker[w].lease BY <1>0 DEF TypeOK, Worker
  <2>2. Becomes(w, s) BY <1>7 DEF Guard
  <2> HIDE DEF s
  <2>3. QED BY <1>0, <1>7, <2>1, <2>2, LeasesKept, NoNewLease DEF Guard
<1>8. ASSUME NEW w \in Workers, RecordComplete(w) PROVE IInv'
  <2>1. worker[w].now \in Nat /\ worker[w].pc \in Busy
    BY <1>0, <1>8 DEF TypeOK, Worker, RecordComplete, Busy
  <2>2. QED BY <1>0, <1>8, <2>1, FinishStep DEF RecordComplete, Complete
<1>9. ASSUME NEW w \in Workers, RecordRetry(w) PROVE IInv'
  <2> DEFINE k == worker[w].lease.key
  <2>1. worker[w].pc \in Busy /\ worker[w].now \in Nat
    BY <1>0, <1>9 DEF RecordRetry, Busy, TypeOK, Worker
  <2>2. PICK d \in RetryDelays :
           Retry(worker[w].lease, worker[w].outcome = "pacing",
                 worker[w].now + d, worker[w].now)
    BY <1>9 DEF RecordRetry
  <2>3. worker[w].now + d \in Nat /\ worker[w].lease \in Lease /\ k \in Keys
    BY <1>0, <2>1, BusyLease, LeaseFields
  <2>4. worker[w].lease.attempts = tasks[k].attempts
    BY <2>1, <2>2, HeldIsHeld DEF Retry
  <2>5. worker[w].lease.attempts < MaxAttempts
    BY <1>9 DEF RecordRetry, Retries
  <2>6. tasks[k].attempts \in Nat BY <1>0, <2>3 DEF TypeOK, Row
  <2>7. /\ tasks'[k].status = "retry_scheduled" /\ tasks'[k].token = NoToken
        /\ tasks'[k].attempts \in {tasks[k].attempts, tasks[k].attempts - 1}
        /\ \A j \in Keys \ {k} : tasks'[j] = tasks[j]
    BY <1>0, <2>1, <2>2, <2>3, RetryRows
  <2>8. tasks'[k].attempts < MaxAttempts BY <2>4, <2>5, <2>6, <2>7
  <2>9. issued' = issued BY <2>2 DEF Retry
  <2>10. \A v \in Workers : worker'[v].lease \in {worker[v].lease, NoLease}
    BY <1>0, <1>9, IdleType, LeasesKept DEF RecordRetry
  <2> HIDE DEF k
  <2>11. QED BY <1>0, <2>7, <2>8, <2>9, <2>10, NoNewLease
<1>10. ASSUME NEW w \in Workers, RecordFail(w) PROVE IInv'
  <2>1. worker[w].now \in Nat /\ worker[w].pc \in Busy
    BY <1>0, <1>10 DEF TypeOK, Worker, RecordFail, Busy
  <2>2. QED BY <1>0, <1>10, <2>1, FinishStep DEF RecordFail, Fail
<1>11. ASSUME NEW w \in Workers, RecordRefused(w) PROVE IInv'
  BY <1>0, <1>11, StoppedType, LeasesKept, NoNewLease DEF RecordRefused
<1>12. ASSUME NEW w \in Workers, Crash(w) PROVE IInv'
  BY <1>0, <1>12, StoppedType, LeasesKept, NoNewLease DEF Crash
<1>13. ASSUME NEW w \in Workers, Restart(w) PROVE IInv'
  BY <1>0, <1>13, IdleType, LeasesKept, NoNewLease DEF Restart
<1>14. ASSUME NEW o \in Operators, ControlRead(o) PROVE IInv'
  BY <1>0, <1>14, NoNewLease DEF ControlRead
<1>15. ASSUME NEW o \in Operators, ControlWrite(o) PROVE IInv'
  <2>1. operator[o] \in Pending BY <1>0, <1>15 DEF ControlWrite, TypeOK
  <2>2. /\ operator[o].op \in Controls /\ operator[o].key \in Keys
        /\ operator[o].now \in Nat
    BY <2>1 DEF Pending
  <2>3. /\ issued' = issued
        /\ \A j \in Keys :
              \/ tasks'[j] = tasks[j]
              \/ /\ tasks'[j].token = NoToken
                 /\ tasks'[j].status \in {"new", "dismissed"}
    <3>1. CASE Control(operator[o].op, operator[o].key,
                       operator[o].updatedAt, operator[o].now)
      <4>1. "dismissed" \in Statuses BY DEF Statuses, Settled
      <4>2. issued' = issued BY <3>1 DEF Control
      <4> DEFINE k == operator[o].key
                 now == operator[o].now
      <4>3. tasks[k] \in Row BY <1>0, <2>2 DEF TypeOK
      <4>4. /\ \/ tasks'[k] = Reopened(tasks[k], now)
               \/ tasks'[k] = Finished(tasks[k], "dismissed", now)
            /\ \A j \in Keys \ {k} : tasks'[j] = tasks[j]
        <5> DEFINE op == operator[o].op
                   u == operator[o].updatedAt
        <5>1. /\ op \in Controls /\ k \in Keys /\ now \in Nat
              /\ Control(op, k, u, now)
          BY <2>2, <3>1
        <5> HIDE DEF op, u, k, now
        <5>2. QED BY <1>0, <5>1, ControlRows
      <4>5. /\ Reopened(tasks[k], now).token = NoToken
            /\ Reopened(tasks[k], now).status = "new"
            /\ Finished(tasks[k], "dismissed", now).token = NoToken
            /\ Finished(tasks[k], "dismissed", now).status = "dismissed"
        <5>1. now \in Nat BY <2>2
        <5> HIDE DEF k, now
        <5>2. QED BY <4>1, <4>3, <5>1, FinishedRow, ReopenedRow
      <4>6. QED BY <2>2, <4>2, <4>4, <4>5
    <3>2. CASE UNCHANGED <<tasks, issued>>
      BY <3>2
    <3>3. QED BY <1>15, <3>1, <3>2 DEF ControlWrite
  <2>4. worker' = worker BY <1>15 DEF ControlWrite
  <2>5. QED BY <1>0, <2>3, <2>4, NoNewLease
<1>16. CASE UNCHANGED vars
  BY <1>0, <1>16, NoNewLease DEF vars
<1>17. QED
  BY <1>1, <1>2, <1>3, <1>4, <1>5, <1>5a, <1>6, <1>7, <1>8, <1>9, <1>10, <1>11,
     <1>12, <1>13, <1>14, <1>15, <1>16 DEF Next

(* The inductive invariant of the queue with its workers and operators:    *)
(* rows, leases and what each worker remembers of its claim agree.         *)
THEOREM Inductive == Spec => []IInv
BY InitIInv, IInvStep, PTL DEF Spec

(* For any number of tasks, workers and operators, any lease duration and  *)
(* any interleaving with crashes, stalls and late store calls: at most one *)
(* worker holds a task.                                                    *)
THEOREM Exclusive == Spec => []ExclusiveHolder
<1>1. IInv => ExclusiveHolder
  <2> SUFFICES ASSUME IInv, NEW k \in Keys, NEW v \in Workers,
                      NEW w \in Workers, Holds(v, k), Holds(w, k)
               PROVE  v = w
    BY DEF ExclusiveHolder
  <2>1. worker[v].lease.token = worker[w].lease.token BY DEF Holds
  <2>2. worker[v].lease.token # NoToken
    BY DEF Holds, IInv, LeasedWhileProcessing
  <2>3. QED BY <2>1, <2>2 DEF IInv, LeasesDistinct
<1>2. QED BY <1>1, Inductive, PTL

(* The copy a holder decides from agrees with the row.                     *)
THEOREM HolderAgrees == Spec => []HolderSeesRow
<1>1. IInv => HolderSeesRow BY DEF IInv
<1>2. QED BY <1>1, Inductive, PTL

(* No task waits for a retry without an attempt left.                      *)
THEOREM RetryBounded == Spec => []RetryHasAttemptLeft
<1>1. IInv => RetryHasAttemptLeft BY DEF IInv
<1>2. QED BY <1>1, Inductive, PTL

(* Leases end by the deadline of their task.                               *)
THEOREM DeadlineBoundsLease == Spec => []LeaseEndsByDeadline
<1>1. IInv => LeaseEndsByDeadline BY DEF IInv
<1>2. QED BY <1>1, Inductive, PTL

-----------------------------------------------------------------------------
(* What a step of the queue and its clients may do to a row.               *)


(* A worker works with a reading of the clock that is past.                *)
ReadingsPast == \A w \in Workers : worker[w].now <= clock

LEMMA ReadingsStep == TypeOK /\ ReadingsPast /\ [Next]_vars => ReadingsPast'
<1> SUFFICES ASSUME TypeOK, ReadingsPast, [Next]_vars PROVE ReadingsPast'
  OBVIOUS
<1> USE DEF ReadingsPast
<1>0. /\ clock \in Nat
      /\ \A w \in Workers : worker[w] \in Worker /\ worker[w].now \in Nat
  BY DEF TypeOK, Worker
<1>1. ASSUME NEW w \in Workers, NEW s, Becomes(w, s), clock' = clock,
             s.now \in {0, clock, worker[w].now}
      PROVE  ReadingsPast'
  BY <1>0, <1>1 DEF Becomes, TypeOK
<1>2. Idle.now = 0 /\ Stopped.now = 0 BY DEF Idle, Stopped
<1>3. CASE Tick BY <1>0, <1>3 DEF Tick
<1>4. ASSUME NEW k \in Keys, Produce(k) PROVE ReadingsPast'
  BY <1>4 DEF Produce
<1>5. ASSUME NEW w \in Workers, Poll(w) PROVE ReadingsPast'
  <2> DEFINE s == [worker[w] EXCEPT !.pc = "polling", !.now = clock]
  <2>1. s.now = clock BY <1>0 DEF Worker
  <2>2. Becomes(w, s) /\ clock' = clock BY <1>5 DEF Poll
  <2> HIDE DEF s
  <2>3. QED BY <1>1, <2>1, <2>2
<1>6. ASSUME NEW w \in Workers, RunOnce(w) PROVE ReadingsPast'
  <2>1. ASSUME NEW k \in Keys,
               Becomes(w, [worker[w] EXCEPT !.pc = "running", !.now = 0,
                                        !.lease = LeaseOf(k, tasks'[k])])
        PROVE  ReadingsPast'
    <3> DEFINE s == [worker[w] EXCEPT !.pc = "running", !.now = 0,
                                      !.lease = LeaseOf(k, tasks'[k])]
    <3>1. s.now = 0 BY <1>0 DEF Worker
    <3>2. Becomes(w, s) /\ clock' = clock BY <1>6, <2>1 DEF RunOnce
    <3> HIDE DEF s
    <3>3. QED BY <1>1, <3>1, <3>2
  <2>2. CASE Becomes(w, Idle) BY <1>1, <1>2, <1>6, <2>2 DEF RunOnce
  <2>3. QED BY <1>6, <2>1, <2>2 DEF RunOnce
<1>7. ASSUME NEW w \in Workers, Heartbeat(w) PROVE ReadingsPast'
  <2> DEFINE lease == worker[w].lease
             until == LongerLease(w, worker[w].now)
             s == [worker[w] EXCEPT !.pc = "running", !.now = 0,
                                    !.lease = [lease EXCEPT !.until = until]]
  <2>1. s.now = 0 BY <1>0 DEF Worker
  <2>2. clock' = clock BY <1>7 DEF Heartbeat
  <2>3. Becomes(w, s) \/ Becomes(w, Stopped) BY <1>7 DEF Heartbeat
  <2> HIDE DEF s
  <2>4. QED BY <1>1, <1>2, <2>1, <2>2, <2>3
<1>7a. ASSUME NEW w \in Workers, ReadHeartbeat(w) PROVE ReadingsPast'
  <2> DEFINE s == [worker[w] EXCEPT !.pc = "extending", !.now = clock]
  <2>1. s.now = clock BY <1>0 DEF Worker
  <2>2. Becomes(w, s) /\ clock' = clock BY <1>7a DEF ReadHeartbeat
  <2> HIDE DEF s
  <2>3. QED BY <1>1, <2>1, <2>2
<1>8. ASSUME NEW w \in Workers, HandlerReturns(w) PROVE ReadingsPast'
  <2>1. PICK o \in Results :
           Becomes(w, [worker[w] EXCEPT
                         !.pc = IF o = "unauthorized" THEN "guarding"
                                ELSE "recording",
                         !.now = clock, !.outcome = o])
    BY <1>8 DEF HandlerReturns
  <2> DEFINE s == [worker[w] EXCEPT
                     !.pc = IF o = "unauthorized" THEN "guarding"
                            ELSE "recording",
                     !.now = clock, !.outcome = o]
  <2>2. s.now = clock BY <1>0 DEF Worker
  <2>3. Becomes(w, s) /\ clock' = clock BY <1>8, <2>1 DEF HandlerReturns
  <2> HIDE DEF s
  <2>4. QED BY <1>1, <2>2, <2>3
<1>9. ASSUME NEW w \in Workers, Guard(w) PROVE ReadingsPast'
  <2> DEFINE s == [worker[w] EXCEPT !.pc = "recording"]
  <2>1. s.now = worker[w].now BY <1>0 DEF Worker
  <2>2. Becomes(w, s) /\ clock' = clock BY <1>9 DEF Guard
  <2> HIDE DEF s
  <2>3. QED BY <1>1, <2>1, <2>2
<1>10. ASSUME NEW w \in Workers,
              RecordComplete(w) \/ RecordRetry(w) \/ RecordFail(w) \/ Restart(w)
       PROVE  ReadingsPast'
  BY <1>1, <1>2, <1>10 DEF RecordComplete, RecordRetry, RecordFail, Restart
<1>11. ASSUME NEW w \in Workers, RecordRefused(w) \/ Crash(w)
       PROVE  ReadingsPast'
  BY <1>1, <1>2, <1>11 DEF RecordRefused, Crash
<1>12. ASSUME NEW o \in Operators, ControlRead(o) \/ ControlWrite(o)
       PROVE  ReadingsPast'
  BY <1>12 DEF ControlRead, ControlWrite
<1>13. CASE UNCHANGED vars BY <1>13 DEF vars
<1>14. QED
  BY <1>3, <1>4, <1>5, <1>6, <1>7, <1>7a, <1>8, <1>9, <1>10, <1>11, <1>12,
     <1>13
  DEF Next

(* No worker decides from a clock reading of the future, however long it   *)
(* waits between the reading and the call of the store.                    *)
THEOREM Readings == Spec => [](IInv /\ ReadingsPast)
<1>1. Init => ReadingsPast BY DEF Init, Idle, ReadingsPast
<1>2. IInv => TypeOK BY DEF IInv
<1>3. QED BY <1>1, <1>2, Inductive, ReadingsStep, PTL DEF Spec

-----------------------------------------------------------------------------
(* The ways a step may change the row of k.                                *)

Created(k) ==
    /\ tasks[k].status = "absent" /\ tasks'[k].status = "new"
    /\ tasks'[k].attempts = 0 /\ tasks'[k].token = NoToken

Expired(k) ==
    /\ tasks[k].status \in Active /\ PastDeadline(tasks[k], clock)
    /\ tasks'[k].status = "failed" /\ tasks'[k].attempts = tasks[k].attempts
    /\ tasks'[k].token = NoToken

Claimed(k) ==
    /\ tasks[k].status \in Active
    /\ tasks[k].status = "processing" => tasks[k].until <= clock
    /\ tasks'[k].status = "processing"
    /\ tasks'[k].attempts = tasks[k].attempts + 1
    /\ \E type : \E now \in Nat : Claim(k, type, now)

Prolonged(k) ==
    /\ \E w \in Workers : Holds(w, k) /\ worker'[w] # worker[w]
    /\ tasks'[k].status = "processing"
    /\ tasks'[k].attempts = tasks[k].attempts
    /\ tasks'[k].token = tasks[k].token

Recorded(k) ==
    /\ \E w \in Workers : /\ Holds(w, k)
                          /\ worker[w].pc = "recording"
                          /\ worker'[w].pc = "idle"
    /\ tasks'[k].token = NoToken
    /\ \/ /\ tasks'[k].status \in {"completed", "failed"}
          /\ tasks'[k].attempts = tasks[k].attempts
       \/ /\ tasks'[k].status = "retry_scheduled"
          /\ tasks'[k].attempts \in {tasks[k].attempts, tasks[k].attempts - 1}

Controlled(k) ==
    /\ tasks'[k].token = NoToken
    /\ \/ /\ tasks[k].status \in {"failed", "dismissed"}
          /\ tasks'[k].status = "new" /\ tasks'[k].attempts = 0
       \/ /\ tasks[k].status \in {"new", "retry_scheduled", "failed"}
          /\ tasks'[k].status = "dismissed"
          /\ tasks'[k].attempts = tasks[k].attempts

RowChange(k) ==
    \/ tasks'[k] = tasks[k]
    \/ Created(k) \/ Expired(k) \/ Claimed(k) \/ Prolonged(k) \/ Recorded(k)
    \/ Controlled(k)

(* The expiry that opens a claim, made with a reading of the past.         *)
LEMMA ExpiredByNow ==
    ASSUME TypeOK, NEW now \in Nat, now <= clock, NEW k \in Keys,
           tasks'[k] = ExpireOverdue(tasks, now)[k]
    PROVE  tasks'[k] = tasks[k] \/ Expired(k)
<1>1. tasks \in [Keys -> Row] /\ clock \in Nat /\ "failed" \in Statuses
  BY DEF TypeOK, Statuses, Settled
<1>2. CASE tasks'[k] = tasks[k] BY <1>2
<1>3. CASE /\ tasks[k].status \in Active
           /\ PastDeadline(tasks[k], now)
           /\ tasks'[k] = Finished(tasks[k], "failed", now)
  <2>1. /\ tasks'[k].status = "failed"
        /\ tasks'[k].attempts = tasks[k].attempts
        /\ tasks'[k].token = NoToken
    BY <1>1, <1>3, FinishedRow
  <2>2. PastDeadline(tasks[k], clock)
    BY <1>1, <1>3 DEF PastDeadline, Row, NoDeadline
  <2>3. QED BY <1>3, <2>1, <2>2 DEF Expired
<1>4. QED BY <1>1, <1>2, <1>3, ExpireOverdueRows

(* The row a worker's lease stands for, when the store accepts the lease.  *)
LEMMA AcceptedHolds ==
    ASSUME IInv, NEW w \in Workers, worker[w].pc \in Busy, NEW now,
           LeaseHeld(worker[w].lease, now)
    PROVE  /\ worker[w].lease.key \in Keys
           /\ Holds(w, worker[w].lease.key)
<1>1. worker[w].lease \in Lease /\ worker[w].lease # NoLease
  BY BusyLease DEF IInv, TypeOK
<1>2. QED BY <1>1, LeaseFields DEF Holds, LeaseHeld, LeaseMatches

(* A worker writes the result of its task.                                 *)
LEMMA ResultChange ==
    ASSUME IInv, NEW w \in Workers, worker[w].pc = "recording",
           worker[w].now \in Nat, Becomes(w, Idle),
           LeaseHeld(worker[w].lease, worker[w].now),
           NEW status \in {"completed", "failed"},
           tasks' = [tasks EXCEPT ![worker[w].lease.key] =
                        Finished(@, status, worker[w].now)],
           NEW k \in Keys
    PROVE  tasks'[k] = tasks[k] \/ Recorded(k)
<1> DEFINE j == worker[w].lease.key
<1>1. TypeOK /\ worker[w].pc \in Busy BY DEF IInv, Busy
<1>2. j \in Keys /\ Holds(w, j) BY <1>1, AcceptedHolds
<1>3. worker'[w].pc = "idle" BY <1>1, IdleType DEF Becomes, TypeOK
<1>4. status \in Statuses BY DEF Statuses, Settled
<1>5. tasks[j] \in Row BY <1>1, <1>2 DEF TypeOK
<1>6. /\ tasks'[j] = Finished(tasks[j], status, worker[w].now)
      /\ \A i \in Keys \ {j} : tasks'[i] = tasks[i]
  BY <1>1, <1>2, <1>4, FinishRows
<1> HIDE DEF j
<1>7. /\ tasks'[j].status = status /\ tasks'[j].token = NoToken
      /\ tasks'[j].attempts = tasks[j].attempts
  BY <1>4, <1>5, <1>6, FinishedRow
<1>8. Recorded(j) BY <1>2, <1>3, <1>7 DEF Recorded
<1>9. QED BY <1>6, <1>8

LEMMA RetryChange ==
    ASSUME IInv, NEW w \in Workers, worker[w].pc = "recording",
           worker[w].now \in Nat, Becomes(w, Idle),
           NEW pacing \in BOOLEAN, NEW retryAt \in Nat,
           Retry(worker[w].lease, pacing, retryAt, worker[w].now),
           NEW k \in Keys
    PROVE  tasks'[k] = tasks[k] \/ Recorded(k)
<1> DEFINE j == worker[w].lease.key
<1>1. TypeOK /\ worker[w].pc \in Busy BY DEF IInv, Busy
<1>2. j \in Keys /\ Holds(w, j) BY <1>1, AcceptedHolds DEF Retry
<1>3. worker'[w].pc = "idle" BY <1>1, IdleType DEF Becomes, TypeOK
<1>4. worker[w].lease \in Lease BY <1>1, BusyLease
<1>5. /\ tasks'[j].status = "retry_scheduled" /\ tasks'[j].token = NoToken
      /\ tasks'[j].attempts \in {tasks[j].attempts, tasks[j].attempts - 1}
      /\ \A i \in Keys \ {j} : tasks'[i] = tasks[i]
  BY <1>1, <1>4, RetryRows
<1> HIDE DEF j
<1>6. Recorded(j) BY <1>2, <1>3, <1>5 DEF Recorded
<1>7. QED BY <1>5, <1>6

LEMMA ClaimChange ==
    ASSUME IInv, NEW j \in Keys, NEW type, NEW now \in Nat, now <= clock,
           Claim(j, type, now), NEW k \in Keys
    PROVE  RowChange(k)
<1>1. TypeOK /\ clock \in Nat BY DEF IInv, TypeOK
<1>2. /\ tasks'[j] = Leased(tasks[j], issued + 1, now)
      /\ tasks[j].status \in Active
      /\ tasks[j].status = "processing" => tasks[j].until <= now
      /\ \A i \in Keys \ {j} : tasks'[i] = ExpireOverdue(tasks, now)[i]
  BY <1>1, ClaimRows
<1>3. CASE k = j
  <2>1. issued + 1 \in Nat \ {NoToken} BY <1>1 DEF TypeOK, NoToken
  <2>2. tasks[j] \in Row BY <1>1 DEF TypeOK
  <2>3. /\ tasks'[j].status = "processing"
        /\ tasks'[j].attempts = tasks[j].attempts + 1
    BY <1>2, <2>1, <2>2, LeasedRow
  <2>4. tasks[j].status = "processing" => tasks[j].until <= clock
    BY <1>1, <1>2, <2>2 DEF Row
  <2>5. Claimed(j) BY <1>2, <2>3, <2>4 DEF Claimed
  <2>6. QED BY <1>3, <2>5 DEF RowChange
<1>4. CASE k # j
  <2>1. tasks'[k] = ExpireOverdue(tasks, now)[k] BY <1>2, <1>4
  <2>2. QED BY <1>1, <2>1, ExpiredByNow DEF RowChange
<1>5. QED BY <1>3, <1>4

LEMMA HeartbeatChange ==
    ASSUME IInv, NEW w \in Workers, Heartbeat(w), NEW k \in Keys
    PROVE  RowChange(k)
<1> DEFINE lease == worker[w].lease
           j == lease.key
           now == worker[w].now
           until == LongerLease(w, now)
           s == [worker[w] EXCEPT !.pc = "running", !.now = 0,
                                  !.lease = [lease EXCEPT !.until = until]]
<1>1. TypeOK /\ worker[w].pc \in Busy BY DEF IInv, Busy, Heartbeat
<1>2. lease \in Lease /\ worker[w] \in Worker
  BY <1>1, BusyLease DEF TypeOK
<1>3. until \in Nat /\ now \in Nat
  <2>1. now \in Nat /\ now + LeaseDuration \in Nat
    BY <1>2, QueueAssumption DEF Worker
  <2>2. QED BY <1>2, <2>1, LeaseFields, CappedNat DEF LongerLease
<1>4. worker[w].pc = "extending" BY DEF Heartbeat
<1>5. CASE Extend(lease, until, now) /\ Becomes(w, s)
  <2> HIDE DEF until, now
  <2>1. /\ j \in Keys /\ Holds(w, j) /\ tasks[j].status = "processing"
    BY <1>1, <1>5, AcceptedHolds DEF Extend, Holds
  <2>2. /\ tasks'[j] = Extended(tasks[j], until, now)
        /\ \A i \in Keys \ {j} : tasks'[i] = tasks[i]
    BY <1>1, <1>2, <1>3, <1>5, ExtendRows
  <2>3. tasks[j] \in Row BY <1>1, <2>1 DEF TypeOK
  <2>4. /\ tasks'[j].status = "processing"
        /\ tasks'[j].attempts = tasks[j].attempts
        /\ tasks'[j].token = tasks[j].token
    BY <2>1, <2>2, <2>3 DEF Extended, Row
  <2>5. s.pc = "running" BY <1>2 DEF Worker
  <2>7. worker'[w] = s BY <1>1, <1>5 DEF Becomes, TypeOK
  <2> HIDE DEF s
  <2>6. s # worker[w] BY <1>4, <2>5
  <2>8. Prolonged(j) BY <2>1, <2>4, <2>6, <2>7 DEF Prolonged
  <2>9. QED BY <2>2, <2>8 DEF RowChange
<1>6. CASE UNCHANGED tasks BY <1>6 DEF RowChange
<1>7. QED BY <1>5, <1>6 DEF Heartbeat

LEMMA ControlChange ==
    ASSUME IInv, NEW o \in Operators, ControlWrite(o), NEW k \in Keys
    PROVE  RowChange(k)
<1> DEFINE op == operator[o].op
           j == operator[o].key
           u == operator[o].updatedAt
           now == operator[o].now
<1>1. TypeOK BY DEF IInv
<1>2. operator[o] \in Pending BY <1>1 DEF ControlWrite, TypeOK
<1>3. op \in Controls /\ j \in Keys /\ now \in Nat BY <1>2 DEF Pending
<1>4. CASE Control(op, j, u, now)
  <2>1. tasks[j] \in Row /\ "dismissed" \in Statuses
    BY <1>1, <1>3 DEF TypeOK, Statuses, Settled
  <2> HIDE DEF op, j, u, now
  <2>2. /\ \/ /\ tasks[j].status \in {"failed", "dismissed"}
              /\ tasks'[j] = Reopened(tasks[j], now)
           \/ /\ tasks[j].status \in {"new", "retry_scheduled", "failed"}
              /\ tasks'[j] = Finished(tasks[j], "dismissed", now)
        /\ \A i \in Keys \ {j} : tasks'[i] = tasks[i]
    BY <1>1, <1>3, <1>4, ControlRows
  <2>3. now \in Nat BY <1>3
  <2> DEFINE row == tasks[j]
  <2> HIDE DEF row
  <2>4. row \in Row BY <2>1 DEF row
  <2>5. /\ Reopened(row, now).token = NoToken
        /\ Reopened(row, now).status = "new"
        /\ Reopened(row, now).attempts = 0
    BY <2>3, <2>4, ReopenedRow
  <2>6. /\ Finished(row, "dismissed", now).token = NoToken
        /\ Finished(row, "dismissed", now).status = "dismissed"
        /\ Finished(row, "dismissed", now).attempts = row.attempts
    BY <2>3, <2>1, <2>4, FinishedRow
  <2>7. Controlled(j) BY <2>2, <2>5, <2>6 DEF Controlled, row
  <2>8. QED BY <2>2, <2>7 DEF RowChange
<1>5. CASE UNCHANGED tasks BY <1>5 DEF RowChange
<1>6. QED BY <1>4, <1>5 DEF ControlWrite

LEMMA RowChanges ==
    ASSUME IInv, ReadingsPast, [Next]_vars, NEW k \in Keys
    PROVE  RowChange(k)
<1>0. TypeOK /\ \A w \in Workers : worker[w].now \in Nat
  BY DEF IInv, TypeOK, Worker
<1>1. CASE UNCHANGED tasks BY <1>1 DEF RowChange
<1>2. ASSUME NEW j \in Keys, Produce(j) PROVE RowChange(k)
  <2>1. PICK a \in AvailableIn, d \in Deadlines :
           Enqueue(j, clock + a, d, clock)
    BY <1>2 DEF Produce
  <2>2. /\ NewTask(clock + a, d, clock).token = NoToken
        /\ NewTask(clock + a, d, clock).status = "new"
        /\ NewTask(clock + a, d, clock).attempts = 0
    <3>1. clock \in Nat /\ clock + a \in Nat /\ d \in Nat \cup {NoDeadline}
      BY <1>0, RuntimeAssumption DEF TypeOK
    <3>2. QED BY <3>1, NewTaskRow
  <2>3. \/ tasks'[k] = tasks[k]
        \/ /\ tasks[k].status = "absent"
           /\ tasks'[k] = NewTask(clock + a, d, clock)
    BY <1>0, <2>1 DEF Enqueue, TypeOK
  <2>4. QED BY <2>2, <2>3 DEF Created, RowChange
<1>3. ASSUME NEW w \in Workers, RunOnce(w) PROVE RowChange(k)
  <2>1. worker[w].now \in Nat /\ worker[w].now <= clock
    BY <1>0 DEF ReadingsPast
  <2>2. CASE \E j \in Keys : Claim(j, Serves[w], worker[w].now)
    BY <2>1, <2>2, ClaimChange
  <2>3. CASE ClaimNothing(Serves[w], worker[w].now)
    <3>1. tasks'[k] = ExpireOverdue(tasks, worker[w].now)[k]
      BY <2>3 DEF ClaimNothing
    <3>2. QED BY <1>0, <2>1, <3>1, ExpiredByNow DEF RowChange
  <2>4. QED BY <1>3, <2>2, <2>3 DEF RunOnce
<1>4. ASSUME NEW w \in Workers, RecordComplete(w) PROVE RowChange(k)
  BY <1>0, <1>4, ResultChange DEF RecordComplete, Complete, RowChange
<1>5. ASSUME NEW w \in Workers, RecordFail(w) PROVE RowChange(k)
  BY <1>0, <1>5, ResultChange DEF RecordFail, Fail, RowChange
<1>6. ASSUME NEW w \in Workers, RecordRetry(w) PROVE RowChange(k)
  <2>1. PICK d \in RetryDelays :
           Retry(worker[w].lease, worker[w].outcome = "pacing",
                 worker[w].now + d, worker[w].now)
    BY <1>6 DEF RecordRetry
  <2>2. worker[w].now + d \in Nat BY <1>0, RuntimeAssumption
  <2>3. worker[w].pc = "recording" /\ Becomes(w, Idle)
    BY <1>6 DEF RecordRetry
  <2> DEFINE pacing == worker[w].outcome = "pacing"
             retryAt == worker[w].now + d
  <2>4. pacing \in BOOLEAN /\ Retry(worker[w].lease, pacing, retryAt, worker[w].now)
    BY <2>1
  <2> HIDE DEF pacing, retryAt
  <2>5. QED BY <1>0, <2>2, <2>3, <2>4, RetryChange DEF RowChange, retryAt
<1>7. CASE Tick BY <1>7, <1>1 DEF Tick
<1>8. ASSUME NEW w \in Workers,
             \/ Poll(w) \/ ReadHeartbeat(w) \/ HandlerReturns(w) \/ Guard(w)
             \/ RecordRefused(w) \/ Crash(w) \/ Restart(w)
      PROVE  RowChange(k)
  BY <1>1, <1>8 DEF Poll, ReadHeartbeat, HandlerReturns, Guard, RecordRefused,
                   Crash, Restart
<1>9. ASSUME NEW o \in Operators, ControlRead(o) PROVE RowChange(k)
  BY <1>1, <1>9 DEF ControlRead
<1>10. CASE UNCHANGED vars BY <1>1, <1>10 DEF vars
<1>11. QED
  BY <1>2, <1>3, <1>4, <1>5, <1>6, <1>7, <1>8, <1>9, <1>10,
     HeartbeatChange, ControlChange DEF Next

-----------------------------------------------------------------------------
(* While the lease of a task runs and its deadline has not come, its row   *)
(* is changed by nobody but its holder, whatever operators, producers and  *)
(* other workers do and however old their readings of the clock are.       *)
THEOREM LeaseProtects == Spec => RunningLeaseProtected
<1>1. ASSUME IInv, ReadingsPast, [Next]_vars, NEW k \in Keys,
             tasks[k].status = "processing", clock < tasks[k].until,
             tasks'[k] # tasks[k]
      PROVE  \E w \in Workers : Holds(w, k) /\ worker'[w] # worker[w]
  <2>1. tasks[k] \in Row /\ clock \in Nat BY <1>1 DEF IInv, TypeOK
  <2>2. ~Expired(k)
    BY <1>1, <2>1 DEF Expired, PastDeadline, IInv, LeaseEndsByDeadline, Row,
       NoDeadline
  <2>3. ~Claimed(k) BY <1>1, <2>1 DEF Claimed, Row
  <2>4. Prolonged(k) \/ Recorded(k)
    BY <1>1, <2>2, <2>3, RowChanges DEF RowChange, Created, Controlled
  <2>5. QED BY <2>4 DEF Prolonged, Recorded
<1>2. IInv /\ ReadingsPast /\ [Next]_vars =>
        [\A k \in Keys :
           /\ tasks[k].status = "processing"
           /\ clock < tasks[k].until
           /\ tasks'[k] # tasks[k]
           => \E w \in Workers : Holds(w, k) /\ worker'[w] # worker[w]]_vars
  BY <1>1
<1>3. QED BY <1>2, Readings, PTL DEF Spec, RunningLeaseProtected

(* A task leaves processing only by the result of the worker that claimed  *)
(* it last, or because its deadline has come.                              *)
THEOREM LastClaimDecides == Spec => ResultIsFromLastClaim
<1>1. ASSUME IInv, ReadingsPast, [Next]_vars, NEW k \in Keys,
             tasks[k].status = "processing", tasks'[k].status # "processing"
      PROVE  \/ \E w \in Workers : /\ Holds(w, k)
                                   /\ worker[w].pc = "recording"
                                   /\ worker'[w].pc = "idle"
             \/ /\ PastDeadline(tasks[k], clock)
                /\ tasks'[k].status = "failed"
  <2>1. Expired(k) \/ Recorded(k)
    BY <1>1, RowChanges
    DEF RowChange, Created, Claimed, Prolonged, Controlled
  <2>2. QED BY <2>1 DEF Expired, Recorded
<1>2. IInv /\ ReadingsPast /\ [Next]_vars =>
        [\A k \in Keys :
           /\ tasks[k].status = "processing"
           /\ tasks'[k].status # "processing"
           => \/ \E w \in Workers : /\ Holds(w, k)
                                    /\ worker[w].pc = "recording"
                                    /\ worker'[w].pc = "idle"
              \/ /\ PastDeadline(tasks[k], clock)
                 /\ tasks'[k].status = "failed"]_vars
  BY <1>1
<1>3. QED BY <1>2, Readings, PTL DEF Spec, ResultIsFromLastClaim

(* The claim statement of the store and the rule of the in-memory queue    *)
(* agree on what blocks a task.                                            *)
LEMMA ClaimedUnblocked ==
    ASSUME TypeOK, NEW k \in Keys, NEW type, NEW now \in Nat,
           Claim(k, type, now)
    PROVE  ~HasBlockingTask(tasks', BlockedBy[TypeOf[k]], ProfileOf[k])
<1> DEFINE rows == ExpireOverdue(tasks, now)
           blocker == BlockedBy[TypeOf[k]]
           same == {b \in Keys : TypeOf[b] = blocker /\ ProfileOf[b] = ProfileOf[k]}
<1>1. ~Blocked(rows, k) BY DEF Claim, First, Claimable
<1>2. k \notin same BY QueueAssumption
<1>3. \A b \in Keys \ {k} : tasks'[b] = rows[b]
  BY DEF Claim, ExpireOverdue
<1>4. \A b \in same : b \in Keys /\ tasks'[b] = rows[b] BY <1>2, <1>3
<1>5. \A b \in same : rows[b].status \notin Active BY <1>1 DEF Blocked
<1>6. ASSUME NEW b \in same, rows[b].status = "failed"
      PROVE  \E r \in same \ {b} : /\ rows[r].status \in Settled
                                   /\ ~LaterThan(tasks', b, r)
  <2>1. PICK r \in Keys : /\ TypeOf[r] = TypeOf[b]
                          /\ ProfileOf[r] = ProfileOf[b]
                          /\ rows[r].status \in Settled
                          /\ LaterThan(rows, r, b)
    BY <1>1, <1>6 DEF Blocked
  <2>2. r \in same BY <1>6, <2>1
  <2>3. /\ rows[r] \in Row /\ rows[b] \in Row /\ b \in Nat /\ r \in Nat
    <3>1. rows \in [Keys -> Row] BY ExpireOverdueRows DEF TypeOK
    <3>2. QED BY <3>1, <2>2, QueueAssumption
  <2>4. tasks'[r] = rows[r] /\ tasks'[b] = rows[b] BY <1>4, <2>2
  <2> HIDE DEF rows, same
  <2>5. r # b /\ ~LaterThan(tasks', b, r)
    BY <2>1, <2>3, <2>4 DEF LaterThan, Row
  <2>6. QED BY <2>1, <2>2, <2>5
<1> HIDE DEF rows
<1>7. QED BY <1>4, <1>5, <1>6 DEF HasBlockingTask

(* A task starts only when nothing blocks it in the rows it leaves behind. *)
THEOREM StartsAreUnblocked == Spec => StartsUnblocked
<1>1. ASSUME IInv, ReadingsPast, [Next]_vars, NEW k \in Keys,
             tasks'[k].token \notin {NoToken, tasks[k].token}
      PROVE  ~HasBlockingTask(tasks', BlockedBy[TypeOf[k]], ProfileOf[k])
  <2>1. Claimed(k)
    BY <1>1, RowChanges
    DEF RowChange, Created, Expired, Prolonged, Recorded, Controlled
  <2>2. TypeOK BY <1>1 DEF IInv
  <2>3. QED BY <2>1, <2>2, ClaimedUnblocked DEF Claimed
<1>2. IInv /\ ReadingsPast /\ [Next]_vars =>
        [\A k \in Keys :
           tasks'[k].token \notin {NoToken, tasks[k].token}
           => ~HasBlockingTask(tasks', BlockedBy[TypeOf[k]], ProfileOf[k])]_vars
  BY <1>1
<1>3. QED BY <1>2, Readings, PTL DEF Spec, StartsUnblocked

-----------------------------------------------------------------------------
(* Every step moves each row along the state machine of core/task.go.      *)
LEMMA LifecycleStep ==
    ASSUME IInv, ReadingsPast, [Next]_vars
    PROVE  Lifecycle!Next
<1> DEFINE st == [k \in Keys |-> tasks[k].status]
           at == [k \in Keys |-> tasks[k].attempts]
<1> SUFFICES ASSUME NEW k \in Keys
             PROVE  \/ Lifecycle!Create(k) \/ Lifecycle!Start(k)
                    \/ Lifecycle!Complete(k) \/ Lifecycle!ScheduleRetry(k)
                    \/ Lifecycle!Fail(k) \/ Lifecycle!Reopen(k)
                    \/ Lifecycle!Dismiss(k) \/ Lifecycle!Stay(k)
  BY DEF Lifecycle!Next
<1>1. RowChange(k) BY RowChanges
<1>2. tasks[k] \in Row /\ tasks[k].status \in Statuses
  BY DEF IInv, TypeOK, Row
<1>3. CASE tasks'[k] = tasks[k] BY <1>3 DEF Lifecycle!Stay
<1>4. CASE Created(k) BY <1>4 DEF Created, Lifecycle!Create
<1>5. CASE Expired(k)
  BY <1>5 DEF Expired, Lifecycle!Fail, Active, Queued
<1>6. CASE Claimed(k)
  BY <1>6 DEF Claimed, Lifecycle!Start, Active, Queued
<1>7. CASE Prolonged(k)
  <2>1. tasks[k].status = "processing" BY <1>7 DEF Prolonged, Holds
  <2>2. QED BY <1>7, <2>1 DEF Prolonged, Lifecycle!Stay
<1>8. CASE Recorded(k)
  <2>1. tasks[k].status = "processing" BY <1>8 DEF Recorded, Holds
  <2>2. QED
    BY <1>8, <2>1 DEF Recorded, Lifecycle!Complete, Lifecycle!Fail,
       Lifecycle!ScheduleRetry
<1>9. CASE Controlled(k)
  BY <1>9 DEF Controlled, Lifecycle!Reopen, Lifecycle!Dismiss
<1>10. QED
  BY <1>1, <1>3, <1>4, <1>5, <1>6, <1>7, <1>8, <1>9 DEF RowChange

(* The rows written by the SQL statements of the store implement the task  *)
(* state machine.                                                          *)
THEOREM ImplementsLifecycle == Spec => FollowsLifecycle
<1>1. Init => Lifecycle!Init
  BY DEF Init, QueueInit, NoRow, Lifecycle!Init
<1>2. IInv /\ ReadingsPast /\ [Next]_vars => [Lifecycle!Next]_(Lifecycle!vars)
  BY LifecycleStep
<1>3. QED BY <1>1, <1>2, Readings, PTL DEF Spec, FollowsLifecycle, Lifecycle!Spec
=============================================================================
