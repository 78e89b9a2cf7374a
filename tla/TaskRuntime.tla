---------------------------- MODULE TaskRuntime ----------------------------
(***************************************************************************)
(* The task queue with its clients: producers, the polling workers of      *)
(* worker/worker.go (claim, heartbeat, finish) and operators.              *)
(*                                                                         *)
(* Workers is the set of running worker loops.  Two of them may serve one  *)
(* task type: a process that lost its runtime lease keeps working beside   *)
(* its successor.  A worker samples the clock before it calls the store,   *)
(* so a claim, an extension or a finish may use an old reading.  A worker  *)
(* that is slow simply takes no step while the clock ticks; a worker that  *)
(* meets an error (a lost lease, a refused retry) returns from Run, which  *)
(* ends its process; Crash is any other end of the process.                *)
(***************************************************************************)
EXTENDS TaskQueue

Outcomes == {"ok", "retryable", "pacing", "unauthorized", "permanent"}

CONSTANTS
    Workers,       \* worker loops
    Serves,        \* the task type each worker claims
    Results,       \* the outcomes a handler may return
    Operators,     \* concurrent callers of the operator controls
    OperatorOps,   \* the controls operators use
    AvailableIn,   \* delays a producer may ask for
    Deadlines,     \* deadlines a producer may ask for
    RetryDelays,   \* delays retryAt may return
    MaxAttempts,   \* worker.Config.MaxAttempts
    MaxTime,       \* bound on the clock
    MaxClaims      \* bound on the number of claims

ASSUME RuntimeAssumption ==
    /\ Serves \in [Workers -> Types]
    /\ Results \subseteq Outcomes
    /\ OperatorOps \subseteq Controls
    /\ AvailableIn \subseteq Nat
    /\ Deadlines \subseteq Nat \cup {NoDeadline}
    /\ RetryDelays \subseteq Nat \ {0}
    /\ MaxAttempts \in Nat \ {0}
    /\ MaxTime \in Nat
    /\ MaxClaims \in Nat

VARIABLES
    clock,
    worker,        \* [pc, now, lease, outcome] of each worker loop
    operator,      \* [op, key, updatedAt, now]: the row an operator has read
    guarded        \* tasks whose job the AuthGuard was asked to pause

vars == <<tasks, issued, clock, worker, operator, guarded>>

PCs == {"idle", "polling", "running", "extending", "guarding", "recording",
        "stopped"}

(* The zero lease of a worker that holds none. *)
NoLease == [token |-> NoToken]

Worker == [pc : PCs, now : Nat, lease : Lease \cup {NoLease},
           outcome : Outcomes]
Idle == [pc |-> "idle", now |-> 0, lease |-> NoLease, outcome |-> "ok"]
Stopped == [Idle EXCEPT !.pc = "stopped"]

Pending == [op : Controls, key : Keys, updatedAt : Nat, now : Nat]
NoControl == [op |-> "none"]

Busy == {"running", "extending", "guarding", "recording"}

TypeOK ==
    /\ tasks \in [Keys -> Row]
    /\ issued \in Nat
    /\ clock \in Nat
    /\ worker \in [Workers -> Worker]
    /\ \A w \in Workers :
          worker[w].lease # NoLease <=> worker[w].pc \in Busy
    /\ operator \in [Operators -> Pending \cup {NoControl}]
    /\ guarded \subseteq Keys

Init ==
    /\ QueueInit
    /\ clock = 0
    /\ worker = [w \in Workers |-> Idle]
    /\ operator = [o \in Operators |-> NoControl]
    /\ guarded = {}

-----------------------------------------------------------------------------
Becomes(w, state) == worker' = [worker EXCEPT ![w] = state]

Tick ==
    /\ clock < MaxTime
    /\ clock' = clock + 1
    /\ UNCHANGED <<tasks, issued, worker, operator, guarded>>

Produce(k) ==
    /\ \E a \in AvailableIn, d \in Deadlines : Enqueue(k, clock + a, d, clock)
    /\ UNCHANGED <<clock, worker, operator, guarded>>

(* RunOnce reads the clock ... *)
Poll(w) ==
    /\ worker[w].pc = "idle"
    /\ Becomes(w, [worker[w] EXCEPT !.pc = "polling", !.now = clock])
    /\ UNCHANGED <<tasks, issued, clock, operator, guarded>>

(* ... and claims with that reading. *)
RunOnce(w) ==
    /\ worker[w].pc = "polling"
    /\ \/ \E k \in Keys :
             /\ issued < MaxClaims
             /\ Claim(k, Serves[w], worker[w].now)
             /\ Becomes(w, [worker[w] EXCEPT !.pc = "running", !.now = 0,
                                         !.lease = LeaseOf(k, tasks'[k])])
       \/ /\ ClaimNothing(Serves[w], worker[w].now)
          /\ Becomes(w, Idle)
    /\ UNCHANGED <<clock, operator, guarded>>

(* The heartbeat branch of execute reads the clock, and does nothing when  *)
(* the lease would not grow ...                                            *)
LongerLease(w, now) == CappedByDeadline(worker[w].lease, now + LeaseDuration)

ReadHeartbeat(w) ==
    /\ worker[w].pc = "running" /\ LongerLease(w, clock) > worker[w].lease.until
    /\ Becomes(w, [worker[w] EXCEPT !.pc = "extending", !.now = clock])
    /\ UNCHANGED <<tasks, issued, clock, operator, guarded>>

(* ... and extends it with that reading, while the handler runs.           *)
Heartbeat(w) ==
    LET lease == worker[w].lease
        now == worker[w].now
        until == LongerLease(w, now)
    IN
    /\ worker[w].pc = "extending"
    /\ \/ /\ Extend(lease, until, now)
          /\ Becomes(w, [worker[w] EXCEPT
                           !.pc = "running", !.now = 0,
                           !.lease = [lease EXCEPT !.until = until]])
       \/ /\ ~LeaseHeld(lease, now)
          /\ Becomes(w, Stopped)
          /\ UNCHANGED <<tasks, issued>>
    /\ UNCHANGED <<clock, operator, guarded>>

(* The handler returned; finish reads the clock.                           *)
HandlerReturns(w) ==
    /\ worker[w].pc = "running"
    /\ \E o \in Results :
          Becomes(w, [worker[w] EXCEPT
                         !.pc = IF o = "unauthorized" THEN "guarding"
                                ELSE "recording",
                         !.now = clock, !.outcome = o])
    /\ UNCHANGED <<tasks, issued, clock, operator, guarded>>

(* finish calls the AuthGuard before it records an unauthorized failure;   *)
(* an error of the guard is only logged.                                   *)
Guard(w) ==
    /\ worker[w].pc = "guarding"
    /\ \/ guarded' = guarded \cup {worker[w].lease.key}
       \/ UNCHANGED guarded
    /\ Becomes(w, [worker[w] EXCEPT !.pc = "recording"])
    /\ UNCHANGED <<tasks, issued, clock, operator>>

Retries(w) == /\ worker[w].outcome \in {"retryable", "pacing"}
              /\ worker[w].lease.attempts < MaxAttempts

RecordComplete(w) ==
    /\ worker[w].pc = "recording" /\ worker[w].outcome = "ok"
    /\ Complete(worker[w].lease, worker[w].now)
    /\ Becomes(w, Idle)
    /\ UNCHANGED <<clock, operator, guarded>>

RecordRetry(w) ==
    /\ worker[w].pc = "recording" /\ Retries(w)
    /\ \E d \in RetryDelays :
          Retry(worker[w].lease, worker[w].outcome = "pacing",
                worker[w].now + d, worker[w].now)
    /\ Becomes(w, Idle)
    /\ UNCHANGED <<clock, operator, guarded>>

RecordFail(w) ==
    /\ worker[w].pc = "recording" /\ worker[w].outcome # "ok" /\ ~Retries(w)
    /\ Fail(worker[w].lease, worker[w].now)
    /\ Becomes(w, Idle)
    /\ UNCHANGED <<clock, operator, guarded>>

(* The store refuses: the lease is lost, or the retry would come at or     *)
(* after the deadline.  Run returns the error and the process ends.        *)
RecordRefused(w) ==
    LET lease == worker[w].lease
        now == worker[w].now
    IN
    /\ worker[w].pc = "recording"
    /\ \/ ~LeaseHeld(lease, now)
       \/ Retries(w) /\ \E d \in RetryDelays : ~RetryAllowed(lease, now + d, now)
    /\ Becomes(w, Stopped)
    /\ UNCHANGED <<tasks, issued, clock, operator, guarded>>

Crash(w) ==
    /\ worker[w].pc # "stopped"
    /\ Becomes(w, Stopped)
    /\ UNCHANGED <<tasks, issued, clock, operator, guarded>>

Restart(w) ==
    /\ worker[w].pc = "stopped"
    /\ Becomes(w, Idle)
    /\ UNCHANGED <<tasks, issued, clock, operator, guarded>>

ControlRead(o) ==
    /\ operator[o] = NoControl
    /\ \E op \in OperatorOps, k \in Keys :
          /\ ControlAllowed(op, k, clock)
          /\ operator' = [operator EXCEPT ![o] =
                [op |-> op, key |-> k, updatedAt |-> tasks[k].updatedAt,
                 now |-> clock]]
    /\ UNCHANGED <<tasks, issued, clock, worker, guarded>>

(* The conditional update; when it matches no row the caller is told that  *)
(* the task changed meanwhile (ErrTaskControlConflict).                    *)
ControlWrite(o) ==
    LET c == operator[o] IN
    /\ c # NoControl
    /\ \/ Control(c.op, c.key, c.updatedAt, c.now)
       \/ ~ControlMatches(c.op, c.key, c.updatedAt) /\ UNCHANGED <<tasks, issued>>
    /\ operator' = [operator EXCEPT ![o] = NoControl]
    /\ UNCHANGED <<clock, worker, guarded>>

Next ==
    \/ Tick
    \/ \E k \in Keys : Produce(k)
    \/ \E w \in Workers :
          \/ Poll(w) \/ RunOnce(w) \/ ReadHeartbeat(w) \/ Heartbeat(w)
          \/ HandlerReturns(w) \/ Guard(w) \/ RecordComplete(w) \/ RecordRetry(w) \/ RecordFail(w)
          \/ RecordRefused(w) \/ Crash(w) \/ Restart(w)
    \/ \E o \in Operators : ControlRead(o) \/ ControlWrite(o)

Spec == Init /\ [][Next]_vars

-----------------------------------------------------------------------------
Lifecycle == INSTANCE TaskLifecycle
                WITH status <- [k \in Keys |-> tasks[k].status],
                     attempts <- [k \in Keys |-> tasks[k].attempts]

(* The rows that the store's SQL writes follow the task state machine of   *)
(* core/task.go, one transition at a time, although a claim may expire     *)
(* several tasks and start one in a single transaction.                    *)
FollowsLifecycle == Lifecycle!Spec

(* Worker w holds the lease the row of k carries now.                      *)
Holds(w, k) == /\ worker[w].lease # NoLease
               /\ worker[w].lease.key = k
               /\ tasks[k].status = "processing"
               /\ tasks[k].token = worker[w].lease.token

(* Two workers never hold one task at the same time, however late either   *)
(* is: Claim draws a fresh token, and only its receiver has it.            *)
ExclusiveHolder ==
    \A k \in Keys, v, w \in Workers : Holds(v, k) /\ Holds(w, k) => v = w

(* What a holder believes about its task is what the row says: deciding    *)
(* retry or failure from the copy (finish) is deciding it from the row.    *)
HolderSeesRow ==
    \A k \in Keys, w \in Workers :
        Holds(w, k) => worker[w].lease = LeaseOf(k, tasks[k])

(* A task waits for a retry only while it has an attempt left, whatever    *)
(* crashes and takeovers added to its attempts before.                     *)
RetryHasAttemptLeft ==
    \A k \in Keys :
        tasks[k].status = "retry_scheduled" => tasks[k].attempts < MaxAttempts

(* No lease outlives the deadline of its task.                             *)
LeaseEndsByDeadline ==
    \A k \in Keys :
        tasks[k].status = "processing" /\ tasks[k].deadline # NoDeadline
            => tasks[k].until <= tasks[k].deadline

(* The tokens in rows and leases were drawn, a row carries one exactly     *)
(* while it is processed, and no two workers were given the same.          *)
TokensIssued == /\ \A k \in Keys : tasks[k].token <= issued
                /\ \A w \in Workers : worker[w].lease.token <= issued
LeasedWhileProcessing ==
    \A k \in Keys : tasks[k].status = "processing" <=> tasks[k].token # NoToken
LeasesDistinct ==
    \A v, w \in Workers :
        v # w /\ worker[v].lease.token = worker[w].lease.token
            => worker[v].lease.token = NoToken

(* The inductive invariant: what a step needs to keep the four invariants  *)
(* above.                                                                  *)
IInv == /\ TypeOK /\ TokensIssued /\ LeasedWhileProcessing /\ LeasesDistinct
        /\ HolderSeesRow /\ RetryHasAttemptLeft /\ LeaseEndsByDeadline

(* While a lease runs and the deadline has not come, nobody but its holder *)
(* changes the row: no other claim, no operator, no producer.              *)
RunningLeaseProtected ==
    [][\A k \in Keys :
         /\ tasks[k].status = "processing"
         /\ clock < tasks[k].until
         /\ tasks'[k] # tasks[k]
         => \E w \in Workers : Holds(w, k) /\ worker'[w] # worker[w]]_vars

(* Even after its lease has run out a task is completed, rescheduled or    *)
(* failed by a handler's result only on behalf of the worker that claimed  *)
(* it last; the deadline is the only other way out of processing.          *)
ResultIsFromLastClaim ==
    [][\A k \in Keys :
         /\ tasks[k].status = "processing"
         /\ tasks'[k].status # "processing"
         => \/ \E w \in Workers : /\ Holds(w, k)
                                  /\ worker[w].pc = "recording"
                                  /\ worker'[w].pc = "idle"
            \/ /\ PastDeadline(tasks[k], clock)
               /\ tasks'[k].status = "failed"]_vars

(* hasBlockingTask of broker/memory: a task of the blocker type is active, *)
(* or the last one settled has failed.                                     *)
HasBlockingTask(rows, type, profile) ==
    LET same == {b \in Keys : TypeOf[b] = type /\ ProfileOf[b] = profile}
        settled == {b \in same : rows[b].status \in Settled}
    IN \/ \E b \in same : rows[b].status \in Active
       \/ \E b \in settled :
             /\ rows[b].status = "failed"
             /\ \A r \in settled \ {b} : LaterThan(rows, b, r)

(* A task starts only when its profile's blocker tasks are out of the way, *)
(* as the in-memory queue decides it, after the deadlines that come due in *)
(* the same transaction.                                                   *)
StartsUnblocked ==
    [][\A k \in Keys :
         tasks'[k].token \notin {NoToken, tasks[k].token}
         => ~HasBlockingTask(tasks', BlockedBy[TypeOf[k]], ProfileOf[k])]_vars
=============================================================================
