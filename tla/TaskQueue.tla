----------------------------- MODULE TaskQueue -----------------------------
(***************************************************************************)
(* The durable task queue: the `tasks` table of storage/sqlite, its        *)
(* Enqueue, Claim, Extend, Complete, Retry and Fail statements and the     *)
(* operator controls, over the task state machine of core/task.go.         *)
(*                                                                         *)
(* A row is found by its idempotency key.  Enqueue refuses, without a      *)
(* change, a second command under a stored key, so the command of a key    *)
(* (type, profile, priority) never changes and is a constant here.  Every  *)
(* operation receives the caller's own reading of the clock, as in the     *)
(* code, and is one SQL transaction, hence one step.  The worker id of a   *)
(* claim is "worker-" followed by the task type (cmd/job-agent), the same  *)
(* in every process, so lease_owner never tells two claimants of a task    *)
(* apart and is left out; lease_token does.                                *)
(***************************************************************************)
EXTENDS Integers

CONSTANTS
    Keys,          \* idempotency keys, numbered in the order of the task ids
    Types,         \* task types
    Profiles,      \* accounts
    TypeOf,        \* task type of each key
    ProfileOf,     \* profile of each key
    PriorityOf,    \* priority of each key
    BlockedBy,     \* blocker type of each type's worker, NoType for none
    NoType,
    LeaseDuration  \* worker.Config.LeaseDuration

ASSUME QueueAssumption ==
    /\ Keys \subseteq Nat
    /\ TypeOf \in [Keys -> Types]
    /\ ProfileOf \in [Keys -> Profiles]
    /\ PriorityOf \in [Keys -> Nat]
    /\ NoType \notin Types
    /\ BlockedBy \in [Types -> Types \cup {NoType}]
    /\ \A t \in Types : BlockedBy[t] # t
    /\ LeaseDuration \in Nat \ {0}

VARIABLES
    tasks,         \* the row of each key
    issued         \* lease tokens drawn so far; token n is the n-th draw

(* waiting_confirmation is a status of core/task.go that no code enters.    *)
Queued == {"new", "retry_scheduled"}
Active == Queued \cup {"processing"}
Settled == {"completed", "failed", "dismissed"}
Statuses == {"absent"} \cup Active \cup Settled

NoToken == 0       \* lease_token IS NULL
NoDeadline == 0 - 1

Row == [status : Statuses, attempts : Nat, availableAt : Nat,
        deadline : Nat \cup {NoDeadline}, createdAt : Nat, updatedAt : Nat,
        token : Nat, until : Nat]

NoRow == [status |-> "absent", attempts |-> 0, availableAt |-> 0,
          deadline |-> NoDeadline, createdAt |-> 0, updatedAt |-> 0,
          token |-> NoToken, until |-> 0]

QueueInit == /\ tasks = [k \in Keys |-> NoRow]
             /\ issued = 0

-----------------------------------------------------------------------------
(* core/task.go *)

PastDeadline(row, now) == row.deadline # NoDeadline /\ row.deadline <= now

NewTask(available, deadline, now) ==
    [NoRow EXCEPT !.status = "new", !.availableAt = available,
                  !.deadline = deadline, !.createdAt = now, !.updatedAt = now]

NewTaskAllowed(available, deadline, now) ==
    deadline # NoDeadline => deadline > now /\ available < deadline

(* Mutation: the lease columns keep the token of the finished claim.       *)
UnleasedKeepsToken(row) == [row EXCEPT !.until = 0]

(* Every statement that ends a claim also sets the lease columns to NULL. *)
Unleased(row) == [row EXCEPT !.token = NoToken, !.until = 0]

Finished(row, status, now) ==
    [Unleased(row) EXCEPT !.status = status, !.updatedAt = now]

(* RestartFailed and Requeue open a new retry cycle. *)
Reopened(row, now) ==
    [Finished(row, "new", now) EXCEPT !.attempts = 0, !.availableAt = now]

-----------------------------------------------------------------------------

(* Store.Enqueue: INSERT OR IGNORE on the idempotency key.                 *)
Enqueue(k, available, deadline, now) ==
    /\ NewTaskAllowed(available, deadline, now)
    /\ tasks' = [tasks EXCEPT ![k] =
                    IF @.status = "absent"
                    THEN NewTask(available, deadline, now) ELSE @]
    /\ UNCHANGED issued

(* First statement of the claim transaction: every unsettled task whose    *)
(* deadline has come is failed, whatever its type or lease.                *)
ExpireOverdue(rows, now) ==
    [k \in Keys |-> IF rows[k].status \in Active /\ PastDeadline(rows[k], now)
                    THEN Finished(rows[k], "failed", now) ELSE rows[k]]

LaterThan(rows, j, k) ==
    \/ rows[j].updatedAt > rows[k].updatedAt
    \/ rows[j].updatedAt = rows[k].updatedAt /\ j > k

(* Mutation: an unresolved failure of the blocker does not count.          *)
BlockedByActiveOnly(rows, k) ==
    \E b \in Keys : /\ TypeOf[b] = BlockedBy[TypeOf[k]]
                    /\ ProfileOf[b] = ProfileOf[k]
                    /\ rows[b].status \in Active

(* The NOT EXISTS (blocker ...) condition of the claim statement.          *)
Blocked(rows, k) ==
    \E b \in Keys :
        /\ TypeOf[b] = BlockedBy[TypeOf[k]]
        /\ ProfileOf[b] = ProfileOf[k]
        /\ \/ rows[b].status \in Active
           \/ /\ rows[b].status = "failed"
              /\ ~\E r \in Keys : /\ TypeOf[r] = TypeOf[b]
                                  /\ ProfileOf[r] = ProfileOf[b]
                                  /\ rows[r].status \in Settled
                                  /\ LaterThan(rows, r, b)

(* Mutation: a task is taken over while its lease runs.                    *)
EligibleWhileLeased(row, now) ==
    row.status \in Queued \cup {"processing"} /\ row.availableAt <= now

Eligible(row, now) ==
    \/ row.status \in Queued /\ row.availableAt <= now
    \/ row.status = "processing" /\ row.until <= now

Claimable(rows, k, type, now) ==
    /\ TypeOf[k] = type
    /\ Eligible(rows[k], now)
    /\ ~PastDeadline(rows[k], now)
    /\ ~Blocked(rows, k)

DueAt(row) == IF row.status = "processing" THEN row.until ELSE row.availableAt

(* ORDER BY priority DESC, due time, created_at, id.                       *)
ClaimedBefore(rows, j, k) ==
    \/ PriorityOf[j] > PriorityOf[k]
    \/ /\ PriorityOf[j] = PriorityOf[k]
       /\ \/ DueAt(rows[j]) < DueAt(rows[k])
          \/ /\ DueAt(rows[j]) = DueAt(rows[k])
             /\ \/ rows[j].createdAt < rows[k].createdAt
                \/ rows[j].createdAt = rows[k].createdAt /\ j < k

First(rows, k, type, now) ==
    /\ Claimable(rows, k, type, now)
    /\ \A j \in Keys \ {k} :
          Claimable(rows, j, type, now) => ClaimedBefore(rows, k, j)

CappedByDeadline(row, until) ==
    IF row.deadline # NoDeadline /\ row.deadline < until
    THEN row.deadline ELSE until

Leased(row, token, now) ==
    [row EXCEPT !.status = "processing", !.attempts = @ + 1, !.updatedAt = now,
                !.token = token,
                !.until = CappedByDeadline(row, now + LeaseDuration)]

(* Mutation: the token is a constant of the worker.                        *)
ClaimReusesToken(k, type, now) ==
    LET rows == ExpireOverdue(tasks, now) IN
    /\ First(rows, k, type, now)
    /\ issued' = issued + 1
    /\ tasks' = [rows EXCEPT ![k] = Leased(@, 1, now)]

(* Store.Claim found the task k.                                           *)
Claim(k, type, now) ==
    LET rows == ExpireOverdue(tasks, now) IN
    /\ First(rows, k, type, now)
    /\ issued' = issued + 1
    /\ tasks' = [rows EXCEPT ![k] = Leased(@, issued + 1, now)]

(* Store.Claim found nothing: the expiry of overdue tasks is committed.    *)
ClaimNothing(type, now) ==
    LET rows == ExpireOverdue(tasks, now) IN
    /\ \A k \in Keys : ~Claimable(rows, k, type, now)
    /\ tasks' = rows
    /\ UNCHANGED issued

-----------------------------------------------------------------------------
(* A lease is the copy of the row and the token that Claim returned.       *)

Lease == [key : Keys, token : Nat \ {NoToken}, until : Nat, attempts : Nat,
          deadline : Nat \cup {NoDeadline}]

LeaseOf(k, row) == [key |-> k, token |-> row.token, until |-> row.until,
                    attempts |-> row.attempts, deadline |-> row.deadline]

(* validateActiveLease, on the caller's copy.                              *)
LeaseUsable(lease, now) == now < lease.until /\ ~PastDeadline(lease, now)

(* Mutation: the token is not compared.                                    *)
LeaseMatchesAnyToken(lease, now) ==
    /\ tasks[lease.key].status = "processing"
    /\ tasks[lease.key].until > now

(* WHERE id = ? AND status = 'processing' AND lease_token = ? AND          *)
(* lease_until > now.                                                      *)
LeaseMatches(lease, now) ==
    /\ tasks[lease.key].status = "processing"
    /\ tasks[lease.key].token = lease.token
    /\ tasks[lease.key].until > now

LeaseHeld(lease, now) == LeaseUsable(lease, now) /\ LeaseMatches(lease, now)

Extended(row, until, now) == [row EXCEPT !.until = until, !.updatedAt = now]

Extend(lease, until, now) ==
    /\ LeaseHeld(lease, now)
    /\ tasks' = [tasks EXCEPT ![lease.key] = Extended(@, until, now)]
    /\ UNCHANGED issued

Complete(lease, now) ==
    /\ LeaseHeld(lease, now)
    /\ tasks' = [tasks EXCEPT ![lease.key] = Finished(@, "completed", now)]
    /\ UNCHANGED issued

RetryAllowed(lease, retryAt, now) ==
    /\ retryAt > now
    /\ lease.deadline # NoDeadline => retryAt < lease.deadline

(* A pacing wait gives the attempt of its claim back.                      *)
Rescheduled(row, pacing, retryAt, now) ==
    [Finished(row, "retry_scheduled", now) EXCEPT
        !.availableAt = retryAt,
        !.attempts = IF pacing /\ row.attempts > 0 THEN row.attempts - 1
                     ELSE row.attempts]

Retry(lease, pacing, retryAt, now) ==
    /\ RetryAllowed(lease, retryAt, now)
    /\ LeaseHeld(lease, now)
    /\ tasks' = [tasks EXCEPT ![lease.key] =
                    Rescheduled(@, pacing, retryAt, now)]
    /\ UNCHANGED issued

Fail(lease, now) ==
    /\ LeaseHeld(lease, now)
    /\ tasks' = [tasks EXCEPT ![lease.key] = Finished(@, "failed", now)]
    /\ UNCHANGED issued

-----------------------------------------------------------------------------
(* Operator controls: read the row, then update it on condition that its   *)
(* status and updated_at are still the ones that were read.                *)

Controls == {"restart", "requeue", "cancel", "dismiss"}

(* Mutation: a running task can be cancelled.                              *)
ControlFromRunning(op) == IF op = "cancel" THEN Active
                          ELSE {"failed", "dismissed"}

ControlFrom(op) == CASE op = "restart" -> {"failed"}
                     [] op = "requeue" -> {"failed", "dismissed"}
                     [] op = "cancel"  -> Queued
                     [] op = "dismiss" -> {"failed"}

ControlAllowed(op, k, now) ==
    /\ tasks[k].status \in ControlFrom(op)
    /\ now >= tasks[k].updatedAt
    /\ op \in {"restart", "requeue"} => ~PastDeadline(tasks[k], now)

ControlMatches(op, k, updatedAt) ==
    tasks[k].status \in ControlFrom(op) /\ tasks[k].updatedAt = updatedAt

Control(op, k, updatedAt, now) ==
    /\ ControlMatches(op, k, updatedAt)
    /\ tasks' = [tasks EXCEPT ![k] =
                    IF op \in {"restart", "requeue"}
                    THEN Reopened(@, now)
                    ELSE Finished(@, "dismissed", now)]
    /\ UNCHANGED issued
=============================================================================
