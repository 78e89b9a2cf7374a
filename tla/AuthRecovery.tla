---------------------------- MODULE AuthRecovery ----------------------------
(***************************************************************************)
(* The reaction to a lost platform session (workflow/auth_recovery.go):    *)
(* the guard that pauses the job of an unauthorized task, and the hook     *)
(* that a successful sign-in starts in the background, which resumes the   *)
(* paused jobs and restarts the failed tasks, statement by statement.      *)
(*                                                                         *)
(* One profile.  A task belongs to the job that its source names, or to    *)
(* NoJob when a workflow created it.  Tasks are made by schedules and by   *)
(* manual runs, so also while their job is paused.                         *)
(***************************************************************************)
EXTENDS Integers, FiniteSets, Sequences, SequencesExt

CONSTANTS
    Tasks, GuardedJobs, NoJob,
    JobNamed,        \* the job named by the source of each task
    RecoveryLimit,   \* authRecoveryTaskLimit
    MaxSignIns       \* bound on sign-ins

ASSUME RecoveryAssumption ==
    /\ IsFiniteSet(Tasks)
    /\ NoJob \notin GuardedJobs
    /\ JobNamed \in [Tasks -> GuardedJobs \cup {NoJob}]
    /\ RecoveryLimit \in Nat \ {0}
    /\ MaxSignIns \in Nat

VARIABLES
    session,       \* the platform accepts the stored session
    tasks,         \* status of each task
    failures,      \* the failed tasks in the order of updated_at
    pauses,        \* reason of each job's pause, or "none"
    recovery,      \* the completion hook
    signIns,
    byOperator     \* jobs an operator paused and has not resumed

recoveryVars == <<session, tasks, failures, pauses, recovery, signIns, byOperator>>

InFlight == {"refused", "guarded"}
NotStarted == [at |-> "idle", jobs |-> {}, retry |-> {}, missed |-> {}, clean |-> FALSE]

RecoveryInit ==
    /\ session = TRUE
    /\ tasks = [t \in Tasks |-> "absent"]
    /\ failures = <<>>
    /\ pauses = [j \in GuardedJobs |-> "none"]
    /\ recovery = NotStarted
    /\ signIns = 0
    /\ byOperator = {}

-----------------------------------------------------------------------------
TaskBecomes(t, status) == tasks' = [tasks EXCEPT ![t] = status]

Create(t) ==
    /\ tasks[t] = "absent"
    /\ TaskBecomes(t, "new")
    /\ UNCHANGED <<session, failures, pauses, recovery, signIns, byOperator>>

(* The handler meets the platform with or without a session.               *)
Execute(t) ==
    /\ tasks[t] = "new"
    /\ \E status \in IF session THEN {"completed", "other"} ELSE {"refused"} :
          TaskBecomes(t, status)
    /\ UNCHANGED <<session, failures, pauses, recovery, signIns, byOperator>>

SetPause(j, reason) == pauses' = [pauses EXCEPT ![j] = reason]

(* AuthGuard.Guard; the worker only logs its error.                        *)
Guard(t) ==
    /\ tasks[t] = "refused"
    /\ TaskBecomes(t, "guarded")
    /\ \/ JobNamed[t] # NoJob /\ SetPause(JobNamed[t], "auth")
       \/ UNCHANGED pauses
    /\ UNCHANGED <<session, failures, recovery, signIns, byOperator>>

RecordFailure(t) ==
    /\ tasks[t] = "guarded"
    /\ TaskBecomes(t, "failed")
    /\ failures' = Append(failures, t)
    /\ UNCHANGED <<session, pauses, recovery, signIns, byOperator>>

(* The worker dies with the task; its lease runs out and it is claimed     *)
(* again.                                                                  *)
Reclaimed(t) ==
    /\ tasks[t] \in InFlight
    /\ TaskBecomes(t, "new")
    /\ UNCHANGED <<session, failures, pauses, recovery, signIns, byOperator>>

(* A task is once among the failures at most.                              *)
Position(t) == CHOOSE i \in DOMAIN failures : failures[i] = t

(* RestartFailedTask, from a failure of any category.                      *)
RestartFailed(t) ==
    /\ tasks[t] \in {"failed", "other"}
    /\ TaskBecomes(t, "new")
    /\ failures' = IF t \in ToSet(failures) THEN RemoveAt(failures, Position(t))
                   ELSE failures

OperatorRetry(t) ==
    /\ RestartFailed(t)
    /\ UNCHANGED <<session, pauses, recovery, signIns, byOperator>>

OperatorPause(j) ==
    /\ SetPause(j, "operator")
    /\ byOperator' = byOperator \cup {j}
    /\ UNCHANGED <<session, tasks, failures, recovery, signIns>>

ResumeJob(j) == pauses' = [pauses EXCEPT ![j] = "none"]

OperatorResume(j) ==
    /\ ResumeJob(j)
    /\ byOperator' = byOperator \ {j}
    /\ UNCHANGED <<session, tasks, failures, recovery, signIns>>

-----------------------------------------------------------------------------
SessionLost ==
    /\ session
    /\ session' = FALSE
    /\ recovery' = [recovery EXCEPT !.clean = FALSE]
    /\ UNCHANGED <<tasks, failures, pauses, signIns, byOperator>>

(* The session is stored, then the hook is started.                        *)
SignIn ==
    /\ ~session
    /\ signIns < MaxSignIns
    /\ recovery.at \in {"idle", "done"}
    /\ signIns' = signIns + 1
    /\ session' = TRUE
    /\ recovery' = [NotStarted EXCEPT !.at = "begun",
                       !.clean = \A t \in Tasks : tasks[t] \notin InFlight]
    /\ UNCHANGED <<tasks, failures, pauses, byOperator>>

(* resumeGuardedJobs lists the pauses ...                                  *)
ListPauses ==
    /\ recovery.at = "begun"
    /\ recovery' = [recovery EXCEPT !.at = "resuming",
                       !.jobs = {j \in GuardedJobs : pauses[j] = "auth"}]
    /\ UNCHANGED <<session, tasks, failures, pauses, signIns, byOperator>>

(* ... and deletes each, whatever its reason has become.                   *)
ResumeGuarded(j) ==
    /\ recovery.at = "resuming" /\ j \in recovery.jobs
    /\ ResumeJob(j)
    /\ recovery' = [recovery EXCEPT !.jobs = @ \ {j}]
    /\ UNCHANGED <<session, tasks, failures, signIns, byOperator>>

Resumed ==
    /\ recovery.at = "resuming" /\ recovery.jobs = {}
    /\ recovery' = [recovery EXCEPT !.at = "listing"]
    /\ UNCHANGED <<session, tasks, failures, pauses, signIns, byOperator>>

(* ORDER BY updated_at, id LIMIT.                                          *)
FailedAuthTasks ==
    ToSet(SubSeq(failures, 1, IF Len(failures) < RecoveryLimit
                              THEN Len(failures) ELSE RecoveryLimit))

ListFailed ==
    /\ recovery.at = "listing"
    /\ recovery' = [recovery EXCEPT !.at = "retrying", !.retry = FailedAuthTasks]
    /\ UNCHANGED <<session, tasks, failures, pauses, signIns, byOperator>>

Missed(t) == recovery.missed \cup ({t} \cap {u \in Tasks : tasks[u] = "failed"})

(* Mutation: an error of one retry ends the recovery.                      *)
RetryUntilError(t) ==
    /\ recovery.at = "retrying" /\ t \in recovery.retry
    /\ \/ /\ RestartFailed(t)
          /\ recovery' = [recovery EXCEPT !.retry = @ \ {t}]
       \/ /\ recovery' = [recovery EXCEPT !.retry = {}, !.missed = Missed(t)]
          /\ UNCHANGED <<tasks, failures>>
    /\ UNCHANGED <<session, pauses, signIns, byOperator>>

(* TaskControlWorkflow.Retry, whose error is only logged: the task is not  *)
(* failed any more, its deadline has passed, its row was changed beside or *)
(* the store failed.  A task that is still failed then stays behind.       *)
RetryFailed(t) ==
    /\ recovery.at = "retrying" /\ t \in recovery.retry
    /\ \/ /\ RestartFailed(t)
          /\ recovery' = [recovery EXCEPT !.retry = @ \ {t}]
       \/ /\ recovery' = [recovery EXCEPT !.retry = @ \ {t}, !.missed = Missed(t)]
          /\ UNCHANGED <<tasks, failures>>
    /\ UNCHANGED <<session, pauses, signIns, byOperator>>

Recovered ==
    /\ recovery.at = "retrying" /\ recovery.retry = {}
    /\ recovery' = [recovery EXCEPT !.at = "done"]
    /\ UNCHANGED <<session, tasks, failures, pauses, signIns, byOperator>>

(* A store error, the hook's timeout or the end of the process.            *)
RecoveryFails ==
    /\ recovery.at \notin {"idle", "done"}
    /\ recovery' = NotStarted
    /\ UNCHANGED <<session, tasks, failures, pauses, signIns, byOperator>>

WorkerStep(t) == Execute(t) \/ Guard(t) \/ RecordFailure(t)

RecoveryStep ==
    \/ ListPauses \/ Resumed \/ ListFailed \/ Recovered
    \/ \E j \in GuardedJobs : ResumeGuarded(j)
    \/ \E t \in Tasks : RetryFailed(t)

RecoveryNext ==
    \/ SessionLost \/ SignIn \/ RecoveryStep \/ RecoveryFails
    \/ \E t \in Tasks : Create(t) \/ WorkerStep(t) \/ Reclaimed(t) \/ OperatorRetry(t)
    \/ \E j \in GuardedJobs : OperatorPause(j) \/ OperatorResume(j)

(* Signing in, and everything operators do, is up to people; what follows is *)
(* safety, so nothing is assumed to happen.                                 *)
RecoverySpec == RecoveryInit /\ [][RecoveryNext]_recoveryVars

-----------------------------------------------------------------------------
(* A recovery that ran to its end, and that no refused task was in flight  *)
(* beside, leaves nothing of the lost session behind: no job paused by the *)
(* guard and, within the limit of one recovery, no task failed for want of *)
(* a session but those whose own retry ended with an error, whatever       *)
(* operators did meanwhile.  AuthGuard.retryFailedTasks logs such an error *)
(* and goes on to the other tasks.                                         *)
SignInHeals ==
    (recovery.at = "done" /\ recovery.clean /\ Cardinality(Tasks) <= RecoveryLimit)
        => /\ \A j \in GuardedJobs : pauses[j] # "auth"
           /\ \A t \in Tasks \ recovery.missed : tasks[t] # "failed"

(* AuthPauseReason: "a later successful sign-in resumes exactly them and   *)
(* never touches operator pauses".                                         *)
OperatorPauseSurvives == \A j \in byOperator : pauses[j] # "none"
=============================================================================
