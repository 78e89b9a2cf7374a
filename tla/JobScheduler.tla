---------------------------- MODULE JobScheduler ----------------------------
(***************************************************************************)
(* Scheduled jobs: the reconcile pass of scheduler/scheduler.go over the   *)
(* scheduled_jobs and job_pauses tables, configuration syncs, and the      *)
(* pause and resume calls of api/httpapi/job.go.                           *)
(*                                                                         *)
(* A job is a (tag, profile) pair, a schedule a (tag, trigger index) row.  *)
(* A task made by a schedule is named by its idempotency key, the pair of  *)
(* the schedule and the due time it stands for; it is active until it is   *)
(* completed, failed or dismissed, and again when a failed or dismissed    *)
(* one is restarted.  Every statement of a pass is a step of its own, so   *)
(* that operators, workers, syncs and a second process run between any two *)
(* of them.                                                                *)
(*                                                                         *)
(* Times are nanoseconds, and two readings by different callers never      *)
(* coincide.  The readings of passes, and so all computed due times, are   *)
(* even here; the reading of a resume is odd and no other call's reading.  *)
(***************************************************************************)
EXTENDS Integers, FiniteSets

CONSTANTS
    Schedules,     \* rows of scheduled_jobs, numbered in the order of the key
    Jobs,          \* (tag, profile) pairs
    JobOf,         \* the job of each schedule
    Configs,       \* configurations: which schedules exist, with what timing
    Schedulers,    \* processes that run the reconcile loop
    DueLimit,      \* limit of DueSchedules
    MaxTime,       \* bound on the clock
    MaxErrors,     \* bound on passes that end with an error
    MaxFailed      \* bound on tasks that failed and wait for a restart

Off == [on |-> FALSE, cron |-> FALSE, every |-> 1]
Timing == [on : {TRUE}, cron : BOOLEAN, every : Nat \ {0}]

ASSUME SchedulerAssumption ==
    /\ Schedules \subseteq Nat
    /\ JobOf \in [Schedules -> Jobs]
    /\ Configs \subseteq [Schedules -> Timing \cup {Off}]
    /\ \A config \in Configs, s \in Schedules :
          config[s].on => config[s].every % 2 = 0
    /\ DueLimit \in Nat \ {0}
    /\ MaxTime \in Nat
    /\ MaxErrors \in Nat
    /\ MaxFailed \in Nat

VARIABLES
    clock,
    schedule,      \* [timing, next] of each row
    pause,         \* job_pauses: the reason of each job's pause, or "none"
    created,       \* tasks ever made by a schedule
    active,        \* the unsettled ones
    failed,        \* those failed or dismissed, which may be restarted
    beside,        \* active ones restarted while their job had another to run
    pass,          \* the reconcile pass of each process
    errors,        \* passes ended by an error so far
    resuming,      \* the reading of a resume whose trigger is still to come
    owed           \* schedules a resume promised to run, since when they are due

NoReading == 0 - 1
NoEntry == [id |-> 0 - 1]
Resting == [at |-> "idle", now |-> 0, todo |-> {}, paused |-> {}, entry |-> NoEntry]

taskVars == <<created, active, failed, beside>>
schedVars == <<clock, schedule, pause, taskVars, pass, errors, resuming, owed>>

-----------------------------------------------------------------------------
(* cron.Schedule.Next: a cron row fires at the next multiple of its period *)
(* strictly after now, a timer row one interval after now.                 *)
NextRun(timing, now) ==
    IF timing.cron THEN timing.every * ((now \div timing.every) + 1)
    ELSE now + timing.every

SyncedRow(config, s, now) ==
    IF ~config[s].on
    THEN [timing |-> Off, next |-> 0]
    ELSE IF schedule[s].timing = config[s]
         THEN schedule[s]
         ELSE [timing |-> config[s], next |-> NextRun(config[s], now)]

SchedulerInit ==
    /\ clock = 0
    /\ \E config \in Configs :
          schedule = [s \in Schedules |->
             [timing |-> config[s],
              next |-> IF config[s].on THEN NextRun(config[s], 0) ELSE 0]]
    /\ pause = [j \in Jobs |-> "none"]
    /\ created = {} /\ active = {} /\ failed = {} /\ beside = {}
    /\ pass = [p \in Schedulers |-> Resting]
    /\ errors = 0
    /\ resuming = [j \in Jobs |-> NoReading]
    /\ owed = {}

SchedulerTick ==
    /\ clock < MaxTime
    /\ clock' = clock + 2
    /\ UNCHANGED <<schedule, pause, taskVars, pass, errors, owed, resuming>>

(* Scheduler.Sync: rows that the configuration no longer has are deleted,  *)
(* a changed definition starts anew from now, whatever run was promised,   *)
(* an unchanged one keeps its due time.                                    *)
Sync ==
    /\ \E config \in Configs :
          /\ schedule' = [s \in Schedules |-> SyncedRow(config, s, clock)]
          /\ owed' = {s \in owed : schedule[s].timing = config[s]}
    /\ UNCHANGED <<clock, pause, taskVars, pass, errors, resuming>>

-----------------------------------------------------------------------------
(* ReconcileDue *)

Due(s, now) == schedule[s].timing.on /\ schedule[s].next <= now

EntryOf(s) == [id |-> s, timing |-> schedule[s].timing, next |-> schedule[s].next]

Before(e, f) == \/ e.next < f.next
                \/ e.next = f.next /\ e.id < f.id

(* DueSchedules: ORDER BY next_run_at, job_tag, trigger_index LIMIT.       *)
DueEntries(now) ==
    LET due == {EntryOf(s) : s \in {r \in Schedules : Due(r, now)}}
    IN  {e \in due : Cardinality({f \in due : Before(f, e)}) < DueLimit}

Proceeds(p, state) == pass' = [pass EXCEPT ![p] = state]

StartPass(p) ==
    /\ pass[p].at = "idle"
    /\ Proceeds(p, [Resting EXCEPT !.at = "due", !.now = clock,
                                   !.todo = DueEntries(clock)])
    /\ UNCHANGED <<clock, schedule, pause, taskVars, errors, owed, resuming>>

ReadPauses(p) ==
    /\ pass[p].at = "due"
    /\ Proceeds(p, [pass[p] EXCEPT !.at = "loop",
                       !.paused = {j \in Jobs : pause[j] # "none"}])
    /\ UNCHANGED <<clock, schedule, pause, taskVars, errors, owed, resuming>>

IsNext(p, e) ==
    /\ pass[p].at = "loop"
    /\ e \in pass[p].todo
    /\ \A f \in pass[p].todo \ {e} : Before(e, f)

(* Mutation: the row is written whatever its due time is now.              *)
AdvanceAnyway(e, now) ==
    schedule' = [schedule EXCEPT ![e.id].next = NextRun(e.timing, now)]

(* AdvanceSchedule: a compare-and-set on the due time.                     *)
AdvanceSchedule(e, now) ==
    schedule' = IF schedule[e.id].timing.on /\ schedule[e.id].next = e.next
                THEN [schedule EXCEPT ![e.id].next = NextRun(e.timing, now)]
                ELSE schedule

Without(p, e) == [pass[p] EXCEPT !.at = "loop", !.todo = @ \ {e},
                                 !.entry = NoEntry]

SkipPaused(p, e) ==
    /\ IsNext(p, e)
    /\ JobOf[e.id] \in pass[p].paused
    /\ AdvanceSchedule(e, pass[p].now)
    /\ Proceeds(p, Without(p, e))
    /\ UNCHANGED <<clock, pause, taskVars, errors, owed, resuming>>

HasActiveTask(j) == \E t \in active : JobOf[t[1]] = j

(* Mutation: only the schedule's own tasks are looked at.                  *)
CheckActiveOfSchedule(p, e) ==
    /\ IsNext(p, e)
    /\ JobOf[e.id] \notin pass[p].paused
    /\ \/ /\ ~\E t \in active : t[1] = e.id
          /\ Proceeds(p, [pass[p] EXCEPT !.at = "enqueue", !.entry = e])
          /\ UNCHANGED owed
       \/ /\ Proceeds(p, [pass[p] EXCEPT !.at = "advance", !.entry = e])
          /\ owed' = owed \ {e.id}
    /\ UNCHANGED <<clock, schedule, pause, taskVars, errors, resuming>>

(* HasActiveScheduledTask, then the budget gate, which may deny the run.   *)
CheckActive(p, e) ==
    /\ IsNext(p, e)
    /\ JobOf[e.id] \notin pass[p].paused
    /\ \/ /\ ~HasActiveTask(JobOf[e.id])
          /\ Proceeds(p, [pass[p] EXCEPT !.at = "enqueue", !.entry = e])
          /\ UNCHANGED owed
       \/ /\ Proceeds(p, [pass[p] EXCEPT !.at = "advance", !.entry = e])
          /\ owed' = owed \ {e.id}
    /\ UNCHANGED <<clock, schedule, pause, taskVars, errors, resuming>>

(* Mutation: a task that exists already is an error.                       *)
EnqueueRefusesRepeat(p) ==
    LET e == pass[p].entry
        key == <<e.id, e.next>>
    IN
    /\ pass[p].at = "enqueue"
    /\ key \notin created
    /\ created' = created \cup {key}
    /\ active' = active \cup {key}
    /\ owed' = owed \ {e.id}
    /\ Proceeds(p, [pass[p] EXCEPT !.at = "advance"])
    /\ UNCHANGED <<clock, schedule, pause, failed, beside, errors, resuming>>

(* Enqueue is idempotent on the key, so the repeat of a pass that ended    *)
(* between this step and the next adds nothing.                            *)
EnqueueOccurrence(p) ==
    LET e == pass[p].entry
        key == <<e.id, e.next>>
    IN
    /\ pass[p].at = "enqueue"
    /\ created' = created \cup {key}
    /\ active' = IF key \in created THEN active ELSE active \cup {key}
    /\ owed' = owed \ {e.id}
    /\ Proceeds(p, [pass[p] EXCEPT !.at = "advance"])
    /\ UNCHANGED <<clock, schedule, pause, failed, beside, errors, resuming>>

Advance(p) ==
    /\ pass[p].at = "advance"
    /\ AdvanceSchedule(pass[p].entry, pass[p].now)
    /\ Proceeds(p, Without(p, pass[p].entry))
    /\ UNCHANGED <<clock, pause, taskVars, errors, owed, resuming>>

EndPass(p) ==
    /\ pass[p].at = "loop" /\ pass[p].todo = {}
    /\ Proceeds(p, Resting)
    /\ UNCHANGED <<clock, schedule, pause, taskVars, errors, owed, resuming>>

(* A statement fails, or the process ends: the rest of the pass is lost.   *)
PassFails(p) ==
    /\ pass[p].at # "idle"
    /\ errors < MaxErrors
    /\ errors' = errors + 1
    /\ Proceeds(p, Resting)
    /\ UNCHANGED <<clock, schedule, pause, taskVars, owed, resuming>>

-----------------------------------------------------------------------------
(* Operators and workers *)

RowsOf(j) == {s \in Schedules : JobOf[s] = j /\ schedule[s].timing.on}

(* PauseJob: INSERT ... ON CONFLICT DO UPDATE SET reason.                  *)
PauseJob(j, reason) == pause' = [pause EXCEPT ![j] = reason]

Pause(j) ==
    /\ PauseJob(j, "operator")
    /\ owed' = owed \ RowsOf(j)
    /\ UNCHANGED <<clock, schedule, taskVars, pass, errors, resuming>>

(* setPaused reads the clock and ResumeJob deletes the pause ...           *)
Resume(j) ==
    /\ resuming[j] = NoReading
    /\ clock < MaxTime
    /\ clock' = clock + 2
    /\ pause' = [pause EXCEPT ![j] = "none"]
    /\ resuming' = [resuming EXCEPT ![j] = clock + 1]
    /\ UNCHANGED <<schedule, taskVars, pass, errors, owed>>

(* ... then TriggerScheduledJob makes the rows of the job due at that      *)
(* reading.                                                                *)
TriggerScheduledJob(j) ==
    /\ resuming[j] # NoReading
    /\ schedule' = [s \in Schedules |->
                       IF s \in RowsOf(j)
                       THEN [schedule[s] EXCEPT !.next = resuming[j]]
                       ELSE schedule[s]]
    /\ owed' = IF pause[j] = "none" THEN owed \cup RowsOf(j) ELSE owed
    /\ resuming' = [resuming EXCEPT ![j] = NoReading]
    /\ UNCHANGED <<clock, pause, taskVars, pass, errors>>

(* The task is completed for good, or fails, is cancelled or dismissed and *)
(* then may come back.                                                     *)
Settle(t) ==
    /\ active' = active \ {t}
    /\ \/ UNCHANGED failed
       \/ Cardinality(failed) < MaxFailed /\ failed' = failed \cup {t}
    /\ beside' = beside \ {t}
    /\ UNCHANGED <<clock, schedule, pause, created, pass, errors, owed, resuming>>

EnqueuesFor(j) ==
    \E p \in Schedulers : pass[p].at = "enqueue" /\ JobOf[pass[p].entry.id] = j

(* RestartFailedTask and RequeueTask, of an operator, of the recovery      *)
(* after a sign-in or of a new request: nobody asks whether the job has    *)
(* another task.                                                           *)
Restart(t) ==
    /\ failed' = failed \ {t}
    /\ active' = active \cup {t}
    /\ beside' = IF HasActiveTask(JobOf[t[1]]) \/ EnqueuesFor(JobOf[t[1]])
                 THEN beside \cup {t} ELSE beside
    /\ UNCHANGED <<clock, schedule, pause, created, pass, errors, owed, resuming>>

PassStep(p) ==
    \/ StartPass(p) \/ ReadPauses(p)
    \/ \E e \in pass[p].todo : SkipPaused(p, e) \/ CheckActive(p, e)
    \/ EnqueueOccurrence(p) \/ Advance(p) \/ EndPass(p)

SchedulerNext ==
    \/ SchedulerTick \/ Sync
    \/ \E p \in Schedulers : PassStep(p) \/ PassFails(p)
    \/ \E j \in Jobs : Pause(j) \/ Resume(j) \/ TriggerScheduledJob(j)
    \/ \E t \in active : Settle(t)
    \/ \E t \in failed : Restart(t)

(* The loop reconciles on every tick of its timer, so a pass never waits   *)
(* forever; nothing else is promised to happen.                            *)
SchedulerSpec == SchedulerInit /\ [][SchedulerNext]_schedVars /\ \A p \in Schedulers : WF_schedVars(PassStep(p))

-----------------------------------------------------------------------------
(* With one scheduler a job has two scheduled tasks in flight only when a  *)
(* failed one was restarted while another ran or was about to be made,     *)
(* however many schedules fire together: HasActiveScheduledTask, before    *)
(* every enqueue, counts the tasks of all schedules of the job, restarted  *)
(* ones too.                                                               *)
OneActivePerJob ==
    \A t, u \in active \ beside : JobOf[t[1]] = JobOf[u[1]] => t = u

(* The run a resume promised is not lost to a pass that was under way and  *)
(* still believed the job paused: the row stays due until a pass creates   *)
(* the task, finds one active or is denied by the gate, the operator       *)
(* pauses the job again or a reload changes the row's definition or drops  *)
(* it, which loses the run (AdvanceSchedule compares the due time).        *)
OwedStaysDue == \A s \in owed : Due(s, clock)

(* A due schedule whose job nobody pauses is dealt with, although errors   *)
(* end passes half way and the task of its occurrence may exist already:   *)
(* its due time moves past the reading of some pass (ReconcileDue).  While *)
(* the job is paused its rows move on too, unlike what scheduler.go:60-62  *)
(* says of them; nothing is claimed of that here.                          *)
DueIsHandled ==
    \A s \in Schedules :
        LET waits == Due(s, clock) /\ pause[JobOf[s]] = "none"
        IN  waits ~> ~waits
=============================================================================
