----------------------------- MODULE MCServices -----------------------------
(* The smaller services, one at a time: they share no variable.            *)
EXTENDS JobScheduler, AuthRecovery, ProcessLease, HHSubmission, QuestionnaireForms,
        ProfileActivity

VARIABLE part   \* the service that runs

\* The last task was made by a workflow, the others by a job.
JobNames == <<"a", "a", NoJob>>
SourceOf == [t \in Tasks |-> JobNames[t]]

Timer(n) == [on |-> TRUE, cron |-> FALSE, every |-> n]
Cron(n) == [on |-> TRUE, cron |-> TRUE, every |-> n]

\* One job with a timer and a cron trigger; a reload replaces the cron.
OneJob == [s \in Schedules |-> "j"]
Reloads == {<<Timer(4), Cron(4)>>, <<Timer(4), Off>>}

vars == <<schedVars, recoveryVars, leaseVars, hhVars, formsVars, activityVars, part>>

Init ==
  /\ part \in {"scheduler", "recovery", "lease", "submission", "forms", "activity"}
  /\ SchedulerInit /\ RecoveryInit /\ LeaseInit /\ HHInit /\ FormsInit /\ ActivityInit
  /\ part = "scheduler" \/ schedule[2].timing = Off
  /\ part = "submission" \/ transport = "api"

Next ==
  \/ part = "scheduler" /\ SchedulerNext
     /\ UNCHANGED <<recoveryVars, leaseVars, hhVars, formsVars, activityVars, part>>
  \/ part = "recovery" /\ RecoveryNext
     /\ UNCHANGED <<schedVars, leaseVars, hhVars, formsVars, activityVars, part>>
  \/ part = "lease" /\ LeaseNext
     /\ UNCHANGED <<schedVars, recoveryVars, hhVars, formsVars, activityVars, part>>
  \/ part = "submission" /\ HHNext
     /\ UNCHANGED <<schedVars, recoveryVars, leaseVars, formsVars, activityVars, part>>
  \/ part = "forms" /\ FormsNext
     /\ UNCHANGED <<schedVars, recoveryVars, leaseVars, hhVars, activityVars, part>>
  \/ part = "activity" /\ ActivityNext
     /\ UNCHANGED <<schedVars, recoveryVars, leaseVars, hhVars, formsVars, part>>

(* The loop reconciles for as long as the process runs.                    *)
ReconcileLoop(p) ==
  part = "scheduler" /\ PassStep(p) /\ UNCHANGED <<recoveryVars, leaseVars, hhVars, formsVars, activityVars, part>>

Spec == Init /\ [][Next]_vars /\ \A p \in Schedulers : WF_vars(ReconcileLoop(p))

=============================================================================
