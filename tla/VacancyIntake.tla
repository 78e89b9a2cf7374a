---------------------------- MODULE VacancyIntake ----------------------------
(***************************************************************************)
(* The rows that searches and campaigns share: one application per profile *)
(* and vacancy, its tombstone once it is removed, and the                  *)
(* application.submit task that works on it, found by a key made of the    *)
(* profile and the vacancy alone.                                          *)
(***************************************************************************)
EXTENDS Naturals, Sequences, FiniteSets

CONSTANTS Profiles,    \* the accounts
          Vacancies,   \* the vacancies the platform lists
          MaxFaults    \* bound: stops of the process, failed calls, reloads

VARIABLES app,         \* app[p][v]: the status of the application
          gone,        \* gone[p][v]: its row is a tombstone
          submit,      \* submit[p][v]: the application.submit task
          faults       \* faults so far

intakeVars == <<app, gone, submit>>

(***************************************************************************)
(* "new" stands for every status from new to pending reconciliation in     *)
(* which an application still has work to do, "quota" for one of these     *)
(* whose last failure is an exceeded quota, "captcha" for a wait for       *)
(* validation with the decision captcha_required, "closed" for every other *)
(* end: waiting for the operator, skipped, a dry run, failed.              *)
(***************************************************************************)
AppStatuses == {"none", "new", "quota", "submitted", "captcha", "closed"}
Unfinished  == {"new", "quota"}

\* One more fault, within the bound.
Fault == faults < MaxFaults /\ faults' = faults + 1

IntakeInit ==
  /\ app = [p \in Profiles |-> [v \in Vacancies |-> "none"]]
  /\ gone = [p \in Profiles |-> [v \in Vacancies |-> FALSE]]
  /\ submit = [p \in Profiles |-> [v \in Vacancies |-> "none"]]
  /\ faults = 0

(***************************************************************************)
(* CreateApplication: the row that is already there is returned as it is,  *)
(* a tombstone refuses the insert with ErrApplicationRemoved.              *)
(***************************************************************************)
CreateApplication(p, v) ==
  app' = IF app[p][v] = "none" THEN [app EXCEPT ![p][v] = "new"] ELSE app

\* The insert of a task whose key exists changes nothing, whatever the state
\* of the task that holds the key.
EnqueueSubmit(p, v) ==
  submit' = IF submit[p][v] = "none" THEN [submit EXCEPT ![p][v] = "queued"] ELSE submit

\* What another finder of the vacancy does meanwhile, a search or a command of
\* the operator: the application, then its task, in two writes.
FoundElsewhere(p, v) ==
  /\ ~gone[p][v]
  /\ \/ app[p][v] = "none" /\ CreateApplication(p, v) /\ UNCHANGED submit
     \/ app[p][v] # "none" /\ submit[p][v] = "none" /\ EnqueueSubmit(p, v) /\ UNCHANGED app
  /\ UNCHANGED <<gone, faults>>

(***************************************************************************)
(* The application worker, seen from here: a queued task ends in one of    *)
(* the outcomes below.  A quota keeps the task queued for the next window, *)
(* and a task may fail, park or be dismissed while its application is      *)
(* unfinished.                                                             *)
(***************************************************************************)
WorkApplication(p, v) ==
  /\ submit[p][v] = "queued" /\ app[p][v] \in Unfinished
  /\ \/ app[p][v] = "new" /\ app' = [app EXCEPT ![p][v] = "quota"] /\ UNCHANGED submit
     \/ \E s \in {"submitted", "captcha", "closed", "new"} :
          /\ app' = [app EXCEPT ![p][v] = s]
          /\ submit' = [submit EXCEPT ![p][v] = "settled"]
  /\ UNCHANGED <<gone, faults>>

=============================================================================
