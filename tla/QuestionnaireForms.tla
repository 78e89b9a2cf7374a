------------------------- MODULE QuestionnaireForms -------------------------
(***************************************************************************)
(* The form of a vacancy test from its task to the application behind it:  *)
(* worker/questionnaire_answer.go sends the form                           *)
(* (adapters/hh/vacancy_test_submit.go), has the attempt recorded by a     *)
(* task of its own (worker/test_complete.go) and resets the application,   *)
(* whose handler (worker/application.go) asks for the attempt at its gate. *)
(* The tasks come from QuestionnaireReviews, up to three for one vacancy   *)
(* and round: by the capture, by the bank and by the review.               *)
(***************************************************************************)
EXTENDS Naturals, FiniteSets

CONSTANTS
    Vias,       \* the keys one vacancy's form may be enqueued with
    MaxBreaks   \* bound: stops and odd pages

ASSUME FormsAssumption == Vias # {} /\ MaxBreaks \in Nat

VARIABLES
    forms,      \* forms[k]: the questionnaire.answer task with key k
    form,       \* whether the platform still asks, or took the form
    completed,  \* completed[k]: the test.complete task keyed by k
    attempts,   \* the attempts recorded
    application, \* the application: "ready" with a task, "parked", "through"
    retryKeys,  \* the keys of the retries made by forms
    fm,         \* the handler of questionnaire.answer
    breaks,
    odd         \* history: a page without the form that was no confirmation

formsVars == <<forms, form, completed, attempts, application, retryKeys, fm, breaks, odd>>

NoKey == "none"
NoFM  == [pc |-> "idle", k |-> NoKey]

FormsInit ==
  /\ forms = [k \in Vias |-> "none"] /\ form = "open"
  /\ completed = [k \in Vias |-> "none"] /\ attempts = 0
  /\ application = "ready" /\ retryKeys = {} /\ fm = NoFM /\ breaks = 0 /\ odd = FALSE

EnqueueForm(k) ==
  /\ forms[k] = "none" /\ forms' = [forms EXCEPT ![k] = "new"]
  /\ UNCHANGED <<form, completed, attempts, application, retryKeys, fm, breaks, odd>>

-----------------------------------------------------------------------------
(* The form is sent, in the lane of the profile.                           *)

EndForm(status) == fm' = NoFM /\ forms' = [forms EXCEPT ![fm.k] = status]

BeginForm(k) ==
  /\ fm.pc = "idle" /\ forms[k] = "new"
  /\ fm' = [pc |-> "read", k |-> k] /\ forms' = [forms EXCEPT ![k] = "run"]
  /\ UNCHANGED <<form, completed, attempts, application, retryKeys, breaks, odd>>

\* The page shows the form with the questions that were answered, or the
\* task fails.
ReadForm ==
  /\ fm.pc = "read"
  /\ \/ form = "open" /\ fm' = [fm EXCEPT !.pc = "post"] /\ UNCHANGED forms
     \/ \E status \in {"new", "failed"} : EndForm(status)
  /\ UNCHANGED <<form, completed, attempts, application, retryKeys, breaks, odd>>

\* The browser worker fills the form and says what it saw.
submitVacancyTestThroughWorker(answer, accepted) == answer = "worker" /\ accepted

\* A 2xx is confirmed by reading the page again.  A rejected session is
\* handed to the browser worker.  Any other answer fails the task, perhaps
\* after the form was taken.
SubmitVacancyTest ==
  /\ fm.pc = "post"
  /\ \E accepted \in BOOLEAN, answer \in {"2xx", "worker", "error"} :
       /\ form' = IF accepted THEN "accepted" ELSE form
       /\ CASE answer = "2xx" -> fm' = [fm EXCEPT !.pc = "confirm"] /\ UNCHANGED forms
            [] submitVacancyTestThroughWorker(answer, accepted) ->
                 fm' = [fm EXCEPT !.pc = "complete"] /\ UNCHANGED forms
            [] OTHER -> \E status \in {"new", "failed"} : EndForm(status)
  /\ UNCHANGED <<completed, attempts, application, retryKeys, breaks, odd>>

\* Mutation: the answer to the POST is believed.
BelievePost == fm' = [fm EXCEPT !.pc = "complete"] /\ UNCHANGED <<forms, breaks, odd>>

\* The form is gone; any page without it is taken for that.
confirmVacancyTestSubmission ==
  \/ form = "accepted" /\ fm' = [fm EXCEPT !.pc = "complete"] /\ UNCHANGED <<forms, breaks, odd>>
  \/ /\ form = "open" /\ breaks < MaxBreaks /\ breaks' = breaks + 1 /\ odd' = TRUE
     /\ fm' = [fm EXCEPT !.pc = "complete"] /\ UNCHANGED forms
  \/ (\E status \in {"new", "failed"} : EndForm(status)) /\ UNCHANGED <<breaks, odd>>

ConfirmForm ==
  /\ fm.pc = "confirm" /\ confirmVacancyTestSubmission
  /\ UNCHANGED <<form, completed, attempts, application, retryKeys>>

-----------------------------------------------------------------------------
(* What follows a form that was taken: the record of the attempt by a task *)
(* of its own, then the retry of the application.                          *)

EnqueueComplete ==
  /\ fm.pc = "complete" /\ fm' = [fm EXCEPT !.pc = "retry"]
  /\ completed' = IF completed[fm.k] = "none" THEN [completed EXCEPT ![fm.k] = "new"] ELSE completed
  /\ UNCHANGED <<forms, form, attempts, application, retryKeys, breaks, odd>>

\* One retry for a form; a refusal is only logged.
EnqueueRetry ==
  /\ fm.pc = "retry" /\ EndForm("done")
  /\ IF application = "parked" /\ fm.k \notin retryKeys
     THEN application' = "ready" /\ retryKeys' = retryKeys \cup {fm.k}
     ELSE UNCHANGED <<application, retryKeys>>
  /\ UNCHANGED <<form, completed, attempts, breaks, odd>>

\* The same outcome again is not a second attempt.
RecordAttempt(k) ==
  /\ completed[k] = "new" /\ completed' = [completed EXCEPT ![k] = "done"]
  /\ attempts' = IF attempts = 0 THEN 1 ELSE attempts
  /\ UNCHANGED <<forms, form, application, retryKeys, fm, breaks, odd>>

\* The gate: the vacancy has a test, so without an attempt the application is
\* parked.
applicationPlatformPreflight ==
  /\ application = "ready" /\ application' = IF attempts > 0 THEN "through" ELSE "parked"
  /\ UNCHANGED <<forms, form, completed, attempts, retryKeys, fm, breaks, odd>>

\* The operator retries it.
RetryParked ==
  /\ application = "parked" /\ application' = "ready"
  /\ UNCHANGED <<forms, form, completed, attempts, retryKeys, fm, breaks, odd>>

\* The process stops; the task comes back.
StopForm ==
  /\ fm.pc # "idle" /\ breaks < MaxBreaks /\ breaks' = breaks + 1 /\ EndForm("new")
  /\ UNCHANGED <<form, completed, attempts, application, retryKeys, odd>>

FormsNext ==
  \/ \E k \in Vias : EnqueueForm(k) \/ BeginForm(k) \/ RecordAttempt(k)
  \/ ReadForm \/ SubmitVacancyTest \/ ConfirmForm \/ EnqueueComplete \/ EnqueueRetry
  \/ applicationPlatformPreflight \/ RetryParked \/ StopForm

FormsSpec == FormsInit /\ [][FormsNext]_formsVars

-----------------------------------------------------------------------------

(* The application passes the gate of its questionnaire only after the     *)
(* platform took the form: neither the answer to the POST nor a task run   *)
(* again opens it.  A page that shows no form for another reason does.     *)
(* Mutation: the answer to the POST is believed (BelievePost).             *)
GateOpensOnAccepted == application = "through" /\ ~odd => form = "accepted"

=============================================================================
