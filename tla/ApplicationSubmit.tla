------------------------- MODULE ApplicationSubmit -------------------------
(***************************************************************************)
(* The application.submit handler (worker/application.go) of one profile   *)
(* with the daily budget, the submission pacing and the tailoring saga it  *)
(* drives, beside the other writers of applications: the operator's retry  *)
(* and approval, and the validation refresh.                               *)
(*                                                                         *)
(* One handler runs at a time: the service has one application worker and  *)
(* ProfileMutationLane.  Every call that writes or leaves the process is a *)
(* step, and the process may crash between any two of them.  A task is     *)
(* active until its handler returns; a crash leaves it active and it is    *)
(* delivered again.  A task whose attempts are used up, or that failed for *)
(* good, is failed, and an operator may requeue it.                        *)
(***************************************************************************)
EXTENDS ApplicationBudget, ApplicationPacing, ResumeTailoring, Sequences

CONSTANTS
    Keys,            \* idempotency keys of tasks; "submit" is the first task's
    Plans,           \* [mode, limit, skips, tailors] records of the configuration
    Intervals,       \* submit_jitter
    Answers,         \* what the platform may answer to a submission
    Operators,       \* callers of retry, approve and refresh
    DayLength,       \* readings in a local day
    MaxPacingWait,
    MaxPacingWaitAttempts,
    MaxTime,         \* bound on the clock
    MaxSubmits,      \* bound on the submissions of one application
    MaxDrift         \* bound on the edits of the resume's owner

AllAnswers == {"ok", "already", "closed", "ambiguous", "validation",
               "confirmation", "temporary", "unauthorized", "permanent"}

ASSUME SubmitAssumption ==
    /\ Keys \subseteq STRING /\ "submit" \in Keys
    /\ Plans \subseteq [mode : {"submit", "approval", "dry_run"},
                        limit : Nat \ {0}, skips : BOOLEAN, tailors : BOOLEAN]
    /\ \A t \in 1 .. MaxTime : 1 + t \div DayLength \in Windows
    /\ Intervals \subseteq Nat \ {0}
    /\ Answers \subseteq AllAnswers
    /\ DayLength \in Nat \ {0}
    /\ MaxPacingWait \in Nat /\ MaxPacingWaitAttempts \in Nat \ {0}
    /\ MaxTime \in Nat \ {0} /\ MaxSubmits \in Nat /\ MaxDrift \in Nat

VARIABLES
    clock,
    app,         \* applications: [status, prepared, attempts]
    task,        \* [Apps -> [Keys -> task status]]
    h,           \* the running handler
    op,          \* the row each operator has read
    applied,     \* applications the platform has
    drift,       \* edits of the owner so far
    unsettled    \* history: submissions whose outcome no row records

submitVars == <<clock, app, task, h, op, applied, drift, unsettled>>
vars == <<budgetVars, paceVars, tailoringVars, submitVars>>

NoPlan == [mode |-> "dry_run", limit |-> 1, skips |-> FALSE, tailors |-> FALSE]
NoRow == [status |-> "new", prepared |-> FALSE, attempts |-> 0]

Idle == [pc |-> "idle", app |-> NoApp, key |-> "submit", cur |-> NoRow,
         expected |-> "new", now |-> 0, at |-> 0, until |-> 0, tries |-> 0,
         plan |-> NoPlan, seen |-> Owned(NoApp),
         todo |-> {}, result |-> "ok", sure |-> TRUE]

NoRequest == [kind |-> "none"]

Window(t) == 1 + t \div DayLength

Init ==
    /\ BudgetInit /\ PaceInit /\ TailoringInit
    /\ clock = 1
    /\ app = [a \in Apps |-> NoRow]
    /\ task = [a \in Apps |->
                 [k \in Keys |-> IF k = "submit" THEN "active" ELSE "none"]]
    /\ h = Idle
    /\ op = [o \in Operators |-> NoRequest]
    /\ applied = {} /\ drift = 0 /\ unsettled = {}

Tick ==
    /\ clock < MaxTime
    /\ clock' = clock + 1
    /\ UNCHANGED <<budgetVars, paceVars, tailoringVars, app, task, h, op,
                   applied, drift, unsettled>>

-----------------------------------------------------------------------------
(* What is left to do at the end of Handle: the calls of a return path, in *)
(* the one order every path makes them in, and the error it returns.       *)
With(row, status) == [row EXCEPT !.status = status]

Finishes(status, steps, result) ==
    [h EXCEPT !.pc = "finish", !.cur = With(h.cur, status),
              !.todo = {"save"} \cup steps, !.result = result]
Returns(result) == [h EXCEPT !.pc = "finish", !.todo = {}, !.result = result]
Done(step) == [h EXCEPT !.todo = h.todo \ {step}]
Instead(step) == [h EXCEPT !.todo = {step}]

(* What the platform shows of the resume, kept for the step that follows.  *)
Having(next) == [next EXCEPT !.seen = resume]

Before(step) ==
    CASE step = "save" -> {}
      [] step \in {"commit", "release"} -> {"save"}
      [] step = "restore" -> {"save", "commit", "release"}
      [] OTHER -> {"save", "commit", "release", "restore"}

Doing(step) ==
    h.pc = "finish" /\ step \in h.todo /\ Before(step) \cap h.todo = {}

(* The variables a step of the handler leaves alone.                       *)
HandlerOnly == UNCHANGED <<clock, op, drift>>
NoStore == UNCHANGED <<budgetVars, paceVars, tailoringVars, app, task>>
NoSend == UNCHANGED <<applied, unsettled>>

(* Handle loads the application and dispatches on its status.              *)
Start(a, k) == [Idle EXCEPT !.app = a, !.key = k, !.cur = app[a],
                            !.expected = app[a].status, !.now = clock]
Does(start, steps) == [start EXCEPT !.pc = "finish", !.todo = steps]
Prepares(start, status, steps) ==
    [start EXCEPT !.pc = "prepare", !.cur = With(start.cur, status), !.todo = steps]
Parks(start) ==
    [start EXCEPT !.pc = "finish", !.cur = With(start.cur, "pending_reconcile"),
                  !.todo = {"save"}, !.result = "retryable"]

Dispatch(start) ==
    LET s == start.expected IN
    CASE s = "submitted" -> Does(start, {"commit", "restore"})
      [] s = "pending_reconcile" -> [start EXCEPT !.pc = "reconcile"]
      [] s = "failed" -> Does(start, {"release", "restore"})
      [] s = "waiting_validation" /\ start.cur.prepared ->
            Does(start, {"release", "restore"})
      [] s = "waiting_validation" /\ ~start.cur.prepared ->
            Prepares(start, "preparing", {"release"})
      [] s \in {"skipped", "dry_run", "waiting_approval"} -> Does(start, {})
      [] s = "submitting" -> Parks(start)
      [] s = "new" -> Prepares(start, "preparing", {})
      [] OTHER -> Prepares(start, s, {})

Handle(a, k) ==
    /\ h.pc = "idle" /\ task[a][k] = "active"
    /\ h' = Dispatch(Start(a, k))
    /\ NoStore /\ NoSend /\ HandlerOnly

(* An unprepared application that waits for validation gives its slot back *)
(* before it is prepared again.                                            *)
ReleaseFirst ==
    /\ h.pc = "prepare" /\ h.todo # {}
    /\ ReleaseApplicationBudget(h.app) /\ h' = Done("release")
    /\ UNCHANGED <<paceVars, tailoringVars, app, task>> /\ NoSend /\ HandlerOnly

(* The plan cannot be resolved: a validation error parks the application.  *)
PlanUnresolved ==
    /\ h.pc = "prepare" /\ h.todo = {}
    /\ h' \in (IF h.cur.status = "preparing"
                 THEN {Finishes("waiting_validation", {}, "ok")} ELSE {})
              \cup {Returns("retryable"), Returns("failed")}
    /\ NoStore /\ NoSend /\ HandlerOnly

(* RecordPreparation.                                                      *)
Told(status) == [h.cur EXCEPT !.prepared = TRUE, !.status = status]
Ends(status) == [h EXCEPT !.pc = "finish", !.cur = Told(status), !.todo = {"save"}]

(* The preflights skip a vacancy with a response of the profile; anything  *)
(* else is up to the vacancy, the resumes, the rules and the preparer.     *)
Decisions == {"skip"} \cup (IF h.app \in applied THEN {} ELSE {"apply", "review"})

(* What the mode of the plan makes of a preparation that applies.          *)
Proceeds(plan) ==
    CASE plan.mode = "dry_run" -> Ends("dry_run")
      [] plan.mode = "approval" -> Ends("waiting_approval")
      [] OTHER -> [h EXCEPT !.pc = "reserve", !.cur = Told("ready"), !.plan = plan]

(* The platform is read and the preparer decides, unless a decision was    *)
(* saved before.                                                           *)
Prepare ==
    /\ h.pc = "prepare" /\ h.todo = {}
    /\ \E plan \in Plans :
         \/ h.cur.prepared /\ h' = Proceeds(plan) /\ UNCHANGED unsettled
         \/ /\ ~h.cur.prepared /\ UNCHANGED unsettled
            /\ h' \in {Returns("retryable"), Returns("failed")}
         \/ /\ ~h.cur.prepared /\ unsettled' = unsettled \ {h.app}
            /\ \E d \in Decisions :
                 h' = CASE d = "apply" -> Proceeds(plan)
                        [] d = "skip" -> Ends("skipped")
                        [] d = "review" -> Ends("waiting_validation")
    /\ NoStore /\ UNCHANGED applied /\ HandlerOnly

(* The vacancy cannot be read: closed, or gone for good.                   *)
VacancyUnreadable ==
    /\ h.pc = "prepare" /\ h.todo = {} /\ ~h.cur.prepared
    /\ h' \in {Finishes("skipped", {"release", "restore"}, "ok"),
               Finishes("failed", {}, "failed")}
    /\ NoStore /\ NoSend /\ HandlerOnly

Reserve ==
    LET w == Window(h.now) IN
    /\ h.pc = "reserve"
    /\ \/ /\ ReserveApplicationBudget(h.app, w, h.plan.limit)
          /\ h' = [h EXCEPT !.pc = "pace", !.now = 0, !.at = h.now,
                            !.until = h.now + MaxPacingWait]
       \/ /\ ReserveRefused(h.app, w, h.plan.limit)
          /\ h' = Finishes("ready", {}, "retryable")
          /\ UNCHANGED budgetVars
    /\ UNCHANGED <<paceVars, tailoringVars, app, task>> /\ NoSend /\ HandlerOnly

(* acquirePacing asks for the slot with the reading the handler started    *)
(* with, and waits inline for a slot that is not far away.                 *)
AcquirePacing ==
    /\ h.pc = "pace"
    /\ \E i \in Intervals :
         /\ AcquireApplicationPace(h.app, i, h.at)
         /\ h' = CASE PaceAllowed(h.app, i, h.at) ->
                         [h EXCEPT !.pc = "tailor", !.at = 0, !.until = 0, !.tries = 0]
                   [] pace'[h.app].scheduledAt > h.until ->
                         Finishes("ready", {"release"}, "retryable")
                   [] OTHER -> [h EXCEPT !.pc = "wait", !.tries = h.tries + 1,
                        !.at = Larger(pace'[h.app].scheduledAt, h.at + 1)]
    /\ UNCHANGED <<budgetVars, tailoringVars, app, task>> /\ NoSend /\ HandlerOnly

PacingWait ==
    /\ h.pc = "wait" /\ clock >= h.at
    /\ h' = IF h.tries < MaxPacingWaitAttempts
              THEN [h EXCEPT !.pc = "pace", !.at = clock]
              ELSE Finishes("ready", {"release"}, "retryable")
    /\ NoStore /\ NoSend /\ HandlerOnly

-----------------------------------------------------------------------------
(* applyTailoring: an error leaves the application ready.                  *)
TailoringError(result) == Finishes("ready", {"release"}, result)

Tailor ==
    LET a == h.app IN
    /\ h.pc = "tailor"
    /\ h' \in CASE ~h.plan.tailors -> {[h EXCEPT !.pc = "submit"]}
               [] h.plan.tailors /\ ~Unfinished(a) ->
                     {[h EXCEPT !.pc = "plan", !.seen = resume],
                      TailoringError("retryable")}
               [] h.plan.tailors /\ Unfinished(a) ->
                     {IF saga[a].attempt # h.cur.attempts + 1
                        THEN TailoringError("failed")
                        ELSE CASE saga[a].status \in {"planned", "applying"} ->
                                    [h EXCEPT !.pc = "apply"]
                               [] saga[a].status \in {"applied", "submitting"} ->
                                    [h EXCEPT !.pc = "submit"]
                               [] OTHER -> TailoringError("failed")}
    /\ NoStore /\ NoSend /\ HandlerOnly

(* The processor plans the changes; it may find none.                      *)
PlanTailoring ==
    LET attempt == h.cur.attempts + 1 IN
    /\ h.pc = "plan"
    /\ \/ /\ CreateApplicationTailoring(h.app, attempt, h.seen)
          /\ h' = [h EXCEPT !.pc = "apply"]
       \/ /\ MutationLocked(h.app) \/ AttemptUsed(h.app, attempt)
          /\ h' = TailoringError("failed")
          /\ UNCHANGED tailoringVars
       \/ /\ h' \in {[h EXCEPT !.pc = "submit"], TailoringError("retryable")}
          /\ UNCHANGED tailoringVars
    /\ UNCHANGED <<budgetVars, paceVars, app, task>> /\ NoSend /\ HandlerOnly

(* driveApply: the phase is recorded, then the resume is read and compared.*)
DriveApply ==
    LET a == h.app IN
    /\ h.pc = "apply"
    /\ \/ BeginApply(a) /\ UNCHANGED h
       \/ /\ saga[a].status = "applying" /\ UNCHANGED tailoringVars
          /\ \/ Between(a, resume)
                /\ h' = IF resume = Tailored(a) THEN [h EXCEPT !.pc = "applied"]
                        ELSE Having([h EXCEPT !.pc = "write"])
             \/ h' = TailoringError("retryable")
       \/ /\ saga[a].status = "applying"
          /\ WriteConflicts(a) /\ h' = TailoringError("failed")
    /\ UNCHANGED <<budgetVars, paceVars, app, task>> /\ NoSend /\ HandlerOnly

(* One of its requests, and the reading that has to confirm them.          *)
DriveWrite ==
    /\ h.pc = "write"
    /\ WriteProfileState(h.app, Tailored(h.app))
    /\ h' \in {h, [h EXCEPT !.pc = "check"], TailoringError("retryable")}
    /\ UNCHANGED <<budgetVars, paceVars, app, task>> /\ NoSend /\ HandlerOnly

DriveCheck ==
    LET a == h.app IN
    /\ h.pc = "check"
    /\ \/ resume = Tailored(a) /\ h' = [h EXCEPT !.pc = "applied"] /\ UNCHANGED tailoringVars
       \/ h' = TailoringError("retryable") /\ UNCHANGED tailoringVars
       \/ WriteConflicts(a) /\ h' = TailoringError("failed")
    /\ UNCHANGED <<budgetVars, paceVars, app, task>> /\ NoSend /\ HandlerOnly

DriveApplied ==
    /\ h.pc = "applied"
    /\ RecordApplied(h.app)
    /\ h' = [h EXCEPT !.pc = "submit"]
    /\ UNCHANGED <<budgetVars, paceVars, app, task>> /\ NoSend /\ HandlerOnly

-----------------------------------------------------------------------------

(* SaveApplication: a conditional update on the status that was read.      *)
SaveApplication(a, row, expected) ==
    /\ app[a].status = expected
    /\ app' = [app EXCEPT ![a] = row]

SaveConflict(a, expected) == app[a].status # expected /\ UNCHANGED app

(* The application is marked before anything leaves the process.           *)
BeginSubmitting ==
    LET row == [h.cur EXCEPT !.status = "submitting", !.attempts = h.cur.attempts + 1] IN
    /\ h.pc = "submit" /\ h.cur.attempts < MaxSubmits
    /\ \/ /\ SaveApplication(h.app, row, h.expected)
          /\ h' = [h EXCEPT !.pc = "begin", !.cur = row, !.expected = "submitting"]
       \/ SaveConflict(h.app, h.expected) /\ h' = Returns("failed")
    /\ UNCHANGED <<budgetVars, paceVars, tailoringVars, task>> /\ NoSend /\ HandlerOnly

(* beginTailoringSubmit, and the transport is resolved.                    *)
BeginFails == {Finishes("failed", {"release", "restore"}, "failed"),
               Finishes("ready", {"release", "restore"}, "retryable")}

BeginSubmit ==
    LET a == h.app IN
    /\ h.pc = "begin"
    /\ h' \in CASE ~h.plan.tailors \/ ~Unfinished(a) \/ saga[a].status = "submitting" ->
                     BeginFails \cup {[h EXCEPT !.pc = "send"]}
               [] h.plan.tailors /\ Unfinished(a) /\ saga[a].status = "applied" ->
                     BeginFails \cup {Having([h EXCEPT !.pc = "verify"])}
               [] OTHER -> BeginFails
    /\ NoStore /\ NoSend /\ HandlerOnly

VerifyTailoring ==
    LET a == h.app IN
    /\ h.pc = "verify"
    /\ \/ /\ VerifyAndBeginSubmit(a, h.seen)
          /\ h' \in IF saga'[a].status = "submitting"
                      THEN {[h EXCEPT !.pc = "send"]} ELSE BeginFails
       \/ h' \in BeginFails /\ UNCHANGED tailoringVars
    /\ UNCHANGED <<budgetVars, paceVars, app, task>> /\ NoSend /\ HandlerOnly

Submitted == Finishes("submitted", {"commit", "restore"}, "ok")
Refused(status, result) == Finishes(status, {"release", "restore"}, result)

(* finishFailure and the success path, by the answer of the platform.      *)
AfterAnswer(answer) ==
    CASE answer = "ok" -> {Submitted}
      [] answer = "already" -> {Refused("skipped", "ok")}
      [] answer = "closed" -> {Refused("skipped", "ok")}
      [] answer = "ambiguous" -> {Finishes("pending_reconcile", {}, "retryable")}
      [] answer = "validation" ->
            {Refused("waiting_validation", "ok")}
            \cup (IF h.plan.skips THEN {Refused("skipped", "ok")} ELSE {})
      [] answer = "confirmation" ->
            {Refused("waiting_validation", "ok"), [h EXCEPT !.pc = "browser"]}
      [] answer = "temporary" -> {Refused("ready", "retryable")}
      [] answer = "unauthorized" -> {Refused("ready", "failed")}
      [] answer = "permanent" -> {Refused("failed", "failed")}

(* The platform keeps a response once: it answers "already" from then on.  *)
Possible(answer) ==
    CASE answer = "ok" -> h.app \notin applied
      [] answer = "already" -> h.app \in applied
      [] OTHER -> TRUE

Responds(answer) ==
    CASE answer = "ok" -> {applied \cup {h.app}}
      [] answer = "ambiguous" -> {applied, applied \cup {h.app}}
      [] OTHER -> {applied}

SubmitApplication ==
    /\ h.pc = "send"
    /\ \E answer \in Answers :
         /\ Possible(answer)
         /\ applied' \in Responds(answer)
         /\ h' \in AfterAnswer(answer)
    /\ unsettled' = unsettled \cup {h.app}
    /\ NoStore /\ HandlerOnly

(* browserFallback repeats the submission in the profile's own browser.    *)
(* An error, after which the browser may have got through or not, falls    *)
(* back to the ordinary classification.                                    *)
BrowserFallback ==
    LET made == applied \cup {h.app}
        sets(next, sure) == h' = [next EXCEPT !.sure = sure]
    IN
    /\ h.pc = "browser"
    /\ \/ applied' = made /\ sets(Submitted, TRUE)
       \/ UNCHANGED applied /\ sets(Refused("waiting_validation", "ok"), TRUE)
       \/ applied' \in {applied, made}
          /\ sets(Refused("waiting_validation", "ok"), FALSE)
    /\ UNCHANGED unsettled /\ NoStore /\ HandlerOnly

(* The platform is asked what became of a submission.                      *)
Reconcile ==
    /\ h.pc = "reconcile"
    /\ h' \in {IF h.app \in applied THEN Submitted ELSE Refused("failed", "ok"),
               Returns("retryable"), Returns("failed")}
    /\ NoStore /\ NoSend /\ HandlerOnly

-----------------------------------------------------------------------------

SaveOutcome ==
    /\ Doing("save")
    /\ \/ SaveApplication(h.app, h.cur, h.expected) /\ h' = Done("save")
          /\ unsettled' = IF /\ h.expected \in {"submitting", "pending_reconcile"}
                            /\ h.cur.status # "pending_reconcile" /\ h.sure
                            THEN unsettled \ {h.app} ELSE unsettled
       \/ SaveConflict(h.app, h.expected) /\ h' = Returns("failed") /\ UNCHANGED unsettled
    /\ UNCHANGED <<budgetVars, paceVars, tailoringVars, task, applied>>
    /\ HandlerOnly

(* Mutation: an error of the commit is dropped.                            *)
CommitDropped ==
    /\ Doing("commit") /\ h' = Done("commit")
    /\ CommitApplicationBudget(h.app) \/ UNCHANGED budgetVars
    /\ UNCHANGED <<paceVars, tailoringVars, app, task>> /\ NoSend /\ HandlerOnly

CommitBudget ==
    /\ Doing("commit")
    /\ CommitApplicationBudget(h.app) /\ h' = Done("commit")
    /\ UNCHANGED <<paceVars, tailoringVars, app, task>> /\ NoSend /\ HandlerOnly

ReleaseBudget ==
    /\ Doing("release")
    /\ ReleaseApplicationBudget(h.app) /\ h' = Done("release")
    /\ UNCHANGED <<paceVars, tailoringVars, app, task>> /\ NoSend /\ HandlerOnly

(* Restore: what a saga needs first depends on where it stopped.           *)
RestoreTailoring ==
    LET a == h.app IN
    /\ Doing("restore")
    /\ h' = CASE ~Unfinished(a) -> Done("restore")
              [] saga[a].status \in {"applied", "submitting"} ->
                    Having(Instead("restoreBegin"))
              [] saga[a].status = "restoring" -> Instead("restoreRead")
              [] OTHER -> Returns("failed")
    /\ NoStore /\ NoSend /\ HandlerOnly

RestoreBegin ==
    /\ Doing("restoreBegin")
    /\ BeginRestore(h.app, h.seen)
    /\ h' = IF saga'[h.app].status = "restoring"
              THEN Instead("restoreRead") ELSE Returns("failed")
    /\ UNCHANGED <<budgetVars, paceVars, app, task>> /\ NoSend /\ HandlerOnly

(* The resume is read again and compared.  A proposal without changes has  *)
(* nothing to write, and nothing but the baseline will do.                 *)
RestoreRead ==
    LET a == h.app
        base == saga[a].baseline
    IN
    /\ Doing("restoreRead")
    /\ \/ /\ resume = base /\ h' = Instead("restoreRecord")
          /\ UNCHANGED tailoringVars
       \/ /\ resume # base /\ saga[a].changes /\ Between(a, resume)
          /\ h' = Having(Instead("restoreWrite")) /\ UNCHANGED tailoringVars
       \/ saga[a].changes /\ WriteConflicts(a) /\ h' = Returns("failed")
       \/ /\ resume # base /\ ~saga[a].changes
          /\ h' = Returns("failed") /\ UNCHANGED tailoringVars
    /\ UNCHANGED <<budgetVars, paceVars, app, task>> /\ NoSend /\ HandlerOnly

RestoreWrite ==
    /\ Doing("restoreWrite")
    /\ WriteProfileState(h.app, saga[h.app].baseline)
    /\ h' \in {h, Instead("restoreCheck"), Returns("retryable")}
    /\ UNCHANGED <<budgetVars, paceVars, app, task>> /\ NoSend /\ HandlerOnly

RestoreCheck ==
    LET a == h.app IN
    /\ Doing("restoreCheck")
    /\ \/ /\ resume = saga[a].baseline /\ h' = Instead("restoreRecord")
          /\ UNCHANGED tailoringVars
       \/ h' = Returns("retryable") /\ UNCHANGED tailoringVars
       \/ WriteConflicts(a) /\ h' = Returns("failed")
    /\ UNCHANGED <<budgetVars, paceVars, app, task>> /\ NoSend /\ HandlerOnly

RestoreRecord ==
    /\ Doing("restoreRecord")
    /\ RecordRestored(h.app) /\ h' = Done("restoreRecord")
    /\ UNCHANGED <<budgetVars, paceVars, app, task>> /\ NoSend /\ HandlerOnly

(* The worker records what Handle returned; a retryable error fails the    *)
(* task once its attempts are used up.                                     *)
HandleReturns ==
    /\ h.pc = "finish" /\ h.todo = {}
    /\ \E s \in CASE h.result = "ok" -> {"done"}
                [] h.result = "retryable" -> {"active", "failed"}
                [] h.result = "failed" -> {"failed"} :
         task' = [task EXCEPT ![h.app][h.key] = s]
    /\ h' = Idle
    /\ UNCHANGED <<budgetVars, paceVars, tailoringVars, app>> /\ NoSend /\ HandlerOnly

(* The store or the platform refuses the call or is unavailable, and the   *)
(* call has no effect.                                                     *)
CallFails ==
    /\ h.todo # {} \/ h.pc = "submit"
    /\ h' \in {Returns("retryable"), Returns("failed")}
    /\ NoStore /\ NoSend /\ HandlerOnly

SlotUnavailable ==
    /\ \/ h.pc = "reserve" /\ h' = Finishes("ready", {}, "retryable")
       \/ h.pc = "pace" /\ h' = Finishes("ready", {"release"}, "retryable")
    /\ NoStore /\ NoSend /\ HandlerOnly

Crash ==
    /\ h.pc # "idle" /\ h' = Idle
    /\ NoStore /\ NoSend /\ HandlerOnly

-----------------------------------------------------------------------------
(* The operator's retry of a failed task, and the edits of the owner.      *)
Requeue(a, k) ==
    /\ task[a][k] = "failed"
    /\ task' = [task EXCEPT ![a][k] = "active"]
    /\ UNCHANGED <<budgetVars, paceVars, tailoringVars, clock, app, h, op,
                   applied, drift, unsettled>>

OwnerEdits ==
    /\ drift < MaxDrift
    /\ \E t \in Texts : resume' = Owned(t) /\ resume' # resume
    /\ drift' = drift + 1
    /\ UNCHANGED <<budgetVars, paceVars, saga, clock, app, task, h, op, applied,
                   unsettled>>

Retryable == {"waiting_validation", "failed", "skipped"}

Asks(o, request) == op' = [op EXCEPT ![o] = request]
OpOnly == UNCHANGED <<budgetVars, paceVars, tailoringVars, clock, h, applied,
                      drift, unsettled>>

(* ApplicationRetryWorkflow.Enqueue finds no task under the key and reads  *)
(* the application ...                                                     *)
AskRetry(o, a, k) ==
    /\ op[o] = NoRequest /\ task[a][k] = "none" /\ app[a].status \in Retryable
    /\ Asks(o, [kind |-> "retry", app |-> a, key |-> k, row |-> app[a],
                saved |-> FALSE])
    /\ OpOnly /\ UNCHANGED <<app, task>>

(* ... as does job-agent-approve, which goes on where an earlier call of   *)
(* it stopped.                                                             *)
AskApproval(o, a, k) ==
    /\ op[o] = NoRequest /\ app[a].prepared
    /\ app[a].status \in {"waiting_approval", "ready"}
    /\ Asks(o, [kind |-> "approve", app |-> a, key |-> k, row |-> app[a],
                saved |-> app[a].status = "ready"])
    /\ OpOnly /\ UNCHANGED <<app, task>>

(* The validation refresh lists what waits for validation.                 *)
AskRefresh(o, a) ==
    /\ op[o] = NoRequest /\ app[a].status = "waiting_validation"
    /\ Asks(o, [kind |-> "refresh", app |-> a, key |-> "submit",
                row |-> app[a], saved |-> FALSE])
    /\ OpOnly /\ UNCHANGED <<app, task>>

(* Mutation: a retry keeps the preparation.                                *)
ResetKeepsPreparation(r) ==
    CASE r.kind = "retry" -> [r.row EXCEPT !.status = "ready"]
      [] r.kind = "approve" -> [r.row EXCEPT !.status = "ready"]
      [] r.kind = "refresh" -> [r.row EXCEPT !.status = "skipped"]

(* ResetForRetry clears the preparation; the others change the status.     *)
Changed(r) ==
    CASE r.kind = "retry" -> [r.row EXCEPT !.status = "ready", !.prepared = FALSE]
      [] r.kind = "approve" -> [r.row EXCEPT !.status = "ready"]
      [] r.kind = "refresh" -> [r.row EXCEPT !.status = "skipped"]

RequestSave(o) ==
    LET r == op[o] IN
    /\ r # NoRequest /\ ~r.saved
    /\ \/ /\ SaveApplication(r.app, Changed(r), r.row.status)
          /\ Asks(o, IF r.kind = "refresh" THEN NoRequest
                     ELSE [r EXCEPT !.saved = TRUE])
       \/ /\ app[r.app].status # r.row.status \/ r.kind = "refresh"
          /\ Asks(o, NoRequest) /\ UNCHANGED app
    /\ OpOnly /\ UNCHANGED task

RequestEnqueue(o) ==
    LET r == op[o] IN
    /\ r # NoRequest /\ r.saved
    /\ task' = IF task[r.app][r.key] = "none"
                 THEN [task EXCEPT ![r.app][r.key] = "active"] ELSE task
    /\ Asks(o, NoRequest)
    /\ OpOnly /\ UNCHANGED app

RequestCrash(o) ==
    /\ op[o] # NoRequest /\ Asks(o, NoRequest)
    /\ OpOnly /\ UNCHANGED <<app, task>>

Step ==
    \/ \E a \in Apps, k \in Keys : Handle(a, k)
    \/ ReleaseFirst \/ PlanUnresolved \/ Prepare \/ VacancyUnreadable
    \/ Reserve \/ AcquirePacing \/ PacingWait \/ SlotUnavailable
    \/ Tailor \/ PlanTailoring \/ DriveApply \/ DriveWrite \/ DriveCheck \/ DriveApplied
    \/ BeginSubmitting \/ BeginSubmit \/ VerifyTailoring \/ SubmitApplication
    \/ BrowserFallback \/ Reconcile
    \/ SaveOutcome \/ CommitBudget \/ ReleaseBudget
    \/ RestoreTailoring \/ RestoreBegin \/ RestoreRead \/ RestoreWrite
    \/ RestoreCheck \/ RestoreRecord
    \/ HandleReturns \/ CallFails

Next ==
    \/ Tick \/ Step \/ Crash \/ OwnerEdits
    \/ \E a \in Apps, k \in Keys : Requeue(a, k)
    \/ \E o \in Operators :
         \/ \E a \in Apps, k \in Keys \ {"submit"} : AskRetry(o, a, k) \/ AskApproval(o, a, k)
         \/ \E a \in Apps : AskRefresh(o, a)
         \/ RequestSave(o) \/ RequestEnqueue(o) \/ RequestCrash(o)

Spec == Init /\ [][Next]_vars

-----------------------------------------------------------------------------

(* features.md: a lost answer leaves the application pending and the POST  *)
(* is not repeated.  A submission is never sent while the outcome of an    *)
(* earlier one is known to nobody.                                         *)
NoBlindResend == h.pc = "send" => h.app \notin unsettled

Quiet(a) == h.app # a /\ \A o \in Operators : op[o] # NoRequest => op[o].app # a
AllDone(a) == Quiet(a) /\ \A k \in Keys : task[a][k] \in {"none", "done"}

(* Once every task of an application is done, a submitted application has  *)
(* been counted, and no outcome is left open.                              *)
DoneIsCounted ==
    \A a \in Apps : AllDone(a) =>
        /\ app[a].status = "submitted" => reservation[a].state = "committed"
        /\ app[a].status \notin {"new", "preparing", "submitting", "pending_reconcile"}

(* application-resume-tailoring.md: an edit of the resume's owner is not   *)
(* overwritten, at whatever point of a saga, of a failed write or of a     *)
(* restart it comes.  A request puts a text on the resume only if the      *)
(* reading the same call compared showed that text: the owner's it         *)
(* replaces was written after the reading.  That gap, between              *)
(* ReadProfileState and the POST that follows it, is open in the code.     *)
OwnerEditsKept ==
    [][drift' = drift /\ resume'.text # resume.text
          => resume'.text = h.seen.text]_vars

(* application-resume-tailoring.md: a restart resumes the unfinished phase. *)
(* So a handler that finds an unfinished saga of its application can drive *)
(* it on: the saga is for the attempt the handler is about to make.        *)
SagaResumable ==
    h.pc = "tailor" /\ h.plan.tailors /\ Unfinished(h.app)
        => saga[h.app].attempt = h.cur.attempts + 1
=============================================================================
