---------------------------- MODULE HHSubmission ----------------------------
(***************************************************************************)
(* What one profile's submission does to HeadHunter and what the handler   *)
(* of submissions is told: the public API (adapters/hh/application.go),    *)
(* the web form with a POST or with the browser worker                     *)
(* (adapters/hh/browser_application.go, browser/http.go) and the mobile    *)
(* API (adapters/hh/mobile_application.go, adapters/hhapi).  The lane of   *)
(* the profile (worker/profile_mutation_lane.go) leaves one call at a      *)
(* time.  Any request may be refused, lost on its way or lost on its way   *)
(* back, and the process may stop between two of them.                     *)
(***************************************************************************)
EXTENDS Naturals, FiniteSets

CONSTANTS
    Offers,        \* the vacancies of the profile's applications
    MaxCalls       \* bound on the calls of a run

VARIABLES
    transport,     \* how the profile sends, fixed by its configuration
    responses,          \* the vacancies the platform holds a response to
    told,          \* what the handler was last told of each vacancy
    call,          \* the running call
    resume,        \* the vacancies whose words stand in the resume
    captchaPending, calls,
    unproved       \* vacancies whose last call rests on an answer that proves nothing

hhVars == <<transport, responses, told, call, resume, captchaPending, calls, unproved>>

Transports == {"api", "browser", "worker", "mobile"}
NoOffer == "none"
Idle == [pc |-> "idle", v |-> NoOffer, had |-> FALSE, left |-> 0, baseline |-> {}, restore |-> FALSE, answer |-> "none"]

HHInit ==
  /\ transport \in Transports
  /\ responses = {} /\ told = [v \in Offers |-> "nothing"] /\ call = Idle
  /\ resume = {} /\ captchaPending = FALSE /\ calls = 0 /\ unproved = {}

-----------------------------------------------------------------------------
(* A call begins, goes on, and ends with an answer: "applied", "refused"   *)
(* (any error the handler takes for a submission that did not happen),     *)
(* "unknown" (an ambiguous result), or "absent" from a reconciliation.     *)

Goto(pc)       == call' = [call EXCEPT !.pc = pc] /\ told' = told
Return(answer) == call' = Idle /\ told' = [told EXCEPT ![call.v] = answer]
Quiet          == UNCHANGED <<transport, responses, resume, captchaPending, calls, unproved>>

Begin(v, pc) ==
  /\ call.pc = "idle" /\ calls < MaxCalls /\ calls' = calls + 1
  /\ call' = [Idle EXCEPT !.pc = pc, !.v = v, !.had = v \in responses, !.left = 3]
  /\ unproved' = unproved \ {v}
  /\ UNCHANGED <<transport, responses, resume, captchaPending>>

\* A refusal may be tried again; an unknown outcome is asked for first.
SubmitApplication(v) ==
  /\ told[v] \in {"nothing", "refused", "absent"}
  /\ told' = [told EXCEPT ![v] = "asked"]
  /\ Begin(v, CASE transport = "api" -> "post" [] transport = "mobile" -> "vacancy" [] OTHER -> "popup")

ReconcileApplication(v) ==
  /\ told[v] = "unknown" /\ told' = told
  /\ Begin(v, IF transport = "api" THEN "relations" ELSE "ask")

-----------------------------------------------------------------------------
(* The web form: a popup that carries the state of the response or only a  *)
(* hint, and the page read after a hint.  A page that cannot be read       *)
(* leaves the hint, which says at most that the account has responded.     *)

preflightSays == {"error", "hint", "state"}

\* The account responded already: the platform shows the id or does not.
AlreadyApplied == call.v \in responses /\ \E answer \in {"applied", "unknown"} : Return(answer)

\* A form that cannot be read has sent nothing.
classifyBrowserApplicationGET == "refused"

preflightBlocker == call.v \notin responses /\ Return("refused")

\* The resume is not offered or cannot be used, the letter is too long.
UnfitResume == call.v \notin responses /\ Return("refused")

Popup ==
  /\ call.pc = "popup"
  /\ \E says \in preflightSays :
       \/ says = "error" /\ Return(classifyBrowserApplicationGET)
       \/ says = "hint"  /\ Goto("page")
       \/ says = "state" /\ (AlreadyApplied \/ preflightBlocker \/ UnfitResume \/ (call.v \notin responses /\ Goto("send")))
  /\ Quiet

\* A bare hint names no resume.
Page ==
  /\ call.pc = "page"
  /\ \/ AlreadyApplied \/ preflightBlocker \/ UnfitResume
     \/ call.v \notin responses /\ Goto("send")
     \/ Return("refused")
  /\ Quiet

\* Reconciling over the form: with a bare hint nothing is found.
Ask ==
  /\ call.pc = "ask"
  /\ \E says \in preflightSays :
       \/ says = "error" /\ Return("unknown")
       \/ says = "state" /\ Return(IF call.v \in responses THEN "applied" ELSE "absent")
       \/ says = "hint"  /\ Return("absent")
  /\ Quiet

\* The public API names the relations of the account to the vacancy; any
\* failure leaves the outcome open.
classifyReconciliationFailure == "unknown"

Relations ==
  /\ call.pc = "relations"
  /\ \E answer \in {classifyReconciliationFailure, IF call.v \in responses THEN "applied" ELSE "absent"} : Return(answer)
  /\ Quiet

-----------------------------------------------------------------------------
(* What the platform does with a request to respond, and what comes back:  *)
(*   "ok"     the response with its id                                     *)
(*   "bare"   success without one                                          *)
(*   "said"   the account has responded before                             *)
(*   "form"   a questionnaire comes first                                  *)
(*   "captcha", "no"  refused; 4xx                                         *)
(*   "moved"  3xx; "broken" 5xx; "lost" no answer                          *)
(*   "named"  3xx or 5xx whose body names an error, a captcha even: the    *)
(*            body is looked at before the status                          *)

Responds(answer, creates) ==
  CASE answer = "ok"               -> call.v \notin responses /\ creates
    [] answer = "said"             -> call.v \in responses /\ ~creates
    [] answer \in {"bare", "broken", "named", "lost"} -> creates => call.v \notin responses
    [] OTHER                       -> ~creates

Sent(creates, doubtful) ==
  /\ responses' = IF creates THEN responses \cup {call.v} ELSE responses
  /\ unproved' = IF doubtful THEN unproved \cup {call.v} ELSE unproved
  /\ UNCHANGED <<transport, resume, calls>>

\* The public API: created without a location cannot be confirmed.
classifyApplicationFailure(answer) ==
  CASE answer = "said" -> "applied" [] answer = "broken" -> "unknown" [] OTHER -> "refused"

Post ==
  /\ call.pc = "post"
  /\ \E creates \in BOOLEAN, answer \in {"ok", "bare", "said", "no", "captcha", "moved", "named", "broken", "lost"} :
       /\ Responds(answer, creates) /\ Sent(creates, answer = "named") /\ UNCHANGED captchaPending
       /\ Return(CASE answer = "ok" -> "applied"
                   [] answer \in {"bare", "lost"} -> "unknown"
                   [] OTHER -> classifyApplicationFailure(answer))

\* The POST of the form: what the body says, then the status.
classifyPayload(answer) == IF answer = "said" THEN "applied" ELSE "refused"

OnlyLost == {"lost"}

ServerError == {"moved", "broken", "lost"}

PostForm ==
  /\ call.pc = "send" /\ transport = "browser"
  /\ \E creates \in BOOLEAN, answer \in {"ok", "bare", "said", "form", "no", "captcha", "moved", "named", "broken", "lost"} :
       /\ Responds(answer, creates) /\ Sent(creates, answer = "named") /\ UNCHANGED captchaPending
       /\ CASE answer = "ok"          -> Return("applied")
            [] answer = "bare"        -> Goto("verify")
            [] answer \in ServerError -> Return("unknown")
            [] OTHER                  -> Return(classifyPayload(answer))

\* The worker clicks through the page.  It confirms what it saw, with or
\* without the id; a call that breaks off is a failure like any other.
WorkerAnswers == {"ok", "bare", "form", "no", "unclear", "lost"}

OperationError == "refused"

WorkerApply ==
  /\ call.pc = "send" /\ transport = "worker"
  /\ \E creates \in BOOLEAN, answer \in WorkerAnswers :
       /\ IF answer \in {"ok", "bare"} THEN creates = (call.v \notin responses)
          ELSE creates => call.v \notin responses /\ answer \in {"unclear", "lost"}
       /\ Sent(creates, FALSE) /\ UNCHANGED captchaPending
       /\ CASE answer = "ok"      -> Return("applied")
            [] answer = "bare"    -> Goto("verify")
            [] answer = "unclear" -> Return("unknown")
            [] answer = "lost"    -> Return(OperationError)
            [] OTHER              -> Return("refused")

\* Mutation: a success of the form without an id is believed.
TrustSuccess == Return("applied")

\* Success without an id is looked up three times, then left open; what the
\* worker saw counts without the id.
GiveUp == Return(IF transport = "worker" THEN "applied" ELSE "unknown")

Verify ==
  /\ call.pc = "verify"
  /\ \/ call.v \in responses /\ Return("applied")
     \/ call.v \in responses /\ GiveUp                    \* the resume is used, the id hidden
     \/ call.left > 1 /\ call' = [call EXCEPT !.left = @ - 1] /\ told' = told
     \/ call.left = 1 /\ GiveUp
  /\ Quiet

-----------------------------------------------------------------------------
(* The mobile API: the words of the vacancy are written into the resume    *)
(* before the response and taken back after it, whatever the answer was.   *)

\* A captcha on file, a vacancy that cannot be read or is unwanted.
Vacancy ==
  /\ call.pc = "vacancy"
  /\ \/ Return("refused")
     \/ ~captchaPending /\ call' = [call EXCEPT !.pc = "tailor", !.baseline = resume] /\ told' = told
  /\ Quiet

\* A write that failed may have happened; nothing restores it then.
Tailor ==
  /\ call.pc = "tailor" /\ told' = told
  /\ \E written, known \in BOOLEAN :
       /\ known => written
       /\ resume' = IF written THEN call.baseline \cup {call.v} ELSE resume
       /\ call' = [call EXCEPT !.pc = "respond", !.restore = known]
  /\ UNCHANGED <<transport, responses, captchaPending, calls, unproved>>

\* Up to three tries while the solver passes the captcha.  Any status below
\* 300 is success, though the body is empty or cannot be read.
Respond ==
  /\ call.pc = "respond"
  /\ \E creates \in BOOLEAN, answer \in {"ok", "bare", "said", "form", "no", "captcha", "moved", "named", "broken", "lost"} :
       /\ Responds(answer, creates) /\ Sent(creates, answer \in {"bare", "named"}) /\ UNCHANGED captchaPending /\ told' = told
       /\ \/ answer = "captcha" /\ call.left > 1 /\ call' = [call EXCEPT !.left = @ - 1]
          \/ call' = [call EXCEPT !.pc = "restore", !.answer = answer]

restoreResume == IF call.restore THEN call.baseline ELSE resume

Restore ==
  /\ call.pc = "restore" /\ Goto("classify")
  /\ resume' \in {restoreResume, resume}                 \* its error is ignored
  /\ UNCHANGED <<transport, responses, captchaPending, calls, unproved>>

\* A captcha with an address is put on file for the operator.
classifyMobileApplicationError ==
  /\ call.pc = "classify"
  /\ CASE call.answer \in {"ok", "bare", "said"} -> Return("applied") /\ UNCHANGED captchaPending
       [] call.answer \in {"broken", "lost"} -> Return("unknown") /\ UNCHANGED captchaPending
       [] call.answer \in {"form", "named"} -> (Goto("form") \/ Return("refused")) /\ UNCHANGED captchaPending
       [] call.answer = "captcha" -> Return("refused") /\ captchaPending' \in {TRUE, captchaPending}
       [] OTHER                   -> Return("refused") /\ UNCHANGED captchaPending
  /\ UNCHANGED <<transport, responses, resume, calls, unproved>>

\* The answers are sent; only a negotiation that is found counts.
answerQuestionnaire ==
  /\ call.pc = "form"
  /\ \E creates \in BOOLEAN :
       /\ creates => call.v \notin responses
       /\ Sent(creates, FALSE) /\ UNCHANGED captchaPending
       /\ (call.v \in responses' /\ Return("applied")) \/ Return("refused")

\* The operator solved it, or half an hour has passed.
CaptchaSolved ==
  /\ captchaPending /\ captchaPending' = FALSE
  /\ UNCHANGED <<transport, responses, told, call, resume, calls, unproved>>

-----------------------------------------------------------------------------

\* The process stops; the task comes back to an application it may have sent.
StopSubmission ==
  /\ call.pc # "idle"
  /\ call' = Idle /\ told' = [told EXCEPT ![call.v] = "unknown"]
  /\ UNCHANGED <<transport, responses, resume, captchaPending, calls, unproved>>

HHNext ==
  \/ \E v \in Offers : SubmitApplication(v) \/ ReconcileApplication(v)
  \/ Popup \/ Page \/ Ask \/ Relations
  \/ Post \/ PostForm \/ WorkerApply \/ Verify
  \/ Vacancy \/ Tailor \/ Respond \/ Restore \/ classifyMobileApplicationError \/ answerQuestionnaire
  \/ CaptchaSolved \/ StopSubmission

HHSpec == HHInit /\ [][HHNext]_hhVars

-----------------------------------------------------------------------------

(* What is recorded as applied was accepted by the platform, over every    *)
(* transport, although success may come without an id, the answer of a     *)
(* POST may be lost and a reconciliation may follow hours later.  Only the *)
(* mobile API's success with an empty or unreadable body is believed       *)
(* without a look (Client.applyOnce).                                      *)
(* Mutation: a success of the form without an id is believed too           *)
(* (TrustSuccess).                                                         *)
AppliedIsHeld ==
  \A v \in Offers : told[v] = "applied" => v \in responses \/ (transport = "mobile" /\ v \in unproved)

(* The public API and the POST of the form answer with a refusal only when *)
(* this call sent nothing, or when a 3xx or 5xx named an error in its body *)
(* (classifyBrowserApplicationPOST and classifyApplicationFailure look at  *)
(* the body first): the handler gives the place in the daily budget back   *)
(* and may send again.  A call of the browser worker that breaks off and a *)
(* questionnaire of the mobile API that was answered do not keep this.     *)
(* Mutation: an unclear answer to the POST counts as a refusal             *)
(* (OnlyLost).                                                             *)
RefusalSentNothing ==
  [][\A v \in Offers :
       told'[v] = "refused" /\ told[v] # "refused" /\ transport \in {"api", "browser"} /\ v \in responses'
       => call.had \/ v \in unproved']_hhVars

=============================================================================
