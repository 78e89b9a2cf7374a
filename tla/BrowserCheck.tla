----------------------------- MODULE BrowserCheck ----------------------------
(***************************************************************************)
(* Interactive checks of blocked applications (browsercheck/service.go)    *)
(* through the one browser page of the profile                             *)
(* (adapters/hh/browser_submission.go), with the worker that sends retried *)
(* applications and falls back to the same page.  Every request to the     *)
(* browser and every write of a confirmation is a step of its own; checks  *)
(* of different applications and the worker may take turns.                *)
(***************************************************************************)
EXTENDS Naturals, FiniteSets

CONSTANTS
    Apps,          \* applications of one profile, all blocked at first
    CheckTTL,
    LastSecond, MaxChecks, MaxCaptchas, MaxRetries     \* bounds

ASSUME CheckAssumption == CheckTTL \in Nat /\ "worker" \notin Apps

VARIABLES
    second,        \* the clock, in the seconds a retry key is made of
    tab,           \* the vacancy the page shows, and in which state
    sent,          \* the responses the platform holds
    row,           \* status of each application
    retries,       \* the retry tasks; when each was asked for is history
    ended,         \* history: how often a retry of the application ended
    flow,          \* the driver call of each check, and of the worker
    checks,        \* the sessions in memory
    captchas       \* captchas shown so far

checkVars == <<second, tab, sent, row, retries, ended, flow, checks, captchas>>

Callers == Apps \cup {"worker"}
NoApp   == "none"
NoFlow  == [pc |-> "idle", app |-> NoApp, fine |-> FALSE, result |-> "none",
            at |-> 0, since |-> 0, twice |-> FALSE]

CheckInit ==
  /\ second = 0 /\ tab = [app |-> NoApp, kind |-> "away"] /\ sent = {}
  /\ row = [a \in Apps |-> "blocked"] /\ retries = {} /\ checks = {} /\ captchas = 0
  /\ ended = [a \in Apps |-> 0]
  /\ flow = [c \in Callers |-> NoFlow]

NextSecond ==
  /\ second < LastSecond /\ second' = second + 1
  /\ UNCHANGED <<tab, sent, row, retries, ended, flow, checks, captchas>>

-----------------------------------------------------------------------------
(* The page.                                                               *)

Shown(a) == [app |-> a, kind |-> IF a \in sent THEN "applied" ELSE "vacancy"]

\* A response, or the answer to a captcha, was sent from the page: the platform
\* accepts it, asks for a captcha, or shows something the driver does not know.
Reacts ==
  \/ tab' = [tab EXCEPT !.kind = "applied"] /\ sent' = sent \cup {tab.app} /\ captchas' = captchas
  \/ captchas < MaxCaptchas /\ captchas' = captchas + 1
     /\ tab' = [tab EXCEPT !.kind = "captcha"] /\ sent' = sent
  \/ tab' = [tab EXCEPT !.kind = "stuck"] /\ UNCHANGED <<sent, captchas>>

-----------------------------------------------------------------------------
(* Sessions.  A call that breaks off leaves none behind.                   *)

Live(a)  == {s \in checks : s.app = a /\ second < s.until}
Dead(a)  == {s \in checks : s.app = a /\ second >= s.until}
Claim(c, a, pc) ==
  /\ flow[c].pc = "idle"
  /\ flow' = [flow EXCEPT ![c] = [NoFlow EXCEPT !.pc = pc, !.app = a, !.fine = row[a] = "submitted"]]

\* A live session is returned instead of a second start.
StartCheck(a) ==
  /\ Live(a) = {} /\ Claim(a, a, "goto") /\ checks' = checks \ Dead(a)
  /\ UNCHANGED <<second, tab, sent, row, retries, ended, captchas>>

AnswerCheck(a) ==
  /\ \E s \in Live(a) : s.state = "captcha"
  /\ Claim(a, a, "answer") /\ UNCHANGED <<second, tab, sent, row, retries, ended, checks, captchas>>

\* Cancelling forgets the session; a call that runs goes on.
CancelCheck(a) ==
  /\ \E s \in Live(a) : checks' = checks \ {s}
  /\ UNCHANGED <<second, tab, sent, row, retries, ended, flow, captchas>>

-----------------------------------------------------------------------------
(* The driver: whatever page is open is read and clicked.                  *)

Step(c, pc, result) ==
  flow' = [flow EXCEPT ![c] = [flow[c] EXCEPT !.pc = pc, !.result = result]]
Break(c)            == flow' = [flow EXCEPT ![c] = NoFlow]

Goto(c) ==
  /\ flow[c].pc = "goto" /\ tab' = Shown(flow[c].app) /\ Step(c, "look", "none")
  /\ UNCHANGED <<second, sent, row, retries, ended, checks, captchas>>

\* Answered already, a button to click, or neither.
Look(c) ==
  /\ flow[c].pc = "look"
  /\ CASE tab.kind = "applied" -> Step(c, "store", "done")
       [] tab.kind = "vacancy" -> Step(c, "click", "none")
       [] OTHER                -> Step(c, "store", "review")
  /\ UNCHANGED <<second, tab, sent, row, retries, ended, checks, captchas>>

Click(c) ==
  /\ flow[c].pc = "click"
  /\ IF tab.kind = "vacancy" THEN Reacts /\ Step(c, "observe", "none")
     ELSE Break(c) /\ UNCHANGED <<tab, sent, captchas>>
  /\ UNCHANGED <<second, row, retries, ended, checks>>

\* The answer goes into the field of the page, whose ever it is.
Answer(c) ==
  /\ flow[c].pc = "answer"
  /\ IF tab.kind = "captcha" THEN Reacts /\ Step(c, "observe", "none")
     ELSE Break(c) /\ UNCHANGED <<tab, sent, captchas>>
  /\ UNCHANGED <<second, row, retries, ended, checks>>

Observe(c) ==
  /\ flow[c].pc = "observe"
  /\ CASE tab.kind = "captcha" -> Step(c, "store", "captcha")
       [] tab.kind = "applied" -> Step(c, "store", "done")
       [] OTHER                -> Step(c, "store", "review")     \* in time
  /\ UNCHANGED <<second, tab, sent, row, retries, ended, checks, captchas>>

\* The browser or the store does not answer, or the operator hangs up.
BreakOff(c) ==
  /\ flow[c].pc \notin {"idle", "store"} /\ c \in Apps /\ Break(c)
  /\ UNCHANGED <<second, tab, sent, row, retries, ended, checks, captchas>>

-----------------------------------------------------------------------------
(* What a check ends with is confirmed by a retry of the application.      *)

\* Mutation: the key of a confirmation is made of the application only.
SameKey(a, at) == <<a, 0>>

\* The key of a retry holds the second of the clock it is asked for in.
RetryKey(a, at) == <<a, at>>

AppOf(t)    == t.key[1]
Underway(a) == \E t \in retries : AppOf(t) = a /\ ~t.over

\* An application that was submitted when the check began needs no retry; a
\* key that is known stands for its task, over or not.
Confirm(a) ==
  /\ flow[a].pc = "store"
  /\ LET known == {t \in retries : t.key = RetryKey(a, second)}
         asked == [flow[a] EXCEPT !.at = second, !.since = ended[a]]
     IN flow' = [flow EXCEPT ![a] =
          IF flow[a].result # "done" \/ flow[a].fine THEN [flow[a] EXCEPT !.pc = "keep", !.at = second]
          ELSE IF known = {} THEN [asked EXCEPT !.pc = "reset"]
          ELSE [asked EXCEPT !.pc = "keep", !.twice = \E t \in known : t.over /\ t.at = second]]
  /\ UNCHANGED <<second, tab, sent, row, retries, ended, checks, captchas>>

Reaches(a, pc) == flow' = [flow EXCEPT ![a].pc = pc]

\* Only a blocked row is reset.  A refusal is forgiven if the application is
\* submitted meanwhile; else there is no session.
ResetForRetry(a) ==
  /\ flow[a].pc = "reset"
  /\ \/ row[a] = "blocked" /\ row' = [row EXCEPT ![a] = "ready"] /\ Reaches(a, "enqueue")
     \/ row[a] = "submitted" /\ Reaches(a, "keep") /\ UNCHANGED row
     \/ row[a] \in {"ready", "submitting"} /\ Break(a) /\ UNCHANGED row
  /\ UNCHANGED <<second, tab, sent, retries, ended, checks, captchas>>

EnqueueRetry(a) ==
  /\ flow[a].pc = "enqueue" /\ Cardinality(retries) < MaxRetries
  /\ retries' = retries \cup {[key |-> RetryKey(a, flow[a].at), at |-> flow[a].at, over |-> FALSE]}
  /\ Reaches(a, "keep")
  /\ UNCHANGED <<second, tab, sent, row, ended, checks, captchas>>

KeepSession(a) ==
  /\ flow[a].pc = "keep" /\ Break(a)
  /\ checks' = checks \cup {[app |-> a, state |-> flow[a].result, until |-> flow[a].at + CheckTTL,
                             since |-> flow[a].since, twice |-> flow[a].twice]}
  /\ Cardinality(checks') <= MaxChecks
  /\ UNCHANGED <<second, tab, sent, row, retries, ended, captchas>>

-----------------------------------------------------------------------------
(* The worker sends what was retried through the API, and what is refused  *)
(* there through the page; a row that was reset without a task waits.      *)

EndRetry(a) ==
  /\ retries' = {IF AppOf(t) = a THEN [t EXCEPT !.over = TRUE] ELSE t : t \in retries}
  /\ ended' = [ended EXCEPT ![a] = ended[a] + 1]

WorkerSends(a) ==
  /\ row[a] = "ready" /\ Underway(a) /\ flow["worker"].pc = "idle"
  /\ \/ /\ row' = [row EXCEPT ![a] = "submitted"] /\ sent' = sent \cup {a} /\ flow' = flow
        /\ EndRetry(a)
     \/ /\ a \notin sent /\ row' = [row EXCEPT ![a] = "submitting"] /\ sent' = sent
        /\ Claim("worker", a, "goto") /\ UNCHANGED <<retries, ended>>
  /\ UNCHANGED <<second, tab, checks, captchas>>

\* The error of the API stands when the fallback breaks off.
FallbackBreaks ==
  /\ flow["worker"].pc \notin {"idle", "store"}
  /\ row' = [row EXCEPT ![flow["worker"].app] = "blocked"] /\ Break("worker")
  /\ EndRetry(flow["worker"].app)
  /\ UNCHANGED <<second, tab, sent, checks, captchas>>

WorkerSaves ==
  /\ flow["worker"].pc = "store" /\ Break("worker")
  /\ row' = [row EXCEPT ![flow["worker"].app] = IF flow["worker"].result = "done" THEN "submitted" ELSE "blocked"]
  /\ EndRetry(flow["worker"].app)
  /\ UNCHANGED <<second, tab, sent, checks, captchas>>

\* A restart keeps the page, the rows and the tasks; the interrupted submission
\* is reconciled with what the platform holds.
StopChecks ==
  /\ flow # [c \in Callers |-> NoFlow] \/ checks # {}
  /\ checks' = {} /\ flow' = [c \in Callers |-> NoFlow]
  /\ row' = [a \in Apps |-> IF row[a] # "submitting" THEN row[a] ELSE IF a \in sent THEN "submitted" ELSE "ready"]
  /\ UNCHANGED <<second, tab, sent, retries, ended, captchas>>

CheckStep ==
  \/ \E a \in Apps : StartCheck(a) \/ AnswerCheck(a) \/ CancelCheck(a) \/ WorkerSends(a)
  \/ \E a \in Apps : Confirm(a) \/ ResetForRetry(a) \/ EnqueueRetry(a) \/ KeepSession(a)
  \/ \E c \in Callers : Goto(c) \/ Look(c) \/ Click(c) \/ Answer(c) \/ Observe(c) \/ BreakOff(c)
  \/ NextSecond \/ FallbackBreaks \/ WorkerSaves \/ StopChecks

CheckSpec == CheckInit /\ [][CheckStep]_checkVars

-----------------------------------------------------------------------------
\* As long as a check is shown as done, its application is submitted or the
\* platform is asked again about it: by a retry that is under way, or that ended
\* after the check did.  Left out is a check whose key met the retry of an
\* earlier check of the very same second that had ended already.
DoneIsConfirmed ==
  \A s \in checks : s.state = "done" =>
    row[s.app] = "submitted" \/ Underway(s.app) \/ ended[s.app] > s.since \/ s.twice

=============================================================================
