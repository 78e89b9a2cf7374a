------------------------ MODULE QuestionnaireReviews ------------------------
(***************************************************************************)
(* The questions of a vacancy until their answers are ready to be sent:    *)
(* the capture of the questionnaire (worker/vacancy_test_capture.go), the  *)
(* review session the operator answers (worker/review_answer.go,           *)
(* api/httpapi/review.go, storage/sqlite/test_review.go), the bank of      *)
(* answers with its revisions (core/answer_revision.go) and the run that   *)
(* answers from the bank and from the model                                *)
(* (worker/application_answer_covered.go).  One profile; every worker runs *)
(* one task at a time, the workers run beside each other.                  *)
(***************************************************************************)
EXTENDS Naturals, Sequences, FiniteSets

CONSTANTS
    Questions,
    Tests,        \* the vacancies with a questionnaire
    Asks,         \* Asks[t]: the questions of t, in their order
    Configurations, \* the sets of questions a configuration answers
    Unfit,        \* those it answers with none of their options
    CodeQuestions, \* the questions of kind code, which nobody answers
    MaxReviews,   \* bound: answers the operator sends
    MaxRuns,      \* bound: runs over the bank
    MaxStops      \* bound: stops and failed calls

ASSUME ReviewsAssumption ==
  /\ Asks \in [Tests -> Seq(Questions)]
  /\ UNION Configurations \cup Unfit \cup CodeQuestions \subseteq Questions
  /\ {MaxReviews, MaxRuns, MaxStops} \subseteq Nat

VARIABLES
    configured, \* the questions the configuration answers, as it was started
    capture,    \* the capture task of each test
    session,    \* the review session of each test, with its current prompt
    bank,       \* the latest revision of the bank: who answered each question
    reviews,    \* the review.answer tasks
    formKeys,   \* the keys of the questionnaire.answer tasks
    cp, ra, cv, \* the handlers: capture, review answer, run over the bank
    sentReviews, bankRuns, stops,
    kept,       \* history: the tests one of whose answers stays in its session
    disturbed   \* history: a stop, an odd page or a revision that lost answers

reviewsVars == <<configured, capture, session, bank, reviews, formKeys, cp, ra, cv,
                 sentReviews, bankRuns, stops, kept, disturbed>>

NoTest == "none"
NoCP == [pc |-> "idle", t |-> NoTest, q |-> NoTest]
Nothing == [q \in Questions |-> "nobody"]
NoRA == [pc |-> "idle", task |-> {}, rev |-> 0, q |-> NoTest, todo |-> {}, read |-> Nothing]
NoCV == [pc |-> "idle", todo |-> {}, t |-> NoTest, wrote |-> {}, send |-> FALSE]

\* A questionnaire that asks one text twice is refused.
QuestionsOf(t) == {Asks[t][i] : i \in DOMAIN Asks[t]}
Position(t, q) == CHOOSE i \in DOMAIN Asks[t] : Asks[t][i] = q
First(t, qs)   == CHOOSE q \in qs : \A p \in qs : Position(t, q) <= Position(t, p)

ReviewsInit ==
  /\ configured \in Configurations
  /\ capture = [t \in Tests |-> "none"]
  /\ session = [t \in Tests |-> [status |-> "none", rev |-> 0, prompt |-> NoTest]]
  /\ bank = [exists |-> FALSE, by |-> Nothing]
  /\ reviews = {} /\ formKeys = {}
  /\ cp = NoCP /\ ra = NoRA /\ cv = NoCV
  /\ sentReviews = 0 /\ bankRuns = 0 /\ stops = 0 /\ kept = {} /\ disturbed = FALSE

counters == <<sentReviews, bankRuns, stops>>

-----------------------------------------------------------------------------
(* The bank: the block of the configuration with the latest revision over  *)
(* it.  Questions are told apart by their normalised text.                 *)

blockFound == bank.exists \/ configured # {}
MergeAnswerBlocks ==
  [q \in Questions |-> IF bank.by[q] = "nobody" /\ q \in configured THEN "config" ELSE bank.by[q]]
FindVacancy == {q \in Questions : MergeAnswerBlocks[q] # "nobody"}

UncoveredQuestions(t) == QuestionsOf(t) \ FindVacancy

\* What the bank holds besides the configuration was checked against the
\* options of its question before.
ResolveStoredAnswer(q) == q \in Unfit \cup CodeQuestions => bank.by[q] # "nobody"
resolvedAnswers(t, said) == \A q \in QuestionsOf(t) \ said : ResolveStoredAnswer(q)

\* A block that answers more than this questionnaire asks is refused.
ResolveAnswerBlock(t) == QuestionsOf(t) = FindVacancy /\ resolvedAnswers(t, {})

\* A prompt, an answer or a call of the model for code is refused.
Supported(q) == q \notin CodeQuestions

\* A task stands for its key: a second one with the key is not made.
EnqueueAnswer(t, via, rev) == formKeys' = formKeys \cup {[t |-> t, via |-> via, rev |-> rev]}

\* Mutation: a prompt is taken for the first one of its session.
AwaitsFirst(t, rev) == session[t].rev = rev /\ session[t].status = "pending"

\* SaveReviewPrompt: only over the session this handler knows.
AwaitsPrompt(t, rev) == session[t].rev = rev /\ session[t].status \in {"pending", "answered"}
Prompted(t, q) ==
  [session EXCEPT ![t] = [status |-> "waiting", rev |-> session[t].rev, prompt |-> q]]

-----------------------------------------------------------------------------
(* The capture: the questionnaire is read, then routed.                    *)

\* The application was parked, or the operator asks.  A capture that failed
\* is tried again, one that is done is not.
EnqueueCapture(t) ==
  /\ capture[t] \in {"none", "failed"} /\ capture' = [capture EXCEPT ![t] = "new"]
  /\ UNCHANGED <<configured, session, bank, reviews, formKeys, cp, ra, cv, counters, kept, disturbed>>

EndCapture(t, status) == capture' = [capture EXCEPT ![t] = status] /\ cp' = NoCP

\* recordReview, first write; a session that is there and past its first
\* prompt is left alone, one that asks for code first gets no prompt.
CreateReviewSession(t, q) ==
  /\ session' = IF session[t].status \notin {"none", "pending"} THEN session
                ELSE [session EXCEPT ![t] = [status |-> "pending", rev |-> 1, prompt |-> NoTest]]
  /\ IF session[t].status \in {"none", "pending"} /\ Supported(q)
     THEN cp' = [pc |-> "prompt", t |-> t, q |-> q] /\ capture' = [capture EXCEPT ![t] = "run"]
     ELSE EndCapture(t, "done")

\* The vacancy asks no more.
NothingToCapture(t) ==
  /\ cp.pc = "idle" /\ capture[t] = "new"
  /\ EndCapture(t, "done")
  /\ UNCHANGED <<configured, session, bank, reviews, formKeys, ra, cv, counters, kept, disturbed>>

CaptureVacancyTest(t) ==
  /\ cp.pc = "idle" /\ capture[t] = "new"
  /\ LET missing == UncoveredQuestions(t) IN
     IF missing # {} THEN CreateReviewSession(t, First(t, missing)) /\ UNCHANGED formKeys
     ELSE IF ResolveAnswerBlock(t)
          THEN EnqueueAnswer(t, "capture", 0) /\ EndCapture(t, "done") /\ UNCHANGED session
          ELSE EndCapture(t, "failed") /\ UNCHANGED <<session, formKeys>>
  /\ UNCHANGED <<configured, bank, reviews, ra, cv, counters, kept, disturbed>>

\* Second write; a session cancelled since fails the task.
SaveFirstPrompt ==
  /\ cp.pc = "prompt"
  /\ IF AwaitsPrompt(cp.t, 1) THEN session' = Prompted(cp.t, cp.q) /\ EndCapture(cp.t, "done")
     ELSE EndCapture(cp.t, "failed") /\ UNCHANGED session
  /\ UNCHANGED <<configured, bank, reviews, formKeys, ra, cv, counters, kept, disturbed>>

-----------------------------------------------------------------------------
(* The operator.                                                           *)

\* An answer to the prompt he sees, or to all questions he was shown; in the
\* bank or in the session only.
EnqueueReviewAnswer(t) ==
  /\ session[t].status = "waiting" /\ sentReviews < MaxReviews
  /\ \E single, banked \in BOOLEAN :
       /\ reviews' = reviews \cup
            {[t |-> t, rev |-> session[t].rev, single |-> single, banked |-> banked,
              qs |-> IF single THEN {session[t].prompt} ELSE UncoveredQuestions(t), n |-> sentReviews]}
       /\ kept' = IF banked THEN kept ELSE kept \cup {t}
  /\ sentReviews' = sentReviews + 1
  /\ UNCHANGED <<configured, capture, session, bank, formKeys, cp, ra, cv, bankRuns, stops, disturbed>>

\* The store refuses a session that is cancelled or over, or that moved on.
Cancellable(t) == session[t].status \in {"pending", "waiting", "answered"}

CancelReviewSession(t) ==
  /\ Cancellable(t)
  /\ session' = [session EXCEPT ![t] = [status |-> "cancelled", rev |-> session[t].rev + 1, prompt |-> NoTest]]
  /\ UNCHANGED <<configured, capture, bank, reviews, formKeys, cp, ra, cv, counters, kept, disturbed>>

-----------------------------------------------------------------------------
(* review.answer: the selection is recorded over the session that was      *)
(* read, goes to the bank unless it is kept, and the chain goes on.        *)

reviewTask == CHOOSE r \in ra.task : TRUE
EndReview  == ra' = NoRA /\ reviews' = reviews \ ra.task

\* Mutation: the selection is written without the session that was read.
AppendUnchecked(t, rev) == session[t].status # "none"

\* AppendReviewSelection: only over the waiting session that was read.
AppendReviewSelection(t, rev) == session[t].status = "waiting" /\ session[t].rev = rev

\* One question, or all that are missing, in their order; a stale answer or
\* a batch that answers other questions ends the task.
HandleReviewAnswer(r) ==
  /\ ra.pc = "idle" /\ r \in reviews
  /\ LET missing == IF r.single THEN {session[r.t].prompt} ELSE UncoveredQuestions(r.t)
         first   == IF r.single THEN session[r.t].prompt ELSE First(r.t, missing)
     IN IF AppendReviewSelection(r.t, r.rev) /\ missing # {} /\ r.qs = missing
        THEN /\ ra' = [pc |-> "select", task |-> {r}, rev |-> r.rev, q |-> first,
                       todo |-> missing \ {first}, read |-> Nothing]
             /\ UNCHANGED reviews
        ELSE ra' = NoRA /\ reviews' = reviews \ {r}
  /\ UNCHANGED <<configured, capture, session, bank, formKeys, cp, cv, counters, kept, disturbed>>

NextAnswer == IF ra.todo # {} THEN "prompt" ELSE "continue"

RecordSelection ==
  /\ ra.pc = "select"
  /\ LET t == reviewTask.t IN
     IF AppendReviewSelection(t, ra.rev) /\ Supported(ra.q)
     THEN /\ session' = [session EXCEPT ![t] = [status |-> "answered", rev |-> ra.rev + 1, prompt |-> NoTest]]
          /\ ra' = [ra EXCEPT !.rev = ra.rev + 1, !.pc = IF reviewTask.banked THEN "read" ELSE NextAnswer]
          /\ UNCHANGED reviews
     ELSE EndReview /\ UNCHANGED session
  /\ UNCHANGED <<configured, capture, bank, formKeys, cp, cv, counters, kept, disturbed>>

\* appendRevision: the block is read, later written with the answer in it.
reviewedBlock ==
  /\ ra.pc = "read"
  /\ ra' = [ra EXCEPT !.read = MergeAnswerBlocks, !.pc = "append"]
  /\ UNCHANGED <<configured, capture, session, bank, reviews, formKeys, cp, cv, counters, kept, disturbed>>

\* A revision takes the place of the one before; what the configuration
\* answers is found without it.
AppendAnswerBlockRevision(by) ==
  /\ bank' = [exists |-> TRUE, by |-> by]
  /\ disturbed' = (disturbed \/ \E q \in Questions \ configured : bank.by[q] # "nobody" /\ by[q] = "nobody")

appendRevision ==
  /\ ra.pc = "append"
  /\ AppendAnswerBlockRevision([ra.read EXCEPT ![ra.q] = "human"])
  /\ ra' = [ra EXCEPT !.pc = NextAnswer, !.read = Nothing]
  /\ UNCHANGED <<configured, capture, session, reviews, formKeys, cp, cv, counters, kept>>

\* The next question of a batch; one that asks for code fails the task and
\* leaves the session answered.
PromptNext ==
  /\ ra.pc = "prompt"
  /\ LET t    == reviewTask.t
         next == First(t, ra.todo)
     IN IF AwaitsPrompt(t, ra.rev) /\ Supported(next)
        THEN /\ session' = Prompted(t, next)
             /\ ra' = [ra EXCEPT !.pc = "select", !.q = next, !.todo = ra.todo \ {next}]
             /\ UNCHANGED reviews
        ELSE EndReview /\ UNCHANGED session
  /\ UNCHANGED <<configured, capture, bank, formKeys, cp, cv, counters, kept, disturbed>>

\* The form when nothing is missing, else the next prompt.  Neither without
\* a block, when a stored answer fits no option, or when code is asked next.
continueChain ==
  /\ ra.pc = "continue" /\ reviewTask.single
  /\ LET t == reviewTask.t
         remaining == UncoveredQuestions(t) \ {ra.q}
         next == First(t, remaining)
     IN /\ IF blockFound /\ remaining = {} /\ resolvedAnswers(t, {ra.q})
           THEN EnqueueAnswer(t, "review", ra.rev) ELSE UNCHANGED formKeys
        /\ session' = IF blockFound /\ remaining # {} /\ Supported(next) /\ AwaitsPrompt(t, ra.rev)
                      THEN Prompted(t, next) ELSE session
  /\ EndReview
  /\ UNCHANGED <<configured, capture, bank, cp, cv, counters, kept, disturbed>>

\* What the batch did not answer must still be in the bank, and fit.
continueBatch ==
  /\ ra.pc = "continue" /\ ~reviewTask.single
  /\ LET t == reviewTask.t IN
     IF UncoveredQuestions(t) \subseteq reviewTask.qs /\ resolvedAnswers(t, reviewTask.qs)
     THEN EnqueueAnswer(t, "review", ra.rev) ELSE UNCHANGED formKeys
  /\ EndReview
  /\ UNCHANGED <<configured, capture, session, bank, cp, cv, counters, kept, disturbed>>

-----------------------------------------------------------------------------
(* application.answer_covered: the sessions that wait, from the bank or,   *)
(* if every question it lacks is answered, with the help of the model.     *)

AnswerCovered ==
  /\ cv.pc = "idle" /\ bankRuns < MaxRuns /\ bankRuns' = bankRuns + 1
  /\ \E send \in BOOLEAN :
       cv' = [NoCV EXCEPT !.pc = "next", !.send = send, !.todo = {t \in Tests : session[t].status = "waiting"}]
  /\ UNCHANGED <<configured, capture, session, bank, reviews, formKeys, cp, ra, sentReviews, stops, kept, disturbed>>

Unresolved(t) == UncoveredQuestions(t) \cup {q \in QuestionsOf(t) : ~ResolveStoredAnswer(q)}

\* The answers of the bank, of the model, or none.
PrepareSession(t) ==
  /\ cv.pc = "next" /\ t \in cv.todo
  /\ \/ /\ Unresolved(t) = {}
        /\ cv' = [cv EXCEPT !.pc = "send", !.t = t, !.todo = cv.todo \ {t}]
     \/ /\ Unresolved(t) # {} /\ \A q \in Unresolved(t) : Supported(q)
        /\ cv' = [cv EXCEPT !.pc = "persist", !.t = t, !.todo = cv.todo \ {t}, !.wrote = Unresolved(t)]
     \/ /\ Unresolved(t) # {}
        /\ cv' = [cv EXCEPT !.todo = cv.todo \ {t}]
  /\ UNCHANGED <<configured, capture, session, bank, reviews, formKeys, cp, ra, counters, kept, disturbed>>

\* The revision holds the answers of the model and nothing else.
persistModelAnswers ==
  /\ cv.pc = "persist" /\ cv' = [cv EXCEPT !.pc = "send", !.wrote = {}]
  /\ AppendAnswerBlockRevision([q \in Questions |-> IF q \in cv.wrote THEN "model" ELSE "nobody"])
  /\ UNCHANGED <<configured, capture, session, reviews, formKeys, cp, ra, counters, kept>>

SendPrepared ==
  /\ cv.pc = "send" /\ cv' = [cv EXCEPT !.pc = "next", !.t = NoTest]
  /\ IF cv.send THEN EnqueueAnswer(cv.t, "bank", 0) ELSE UNCHANGED formKeys
  /\ UNCHANGED <<configured, capture, session, bank, reviews, cp, ra, counters, kept, disturbed>>

EndCovered ==
  /\ cv.pc = "next" /\ cv.todo = {} /\ cv' = NoCV
  /\ UNCHANGED <<configured, capture, session, bank, reviews, formKeys, cp, ra, counters, kept, disturbed>>

-----------------------------------------------------------------------------

\* The process stops: every handler is lost, the tasks come back.
StopWorkers ==
  /\ stops < MaxStops /\ stops' = stops + 1 /\ disturbed' = TRUE
  /\ {cp.pc, ra.pc, cv.pc} # {"idle"}
  /\ cp' = NoCP /\ ra' = NoRA /\ cv' = NoCV
  /\ capture' = [t \in Tests |-> IF capture[t] = "run" THEN "new" ELSE capture[t]]
  /\ UNCHANGED <<configured, session, bank, reviews, formKeys, sentReviews, bankRuns, kept>>

ReviewsNext ==
  \/ \E t \in Tests :
       \/ EnqueueCapture(t) \/ CaptureVacancyTest(t) \/ NothingToCapture(t)
       \/ EnqueueReviewAnswer(t) \/ CancelReviewSession(t) \/ PrepareSession(t)
  \/ SaveFirstPrompt
  \/ \E r \in reviews : HandleReviewAnswer(r)
  \/ RecordSelection \/ reviewedBlock \/ appendRevision \/ PromptNext \/ continueChain \/ continueBatch
  \/ AnswerCovered \/ persistModelAnswers \/ SendPrepared \/ EndCovered
  \/ StopWorkers

ReviewsSpec == ReviewsInit /\ [][ReviewsNext]_reviewsVars

-----------------------------------------------------------------------------

(* A session the operator cancelled stays cancelled, although an answer, a *)
(* batch half way or the capture may be at work on what they read before:  *)
(* none of them writes a selection or a prompt into it.                    *)
(* Mutation: the selection is written over any session (AppendUnchecked).  *)
CancelIsFinal ==
  [][\A t \in Tests : session[t].status = "cancelled" => session'[t] = session[t]]_reviewsVars

(* The questions of t all can be answered.                                 *)
Answerable(t) == QuestionsOf(t) \cap (CodeQuestions \cup Unfit) = {}

(* An answered session goes on: once nobody works on it, either its form   *)
(* was enqueued or it waits for the next answer.  The code leaves it       *)
(* answered for ever, without a word to the operator, in the cases set     *)
(* apart here: a question asks for code, or its configured answer fits     *)
(* none of its options; an answer was kept out of the bank; the process    *)
(* stopped, or a revision of the model lost answers.                       *)
(* Mutation: the next prompt is refused by a session that was answered     *)
(* (AwaitsFirst).                                                          *)
AnsweredGoesOn ==
  \A t \in Tests :
    session[t].status = "answered" /\ Answerable(t) /\ ~disturbed /\ t \notin kept
      => \/ \E r \in ra.task : r.t = t
         \/ \E key \in formKeys : key.t = t

=============================================================================
