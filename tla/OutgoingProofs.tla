--------------------------- MODULE OutgoingProofs ---------------------------
(***************************************************************************)
(* What leaves for the platform.  First the responses: over every          *)
(* transport and for any set of vacancies, what a call of one profile      *)
(* knows of the platform's side when it answers.  Then the messages of one *)
(* chat: its invariants, what a step around the commands may do to it, the *)
(* commands of the operator and of the generator, and the reminders.       *)
(***************************************************************************)
EXTENDS HHSubmission, ConversationCommands, FollowUps, WellFoundedInduction, TLAPS

-----------------------------------------------------------------------------
(* The responses.                                                          *)

Words == {"nothing", "asked", "applied", "refused", "unknown", "absent"}
Answers == {"none", "ok", "bare", "said", "form", "no", "captcha", "moved",
            "named", "broken", "lost"}
BeforeRequest == {"popup", "page", "send", "post"}
OnlyMobile == {"vacancy", "tailor", "respond", "restore", "classify", "form"}
Moments == BeforeRequest \cup OnlyMobile \cup {"idle", "ask", "relations", "verify"}
Calls == [pc : Moments, v : Offers \cup {NoOffer}, had : BOOLEAN, left : Nat,
          baseline : SUBSET Offers, restore : BOOLEAN, answer : Answers]

HHTypeOK ==
    /\ transport \in Transports
    /\ responses \subseteq Offers /\ resume \subseteq Offers
    /\ unproved \subseteq Offers
    /\ told \in [Offers -> Words]
    /\ call \in Calls

(* What a call of the profile, the only one, knows at each place.          *)
Knows(c, held, doubts) ==
    /\ c.pc # "idle" => c.v \in Offers
    /\ c.had => c.v \in held
    /\ c.pc \in BeforeRequest /\ c.v \in held => c.had
    /\ c.pc = "verify" /\ transport = "worker" => c.v \in held
    /\ c.pc \in OnlyMobile => transport = "mobile"
    /\ c.pc \in {"restore", "classify"} /\ c.answer \in {"ok", "said"}
          => c.v \in held
    /\ c.pc \in {"restore", "classify"} /\ c.answer = "bare" => c.v \in doubts

HHInv == HHTypeOK /\ AppliedIsHeld /\ Knows(call, responses, unproved)

-----------------------------------------------------------------------------
LEMMA IdleKnows ==
    Idle \in Calls /\ \A held, doubts \in SUBSET Offers : Knows(Idle, held, doubts)
BY DEF Idle, Calls, Moments, BeforeRequest, OnlyMobile, NoOffer, Answers, Knows

LEMMA HHInitInv == HHInit => HHInv
<1> SUFFICES ASSUME HHInit PROVE HHInv
  OBVIOUS
<1>1. transport \in Transports /\ responses = {} /\ call = Idle /\ resume = {}
      /\ unproved = {} /\ told = [v \in Offers |-> "nothing"]
  BY DEF HHInit
<1>2. HHTypeOK BY <1>1, IdleKnows DEF HHTypeOK, Words
<1>3. AppliedIsHeld BY <1>1 DEF AppliedIsHeld
<1>4. Knows(call, responses, unproved) BY <1>1, IdleKnows
<1>5. QED BY <1>2, <1>3, <1>4 DEF HHInv

(* Every step grows the responses by the vacancy of the call at most, and  *)
(* leaves the call at another place or ends it with an answer.             *)
LEMMA GoesOn ==
    ASSUME HHInv, UNCHANGED <<transport, told>>,
           responses \subseteq responses', responses' \subseteq Offers,
           resume' \subseteq Offers,
           unproved \subseteq unproved', unproved' \subseteq Offers,
           call' \in Calls, Knows(call', responses', unproved')
    PROVE  HHInv'
<1>1. HHTypeOK' BY DEF HHInv, HHTypeOK
<1>2. AppliedIsHeld' BY DEF HHInv, AppliedIsHeld
<1>3. Knows(call, responses, unproved)' BY DEF Knows
<1>4. QED BY <1>1, <1>2, <1>3 DEF HHInv

LEMMA Ends ==
    ASSUME HHInv, call.pc # "idle", NEW answer \in Words, Return(answer),
           UNCHANGED transport,
           responses \subseteq responses', responses' \subseteq Offers,
           resume' \subseteq Offers,
           unproved \subseteq unproved', unproved' \subseteq Offers,
           answer = "applied" =>
              call.v \in responses' \/ (transport = "mobile" /\ call.v \in unproved')
    PROVE  HHInv'
<1>1. call.v \in Offers BY DEF HHInv, Knows
<1>2. call' = Idle /\ told' = [told EXCEPT ![call.v] = answer] BY DEF Return
<1>3. /\ told' \in [Offers -> Words] /\ told'[call.v] = answer
      /\ \A v \in Offers \ {call.v} : told'[v] = told[v]
  BY <1>1, <1>2 DEF HHInv, HHTypeOK
<1>4. HHTypeOK' BY <1>2, <1>3, IdleKnows DEF HHInv, HHTypeOK
<1>5. AppliedIsHeld' BY <1>3 DEF HHInv, AppliedIsHeld
<1>6. Knows(call, responses, unproved)'
  <2>1. Knows(Idle, responses', unproved') BY IdleKnows
  <2>2. QED BY <1>2, <2>1 DEF Knows
<1>7. QED BY <1>4, <1>5, <1>6 DEF HHInv

(* Goto keeps all of the call but its place.                               *)
LEMMA Elsewhere ==
    ASSUME HHInv, NEW pc \in Moments, Goto(pc)
    PROVE  /\ told' = told /\ call' \in Calls /\ call'.pc = pc
           /\ call'.v = call.v /\ call'.had = call.had
           /\ call'.answer = call.answer
<1>1. call \in Calls BY DEF HHInv, HHTypeOK
<1>2. QED BY <1>1 DEF Goto, Calls

-----------------------------------------------------------------------------
LEMMA BeginStep ==
    ASSUME HHInv, NEW v \in Offers, NEW pc \in Moments \ {"verify", "restore", "classify"},
           pc \in OnlyMobile => transport = "mobile",
           Begin(v, pc), told' \in [Offers -> Words], told'[v] # "applied",
           \A w \in Offers : told'[w] = "applied" => told[w] = "applied"
    PROVE  HHInv'
<1> DEFINE c == [Idle EXCEPT !.pc = pc, !.v = v, !.had = v \in responses, !.left = 3]
<1>1. /\ call' = c /\ UNCHANGED <<transport, responses, resume>>
      /\ unproved' = unproved \ {v}
  BY DEF Begin
<1>2. /\ c \in Calls /\ c.pc = pc /\ c.v = v /\ c.had = (v \in responses)
      /\ c.answer = "none"
  <2>1. Idle \in Calls BY IdleKnows
  <2>2. Idle.answer = "none" BY DEF Idle
  <2>3. (v \in responses) \in BOOLEAN OBVIOUS
  <2>4. QED BY <2>1, <2>2, <2>3 DEF Calls
<1> HIDE DEF c
<1>3. Knows(c, responses, unproved') BY <1>2 DEF Knows
<1>4. HHTypeOK' BY <1>1, <1>2 DEF HHInv, HHTypeOK
<1>5. AppliedIsHeld' BY <1>1 DEF HHInv, AppliedIsHeld
<1>6. Knows(call, responses, unproved)' BY <1>1, <1>3 DEF Knows
<1>7. QED BY <1>4, <1>5, <1>6 DEF HHInv

LEMMA AskStep ==
    ASSUME HHInv, NEW v \in Offers, SubmitApplication(v) \/ ReconcileApplication(v)
    PROVE  HHInv'
<1>1. CASE SubmitApplication(v)
  <2>1. told' = [told EXCEPT ![v] = "asked"] BY <1>1 DEF SubmitApplication
  <2>2. /\ told' \in [Offers -> Words] /\ told'[v] # "applied"
        /\ \A w \in Offers : told'[w] = "applied" => told[w] = "applied"
    BY <2>1 DEF HHInv, HHTypeOK, Words
  <2>3. \E pc \in {"post", "vacancy", "popup"} :
           Begin(v, pc) /\ (pc = "vacancy" => transport = "mobile")
    BY <1>1 DEF SubmitApplication, HHInv, HHTypeOK, Transports
  <2>4. QED BY <2>2, <2>3, BeginStep DEF Moments, BeforeRequest, OnlyMobile
<1>2. CASE ReconcileApplication(v)
  <2>1. told' = told /\ told[v] = "unknown" BY <1>2 DEF ReconcileApplication
  <2>2. \E pc \in {"relations", "ask"} : Begin(v, pc)
    BY <1>2 DEF ReconcileApplication
  <2>3. told \in [Offers -> Words] BY DEF HHInv, HHTypeOK
  <2>4. QED BY <2>1, <2>2, <2>3, BeginStep DEF Moments, OnlyMobile
<1>3. QED BY <1>1, <1>2

LEMMA QuietEnds ==
    ASSUME HHInv, Quiet, call.pc # "idle", NEW answer \in Words, Return(answer),
           answer = "applied" => call.v \in responses
    PROVE  HHInv'
BY Ends DEF Quiet, HHInv, HHTypeOK

LEMMA GoesToSend ==
    ASSUME HHInv, Quiet, call.pc # "idle", NEW pc \in {"page", "send"}, Goto(pc),
           call.v \in responses => call.had
    PROVE  HHInv'
<1>1. pc \in Moments BY DEF Moments, BeforeRequest, OnlyMobile
<1>2. /\ told' = told /\ call' \in Calls /\ call'.pc = pc /\ call'.v = call.v
      /\ call'.had = call.had /\ call'.answer = call.answer
  BY <1>1, Elsewhere
<1>3. UNCHANGED <<transport, responses, resume, unproved>> BY DEF Quiet
<1>4. Knows(call', responses', unproved')
  BY <1>2, <1>3 DEF HHInv, Knows, BeforeRequest, OnlyMobile
<1>5. QED BY <1>2, <1>3, <1>4, GoesOn DEF HHInv, HHTypeOK

LEMMA AnsweredAlready == ASSUME HHInv, Quiet, call.pc # "idle", AlreadyApplied PROVE HHInv'
BY QuietEnds DEF AlreadyApplied, Words

LEMMA PageStep == ASSUME HHInv, Popup \/ Page PROVE HHInv'
<1>1. Quiet /\ call.pc \in {"popup", "page"} BY DEF Popup, Page
<1>2. call.v \in responses => call.had BY <1>1 DEF HHInv, Knows, BeforeRequest, OnlyMobile
<1>3. \/ Return("refused") \/ Goto("page") \/ AlreadyApplied \/ Goto("send")
  BY DEF Popup, Page, classifyBrowserApplicationGET, preflightBlocker,
         UnfitResume, preflightSays
<1>4. CASE Return("refused") BY <1>1, <1>4, QuietEnds DEF Words
<1>5. CASE Goto("page") \/ Goto("send") BY <1>1, <1>2, <1>5, GoesToSend
<1>6. CASE AlreadyApplied BY <1>1, <1>6, AnsweredAlready
<1>7. QED BY <1>3, <1>4, <1>5, <1>6

LEMMA ReconcileStep == ASSUME HHInv, Ask \/ Relations PROVE HHInv'
<1>1. Quiet /\ call.pc # "idle" BY DEF Ask, Relations
<1>2. \/ Return("unknown") \/ Return("absent")
      \/ call.v \in responses /\ Return("applied")
  BY DEF Ask, Relations, preflightSays, classifyReconciliationFailure
<1>3. QED BY <1>1, <1>2, QuietEnds DEF Words

-----------------------------------------------------------------------------
(* Whatever the request did, it did to the vacancy of the call.            *)
LEMMA SentGrows ==
    ASSUME HHInv, call.pc # "idle", NEW creates \in BOOLEAN, NEW doubtful \in BOOLEAN,
           Sent(creates, doubtful)
    PROVE  /\ UNCHANGED transport /\ resume' \subseteq Offers
           /\ responses \subseteq responses' /\ responses' \subseteq Offers
           /\ responses' \subseteq responses \cup {call.v}
           /\ creates => call.v \in responses'
           /\ ~creates => responses' = responses
           /\ unproved \subseteq unproved' /\ unproved' \subseteq Offers
           /\ doubtful => call.v \in unproved'
BY DEF Sent, HHInv, HHTypeOK, Knows

LEMMA SentEnds ==
    ASSUME HHInv, call.pc # "idle", NEW creates \in BOOLEAN, NEW doubtful \in BOOLEAN,
           Sent(creates, doubtful),
           NEW answer \in Words, Return(answer),
           answer = "applied" => call.v \in responses \/ creates
    PROVE  HHInv'
BY SentGrows, Ends

(* Success without an id is looked up; a worker that saw it was right.     *)
LEMMA GoesToVerify ==
    ASSUME HHInv, call.pc # "idle", NEW creates \in BOOLEAN, NEW doubtful \in BOOLEAN,
           Sent(creates, doubtful),
           Goto("verify"), transport = "worker" => call.v \in responses \/ creates
    PROVE  HHInv'
<1>1. /\ UNCHANGED transport /\ resume' \subseteq Offers
      /\ responses \subseteq responses' /\ responses' \subseteq Offers
      /\ creates => call.v \in responses'
      /\ unproved \subseteq unproved' /\ unproved' \subseteq Offers
  BY SentGrows
<1>2. "verify" \in Moments BY DEF Moments, OnlyMobile
<1>3. /\ told' = told /\ call' \in Calls /\ call'.pc = "verify"
      /\ call'.v = call.v /\ call'.had = call.had
  BY <1>2, Elsewhere
<1>4. Knows(call', responses', unproved')
  BY <1>1, <1>3 DEF HHInv, Knows, BeforeRequest, OnlyMobile
<1>5. QED BY <1>1, <1>3, <1>4, GoesOn

LEMMA PostStep == ASSUME HHInv, Post PROVE HHInv'
<1>1. PICK creates \in BOOLEAN,
           answer \in {"ok", "bare", "said", "no", "captcha", "moved", "named",
                       "broken", "lost"} :
        /\ Responds(answer, creates) /\ Sent(creates, answer = "named")
        /\ Return(CASE answer = "ok" -> "applied"
                    [] answer \in {"bare", "lost"} -> "unknown"
                    [] OTHER -> classifyApplicationFailure(answer))
  BY DEF Post
<1>2. call.pc # "idle" BY DEF Post
<1>3. \/ answer \in {"ok", "said"} /\ Return("applied")
      \/ Return("unknown") \/ Return("refused")
  BY <1>1 DEF classifyApplicationFailure
<1>4. answer \in {"ok", "said"} => call.v \in responses \/ creates
  BY <1>1 DEF Responds
<1>5. QED BY <1>1, <1>2, <1>3, <1>4, SentEnds DEF Words

LEMMA PostFormStep == ASSUME HHInv, PostForm PROVE HHInv'
<1>1. PICK creates \in BOOLEAN,
           answer \in {"ok", "bare", "said", "form", "no", "captcha", "moved",
                       "named", "broken", "lost"} :
        /\ Responds(answer, creates) /\ Sent(creates, answer = "named")
        /\ CASE answer = "ok"          -> Return("applied")
             [] answer = "bare"        -> Goto("verify")
             [] answer \in ServerError -> Return("unknown")
             [] OTHER                  -> Return(classifyPayload(answer))
  BY DEF PostForm
<1>2. call.pc # "idle" /\ transport = "browser" BY DEF PostForm
<1>3. \/ answer \in {"ok", "said"} /\ Return("applied")
      \/ Return("unknown") \/ Return("refused") \/ Goto("verify")
  BY <1>1 DEF classifyPayload, ServerError
<1>4. answer \in {"ok", "said"} => call.v \in responses \/ creates
  BY <1>1 DEF Responds
<1>5. CASE Goto("verify") BY <1>1, <1>2, <1>5, GoesToVerify
<1>6. QED BY <1>1, <1>2, <1>3, <1>4, <1>5, SentEnds DEF Words

LEMMA WorkerStep == ASSUME HHInv, WorkerApply PROVE HHInv'
<1>1. PICK creates \in BOOLEAN, answer \in WorkerAnswers :
        /\ IF answer \in {"ok", "bare"} THEN creates = (call.v \notin responses)
           ELSE creates => call.v \notin responses /\ answer \in {"unclear", "lost"}
        /\ Sent(creates, FALSE)
        /\ CASE answer = "ok"      -> Return("applied")
             [] answer = "bare"    -> Goto("verify")
             [] answer = "unclear" -> Return("unknown")
             [] answer = "lost"    -> Return(OperationError)
             [] OTHER              -> Return("refused")
  BY DEF WorkerApply
<1>2. call.pc # "idle" BY DEF WorkerApply
<1>3. \/ answer = "ok" /\ Return("applied")
      \/ answer = "bare" /\ Goto("verify")
      \/ Return("unknown") \/ Return("refused")
  <2>1. CASE answer = "ok" BY <1>1, <2>1
  <2>2. CASE answer = "bare" BY <1>1, <2>2
  <2>3. CASE answer = "unclear" BY <1>1, <2>3
  <2>4. CASE answer = "lost" BY <1>1, <2>4 DEF OperationError
  <2>5. CASE answer \in {"form", "no"} BY <1>1, <2>5
  <2>6. QED BY <2>1, <2>2, <2>3, <2>4, <2>5 DEF WorkerAnswers
<1>4. answer \in {"ok", "bare"} => call.v \in responses \/ creates BY <1>1
<1>5. CASE answer = "bare" /\ Goto("verify")
  BY <1>1, <1>2, <1>4, <1>5, GoesToVerify
<1>6. QED BY <1>1, <1>2, <1>3, <1>4, <1>5, SentEnds DEF Words

LEMMA VerifyStep == ASSUME HHInv, Verify PROVE HHInv'
<1>1. Quiet /\ call.pc = "verify" BY DEF Verify
<1>2. \/ call.v \in responses /\ Return("applied")
      \/ GiveUp
      \/ call.left > 1 /\ call' = [call EXCEPT !.left = @ - 1] /\ told' = told
  BY DEF Verify
<1>3. CASE GiveUp
  BY <1>1, <1>3, QuietEnds DEF GiveUp, Words, HHInv, Knows
<1>4. CASE call.left > 1 /\ call' = [call EXCEPT !.left = @ - 1] /\ told' = told
  <2>1. call \in Calls BY DEF HHInv, HHTypeOK
  <2>2. /\ call' \in Calls /\ call'.pc = call.pc /\ call'.v = call.v
        /\ call'.had = call.had /\ call'.answer = call.answer
    BY <1>4, <2>1 DEF Calls
  <2>3. UNCHANGED <<transport, responses, resume, unproved>> BY <1>1 DEF Quiet
  <2>4. Knows(call', responses', unproved') BY <2>2, <2>3 DEF HHInv, Knows
  <2>5. QED BY <1>4, <2>2, <2>3, <2>4, GoesOn DEF HHInv, HHTypeOK
<1>5. QED BY <1>1, <1>2, <1>3, <1>4, QuietEnds DEF Words

-----------------------------------------------------------------------------
(* The steps of the mobile API.                                            *)
LEMMA VacancyStep == ASSUME HHInv, Vacancy PROVE HHInv'
<1>1. Quiet /\ call.pc = "vacancy" BY DEF Vacancy
<1>2. \/ Return("refused")
      \/ /\ call' = [call EXCEPT !.pc = "tailor", !.baseline = resume]
         /\ told' = told
  BY DEF Vacancy
<1>3. CASE Return("refused") BY <1>1, <1>3, QuietEnds DEF Words
<1>4. CASE /\ call' = [call EXCEPT !.pc = "tailor", !.baseline = resume]
           /\ told' = told
  <2>1. call \in Calls /\ resume \subseteq Offers BY DEF HHInv, HHTypeOK
  <2>2. /\ call' \in Calls /\ call'.pc = "tailor" /\ call'.v = call.v
        /\ call'.had = call.had
    BY <1>4, <2>1 DEF Calls, Moments, OnlyMobile
  <2>3. UNCHANGED <<transport, responses, resume, unproved>> BY <1>1 DEF Quiet
  <2>4. Knows(call', responses', unproved')
    BY <1>1, <2>2, <2>3 DEF HHInv, Knows, BeforeRequest, OnlyMobile
  <2>5. QED BY <1>4, <2>2, <2>3, <2>4, GoesOn DEF HHInv, HHTypeOK
<1>5. QED BY <1>2, <1>3, <1>4

LEMMA TailorStep == ASSUME HHInv, Tailor PROVE HHInv'
<1>1. PICK found \in BOOLEAN :
         call' = [call EXCEPT !.pc = "respond", !.restore = found]
  BY DEF Tailor
<1>2. /\ call.pc = "tailor" /\ UNCHANGED <<transport, responses, told, unproved>>
      /\ resume' \in {resume, call.baseline \cup {call.v}}
  BY DEF Tailor
<1>3. call \in Calls BY DEF HHInv, HHTypeOK
<1>4. /\ call' \in Calls /\ call'.pc = "respond" /\ call'.v = call.v
      /\ call'.had = call.had
  BY <1>1, <1>3 DEF Calls, Moments, OnlyMobile
<1>5. Knows(call', responses', unproved')
  BY <1>2, <1>4 DEF HHInv, Knows, BeforeRequest, OnlyMobile
<1>6. resume' \subseteq Offers
  BY <1>2 DEF HHInv, HHTypeOK, Knows, Calls
<1>7. QED BY <1>2, <1>4, <1>5, <1>6, GoesOn DEF HHInv, HHTypeOK

LEMMA RespondStep == ASSUME HHInv, Respond PROVE HHInv'
<1>1. PICK creates \in BOOLEAN,
           answer \in {"ok", "bare", "said", "form", "no", "captcha", "moved",
                       "named", "broken", "lost"} :
        /\ Responds(answer, creates)
        /\ Sent(creates, answer \in {"bare", "named"}) /\ told' = told
        /\ \/ /\ answer = "captcha" /\ call.left > 1
              /\ call' = [call EXCEPT !.left = @ - 1]
           \/ call' = [call EXCEPT !.pc = "restore", !.answer = answer]
  BY DEF Respond
<1>2. call.pc = "respond" /\ call \in Calls BY DEF Respond, HHInv, HHTypeOK
<1>3. /\ UNCHANGED transport /\ resume' \subseteq Offers
      /\ responses \subseteq responses' /\ responses' \subseteq Offers
      /\ creates => call.v \in responses'
      /\ unproved \subseteq unproved' /\ unproved' \subseteq Offers
      /\ answer = "bare" => call.v \in unproved'
  BY <1>1, <1>2 DEF Sent, HHInv, HHTypeOK, Knows
<1>4. answer \in {"ok", "said"} => call.v \in responses'
  BY <1>1, <1>3 DEF Responds
<1>5. CASE /\ answer = "captcha" /\ call.left > 1
           /\ call' = [call EXCEPT !.left = @ - 1]
  <2>1. /\ call' \in Calls /\ call'.pc = call.pc /\ call'.v = call.v
        /\ call'.had = call.had
    BY <1>2, <1>5 DEF Calls
  <2>2. call'.pc = "respond" /\ call.v \in Offers
        /\ (call.had => call.v \in responses) /\ transport' = "mobile"
    BY <1>2, <1>3, <2>1 DEF HHInv, Knows, OnlyMobile
  <2>3. Knows(call', responses', unproved')
    BY <1>3, <2>1, <2>2 DEF Knows, BeforeRequest, OnlyMobile
  <2>4. QED BY <1>1, <1>3, <2>1, <2>3, GoesOn
<1>6. CASE call' = [call EXCEPT !.pc = "restore", !.answer = answer]
  <2>1. answer \in Answers /\ "restore" \in Moments BY DEF Answers, Moments, OnlyMobile
  <2>2. /\ call' \in Calls /\ call'.pc = "restore" /\ call'.v = call.v
        /\ call'.had = call.had /\ call'.answer = answer
    BY <1>2, <1>6, <2>1 DEF Calls
  <2>3. Knows(call', responses', unproved')
    BY <1>2, <1>3, <1>4, <2>2 DEF HHInv, Knows, BeforeRequest, OnlyMobile
  <2>4. QED BY <1>1, <1>3, <2>2, <2>3, GoesOn
<1>7. QED BY <1>1, <1>5, <1>6

LEMMA RestoreStep == ASSUME HHInv, Restore PROVE HHInv'
<1>1. /\ call.pc = "restore" /\ Goto("classify")
      /\ UNCHANGED <<transport, responses, unproved>>
      /\ resume' \in {resume, call.baseline}
  BY DEF Restore, restoreResume
<1>2. "classify" \in Moments BY DEF Moments, OnlyMobile
<1>3. /\ told' = told /\ call' \in Calls /\ call'.pc = "classify"
      /\ call'.v = call.v /\ call'.had = call.had /\ call'.answer = call.answer
  BY <1>1, <1>2, Elsewhere
<1>4. Knows(call', responses', unproved')
  BY <1>1, <1>3 DEF HHInv, Knows, BeforeRequest, OnlyMobile
<1>5. resume' \subseteq Offers BY <1>1 DEF HHInv, HHTypeOK, Calls
<1>6. QED BY <1>1, <1>3, <1>4, <1>5, GoesOn DEF HHInv, HHTypeOK

LEMMA ClassifyStep == ASSUME HHInv, classifyMobileApplicationError PROVE HHInv'
<1>1. call.pc = "classify" /\ UNCHANGED <<transport, responses, resume, unproved>>
  BY DEF classifyMobileApplicationError
<1>2. call.answer \in Answers BY DEF HHInv, HHTypeOK, Calls
<1>3. \/ call.answer \in {"ok", "bare", "said"} /\ Return("applied")
      \/ Return("unknown") \/ Return("refused") \/ Goto("form")
  <2>1. CASE call.answer \in {"ok", "bare", "said"}
    BY <2>1 DEF classifyMobileApplicationError
  <2>2. CASE call.answer \in {"broken", "lost"}
    BY <2>2 DEF classifyMobileApplicationError
  <2>3. CASE call.answer \in {"form", "named", "captcha"}
    BY <2>3 DEF classifyMobileApplicationError
  <2>4. CASE call.answer \in {"none", "no", "moved"}
    BY <2>4 DEF classifyMobileApplicationError
  <2>5. QED BY <1>2, <2>1, <2>2, <2>3, <2>4 DEF Answers
<1>4. /\ responses \subseteq responses' /\ responses' \subseteq Offers
      /\ resume' \subseteq Offers
      /\ unproved \subseteq unproved' /\ unproved' \subseteq Offers
  BY <1>1 DEF HHInv, HHTypeOK
<1>5. CASE call.answer \in {"ok", "bare", "said"} /\ Return("applied")
  <2>1. \/ call.v \in responses'
        \/ transport = "mobile" /\ call.v \in unproved
    BY <1>1, <1>5 DEF HHInv, Knows, OnlyMobile
  <2>2. QED BY <1>1, <1>4, <1>5, <2>1, Ends DEF Words
<1>6. CASE Return("unknown") \/ Return("refused")
  BY <1>1, <1>4, <1>6, Ends DEF Words
<1>7. CASE Goto("form")
  <2>1. "form" \in Moments BY DEF Moments, OnlyMobile
  <2>2. /\ told' = told /\ call' \in Calls /\ call'.pc = "form"
        /\ call'.v = call.v /\ call'.had = call.had
    BY <1>7, <2>1, Elsewhere
  <2>3. Knows(call', responses', unproved')
    BY <1>1, <2>2 DEF HHInv, Knows, BeforeRequest, OnlyMobile
  <2>4. QED BY <1>1, <1>4, <2>2, <2>3, GoesOn
<1>8. QED BY <1>3, <1>5, <1>6, <1>7

LEMMA QuestionnaireStep == ASSUME HHInv, answerQuestionnaire PROVE HHInv'
<1>1. PICK creates \in BOOLEAN :
        /\ Sent(creates, FALSE)
        /\ \/ call.v \in responses' /\ Return("applied")
           \/ Return("refused")
  BY DEF answerQuestionnaire
<1>2. call.pc # "idle" BY DEF answerQuestionnaire
<1>3. /\ UNCHANGED transport /\ resume' \subseteq Offers
      /\ responses \subseteq responses' /\ responses' \subseteq Offers
      /\ unproved \subseteq unproved' /\ unproved' \subseteq Offers
  BY <1>1, <1>2, SentGrows
<1>4. QED BY <1>1, <1>2, <1>3, Ends DEF Words

LEMMA StopStep == ASSUME HHInv, StopSubmission PROVE HHInv'
<1>1. /\ call.pc # "idle" /\ Return("unknown")
      /\ UNCHANGED <<transport, responses, resume, unproved>>
  BY DEF StopSubmission, Return
<1>2. QED BY <1>1, Ends DEF HHInv, HHTypeOK, Words

LEMMA HHStays ==
    ASSUME HHInv, UNCHANGED <<transport, responses, resume, told, call, unproved>> PROVE HHInv'
BY DEF HHInv, HHTypeOK, AppliedIsHeld, Knows

LEMMA HHStepInv == HHInv /\ [HHNext]_hhVars => HHInv'
<1> SUFFICES ASSUME HHInv, [HHNext]_hhVars PROVE HHInv'
  OBVIOUS
<1>1. CASE UNCHANGED hhVars BY <1>1, HHStays DEF hhVars
<1>2. CASE CaptchaSolved BY <1>2, HHStays DEF CaptchaSolved
<1>3. CASE HHNext /\ ~CaptchaSolved
  BY <1>3, AskStep, PageStep, ReconcileStep, PostStep, PostFormStep, WorkerStep,
     VerifyStep, VacancyStep, TailorStep, RespondStep, RestoreStep, ClassifyStep,
     QuestionnaireStep, StopStep DEF HHNext
<1>4. QED BY <1>1, <1>2, <1>3

(* Where a call of the profile is tells what it knows of the platform.     *)
THEOREM CallsKnow == HHSpec => []HHInv
BY HHInitInv, HHStepInv, PTL DEF HHSpec

(* What is recorded as applied, the platform has accepted, over every      *)
(* transport and for any number of vacancies, but for a bare success of    *)
(* the mobile API.                                                         *)
THEOREM AppliedHeld == HHSpec => []AppliedIsHeld
<1>1. HHInv => AppliedIsHeld BY DEF HHInv
<1>2. QED BY <1>1, CallsKnow, PTL

-----------------------------------------------------------------------------
(* Refusals: a step that answers the call with one is taken before its     *)
(* request, when a response can only be an old one, or the request created *)
(* nothing, or its failed answer named an error.                           *)
LEMMA ReturnsOne ==
    ASSUME HHInv, call.pc # "idle", NEW answer, NEW other,
           Return(answer), Return(other)
    PROVE  answer = other
<1>1. told \in [Offers -> Words] /\ call.v \in Offers
  BY DEF HHInv, HHTypeOK, Knows
<1>2. told'[call.v] = answer /\ told'[call.v] = other BY <1>1 DEF Return
<1>3. QED BY <1>2

LEMMA RequestRefusal ==
    ASSUME HHInv, Post \/ PostForm, Return("refused")
    PROVE  responses' = responses \/ call.v \in unproved'
<1>1. call.pc # "idle" BY DEF Post, PostForm
<1>2. ASSUME NEW answer, Return(answer) PROVE answer = "refused"
  BY <1>1, <1>2, ReturnsOne
<1>3. CASE Post
  <2>1. PICK creates \in BOOLEAN,
             answer \in {"ok", "bare", "said", "no", "captcha", "moved", "named",
                       "broken", "lost"} :
          /\ Responds(answer, creates) /\ Sent(creates, answer = "named")
          /\ Return(CASE answer = "ok" -> "applied"
                      [] answer \in {"bare", "lost"} -> "unknown"
                      [] OTHER -> classifyApplicationFailure(answer))
    BY <1>3 DEF Post
  <2>2. answer \in {"no", "captcha", "moved", "named"}
    BY <1>2, <2>1 DEF classifyApplicationFailure
  <2>3. ~creates \/ answer = "named" BY <2>1, <2>2 DEF Responds
  <2>4. QED BY <1>1, <2>1, <2>3, SentGrows
<1>4. CASE PostForm
  <2>1. PICK creates \in BOOLEAN,
             answer \in {"ok", "bare", "said", "form", "no", "captcha", "moved",
                         "named", "broken", "lost"} :
          /\ Responds(answer, creates) /\ Sent(creates, answer = "named")
          /\ CASE answer = "ok"          -> Return("applied")
               [] answer = "bare"        -> Goto("verify")
               [] answer \in ServerError -> Return("unknown")
               [] OTHER                  -> Return(classifyPayload(answer))
    BY <1>4 DEF PostForm
  <2>2. call'.pc = "idle" BY DEF Return, Idle
  <2>3. ~Goto("verify") BY <2>2, Elsewhere DEF Moments
  <2>4. answer \in {"form", "no", "captcha", "named"}
    BY <1>2, <2>1, <2>3 DEF classifyPayload, ServerError
  <2>5. ~creates \/ answer = "named" BY <2>1, <2>4 DEF Responds
  <2>6. QED BY <1>1, <2>1, <2>5, SentGrows
<1>5. QED BY <1>3, <1>4

LEMMA RefusedStep ==
    ASSUME HHInv, HHNext, transport \in {"api", "browser"}, NEW v \in Offers,
           told'[v] = "refused", told[v] # "refused", v \in responses'
    PROVE  call.had \/ v \in unproved'
<1>1. ASSUME NEW w \in Offers, SubmitApplication(w) \/ ReconcileApplication(w)
      PROVE  FALSE
  BY <1>1 DEF SubmitApplication, ReconcileApplication, HHInv, HHTypeOK
<1>2. ASSUME call.pc # "idle", NEW answer, Return(answer)
      PROVE  v = call.v /\ answer = "refused"
  BY <1>2 DEF Return, HHInv, HHTypeOK, Knows
<1>3. CASE Popup \/ Page
  <2>1. Quiet /\ call.pc \in {"popup", "page"} BY <1>3 DEF Popup, Page
  <2>2. call.v \in responses => call.had
    BY <2>1 DEF HHInv, Knows, BeforeRequest
  <2>3. \E answer \in Words : Return(answer)
    BY <1>3 DEF Popup, Page, Goto, classifyBrowserApplicationGET, AlreadyApplied,
       preflightBlocker, UnfitResume, preflightSays, Words
  <2>4. QED BY <1>2, <2>1, <2>2, <2>3 DEF Quiet
<1>4. CASE Ask \/ Relations
  <2>1. Quiet /\ call.pc # "idle" BY <1>4 DEF Ask, Relations
  <2>2. Return("unknown") \/ Return("absent") \/ Return("applied")
    BY <1>4 DEF Ask, Relations, preflightSays, classifyReconciliationFailure
  <2>3. QED BY <1>2, <2>1, <2>2
<1>5. CASE Post \/ PostForm
  <2>1. call.pc \in BeforeRequest /\ call.pc # "idle"
    BY <1>5 DEF Post, PostForm, BeforeRequest
  <2>2. told' # told BY DEF HHInv
  <2>3. \E answer \in Words : Return(answer)
    BY <1>5, <2>2 DEF Post, PostForm, Goto, classifyApplicationFailure,
       classifyPayload, ServerError, Words
  <2>4. v = call.v /\ Return("refused") BY <1>2, <2>1, <2>3
  <2>5. responses' = responses \/ call.v \in unproved'
    BY <1>5, <2>4, RequestRefusal
  <2>6. QED BY <2>1, <2>4, <2>5 DEF HHInv, Knows
<1>6. CASE Verify
  <2>1. call.pc # "idle" BY <1>6 DEF Verify
  <2>2. told' # told BY DEF HHInv
  <2>3. Return("applied") \/ Return("unknown")
    BY <1>6, <2>2 DEF Verify, GiveUp
  <2>4. QED BY <1>2, <2>1, <2>3
<1>7. CASE StopSubmission
  <2>1. call.pc # "idle" /\ Return("unknown") BY <1>7 DEF StopSubmission, Return
  <2>2. QED BY <1>2, <2>1
<1>8. CASE \/ WorkerApply \/ Vacancy \/ Tailor \/ Respond \/ Restore
           \/ classifyMobileApplicationError \/ answerQuestionnaire
  BY <1>8 DEF WorkerApply, Vacancy, Tailor, Respond, Restore,
     classifyMobileApplicationError, answerQuestionnaire, HHInv, Knows, OnlyMobile
<1>9. CASE CaptchaSolved BY <1>9 DEF CaptchaSolved
<1>10. QED BY <1>1, <1>3, <1>4, <1>5, <1>6, <1>7, <1>8, <1>9 DEF HHNext

(* Over the public API and the POST of the form a refusal means that this  *)
(* call sent nothing, unless a failed answer named an error: the place in  *)
(* the budget may be given back and the vacancy tried again.               *)
THEOREM RefusalsSendNothing == HHSpec => RefusalSentNothing
<1>1. HHInv /\ [HHNext]_hhVars =>
        [\A v \in Offers :
           told'[v] = "refused" /\ told[v] # "refused"
           /\ transport \in {"api", "browser"} /\ v \in responses'
           => call.had \/ v \in unproved']_hhVars
  <2> SUFFICES ASSUME HHInv, HHNext, NEW v \in Offers, told'[v] = "refused",
                      told[v] # "refused", transport \in {"api", "browser"},
                      v \in responses'
               PROVE  call.had \/ v \in unproved'
    OBVIOUS
  <2>1. QED BY RefusedStep
<1>2. QED BY <1>1, CallsKnow, PTL DEF HHSpec, RefusalSentNothing

-----------------------------------------------------------------------------
(* One chat, and one row of it. *)
AllKeys == {Human} \cup CommandKeys \cup ({"follow"} \X FollowUpIds)
Messages == [from : {"employer", "account"}, key : AllKeys,
             kind : Kinds \cup {"text"}, at : Nat \ {0}]
Places == {"idle", "read", "append", "cancel", "link", "answer", "reply", "present"}
Reads == [pc : Places, at : Nat, n : Nat, badge : BOOLEAN, open : BOOLEAN,
          gen : Nat, appl : BOOLEAN]
InHand == {"refresh", "present", "link", "append", "check", "post", "store", "mark"}
Commands == [pc : {"idle", "told"} \cup InHand, key : AllKeys, read : Reads, seen : Nat]
Rows == [there : BOOLEAN, gen : {0, 1}, open : BOOLEAN, unread : BOOLEAN,
         linked : BOOLEAN, readAt : Nat, updatedAt : Nat]

ChatTypeOK ==
    /\ moment \in 1 .. LastMoment /\ active \in BOOLEAN /\ badge \in BOOLEAN /\ appl \in BOOLEAN
    /\ log \in Seq(Messages)
    /\ conv \in Rows
    /\ disc \in Reads /\ sync \in Reads /\ lane \in Commands

LogOK ==
    /\ \A i, j \in DOMAIN log : i < j => log[i].at < log[j].at
    /\ \A i \in DOMAIN log : log[i].at <= moment
    /\ \A i \in DOMAIN log : log[i].key # Human => log[i].from = "account"
    /\ \A i, j \in DOMAIN log : i # j /\ log[i].key = log[j].key => log[i].key = Human

Positions ==
    /\ known \subseteq DOMAIN log
    /\ disc.n <= Len(log) /\ sync.n <= Len(log) /\ lane.read.n <= Len(log) /\ lane.seen <= Len(log)
    /\ disc.pc # "idle" => disc.n >= 1
    /\ conv.there => conv.gen = 1
    /\ lane.pc \in InHand => conv.gen = 1
    /\ lane.pc \notin InHand => lane.key = Human

ChatInv == ChatTypeOK /\ LogOK /\ Positions

(* Commands *)
Asked(k) ==
    /\ k[1] = "answer" => \E i \in DOMAIN log : log[i].at = k[2] /\ log[i].kind = "buttons"
    /\ k[1] = "reply" => \E i \in DOMAIN log : log[i].at = k[2] /\ log[i].kind = "question"

Asking(k) == k \in CommandKeys /\ Asked(k)

TasksAsked ==
    /\ ctask \in [CommandKeys -> {"none", "new", "running", "over"}]
    /\ live \in [Requests -> {"idle", "store"}]
    /\ \A k \in CommandKeys : ctask[k] # "none" => Asked(k)
    /\ \A k \in AllKeys : Delivered(k) => k = Human \/ Asking(k)
    /\ lane.pc \in InHand => lane.key \in CommandKeys /\ ctask[lane.key] # "none"

Listened ==
    /\ lane.pc \in {"present", "link", "append"} => lane.seen <= lane.read.n
    /\ lane.pc = "check" /\ conv.there => 1 .. lane.seen \subseteq known
    /\ lane.pc = "post" /\ IsReply =>
          \A i \in 1 .. lane.seen : log[i].at <= lane.key[2]

CommandInv == ChatInv /\ TasksAsked /\ Listened

(* Follow-ups *)
FollowUpRows ==
    [status : {"none", "scheduled", "queued", "sent", "cancelled", "expired"},
     anchor : Nat, runAt : Nat, deadline : Nat]
FollowUpTasks == [status : {"none", "new", "running", "over"}, availableAt : Nat, deadline : Nat]

FollowTypeOK ==
    /\ fup \in [FollowUpIds -> FollowUpRows]
    /\ ftask \in [FollowUpIds -> FollowUpTasks]
    /\ lane.pc \in InHand => lane.key \in {"follow"} \X FollowUpIds

DueInv ==
    /\ \A f \in FollowUpIds : fup[f].status = "queued" => fup[f].runAt <= moment
    /\ lane.pc = "post" =>
          /\ fup[Ours].runAt <= moment /\ fup[Ours].status # "scheduled"
          /\ fup[Ours].status = "none" => ~conv.there

SpacedInv ==
    /\ lane.pc \in {"present", "link", "append"} => \A i \in Reminders : i <= lane.read.n
    /\ lane.pc = "check" /\ conv.there => Reminders \subseteq known
    /\ lane.pc = "post" => \A i \in Reminders : log[i].at + Cooldown <= moment
    /\ FollowUpsSpaced

FollowInv == ChatInv /\ FollowTypeOK /\ DueInv /\ SpacedInv

-----------------------------------------------------------------------------
(* A set of numbers below a bound has a greatest and a least element.  The  *)
(* bounds of the set are a set of numbers, and have a least one.            *)
Below == {p \in Nat \X Nat : p[1] < p[2]}

LEMMA BelowWellFounded == IsWellFoundedOn(Below, Nat)
<1>1. Below = OpToRel(<, Nat) BY DEF Below, OpToRel
<1>2. QED BY <1>1, NatLessThanWellFounded

LEMMA LeastOf ==
    ASSUME NEW S \in SUBSET Nat, S # {}
    PROVE  \E x \in S : \A y \in S : x <= y
<1>1. PICK x \in S : \A y \in S : ~(<<y, x>> \in Below) BY BelowWellFounded, WFMin
<1>2. \A y \in S : ~(y < x) BY <1>1 DEF Below
<1>3. QED BY <1>1, <1>2

LEMMA MinIs ==
    ASSUME NEW S \in SUBSET Nat, S # {}
    PROVE  Min(S) \in S /\ \A y \in S : Min(S) <= y
BY LeastOf DEF Min

LEMMA MaxIs ==
    ASSUME NEW S \in SUBSET Nat, S # {}, NEW b \in Nat, \A y \in S : y <= b
    PROVE  Max(S) \in S /\ \A y \in S : y <= Max(S)
<1> DEFINE B == {m \in Nat : \A y \in S : y <= m}
<1>1. B \in SUBSET Nat /\ b \in B OBVIOUS
<1>2. PICK m \in B : \A n \in B : m <= n BY <1>1, LeastOf
<1>3. m \in S
  <2>1. SUFFICES ASSUME m \notin S PROVE FALSE OBVIOUS
  <2>2. \A y \in S : y <= m - 1 BY <2>1, <1>2
  <2>3. m - 1 \in Nat
    <3>1. PICK y \in S : TRUE OBVIOUS
    <3>2. y \in Nat /\ m \in Nat /\ y <= m - 1 BY <2>2
    <3>3. QED BY <3>2
  <2>4. m - 1 \in B BY <2>2, <2>3
  <2>5. QED BY <2>4, <1>2
<1>4. \E x \in S : \A y \in S : x >= y BY <1>2, <1>3
<1>5. Max(S) \in S /\ \A y \in S : Max(S) >= y BY <1>4 DEF Max
<1>6. QED BY <1>5

-----------------------------------------------------------------------------
(* How a step moves the chat.  The platform gets at most one message, later *)
(* than all others; a key that was delivered is not delivered again.        *)
LogGrows(allowed) ==
    /\ moment' \in 1 .. LastMoment /\ moment <= moment'
    /\ \/ log' = log
       \/ \E m \in Messages :
             /\ m.at = moment /\ CanWrite /\ log' = Append(log, m)
             /\ m.key \in allowed
             /\ m.key # Human => m.from = "account" /\ ~Delivered(m.key)

(* The row is edited, created or removed; a row that is gone stays away.    *)
RowEdited == conv' \in Rows /\ conv'.there = conv.there /\ conv'.gen = conv.gen

RowMoves ==
    /\ conv' \in Rows
    /\ conv'.there => conv'.gen = 1
    /\ conv.gen = 1 => conv'.gen = 1
    /\ known' \subseteq DOMAIN log'
    /\ conv.gen = 1 /\ conv'.there => conv.there /\ known \subseteq known'

ReadersMove ==
    /\ active' \in BOOLEAN /\ badge' \in BOOLEAN /\ appl' \in BOOLEAN
    /\ disc' \in Reads /\ sync' \in Reads
    /\ disc'.n <= Len(log') /\ sync'.n <= Len(log')
    /\ disc'.pc # "idle" => disc'.n >= 1

(* The read of a command, step by step.                                     *)
SameCommand == lane'.key = lane.key /\ lane'.seen = lane.seen

LaneMoves ==
    /\ lane' \in Commands
    /\ \/ lane' = lane
       \/ lane.pc \in {"idle", "told"} /\ lane'.pc \in {"idle", "told"} /\ lane'.key = Human
       \/ /\ lane.pc = "refresh" /\ lane'.pc = "present" /\ SameCommand
          /\ lane'.read.n = Len(log) /\ log' = log
       \/ /\ lane.pc \in {"present", "link"} /\ lane'.pc \in {"link", "append"} /\ SameCommand
          /\ lane'.read.n = lane.read.n /\ log' = log
       \/ /\ lane.pc = "append" /\ lane'.pc = "check" /\ SameCommand
          /\ lane'.read.n = 0 /\ log' = log
          /\ conv.there /\ 1 .. lane.read.n \subseteq known'
    /\ lane'.seen <= Len(log') /\ lane'.read.n <= Len(log')

EnvMoves == LogGrows({Human}) /\ RowMoves /\ ReadersMove /\ LaneMoves

LEMMA LogFacts ==
    ASSUME ChatTypeOK
    PROVE  /\ Len(log) \in Nat /\ DOMAIN log = 1 .. Len(log)
           /\ \A i \in DOMAIN log : log[i] \in Messages
           /\ \A m \in Messages :
                 /\ Append(log, m) \in Seq(Messages)
                 /\ Len(Append(log, m)) = Len(log) + 1
                 /\ DOMAIN Append(log, m) = 1 .. Len(log) + 1
                 /\ \A i \in DOMAIN log : Append(log, m)[i] = log[i]
                 /\ Append(log, m)[Len(log) + 1] = m
BY DEF ChatTypeOK

LEMMA LogKept ==
    ASSUME ChatTypeOK, LogOK, NEW allowed, LogGrows(allowed)
    PROVE  /\ LogOK' /\ log' \in Seq(Messages)
           /\ Len(log) <= Len(log') /\ DOMAIN log \subseteq DOMAIN log'
           /\ \A i \in DOMAIN log : log'[i] = log[i]
           /\ \A i \in DOMAIN log' \ DOMAIN log :
                 log'[i].key \in allowed /\ log'[i].at = moment
<1>1. CASE log' = log
  <2>1. LogOK' BY <1>1, LogFacts DEF LogOK, LogGrows, ChatTypeOK, Messages
  <2>2. QED BY <1>1, <2>1, LogFacts DEF ChatTypeOK
<1>2. CASE log' # log
  <2>1. PICK m \in Messages :
             /\ m.at = moment /\ CanWrite /\ log' = Append(log, m)
             /\ m.key \in allowed
             /\ m.key # Human => m.from = "account" /\ ~Delivered(m.key)
    BY <1>2 DEF LogGrows
  <2> DEFINE n == Len(log)
  <2>2. /\ n \in Nat /\ DOMAIN log = 1 .. n /\ DOMAIN log' = 1 .. n + 1 /\ Len(log') = n + 1
        /\ log' \in Seq(Messages)
        /\ \A i \in 1 .. n : log'[i] = log[i]
        /\ log'[n + 1] = m
    BY <2>1, LogFacts
  <2>3. \A i \in 1 .. n : log[i] \in Messages /\ log[i].at \in Nat /\ log[i].at < moment
    BY <2>1, <2>2, LogFacts DEF CanWrite, Messages
  <2>4. moment \in Nat /\ moment' \in Nat /\ moment <= moment'
    BY DEF LogGrows, ChatTypeOK
  <2> HIDE DEF n
  <2>5. \A i, j \in 1 .. n + 1 : i < j => log'[i].at < log'[j].at
    <3>1. SUFFICES ASSUME NEW i \in 1 .. n + 1, NEW j \in 1 .. n + 1, i < j
                   PROVE  log'[i].at < log'[j].at
      OBVIOUS
    <3>2. i \in 1 .. n BY <2>2, <3>1
    <3>3. CASE j = n + 1 BY <2>1, <2>2, <2>3, <3>2, <3>3
    <3>4. CASE j # n + 1
      <4>1. j \in 1 .. n BY <2>2, <3>4
      <4>2. QED BY <4>1, <3>1, <3>2, <2>2 DEF LogOK
    <3>5. QED BY <3>3, <3>4
  <2>6. \A i \in 1 .. n + 1 : i = n + 1 \/ i \in 1 .. n BY <2>2
  <2>7. \A i \in 1 .. n + 1 : log'[i].at <= moment'
    BY <2>1, <2>2, <2>3, <2>4, <2>6
  <2>8. \A i \in 1 .. n + 1 : log'[i].key # Human => log'[i].from = "account"
    BY <2>1, <2>2, <2>6 DEF LogOK
  <2>9. \A i \in 1 .. n : log[i].key = m.key => m.key = Human
    BY <2>1, <2>2 DEF Delivered
  <2>10. \A i, j \in 1 .. n + 1 : i # j /\ log'[i].key = log'[j].key => log'[i].key = Human
    BY <2>2, <2>6, <2>9 DEF LogOK
  <2>11. LogOK' BY <2>2, <2>5, <2>7, <2>8, <2>10 DEF LogOK
  <2>12. \A i \in DOMAIN log' \ DOMAIN log : i = n + 1 BY <2>2, <2>6
  <2>13. 1 .. n \subseteq 1 .. n + 1 BY <2>2
  <2>14. n <= n + 1 BY <2>2
  <2>15. n = Len(log) BY DEF n
  <2>16. QED BY <2>1, <2>2, <2>11, <2>12, <2>13, <2>14, <2>15
<1>3. QED BY <1>1, <1>2

-----------------------------------------------------------------------------
(* The steps around the commands.                                           *)

LEMMA TimesFacts ==
    ASSUME ChatTypeOK, LogOK, known \subseteq DOMAIN log, NEW from
    PROVE  /\ {0} \cup Times(from) \in SUBSET Nat
           /\ \A t \in {0} \cup Times(from) : t <= moment
<1>1. \A i \in known : log[i].at \in Nat /\ log[i].at <= moment
  BY LogFacts DEF Messages, LogOK
<1>2. moment \in Nat BY DEF ChatTypeOK
<1>3. QED BY <1>1, <1>2 DEF Times

LEMMA LastTimes ==
    ASSUME ChatTypeOK, LogOK, known \subseteq DOMAIN log
    PROVE  /\ LastIncomingAt \in Nat /\ LastOutgoingAt \in Nat
           /\ \A i \in known : log[i].from = "account" => log[i].at <= LastOutgoingAt
<1>1. moment \in Nat BY DEF ChatTypeOK
<1>2. {0} \cup Times("employer") # {} /\ {0} \cup Times("account") # {} OBVIOUS
<1>3. LastIncomingAt \in {0} \cup Times("employer")
  BY <1>1, <1>2, TimesFacts, MaxIs DEF LastIncomingAt
<1>4. /\ LastOutgoingAt \in {0} \cup Times("account")
      /\ \A t \in {0} \cup Times("account") : t <= LastOutgoingAt
  BY <1>1, <1>2, TimesFacts, MaxIs DEF LastOutgoingAt
<1>5. \A i \in known : log[i].from = "account" => log[i].at \in Times("account")
  BY DEF Times
<1>6. QED BY <1>3, <1>4, <1>5, TimesFacts

LEMMA PresentationEdits ==
    ASSUME conv \in Rows, NEW r \in Reads, ObservePresentation(r)
    PROVE  RowEdited
BY DEF ObservePresentation, TooOld, Rows, Reads, RowEdited

LEMMA AppendEdits ==
    ASSUME conv \in Rows, NEW new, NEW at \in Nat, AppendMessages(new, at)
    PROVE  RowEdited /\ known' = known \cup new
BY DEF AppendMessages, Rows, RowEdited

LEMMA LinkEdits ==
    ASSUME conv \in Rows, NEW r \in Reads, LinkApplication(r)
    PROVE  RowEdited
BY DEF LinkApplication, Rows, RowEdited

LEMMA CatalogEdits ==
    ASSUME conv \in Rows, NEW open \in BOOLEAN, NEW unread \in BOOLEAN, NEW at \in Nat,
           NEW last, ObserveCatalogState(open, unread, last, at)
    PROVE  RowEdited
<1> DEFINE recent == Max({LastIncomingAt, last})
           news == unread /\ (conv.readAt = 0 \/ recent > conv.readAt)
<1>1. news \in BOOLEAN OBVIOUS
<1>2. \/ conv' = conv
      \/ conv' = [conv EXCEPT !.open = open, !.unread = news, !.updatedAt = at]
  BY DEF ObserveCatalogState
<1> HIDE DEF news
<1>3. QED BY <1>1, <1>2 DEF Rows, RowEdited

LEMMA MarkEdits ==
    ASSUME conv \in Rows, moment \in Nat, MarkRead
    PROVE  RowEdited
BY DEF MarkRead, Rows, RowEdited

LEMMA CloseEdits ==
    ASSUME conv \in Rows, moment \in Nat, CloseConversation
    PROVE  RowEdited
BY DEF CloseConversation, Rows, RowEdited

(* An edited row, or one that stays, moves as a row may.                    *)
LEMMA EditMoves ==
    ASSUME ChatInv, RowEdited \/ conv' = conv, known \subseteq known',
           known' \subseteq DOMAIN log'
    PROVE  RowMoves
BY DEF ChatInv, ChatTypeOK, Positions, RowEdited, RowMoves, Rows

LEMMA QuietMoves ==
    ASSUME ChatInv
    PROVE  /\ UNCHANGED <<moment, log>> => LogGrows({Human})
           /\ UNCHANGED <<log, conv, known>> => RowMoves
           /\ UNCHANGED <<log, active, badge, appl, disc, sync>> => ReadersMove
           /\ UNCHANGED <<log, lane>> => LaneMoves
<1>1. UNCHANGED <<moment, log>> => LogGrows({Human})
  BY DEF ChatInv, ChatTypeOK, LogGrows
<1>2. UNCHANGED <<log, conv, known>> => RowMoves
  BY DEF ChatInv, ChatTypeOK, Positions, RowMoves
<1>3. UNCHANGED <<log, active, badge, appl, disc, sync>> => ReadersMove
  BY DEF ChatInv, ChatTypeOK, Positions, ReadersMove
<1>4. UNCHANGED <<log, lane>> => LaneMoves
  BY DEF ChatInv, ChatTypeOK, Positions, LaneMoves
<1>5. QED BY <1>1, <1>2, <1>3, <1>4

LEMMA NoReadOK == NoRead \in Reads /\ NoRead.pc = "idle" /\ NoRead.n = 0
BY DEF NoRead, Reads, Places

LEMMA ReadingOK ==
    ASSUME ChatInv
    PROVE  /\ Reading \in Reads /\ Reading.n = Len(log) /\ Reading.gen = conv.gen
           /\ [Reading EXCEPT !.badge = FALSE] \in Reads
           /\ [Reading EXCEPT !.badge = FALSE].n = Len(log)
<1>1. /\ moment \in Nat /\ Len(log) \in Nat /\ conv.gen \in Nat
      /\ active \in BOOLEAN /\ badge \in BOOLEAN
  BY LogFacts DEF ChatInv, ChatTypeOK, Rows
<1>2. Reading \in Reads BY <1>1 DEF Reading, Reads, Places
<1>3. Reading.n = Len(log) /\ Reading.gen = conv.gen BY DEF Reading
<1>4. QED BY <1>2, <1>3 DEF Reads

LEMMA WrittenMoves ==
    ASSUME ChatInv, CanWrite, moment' = moment,
           NEW from \in {"employer", "account"}, NEW kind \in Kinds \cup {"text"},
           log' = Append(log, Message(from, Human, kind))
    PROVE  LogGrows({Human})
<1> DEFINE m == Message(from, Human, kind)
<1>1. m \in Messages /\ m.at = moment /\ m.key = Human
  BY DEF Message, Messages, AllKeys, ChatInv, ChatTypeOK
<1>2. log' = Append(log, m) OBVIOUS
<1> HIDE DEF m
<1>3. QED BY <1>1, <1>2 DEF LogGrows, ChatInv, ChatTypeOK

(* A longer log leaves the positions where they are.                        *)
LEMMA LongerLog ==
    ASSUME ChatInv, LogGrows({Human})
    PROVE  /\ UNCHANGED <<conv, known>> => RowMoves
           /\ active' \in BOOLEAN /\ badge' \in BOOLEAN /\ UNCHANGED <<appl, disc, sync>> => ReadersMove
           /\ UNCHANGED lane => LaneMoves
<1>1. Len(log) \in Nat /\ Len(log') \in Nat /\ Len(log) <= Len(log') /\ DOMAIN log \subseteq DOMAIN log'
  BY LogKept, LogFacts DEF ChatInv
<1>2. /\ known \subseteq DOMAIN log /\ conv \in Rows /\ appl \in BOOLEAN
      /\ conv.there => conv.gen = 1
      /\ disc \in Reads /\ sync \in Reads /\ disc.n <= Len(log) /\ sync.n <= Len(log)
      /\ disc.pc # "idle" => disc.n >= 1
      /\ lane \in Commands /\ lane.read.n <= Len(log) /\ lane.seen <= Len(log)
  BY DEF ChatInv, ChatTypeOK, Positions
<1>3. UNCHANGED <<conv, known>> => RowMoves BY <1>1, <1>2 DEF RowMoves
<1>4. disc.n \in Nat /\ sync.n \in Nat /\ lane.read.n \in Nat /\ lane.seen \in Nat
  BY <1>2 DEF Reads, Commands
<1>5. active' \in BOOLEAN /\ badge' \in BOOLEAN /\ UNCHANGED <<appl, disc, sync>> => ReadersMove
  BY <1>1, <1>2, <1>4 DEF ReadersMove
<1>6. UNCHANGED lane => LaneMoves BY <1>1, <1>2, <1>4 DEF LaneMoves
<1>7. QED BY <1>3, <1>5, <1>6

LEMMA PeopleMove == ASSUME ChatInv, PeopleStep PROVE EnvMoves
<1>1. CASE Later
  <2>1. LogGrows({Human}) BY <1>1, ConversationAssumption DEF Later, LogGrows, ChatInv, ChatTypeOK
  <2>2. QED BY <1>1, <2>1, QuietMoves DEF Later, EnvMoves
<1>2. CASE EmployerWrites
  <2>1. PICK kind \in Kinds : log' = Append(log, Message("employer", Human, kind))
    BY <1>2 DEF EmployerWrites
  <2>2. LogGrows({Human}) BY <1>2, <2>1, WrittenMoves DEF EmployerWrites
  <2>3. active \in BOOLEAN BY DEF ChatInv, ChatTypeOK
  <2>4. QED BY <1>2, <2>2, <2>3, LongerLog DEF EmployerWrites, EnvMoves
<1>3. CASE OwnerWrites
  <2>1. LogGrows({Human}) BY <1>3, WrittenMoves DEF OwnerWrites
  <2>2. active \in BOOLEAN BY DEF ChatInv, ChatTypeOK
  <2>3. QED BY <1>3, <2>1, <2>2, LongerLog DEF OwnerWrites, EnvMoves
<1>4. CASE PlatformCloses
  <2>1. active' \in BOOLEAN /\ badge' \in BOOLEAN
    BY <1>4 DEF PlatformCloses, ChatInv, ChatTypeOK
  <2>2. LogGrows({Human}) BY <1>4, QuietMoves DEF PlatformCloses
  <2>3. QED BY <1>4, <2>1, <2>2, LongerLog DEF PlatformCloses, EnvMoves
<1>5. QED BY <1>1, <1>2, <1>3, <1>4 DEF PeopleStep

LEMMA Handy ==
    ASSUME ChatInv
    PROVE  /\ conv \in Rows /\ moment \in Nat /\ disc \in Reads /\ sync \in Reads
           /\ lane \in Commands /\ lane.read \in Reads
           /\ disc.at \in Nat /\ sync.at \in Nat /\ lane.read.at \in Nat
           /\ disc.n \in Nat /\ sync.n \in Nat /\ lane.read.n \in Nat /\ lane.seen \in Nat
           /\ Len(log) \in Nat /\ DOMAIN log = 1 .. Len(log)
           /\ known \subseteq DOMAIN log /\ disc.n <= Len(log) /\ sync.n <= Len(log)
           /\ lane.read.n <= Len(log) /\ lane.seen <= Len(log)
           /\ active \in BOOLEAN /\ badge \in BOOLEAN /\ appl \in BOOLEAN
           /\ disc.pc # "idle" => disc.n >= 1
           /\ conv.there => conv.gen = 1
           /\ lane.pc \in InHand => conv.gen = 1
           /\ lane.pc \notin InHand => lane.key = Human
BY LogFacts DEF ChatInv, ChatTypeOK, Positions, Commands, Reads

LEMMA CatalogMoves ==
    ASSUME ChatInv, CatalogStep \/ NothingToCancel, conv'.gen <= 1
    PROVE  EnvMoves
<1>1. CASE DiscoverConversations
  <2>1. disc' = Reading /\ log # <<>> BY <1>1 DEF DiscoverConversations
  <2>2. Len(log) >= 1 BY <2>1, LogFacts DEF ChatInv, ChatTypeOK
  <2>3. ReadersMove
    BY <1>1, <2>1, <2>2, ReadingOK, Handy DEF DiscoverConversations, ReadersMove
  <2>4. QED BY <1>1, <2>3, QuietMoves DEF DiscoverConversations, EnvMoves
<1>2. CASE ObserveConversation
  <2>1. disc.pc = "read" /\ log' = log /\ known' = known /\ moment' = moment
        /\ UNCHANGED <<badge, active, appl, sync, lane>>
    BY <1>2 DEF ObserveConversation
  <2>2. conv' \in Rows /\ RowMoves
    <3>1. CASE conv.there
      <4>1. disc.open \in BOOLEAN /\ disc.badge \in BOOLEAN /\ disc.at \in Nat
        BY Handy DEF Reads
      <4>2. PICK last : ObserveCatalogState(disc.open, disc.badge, last, disc.at)
        BY <1>2, <3>1 DEF ObserveConversation
      <4>3. RowEdited BY <4>1, <4>2, Handy, CatalogEdits
      <4>4. QED BY <4>3, <2>1, Handy, EditMoves DEF RowEdited
    <3>2. CASE ~conv.there
      <4>1. CreateConversation(disc.badge, disc.at) BY <1>2, <3>2 DEF ObserveConversation
      <4>2. disc.badge \in BOOLEAN /\ disc.at \in Nat /\ conv.gen \in {0, 1}
        BY Handy DEF Reads, Rows
      <4>3. conv'.gen = conv.gen + 1 BY <4>1 DEF CreateConversation, NoRow
      <4>4. conv.gen = 0 /\ conv'.gen = 1 BY <4>2, <4>3
      <4>5. conv' \in Rows BY <4>1, <4>2, <4>4 DEF CreateConversation, NoRow, Rows
      <4>6. QED BY <2>1, <4>4, <4>5, Handy DEF RowMoves
    <3>3. QED BY <3>1, <3>2
  <2>3. disc' \in Reads /\ disc'.n = disc.n
    <3>1. conv'.gen \in Nat BY <2>2 DEF Rows
    <3>2. disc' = [disc EXCEPT !.pc = IF disc.open THEN "append" ELSE "cancel", !.gen = conv'.gen]
      BY <1>2 DEF ObserveConversation
    <3>3. QED BY <3>1, <3>2, Handy DEF Reads, Places
  <2>4. ReadersMove BY <2>1, <2>3, Handy DEF ReadersMove
  <2>5. QED BY <2>1, <2>2, <2>4, QuietMoves DEF EnvMoves
<1>3. CASE AppendLastMessage
  <2>1. /\ disc.pc = "append" /\ disc' = NoRead
        /\ UNCHANGED <<moment, log, badge, active, appl, sync, lane>>
    BY <1>3 DEF AppendLastMessage
  <2>2. disc.n \in DOMAIN log BY <2>1, Handy
  <2>3. RowMoves
    <3>1. CASE AppendMessages({disc.n}, disc.at)
      <4>1. RowEdited /\ known' = known \cup {disc.n} BY <3>1, Handy, AppendEdits
      <4>2. QED BY <4>1, <2>1, <2>2, Handy, EditMoves
    <3>2. CASE UNCHANGED <<conv, known>> BY <2>1, <3>2, QuietMoves
    <3>3. QED BY <1>3, <3>1, <3>2 DEF AppendLastMessage
  <2>4. ReadersMove BY <2>1, NoReadOK, Handy DEF ReadersMove
  <2>5. QED BY <2>1, <2>3, <2>4, QuietMoves DEF EnvMoves
<1>4. CASE NothingToCancel
  <2>1. disc' \in Reads /\ disc'.n = disc.n /\ disc.pc = "cancel"
    BY <1>4, Handy DEF NothingToCancel, Reads, Places
  <2>2. ReadersMove BY <1>4, <2>1, Handy DEF NothingToCancel, ReadersMove
  <2>3. QED BY <1>4, <2>2, QuietMoves DEF NothingToCancel, EnvMoves
<1>5. QED BY <1>1, <1>2, <1>3, <1>4 DEF CatalogStep

(* The messages up to some position are stored, or nothing is.              *)
LEMMA StoredMoves ==
    ASSUME ChatInv, log' = log, NEW n \in Nat, n <= Len(log), NEW at \in Nat,
           AppendMessages(1 .. n, at) \/ UNCHANGED <<conv, known>>
    PROVE  RowMoves
<1>1. CASE AppendMessages(1 .. n, at)
  <2>1. RowEdited /\ known' = known \cup (1 .. n) BY <1>1, Handy, AppendEdits
  <2>2. 1 .. n \subseteq DOMAIN log BY Handy
  <2>3. QED BY <2>1, <2>2, Handy, EditMoves
<1>2. CASE UNCHANGED <<conv, known>> BY <1>2, QuietMoves
<1>3. QED BY <1>1, <1>2

LEMMA SyncMoves == ASSUME ChatInv, SyncStep PROVE EnvMoves
<1>1. CASE SyncConversation
  <2>1. ReadersMove BY <1>1, ReadingOK, Handy DEF SyncConversation, ReadersMove
  <2>2. QED BY <1>1, <2>1, QuietMoves DEF SyncConversation, EnvMoves
<1>2. CASE SyncPresentation
  <2>1. /\ sync.pc = "read" /\ log' = log
        /\ UNCHANGED <<moment, badge, active, known, appl, disc, lane>>
    BY <1>2 DEF SyncPresentation
  <2>2. RowMoves
    <3>1. CASE ObservePresentation(sync) BY <2>1, <3>1, Handy, PresentationEdits, EditMoves
    <3>2. CASE conv' = conv BY <2>1, <3>2, QuietMoves
    <3>3. QED BY <1>2, <3>1, <3>2 DEF SyncPresentation
  <2>3. sync' \in Reads /\ sync'.n <= Len(log)
    <3>1. CASE sync' = NoRead BY <3>1, NoReadOK, Handy
    <3>2. CASE sync' = [sync EXCEPT !.pc = "link", !.appl = appl]
      BY <3>2, Handy DEF Reads, Places
    <3>3. QED BY <1>2, <3>1, <3>2 DEF SyncPresentation
  <2>4. ReadersMove BY <2>1, <2>3, Handy DEF ReadersMove
  <2>5. QED BY <2>1, <2>2, <2>4, QuietMoves DEF EnvMoves
<1>3. CASE SyncLink
  <2>1. /\ log' = log /\ UNCHANGED <<moment, badge, active, known, appl, disc, lane>>
    BY <1>3 DEF SyncLink
  <2>2. LinkApplication(sync) BY <1>3 DEF SyncLink
  <2>3. RowMoves BY <2>1, <2>2, Handy, LinkEdits, EditMoves
  <2>4. sync' \in Reads /\ sync'.n <= Len(log)
    BY <1>3, Handy DEF SyncLink, Reads, Places
  <2>5. ReadersMove BY <2>1, <2>4, Handy DEF ReadersMove
  <2>6. QED BY <2>1, <2>3, <2>5, QuietMoves DEF EnvMoves
<1>4. CASE SyncMessages
  <2>1. /\ log' = log /\ UNCHANGED <<moment, badge, active, appl, disc, lane>>
    BY <1>4 DEF SyncMessages
  <2>2. AppendMessages(1 .. sync.n, sync.at) \/ UNCHANGED <<conv, known>>
    BY <1>4 DEF SyncMessages
  <2>3. RowMoves BY <2>1, <2>2, Handy, StoredMoves
  <2>4. sync' \in Reads /\ sync'.n <= Len(log)
    <3>1. CASE sync' = NoRead BY <3>1, NoReadOK, Handy
    <3>2. CASE sync' = [sync EXCEPT !.pc = "answer"] BY <3>2, Handy DEF Reads, Places
    <3>3. QED BY <1>4, <3>1, <3>2 DEF SyncMessages
  <2>5. ReadersMove BY <2>1, <2>4, Handy DEF ReadersMove
  <2>6. QED BY <2>1, <2>3, <2>5, QuietMoves DEF EnvMoves
<1>5. CASE SyncDone
  <2>1. ReadersMove BY <1>5, NoReadOK, Handy DEF SyncDone, ReadersMove
  <2>2. QED BY <1>5, <2>1, QuietMoves DEF SyncDone, EnvMoves
<1>6. QED BY <1>1, <1>2, <1>3, <1>4, <1>5 DEF SyncStep

LEMMA StoreMoves == ASSUME ChatInv, StoreStep PROVE EnvMoves
<1>1. CASE MarkConversationsReadLocally
  <2>1. RowEdited
    BY <1>1, Handy DEF MarkConversationsReadLocally, RowEdited, Rows
  <2>2. RowMoves BY <1>1, <2>1, Handy, EditMoves DEF MarkConversationsReadLocally
  <2>3. QED BY <1>1, <2>2, QuietMoves DEF MarkConversationsReadLocally, EnvMoves
<1>2. ASSUME conv' = [NoRow EXCEPT !.gen = conv.gen], known' = {}, log' = log
      PROVE  RowMoves
  <2>1. conv' \in Rows /\ ~conv'.there /\ conv'.gen = conv.gen
    BY <1>2, Handy DEF NoRow, Rows
  <2>2. QED BY <1>2, <2>1 DEF RowMoves
<1>3. CASE RemoveApplication
  <2>1. RowMoves BY <1>2, <1>3, QuietMoves DEF RemoveApplication
  <2>2. ReadersMove BY <1>3, Handy DEF RemoveApplication, ReadersMove
  <2>3. QED BY <1>3, <2>1, <2>2, QuietMoves DEF RemoveApplication, EnvMoves
<1>4. CASE PurgeOrphanConversations
  BY <1>2, <1>4, QuietMoves DEF PurgeOrphanConversations, EnvMoves
<1>5. QED BY <1>1, <1>3, <1>4 DEF StoreStep

LEMMA NoCommandOK ==
    NoCommand \in Commands /\ NoCommand.pc = "idle" /\ NoCommand.key = Human /\ NoCommand.seen = 0 /\ NoCommand.read.n = 0
BY NoReadOK DEF NoCommand, Commands, AllKeys

LEMMA ReadMarkMoves == ASSUME ChatInv, ReadStep PROVE EnvMoves
<1>1. CASE PostRead
  <2>1. /\ lane' \in Commands /\ lane'.pc = "told" /\ lane.pc = "idle"
        /\ lane'.seen = lane.seen /\ lane'.read = lane.read /\ lane'.key = Human
    BY <1>1, Handy DEF PostRead, Commands, InHand
  <2>2. log' = log BY <1>1 DEF PostRead
  <2>3. LaneMoves BY <2>1, <2>2, Handy DEF LaneMoves
  <2>4. ReadersMove BY <1>1, Handy DEF PostRead, ReadersMove
  <2>5. QED BY <1>1, <2>3, <2>4, QuietMoves DEF PostRead, EnvMoves
<1>2. CASE StoreRead
  <2>1. lane.pc = "told" /\ lane' = NoCommand /\ log' = log /\ known' = known
    BY <1>2 DEF StoreRead
  <2>2. LaneMoves BY <2>1, NoCommandOK, Handy DEF LaneMoves
  <2>3. RowMoves
    <3>1. CASE MarkRead BY <2>1, <3>1, Handy, MarkEdits, EditMoves
    <3>2. CASE conv' = conv BY <2>1, <3>2, QuietMoves
    <3>3. QED BY <1>2, <3>1, <3>2 DEF StoreRead
  <2>4. QED BY <1>2, <2>2, <2>3, QuietMoves DEF StoreRead, EnvMoves
<1>3. QED BY <1>1, <1>2 DEF ReadStep

LEMMA BreakMoves == ASSUME ChatInv, BreakReader PROVE EnvMoves
<1>1. log' = log /\ UNCHANGED <<moment, badge, active, appl, lane>>
  BY DEF BreakReader
<1>2. /\ disc' \in Reads /\ disc'.n <= Len(log)
      /\ disc'.pc # "idle" => disc'.n >= 1
      /\ sync' \in Reads /\ sync'.n <= Len(log)
  BY NoReadOK, Handy DEF BreakReader
<1>3. ReadersMove BY <1>1, <1>2, Handy DEF ReadersMove
<1>4. RowMoves
  <2>1. CASE UNCHANGED <<conv, known>> BY <1>1, <2>1, QuietMoves
  <2>2. CASE \E n \in 0 .. sync.n : AppendMessages(1 .. n, sync.at)
    <3>1. PICK n \in 0 .. sync.n : AppendMessages(1 .. n, sync.at) BY <2>2
    <3>2. n \in Nat /\ n <= Len(log) BY Handy
    <3>3. QED BY <1>1, <3>1, <3>2, Handy, StoredMoves
  <2>3. QED BY <2>1, <2>2 DEF BreakReader
<1>5. QED BY <1>1, <1>3, <1>4, QuietMoves DEF EnvMoves

LEMMA LaneStepMoves == ASSUME ChatInv, LaneStep PROVE EnvMoves
<1>1. CASE LaneRead
  <2>1. lane.pc = "refresh" /\ log' = log BY <1>1 DEF LaneRead
  <2>2. PICK r \in Reads : r.n = Len(log) /\ lane' = [lane EXCEPT !.pc = "present", !.read = r]
    BY <1>1, ReadingOK DEF LaneRead
  <2>3. /\ lane' \in Commands /\ lane'.pc = "present" /\ SameCommand
        /\ lane'.read.n = Len(log)
    BY <2>2, Handy DEF Commands, SameCommand, InHand
  <2>4. LaneMoves BY <2>1, <2>3, Handy DEF LaneMoves, SameCommand
  <2>5. QED BY <1>1, <2>4, QuietMoves DEF LaneRead, EnvMoves
<1>2. CASE LanePresentation
  <2>1. /\ lane.pc = "present" /\ log' = log /\ known' = known
        /\ ObservePresentation(lane.read)
    BY <1>2 DEF LanePresentation
  <2>2. RowMoves BY <2>1, Handy, PresentationEdits, EditMoves
  <2>3. lane' = [lane EXCEPT !.pc = "link", !.read = [lane.read EXCEPT !.appl = appl]]
    BY <1>2 DEF LanePresentation
  <2>4. PICK r \in Reads : r.n = lane.read.n /\ lane' = [lane EXCEPT !.pc = "link", !.read = r]
    BY <2>3, Handy DEF Reads
  <2>5. /\ lane' \in Commands /\ lane'.pc = "link" /\ SameCommand
        /\ lane'.read.n = lane.read.n
    BY <2>4, Handy DEF Commands, SameCommand, InHand
  <2>6. LaneMoves BY <2>1, <2>5, Handy DEF LaneMoves, SameCommand
  <2>7. QED BY <1>2, <2>2, <2>6, QuietMoves DEF LanePresentation, EnvMoves
<1>3. CASE LaneLink
  <2>1. lane.pc = "link" /\ log' = log /\ known' = known /\ LinkApplication(lane.read)
    BY <1>3 DEF LaneLink
  <2>2. RowMoves BY <2>1, Handy, LinkEdits, EditMoves
  <2>3. /\ lane' \in Commands /\ lane'.pc = "append" /\ SameCommand
        /\ lane'.read.n = lane.read.n
    BY <1>3, Handy DEF LaneLink, Commands, SameCommand, InHand
  <2>4. LaneMoves BY <2>1, <2>3, Handy DEF LaneMoves, SameCommand
  <2>5. QED BY <1>3, <2>2, <2>4, QuietMoves DEF LaneLink, EnvMoves
<1>4. CASE LaneMessages
  <2>1. /\ lane.pc = "append" /\ log' = log /\ conv.there
        /\ AppendMessages(1 .. lane.read.n, lane.read.at)
    BY <1>4 DEF LaneMessages, SameRow
  <2>2. RowMoves BY <2>1, Handy, StoredMoves
  <2>3. 1 .. lane.read.n \subseteq known' BY <2>1 DEF AppendMessages
  <2>4. /\ lane' \in Commands /\ lane'.pc = "check" /\ SameCommand
        /\ lane'.read.n = 0
    BY <1>4, NoReadOK, Handy DEF LaneMessages, Commands, SameCommand, InHand
  <2>5. LaneMoves BY <2>1, <2>3, <2>4, Handy DEF LaneMoves, SameCommand
  <2>6. QED BY <1>4, <2>2, <2>5, QuietMoves DEF LaneMessages, EnvMoves
<1>5. QED BY <1>1, <1>2, <1>3, <1>4 DEF LaneStep

(* A step around the commands moves the chat so, and keeps its invariant.   *)
LEMMA AroundMoves ==
    ASSUME ChatInv, AroundRow \/ NothingToCancel
    PROVE  EnvMoves
<1>1. CASE NothingToCancel
  <2>1. conv'.gen <= 1 BY <1>1, Handy DEF NothingToCancel, Rows
  <2>2. QED BY <1>1, <2>1, CatalogMoves
<1>2. CASE AroundRow
  BY <1>2, PeopleMove, CatalogMoves, SyncMoves, StoreMoves, ReadMarkMoves, BreakMoves,
     LaneStepMoves DEF AroundRow, ChatStep
<1>3. QED BY <1>1, <1>2

(* Any step that moves the chat so keeps its invariant, whoever has the     *)
(* lane.                                                                    *)
LEMMA ChatKept ==
    ASSUME ChatInv, NEW allowed, LogGrows(allowed), RowMoves, ReadersMove,
           lane' \in Commands, lane'.seen <= Len(log'), lane'.read.n <= Len(log'),
           lane'.pc \in InHand => conv.gen = 1,
           lane'.pc \notin InHand => lane'.key = Human
    PROVE  ChatInv'
<1>1. /\ LogOK' /\ log' \in Seq(Messages) /\ Len(log) <= Len(log')
  BY LogKept DEF ChatInv
<1>2. /\ moment' \in 1 .. LastMoment /\ conv' \in Rows /\ known' \subseteq DOMAIN log'
      /\ conv'.there => conv'.gen = 1
      /\ conv.gen = 1 => conv'.gen = 1
      /\ active' \in BOOLEAN /\ badge' \in BOOLEAN /\ appl' \in BOOLEAN
      /\ disc' \in Reads /\ sync' \in Reads /\ disc'.n <= Len(log') /\ sync'.n <= Len(log')
      /\ disc'.pc # "idle" => disc'.n >= 1
  BY DEF LogGrows, RowMoves, ReadersMove
<1>3. ChatTypeOK' BY <1>1, <1>2 DEF ChatTypeOK
<1>4. Positions' BY <1>2 DEF Positions
<1>5. QED BY <1>1, <1>3, <1>4 DEF ChatInv

LEMMA EnvKeeps == ASSUME ChatInv, EnvMoves PROVE ChatInv'
<1>1. /\ lane' \in Commands /\ lane'.seen <= Len(log') /\ lane'.read.n <= Len(log')
      /\ lane'.pc \in InHand => lane.pc \in InHand
      /\ lane'.pc \notin InHand => lane'.key = Human
  BY Handy DEF EnvMoves, LaneMoves, InHand
<1>2. QED BY <1>1, Handy, ChatKept DEF EnvMoves

LEMMA ChatInitInv == ASSUME ChatInit PROVE ChatInv
<1>1. LastMoment \in Nat \ {0} BY ConversationAssumption
<1>2. moment = 1 /\ moment \in 1 .. LastMoment BY <1>1 DEF ChatInit
<1>3. Message("account", Human, "text") \in Messages /\ Message("account", Human, "text").at = 1
      /\ Message("account", Human, "text").from = "account"
  BY <1>2 DEF Message, Messages, AllKeys
<1> DEFINE first == Message("account", Human, "text")
<1> HIDE DEF first
<1>4. first \in Messages /\ first.at = 1 /\ first.from = "account" BY <1>3 DEF first
<1>5. log \in {<<>>, <<first>>} BY DEF ChatInit, first
<1>6. ASSUME log \in Seq(Messages), DOMAIN log \subseteq {1}, Len(log) \in {0, 1},
              \A i \in DOMAIN log : log[i].at = 1 /\ log[i].from = "account"
       PROVE  ChatInv
  <2>1. LogOK BY <1>2, <1>6 DEF LogOK
  <2>2. /\ conv \in Rows
        /\ conv.there => conv.gen = 1
    <3>1. NoRow \in Rows /\ ~NoRow.there BY DEF NoRow, Rows
    <3>2. StoredRow \in Rows /\ StoredRow.gen = 1 BY <3>1 DEF StoredRow, Rows
    <3>3. QED BY <3>1, <3>2 DEF ChatInit
  <2>3. ChatTypeOK
    BY <1>2, <1>6, <2>2, NoReadOK, NoCommandOK DEF ChatInit, ChatTypeOK
  <2>4. Positions
    BY <1>6, <2>2, NoReadOK, NoCommandOK DEF ChatInit, Positions, InHand
  <2>5. QED BY <2>1, <2>3, <2>4 DEF ChatInv
<1>7. CASE log = <<>>
  <2>1. log \in Seq(Messages) /\ Len(log) = 0 /\ DOMAIN log = {} BY <1>7
  <2>2. QED BY <2>1, <1>6
<1>8. CASE log = <<first>>
  <2>1. log \in Seq(Messages) BY <1>4, <1>8
  <2>2. Len(log) = 1 /\ DOMAIN log = {1} BY <1>8
  <2>3. log[1] = first BY <1>8
  <2>4. QED BY <1>4, <2>1, <2>2, <2>3, <1>6
<1>9. QED BY <1>5, <1>7, <1>8

-----------------------------------------------------------------------------
(* The commands.                                                            *)

TasksMove ==
    /\ ctask' \in [CommandKeys -> {"none", "new", "running", "over"}]
    /\ live' \in [Requests -> {"idle", "store"}]
    /\ \A k \in CommandKeys : ctask[k] # "none" => ctask'[k] # "none"
    /\ \A k \in CommandKeys : ctask'[k] # "none" => ctask[k] # "none" \/ Asked(k)

LEMMA AskedStays ==
    ASSUME ChatInv, NEW allowed, LogGrows(allowed), NEW k, Asked(k)
    PROVE  Asked(k)'
BY LogKept DEF ChatInv, Asked

LEMMA TasksKept ==
    ASSUME ChatInv, TasksAsked, NEW allowed, LogGrows(allowed),
           \A k \in allowed : k = Human \/ Asking(k),
           TasksMove,
           lane'.pc \in InHand => lane'.key \in CommandKeys /\ ctask'[lane'.key] # "none"
    PROVE  TasksAsked'
<1>1. \A k \in CommandKeys : ctask'[k] # "none" => Asked(k)'
  BY AskedStays DEF TasksAsked, TasksMove
<1>2. \A k \in AllKeys : Delivered(k)' => k = Human \/ Asking(k)'
  <2>1. SUFFICES ASSUME NEW k \in AllKeys, Delivered(k)', k # Human PROVE Asking(k)'
    OBVIOUS
  <2>2. PICK i \in DOMAIN log' : log'[i].key = k BY <2>1 DEF Delivered
  <2>3. Asking(k)
    <3>1. CASE i \in DOMAIN log
      <4>1. Delivered(k) BY <2>2, <3>1, LogKept DEF ChatInv, Delivered
      <4>2. QED BY <4>1, <2>1 DEF TasksAsked
    <3>2. CASE i \notin DOMAIN log
      <4>1. k \in allowed BY <2>2, <3>2, LogKept DEF ChatInv
      <4>2. QED BY <4>1, <2>1
    <3>3. QED BY <3>1, <3>2
  <2>4. QED BY <2>3, AskedStays DEF Asking
<1>3. QED BY <1>1, <1>2 DEF TasksAsked, TasksMove

LEMMA SameTasks ==
    ASSUME TasksAsked, UNCHANGED commandVars
    PROVE  TasksMove
BY DEF TasksAsked, commandVars, TasksMove

LEMMA Enqueues ==
    ASSUME TasksAsked, live' = live, NEW k \in CommandKeys, Asked(k), EnqueueCommand(k)
    PROVE  TasksMove
BY DEF TasksAsked, EnqueueCommand, TasksMove

(* A task that is asked for takes another state.                            *)
LEMMA TaskTurns ==
    ASSUME TasksAsked, live' = live, NEW k, k \in CommandKeys => ctask[k] # "none",
           NEW s \in {"new", "running", "over"}, ctask' = [ctask EXCEPT ![k] = s]
    PROVE  TasksMove
BY DEF TasksAsked, TasksMove

LEMMA SendAsked == \A q \in Requests : <<"send", q>> \in CommandKeys /\ Asked(<<"send", q>>)
BY DEF CommandKeys, Asked

(* What is asked for is in the log.                                         *)
LEMMA KnownPromptAsks ==
    ASSUME ChatInv, NEW ms, ms \subseteq DOMAIN log, KnownPrompt(ms) # 0
    PROVE  <<"answer", KnownPrompt(ms)>> \in CommandKeys /\ Asked(<<"answer", KnownPrompt(ms)>>)
<1> DEFINE asked == {i \in Unanswered(ms) : log[i].kind = "buttons"}
<1>1. asked # {} /\ KnownPrompt(ms) = log[Min(asked)].at BY DEF KnownPrompt
<1>2. asked \subseteq DOMAIN log BY DEF Unanswered
<1>3. asked \in SUBSET Nat BY <1>2, Handy
<1>4. Min(asked) \in asked BY <1>1, <1>3, MinIs
<1>5. /\ Min(asked) \in DOMAIN log /\ log[Min(asked)].kind = "buttons"
  BY <1>2, <1>4
<1>6. log[Min(asked)].at \in 1 .. LastMoment
  BY <1>5, LogFacts, ConversationAssumption DEF ChatInv, ChatTypeOK, LogOK, Messages
<1> HIDE DEF asked
<1>7. QED BY <1>1, <1>5, <1>6 DEF CommandKeys, Asked

LEMMA PromptAsks ==
    ASSUME ChatInv, Prompt(known) # 0
    PROVE  /\ <<"reply", Prompt(known)>> \in CommandKeys /\ Asked(<<"reply", Prompt(known)>>)
           /\ \A i \in known : log[i].at <= Prompt(known)
<1> DEFINE new == Unanswered(known)
           ours == {log[i].at : i \in {j \in known : log[j].from = "account"}}
<1>1. new # {} /\ log[Max(new)].kind = "question" /\ Prompt(known) = log[Max(new)].at
  BY DEF Prompt
<1>2. new \subseteq known /\ known \subseteq DOMAIN log BY Handy DEF Unanswered
<1>3. new \in SUBSET Nat /\ Len(log) \in Nat /\ \A i \in new : i <= Len(log)
  BY <1>2, Handy
<1>4. Max(new) \in new /\ \A i \in new : i <= Max(new) BY <1>1, <1>3, MaxIs
<1>5. /\ Max(new) \in DOMAIN log
      /\ \A i \in DOMAIN log : log[i].at \in 1 .. LastMoment /\ log[i].at <= moment
                               /\ log[i].from \in {"employer", "account"}
  BY <1>2, <1>4, LogFacts, ConversationAssumption DEF ChatInv, ChatTypeOK, LogOK, Messages
<1>6. moment \in Nat BY Handy
<1>7. {0} \cup ours \in SUBSET Nat /\ \A t \in {0} \cup ours : t <= moment
  BY <1>2, <1>5, <1>6
<1>8. /\ LastOutgoing(known) \in Nat
      /\ \A t \in ours : t <= LastOutgoing(known)
  BY <1>6, <1>7, MaxIs DEF LastOutgoing
<1>9. log[Max(new)].at > LastOutgoing(known) BY <1>4 DEF Unanswered
<1>10. ASSUME NEW i \in known PROVE log[i].at <= log[Max(new)].at
  <2>1. i \in DOMAIN log /\ log[i].at \in Nat BY <1>2, <1>5
  <2>2. CASE log[i].from = "account"
    <3>1. log[i].at \in ours BY <2>2
    <3>2. QED BY <2>1, <3>1, <1>5, <1>8, <1>9
  <2>3. CASE log[i].from = "employer" /\ log[i].at > LastOutgoing(known)
    <3>1. i \in new BY <2>3 DEF Unanswered
    <3>2. i <= Max(new) BY <3>1, <1>4
    <3>3. i = Max(new) \/ i < Max(new) BY <2>1, <3>2, <1>5, Handy
    <3>4. QED BY <2>1, <3>3, <1>5 DEF ChatInv, LogOK
  <2>4. CASE log[i].from = "employer" /\ ~(log[i].at > LastOutgoing(known))
    BY <2>1, <2>4, <1>5, <1>8, <1>9
  <2>5. QED BY <2>1, <2>2, <2>3, <2>4, <1>5
<1> HIDE DEF new, ours
<1>11. QED BY <1>1, <1>5, <1>10 DEF CommandKeys, Asked

(* What a command heard stays as it was while the log and the row move.     *)
LEMMA ListenedKept ==
    ASSUME ChatInv, TasksAsked, Listened, NEW allowed, LogGrows(allowed), RowMoves,
           SameCommand,
           \/ lane'.pc = lane.pc /\ lane'.read.n = lane.read.n
           \/ lane'.pc \notin {"present", "link", "append", "check", "post"}
    PROVE  Listened'
<1>1. CASE lane'.pc \notin {"present", "link", "append", "check", "post"}
  BY <1>1 DEF Listened
<1>2. CASE lane'.pc = lane.pc /\ lane'.read.n = lane.read.n
  <2>1. lane'.pc \in {"present", "link", "append"} => lane'.seen <= lane'.read.n
    BY <1>2 DEF Listened, SameCommand
  <2>2. lane'.pc = "check" /\ conv'.there => 1 .. lane'.seen \subseteq known'
    BY <1>2, Handy DEF Listened, SameCommand, InHand, RowMoves
  <2>3. lane'.pc = "post" /\ IsReply' => \A i \in 1 .. lane'.seen : log'[i].at <= lane'.key[2]
    <3>1. SUFFICES ASSUME lane.pc = "post", IsReply, NEW i \in 1 .. lane.seen
                   PROVE  log'[i].at <= lane.key[2]
      BY <1>2 DEF SameCommand, IsReply
    <3>2. i \in DOMAIN log BY Handy
    <3>3. log'[i] = log[i] BY <3>2, LogKept DEF ChatInv
    <3>4. QED BY <3>1, <3>3 DEF Listened
  <2>4. QED BY <2>1, <2>2, <2>3 DEF Listened
<1>3. QED BY <1>1, <1>2

LEMMA AroundKeepsCommands ==
    ASSUME CommandInv, EnvMoves, UNCHANGED commandVars
    PROVE  CommandInv'
<1>1. ChatInv /\ TasksAsked /\ Listened BY DEF CommandInv
<1>2. ChatInv' BY <1>1, EnvKeeps
<1>3. LogGrows({Human}) /\ RowMoves /\ LaneMoves BY DEF EnvMoves
<1>4. lane'.pc \in InHand => lane.pc \in InHand /\ lane'.key = lane.key
  BY <1>3 DEF LaneMoves, InHand, SameCommand
<1>5. TasksAsked'
  <2>1. lane'.pc \in InHand => lane'.key \in CommandKeys /\ ctask'[lane'.key] # "none"
    BY <1>1, <1>4 DEF TasksAsked, commandVars
  <2>2. QED BY <1>1, <1>3, <2>1, SameTasks, TasksKept
<1>6. Listened'
  <2>1. CASE lane' = lane
    BY <1>1, <1>3, <2>1, ListenedKept DEF SameCommand
  <2>2. CASE lane'.pc \in {"idle", "told"} BY <2>2 DEF Listened
  <2>3. CASE lane'.pc = "present" /\ SameCommand /\ lane'.read.n = Len(log)
    BY <1>1, <2>3, Handy DEF Listened, SameCommand
  <2>4. CASE /\ lane.pc \in {"present", "link"} /\ lane'.pc \in {"link", "append"}
             /\ SameCommand /\ lane'.read.n = lane.read.n
    BY <1>1, <2>4 DEF Listened, SameCommand
  <2>5. CASE /\ lane.pc = "append" /\ lane'.pc = "check" /\ SameCommand
             /\ 1 .. lane.read.n \subseteq known'
    <3>1. lane.seen <= lane.read.n BY <1>1, <2>5 DEF Listened
    <3>2. lane.seen \in Nat /\ lane.read.n \in Nat BY <1>1, Handy
    <3>3. 1 .. lane.seen \subseteq 1 .. lane.read.n BY <3>1, <3>2
    <3>4. QED BY <2>5, <3>3 DEF Listened, SameCommand
  <2>6. QED BY <1>3, <2>1, <2>2, <2>3, <2>4, <2>5 DEF LaneMoves
<1>7. QED BY <1>2, <1>5, <1>6 DEF CommandInv

(* A step that leaves the lane of the profile to the command that has it.   *)
LEMMA BesideTheLane ==
    ASSUME CommandInv, lane' = lane, NEW allowed, LogGrows(allowed),
           \A k \in allowed : k = Human \/ Asking(k),
           RowMoves, ReadersMove, TasksMove
    PROVE  CommandInv'
<1>1. ChatInv /\ TasksAsked /\ Listened BY DEF CommandInv
<1>2. Len(log) \in Nat /\ Len(log') \in Nat /\ Len(log) <= Len(log')
  BY <1>1, LogKept, LogFacts DEF ChatInv
<1>3. ChatInv' BY <1>1, <1>2, Handy, ChatKept
<1>4. TasksAsked'
  <2>1. lane'.pc \in InHand => lane'.key \in CommandKeys /\ ctask'[lane'.key] # "none"
    BY <1>1 DEF TasksAsked, TasksMove
  <2>2. QED BY <1>1, <2>1, TasksKept
<1>5. Listened' BY <1>1, ListenedKept DEF SameCommand
<1>6. QED BY <1>3, <1>4, <1>5 DEF CommandInv

(* A step of the command in the lane, or the end of it.                     *)
LEMMA InTheLane ==
    ASSUME CommandInv, lane' \in Commands, NEW allowed, LogGrows(allowed),
           \A k \in allowed : k = Human \/ Asking(k),
           RowMoves, ReadersMove, TasksMove, Listened',
           lane'.seen <= Len(log'), lane'.read.n <= Len(log'),
           lane'.pc \in InHand => conv.gen = 1,
           lane'.pc \notin InHand => lane'.key = Human,
           lane'.pc \in InHand => lane'.key \in CommandKeys /\ ctask'[lane'.key] # "none"
    PROVE  CommandInv'
<1>1. ChatInv /\ TasksAsked BY DEF CommandInv
<1>2. ChatInv' BY <1>1, ChatKept
<1>3. TasksAsked' BY <1>1, TasksKept
<1>4. QED BY <1>2, <1>3 DEF CommandInv

LEMMA EndsCommand ==
    ASSUME CommandInv, lane' = NoCommand, NEW allowed, LogGrows(allowed),
           \A k \in allowed : k = Human \/ Asking(k),
           RowMoves, ReadersMove, TasksMove
    PROVE  CommandInv'
<1>1. ChatInv BY DEF CommandInv
<1>2. Len(log') \in Nat BY <1>1, LogKept DEF ChatInv
<1>3. Listened' BY NoCommandOK DEF Listened
<1>4. lane'.pc \notin InHand BY NoCommandOK DEF InHand
<1>5. QED BY <1>2, <1>3, <1>4, NoCommandOK, InTheLane

LEMMA NoLog == ASSUME ChatInv, UNCHANGED <<moment, log>> PROVE LogGrows({Human})
BY QuietMoves

(* The message of a key is put on the log once.                             *)
LEMMA DeliverMoves ==
    ASSUME ChatInv, moment' = moment, CanWrite, NEW k \in AllKeys, Deliver(k)
    PROVE  LogGrows({Human, k})
<1>1. moment \in 1 .. LastMoment /\ moment \in Nat /\ moment <= moment
  BY Handy DEF ChatInv, ChatTypeOK
<1>2. CASE log' = log BY <1>1, <1>2 DEF LogGrows
<1>3. CASE log' # log
  <2> DEFINE m == Message("account", k, "text")
  <2>1. log' = Append(log, m) /\ ~Delivered(k) BY <1>3 DEF Deliver
  <2>2. m \in Messages /\ m.at = moment /\ m.key = k /\ m.from = "account"
    BY <1>1 DEF Message, Messages
  <2> HIDE DEF m
  <2>3. QED BY <1>1, <2>1, <2>2 DEF LogGrows
<1>4. QED BY <1>2, <1>3

LEMMA SentMoves ==
    ASSUME ChatInv, log' = log, moment' = moment, NEW k,
           AppendSent(k) \/ UNCHANGED <<conv, known>>
    PROVE  RowMoves
<1>1. CASE AppendSent(k)
  <2>1. AppendMessages({i \in DOMAIN log : log[i].key = k}, moment) BY <1>1 DEF AppendSent
  <2>2. RowEdited /\ known' = known \cup {i \in DOMAIN log : log[i].key = k}
    BY <2>1, Handy, AppendEdits
  <2>3. QED BY <2>2, Handy, EditMoves
<1>2. CASE UNCHANGED <<conv, known>> BY <1>2, QuietMoves
<1>3. QED BY <1>1, <1>2

LEMMA ClosingMoves ==
    ASSUME ChatInv, log' = log, known' = known, CloseConversation \/ conv' = conv
    PROVE  RowMoves
BY Handy, CloseEdits, EditMoves

LEMMA KeysAreKeys == CommandKeys \subseteq AllKeys /\ Human \notin CommandKeys
BY DEF AllKeys, CommandKeys, Human

LEMMA CommandsOfSync == ASSUME CommandInv, SyncAnswer \/ SyncReply PROVE CommandInv'
<1>1. ChatInv /\ TasksAsked BY DEF CommandInv
<1>2. UNCHANGED <<moment, log, badge, active, conv, known, appl, disc, lane, live>>
  BY DEF SyncAnswer, SyncReply
<1>3. ReadersMove
  <2>1. sync' \in Reads /\ sync'.n <= Len(log)
    <3>1. CASE SyncAnswer BY <1>1, <3>1, Handy DEF SyncAnswer, Reads, Places
    <3>2. CASE SyncReply BY <1>1, <3>2, NoReadOK, Handy DEF SyncReply
    <3>3. QED BY <3>1, <3>2
  <2>2. QED BY <1>1, <1>2, <2>1, Handy DEF ReadersMove
<1>4. TasksMove
  <2>1. CASE ctask' = ctask BY <1>1, <1>2, <2>1, SameTasks DEF commandVars
  <2>2. CASE ctask' # ctask /\ SyncAnswer
    <3>1. /\ KnownPrompt(1 .. sync.n) # 0
          /\ EnqueueCommand(<<"answer", KnownPrompt(1 .. sync.n)>>)
      BY <2>2 DEF SyncAnswer
    <3>2. 1 .. sync.n \subseteq DOMAIN log BY <1>1, Handy
    <3>3. QED BY <1>1, <1>2, <3>1, <3>2, KnownPromptAsks, Enqueues
  <2>3. CASE ctask' # ctask /\ SyncReply
    <3>1. Prompt(known) # 0 /\ EnqueueCommand(<<"reply", Prompt(known)>>)
      BY <2>3 DEF SyncReply
    <3>2. QED BY <1>1, <1>2, <3>1, PromptAsks, Enqueues
  <2>4. QED BY <2>1, <2>2, <2>3
<1>5. QED BY <1>1, <1>2, <1>3, <1>4, NoLog, QuietMoves, BesideTheLane

LEMMA OperatorCommands ==
    ASSUME CommandInv, NEW q \in Requests,
           EnqueueMessage(q) \/ LivePost(q) \/ LiveStore(q) \/ LiveFail(q)
    PROVE  CommandInv'
<1>1. ChatInv /\ TasksAsked BY DEF CommandInv
<1>2. /\ ctask \in [CommandKeys -> {"none", "new", "running", "over"}]
      /\ live \in [Requests -> {"idle", "store"}]
  BY <1>1 DEF TasksAsked
<1>3. /\ <<"send", q>> \in CommandKeys /\ Asked(<<"send", q>>)
      /\ LiveKey(q) = <<"send", q>>
  BY SendAsked DEF LiveKey
<1>4. CASE EnqueueMessage(q)
  <2>1. TasksMove BY <1>1, <1>3, <1>4, Enqueues DEF EnqueueMessage
  <2>2. QED BY <1>1, <1>4, <2>1, NoLog, QuietMoves, BesideTheLane DEF EnqueueMessage, chatVars
<1>5. CASE LivePost(q)
  <2>1. TasksMove BY <1>2, <1>5 DEF LivePost, TasksMove
  <2>2. CASE writable
    <3>1. CanWrite /\ Deliver(LiveKey(q)) /\ UNCHANGED <<moment, badge, active, conv, known, appl, disc, sync, lane>>
      BY <1>5, <2>2 DEF LivePost
    <3>2. LogGrows({Human, LiveKey(q)}) BY <1>1, <1>3, <3>1, KeysAreKeys, DeliverMoves
    <3>3. \A k \in {Human, LiveKey(q)} : k = Human \/ Asking(k) BY <1>3 DEF Asking
    <3>4. Len(log) \in Nat /\ Len(log') \in Nat /\ Len(log) <= Len(log') /\ DOMAIN log \subseteq DOMAIN log'
      BY <1>1, <3>2, LogKept, LogFacts DEF ChatInv
    <3>5. RowMoves BY <1>1, <3>1, <3>4, Handy DEF RowMoves
    <3>6. ReadersMove BY <1>1, <3>1, <3>4, Handy DEF ReadersMove
    <3>7. QED BY <2>1, <3>1, <3>2, <3>3, <3>5, <3>6, BesideTheLane
  <2>3. CASE ~writable
    <3>1. CloseConversation /\ UNCHANGED <<moment, log, badge, active, known, appl, disc, sync, lane>>
      BY <1>5, <2>3 DEF LivePost
    <3>2. QED BY <1>1, <2>1, <3>1, NoLog, ClosingMoves, QuietMoves, BesideTheLane
  <2>4. QED BY <2>2, <2>3
<1>6. CASE LiveStore(q)
  <2>1. TasksMove BY <1>2, <1>6 DEF LiveStore, TasksMove
  <2>2. AppendSent(LiveKey(q)) \/ UNCHANGED <<conv, known>> BY <1>6 DEF LiveStore
  <2>3. UNCHANGED <<moment, log, badge, active, appl, disc, sync, lane>> BY <1>6 DEF LiveStore
  <2>4. QED BY <1>1, <2>1, <2>2, <2>3, NoLog, SentMoves, QuietMoves, BesideTheLane
<1>7. CASE LiveFail(q)
  <2>1. live' \in [Requests -> {"idle", "store"}] BY <1>2, <1>7 DEF LiveFail
  <2>2. ctask' = ctask \/ EnqueueCommand(<<"send", q>>) BY <1>7 DEF LiveFail
  <2>3. TasksMove
    BY <1>2, <1>3, <2>1, <2>2 DEF TasksMove, EnqueueCommand
  <2>4. UNCHANGED <<moment, log, badge, active, conv, known, appl, disc, sync, lane>>
    BY <1>7 DEF LiveFail
  <2>5. QED BY <1>1, <2>3, <2>4, NoLog, QuietMoves, BesideTheLane
<1>8. QED BY <1>4, <1>5, <1>6, <1>7

LEMMA ClaimKeeps ==
    ASSUME CommandInv, NEW k \in CommandKeys, ClaimCommand(k) \/ DropCommand(k)
    PROVE  CommandInv'
<1>1. ChatInv /\ TasksAsked BY DEF CommandInv
<1>2. ctask[k] # "none" /\ live' = live BY DEF ClaimCommand, DropCommand
<1>3. CASE ClaimCommand(k)
  <2>1. /\ lane.pc = "idle" /\ conv.there /\ ctask' = [ctask EXCEPT ![k] = "running"]
        /\ lane' = [lane EXCEPT !.key = k, !.seen = Len(log),
                                !.pc = IF k[1] = "reply" THEN "refresh" ELSE "post"]
        /\ UNCHANGED <<moment, log, badge, active, conv, known, appl, disc, sync>>
    BY <1>3 DEF ClaimCommand
  <2>2. TasksMove BY <1>1, <1>2, <2>1, TaskTurns
  <2>3. /\ lane' \in Commands /\ lane'.key = k /\ lane'.seen = Len(log)
        /\ lane'.read = lane.read
        /\ lane'.pc = IF k[1] = "reply" THEN "refresh" ELSE "post"
    BY <1>1, <2>1, Handy, KeysAreKeys DEF Commands, InHand
  <2>4. Listened' BY <2>3 DEF Listened, IsReply
  <2>5. ctask'[k] # "none" BY <1>1, <2>1 DEF TasksAsked
  <2>6. lane'.pc \in InHand BY <2>3 DEF InHand
  <2>7. QED BY <1>1, <2>1, <2>2, <2>3, <2>4, <2>5, <2>6, Handy, NoLog, QuietMoves, InTheLane
<1>4. CASE DropCommand(k)
  <2>1. ctask' = [ctask EXCEPT ![k] = "over"] /\ UNCHANGED chatVars
    BY <1>4 DEF DropCommand
  <2>2. TasksMove BY <1>1, <1>2, <2>1, TaskTurns
  <2>3. QED BY <1>1, <2>1, <2>2, NoLog, QuietMoves, BesideTheLane DEF chatVars
<1>5. QED BY <1>3, <1>4

LEMMA FinishTurns ==
    ASSUME CommandInv, live' = live, NEW s \in {"new", "over"}, Finish(s)
    PROVE  TasksMove /\ lane' = NoCommand
<1>1. TasksAsked /\ ChatInv BY DEF CommandInv
<1>2. lane.key \in CommandKeys => ctask[lane.key] # "none"
  BY <1>1, Handy, KeysAreKeys DEF TasksAsked
<1>3. QED BY <1>1, <1>2, TaskTurns DEF Finish

LEMMA CheckKeeps == ASSUME CommandInv, CheckPrompt PROVE CommandInv'
<1>1. ChatInv /\ TasksAsked /\ Listened BY DEF CommandInv
<1>2. /\ lane.pc = "check"
      /\ UNCHANGED <<moment, log, badge, active, conv, known, appl, disc, sync, live>>
  BY DEF CheckPrompt
<1>3. CASE Finish("over") BY <1>1, <1>2, <1>3, FinishTurns, NoLog, QuietMoves, EndsCommand
<1>4. CASE ~Finish("over")
  <2>1. /\ conv.there /\ <<"reply", Prompt(known)>> = lane.key
        /\ lane' = [lane EXCEPT !.pc = "post"] /\ ctask' = ctask
    BY <1>4 DEF CheckPrompt
  <2>2. TasksMove BY <1>1, <1>2, <2>1, SameTasks DEF commandVars
  <2>3. lane' \in Commands /\ SameCommand /\ lane'.pc = "post" /\ lane'.read = lane.read
    BY <1>1, <2>1, Handy DEF Commands, SameCommand, InHand
  <2>4. lane.pc \in InHand BY <1>2 DEF InHand
  <2>5. lane.key \in CommandKeys /\ ctask'[lane.key] # "none" BY <1>1, <2>1, <2>4 DEF TasksAsked
  <2>6. Prompt(known) # 0 /\ lane.key[2] = Prompt(known)
    BY <2>1, <2>5 DEF CommandKeys
  <2>7. \A i \in known : log[i].at <= Prompt(known) BY <1>1, <2>6, PromptAsks
  <2>8. 1 .. lane.seen \subseteq known BY <1>1, <1>2, <2>1 DEF Listened
  <2>9. Listened' BY <1>2, <2>3, <2>6, <2>7, <2>8 DEF Listened, SameCommand
  <2>10. QED BY <1>1, <1>2, <2>2, <2>3, <2>4, <2>5, <2>9, Handy, NoLog, QuietMoves, InTheLane
             DEF SameCommand, InHand
<1>5. QED BY <1>3, <1>4

LEMMA PostKeeps == ASSUME CommandInv, PostMessage PROVE CommandInv'
<1>1. ChatInv /\ TasksAsked BY DEF CommandInv
<1>2. /\ lane.pc = "post" /\ CanWrite
      /\ UNCHANGED <<moment, badge, active, known, appl, disc, sync, live>>
  BY DEF PostMessage
<1>3. /\ lane.key \in CommandKeys /\ ctask[lane.key] # "none"
      /\ Asked(lane.key)
  BY <1>1, <1>2 DEF TasksAsked, InHand
<1>4. CASE writable
  <2>1. /\ Deliver(lane.key) /\ lane' = [lane EXCEPT !.pc = "store"]
        /\ UNCHANGED <<conv, ctask>>
    BY <1>4 DEF PostMessage
  <2>2. LogGrows({Human, lane.key}) BY <1>1, <1>2, <1>3, <2>1, KeysAreKeys, DeliverMoves
  <2>3. \A k \in {Human, lane.key} : k = Human \/ Asking(k) BY <1>3 DEF Asking
  <2>4. Len(log) \in Nat /\ Len(log') \in Nat /\ Len(log) <= Len(log') /\ DOMAIN log \subseteq DOMAIN log'
    BY <1>1, <2>2, LogKept, LogFacts DEF ChatInv
  <2>5. RowMoves BY <1>1, <1>2, <2>1, <2>4, Handy DEF RowMoves
  <2>6. ReadersMove BY <1>1, <1>2, <2>4, Handy DEF ReadersMove
  <2>7. TasksMove BY <1>1, <1>2, <2>1, SameTasks DEF commandVars
  <2>8. lane' \in Commands /\ SameCommand /\ lane'.pc = "store" /\ lane'.read = lane.read
    BY <1>1, <2>1, Handy DEF Commands, SameCommand, InHand
  <2>9. Listened' BY <2>8 DEF Listened
  <2>10. lane.pc \in InHand /\ lane'.pc \in InHand BY <1>2, <2>8 DEF InHand
  <2>11. ctask'[lane'.key] # "none" /\ lane'.key \in CommandKeys BY <1>3, <2>1, <2>8 DEF SameCommand
  <2>12. lane'.seen <= Len(log') /\ lane'.read.n <= Len(log')
    BY <1>1, <2>4, <2>8, Handy DEF SameCommand
  <2>13. QED BY <1>1, <2>2, <2>3, <2>5, <2>6, <2>7, <2>8, <2>9, <2>10, <2>11, <2>12, Handy, InTheLane
<1>5. CASE ~writable
  <2>1. /\ CloseConversation \/ conv' = conv
        /\ Finish("over") /\ log' = log
    BY <1>5 DEF PostMessage
  <2>2. QED BY <1>1, <1>2, <2>1, FinishTurns, ClosingMoves, NoLog, QuietMoves, EndsCommand
<1>6. QED BY <1>4, <1>5

LEMMA EndKeeps ==
    ASSUME CommandInv, StoreMessage \/ CommandRefused \/ BreakCommand
    PROVE  CommandInv'
<1>1. ChatInv BY DEF CommandInv
<1>2. UNCHANGED <<moment, log, badge, active, appl, disc, sync, live>>
  BY DEF StoreMessage, CommandRefused, BreakCommand
<1>3. PICK s \in {"new", "over"} : Finish(s)
  BY DEF StoreMessage, CommandRefused, BreakCommand
<1>4. AppendSent(lane.key) \/ UNCHANGED <<conv, known>>
  BY DEF StoreMessage, CommandRefused, BreakCommand
<1>5. RowMoves BY <1>1, <1>2, <1>4, SentMoves
<1>6. QED BY <1>1, <1>2, <1>3, <1>5, FinishTurns, NoLog, QuietMoves, EndsCommand

LEMMA CommandInitInv == ASSUME ChatInit, CommandInit PROVE CommandInv
<1>1. ChatInv BY ChatInitInv
<1>2. lane.pc = "idle" BY NoCommandOK DEF ChatInit
<1>3. \A i \in DOMAIN log : log[i].key = Human
  <2>1. log \in {<<>>, <<Message("account", Human, "text")>>} BY DEF ChatInit
  <2>2. Message("account", Human, "text").key = Human BY DEF Message
  <2> DEFINE first == Message("account", Human, "text")
  <2> HIDE DEF first
  <2>3. first.key = Human /\ log \in {<<>>, <<first>>} BY <2>1, <2>2 DEF first
  <2>4. CASE log = <<>> BY <2>4
  <2>5. CASE log = <<first>>
    <3>1. DOMAIN log = {1} /\ log[1] = first BY <2>5
    <3>2. QED BY <2>3, <3>1
  <2>6. QED BY <2>3, <2>4, <2>5
<1>4. TasksAsked BY <1>2, <1>3 DEF CommandInit, TasksAsked, Delivered, InHand
<1>5. Listened BY <1>2 DEF Listened
<1>6. QED BY <1>1, <1>4, <1>5 DEF CommandInv

LEMMA CommandKeeps ==
    ASSUME CommandInv, [CommandNext]_<<chatVars, commandVars>>
    PROVE  CommandInv'
<1>1. CASE (AroundRow \/ NothingToCancel) /\ UNCHANGED commandVars
  BY <1>1, AroundMoves, AroundKeepsCommands DEF CommandInv
<1>2. CASE CommandStep
  BY <1>2, CommandsOfSync, OperatorCommands, ClaimKeeps, CheckKeeps, PostKeeps, EndKeeps
  DEF CommandStep
<1>3. CASE UNCHANGED <<chatVars, commandVars>>
  <2>1. ChatInv BY DEF CommandInv
  <2>2. UNCHANGED <<moment, log, badge, active, conv, known, appl, disc, sync, lane>>
    BY <1>3 DEF chatVars
  <2>3. EnvMoves BY <2>1, <2>2, QuietMoves DEF EnvMoves
  <2>4. QED BY <1>3, <2>3, AroundKeepsCommands
<1>4. QED BY <1>1, <1>2, <1>3 DEF CommandNext

(* The invariant of the commands holds in every state.                      *)
THEOREM CommandInductive == CommandSpec => []CommandInv
<1>1. QED BY CommandInitInv, CommandKeeps, PTL DEF CommandSpec

(* OneMessagePerCommand: one request, and one prompt, is answered by one    *)
(* message, at once or by a task and however often (worker/conversation.go, *)
(* api/httpapi/conversation.go).                                            *)
THEOREM AnsweredOnce == CommandSpec => []OneMessagePerCommand
<1>1. ASSUME CommandInv PROVE OneMessagePerCommand
  <2>1. ChatInv /\ TasksAsked BY <1>1 DEF CommandInv
  <2>2. SUFFICES ASSUME NEW i \in DOMAIN log, NEW j \in DOMAIN log, i # j,
                        log[i].key # Human, log[j].key # Human,
                        log[i].key[2] = log[j].key[2]
                 PROVE  FALSE
    BY DEF OneMessagePerCommand
  <2> DEFINE a == log[i].key
             b == log[j].key
  <2>3. a # b BY <2>1, <2>2 DEF ChatInv, LogOK
  <2>4. Asking(a) /\ Asking(b)
    <3>1. a \in AllKeys /\ b \in AllKeys BY <2>1, LogFacts DEF ChatInv, Messages
    <3>2. Delivered(a) /\ Delivered(b) BY DEF Delivered
    <3>3. QED BY <2>1, <2>2, <3>1, <3>2 DEF TasksAsked
  <2>5. a # Human /\ b # Human /\ a[2] = b[2] BY <2>2
  <2> HIDE DEF a, b
  <2>6. a = <<a[1], a[2]>> /\ b = <<b[1], b[2]>>
    BY <2>4 DEF Asking, CommandKeys
  <2>7. a[1] # b[1] BY <2>3, <2>5, <2>6
  <2>8. {a[1], b[1]} \subseteq {"answer", "reply"}
    <3>1. \A k \in CommandKeys : \/ k[1] = "send" /\ k[2] \in Requests
                                 \/ k[1] \in {"answer", "reply"} /\ k[2] \in 1 .. LastMoment
      BY DEF CommandKeys
    <3>2. Requests \cap (1 .. LastMoment) = {} BY RequestAssumption, ConversationAssumption
    <3>3. QED BY <2>4, <2>5, <2>7, <3>1, <3>2 DEF Asking
  <2>9. \E x, y \in DOMAIN log : /\ log[x].at = a[2] /\ log[x].kind = "buttons"
                                 /\ log[y].at = a[2] /\ log[y].kind = "question"
    BY <2>4, <2>5, <2>7, <2>8 DEF Asking, Asked
  <2>10. PICK x \in DOMAIN log, y \in DOMAIN log :
             /\ log[x].at = a[2] /\ log[x].kind = "buttons"
             /\ log[y].at = a[2] /\ log[y].kind = "question"
    BY <2>9
  <2>11. x \in Nat /\ y \in Nat /\ log[x].at \in Nat BY <2>1, <2>10, LogFacts DEF ChatInv, Messages
  <2>12. x = y \/ x < y \/ y < x BY <2>11
  <2>13. QED BY <2>1, <2>10, <2>11, <2>12 DEF ChatInv, LogOK
<1>2. QED BY <1>1, CommandInductive, PTL

(* HumanAnswerStops: a generated reply is posted only if nothing followed   *)
(* the question in the chat when its task started (worker/conversation_     *)
(* reply.go).                                                               *)
THEOREM HumansFirst == CommandSpec => HumanAnswerStops
<1>1. ASSUME CommandInv, [CommandNext]_<<chatVars, commandVars>>
      PROVE  [(lane.pc = "post" /\ lane'.pc = "store" /\ IsReply /\ ~Delivered(lane.key))
               => \A i \in 1 .. lane.seen : log[i].at <= lane.key[2]]_<<chatVars, commandVars>>
  BY <1>1 DEF CommandInv, Listened
<1>2. QED BY <1>1, CommandInductive, PTL DEF CommandSpec, HumanAnswerStops

-----------------------------------------------------------------------------
(* The follow-ups.                                                          *)

LEMMA FollowKeys ==
    /\ \A k \in {"follow"} \X FollowUpIds :
          k \in AllKeys /\ k # Human /\ k[1] = "follow" /\ k[2] \in FollowUpIds
    /\ Human[1] # "follow" /\ Human[2] \notin FollowUpIds
BY FollowUpAssumption DEF AllKeys, Human

LEMMA RemindersStay ==
    ASSUME ChatInv, LogGrows({Human})
    PROVE  /\ Reminders' = Reminders
           /\ \A i \in Reminders : i \in DOMAIN log /\ log'[i] = log[i]
<1>1. /\ DOMAIN log \subseteq DOMAIN log'
      /\ \A i \in DOMAIN log : log'[i] = log[i]
      /\ \A i \in DOMAIN log' \ DOMAIN log : log'[i].key = Human
  BY LogKept DEF ChatInv
<1>2. QED BY <1>1, FollowKeys DEF Reminders

LEMMA RemindersAreOurs ==
    ASSUME ChatInv
    PROVE  \A i \in Reminders :
              /\ i \in DOMAIN log /\ i \in Nat /\ i <= Len(log)
              /\ log[i].from = "account" /\ log[i].at \in Nat \ {0}
BY LogFacts, FollowKeys DEF ChatInv, LogOK, Reminders, Messages

(* The follow-ups as a step leaves them, for the one the lane has.          *)
FollowUpsMove ==
    /\ fup' \in [FollowUpIds -> FollowUpRows] /\ ftask' \in [FollowUpIds -> FollowUpTasks]
    /\ \A f \in FollowUpIds : fup'[f].status = "queued" => fup'[f].runAt <= moment
    /\ lane.pc = "post" =>
          /\ fup'[Ours].runAt <= moment /\ fup'[Ours].status # "scheduled"
          /\ fup'[Ours].status = "none" => ~conv'.there

LEMMA Numbers ==
    /\ MaxFollowUps \in Nat /\ Cooldown \in Nat /\ MinimumSilence \in Nat
    /\ \A d \in RunDelays : d \in Nat
    /\ \A d \in Deadlines : d \in Nat
BY FollowUpAssumption

LEMMA OursIsOne ==
    ASSUME FollowTypeOK, lane.pc \in InHand
    PROVE  /\ lane.key \in AllKeys /\ lane.key # Human
           /\ lane.key[1] = "follow" /\ Ours \in FollowUpIds
BY FollowKeys DEF FollowTypeOK, Ours

LEMMA AroundKeepsFollowUps ==
    ASSUME FollowInv, EnvMoves, ftask' = ftask,
           fup' = IF ChatGoes THEN [f \in FollowUpIds |-> NoFollowUp] ELSE fup
    PROVE  FollowInv'
<1>1. ChatInv /\ FollowTypeOK /\ DueInv /\ SpacedInv BY DEF FollowInv
<1>2. ChatInv' BY <1>1, EnvKeeps
<1>3. LogGrows({Human}) /\ RowMoves /\ LaneMoves BY DEF EnvMoves
<1>4. lane'.pc \in InHand => lane.pc \in InHand /\ lane'.key = lane.key
  BY <1>3 DEF LaneMoves, InHand, SameCommand
<1>5. moment \in Nat /\ moment' \in Nat /\ moment <= moment'
  BY <1>1, <1>2, <1>3, Handy DEF LogGrows, ChatInv, ChatTypeOK
<1>6. NoFollowUp \in FollowUpRows /\ NoFollowUp.status = "none" /\ NoFollowUp.runAt = 0
  BY DEF NoFollowUp, FollowUpRows
<1>7. /\ fup' \in [FollowUpIds -> FollowUpRows]
      /\ \A f \in FollowUpIds :
            \/ fup'[f] = fup[f]
            \/ fup'[f] = NoFollowUp /\ ~conv'.there
  BY <1>1, <1>6 DEF FollowTypeOK, ChatGoes
<1>8. FollowTypeOK' BY <1>1, <1>4, <1>7 DEF FollowTypeOK
<1>9. \A f \in FollowUpIds : fup[f].runAt \in Nat BY <1>1 DEF FollowTypeOK, FollowUpRows
<1>10. DueInv'
  <2>1. \A f \in FollowUpIds : fup'[f].status = "queued" => fup'[f].runAt <= moment'
    BY <1>1, <1>5, <1>6, <1>7, <1>9 DEF DueInv
  <2>2. ASSUME lane'.pc = "post"
        PROVE  /\ fup'[Ours'].runAt <= moment' /\ fup'[Ours'].status # "scheduled"
               /\ fup'[Ours'].status = "none" => ~conv'.there
    <3>1. lane.pc = "post" /\ Ours' = Ours
      BY <1>3, <1>4, <2>2 DEF LaneMoves, InHand, Ours
    <3>2. Ours \in FollowUpIds BY <1>1, <3>1, OursIsOne DEF InHand
    <3>3. conv'.there => conv.there BY <1>1, <1>3, <3>1, Handy DEF RowMoves, InHand
    <3>4. QED BY <1>1, <1>5, <1>6, <1>7, <1>9, <3>1, <3>2, <3>3 DEF DueInv
  <2>3. QED BY <2>1, <2>2 DEF DueInv
<1>11. SpacedInv'
  <2>1. /\ Reminders' = Reminders
        /\ \A i \in Reminders : i \in DOMAIN log /\ log'[i] = log[i]
    BY <1>1, <1>3, RemindersStay
  <2>2. \A i \in Reminders : log[i].at \in Nat /\ i \in Nat /\ i <= Len(log)
    BY <1>1, RemindersAreOurs
  <2>3. FollowUpsSpaced' BY <1>1, <2>1 DEF SpacedInv, FollowUpsSpaced
  <2>4. CASE lane' = lane
    <3>1. lane'.pc \in {"present", "link", "append"} => \A i \in Reminders' : i <= lane'.read.n
      BY <1>1, <2>1, <2>4 DEF SpacedInv
    <3>2. lane'.pc = "check" /\ conv'.there => Reminders' \subseteq known'
      BY <1>1, <1>3, <2>1, <2>4, Handy DEF SpacedInv, RowMoves, InHand
    <3>3. lane'.pc = "post" => \A i \in Reminders' : log'[i].at + Cooldown <= moment'
      BY <1>1, <1>5, <2>1, <2>2, <2>4, Numbers DEF SpacedInv
    <3>4. QED BY <2>3, <3>1, <3>2, <3>3 DEF SpacedInv
  <2>5. CASE lane'.pc \in {"idle", "told"} BY <2>3, <2>5 DEF SpacedInv
  <2>6. CASE lane'.pc = "present" /\ lane'.read.n = Len(log)
    BY <2>1, <2>2, <2>3, <2>6 DEF SpacedInv
  <2>7. CASE /\ lane.pc \in {"present", "link"} /\ lane'.pc \in {"link", "append"}
             /\ lane'.read.n = lane.read.n
    BY <1>1, <2>1, <2>3, <2>7 DEF SpacedInv
  <2>8. CASE lane.pc = "append" /\ lane'.pc = "check" /\ 1 .. lane.read.n \subseteq known'
    <3>1. \A i \in Reminders : i \in 1 .. lane.read.n
      BY <1>1, <2>2, <2>8, LogFacts, RemindersAreOurs DEF SpacedInv, ChatInv
    <3>2. QED BY <2>1, <2>3, <2>8, <3>1 DEF SpacedInv
  <2>9. QED BY <1>3, <2>4, <2>5, <2>6, <2>7, <2>8 DEF LaneMoves
<1>12. QED BY <1>2, <1>8, <1>10, <1>11 DEF FollowInv

(* One follow-up, or one task, changes.                                     *)
OnlyFollowUp(f, row) ==
    /\ fup' \in [FollowUpIds -> FollowUpRows] /\ fup'[f] = row
    /\ \A g \in FollowUpIds : g # f => fup'[g] = fup[g]

LEMMA OneFollowUp ==
    ASSUME FollowTypeOK, NEW f \in FollowUpIds, NEW row \in FollowUpRows,
           fup' = [fup EXCEPT ![f] = row]
    PROVE  OnlyFollowUp(f, row)
BY DEF FollowTypeOK, OnlyFollowUp

LEMMA MarkIs ==
    ASSUME FollowTypeOK, NEW f \in FollowUpIds,
           NEW s \in {"none", "scheduled", "queued", "sent", "cancelled", "expired"}, Mark(f, s)
    PROVE  \E row \in FollowUpRows :
              /\ row.status = s /\ row.runAt = fup[f].runAt
              /\ OnlyFollowUp(f, row)
<1> DEFINE row == [fup[f] EXCEPT !.status = s]
<1>1. fup[f] \in FollowUpRows BY DEF FollowTypeOK
<1>2. row \in FollowUpRows /\ row.status = s /\ row.runAt = fup[f].runAt
  BY <1>1 DEF FollowUpRows
<1>3. fup' = [fup EXCEPT ![f] = row] BY DEF Mark
<1> HIDE DEF row
<1>4. QED BY <1>2, <1>3, OneFollowUp

LEMMA TimedIs ==
    ASSUME FollowTypeOK, moment \in Nat, NEW old \in FollowUpRows, NEW delay \in RunDelays,
           NEW deadline \in Deadlines
    PROVE  /\ Timed(old, delay, deadline) \in FollowUpRows
           /\ Timed(old, delay, deadline).status = old.status
<1> DEFINE runAt == moment + delay
           until == IF deadline = 0 THEN 0 ELSE moment + deadline
<1>1. runAt \in Nat /\ until \in Nat BY Numbers
<1>2. Timed(old, delay, deadline) = [old EXCEPT !.runAt = runAt, !.deadline = until]
  BY DEF Timed
<1> HIDE DEF runAt, until
<1>3. QED BY <1>1, <1>2 DEF FollowUpRows

(* A follow-up that is not queued, and that the lane does not post, may get *)
(* any time; a queued one keeps its own, whatever it becomes.               *)
LEMMA OneMoves ==
    ASSUME FollowInv, moment' = moment, conv' = conv, NEW f \in FollowUpIds,
           NEW row \in FollowUpRows, OnlyFollowUp(f, row),
           ftask' \in [FollowUpIds -> FollowUpTasks],
           row.status = "queued" => row.runAt <= moment,
           lane.pc = "post" /\ Ours = f =>
              row.runAt = fup[f].runAt /\ row.status \notin {"none", "scheduled"}
    PROVE  FollowUpsMove
<1>1. FollowTypeOK /\ DueInv BY DEF FollowInv
<1>2. \A g \in FollowUpIds : fup'[g].status = "queued" => fup'[g].runAt <= moment
  BY <1>1 DEF DueInv, OnlyFollowUp
<1>3. ASSUME lane.pc = "post"
      PROVE  /\ fup'[Ours].runAt <= moment /\ fup'[Ours].status # "scheduled"
             /\ fup'[Ours].status = "none" => ~conv'.there
  <2>1. Ours \in FollowUpIds BY <1>1, <1>3, OursIsOne DEF InHand
  <2>2. QED BY <1>1, <1>3, <2>1 DEF DueInv, OnlyFollowUp
<1>4. QED BY <1>2, <1>3 DEF FollowUpsMove, OnlyFollowUp

LEMMA NoneMove ==
    ASSUME FollowInv, moment' = moment, conv' = conv, fup' = fup,
           ftask' \in [FollowUpIds -> FollowUpTasks]
    PROVE  FollowUpsMove
BY DEF FollowInv, FollowTypeOK, DueInv, FollowUpsMove

(* A step that leaves the lane as it is.                                    *)
LEMMA BesideFollowUps ==
    ASSUME FollowInv, FollowUpsMove, UNCHANGED <<moment, log, conv, known, lane>>, ReadersMove
    PROVE  FollowInv'
<1>1. ChatInv /\ FollowTypeOK /\ SpacedInv BY DEF FollowInv
<1>2. ChatInv' BY <1>1, NoLog, QuietMoves, Handy, ChatKept
<1>3. FollowTypeOK' BY <1>1 DEF FollowTypeOK, FollowUpsMove
<1>4. DueInv' BY DEF DueInv, FollowUpsMove, Ours
<1>5. SpacedInv' BY <1>1 DEF SpacedInv, Reminders, FollowUpsSpaced
<1>6. QED BY <1>2, <1>3, <1>4, <1>5 DEF FollowInv

LEMMA EnqueuedIs ==
    ASSUME FollowTypeOK, NEW due, fup' \in [FollowUpIds -> FollowUpRows], ftask' = Enqueued(due)
    PROVE  ftask' \in [FollowUpIds -> FollowUpTasks]
BY DEF FollowTypeOK, Enqueued, FollowUpRows, FollowUpTasks

LEMMA PlansKeep ==
    ASSUME FollowInv, NEW f \in FollowUpIds,
           \/ SelectFollowUp(f) \/ ScheduleByHand(f) \/ RescheduleFollowUp(f)
           \/ RunFollowUpNow(f) \/ CancelFollowUp(f) \/ ExpireTask(f)
    PROVE  FollowInv'
<1>1. ChatInv /\ FollowTypeOK /\ DueInv BY DEF FollowInv
<1>2. UNCHANGED chatVars
  BY DEF SelectFollowUp, ScheduleByHand, ScheduleFollowUp, RescheduleFollowUp, RunFollowUpNow,
         CancelFollowUp, ExpireTask
<1>3. UNCHANGED <<moment, log, badge, active, conv, known, appl, disc, sync, lane>>
  BY <1>2 DEF chatVars
<1>4. moment \in Nat /\ LastOutgoingAt \in Nat /\ fup[f] \in FollowUpRows
  BY <1>1, Handy, LastTimes DEF ChatInv, FollowTypeOK
<1>5. lane.pc = "post" =>
         /\ fup[Ours].status # "scheduled"
         /\ fup[Ours].status = "none" => ~conv.there
  BY <1>1 DEF DueInv
<1>6. ASSUME NEW anchor \in Nat, ScheduleFollowUp(f, anchor) PROVE FollowUpsMove
  <2>1. fup[f].status = "none" /\ conv.there /\ ftask' = ftask
    BY <1>6 DEF ScheduleFollowUp, With
  <2>2. PICK delay \in RunDelays, deadline \in Deadlines :
            fup' = [fup EXCEPT ![f] = Timed([fup[f] EXCEPT !.status = "scheduled", !.anchor = anchor], delay, deadline)]
    BY <1>6 DEF ScheduleFollowUp
  <2> DEFINE old == [fup[f] EXCEPT !.status = "scheduled", !.anchor = anchor]
             row == Timed(old, delay, deadline)
  <2>3. old \in FollowUpRows /\ old.status = "scheduled" BY <1>4, <1>6 DEF FollowUpRows
  <2>4. fup' = [fup EXCEPT ![f] = row] BY <2>2
  <2> HIDE DEF old
  <2>5. row \in FollowUpRows /\ row.status = "scheduled" BY <1>1, <1>4, <2>3, TimedIs
  <2> HIDE DEF row
  <2>6. OnlyFollowUp(f, row) BY <1>1, <2>4, <2>5, OneFollowUp
  <2>7. ~(lane.pc = "post" /\ Ours = f) BY <1>5, <2>1
  <2>8. QED BY <1>1, <1>3, <2>1, <2>5, <2>6, <2>7, OneMoves DEF FollowTypeOK
<1>7. CASE SelectFollowUp(f) \/ ScheduleByHand(f)
  <2>1. FollowUpsMove BY <1>4, <1>6, <1>7 DEF SelectFollowUp, ScheduleByHand
  <2>2. QED BY <1>1, <1>3, <2>1, QuietMoves, BesideFollowUps
<1>8. CASE RescheduleFollowUp(f)
  <2>1. PICK delay \in RunDelays, deadline \in Deadlines :
            fup' = [fup EXCEPT ![f] = Timed(fup[f], delay, deadline)]
    BY <1>8 DEF RescheduleFollowUp
  <2>2. fup[f].status = "scheduled" /\ ftask' = ftask BY <1>8 DEF RescheduleFollowUp
  <2> DEFINE row == Timed(fup[f], delay, deadline)
  <2>3. row \in FollowUpRows /\ row.status = "scheduled" BY <1>1, <1>4, <2>2, TimedIs
  <2>4. fup' = [fup EXCEPT ![f] = row] BY <2>1
  <2> HIDE DEF row
  <2>5. OnlyFollowUp(f, row) BY <1>1, <2>3, <2>4, OneFollowUp
  <2>6. ~(lane.pc = "post" /\ Ours = f) BY <1>5, <2>2
  <2>7. FollowUpsMove BY <1>1, <1>3, <2>2, <2>3, <2>5, <2>6, OneMoves DEF FollowTypeOK
  <2>8. QED BY <1>1, <1>3, <2>7, QuietMoves, BesideFollowUps
<1>9. CASE RunFollowUpNow(f)
  <2> DEFINE row == [fup[f] EXCEPT !.runAt = moment]
  <2>1. /\ fup[f].status = "scheduled" /\ fup' = [fup EXCEPT ![f] = row]
        /\ ftask' = ftask
    BY <1>9 DEF RunFollowUpNow
  <2>2. row \in FollowUpRows /\ row.status = "scheduled" BY <1>4, <2>1 DEF FollowUpRows
  <2> HIDE DEF row
  <2>3. OnlyFollowUp(f, row) BY <1>1, <2>1, <2>2, OneFollowUp
  <2>4. ftask' \in [FollowUpIds -> FollowUpTasks] BY <1>1, <2>1 DEF FollowTypeOK
  <2>5. ~(lane.pc = "post" /\ Ours = f) BY <1>5, <2>1
  <2>6. FollowUpsMove BY <1>3, <2>2, <2>3, <2>4, <2>5, OneMoves
  <2>7. QED BY <1>1, <1>3, <2>6, QuietMoves, BesideFollowUps
<1>10. CASE CancelFollowUp(f)
  <2>1. Mark(f, "cancelled") /\ ftask' = ftask BY <1>10 DEF CancelFollowUp
  <2>2. PICK row \in FollowUpRows :
            /\ row.status = "cancelled" /\ row.runAt = fup[f].runAt
            /\ OnlyFollowUp(f, row)
    BY <1>1, <2>1, MarkIs
  <2>3. FollowUpsMove BY <1>1, <1>3, <2>1, <2>2, OneMoves DEF FollowTypeOK
  <2>4. QED BY <1>1, <1>3, <2>3, QuietMoves, BesideFollowUps
<1>11. CASE ExpireTask(f)
  <2>1. fup' = fup /\ ftask' = [ftask EXCEPT ![f].status = "over"] BY <1>11 DEF ExpireTask
  <2>2. ftask' \in [FollowUpIds -> FollowUpTasks]
    BY <1>1, <2>1 DEF FollowTypeOK, FollowUpTasks
  <2>3. FollowUpsMove BY <1>3, <2>1, <2>2, NoneMove
  <2>4. QED BY <1>1, <1>3, <2>3, QuietMoves, BesideFollowUps
<1>12. QED BY <1>7, <1>8, <1>9, <1>10, <1>11

LEMMA ReconcileKeeps ==
    ASSUME FollowInv, ReconcileDueFollowUps \/ CancelPendingFollowUps
    PROVE  FollowInv'
<1>1. ChatInv /\ FollowTypeOK /\ DueInv BY DEF FollowInv
<1>2. CASE ReconcileDueFollowUps
  <2>1. fup' = fup /\ ftask' = Enqueued(Due) /\ UNCHANGED chatVars
    BY <1>2 DEF ReconcileDueFollowUps
  <2>2. UNCHANGED <<moment, log, badge, active, conv, known, appl, disc, sync, lane>>
    BY <2>1 DEF chatVars
  <2>3. fup' \in [FollowUpIds -> FollowUpRows] BY <1>1, <2>1 DEF FollowTypeOK
  <2>4. FollowUpsMove BY <1>1, <2>1, <2>2, <2>3, EnqueuedIs, NoneMove
  <2>5. QED BY <1>1, <2>2, <2>4, QuietMoves, BesideFollowUps
<1>3. CASE CancelPendingFollowUps
  <2>1. /\ disc.pc = "cancel" /\ disc' = [disc EXCEPT !.pc = "append"] /\ ftask' = ftask
        /\ UNCHANGED <<moment, log, badge, active, conv, known, appl, sync, lane>>
        /\ fup' = [f \in FollowUpIds |->
                     IF f \in Pending THEN [fup[f] EXCEPT !.status = "cancelled"] ELSE fup[f]]
    BY <1>3 DEF CancelPendingFollowUps
  <2>2. disc' \in Reads /\ disc'.n = disc.n BY <1>1, <2>1, Handy DEF Reads, Places
  <2>3. ReadersMove BY <1>1, <2>1, <2>2, Handy DEF ReadersMove
  <2>4. \A f \in FollowUpIds :
           /\ fup[f] \in FollowUpRows
           /\ fup'[f] = fup[f] \/ fup'[f] = [fup[f] EXCEPT !.status = "cancelled"]
    BY <1>1, <2>1 DEF FollowTypeOK
  <2>5. \A f \in FollowUpIds :
           /\ fup'[f] \in FollowUpRows /\ fup'[f].runAt = fup[f].runAt
           /\ fup'[f].status \in {fup[f].status, "cancelled"}
    BY <2>4 DEF FollowUpRows
  <2>6. fup' \in [FollowUpIds -> FollowUpRows] BY <2>1, <2>5
  <2>7. ASSUME lane.pc = "post"
        PROVE  /\ fup'[Ours].runAt <= moment /\ fup'[Ours].status # "scheduled"
               /\ fup'[Ours].status = "none" => ~conv'.there
    <3>1. Ours \in FollowUpIds BY <1>1, <2>7, OursIsOne DEF InHand
    <3>2. QED BY <1>1, <2>1, <2>5, <2>7, <3>1 DEF DueInv
  <2>8. FollowUpsMove
    BY <1>1, <2>1, <2>5, <2>6, <2>7 DEF FollowUpsMove, DueInv, FollowTypeOK
  <2>9. QED BY <2>1, <2>3, <2>8, BesideFollowUps
<1>4. QED BY <1>2, <1>3

(* What a preparation decides.                                              *)
LEMMA Prepares ==
    ASSUME FollowInv, NEW f \in FollowUpIds
    PROVE  /\ Prepared(f)[1] \in {"none", "scheduled", "queued", "sent", "cancelled", "expired"}
           /\ Prepared(f)[2] \in BOOLEAN
           /\ Prepared(f)[1] = "queued" => fup[f].runAt <= moment
           /\ Prepared(f)[2] =>
                 /\ Prepared(f)[1] = "queued" /\ conv.there
                 /\ LastOutgoingAt = 0 \/ moment >= LastOutgoingAt + Cooldown
<1> DEFINE was == fup[f].status
           stops == \/ Cancels(fup[f].anchor)
                    \/ Cardinality(With({"sent"})) >= MaxFollowUps
                    \/ LastOutgoingAt # 0 /\ moment < LastOutgoingAt + Cooldown
<1>1. /\ was \in {"none", "scheduled", "queued", "sent", "cancelled", "expired"}
      /\ fup[f].runAt \in Nat /\ moment \in Nat /\ LastOutgoingAt \in Nat /\ Cooldown \in Nat
      /\ was = "queued" => fup[f].runAt <= moment
  BY Handy, LastTimes, Numbers DEF FollowInv, ChatInv, FollowTypeOK, FollowUpRows, DueInv
<1>2. CASE f \notin Pending
  <2>1. Prepared(f) = <<was, FALSE>> BY <1>2 DEF Prepared
  <2>2. QED BY <1>1, <2>1
<1>3. CASE f \in Pending /\ Past(fup[f].deadline)
  <2>1. Prepared(f) = <<"expired", FALSE>> BY <1>3 DEF Prepared
  <2>2. QED BY <2>1
<1>4. CASE f \in Pending /\ ~Past(fup[f].deadline)
  <2>1. Prepared(f) = IF ~conv.there THEN <<was, FALSE>>
                      ELSE IF stops THEN <<"cancelled", FALSE>>
                      ELSE IF was = "scheduled" /\ moment < fup[f].runAt THEN <<was, FALSE>>
                      ELSE <<"queued", TRUE>>
    BY <1>4 DEF Prepared
  <2>2. was \in {"scheduled", "queued"} BY <1>4 DEF Pending, With
  <2>3. ~stops => LastOutgoingAt = 0 \/ moment >= LastOutgoingAt + Cooldown BY <1>1
  <2> HIDE DEF stops
  <2>4. CASE ~conv.there BY <1>1, <2>1, <2>4
  <2>5. CASE conv.there /\ stops BY <2>1, <2>5
  <2>6. CASE conv.there /\ ~stops /\ was = "scheduled" /\ moment < fup[f].runAt
    BY <1>1, <2>1, <2>6
  <2>7. CASE conv.there /\ ~stops /\ ~(was = "scheduled" /\ moment < fup[f].runAt)
    BY <1>1, <2>1, <2>2, <2>3, <2>7
  <2>8. QED BY <2>4, <2>5, <2>6, <2>7
<1>5. QED BY <1>2, <1>3, <1>4

(* A step of the follow-up in the lane that posts nothing.                  *)
LEMMA InFollowLane ==
    ASSUME FollowInv, lane' \in Commands, NEW allowed, LogGrows(allowed),
           RowMoves, ReadersMove, FollowTypeOK', DueInv', SpacedInv',
           lane'.seen <= Len(log'), lane'.read.n <= Len(log'),
           lane'.pc \in InHand => conv.gen = 1,
           lane'.pc \notin InHand => lane'.key = Human
    PROVE  FollowInv'
<1>1. ChatInv BY DEF FollowInv
<1>2. ChatInv' BY <1>1, ChatKept
<1>3. QED BY <1>2 DEF FollowInv

(* The end of a command, or a place where nothing is to be said of it.      *)
Unwatched == {"idle", "told", "refresh", "store", "mark"}

LEMMA UnwatchedKeeps ==
    ASSUME FollowInv, moment' = moment, log' = log, lane'.pc \in Unwatched,
           \A f \in FollowUpIds : fup'[f].status = "queued" => fup'[f].runAt <= moment
    PROVE  DueInv' /\ SpacedInv'
<1>1. SpacedInv BY DEF FollowInv
<1>2. Reminders' = Reminders /\ FollowUpsSpaced'
  BY <1>1 DEF Reminders, SpacedInv, FollowUpsSpaced
<1>3. QED BY <1>2 DEF DueInv, SpacedInv, Unwatched

LEMMA StopEnds ==
    ASSUME FollowInv, NEW s \in {"new", "over"}, Stop(s)
    PROVE  /\ lane' = NoCommand /\ ftask' \in [FollowUpIds -> FollowUpTasks]
BY DEF FollowInv, FollowTypeOK, FollowUpTasks, Stop

LEMMA EndsFollowUp ==
    ASSUME FollowInv, lane' = NoCommand, moment' = moment, log' = log, RowMoves, ReadersMove,
           fup' \in [FollowUpIds -> FollowUpRows], ftask' \in [FollowUpIds -> FollowUpTasks],
           \A f \in FollowUpIds : fup'[f].status = "queued" => fup'[f].runAt <= moment
    PROVE  FollowInv'
<1>1. ChatInv BY DEF FollowInv
<1>2. DueInv' /\ SpacedInv' BY NoCommandOK, UnwatchedKeeps DEF Unwatched
<1>3. FollowTypeOK' BY NoCommandOK DEF FollowTypeOK, InHand
<1>4. Len(log') \in Nat BY <1>1, LogFacts DEF ChatInv
<1>5. lane'.pc \notin InHand BY NoCommandOK DEF InHand
<1>6. QED BY <1>1, <1>2, <1>3, <1>4, <1>5, NoCommandOK, NoLog, InFollowLane

LEMMA PreparedIs ==
    ASSUME FollowInv, NEW f \in FollowUpIds, Mark(f, Prepared(f)[1])
    PROVE  /\ fup' \in [FollowUpIds -> FollowUpRows]
           /\ fup'[f].status = Prepared(f)[1] /\ fup'[f].runAt = fup[f].runAt
           /\ \A g \in FollowUpIds : fup'[g].status = "queued" => fup'[g].runAt <= moment
<1>1. FollowTypeOK /\ DueInv BY DEF FollowInv
<1>2. PICK row \in FollowUpRows :
          /\ row.status = Prepared(f)[1] /\ row.runAt = fup[f].runAt
          /\ OnlyFollowUp(f, row)
  BY <1>1, Prepares, MarkIs
<1>3. QED BY <1>1, <1>2, Prepares DEF OnlyFollowUp, DueInv

LEMMA ClaimFollowUpKeeps ==
    ASSUME FollowInv, NEW f \in FollowUpIds, ClaimFollowUp(f)
    PROVE  FollowInv'
<1>1. ChatInv /\ FollowTypeOK BY DEF FollowInv
<1>2. /\ lane.pc = "idle" /\ Mark(f, Prepared(f)[1])
      /\ ftask' = [ftask EXCEPT ![f].status = IF Prepared(f)[2] THEN "running" ELSE "over"]
      /\ lane' = IF Prepared(f)[2] THEN [lane EXCEPT !.pc = "refresh", !.key = <<"follow", f>>] ELSE lane
      /\ UNCHANGED <<moment, log, badge, active, conv, known, appl, disc, sync>>
  BY DEF ClaimFollowUp
<1>3. /\ fup' \in [FollowUpIds -> FollowUpRows]
      /\ \A g \in FollowUpIds : fup'[g].status = "queued" => fup'[g].runAt <= moment
  BY <1>2, PreparedIs
<1>4. ftask' \in [FollowUpIds -> FollowUpTasks] BY <1>1, <1>2 DEF FollowTypeOK, FollowUpTasks
<1>5. CASE Prepared(f)[2]
  <2>1. lane' = [lane EXCEPT !.pc = "refresh", !.key = <<"follow", f>>] BY <1>2, <1>5
  <2>2. <<"follow", f>> \in AllKeys /\ <<"follow", f>> \in {"follow"} \X FollowUpIds
    BY DEF AllKeys
  <2>3. /\ lane' \in Commands /\ lane'.pc = "refresh" /\ lane'.key = <<"follow", f>>
        /\ lane'.seen = lane.seen /\ lane'.read = lane.read
    BY <1>1, <2>1, <2>2, Handy DEF Commands, InHand
  <2>4. conv.gen = 1 BY <1>1, <1>5, Prepares, Handy
  <2>5. FollowTypeOK' BY <1>3, <1>4, <2>2, <2>3 DEF FollowTypeOK
  <2>6. DueInv' /\ SpacedInv' BY <1>2, <1>3, <2>3, UnwatchedKeeps DEF Unwatched
  <2>7. lane'.pc \in InHand BY <2>3 DEF InHand
  <2>8. QED BY <1>1, <1>2, <2>3, <2>4, <2>5, <2>6, <2>7, Handy, NoLog, QuietMoves, InFollowLane
<1>6. CASE ~Prepared(f)[2]
  <2>1. lane' = lane BY <1>2, <1>6
  <2>2. FollowUpsMove BY <1>2, <1>3, <1>4 DEF FollowUpsMove
  <2>3. QED BY <1>1, <1>2, <2>1, <2>2, QuietMoves, BesideFollowUps
<1>7. QED BY <1>5, <1>6

LEMMA PrepareAgainKeeps == ASSUME FollowInv, PrepareAgain PROVE FollowInv'
<1>1. ChatInv /\ FollowTypeOK /\ SpacedInv BY DEF FollowInv
<1>2. /\ lane.pc = "check" /\ Mark(Ours, Prepared(Ours)[1])
      /\ IF Prepared(Ours)[2] THEN GoOn("post") ELSE Stop("over")
      /\ UNCHANGED <<moment, log, badge, active, conv, known, appl, disc, sync>>
  BY DEF PrepareAgain
<1>3. lane.pc \in InHand /\ Ours \in FollowUpIds BY <1>1, <1>2, OursIsOne DEF InHand
<1>4. /\ fup' \in [FollowUpIds -> FollowUpRows]
      /\ fup'[Ours].status = Prepared(Ours)[1] /\ fup'[Ours].runAt = fup[Ours].runAt
      /\ \A g \in FollowUpIds : fup'[g].status = "queued" => fup'[g].runAt <= moment
  BY <1>2, <1>3, PreparedIs
<1>5. CASE ~Prepared(Ours)[2]
  <2>1. Stop("over") BY <1>2, <1>5
  <2>2. QED BY <1>1, <1>2, <1>4, <2>1, StopEnds, QuietMoves, EndsFollowUp
<1>6. CASE Prepared(Ours)[2]
  <2>1. lane' = [lane EXCEPT !.pc = "post"] /\ ftask' = ftask BY <1>2, <1>6 DEF GoOn
  <2>2. /\ lane' \in Commands /\ lane'.pc = "post" /\ lane'.key = lane.key
        /\ lane'.seen = lane.seen /\ lane'.read = lane.read
    BY <1>1, <2>1, Handy DEF Commands, InHand
  <2>3. /\ Prepared(Ours)[1] = "queued" /\ conv.there
        /\ LastOutgoingAt = 0 \/ moment >= LastOutgoingAt + Cooldown
    BY <1>3, <1>6, Prepares
  <2>4. FollowTypeOK' BY <1>1, <1>3, <1>4, <2>1, <2>2 DEF FollowTypeOK
  <2>5. Ours' = Ours BY <2>2 DEF Ours
  <2>6. DueInv' BY <1>2, <1>3, <1>4, <2>3, <2>5 DEF DueInv
  <2>7. Reminders \subseteq known BY <1>1, <1>2, <2>3 DEF SpacedInv
  <2>8. ASSUME NEW i \in Reminders PROVE log[i].at + Cooldown <= moment
    <3>1. i \in known /\ log[i].from = "account" /\ log[i].at \in Nat \ {0}
      BY <1>1, <2>7, RemindersAreOurs
    <3>2. log[i].at <= LastOutgoingAt /\ LastOutgoingAt \in Nat
      BY <1>1, <3>1, Handy, LastTimes DEF ChatInv
    <3>3. moment \in Nat /\ Cooldown \in Nat BY <1>1, Handy, Numbers
    <3>4. QED BY <2>3, <3>1, <3>2, <3>3
  <2>9. SpacedInv'
    <3>1. Reminders' = Reminders /\ FollowUpsSpaced'
      BY <1>1, <1>2 DEF Reminders, SpacedInv, FollowUpsSpaced
    <3>2. QED BY <1>2, <2>2, <2>8, <3>1 DEF SpacedInv
  <2>10. lane'.pc \in InHand /\ conv.gen = 1 BY <1>1, <1>3, <2>2, Handy DEF InHand
  <2>11. QED BY <1>1, <1>2, <2>2, <2>4, <2>6, <2>9, <2>10, Handy, NoLog, QuietMoves, InFollowLane
<1>7. QED BY <1>5, <1>6

(* A message of the lane comes the cooldown after every reminder.           *)
LEMMA PostKeepsApart ==
    ASSUME FollowInv, lane.pc = "post", NEW allowed, LogGrows(allowed)
    PROVE  FollowUpsSpaced'
<1>1. ChatInv /\ SpacedInv BY DEF FollowInv
<1>2. /\ LogOK' /\ DOMAIN log \subseteq DOMAIN log'
      /\ \A i \in DOMAIN log : log'[i] = log[i]
      /\ \A i \in DOMAIN log' \ DOMAIN log : log'[i].at = moment
      /\ log' \in Seq(Messages)
  BY <1>1, LogKept DEF ChatInv
<1>3. DOMAIN log' = 1 .. Len(log') /\ Len(log') \in Nat BY <1>2
<1>4. moment \in Nat BY <1>1, Handy
<1>5. SUFFICES ASSUME NEW i \in Reminders', NEW j \in Reminders', i < j
               PROVE  log'[j].at >= log'[i].at + Cooldown
  BY DEF FollowUpsSpaced
<1>6. i \in DOMAIN log' /\ j \in DOMAIN log' BY <1>5 DEF Reminders
<1>7. log'[i].at < log'[j].at BY <1>2, <1>5, <1>6 DEF LogOK
<1>8. i \in Nat /\ j \in Nat BY <1>3, <1>6
<1>9. CASE j \in DOMAIN log
  <2>1. i \in DOMAIN log BY <1>1, <1>3, <1>5, <1>6, <1>8, <1>9, Handy
  <2>2. i \in Reminders /\ j \in Reminders BY <1>2, <1>5, <1>9, <2>1 DEF Reminders
  <2>3. QED BY <1>1, <1>2, <1>5, <1>9, <2>1, <2>2 DEF SpacedInv, FollowUpsSpaced
<1>10. CASE j \notin DOMAIN log
  <2>1. log'[j].at = moment BY <1>2, <1>6, <1>10
  <2>2. i \in DOMAIN log BY <1>2, <1>4, <1>6, <1>7, <2>1
  <2>3. i \in Reminders BY <1>2, <1>5, <2>2 DEF Reminders
  <2>4. log[i].at + Cooldown <= moment BY <1>1, <2>3 DEF SpacedInv
  <2>5. log[i].at \in Nat /\ Cooldown \in Nat BY <1>1, <2>3, RemindersAreOurs, Numbers
  <2>6. QED BY <1>2, <1>4, <2>1, <2>2, <2>4, <2>5
<1>11. QED BY <1>9, <1>10

LEMMA PostFollowUpKeeps == ASSUME FollowInv, PostFollowUp PROVE FollowInv'
<1>1. ChatInv /\ FollowTypeOK /\ DueInv BY DEF FollowInv
<1>2. /\ lane.pc = "post" /\ lane.pc \in InHand /\ CanWrite
      /\ UNCHANGED <<moment, badge, active, known, appl, disc, sync>>
  BY DEF PostFollowUp, InHand
<1>3. lane.key \in AllKeys /\ Ours \in FollowUpIds BY <1>1, <1>2, OursIsOne
<1>4. CASE writable
  <2>1. /\ Deliver(lane.key) /\ lane' = [lane EXCEPT !.pc = "store"] /\ ftask' = ftask
        /\ UNCHANGED <<conv, fup>>
    BY <1>4 DEF PostFollowUp, GoOn
  <2>2. LogGrows({Human, lane.key}) BY <1>1, <1>2, <1>3, <2>1, DeliverMoves
  <2>3. Len(log) \in Nat /\ Len(log') \in Nat /\ Len(log) <= Len(log') /\ DOMAIN log \subseteq DOMAIN log'
    BY <1>1, <2>2, LogKept, LogFacts DEF ChatInv
  <2>4. RowMoves BY <1>1, <1>2, <2>1, <2>3, Handy DEF RowMoves
  <2>5. ReadersMove BY <1>1, <1>2, <2>3, Handy DEF ReadersMove
  <2>6. /\ lane' \in Commands /\ lane'.key = lane.key /\ lane'.seen = lane.seen
        /\ lane'.pc = "store" /\ lane'.read = lane.read
    BY <1>1, <2>1, Handy DEF Commands, InHand
  <2>7. FollowTypeOK' BY <1>1, <1>2, <2>1, <2>6 DEF FollowTypeOK
  <2>8. DueInv' BY <1>1, <1>2, <2>1, <2>6 DEF DueInv
  <2>9. FollowUpsSpaced' BY <1>2, <2>2, PostKeepsApart
  <2>10. SpacedInv' BY <2>6, <2>9 DEF SpacedInv
  <2>11. lane'.pc \in InHand /\ conv.gen = 1 BY <1>1, <1>2, <2>6, Handy DEF InHand
  <2>12. lane'.seen <= Len(log') /\ lane'.read.n <= Len(log')
    BY <1>1, <2>3, <2>6, Handy
  <2>13. QED BY <2>2, <2>4, <2>5, <2>6, <2>7, <2>8, <2>10, <2>11, <2>12, InFollowLane
<1>5. CASE ~writable
  <2>1. /\ Mark(Ours, "cancelled") \/ fup' = fup
        /\ CloseConversation \/ conv' = conv
        /\ Stop("over") /\ log' = log
    BY <1>5 DEF PostFollowUp
  <2>2. /\ fup' \in [FollowUpIds -> FollowUpRows]
        /\ \A f \in FollowUpIds : fup'[f].status = "queued" => fup'[f].runAt <= moment
    <3>1. CASE fup' = fup BY <1>1, <3>1 DEF FollowTypeOK, DueInv
    <3>2. CASE Mark(Ours, "cancelled")
      <4>1. PICK row \in FollowUpRows : row.status = "cancelled" /\ OnlyFollowUp(Ours, row)
        BY <1>1, <1>3, <3>2, MarkIs
      <4>2. QED BY <1>1, <1>3, <4>1 DEF OnlyFollowUp, DueInv
    <3>3. QED BY <2>1, <3>1, <3>2
  <2>3. RowMoves BY <1>1, <1>2, <2>1, ClosingMoves
  <2>4. QED BY <1>1, <1>2, <2>1, <2>2, <2>3, StopEnds, QuietMoves, EndsFollowUp
<1>6. QED BY <1>4, <1>5

LEMMA StoreFollowUpKeeps == ASSUME FollowInv, StoreFollowUp PROVE FollowInv'
<1>1. ChatInv /\ FollowTypeOK /\ DueInv BY DEF FollowInv
<1>2. /\ lane.pc = "store" /\ lane.pc \in InHand
      /\ UNCHANGED <<moment, log, badge, active, appl, disc, sync, fup>>
  BY DEF StoreFollowUp, InHand
<1>3. \A f \in FollowUpIds : fup'[f].status = "queued" => fup'[f].runAt <= moment
  BY <1>1, <1>2 DEF DueInv
<1>4. AppendSent(lane.key) \/ UNCHANGED <<conv, known>> BY DEF StoreFollowUp
<1>5. RowMoves BY <1>1, <1>2, <1>4, SentMoves
<1>6. fup' \in [FollowUpIds -> FollowUpRows] BY <1>1, <1>2 DEF FollowTypeOK
<1>7. CASE Stop("over")
  BY <1>1, <1>2, <1>3, <1>5, <1>6, <1>7, StopEnds, QuietMoves, EndsFollowUp
<1>8. CASE GoOn("mark")
  <2>1. lane' = [lane EXCEPT !.pc = "mark"] /\ ftask' = ftask BY <1>8 DEF GoOn
  <2>2. /\ lane' \in Commands /\ lane'.key = lane.key /\ lane'.seen = lane.seen
        /\ lane'.pc = "mark" /\ lane'.read = lane.read
    BY <1>1, <2>1, Handy DEF Commands, InHand
  <2>3. FollowTypeOK' BY <1>1, <1>2, <1>6, <2>1, <2>2 DEF FollowTypeOK
  <2>4. DueInv' /\ SpacedInv' BY <1>2, <1>3, <2>2, UnwatchedKeeps DEF Unwatched
  <2>5. lane'.pc \in InHand BY <2>2 DEF InHand
  <2>6. QED BY <1>1, <1>2, <1>5, <2>2, <2>3, <2>4, <2>5, Handy, NoLog, QuietMoves, InFollowLane
<1>9. QED BY <1>7, <1>8 DEF StoreFollowUp

LEMMA FollowEndKeeps ==
    ASSUME FollowInv, MarkFollowUpSent \/ FollowRefused \/ BreakFollowUp
    PROVE  FollowInv'
<1>1. ChatInv /\ FollowTypeOK /\ DueInv BY DEF FollowInv
<1>2. UNCHANGED <<moment, log, badge, active, conv, known, appl, disc, sync>>
  BY DEF MarkFollowUpSent, FollowRefused, BreakFollowUp
<1>3. PICK s \in {"new", "over"} : Stop(s)
  BY DEF MarkFollowUpSent, FollowRefused, BreakFollowUp
<1>4. /\ fup' \in [FollowUpIds -> FollowUpRows]
      /\ \A f \in FollowUpIds : fup'[f].status = "queued" => fup'[f].runAt <= moment
  <2>1. CASE fup' = fup BY <1>1, <2>1 DEF FollowTypeOK, DueInv
  <2>2. CASE fup' # fup
    <3>1. lane.pc = "mark" /\ Mark(Ours, "sent")
      BY <2>2 DEF MarkFollowUpSent, FollowRefused, BreakFollowUp
    <3>2. Ours \in FollowUpIds BY <1>1, <3>1, OursIsOne DEF InHand
    <3>3. PICK row \in FollowUpRows : row.status = "sent" /\ OnlyFollowUp(Ours, row)
      BY <1>1, <3>1, <3>2, MarkIs
    <3>4. QED BY <1>1, <3>2, <3>3 DEF OnlyFollowUp, DueInv
  <2>3. QED BY <2>1, <2>2
<1>5. QED BY <1>1, <1>2, <1>3, <1>4, StopEnds, QuietMoves, EndsFollowUp

LEMMA FollowInitInv == ASSUME ChatInit, FollowInit PROVE FollowInv
<1>1. ChatInv BY ChatInitInv
<1>2. lane.pc = "idle" BY NoCommandOK DEF ChatInit
<1>3. \A i \in DOMAIN log : log[i].key = Human
  <2>1. log \in {<<>>, <<Message("account", Human, "text")>>} BY DEF ChatInit
  <2>2. Message("account", Human, "text").key = Human BY DEF Message
  <2> DEFINE first == Message("account", Human, "text")
  <2> HIDE DEF first
  <2>3. first.key = Human /\ log \in {<<>>, <<first>>} BY <2>1, <2>2 DEF first
  <2>4. CASE log = <<>> BY <2>4
  <2>5. CASE log = <<first>>
    <3>1. DOMAIN log = {1} /\ log[1] = first BY <2>5
    <3>2. QED BY <2>3, <3>1
  <2>6. QED BY <2>3, <2>4, <2>5
<1>4. Reminders = {} BY <1>3, FollowKeys DEF Reminders
<1>5. NoFollowUp \in FollowUpRows /\ NoTask \in FollowUpTasks /\ NoFollowUp.status = "none"
  BY DEF NoFollowUp, NoTask, FollowUpRows, FollowUpTasks
<1>6. FollowTypeOK BY <1>2, <1>5 DEF FollowInit, FollowTypeOK, InHand
<1>7. DueInv BY <1>2, <1>5 DEF FollowInit, DueInv
<1>8. SpacedInv BY <1>2, <1>4 DEF SpacedInv, FollowUpsSpaced
<1>9. QED BY <1>1, <1>6, <1>7, <1>8 DEF FollowInv

LEMMA FollowKeeps ==
    ASSUME FollowInv, [FollowNext]_<<chatVars, followVars>>
    PROVE  FollowInv'
<1>1. CASE /\ AroundRow /\ ftask' = ftask
           /\ fup' = IF ChatGoes THEN [f \in FollowUpIds |-> NoFollowUp] ELSE fup
  BY <1>1, AroundMoves, AroundKeepsFollowUps DEF FollowInv
<1>2. CASE FollowStep
  BY <1>2, PlansKeep, ReconcileKeeps, ClaimFollowUpKeeps, PrepareAgainKeeps, PostFollowUpKeeps,
     StoreFollowUpKeeps, FollowEndKeeps
  DEF FollowStep
<1>3. CASE UNCHANGED <<chatVars, followVars>>
  <2>1. ChatInv /\ FollowTypeOK BY DEF FollowInv
  <2>2. /\ UNCHANGED <<moment, log, badge, active, conv, known, appl, disc, sync, lane>>
        /\ fup' = fup /\ ftask' = ftask
    BY <1>3 DEF chatVars, followVars
  <2>3. FollowUpsMove BY <2>1, <2>2, NoneMove DEF FollowTypeOK
  <2>4. QED BY <2>1, <2>2, <2>3, QuietMoves, BesideFollowUps
<1>4. QED BY <1>1, <1>2, <1>3 DEF FollowNext

(* The invariant of the follow-ups holds in every state.                    *)
THEOREM FollowInductive == FollowSpec => []FollowInv
<1>1. QED BY FollowInitInv, FollowKeeps, PTL DEF FollowSpec

(* RunsWhenDue: a reminder is sent when its time has come, also if the      *)
(* operator moved it while its task waited or ran (workflow/conversation.go *)
(* PrepareFollowUp, worker/conversation.go).                                *)
THEOREM RemindsWhenDue == FollowSpec => RunsWhenDue
<1>1. ASSUME FollowInv, [FollowNext]_<<chatVars, followVars>>
      PROVE  [lane.pc = "post" /\ lane'.pc = "store" /\ lane.key[1] = "follow"
               => moment >= fup[Ours].runAt]_<<chatVars, followVars>>
  <2>1. SUFFICES ASSUME lane.pc = "post" PROVE moment >= fup[Ours].runAt OBVIOUS
  <2>2. ChatInv /\ FollowTypeOK /\ DueInv BY <1>1 DEF FollowInv
  <2>3. Ours \in FollowUpIds BY <2>1, <2>2, OursIsOne DEF InHand
  <2>4. fup[Ours].runAt \in Nat /\ moment \in Nat
    BY <2>2, <2>3, Handy DEF FollowTypeOK, FollowUpRows
  <2>5. QED BY <2>1, <2>2, <2>4 DEF DueInv
<1>2. QED BY <1>1, FollowInductive, PTL DEF FollowSpec, RunsWhenDue

(* FollowUpsSpaced: two reminders are at least the cooldown apart,          *)
(* whichever follow-up sent them and even if the first was never recorded   *)
(* as sent (workflow/conversation.go PrepareFollowUp).                      *)
THEOREM RemindersSpaced == FollowSpec => []FollowUpsSpaced
<1>1. FollowInv => FollowUpsSpaced BY DEF FollowInv, SpacedInv
<1>2. QED BY <1>1, FollowInductive, PTL
=============================================================================
