------------------------ MODULE ConversationCommands ------------------------
(***************************************************************************)
(* What writes into a chat: messages of the operator, sent at once or by a *)
(* task, reviewed answers to questionnaires with buttons and generated     *)
(* replies to questions (worker/conversation.go, worker/conversation_      *)
(* reply.go, api/httpapi/conversation.go).  A task is named by its         *)
(* idempotency key: <<"send", request>>, <<"answer", prompt>> or           *)
(* <<"reply", prompt>>; a prompt is the time of the message it is about.   *)
(***************************************************************************)
EXTENDS Conversations

CONSTANT Requests   \* requests of the operator; not moments

ASSUME RequestAssumption == Requests \subseteq Nat /\ Requests \cap (0..LastMoment) = {}

VARIABLES
    ctask,   \* the tasks by key: "none", "new", "running", "over"
    live     \* the messages being sent at once: "idle", "store"

commandVars == <<ctask, live>>

CommandKeys == ({"send"} \X Requests) \cup ({"answer", "reply"} \X (1..LastMoment))

CommandInit ==
  /\ ctask = [k \in CommandKeys |-> "none"]
  /\ live = [q \in Requests |-> "idle"]

\* enqueueConversationCommand: a key that is known keeps its task.
EnqueueCommand(k) == ctask' = IF ctask[k] = "none" THEN [ctask EXCEPT ![k] = "new"] ELSE ctask

-----------------------------------------------------------------------------
(* What the messages ask for.  The operators take positions of the log.    *)

LastOutgoing(ms) == Max({0} \cup {log[i].at : i \in {j \in ms : log[j].from = "account"}})
Unanswered(ms)   == {i \in ms : log[i].from = "employer" /\ log[i].at > LastOutgoing(ms)}

\* latestUnansweredIncoming, if it is a question to answer; 0 if it is not.
Prompt(ms) ==
  LET new == Unanswered(ms)
  IN IF new # {} /\ log[Max(new)].kind = "question" THEN log[Max(new)].at ELSE 0

\* ResolveKnownConversationAnswer: the earliest questionnaire not answered.
KnownPrompt(ms) ==
  LET asked == {i \in Unanswered(ms) : log[i].kind = "buttons"}
  IN IF asked = {} THEN 0 ELSE log[Min(asked)].at

\* Sync: answerKnownQuestion for what was read.  Its key names the prompt and the
\* option; the bank of answers is the one the handlers were made with, so here a
\* prompt has one option.
SyncAnswer ==
  /\ sync.pc = "answer"
  /\ LET at == KnownPrompt(1..sync.n)
     IN IF at # 0 /\ SameRow(sync) THEN EnqueueCommand(<<"answer", at>>) ELSE ctask' = ctask
  /\ sync' = [sync EXCEPT !.pc = "reply"]
  /\ UNCHANGED <<moment, log, badge, active, writable, conv, known, appl, disc, lane, breaks, live>>

\* enqueueAutoReply for what is stored.
SyncReply ==
  /\ sync.pc = "reply"
  /\ LET at == Prompt(known)
     IN IF conv.there /\ conv.open /\ at # 0 THEN EnqueueCommand(<<"reply", at>>) ELSE ctask' = ctask
  /\ sync' = NoRead
  /\ UNCHANGED <<moment, log, badge, active, writable, conv, known, appl, disc, lane, breaks, live>>

\* enqueueAwaitingQuestionnaire looks for stored prompts and syncs their chats,
\* which SyncConversation may do at any time.

-----------------------------------------------------------------------------
(* The requests of the operator.                                           *)

EnqueueMessage(q) ==
  /\ conv.there /\ live[q] = "idle" /\ ctask[<<"send", q>>] = "none"
  /\ EnqueueCommand(<<"send", q>>)
  /\ UNCHANGED <<chatVars, live>>

\* Mutation: the message sent at once has a key of its own.
OwnLiveKey(q) == <<"live", q>>
\* SendConversationNow runs the handler of a task with the key the queue
\* would use.
LiveKey(q) == <<"send", q>>

\* A chat that refuses the message is closed, and no task is created for it.
LivePost(q) ==
  /\ conv.there /\ live[q] = "idle" /\ CanWrite
  /\ IF writable
     THEN Deliver(LiveKey(q)) /\ live' = [live EXCEPT ![q] = "store"] /\ conv' = conv
     ELSE CloseConversation /\ UNCHANGED <<log, live>>
  /\ UNCHANGED <<moment, badge, active, writable, known, appl, disc, sync, lane, breaks, ctask>>

LiveStore(q) ==
  /\ live[q] = "store" /\ live' = [live EXCEPT ![q] = "idle"]
  /\ IF conv.there THEN AppendSent(LiveKey(q)) ELSE UNCHANGED <<conv, known>>
  /\ UNCHANGED <<moment, log, badge, active, writable, appl, disc, sync, lane, breaks, ctask>>

\* The time allowed is over before the answer came: the request falls back to
\* the queue, with the same key.
LiveFail(q) ==
  /\ live[q] = "store" /\ Break
  /\ live' = [live EXCEPT ![q] = "idle"]
  /\ IF conv.there THEN EnqueueCommand(<<"send", q>>) ELSE ctask' = ctask
  /\ UNCHANGED <<moment, log, badge, active, writable, conv, known, appl, disc, sync, lane>>

-----------------------------------------------------------------------------
(* The handlers, in the lane of the profile.                               *)

IsReply == lane.key[1] = "reply"

Finish(outcome) == ctask' = [ctask EXCEPT ![lane.key] = outcome] /\ lane' = NoCommand

\* Mutation: a reply goes out without reading the chat again.
ClaimUnread(k) ==
  /\ lane.pc = "idle" /\ ctask[k] = "new"
  /\ conv.there /\ (k[1] = "reply" => conv.open)
  /\ ctask' = [ctask EXCEPT ![k] = "running"]
  /\ lane' = [lane EXCEPT !.key = k, !.seen = Len(log), !.pc = IF k[1] = "reply" THEN "check" ELSE "post"]
  /\ UNCHANGED <<moment, log, badge, active, writable, conv, known, appl, disc, sync, breaks, live>>

\* Send goes on to the platform, Reply to the read of the chat; a
\* chat that is gone, or closed for a reply, ends the task.
ClaimCommand(k) ==
  /\ lane.pc = "idle" /\ ctask[k] = "new"
  /\ conv.there /\ (k[1] = "reply" => conv.open)
  /\ ctask' = [ctask EXCEPT ![k] = "running"]
  /\ lane' = [lane EXCEPT !.key = k, !.seen = Len(log), !.pc = IF k[1] = "reply" THEN "refresh" ELSE "post"]
  /\ UNCHANGED <<moment, log, badge, active, writable, conv, known, appl, disc, sync, breaks, live>>

DropCommand(k) ==
  /\ lane.pc = "idle" /\ ctask[k] = "new"
  /\ ~conv.there \/ (k[1] = "reply" /\ ~conv.open)
  /\ ctask' = [ctask EXCEPT ![k] = "over"]
  /\ UNCHANGED <<chatVars, live>>

\* Reply goes on only if the stored prompt is still the one of the task; then
\* the text is generated.
CheckPrompt ==
  /\ lane.pc = "check"
  /\ IF conv.there /\ conv.open /\ <<"reply", Prompt(known)>> = lane.key
     THEN lane' = [lane EXCEPT !.pc = "post"] /\ ctask' = ctask
     ELSE Finish("over")
  /\ UNCHANGED <<moment, log, badge, active, writable, conv, known, appl, disc, sync, breaks, live>>

\* SendConversationMessage; a chat that refuses is closed.
PostMessage ==
  /\ lane.pc = "post" /\ CanWrite
  /\ IF writable
     THEN Deliver(lane.key) /\ lane' = [lane EXCEPT !.pc = "store"] /\ UNCHANGED <<conv, ctask>>
     ELSE (IF conv.there THEN CloseConversation ELSE conv' = conv) /\ Finish("over") /\ log' = log
  /\ UNCHANGED <<moment, badge, active, writable, known, appl, disc, sync, breaks, live>>

StoreMessage ==
  /\ lane.pc = "store"
  /\ IF conv.there THEN AppendSent(lane.key) ELSE UNCHANGED <<conv, known>>
  /\ Finish("over")
  /\ UNCHANGED <<moment, log, badge, active, writable, appl, disc, sync, breaks, live>>

CommandRefused ==
  /\ LaneRefused /\ Finish("over")
  /\ UNCHANGED <<moment, log, badge, active, writable, conv, known, appl, disc, sync, breaks, live>>

\* A temporary error, the generator's among them, and a stop of the process
\* give the task back; any other error ends it.
BreakCommand ==
  /\ lane.pc # "idle" /\ Break
  /\ \E outcome \in {"new", "over"} : Finish(outcome)
  /\ UNCHANGED <<moment, log, badge, active, writable, conv, known, appl, disc, sync, live>>

CommandStep ==
  \/ SyncAnswer \/ SyncReply
  \/ \E q \in Requests : EnqueueMessage(q) \/ LivePost(q) \/ LiveStore(q) \/ LiveFail(q)
  \/ \E k \in CommandKeys : ClaimCommand(k) \/ DropCommand(k)
  \/ CheckPrompt \/ PostMessage \/ StoreMessage
  \/ CommandRefused \/ BreakCommand

\* The commands of one row, with everything around them.
CommandNext ==
  \/ (AroundRow \/ NothingToCancel) /\ UNCHANGED commandVars
  \/ CommandStep

CommandSpec == ChatInit /\ CommandInit /\ [][CommandNext]_<<chatVars, commandVars>>

-----------------------------------------------------------------------------
\* A generated reply is posted only if nothing followed the question in the
\* chat when its task started: a person who answered first is not talked over.
HumanAnswerStops ==
  [][(lane.pc = "post" /\ lane'.pc = "store" /\ IsReply /\ ~Delivered(lane.key))
       => \A i \in 1..lane.seen : log[i].at <= lane.key[2]]_<<chatVars, commandVars>>

\* One request, and one prompt, is answered by one message, whichever way the
\* request was carried out and however often.
OneMessagePerCommand ==
  \A i, j \in DOMAIN log :
    i # j /\ Human \notin {log[i].key, log[j].key} => log[i].key[2] # log[j].key[2]
=============================================================================
