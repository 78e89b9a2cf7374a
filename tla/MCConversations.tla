--------------------------- MODULE MCConversations --------------------------
\* Five instances of the chat in one run, each from a state of a stored or a
\* new chat and with the actors the question is about.
EXTENDS ConversationCommands, FollowUps

VARIABLE part

vars == <<chatVars, commandVars, followVars, part>>

Init ==
  /\ part \in {"reads", "replies", "answers", "timer", "spacing"}
  /\ ChatInit /\ CommandInit /\ FollowInit
  /\ conv.there <=> part # "reads"
  /\ log = <<>> \/ part \in {"timer", "spacing"}

\* Discovery, syncs and marks of what was read; the kind of a message does not
\* matter, a message is refused only when the negotiation is over, and the mark
\* is set between syncs.
ReadsNext ==
  /\ ChatStep \/ NothingToCancel
  /\ breaks' = breaks /\ writable' = active' /\ "idle" \in {sync'.pc, lane'.pc}
  /\ \A i \in DOMAIN log' : log'[i].kind = "text"
  /\ UNCHANGED <<commandVars, followVars>>

\* Syncs and commands of a stored chat; unread marks do not matter.
AroundCommands ==
  /\ PeopleStep \/ SyncStep \/ RemoveApplication \/ LaneStep \/ BreakReader
  /\ UNCHANGED commandVars

Employer(kind) == \A i \in DOMAIN log' : log'[i].from = "employer" => log'[i].kind = kind

\* Questions, and people as the only ones who answer beside the task.
RepliesNext ==
  /\ AroundCommands \/ CommandStep
  /\ Employer("question") /\ \A q \in Requests : live'[q] = "idle" /\ ctask'[<<"send", q>>] = "none"
  /\ UNCHANGED followVars

\* Questionnaires, and messages of the operator.
AnswersNext ==
  /\ AroundCommands \/ CommandStep
  /\ Employer("buttons")
  /\ UNCHANGED followVars

\* The chat around the follow-ups: one message of a person, and a catalog once
\* the platform closed the chat.
AroundFollowUps ==
  /\ \/ PeopleStep /\ Written' <= 1
     \/ CatalogStep /\ ~active
     \/ LaneStep \/ BreakReader
  /\ \A i \in DOMAIN log' : log'[i].kind = "text"
  /\ UNCHANGED followVars

\* One follow-up that is moved, and two that are not.
TimerNext   == AroundFollowUps \/ (FollowStep /\ fup'[Max(FollowUpIds)] = NoFollowUp)
SpacingNext ==
  \/ AroundFollowUps /\ disc' = NoRead
  \/ /\ FollowStep
     /\ \A f \in FollowUpIds :
          /\ fup'[f].deadline = 0
          /\ fup'[f].runAt = IF fup[f].status = "none" /\ fup'[f] # fup[f] THEN moment ELSE fup[f].runAt

Next ==
  /\ \/ part = "reads" /\ ReadsNext
     \/ part = "replies" /\ RepliesNext
     \/ part = "answers" /\ AnswersNext
     \/ part = "timer" /\ TimerNext /\ UNCHANGED commandVars
     \/ part = "spacing" /\ SpacingNext /\ UNCHANGED commandVars
  /\ part' = part

Spec == Init /\ [][Next]_vars
=============================================================================
