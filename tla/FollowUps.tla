----------------------------- MODULE FollowUps -----------------------------
(***************************************************************************)
(* Reminders in a chat nobody answered: the selection of a chat, the       *)
(* schedule, its changes by the operator, the reconciliation that makes    *)
(* tasks, and the handler that checks, refreshes, checks again and sends   *)
(* (core/conversation.go, workflow/conversation.go, workflow/conversation_ *)
(* selection.go, worker/conversation.go).  A policy requires an open chat  *)
(* and is cancelled by an incoming message.                                *)
(***************************************************************************)
EXTENDS Conversations

CONSTANTS
    FollowUpIds,
    MaxFollowUps, Cooldown,       \* the policy
    MinimumSilence,               \* of the selection
    RunDelays, Deadlines          \* from the creation; 0 for no deadline

ASSUME FollowUpAssumption ==
  /\ FollowUpIds \subseteq Nat \ {0} /\ {MaxFollowUps, Cooldown, MinimumSilence} \subseteq Nat
  /\ RunDelays \subseteq Nat /\ Deadlines \subseteq Nat
  /\ \A delay \in RunDelays, deadline \in Deadlines \ {0} : deadline > delay

VARIABLES
    fup,     \* the follow-ups
    ftask    \* their tasks, with the deadline a task was created with

followVars == <<fup, ftask>>

NoFollowUp == [status |-> "none", anchor |-> 0, runAt |-> 0, deadline |-> 0]
NoTask     == [status |-> "none", availableAt |-> 0, deadline |-> 0]

FollowInit ==
  /\ fup = [f \in FollowUpIds |-> NoFollowUp]
  /\ ftask = [f \in FollowUpIds |-> NoTask]

With(status) == {f \in FollowUpIds : fup[f].status \in status}
Pending == With({"scheduled", "queued"})
Past(deadline) == deadline # 0 /\ moment >= deadline
Mark(f, status) == fup' = [fup EXCEPT ![f].status = status]

\* A follow-up that runs after a delay and has until a deadline.
Timed(old, delay, deadline) ==
  [old EXCEPT !.runAt = moment + delay, !.deadline = IF deadline = 0 THEN 0 ELSE moment + deadline]

\* CancellationFor, with the chat that is stored now.
Cancels(anchor) == ~conv.open \/ LastIncomingAt > anchor

\* ScheduleFollowUp: a new row for a request key that has none.
ScheduleFollowUp(f, anchor) ==
  /\ f \in With({"none"}) /\ f = Min(With({"none"})) /\ conv.there /\ ~Cancels(anchor)
  /\ \E delay \in RunDelays, deadline \in Deadlines :
       fup' = [fup EXCEPT ![f] = Timed([fup[f] EXCEPT !.status = "scheduled", !.anchor = anchor], delay, deadline)]
  /\ UNCHANGED <<chatVars, ftask>>

\* SelectAndScheduleFollowUp: an open chat whose last message is ours, long
\* enough ago, with nothing pending.
SelectFollowUp(f) ==
  /\ LastOutgoingAt > LastIncomingAt
  /\ moment >= LastOutgoingAt + Max({MinimumSilence, Cooldown})
  /\ Pending = {} /\ Cardinality(With({"sent"})) < MaxFollowUps
  /\ ScheduleFollowUp(f, LastOutgoingAt)

\* The operator schedules one, whatever is pending.
ScheduleByHand(f) == ScheduleFollowUp(f, moment)

\* Mutation: a follow-up can be moved until it is sent.
RescheduleQueued(f) ==
  /\ fup[f].status \in {"scheduled", "queued"}
  /\ \E delay \in RunDelays, deadline \in Deadlines : fup' = [fup EXCEPT ![f] = Timed(fup[f], delay, deadline)]
  /\ UNCHANGED <<chatVars, ftask>>

RescheduleFollowUp(f) ==
  /\ fup[f].status = "scheduled"
  /\ \E delay \in RunDelays, deadline \in Deadlines : fup' = [fup EXCEPT ![f] = Timed(fup[f], delay, deadline)]
  /\ UNCHANGED <<chatVars, ftask>>

\* ReconcileDueFollowUps: a task for every due follow-up; its key is the
\* follow-up, so one that had a task gets no other.
Enqueued(due) ==
  [f \in FollowUpIds |-> IF f \in due /\ ftask[f].status = "none"
                         THEN [status |-> "new", availableAt |-> fup[f].runAt, deadline |-> fup[f].deadline]
                         ELSE ftask[f]]
Due == {f \in With({"scheduled"}) : fup[f].runAt <= moment}

ReconcileDueFollowUps ==
  /\ \E f \in Due : ftask[f].status = "none"
  /\ fup' = fup /\ ftask' = Enqueued(Due)
  /\ UNCHANGED chatVars

\* The operator wants it sent now: the first of the two writes of the call, the
\* other is the reconciliation above, which may come later or find it moved again.
RunFollowUpNow(f) ==
  /\ fup[f].status = "scheduled" /\ (fup[f].deadline = 0 \/ fup[f].deadline > moment)
  /\ fup' = [fup EXCEPT ![f].runAt = moment]
  /\ UNCHANGED <<chatVars, ftask>>

CancelFollowUp(f) ==
  /\ f \in Pending /\ Mark(f, "cancelled")
  /\ UNCHANGED <<chatVars, ftask>>

\* cancelPendingFollowUps: the catalog shows the chat closed.
CancelPendingFollowUps ==
  /\ disc.pc = "cancel" /\ disc' = [disc EXCEPT !.pc = "append"]
  /\ fup' = [f \in FollowUpIds |-> IF f \in Pending THEN [fup[f] EXCEPT !.status = "cancelled"] ELSE fup[f]]
  /\ UNCHANGED <<moment, log, badge, active, writable, conv, known, appl, sync, lane, breaks, ftask>>

-----------------------------------------------------------------------------
(* The handler, in the lane of the profile.                                *)

Ours == lane.key[2]
GoOn(pc) == lane' = [lane EXCEPT !.pc = pc] /\ ftask' = ftask
Stop(outcome) == lane' = NoCommand /\ ftask' = [ftask EXCEPT ![Ours].status = outcome]

\* What PrepareFollowUp decides: the status of the follow-up afterwards, and
\* whether the handler goes on.
Prepared(f) ==
  LET was == fup[f].status IN
  CASE f \notin Pending -> <<was, FALSE>>
    [] f \in Pending /\ Past(fup[f].deadline) -> <<"expired", FALSE>>
    [] f \in Pending /\ ~Past(fup[f].deadline) ->
         IF ~conv.there THEN <<was, FALSE>>
         ELSE IF \/ Cancels(fup[f].anchor)
                 \/ Cardinality(With({"sent"})) >= MaxFollowUps
                 \/ LastOutgoingAt # 0 /\ moment < LastOutgoingAt + Cooldown
         THEN <<"cancelled", FALSE>>
         ELSE IF was = "scheduled" /\ moment < fup[f].runAt THEN <<was, FALSE>>
         ELSE <<"queued", TRUE>>

\* Mutation: the chat is not read again before the message.
ClaimStored(f) ==
  /\ lane.pc = "idle" /\ ftask[f].status = "new"
  /\ moment >= ftask[f].availableAt /\ ~Past(ftask[f].deadline)
  /\ LET to == Prepared(f) IN
       /\ Mark(f, to[1])
       /\ ftask' = [ftask EXCEPT ![f].status = IF to[2] THEN "running" ELSE "over"]
       /\ lane' = IF to[2] THEN [lane EXCEPT !.pc = "check", !.key = <<"follow", f>>] ELSE lane
  /\ UNCHANGED <<moment, log, badge, active, writable, conv, known, appl, disc, sync, breaks>>

\* The task is taken and the follow-up prepared.
ClaimFollowUp(f) ==
  /\ lane.pc = "idle" /\ ftask[f].status = "new"
  /\ moment >= ftask[f].availableAt /\ ~Past(ftask[f].deadline)
  /\ LET to == Prepared(f) IN
       /\ Mark(f, to[1])
       /\ ftask' = [ftask EXCEPT ![f].status = IF to[2] THEN "running" ELSE "over"]
       /\ lane' = IF to[2] THEN [lane EXCEPT !.pc = "refresh", !.key = <<"follow", f>>] ELSE lane
  /\ UNCHANGED <<moment, log, badge, active, writable, conv, known, appl, disc, sync, breaks>>

\* The queue gives up a task at its deadline; its follow-up stays pending.
ExpireTask(f) ==
  /\ ftask[f].status = "new" /\ Past(ftask[f].deadline)
  /\ ftask' = [ftask EXCEPT ![f].status = "over"]
  /\ UNCHANGED <<chatVars, fup>>

\* Prepared again after the refresh.
PrepareAgain ==
  /\ lane.pc = "check"
  /\ LET to == Prepared(Ours) IN Mark(Ours, to[1]) /\ IF to[2] THEN GoOn("post") ELSE Stop("over")
  /\ UNCHANGED <<moment, log, badge, active, writable, conv, known, appl, disc, sync, breaks>>

\* The message; a chat that refuses it is closed, unless the follow-up ended
\* in between.
PostFollowUp ==
  /\ lane.pc = "post" /\ CanWrite
  /\ IF writable THEN Deliver(lane.key) /\ GoOn("store") /\ UNCHANGED <<conv, fup>>
     ELSE /\ IF Ours \in Pending THEN Mark(Ours, "cancelled") ELSE fup' = fup
          /\ IF conv.there /\ fup'[Ours].status = "cancelled" THEN CloseConversation ELSE conv' = conv
          /\ Stop("over") /\ log' = log
  /\ UNCHANGED <<moment, badge, active, writable, known, appl, disc, sync, breaks>>

StoreFollowUp ==
  /\ lane.pc = "store"
  /\ IF conv.there THEN AppendSent(lane.key) /\ GoOn("mark") ELSE UNCHANGED <<conv, known>> /\ Stop("over")
  /\ UNCHANGED <<moment, log, badge, active, writable, appl, disc, sync, breaks, fup>>

MarkFollowUpSent ==
  /\ lane.pc = "mark"
  /\ IF fup[Ours].status = "queued" THEN Mark(Ours, "sent") ELSE fup' = fup
  /\ Stop("over")
  /\ UNCHANGED <<moment, log, badge, active, writable, conv, known, appl, disc, sync, breaks>>

FollowRefused ==
  /\ LaneRefused /\ Stop("over")
  /\ UNCHANGED <<moment, log, badge, active, writable, conv, known, appl, disc, sync, breaks, fup>>

\* A temporary error or a stop of the process gives the task back.
BreakFollowUp ==
  /\ lane.pc # "idle" /\ Break
  /\ \E outcome \in {"new", "over"} : Stop(outcome)
  /\ UNCHANGED <<moment, log, badge, active, writable, conv, known, appl, disc, sync, fup>>

FollowStep ==
  \/ \E f \in FollowUpIds : SelectFollowUp(f) \/ ScheduleByHand(f) \/ RescheduleFollowUp(f)
                            \/ RunFollowUpNow(f) \/ CancelFollowUp(f) \/ ClaimFollowUp(f) \/ ExpireTask(f)
  \/ ReconcileDueFollowUps \/ CancelPendingFollowUps
  \/ PrepareAgain \/ PostFollowUp \/ StoreFollowUp \/ MarkFollowUpSent \/ FollowRefused \/ BreakFollowUp

\* The follow-ups leave the store with the row of their chat.
ChatGoes == conv.there /\ ~conv'.there

\* The follow-ups of one row, with everything around them.
FollowNext ==
  \/ /\ AroundRow /\ ftask' = ftask
     /\ fup' = IF ChatGoes THEN [f \in FollowUpIds |-> NoFollowUp] ELSE fup
  \/ FollowStep

FollowSpec == ChatInit /\ FollowInit /\ [][FollowNext]_<<chatVars, followVars>>

-----------------------------------------------------------------------------
Reminders == {i \in DOMAIN log : log[i].key[1] = "follow"}

\* A reminder is sent when its time has come, also if the operator moved it
\* while its task waited or ran.
RunsWhenDue ==
  [][lane.pc = "post" /\ lane'.pc = "store" /\ lane.key[1] = "follow"
       => moment >= fup[Ours].runAt]_<<chatVars, followVars>>

\* Two reminders are at least the cooldown apart, whichever follow-up sent them
\* and even if the first was never recorded as sent.  All of them have one
\* policy here; in the code each follow-up carries the cooldown of its own.
FollowUpsSpaced ==
  \A i, j \in Reminders : i < j => log[j].at >= log[i].at + Cooldown

=============================================================================
