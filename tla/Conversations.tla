--------------------------- MODULE Conversations ---------------------------
(***************************************************************************)
(* One chat of one profile: what the platform holds, the row and messages  *)
(* stored for it, and everything that reads the platform beside the lane   *)
(* of the profile: the discovery of the catalog, the sync tasks and the    *)
(* live sync of the dashboard (core/conversation.go, workflow/             *)
(* conversation.go, worker/conversation.go, storage/sqlite/                *)
(* conversation.go).  A read has the time it started; what it brings is    *)
(* stored later, in several transactions.  The calls of the adapter        *)
(* exclude each other, so each is one step.  The lane of the profile runs  *)
(* one command at a time; the commands and the follow-ups are the modules  *)
(* that extend this one.  Moments start at 1; 0 stands for a time that is  *)
(* not set.                                                                *)
(***************************************************************************)
EXTENDS Integers, Sequences, FiniteSetsExt

CONSTANTS
    Kinds,        \* of the messages of the employer: "text", "question", "buttons"
    LastMoment,   \* bound: the clock
    MaxWords,     \* bound: messages that people write
    MaxBreaks     \* bound: calls that fail and stops of the process

ASSUME ConversationAssumption ==
  LastMoment \in Nat \ {0} /\ {MaxWords, MaxBreaks} \subseteq Nat

VARIABLES
    moment,     \* the clock
    log,        \* the platform: the messages of the chat, oldest first
    badge,      \* the platform: the chat is shown as unread
    active,     \* the platform: the negotiation is open
    writable,   \* the platform: messages can be sent
    conv,       \* the stored conversation, its lifetime and its times
    known,      \* the stored messages, as positions of the log
    appl,       \* the application the chat belongs to is stored
    disc, sync, \* a discovery and a sync: where they are and what they read
    lane,       \* the command of the lane, and the read it made
    breaks      \* what went wrong so far

chatVars == <<moment, log, badge, active, writable, conv, known, appl, disc, sync, lane, breaks>>

\* Who caused a message: a person, or a task with its idempotency key.
Human   == <<"human", 0>>
Message(from, key, kind) == [from |-> from, key |-> key, kind |-> kind, at |-> moment]
Written == Cardinality({i \in DOMAIN log : log[i].key = Human})

NoRead  == [pc |-> "idle", at |-> 0, n |-> 0, badge |-> FALSE, open |-> TRUE, gen |-> 0, appl |-> FALSE]
NoCommand == [pc |-> "idle", key |-> Human, read |-> NoRead, seen |-> 0]
NoRow   == [there |-> FALSE, gen |-> 0, open |-> TRUE, unread |-> FALSE, linked |-> FALSE,
            readAt |-> 0, updatedAt |-> 0]

Break == breaks < MaxBreaks /\ breaks' = breaks + 1

-----------------------------------------------------------------------------
(* The platform and the people.                                            *)

Later ==
  /\ moment < LastMoment /\ moment' = moment + 1
  /\ UNCHANGED <<log, badge, active, writable, conv, known, appl, disc, sync, lane, breaks>>

\* The times of the messages differ.
CanWrite == \A i \in DOMAIN log : log[i].at < moment

EmployerWrites ==
  /\ CanWrite /\ Written < MaxWords
  /\ \E kind \in Kinds : log' = Append(log, Message("employer", Human, kind))
  /\ badge' = TRUE
  /\ UNCHANGED <<moment, active, writable, conv, known, appl, disc, sync, lane, breaks>>

\* The owner answers in the web interface, which also reads the chat.
OwnerWrites ==
  /\ CanWrite /\ Written < MaxWords /\ writable
  /\ log' = Append(log, Message("account", Human, "text")) /\ badge' = FALSE
  /\ UNCHANGED <<moment, active, writable, conv, known, appl, disc, sync, lane, breaks>>

\* The platform stops messages, with the negotiation or without.
PlatformCloses ==
  /\ writable /\ log # <<>> /\ writable' = FALSE
  /\ active' \in {active, FALSE}
  /\ UNCHANGED <<moment, log, badge, conv, known, appl, disc, sync, lane, breaks>>

\* SendConversationMessage: a key is delivered once; a repeated one finds the
\* message that is there.
Delivered(key) == \E i \in DOMAIN log : log[i].key = key
Deliver(key) == log' = IF Delivered(key) THEN log ELSE Append(log, Message("account", key, "text"))

-----------------------------------------------------------------------------
(* The row.                                                                *)

Times(from) == {log[i].at : i \in {j \in known : log[j].from = from}}
LastIncomingAt == Max({0} \cup Times("employer"))
LastOutgoingAt == Max({0} \cup Times("account"))

\* What a read of the chat or of the catalog brings.
Reading == [pc |-> "read", at |-> moment, n |-> Len(log), badge |-> badge,
            open |-> active, gen |-> conv.gen, appl |-> FALSE]

\* The row a read was started for is still there.
SameRow(r) == conv.there /\ conv.gen = r.gen

\* Observe: a new message may not be older than the row.
TooOld(at) == at < conv.updatedAt

\* ObservePresentation, with the time raised to that of the row.
ObservePresentation(r) ==
  conv' = IF conv.open = r.open THEN conv
          ELSE [conv EXCEPT !.open = r.open,
                            !.updatedAt = IF TooOld(r.at) THEN conv.updatedAt ELSE r.at]

\* AppendConversationMessage for the messages in new, all read at the same
\* time: those already stored are passed over.
Accepted(new, at) == new \subseteq known \/ ~TooOld(at)
AppendMessages(new, at) ==
  /\ known' = known \cup new
  /\ conv' = IF new \subseteq known THEN conv ELSE [conv EXCEPT !.updatedAt = at]

\* ObserveCatalogState: a stale catalog is dropped, and what was read up to
\* the last incoming message stays read.
ObserveCatalogState(open, unread, incomingAt, at) ==
  LET last == Max({LastIncomingAt, incomingAt})
      news == unread /\ (conv.readAt = 0 \/ last > conv.readAt)
  IN conv' = IF TooOld(at) \/ (conv.open = open /\ conv.unread = news) THEN conv
             ELSE [conv EXCEPT !.open = open, !.unread = news, !.updatedAt = at]

\* MarkRead: the marker moves only when there was something to read.
MarkRead ==
  conv' = IF conv.unread \/ conv.readAt = 0
          THEN [conv EXCEPT !.unread = FALSE, !.readAt = moment, !.updatedAt = moment] ELSE conv

\* LinkConversationApplication: once, and the time of the row stays.
LinkApplication(r) ==
  conv' = IF SameRow(r) /\ r.appl THEN [conv EXCEPT !.linked = TRUE] ELSE conv

\* CloseConversationDueToPlatform: the platform refused a message.
CloseConversation ==
  conv' = IF conv.open THEN [conv EXCEPT !.open = FALSE, !.updatedAt = moment] ELSE conv

\* The dashboard marks every chat read, without asking the platform.
MarkConversationsReadLocally ==
  /\ conv.there /\ conv.unread
  /\ conv' = [conv EXCEPT !.unread = FALSE, !.readAt = moment, !.updatedAt = moment]
  /\ UNCHANGED <<moment, log, badge, active, writable, known, appl, disc, sync, lane, breaks>>

\* The chat leaves the store with its application, or in the next retention
\* run if it was linked too late.
RemoveApplication ==
  /\ appl /\ appl' = FALSE
  /\ IF conv.there /\ conv.linked THEN conv' = [NoRow EXCEPT !.gen = conv.gen] /\ known' = {}
     ELSE UNCHANGED <<conv, known>>
  /\ UNCHANGED <<moment, log, badge, active, writable, disc, sync, lane, breaks>>

PurgeOrphanConversations ==
  /\ conv.there /\ conv.linked /\ ~appl
  /\ conv' = [NoRow EXCEPT !.gen = conv.gen] /\ known' = {}
  /\ UNCHANGED <<moment, log, badge, active, writable, appl, disc, sync, lane, breaks>>

-----------------------------------------------------------------------------
(* Discovery and sync.                                                     *)

DiscoverConversations ==
  /\ disc.pc = "idle" /\ log # <<>>
  /\ disc' = Reading
  /\ UNCHANGED <<moment, log, badge, active, writable, conv, known, appl, sync, lane, breaks>>

\* INSERT, unless the external id has a row.
CreateConversation(unread, now) ==
  conv' = [NoRow EXCEPT !.there = TRUE, !.gen = conv.gen + 1, !.unread = unread, !.updatedAt = now]

\* A new row, or the catalog state of the row that is there.
ObserveConversation ==
  /\ disc.pc = "read"
  /\ IF conv.there
     THEN ObserveCatalogState(disc.open, disc.badge,
                              IF log[disc.n].from = "employer" THEN log[disc.n].at ELSE 0, disc.at)
     ELSE CreateConversation(disc.badge, disc.at)
  /\ disc' = [disc EXCEPT !.pc = IF disc.open THEN "append" ELSE "cancel", !.gen = conv'.gen]
  /\ UNCHANGED <<moment, log, badge, active, writable, known, appl, sync, lane, breaks>>

\* The last message of the catalog; a sync brings the rest, and also this one
\* if the row moved on.
AppendLastMessage ==
  /\ disc.pc = "append"
  /\ IF SameRow(disc) /\ Accepted({disc.n}, disc.at) THEN AppendMessages({disc.n}, disc.at)
     ELSE UNCHANGED <<conv, known>>
  /\ disc' = NoRead
  /\ UNCHANGED <<moment, log, badge, active, writable, appl, sync, lane, breaks>>

\* SyncConversation reads every page; the task of a discovery, one of the
\* operator and the live read of the dashboard are the same.
SyncConversation ==
  /\ sync.pc = "idle" /\ conv.there
  /\ sync' = [Reading EXCEPT !.badge = FALSE]
  /\ UNCHANGED <<moment, log, badge, active, writable, conv, known, appl, disc, lane, breaks>>

\* The presentation, and the application the chat is about; a row that is gone
\* ends the sync.
SyncPresentation ==
  /\ sync.pc = "read"
  /\ IF SameRow(sync)
     THEN ObservePresentation(sync) /\ sync' = [sync EXCEPT !.pc = "link", !.appl = appl]
     ELSE conv' = conv /\ sync' = NoRead
  /\ UNCHANGED <<moment, log, badge, active, writable, known, appl, disc, lane, breaks>>

\* The chat is linked to it, which may be gone since.
SyncLink ==
  /\ sync.pc = "link"
  /\ LinkApplication(sync)
  /\ sync' = [sync EXCEPT !.pc = "append"]
  /\ UNCHANGED <<moment, log, badge, active, writable, known, appl, disc, lane, breaks>>

\* The messages are appended; one that is refused fails the sync.
SyncMessages ==
  /\ sync.pc = "append"
  /\ IF SameRow(sync) /\ Accepted(1..sync.n, sync.at)
     THEN AppendMessages(1..sync.n, sync.at) /\ sync' = [sync EXCEPT !.pc = "answer"]
     ELSE UNCHANGED <<conv, known>> /\ sync' = NoRead
  /\ UNCHANGED <<moment, log, badge, active, writable, appl, disc, lane, breaks>>

\* A live sync, or a profile without automatic answers, is over.
SyncDone ==
  /\ sync.pc = "answer" /\ sync' = NoRead
  /\ UNCHANGED <<moment, log, badge, active, writable, conv, known, appl, disc, lane, breaks>>

\* Either ends early, with the messages it had appended.
BreakReader ==
  /\ Break
  /\ \/ disc.pc # "idle" /\ disc' = NoRead /\ UNCHANGED <<sync, conv, known>>
     \/ /\ sync.pc # "idle" /\ sync' = NoRead /\ disc' = disc
        /\ \E n \in 0..sync.n :
             IF sync.pc = "append" /\ SameRow(sync) /\ Accepted(1..n, sync.at)
             THEN AppendMessages(1..n, sync.at) ELSE UNCHANGED <<conv, known>>
  /\ UNCHANGED <<moment, log, badge, active, writable, appl, lane>>

-----------------------------------------------------------------------------
(* The read that a command of the lane makes before it sends.              *)

LaneRead ==
  /\ lane.pc = "refresh"
  /\ lane' = [lane EXCEPT !.pc = "present", !.read = [Reading EXCEPT !.badge = FALSE]]
  /\ UNCHANGED <<moment, log, badge, active, writable, conv, known, appl, disc, sync, breaks>>

LanePresentation ==
  /\ lane.pc = "present" /\ SameRow(lane.read)
  /\ ObservePresentation(lane.read)
  /\ lane' = [lane EXCEPT !.pc = "link", !.read.appl = appl]
  /\ UNCHANGED <<moment, log, badge, active, writable, known, appl, disc, sync, breaks>>

LaneLink ==
  /\ lane.pc = "link"
  /\ LinkApplication(lane.read)
  /\ lane' = [lane EXCEPT !.pc = "append"]
  /\ UNCHANGED <<moment, log, badge, active, writable, known, appl, disc, sync, breaks>>

LaneMessages ==
  /\ lane.pc = "append" /\ SameRow(lane.read) /\ Accepted(1..lane.read.n, lane.read.at)
  /\ AppendMessages(1..lane.read.n, lane.read.at)
  /\ lane' = [lane EXCEPT !.pc = "check", !.read = NoRead]
  /\ UNCHANGED <<moment, log, badge, active, writable, appl, disc, sync, breaks>>

\* The row went away or moved on: the task of the command fails.
LaneRefused ==
  \/ lane.pc \in {"present", "append"} /\ ~SameRow(lane.read)
  \/ lane.pc = "append" /\ ~Accepted(1..lane.read.n, lane.read.at)

\* The handler of the read mark: the platform, then the row.
PostRead ==
  /\ lane.pc = "idle" /\ conv.there
  /\ badge' = FALSE /\ lane' = [lane EXCEPT !.pc = "told"]
  /\ UNCHANGED <<moment, log, active, writable, conv, known, appl, disc, sync, breaks>>

StoreRead ==
  /\ lane.pc = "told" /\ lane' = NoCommand
  /\ IF conv.there THEN MarkRead ELSE conv' = conv
  /\ UNCHANGED <<moment, log, badge, active, writable, known, appl, disc, sync, breaks>>

LaneStep == LaneRead \/ LanePresentation \/ LaneLink \/ LaneMessages

\* The message that was sent is stored at the time of the answer.
AppendSent(key) ==
  AppendMessages({i \in DOMAIN log : log[i].key = key}, moment)

-----------------------------------------------------------------------------

PeopleStep == Later \/ EmployerWrites \/ OwnerWrites \/ PlatformCloses
CatalogStep == DiscoverConversations \/ ObserveConversation \/ AppendLastMessage
SyncStep == SyncConversation \/ SyncPresentation \/ SyncLink \/ SyncMessages \/ SyncDone
StoreStep == MarkConversationsReadLocally \/ RemoveApplication \/ PurgeOrphanConversations

ReadStep == PostRead \/ StoreRead

ChatStep == PeopleStep \/ CatalogStep \/ SyncStep \/ StoreStep \/ ReadStep \/ BreakReader

\* cancelPendingFollowUps, for a chat that has none.
NothingToCancel ==
  /\ disc.pc = "cancel" /\ disc' = [disc EXCEPT !.pc = "append"]
  /\ UNCHANGED <<moment, log, badge, active, writable, conv, known, appl, sync, lane, breaks>>

-----------------------------------------------------------------------------
\* A chat that is stored or new, with a first message of ours or none.
StoredRow == [NoRow EXCEPT !.there = TRUE, !.gen = 1, !.linked = TRUE, !.updatedAt = 1]

ChatInit ==
  /\ moment = 1 /\ badge = FALSE /\ active = TRUE /\ writable = TRUE /\ appl = TRUE
  /\ log \in {<<>>, <<Message("account", Human, "text")>>}
  /\ conv \in {NoRow, StoredRow}
  /\ known = IF conv.there THEN DOMAIN log ELSE {}
  /\ disc = NoRead /\ sync = NoRead /\ lane = NoCommand /\ breaks = 0

\* What happens around the commands of one row.  A chat that is found again
\* after it was removed gets a row with another id, and the commands of the
\* first are not its commands.
AroundRow == (ChatStep \/ LaneStep) /\ conv'.gen <= 1

=============================================================================
