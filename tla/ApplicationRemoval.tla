------------------------ MODULE ApplicationRemoval ------------------------
(***************************************************************************)
(* The cleanup of applications (worker/application_retention.go,           *)
(* application_removal.go, application_state_sync.go, workflow/            *)
(* application_removal.go).  A retention run reads what the platform says  *)
(* of every response, stores it and enqueues removals; a removal withdraws *)
(* the response on the platform and deletes the row in one transaction.    *)
(* The state sync and the retention run beside the removal, which shares   *)
(* the lane of its profile with the submissions.  Time is in ticks; the    *)
(* clock starts at 1, so 0 stands for a time that is not set.              *)
(***************************************************************************)
EXTENDS Integers, FiniteSets

CONSTANTS
    Responses,     \* the applications of one profile, each with its vacancy
    Shared,        \* those whose vacancy has a response from a second resume
    RetentionRuns, \* the retention tasks
    StaleAfter,    \* the age at which a pending response is given up
    FreshFor,      \* the age at which an observation stops being proof
    ReuseFor,      \* the age at which a removal reads the platform again
    LastTick,      \* bound: the clock
    MaxAnswers,    \* bound: answers of employers
    MaxUpsets      \* bound: failed calls and stops

ASSUME RemovalAssumption ==
  /\ Shared \subseteq Responses /\ Responses # {}
  /\ {StaleAfter, FreshFor, ReuseFor, LastTick, MaxAnswers, MaxUpsets} \subseteq Nat
  /\ FreshFor <= ReuseFor /\ "manual" \notin RetentionRuns

VARIABLES
    tick,       \* the clock
    platform,   \* what the platform shows of the response
    row,        \* the application: its status, its known negotiation, its time
    stored,     \* the platform state stored for it
    held,       \* the applications a running campaign or an open saga owns
    removal,    \* removal[a][k]: the removal task of a with key k
    retention,  \* the retention tasks
    gc, rm, st, \* the handlers of retention, removal and state sync
    withdraws,  \* whether the reader of the profile can withdraw a response
    budget,     \* answers and upsets that happened
    newest      \* history: the newest observation handed to the storage

removalVars == <<tick, platform, row, stored, held, removal,
                 retention, gc, rm, st, withdraws, budget, newest>>

Absent  == "absent"
Keys    == {"manual"} \cup RetentionRuns
Listed  == {"pending", "invited", "rejected"}
Settled == {"waiting", "submitted"}     \* statuses a removal may delete

NoState == [disposition |-> Absent, at |-> 0]
NoGC == [pc |-> "idle", run |-> Absent, at |-> 0, seen |-> [a \in Responses |-> Absent],
         listed |-> [a \in Responses |-> FALSE], todo |-> {}, app |-> Absent, why |-> Absent]
NoRM == [pc |-> "idle", app |-> Absent, key |-> Absent, why |-> Absent, linked |-> FALSE,
         obs |-> NoState, gone |-> FALSE]
NoST == [pc |-> "idle", at |-> 0, seen |-> [a \in Responses |-> Absent], todo |-> {}]

RemovalInit ==
  /\ tick = 1
  /\ platform = [a \in Responses |-> "none"]
  /\ row = [a \in Responses |-> [status |-> "waiting", linked |-> FALSE, submittedAt |-> 0]]
  /\ stored = [a \in Responses |-> NoState]
  /\ held = {}
  /\ removal = [a \in Responses |-> [k \in Keys |-> [status |-> "none", why |-> Absent]]]
  /\ retention = [r \in RetentionRuns |-> "new"]
  /\ gc = NoGC /\ rm = NoRM /\ st = NoST
  /\ withdraws \in BOOLEAN
  /\ budget = [answers |-> 0, upsets |-> 0]
  /\ newest = [a \in Responses |-> NoState]

-----------------------------------------------------------------------------
(* What the world does.                                                    *)

Tick ==
  /\ tick < LastTick /\ tick' = tick + 1
  /\ UNCHANGED <<platform, row, stored, held, removal, retention, gc, rm, st, budget, newest>>

\* The operator retries or approves an application that waited.
Reopen(a) ==
  /\ row[a].status = "waiting"
  /\ row' = [row EXCEPT ![a].status = "active"]
  /\ UNCHANGED <<tick, platform, stored, held, removal, retention, gc, rm, st, budget, newest>>

\* The application worker submits it, or parks it again; the negotiation id
\* is stored when the answer carried one.  It holds the lane of the profile.
Submit(a) ==
  /\ row[a].status = "active" /\ rm.pc = "idle"
  /\ \/ /\ \E known \in BOOLEAN :
             row' = [row EXCEPT ![a] = [status |-> "submitted", linked |-> known, submittedAt |-> tick]]
        /\ platform' = [platform EXCEPT ![a] = "pending"]
        /\ \E h \in {held, held \cup {a}} : held' = h
     \/ /\ row' = [row EXCEPT ![a].status = "waiting"]
        /\ UNCHANGED <<platform, held>>
  /\ UNCHANGED <<tick, stored, removal, retention, gc, rm, st, budget, newest>>

\* The campaign ends, the saga restores the resume.
Release(a) ==
  /\ a \in held /\ held' = held \ {a}
  /\ UNCHANGED <<tick, platform, row, stored, removal, retention, gc, rm, st, budget, newest>>

\* The employer answers, or changes the answer.
Answer(a) ==
  /\ platform[a] \in Listed /\ budget.answers < MaxAnswers
  /\ \E d \in {"invited", "rejected"} \ {platform[a]} : platform' = [platform EXCEPT ![a] = d]
  /\ budget' = [budget EXCEPT !.answers = budget.answers + 1]
  /\ UNCHANGED <<tick, row, stored, held, removal, retention, gc, rm, st, newest>>

-----------------------------------------------------------------------------
(* Shared operations.                                                      *)

Upset == budget.upsets < MaxUpsets /\ budget' = [budget EXCEPT !.upsets = budget.upsets + 1]

FreshApplicationObservation(at) == at # 0 /\ at <= tick /\ tick - at <= FreshFor

\* The observer reads every page of the list; its time is when it started.
ObserveApplicationStates == [a \in Responses |-> IF platform[a] \in Listed THEN platform[a] ELSE Absent]

\* When a reading that ends now and is not too old may have started.
ReadingTimes == {at \in 1..tick : FreshApplicationObservation(at)}

\* By the negotiation id, else by the vacancy if it is the only one.
matchApplicationObservation(a, linked, seen) == seen[a] # Absent /\ (linked \/ a \notin Shared)

\* Mutation: a late save of an earlier read wins.
SaveLate(a, state) ==
  /\ stored' = [stored EXCEPT ![a] = state]
  /\ newest' = [newest EXCEPT ![a] = IF state.at >= newest[a].at THEN state ELSE newest[a]]

\* The upsert keeps the newer observation.
SaveApplicationPlatformState(a, state) ==
  /\ stored' = [stored EXCEPT ![a] = IF state.at >= stored[a].at THEN state ELSE stored[a]]
  /\ newest' = [newest EXCEPT ![a] = IF state.at >= newest[a].at THEN state ELSE newest[a]]

Removed(a) == row[a].status = "removed"

\* A key stands for one command; the target must be there and settled.
KeyTaken(a, k)     == removal[a][k].status # "none"
RemovalRefused(a, k, why) == IF KeyTaken(a, k) THEN removal[a][k].why # why ELSE row[a].status \notin Settled
EnqueueRemoval(a, k, why) ==
  removal' = IF KeyTaken(a, k) THEN removal
             ELSE [removal EXCEPT ![a][k] = [status |-> "new", why |-> why]]

\* The operator removes an application; a refusal changes nothing.
RemoveManually(a) ==
  /\ ~RemovalRefused(a, "manual", "manual") /\ EnqueueRemoval(a, "manual", "manual")
  /\ UNCHANGED <<tick, platform, row, stored, held, retention, gc, rm, st, budget, newest>>

-----------------------------------------------------------------------------
(* The retention run.                                                      *)

\* Leave the handler: the task is over, done or failed for good, or is tried
\* again with the same id.
EndRetention(status) ==
  /\ retention' = [retention EXCEPT ![gc.run] = status]
  /\ gc' = NoGC

\* The pages are read; a reading that took too long ends the task.
StartRetention(r) ==
  /\ gc.pc = "idle" /\ retention[r] = "new"
  /\ \/ /\ retention' = [retention EXCEPT ![r] = "run"]
        /\ \E at \in ReadingTimes :
             gc' = [NoGC EXCEPT !.pc = "list", !.run = r, !.at = at, !.seen = ObserveApplicationStates]
     \/ retention' = [retention EXCEPT ![r] = "over"] /\ gc' = gc
  /\ UNCHANGED <<tick, platform, row, stored, held, removal, rm, st, budget, newest>>

ListApplicationsForRetention ==
  /\ gc.pc = "list"
  /\ LET submitted == {a \in Responses : row[a].status = "submitted"} IN
     gc' = [gc EXCEPT !.pc = "apply", !.todo = submitted,
                      !.listed = [a \in Responses |-> a \in submitted /\ row[a].linked]]
  /\ UNCHANGED <<tick, platform, row, stored, held, removal, retention, rm, st, budget, newest>>

\* Why the row goes, by what was seen and the time it was submitted.
removalReason(disposition, submittedAt) ==
  CASE disposition = "rejected" -> "retention_rejected"
    [] disposition = "pending" /\ submittedAt <= tick - StaleAfter -> "retention_stale"
    [] OTHER -> Absent

\* A listed response is stored, a refusal no longer shown is taken from the
\* store.  A row removed since fails the run.
ApplyObservation(a) ==
  /\ gc.pc = "apply" /\ a \in gc.todo
  /\ LET found == matchApplicationObservation(a, gc.listed[a], gc.seen)
         why == IF found THEN removalReason(gc.seen[a], row[a].submittedAt)
                ELSE IF stored[a].disposition = "rejected" THEN "retention_rejected" ELSE Absent
     IN /\ IF found /\ ~Removed(a)
           THEN SaveApplicationPlatformState(a, [disposition |-> gc.seen[a], at |-> gc.at])
           ELSE UNCHANGED <<stored, newest>>
        /\ IF found /\ Removed(a) THEN EndRetention("over")
           ELSE /\ gc' = [gc EXCEPT !.todo = gc.todo \ {a}, !.why = why,
                                    !.app = IF why = Absent THEN Absent ELSE a, !.pc = IF why = Absent THEN "apply" ELSE "enqueue"]
                /\ UNCHANGED retention
  /\ UNCHANGED <<tick, platform, row, held, removal, rm, st, budget>>

\* A refused command fails the whole run.
EnqueueForRetention ==
  /\ gc.pc = "enqueue"
  /\ IF RemovalRefused(gc.app, gc.run, gc.why) THEN EndRetention("over") /\ UNCHANGED removal
     ELSE /\ EnqueueRemoval(gc.app, gc.run, gc.why)
          /\ gc' = [gc EXCEPT !.app = Absent, !.why = Absent,
                           !.pc = IF gc.why = "retention_validation" THEN "validate" ELSE "apply"]
          /\ UNCHANGED retention
  /\ UNCHANGED <<tick, platform, row, stored, held, rm, st, budget, newest>>

\* Refusals of responses that have no submitted row are hidden one by one, or
\* said to be gone (their chats are deleted next, which is part of
\* Conversations); then the applications that wait are listed.
purgeOrphanRejections ==
  /\ gc.pc = "apply" /\ gc.todo = {}
  /\ LET orphans == {a \in Responses : gc.seen[a] = "rejected" /\ row[a].status # "submitted" /\ ~gc.listed[a]} IN
     /\ \E hides \in SUBSET orphans :
          /\ hides # {} => withdraws
          /\ platform' = [a \in Responses |-> IF a \in hides THEN "hidden" ELSE platform[a]]
     /\ gc' = [NoGC EXCEPT !.pc = "validate", !.run = gc.run,
                           !.todo = {a \in Responses : row[a].status = "waiting"}]
  /\ UNCHANGED <<tick, row, stored, held, removal, retention, rm, st, budget, newest>>

\* An application that waits for an answer is removed once it is old enough;
\* its age is any here.
StaleValidation ==
  /\ gc.pc = "validate"
  /\ IF gc.todo = {} THEN EndRetention("over")
     ELSE /\ \E a \in gc.todo, old \in BOOLEAN :
               gc' = IF old THEN [gc EXCEPT !.todo = gc.todo \ {a}, !.app = a, !.why = "retention_validation",
                                            !.pc = "enqueue"]
                     ELSE [gc EXCEPT !.todo = gc.todo \ {a}]
          /\ UNCHANGED retention
  /\ UNCHANGED <<tick, platform, row, stored, held, removal, rm, st, budget, newest>>

\* A call fails or the process stops: the same task is tried again, or is
\* left failed.
FailRetention ==
  /\ gc.pc # "idle" /\ Upset
  /\ \E s \in {"new", "over"} : EndRetention(s)
  /\ UNCHANGED <<tick, platform, row, stored, held, removal, rm, st, newest>>

RetentionStep ==
  \/ \E r \in RetentionRuns : StartRetention(r)
  \/ ListApplicationsForRetention \/ EnqueueForRetention
  \/ \E a \in Responses : ApplyObservation(a)
  \/ purgeOrphanRejections \/ StaleValidation \/ FailRetention

-----------------------------------------------------------------------------
(* The state sync: the same reading, without removals.                     *)

SyncObserve ==
  /\ st.pc = "idle"
  /\ \E at \in ReadingTimes :
       st' = [pc |-> "save", at |-> at, seen |-> ObserveApplicationStates,
              todo |-> {a \in Responses : row[a].status = "submitted"}]
  /\ UNCHANGED <<tick, platform, row, stored, held, removal, retention, gc, rm, budget, newest>>

\* The sync ends, or fails anywhere.
SyncEnd ==
  /\ st.pc = "save" /\ st' = NoST
  /\ UNCHANGED <<tick, platform, row, stored, held, removal, retention, gc, rm, budget, newest>>

\* A row removed since it was listed is passed over.
SyncSave(a) ==
  /\ st.pc = "save" /\ a \in st.todo
  /\ IF matchApplicationObservation(a, row[a].linked, st.seen) /\ ~Removed(a)
     THEN SaveApplicationPlatformState(a, [disposition |-> st.seen[a], at |-> st.at])
     ELSE UNCHANGED <<stored, newest>>
  /\ st' = [st EXCEPT !.todo = st.todo \ {a}]
  /\ UNCHANGED <<tick, platform, row, held, removal, retention, gc, rm, budget>>

-----------------------------------------------------------------------------
(* The removal, in the lane of the profile.                                *)

EndRemoval(status) ==
  /\ removal' = [removal EXCEPT ![rm.app][rm.key].status = status]
  /\ rm' = NoRM

\* A removed application needs nothing; a refusal or an old response is
\* checked against a stored state if that is young enough, else read again.
ClaimRemoval(a, k) ==
  /\ rm.pc = "idle" /\ removal[a][k].status = "new"
  /\ LET why == removal[a][k].why
         proof == why \in {"retention_rejected", "retention_stale"}
         reuse == stored[a].at # 0 /\ tick - stored[a].at <= ReuseFor
         begun == [NoRM EXCEPT !.app = a, !.key = k, !.why = why, !.linked = row[a].linked]
     IN IF Removed(a)
        THEN rm' = NoRM /\ removal' = [removal EXCEPT ![a][k].status = "over"]
        ELSE /\ removal' = [removal EXCEPT ![a][k].status = "run"]
             /\ rm' = IF proof /\ ~reuse
                      THEN [begun EXCEPT !.pc = "observe", !.obs = [NoState EXCEPT !.at = tick]]
                      ELSE [begun EXCEPT !.pc = "withdraw", !.obs = IF proof THEN stored[a] ELSE NoState]
  /\ UNCHANGED <<tick, platform, row, stored, held, retention, gc, st, budget, newest>>

\* A response that is not shown is left alone unless it was stored as refused.
ObserveForRemoval ==
  /\ rm.pc = "observe"
  /\ LET a == rm.app
         seen == ObserveApplicationStates
         found == matchApplicationObservation(a, rm.linked, seen)
     IN CASE ~FreshApplicationObservation(rm.obs.at) -> EndRemoval("over")
          [] FreshApplicationObservation(rm.obs.at) /\ ~found /\ stored[a].disposition # "rejected" ->
               EndRemoval("over")
          [] OTHER ->
               /\ rm' = [rm EXCEPT !.pc = "save", !.obs = IF found
                           THEN [rm.obs EXCEPT !.disposition = seen[a]] ELSE stored[a]]
               /\ UNCHANGED removal
  /\ UNCHANGED <<tick, platform, row, stored, held, retention, gc, st, budget, newest>>

SaveForRemoval ==
  /\ rm.pc = "save"
  /\ SaveApplicationPlatformState(rm.app, rm.obs)
  /\ rm' = [rm EXCEPT !.pc = "withdraw"]
  /\ UNCHANGED <<tick, platform, row, held, removal, retention, gc, st, budget>>

\* withdrawOnPlatform: the platform is asked if the reader can and the
\* negotiation is known from the state that was read, the stored state or the
\* application.
Withdrawable == withdraws /\ (rm.obs.at # 0 \/ stored[rm.app].at # 0 \/ rm.linked)

\* Mutation: the platform is asked only about a state that was read.
WithdrawObserved ==
  /\ rm.pc = "withdraw"
  /\ \/ /\ Withdrawable /\ rm.obs.at # 0
        /\ platform' = [platform EXCEPT ![rm.app] = "hidden"] /\ rm' = [rm EXCEPT !.pc = "remove"]
     \/ /\ Withdrawable /\ rm.obs.at # 0
        /\ rm' = [rm EXCEPT !.pc = "remove", !.gone = TRUE] /\ UNCHANGED platform
     \/ /\ ~(Withdrawable /\ rm.obs.at # 0)
        /\ rm' = [rm EXCEPT !.pc = "remove"] /\ UNCHANGED platform
  /\ UNCHANGED <<tick, row, stored, held, removal, retention, gc, st, budget, newest>>

\* Declines a pending response, hides another.  A status 404 or 409, and any
\* page instead of the JSON answer, counts as "already gone" though nothing
\* was hidden; the removal goes on either way.
WithdrawApplication ==
  /\ rm.pc = "withdraw"
  /\ \/ /\ Withdrawable
        /\ platform' = [platform EXCEPT ![rm.app] = "hidden"] /\ rm' = [rm EXCEPT !.pc = "remove"]
     \/ /\ Withdrawable
        /\ rm' = [rm EXCEPT !.pc = "remove", !.gone = TRUE] /\ UNCHANGED platform
     \/ ~Withdrawable /\ rm' = [rm EXCEPT !.pc = "remove"] /\ UNCHANGED platform
  /\ UNCHANGED <<tick, row, stored, held, removal, retention, gc, st, budget, newest>>

\* Eligible: the repository checks the policy again in its transaction.
Eligible(a, why, obs) ==
  CASE why = "manual" -> TRUE
    [] why = "retention_validation" -> row[a].status = "waiting"
    [] why = "retention_rejected" -> row[a].status = "submitted" /\ stored[a].disposition = "rejected"
    [] why = "retention_stale" ->
         /\ row[a].status = "submitted" /\ stored[a].disposition = "pending"
         /\ stored[a].at = obs.at /\ FreshApplicationObservation(obs.at)
         /\ row[a].submittedAt <= tick - StaleAfter

\* One transaction: the guards, the tombstone and the deletes.  An active row
\* fails the task, a campaign or a saga delays it, a policy that no longer
\* holds ends it with nothing removed.
RemoveApplication ==
  /\ rm.pc = "remove"
  /\ LET a == rm.app IN
     CASE row[a].status \notin Settled -> EndRemoval("over") /\ UNCHANGED <<row, stored>>
       [] row[a].status \in Settled /\ a \in held -> EndRemoval("new") /\ UNCHANGED <<row, stored>>
       [] row[a].status \in Settled /\ a \notin held /\ ~Eligible(a, rm.why, rm.obs) ->
            EndRemoval("over") /\ UNCHANGED <<row, stored>>
       [] OTHER ->
            /\ row' = [row EXCEPT ![a].status = "removed"]
            /\ stored' = [stored EXCEPT ![a] = NoState]
            /\ EndRemoval("over")
  /\ UNCHANGED <<tick, platform, held, retention, gc, st, budget, newest>>

\* A call fails or the process stops, a withdrawal perhaps after it was done.
FailRemoval ==
  /\ rm.pc # "idle" /\ Upset
  /\ \E s \in {"new", "over"} : EndRemoval(s)
  /\ IF rm.pc = "withdraw" /\ Withdrawable
     THEN \E p \in {platform[rm.app], "hidden"} : platform' = [platform EXCEPT ![rm.app] = p]
     ELSE UNCHANGED platform
  /\ UNCHANGED <<tick, row, stored, held, retention, gc, st, newest>>

RemovalStep ==
  \/ \E a \in Responses, k \in Keys : ClaimRemoval(a, k)
  \/ ObserveForRemoval \/ SaveForRemoval \/ WithdrawApplication \/ RemoveApplication \/ FailRemoval

RemovalActions ==
  \/ Tick \/ RetentionStep \/ SyncObserve \/ SyncEnd \/ RemovalStep
  \/ \E a \in Responses :
       \/ Reopen(a) \/ Submit(a) \/ Release(a) \/ Answer(a)
       \/ RemoveManually(a) \/ SyncSave(a)

RemovalNext == RemovalActions /\ UNCHANGED withdraws

RemovalSpec == RemovalInit /\ [][RemovalNext]_removalVars

-----------------------------------------------------------------------------
\* The retention removes a submitted response only if the newest reading that
\* any of the three handlers handed to the storage still says what the removal
\* is for, however long each of them held its reading back: an invitation that
\* was stored stops it, and so does a later answer.
NewestWordDecides ==
  [][\A a \in Responses :
       row[a].status = "submitted" /\ row'[a].status = "removed" /\ rm.why # "manual"
         => newest[a].disposition = IF rm.why = "retention_rejected" THEN "rejected" ELSE "pending"]_removalVars

\* A response whose negotiation id the application carries leaves the store
\* only after it left the platform or the platform said in this attempt that
\* it has no such response, whatever failed, stopped or was repeated between;
\* a profile whose reader cannot withdraw removes the row alone.
RemovedIsWithdrawn ==
  [][\A a \in Responses :
       row[a].status = "submitted" /\ row[a].linked /\ row'[a].status = "removed"
         => platform[a] = "hidden" \/ ~withdraws \/ (rm.app = a /\ rm.gone)]_removalVars

=============================================================================
