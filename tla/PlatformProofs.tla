--------------------------- MODULE PlatformProofs --------------------------
(***************************************************************************)
(* The removal of applications, the reviews of questionnaires and the      *)
(* reload of the configuration, for any responses, questions, tests and    *)
(* configurations, and without the bounds of the runs.  They share no      *)
(* variable.                                                               *)
(***************************************************************************)
EXTENDS ConfigReload, ApplicationRemoval, QuestionnaireReviews, FiniteSetTheorems,
        WellFoundedInduction, TLAPS

-----------------------------------------------------------------------------
(* The removal of applications.  Three handlers keep what they read and    *)
(* store it later, so the newest observation is compared by its time when  *)
(* it is stored; a removal keeps the lane of its profile, so what it read  *)
(* of the application stays true until it is over.                         *)
Whys == {"manual", "retention_rejected", "retention_stale", "retention_validation"}
RowSet == [status : {"waiting", "active", "submitted", "removed"}, linked : BOOLEAN,
           submittedAt : Nat]
TaskSet == [status : {"none", "new", "run", "over"}, why : {Absent} \cup Whys]
TaskTable == [Responses -> [Keys -> TaskSet]]

RemovalTypeOK ==
    /\ tick \in Nat /\ row \in [Responses -> RowSet] /\ removal \in TaskTable
    /\ DOMAIN platform = Responses
    /\ DOMAIN stored = Responses /\ DOMAIN newest = Responses
    /\ gc \in [pc : {"idle", "list", "apply", "enqueue", "validate"},
               run : {Absent} \cup RetentionRuns, at : {gc.at}, seen : {gc.seen},
               listed : {gc.listed}, todo : SUBSET Responses,
               app : {Absent} \cup Responses, why : {Absent} \cup Whys]
    /\ rm \in [pc : {"idle", "observe", "save", "withdraw", "remove"},
               app : {Absent} \cup Responses, key : {Absent} \cup Keys,
               why : {Absent} \cup Whys, linked : BOOLEAN, obs : {rm.obs},
               gone : BOOLEAN]

(* A task knows why it removes, from the operator or from a retention run. *)
ReasonKnown ==
    /\ \A a \in Responses, k \in Keys :
          removal[a][k].status # "none" => removal[a][k].why \in Whys
    /\ gc.pc # "idle" => gc.run \in RetentionRuns
    /\ gc.pc = "enqueue" => gc.app \in Responses /\ gc.why \in Whys
    /\ rm.pc # "idle" => /\ rm.app \in Responses /\ rm.key \in Keys /\ rm.why \in Whys
                         /\ removal[rm.app][rm.key].why \in Whys

(* What is stored for a row that is there is the newest of what the three  *)
(* handlers handed to the storage.                                         *)
NewestStored == \A a \in Responses : row[a].status # "removed" => stored[a] = newest[a]

(* A linked response left the platform before its removal comes to the row,*)
(* or the platform said that it is gone, or it could not be asked.         *)
WithdrawnFirst ==
    /\ rm.pc # "idle" => row[rm.app].linked = rm.linked
    /\ rm.pc = "remove" /\ rm.linked => platform[rm.app] = "hidden" \/ ~withdraws \/ rm.gone

RemovalInv == RemovalTypeOK /\ ReasonKnown /\ NewestStored /\ WithdrawnFirst

OnlyTask(a, k, x) ==
    /\ removal' \in TaskTable /\ removal'[a][k] = x
    /\ \A b \in Responses, j \in Keys : b # a \/ j # k => removal'[b][j] = removal[b][j]

LEMMA TaskWritten ==
    ASSUME removal \in TaskTable, NEW a \in Responses, NEW k \in Keys, NEW x \in TaskSet,
           removal' = [removal EXCEPT ![a][k] = x]
    PROVE  OnlyTask(a, k, x)
BY DEF TaskTable, OnlyTask

LEMMA TaskEnded ==
    ASSUME removal \in TaskTable, NEW a \in Responses, NEW k \in Keys,
           NEW s \in {"none", "new", "run", "over"},
           removal' = [removal EXCEPT ![a][k].status = s]
    PROVE  OnlyTask(a, k, [status |-> s, why |-> removal[a][k].why])
BY DEF TaskTable, TaskSet, OnlyTask

LEMMA RemovalInitInv == RemovalInit => RemovalInv
<1> SUFFICES ASSUME RemovalInit PROVE RemovalInv
  OBVIOUS
<1>1. /\ tick \in Nat /\ row \in [Responses -> RowSet] /\ removal \in TaskTable
      /\ DOMAIN platform = Responses
      /\ DOMAIN stored = Responses /\ DOMAIN newest = Responses
  BY DEF RemovalInit, RowSet, TaskSet, TaskTable
<1>2. gc \in [pc : {"idle", "list", "apply", "enqueue", "validate"},
              run : {Absent} \cup RetentionRuns, at : {gc.at}, seen : {gc.seen},
              listed : {gc.listed}, todo : SUBSET Responses,
              app : {Absent} \cup Responses, why : {Absent} \cup Whys]
  BY DEF RemovalInit, NoGC
<1>3. rm \in [pc : {"idle", "observe", "save", "withdraw", "remove"},
              app : {Absent} \cup Responses, key : {Absent} \cup Keys,
              why : {Absent} \cup Whys, linked : BOOLEAN, obs : {rm.obs},
              gone : BOOLEAN]
  BY DEF RemovalInit, NoRM
<1>4. gc.pc = "idle" /\ rm.pc = "idle" BY DEF RemovalInit, NoGC, NoRM
<1>5. ReasonKnown BY <1>4 DEF ReasonKnown, RemovalInit
<1>6. NewestStored BY DEF NewestStored, RemovalInit
<1>7. QED
  BY <1>1, <1>2, <1>3, <1>4, <1>5, <1>6 DEF RemovalInv, RemovalTypeOK, WithdrawnFirst

(* Steps of the world and of the state sync: no task and no handler of the *)
(* retention or of the removal changes.                                    *)
LEMMA WorldSteps ==
    ASSUME RemovalInv, UNCHANGED withdraws, NEW a \in Responses,
           \/ Tick \/ SyncObserve \/ SyncEnd
           \/ Reopen(a) \/ Submit(a) \/ Release(a) \/ Answer(a) \/ SyncSave(a)
    PROVE  RemovalInv'
<1>1. UNCHANGED <<removal, gc, rm>> /\ tick' \in Nat
  BY DEF Tick, SyncObserve, SyncEnd, Reopen, Submit, Release, Answer, SyncSave, RemovalInv,
         RemovalTypeOK
<1>2. /\ row' \in [Responses -> RowSet]
      /\ \A b \in Responses : row'[b].status = "removed" <=> row[b].status = "removed"
      /\ rm.pc # "idle" => \A b \in Responses : row'[b].linked = row[b].linked
  <2>1. CASE row' = row BY <2>1 DEF RemovalInv, RemovalTypeOK
  <2>2. CASE Reopen(a) BY <2>2 DEF Reopen, RemovalInv, RemovalTypeOK, RowSet
  <2>3. CASE Submit(a)
    <3>1. CASE row' = [row EXCEPT ![a].status = "waiting"]
      BY <2>3, <3>1 DEF Submit, RemovalInv, RemovalTypeOK, RowSet
    <3>2. CASE \E known \in BOOLEAN :
                 row' = [row EXCEPT ![a] = [status |-> "submitted", linked |-> known,
                                            submittedAt |-> tick]]
      BY <2>3, <3>2 DEF Submit, RemovalInv, RemovalTypeOK, RowSet
    <3>3. QED BY <2>3, <3>1, <3>2 DEF Submit
  <2>4. QED
    BY <2>1, <2>2, <2>3 DEF Tick, SyncObserve, SyncEnd, Release, Answer, SyncSave
<1>3. /\ DOMAIN platform' = Responses
      /\ rm.pc # "idle" => \A b \in Responses : platform[b] = "hidden" => platform'[b] = "hidden"
  <2>1. CASE platform' = platform BY <2>1 DEF RemovalInv, RemovalTypeOK
  <2>2. CASE Submit(a) BY <2>2 DEF Submit, RemovalInv, RemovalTypeOK
  <2>3. CASE Answer(a) BY <2>3 DEF Answer, Listed, RemovalInv, RemovalTypeOK
  <2>4. QED
    BY <2>1, <2>2, <2>3 DEF Tick, SyncObserve, SyncEnd, Reopen, Release, SyncSave
<1>4. /\ DOMAIN stored' = Responses /\ DOMAIN newest' = Responses
      /\ NewestStored'
  <2>1. CASE stored' = stored /\ newest' = newest
    BY <1>2, <2>1 DEF RemovalInv, RemovalTypeOK, NewestStored
  <2>2. CASE SyncSave(a)
    BY <1>2, <2>1, <2>2
    DEF SyncSave, SaveApplicationPlatformState, RemovalInv, RemovalTypeOK, NewestStored
  <2>3. QED
    BY <2>1, <2>2 DEF Tick, SyncObserve, SyncEnd, Reopen, Submit, Release, Answer
<1>5. RemovalTypeOK' BY <1>1, <1>2, <1>3, <1>4 DEF RemovalInv, RemovalTypeOK
<1>6. ReasonKnown' BY <1>1 DEF RemovalInv, ReasonKnown
<1>7. WithdrawnFirst'
  BY <1>1, <1>2, <1>3 DEF RemovalInv, ReasonKnown, WithdrawnFirst
<1>8. QED BY <1>4, <1>5, <1>6, <1>7 DEF RemovalInv

(* A command that makes a task.                                            *)
LEMMA CommandMade ==
    ASSUME RemovalInv, NEW a \in Responses, NEW k \in Keys, NEW why \in Whys,
           EnqueueRemoval(a, k, why)
    PROVE  /\ removal' \in TaskTable
           /\ \A b \in Responses, j \in Keys :
                 /\ removal'[b][j].status # "none" => removal'[b][j].why \in Whys
                 /\ removal[b][j].why \in Whys => removal'[b][j].why \in Whys
<1>1. CASE removal' = removal
  BY <1>1 DEF RemovalInv, RemovalTypeOK, ReasonKnown
<1>2. CASE removal' = [removal EXCEPT ![a][k] = [status |-> "new", why |-> why]]
  <2> DEFINE x == [status |-> "new", why |-> why]
  <2>1. x \in TaskSet /\ x.why \in Whys /\ removal \in TaskTable
    BY DEF TaskSet, RemovalInv, RemovalTypeOK
  <2>2. removal' = [removal EXCEPT ![a][k] = x] BY <1>2
  <2> HIDE DEF x
  <2>3. OnlyTask(a, k, x) BY <2>1, <2>2, TaskWritten
  <2>4. QED BY <2>1, <2>3 DEF OnlyTask, RemovalInv, ReasonKnown
<1>3. QED BY <1>1, <1>2 DEF EnqueueRemoval

LEMMA ManualStep ==
    ASSUME RemovalInv, UNCHANGED withdraws, NEW a \in Responses, RemoveManually(a)
    PROVE  RemovalInv'
<1>1. UNCHANGED <<tick, platform, row, stored, held, retention, gc, rm, st, budget, newest>>
  BY DEF RemoveManually
<1>2. /\ removal' \in TaskTable
      /\ \A b \in Responses, j \in Keys :
            /\ removal'[b][j].status # "none" => removal'[b][j].why \in Whys
            /\ removal[b][j].why \in Whys => removal'[b][j].why \in Whys
  BY CommandMade DEF RemoveManually, Keys, Whys
<1>3. QED
  BY <1>1, <1>2
  DEF RemovalInv, RemovalTypeOK, ReasonKnown, NewestStored, WithdrawnFirst

(* Steps of the retention: neither the rows nor the handler of the removal *)
(* change.                                                                 *)
GCSet == [pc : {"idle", "list", "apply", "enqueue", "validate"},
          run : {Absent} \cup RetentionRuns, at : {gc'.at}, seen : {gc'.seen},
          listed : {gc'.listed}, todo : SUBSET Responses,
          app : {Absent} \cup Responses, why : {Absent} \cup Whys]

LEMMA RetentionKeeps ==
    ASSUME RemovalInv, UNCHANGED <<tick, row, rm, withdraws>>, removal' \in TaskTable,
           \A b \in Responses, j \in Keys :
              /\ removal'[b][j].status # "none" => removal'[b][j].why \in Whys
              /\ removal[b][j].why \in Whys => removal'[b][j].why \in Whys,
           DOMAIN platform' = Responses,
           \A b \in Responses : platform[b] = "hidden" => platform'[b] = "hidden",
           DOMAIN stored' = Responses, DOMAIN newest' = Responses, NewestStored',
           gc' \in GCSet, gc'.pc # "idle" => gc'.run \in RetentionRuns,
           gc'.pc = "enqueue" => gc'.app \in Responses /\ gc'.why \in Whys
    PROVE  RemovalInv'
<1>1. RemovalTypeOK' BY DEF RemovalInv, RemovalTypeOK, GCSet
<1>2. ReasonKnown' BY DEF RemovalInv, ReasonKnown
<1>3. WithdrawnFirst' BY DEF RemovalInv, ReasonKnown, WithdrawnFirst
<1>4. QED BY <1>1, <1>2, <1>3 DEF RemovalInv

GCNext == /\ gc' \in GCSet
          /\ gc'.pc # "idle" => gc'.run \in RetentionRuns
          /\ gc'.pc = "enqueue" => gc'.app \in Responses /\ gc'.why \in Whys

LEMMA HandlerOver == gc' = NoGC => GCNext
BY DEF NoGC, GCSet, GCNext

LEMMA ReasonOfRemoval ==
    ASSUME NEW d, NEW s PROVE removalReason(d, s) \in {Absent} \cup Whys
BY DEF removalReason, Whys

LEMMA RetentionHandler == ASSUME RemovalInv, RetentionStep PROVE GCNext
<1>1. /\ gc.pc \in {"idle", "list", "apply", "enqueue", "validate"}
      /\ gc.run \in {Absent} \cup RetentionRuns
      /\ gc.app \in {Absent} \cup Responses /\ gc.why \in {Absent} \cup Whys
      /\ gc.todo \in SUBSET Responses
      /\ gc.pc # "idle" => gc.run \in RetentionRuns
  BY DEF RemovalInv, RemovalTypeOK, ReasonKnown
<1>2. gc' = gc => GCNext
  BY DEF GCNext, GCSet, RemovalInv, RemovalTypeOK, ReasonKnown
<1>3. CASE \E r \in RetentionRuns : StartRetention(r)
  <2>1. PICK r \in RetentionRuns : StartRetention(r) BY <1>3
  <2>2. CASE gc' = gc BY <1>2, <2>2
  <2>3. CASE \E at \in ReadingTimes :
               gc' = [NoGC EXCEPT !.pc = "list", !.run = r, !.at = at,
                                  !.seen = ObserveApplicationStates]
    BY <2>3 DEF NoGC, GCNext, GCSet
  <2>4. QED BY <2>1, <2>2, <2>3 DEF StartRetention
<1>4. CASE ListApplicationsForRetention
  <2>1. PICK todo, listed :
          /\ gc' = [gc EXCEPT !.pc = "apply", !.todo = todo, !.listed = listed]
          /\ todo \in SUBSET Responses
    BY <1>4 DEF ListApplicationsForRetention
  <2>2. QED BY <1>1, <1>4, <2>1 DEF ListApplicationsForRetention, GCNext, GCSet, RemovalInv,
                                    RemovalTypeOK
<1>5. CASE \E a \in Responses : ApplyObservation(a)
  <2>1. PICK a \in Responses : ApplyObservation(a) BY <1>5
  <2>2. CASE gc' = NoGC BY <2>2, HandlerOver
  <2>3. CASE gc' # NoGC
    <3>1. PICK why \in {Absent} \cup Whys :
            gc' = [gc EXCEPT !.todo = gc.todo \ {a}, !.why = why,
                             !.app = IF why = Absent THEN Absent ELSE a,
                             !.pc = IF why = Absent THEN "apply" ELSE "enqueue"]
      <4> DEFINE found == matchApplicationObservation(a, gc.listed[a], gc.seen)
                 w == IF found THEN removalReason(gc.seen[a], row[a].submittedAt)
                      ELSE IF stored[a].disposition = "rejected" THEN "retention_rejected"
                      ELSE Absent
      <4>1. w \in {Absent} \cup Whys BY ReasonOfRemoval DEF Whys
      <4>2. gc' = [gc EXCEPT !.todo = gc.todo \ {a}, !.why = w,
                             !.app = IF w = Absent THEN Absent ELSE a,
                             !.pc = IF w = Absent THEN "apply" ELSE "enqueue"]
        BY <2>1, <2>3 DEF ApplyObservation, EndRetention
      <4>3. QED BY <4>1, <4>2
    <3>2. gc.pc = "apply" BY <2>1 DEF ApplyObservation
    <3>3. QED BY <1>1, <3>1, <3>2 DEF GCNext, GCSet, RemovalInv, RemovalTypeOK
  <2>4. QED BY <2>2, <2>3
<1>6. CASE EnqueueForRetention
  <2>1. CASE gc' = NoGC BY <2>1, HandlerOver
  <2>2. CASE \E pc \in {"validate", "apply"} :
               gc' = [gc EXCEPT !.app = Absent, !.why = Absent, !.pc = pc]
    BY <1>1, <1>6, <2>2
    DEF EnqueueForRetention, GCNext, GCSet, RemovalInv, RemovalTypeOK
  <2>3. QED BY <1>6, <2>1, <2>2 DEF EnqueueForRetention, EndRetention
<1>7. CASE purgeOrphanRejections
  <2>1. PICK todo \in SUBSET Responses :
          gc' = [NoGC EXCEPT !.pc = "validate", !.run = gc.run, !.todo = todo]
    BY <1>7 DEF purgeOrphanRejections
  <2>2. QED BY <1>1, <1>7, <2>1 DEF purgeOrphanRejections, NoGC, GCNext, GCSet
<1>8. CASE StaleValidation
  <2>1. CASE gc' = NoGC BY <2>1, HandlerOver
  <2>2. CASE \E a \in gc.todo :
               gc' = [gc EXCEPT !.todo = gc.todo \ {a}, !.app = a,
                                !.why = "retention_validation", !.pc = "enqueue"]
    <3>1. PICK a \in gc.todo :
            gc' = [gc EXCEPT !.todo = gc.todo \ {a}, !.app = a,
                             !.why = "retention_validation", !.pc = "enqueue"]
      BY <2>2
    <3>2. gc.pc = "validate" /\ a \in Responses /\ gc.todo \ {a} \in SUBSET Responses
      BY <1>1, <1>8 DEF StaleValidation
    <3>3. "retention_validation" \in Whys BY DEF Whys
    <3>4. QED BY <1>1, <3>1, <3>2, <3>3 DEF GCNext, GCSet, RemovalInv, RemovalTypeOK
  <2>3. CASE \E a \in gc.todo : gc' = [gc EXCEPT !.todo = gc.todo \ {a}]
    <3>1. PICK a \in gc.todo : gc' = [gc EXCEPT !.todo = gc.todo \ {a}] BY <2>3
    <3>2. gc.pc = "validate" /\ gc.todo \ {a} \in SUBSET Responses
      BY <1>1, <1>8 DEF StaleValidation
    <3>3. QED BY <1>1, <3>1, <3>2 DEF GCNext, GCSet, RemovalInv, RemovalTypeOK
  <2>4. QED BY <1>8, <2>1, <2>2, <2>3 DEF StaleValidation, EndRetention
<1>9. CASE FailRetention BY <1>9, HandlerOver DEF FailRetention, EndRetention
<1>10. QED BY <1>3, <1>4, <1>5, <1>6, <1>7, <1>8, <1>9 DEF RetentionStep

LEMMA RetentionSteps ==
    ASSUME RemovalInv, RetentionStep, UNCHANGED withdraws PROVE RemovalInv'
<1>1. UNCHANGED <<tick, row, rm>>
  BY DEF RetentionStep, StartRetention, ListApplicationsForRetention, EnqueueForRetention,
         ApplyObservation, purgeOrphanRejections, StaleValidation, FailRetention
<1>2. /\ gc' \in GCSet /\ (gc'.pc # "idle" => gc'.run \in RetentionRuns)
      /\ gc'.pc = "enqueue" => gc'.app \in Responses /\ gc'.why \in Whys
  BY RetentionHandler DEF GCNext
<1>3. /\ removal' \in TaskTable
      /\ \A b \in Responses, j \in Keys :
            /\ removal'[b][j].status # "none" => removal'[b][j].why \in Whys
            /\ removal[b][j].why \in Whys => removal'[b][j].why \in Whys
  <2>1. CASE removal' = removal
    BY <2>1 DEF RemovalInv, RemovalTypeOK, ReasonKnown
  <2>2. CASE EnqueueForRetention /\ EnqueueRemoval(gc.app, gc.run, gc.why)
    <3>1. gc.app \in Responses /\ gc.run \in Keys /\ gc.why \in Whys
      BY <2>2 DEF EnqueueForRetention, RemovalInv, ReasonKnown, Keys
    <3>2. QED BY <2>2, <3>1, CommandMade
  <2>3. QED
    BY <2>1, <2>2
    DEF RetentionStep, StartRetention, ListApplicationsForRetention, EnqueueForRetention,
        ApplyObservation, purgeOrphanRejections, StaleValidation, FailRetention
<1>4. /\ DOMAIN platform' = Responses
      /\ \A b \in Responses : platform[b] = "hidden" => platform'[b] = "hidden"
  <2>1. CASE platform' = platform BY <2>1 DEF RemovalInv, RemovalTypeOK
  <2>2. CASE purgeOrphanRejections BY <2>2 DEF purgeOrphanRejections
  <2>3. QED
    BY <2>1, <2>2
    DEF RetentionStep, StartRetention, ListApplicationsForRetention, EnqueueForRetention,
        ApplyObservation, StaleValidation, FailRetention
<1>5. /\ DOMAIN stored' = Responses /\ DOMAIN newest' = Responses /\ NewestStored'
  <2>1. CASE stored' = stored /\ newest' = newest
    BY <1>1, <2>1 DEF RemovalInv, RemovalTypeOK, NewestStored
  <2>2. CASE \E a \in Responses : ApplyObservation(a)
    <3>1. PICK a \in Responses : ApplyObservation(a) BY <2>2
    <3>2. \/ stored' = stored /\ newest' = newest
          \/ SaveApplicationPlatformState(a, [disposition |-> gc.seen[a], at |-> gc.at])
      BY <3>1 DEF ApplyObservation
    <3>3. QED
      BY <1>1, <2>1, <3>2
      DEF SaveApplicationPlatformState, RemovalInv, RemovalTypeOK, NewestStored
  <2>3. QED
    BY <2>1, <2>2
    DEF RetentionStep, StartRetention, ListApplicationsForRetention, EnqueueForRetention,
        purgeOrphanRejections, StaleValidation, FailRetention
<1>6. QED BY <1>1, <1>2, <1>3, <1>4, <1>5, RetentionKeeps

(* Steps of the removal.                                                   *)
RMSet == [pc : {"idle", "observe", "save", "withdraw", "remove"},
          app : {Absent} \cup Responses, key : {Absent} \cup Keys,
          why : {Absent} \cup Whys, linked : BOOLEAN, obs : {rm'.obs},
          gone : BOOLEAN]

LEMMA RemovalOver ==
    ASSUME RemovalInv, rm.pc # "idle", NEW s \in {"new", "over"}, EndRemoval(s),
           UNCHANGED <<tick, gc>>,
           row' \in [Responses -> RowSet], DOMAIN platform' = Responses,
           DOMAIN stored' = Responses, DOMAIN newest' = Responses, NewestStored'
    PROVE  RemovalInv'
<1>1. rm' = NoRM /\ removal' = [removal EXCEPT ![rm.app][rm.key].status = s]
  BY DEF EndRemoval
<1>2. rm'.pc = "idle" /\ rm' \in RMSet BY <1>1 DEF NoRM, RMSet
<1>3. PICK a \in Responses, k \in Keys :
        a = rm.app /\ k = rm.key /\ removal[a][k].why \in Whys
  BY DEF RemovalInv, ReasonKnown
<1>4. rm.why \in Whys /\ removal \in TaskTable BY DEF RemovalInv, RemovalTypeOK, ReasonKnown
<1>5. removal' \in TaskTable
      /\ \A b \in Responses, j \in Keys :
            removal'[b][j].status # "none" => removal'[b][j].why \in Whys
  <2> DEFINE x == [status |-> s, why |-> removal[a][k].why]
  <2>1. OnlyTask(a, k, x) BY <1>1, <1>3, <1>4, TaskEnded
  <2>2. x.why \in Whys BY <1>3
  <2> HIDE DEF x
  <2>3. QED BY <2>1, <2>2 DEF OnlyTask, RemovalInv, ReasonKnown
<1>6. RemovalTypeOK' BY <1>2, <1>5 DEF RemovalInv, RemovalTypeOK, RMSet
<1>7. ReasonKnown' BY <1>2, <1>5 DEF RemovalInv, ReasonKnown
<1>8. WithdrawnFirst' BY <1>2 DEF WithdrawnFirst
<1>9. QED BY <1>6, <1>7, <1>8 DEF RemovalInv

(* The removal goes on: its task, its target and its reason stay.          *)
LEMMA RemovalGoesOn ==
    ASSUME RemovalInv, rm.pc # "idle", UNCHANGED <<tick, row, removal, gc, withdraws>>,
           NEW pc \in {"observe", "save", "withdraw", "remove"}, NEW obs,
           NEW gone \in BOOLEAN,
           rm' = [rm EXCEPT !.pc = pc, !.obs = obs, !.gone = gone],
           DOMAIN platform' = Responses,
           DOMAIN stored' = Responses, DOMAIN newest' = Responses, NewestStored',
           pc = "remove" /\ rm.linked => platform'[rm.app] = "hidden" \/ ~withdraws \/ gone
    PROVE  RemovalInv'
<1>1. /\ rm'.pc = pc /\ rm'.app = rm.app /\ rm'.key = rm.key /\ rm'.why = rm.why
      /\ rm'.linked = rm.linked /\ rm'.gone = gone /\ rm' \in RMSet
  BY DEF RemovalInv, RemovalTypeOK, RMSet
<1>2. RemovalTypeOK' BY <1>1 DEF RemovalInv, RemovalTypeOK, RMSet
<1>3. ReasonKnown' BY <1>1 DEF RemovalInv, ReasonKnown
<1>4. WithdrawnFirst' BY <1>1 DEF RemovalInv, WithdrawnFirst
<1>5. QED BY <1>2, <1>3, <1>4 DEF RemovalInv

LEMMA ClaimStep ==
    ASSUME RemovalInv, NEW a \in Responses, NEW k \in Keys, ClaimRemoval(a, k)
    PROVE  RemovalInv'
<1> DEFINE why == removal[a][k].why
           s == IF Removed(a) THEN "over" ELSE "run"
           x == [status |-> s, why |-> why]
<1>1. /\ rm.pc = "idle" /\ removal[a][k].status = "new"
      /\ UNCHANGED <<tick, platform, row, stored, gc, newest>>
  BY DEF ClaimRemoval
<1>2. why \in Whys /\ removal \in TaskTable
  BY <1>1 DEF RemovalInv, ReasonKnown, RemovalTypeOK
<1>3. removal' = [removal EXCEPT ![a][k].status = s] BY DEF ClaimRemoval
<1>4. s \in {"none", "new", "run", "over"} /\ x.why = why OBVIOUS
<1>5. rm' \in RMSet /\ (rm'.pc # "idle" =>
        rm'.app = a /\ rm'.key = k /\ rm'.why = why /\ rm'.linked = row[a].linked)
      /\ rm'.pc # "remove"
  <2>1. CASE Removed(a)
    <3>1. rm' = NoRM BY <2>1 DEF ClaimRemoval
    <3>2. QED BY <3>1 DEF NoRM, RMSet
  <2>2. CASE ~Removed(a)
    <3>1. PICK pc, obs :
            /\ pc \in {"observe", "withdraw"}
            /\ rm' = [NoRM EXCEPT !.app = a, !.key = k, !.why = why,
                                  !.linked = row[a].linked, !.pc = pc, !.obs = obs]
      <4> DEFINE proof == why \in {"retention_rejected", "retention_stale"}
                 o1 == [NoState EXCEPT !.at = tick]
                 o2 == IF proof THEN stored[a] ELSE NoState
                 begun == [NoRM EXCEPT !.app = a, !.key = k, !.why = why,
                                       !.linked = row[a].linked]
      <4>1. \/ rm' = [begun EXCEPT !.pc = "observe", !.obs = o1]
            \/ rm' = [begun EXCEPT !.pc = "withdraw", !.obs = o2]
        BY <2>2 DEF ClaimRemoval
      <4> DEFINE Begun(pc, o) == [NoRM EXCEPT !.app = a, !.key = k, !.why = why,
                                              !.linked = row[a].linked,
                                              !.pc = pc, !.obs = o]
      <4> HIDE DEF o1, o2, proof
      <4>2. \A pc, o : [begun EXCEPT !.pc = pc, !.obs = o] = Begun(pc, o)
        BY DEF NoRM
      <4>3. rm' = Begun("observe", o1) \/ rm' = Begun("withdraw", o2)
        <5> HIDE DEF begun, Begun
        <5>1. QED BY <4>1, <4>2
      <4>4. \E pc, o : pc \in {"observe", "withdraw"} /\ rm' = Begun(pc, o)
        <5> HIDE DEF Begun
        <5>1. QED BY <4>3
      <4>5. QED BY <4>4
    <3>2. row[a].linked \in BOOLEAN BY DEF RemovalInv, RemovalTypeOK, RowSet
    <3>3. QED BY <1>2, <3>1, <3>2 DEF NoRM, RMSet
  <2>3. QED BY <2>1, <2>2
<1> HIDE DEF x, s
<1>6. OnlyTask(a, k, x) BY <1>2, <1>3, <1>4, TaskEnded DEF x
<1>7. /\ removal' \in TaskTable /\ removal'[a][k].why = why
      /\ \A b \in Responses, j \in Keys :
            removal'[b][j].status # "none" => removal'[b][j].why \in Whys
  BY <1>2, <1>4, <1>6 DEF OnlyTask, RemovalInv, ReasonKnown
<1> HIDE DEF why
<1>8. RemovalTypeOK' BY <1>1, <1>5, <1>7 DEF RemovalInv, RemovalTypeOK, RMSet
<1>9. ReasonKnown' BY <1>1, <1>2, <1>5, <1>7 DEF RemovalInv, ReasonKnown
<1>10. NewestStored' BY <1>1 DEF RemovalInv, NewestStored
<1>11. WithdrawnFirst' BY <1>1, <1>5 DEF WithdrawnFirst
<1>12. QED BY <1>8, <1>9, <1>10, <1>11 DEF RemovalInv

LEMMA ObserveStep ==
    ASSUME RemovalInv, ObserveForRemoval, UNCHANGED withdraws PROVE RemovalInv'
<1>1. /\ rm.pc = "observe"
      /\ UNCHANGED <<tick, platform, row, stored, gc, newest>>
  BY DEF ObserveForRemoval
<1>2. /\ DOMAIN platform' = Responses /\ row' \in [Responses -> RowSet]
      /\ DOMAIN stored' = Responses /\ DOMAIN newest' = Responses /\ NewestStored'
  BY <1>1 DEF RemovalInv, RemovalTypeOK, NewestStored
<1>3. CASE EndRemoval("over") BY <1>1, <1>2, <1>3, RemovalOver
<1>4. CASE /\ UNCHANGED removal
           /\ \E obs : rm' = [rm EXCEPT !.pc = "save", !.obs = obs]
  <2>1. PICK obs : rm' = [rm EXCEPT !.pc = "save", !.obs = obs] BY <1>4
  <2>2. rm.gone \in BOOLEAN /\ rm' = [rm EXCEPT !.pc = "save", !.obs = obs, !.gone = rm.gone]
    BY <2>1 DEF RemovalInv, RemovalTypeOK
  <2>3. QED BY <1>1, <1>2, <1>4, <2>2, RemovalGoesOn
<1>5. EndRemoval("over") \/
        /\ UNCHANGED removal
        /\ \E obs : rm' = [rm EXCEPT !.pc = "save", !.obs = obs]
  BY DEF ObserveForRemoval
<1>6. QED BY <1>3, <1>4, <1>5

LEMMA SaveStep ==
    ASSUME RemovalInv, SaveForRemoval, UNCHANGED withdraws PROVE RemovalInv'
<1>1. /\ rm.pc = "save" /\ UNCHANGED <<tick, platform, row, removal, gc>>
      /\ rm' = [rm EXCEPT !.pc = "withdraw"]
  BY DEF SaveForRemoval
<1>2. /\ rm.gone \in BOOLEAN
      /\ rm' = [rm EXCEPT !.pc = "withdraw", !.obs = rm.obs, !.gone = rm.gone]
  BY <1>1 DEF RemovalInv, RemovalTypeOK
<1>3. /\ DOMAIN platform' = Responses
      /\ DOMAIN stored' = Responses /\ DOMAIN newest' = Responses /\ NewestStored'
  BY <1>1
  DEF SaveForRemoval, SaveApplicationPlatformState, RemovalInv, RemovalTypeOK, NewestStored
<1>4. QED BY <1>1, <1>2, <1>3, RemovalGoesOn

LEMMA WithdrawStep ==
    ASSUME RemovalInv, WithdrawApplication, UNCHANGED withdraws PROVE RemovalInv'
<1>1. /\ rm.pc = "withdraw" /\ UNCHANGED <<tick, row, removal, gc, stored, newest>>
      /\ rm.app \in Responses
  BY DEF WithdrawApplication, RemovalInv, ReasonKnown
<1>2. PICK gone \in BOOLEAN :
        /\ rm' = [rm EXCEPT !.pc = "remove", !.obs = rm.obs, !.gone = gone]
        /\ platform' = platform \/ platform' = [platform EXCEPT ![rm.app] = "hidden"]
        /\ ~gone /\ Withdrawable => platform' = [platform EXCEPT ![rm.app] = "hidden"]
  <2>1. CASE rm' = [rm EXCEPT !.pc = "remove", !.gone = TRUE] /\ UNCHANGED platform
    <3>1. rm' = [rm EXCEPT !.pc = "remove", !.obs = rm.obs, !.gone = TRUE]
      BY <2>1 DEF RemovalInv, RemovalTypeOK
    <3>2. QED BY <2>1, <3>1
  <2>2. CASE /\ rm' = [rm EXCEPT !.pc = "remove"]
             /\ platform' = platform \/ platform' = [platform EXCEPT ![rm.app] = "hidden"]
             /\ Withdrawable => platform' = [platform EXCEPT ![rm.app] = "hidden"]
    <3>1. /\ rm.gone \in BOOLEAN
          /\ rm' = [rm EXCEPT !.pc = "remove", !.obs = rm.obs, !.gone = rm.gone]
      BY <2>2 DEF RemovalInv, RemovalTypeOK
    <3>2. QED BY <2>2, <3>1
  <2>3. QED BY <2>1, <2>2 DEF WithdrawApplication
<1>3. /\ DOMAIN platform' = Responses
      /\ DOMAIN stored' = Responses /\ DOMAIN newest' = Responses /\ NewestStored'
  BY <1>1, <1>2 DEF RemovalInv, RemovalTypeOK, NewestStored
<1>4. rm.linked => platform'[rm.app] = "hidden" \/ ~withdraws \/ gone
  BY <1>1, <1>2 DEF Withdrawable, RemovalInv, RemovalTypeOK
<1>5. QED BY <1>1, <1>2, <1>3, <1>4, RemovalGoesOn

LEMMA RemoveStep == ASSUME RemovalInv, RemoveApplication PROVE RemovalInv'
<1>1. /\ rm.pc = "remove" /\ rm.app \in Responses
      /\ UNCHANGED <<tick, platform, gc, newest>>
      /\ EndRemoval("over") \/ EndRemoval("new")
      /\ \/ UNCHANGED <<row, stored>>
         \/ /\ row' = [row EXCEPT ![rm.app].status = "removed"]
            /\ stored' = [stored EXCEPT ![rm.app] = NoState]
  BY DEF RemoveApplication, RemovalInv, ReasonKnown
<1>2. /\ row' \in [Responses -> RowSet] /\ DOMAIN platform' = Responses
      /\ DOMAIN stored' = Responses /\ DOMAIN newest' = Responses /\ NewestStored'
  BY <1>1 DEF RemovalInv, RemovalTypeOK, RowSet, NewestStored
<1>3. QED BY <1>1, <1>2, RemovalOver

LEMMA FailStep == ASSUME RemovalInv, FailRemoval PROVE RemovalInv'
<1>1. /\ rm.pc # "idle" /\ UNCHANGED <<tick, row, stored, gc, newest>>
      /\ EndRemoval("over") \/ EndRemoval("new")
      /\ DOMAIN platform' = Responses
  BY DEF FailRemoval, RemovalInv, RemovalTypeOK
<1>2. /\ row' \in [Responses -> RowSet]
      /\ DOMAIN stored' = Responses /\ DOMAIN newest' = Responses /\ NewestStored'
  BY <1>1 DEF RemovalInv, RemovalTypeOK, NewestStored
<1>3. QED BY <1>1, <1>2, RemovalOver

LEMMA RemovalKeeps == RemovalInv /\ [RemovalNext]_removalVars => RemovalInv'
<1> SUFFICES ASSUME RemovalInv, [RemovalNext]_removalVars PROVE RemovalInv'
  OBVIOUS
<1>1. CASE (Tick \/ SyncObserve \/ SyncEnd) /\ UNCHANGED withdraws
  <2>1. CASE Responses # {} BY <1>1, <2>1, WorldSteps
  <2>2. QED BY <2>1, RemovalAssumption
<1>2. CASE RetentionStep /\ UNCHANGED withdraws BY <1>2, RetentionSteps
<1>3. CASE RemovalStep /\ UNCHANGED withdraws
  BY <1>3, ClaimStep, ObserveStep, SaveStep, WithdrawStep, RemoveStep, FailStep
  DEF RemovalStep
<1>4. ASSUME NEW a \in Responses,
             \/ Reopen(a) \/ Submit(a) \/ Release(a) \/ Answer(a)
             \/ RemoveManually(a) \/ SyncSave(a),
             UNCHANGED withdraws
      PROVE  RemovalInv'
  BY <1>4, WorldSteps, ManualStep
<1>5. CASE UNCHANGED removalVars
  BY <1>5
  DEF removalVars, RemovalInv, RemovalTypeOK, ReasonKnown, NewestStored, WithdrawnFirst
<1>6. QED BY <1>1, <1>2, <1>3, <1>4, <1>5 DEF RemovalNext, RemovalActions

(* The invariant of the removal holds in every state.                      *)
THEOREM RemovalInductive == RemovalSpec => []RemovalInv
<1>1. QED BY RemovalInitInv, RemovalKeeps, PTL DEF RemovalSpec

(* A row leaves the store only in the transaction of its removal.          *)
LEMMA RemovedBy ==
    ASSUME RemovalInv, [RemovalNext]_removalVars, NEW a \in Responses,
           row[a].status # "removed", row'[a].status = "removed"
    PROVE  /\ RemoveApplication /\ rm.pc = "remove" /\ a = rm.app
           /\ Eligible(a, rm.why, rm.obs)
<1>1. CASE RemoveApplication
  <2>1. rm.pc = "remove" BY <1>1 DEF RemoveApplication
  <2>2. row' # row OBVIOUS
  <2>3. /\ row' = [row EXCEPT ![rm.app].status = "removed"]
        /\ Eligible(rm.app, rm.why, rm.obs)
    BY <1>1, <2>2 DEF RemoveApplication
  <2>4. a = rm.app BY <2>3 DEF RemovalInv, RemovalTypeOK, RowSet
  <2>5. QED BY <1>1, <2>1, <2>3, <2>4
<1>2. CASE ~RemoveApplication
  <2>1. CASE \E b \in Responses : Reopen(b)
    BY <2>1 DEF Reopen, RemovalInv, RemovalTypeOK, RowSet
  <2>2. ASSUME NEW b \in Responses, Submit(b) PROVE FALSE
    <3>1. CASE row' = [row EXCEPT ![b].status = "waiting"]
      BY <3>1 DEF RemovalInv, RemovalTypeOK, RowSet
    <3>2. CASE \E known \in BOOLEAN :
                 row' = [row EXCEPT ![b] = [status |-> "submitted", linked |-> known,
                                            submittedAt |-> tick]]
      BY <3>2 DEF RemovalInv, RemovalTypeOK, RowSet
    <3>3. QED BY <2>2, <3>1, <3>2 DEF Submit
  <2>3. row' # row OBVIOUS
  <2>4. QED
    BY <1>2, <2>1, <2>2, <2>3
    DEF RemovalNext, RemovalActions, removalVars, Tick, SyncObserve, SyncEnd, Release, Answer,
        RemoveManually, SyncSave, RetentionStep, StartRetention,
        ListApplicationsForRetention, EnqueueForRetention, ApplyObservation,
        purgeOrphanRejections, StaleValidation, FailRetention, RemovalStep, ClaimRemoval,
        ObserveForRemoval, SaveForRemoval, WithdrawApplication, FailRemoval
<1>3. QED BY <1>1, <1>2

(* NewestWordDecides: a retention removes a submitted response only if the *)
(* newest reading that any handler handed to the storage says what the     *)
(* removal is for (storage/sqlite/application_removal.go).                 *)
THEOREM NewestDecides == RemovalSpec => NewestWordDecides
<1>1. RemovalInv /\ [RemovalNext]_removalVars =>
        [\A a \in Responses :
           row[a].status = "submitted" /\ row'[a].status = "removed" /\ rm.why # "manual"
             => newest[a].disposition = IF rm.why = "retention_rejected" THEN "rejected"
                                        ELSE "pending"]_removalVars
  <2> SUFFICES ASSUME RemovalInv, [RemovalNext]_removalVars, NEW a \in Responses,
                      row[a].status = "submitted", row'[a].status = "removed",
                      rm.why # "manual"
               PROVE  newest[a].disposition = IF rm.why = "retention_rejected"
                                              THEN "rejected" ELSE "pending"
    OBVIOUS
  <2>1. rm.pc = "remove" /\ a = rm.app /\ Eligible(a, rm.why, rm.obs) BY RemovedBy
  <2>2. rm.why \in Whys /\ stored[a] = newest[a]
    BY <2>1 DEF RemovalInv, ReasonKnown, NewestStored
  <2>3. QED BY <2>1, <2>2 DEF Eligible, Whys
<1>2. QED BY <1>1, RemovalInductive, PTL DEF RemovalSpec, NewestWordDecides

(* RemovedIsWithdrawn: a response whose negotiation id the application     *)
(* carries leaves the store only after it left the platform, or after the  *)
(* platform said in this attempt that it is gone; a profile whose reader   *)
(* cannot withdraw is left out (worker/application_removal.go).            *)
THEOREM Withdrawn == RemovalSpec => RemovedIsWithdrawn
<1>1. RemovalInv /\ [RemovalNext]_removalVars =>
        [\A a \in Responses :
           row[a].status = "submitted" /\ row[a].linked /\ row'[a].status = "removed"
             => platform[a] = "hidden" \/ ~withdraws \/ (rm.app = a /\ rm.gone)]_removalVars
  <2> SUFFICES ASSUME RemovalInv, [RemovalNext]_removalVars, NEW a \in Responses,
                      row[a].status = "submitted", row[a].linked,
                      row'[a].status = "removed"
               PROVE  platform[a] = "hidden" \/ ~withdraws \/ (rm.app = a /\ rm.gone)
    OBVIOUS
  <2>1. rm.pc = "remove" /\ a = rm.app BY RemovedBy
  <2>2. QED BY <2>1 DEF RemovalInv, WithdrawnFirst
<1>2. QED BY <1>1, RemovalInductive, PTL DEF RemovalSpec, RemovedIsWithdrawn

-----------------------------------------------------------------------------
(* The reviews of questionnaires.  A session is answered only while the    *)
(* handler of an answer holds its task, and the task goes on with the      *)
(* revision of the session it made itself.                                 *)
SessionStatuses == {"none", "pending", "waiting", "answered", "cancelled"}
SessionSet(prompts) == [status : SessionStatuses, rev : Nat, prompt : prompts]
Prompts == {session[t].prompt : t \in Tests}
AfterSelect == {"read", "append", "prompt", "continue"}

ReviewsTypeOK ==
    /\ session \in [Tests -> SessionSet(Prompts)]
    /\ ra \in [pc : {"idle", "select"} \cup AfterSelect, task : SUBSET reviews, rev : Nat,
               q : {ra.q}, todo : {ra.todo}, read : {ra.read}]
    /\ \A r \in reviews : r.t \in Tests /\ r.rev \in Nat
    /\ disturbed \in BOOLEAN

(* The revision of a session tells how far it is.                          *)
RevisionGrows ==
    \A t \in Tests : /\ session[t].status = "waiting" => session[t].rev >= 1
                     /\ session[t].status = "answered" => session[t].rev >= 2

(* What the tasks of the operator's answers bring, and what becomes of it. *)
AnswersBrought ==
    \A r \in reviews :
       /\ r.banked \/ r.t \in kept
       /\ ~r.single => r.qs \subseteq QuestionsOf(r.t)
       /\ ~r.single /\ ~disturbed => QuestionsOf(r.t) \subseteq FindVacancy \cup r.qs

(* The handler works on a session that is as it left it, or cancelled.     *)
AtWork ==
    /\ ra.pc = "idle" => ra.task = {}
    /\ ra.pc # "idle" => \E r \in reviews : ra.task = {r}
    /\ \A r \in ra.task :
         /\ ra.pc = "select" =>
              \/ session[r.t].status = "cancelled"
              \/ session[r.t].status = "waiting" /\ session[r.t].rev = ra.rev
         /\ ra.pc \in AfterSelect =>
              \/ session[r.t].status = "cancelled"
              \/ session[r.t].status = "answered" /\ session[r.t].rev = ra.rev
         /\ ra.pc \in {"prompt", "continue"} /\ r.banked => bank.exists
         /\ ra.todo \subseteq QuestionsOf(r.t)
         /\ ra.pc = "prompt" => ra.todo # {}

ReviewsInv == /\ ReviewsTypeOK /\ RevisionGrows /\ AnswersBrought /\ AtWork
              /\ AnsweredGoesOn

(* The capture knows the test it is about.                                 *)
CaptureKnows == cp.pc = "prompt" => cp.t \in Tests

LEMMA CaptureStep == CaptureKnows /\ [ReviewsNext]_reviewsVars => CaptureKnows'
<1> SUFFICES ASSUME CaptureKnows, [ReviewsNext]_reviewsVars PROVE CaptureKnows'
  OBVIOUS
<1>1. CASE cp' = cp \/ cp' = NoCP BY <1>1 DEF CaptureKnows, NoCP
<1>2. ASSUME NEW t \in Tests, CaptureVacancyTest(t) PROVE CaptureKnows'
  <2>1. CASE cp' = NoCP BY <2>1 DEF CaptureKnows, NoCP
  <2> DEFINE q == First(t, UncoveredQuestions(t))
  <2>2. CASE cp' = [pc |-> "prompt", t |-> t, q |-> q] BY <2>2 DEF CaptureKnows
  <2>3. cp' = NoCP \/ cp' = [pc |-> "prompt", t |-> t, q |-> q]
    <3>1. CASE CreateReviewSession(t, q) BY <3>1 DEF CreateReviewSession, EndCapture
    <3>2. CASE \E s : EndCapture(t, s) BY <3>2 DEF EndCapture
    <3>3. QED BY <1>2, <3>1, <3>2 DEF CaptureVacancyTest
  <2> HIDE DEF q
  <2>4. QED BY <2>1, <2>2, <2>3
<1>3. QED
  BY <1>1, <1>2
  DEF ReviewsNext, reviewsVars, EnqueueCapture, NothingToCapture, EnqueueReviewAnswer,
      CancelReviewSession, PrepareSession, SaveFirstPrompt, HandleReviewAnswer,
      RecordSelection, reviewedBlock, appendRevision, PromptNext, continueChain,
      continueBatch, AnswerCovered, persistModelAnswers, SendPrepared, EndCovered,
      StopWorkers, EndCapture

(* One session is written.                                                 *)
SessionBecomes(t, s, n) ==
    /\ session' \in [Tests -> SessionSet({session'[u].prompt : u \in Tests})]
    /\ session'[t].status = s /\ session'[t].rev = n
    /\ \A u \in Tests \ {t} : session'[u] = session[u]

LEMMA SessionWritten ==
    ASSUME session \in [Tests -> SessionSet(Prompts)], NEW t \in Tests,
           NEW s \in SessionStatuses, NEW n \in Nat, NEW q,
           session' = [session EXCEPT ![t] = [status |-> s, rev |-> n, prompt |-> q]]
    PROVE  SessionBecomes(t, s, n)
<1>1. /\ DOMAIN session' = Tests /\ session' = [u \in Tests |-> session'[u]]
      /\ session'[t] = [status |-> s, rev |-> n, prompt |-> q]
      /\ \A u \in Tests \ {t} : session'[u] = session[u]
  OBVIOUS
<1>2. \A u \in Tests : session'[u] \in SessionSet({session'[v].prompt : v \in Tests})
  <2>1. TAKE u \in Tests
  <2>2. /\ session'[u] = [status |-> session'[u].status, rev |-> session'[u].rev,
                          prompt |-> session'[u].prompt]
        /\ session'[u].status \in SessionStatuses /\ session'[u].rev \in Nat
    <3>1. CASE u = t BY <1>1, <3>1
    <3>2. CASE u # t
      <4>1. session'[u] = session[u] /\ session[u] \in SessionSet(Prompts) BY <1>1, <3>2
      <4>2. QED BY <4>1 DEF SessionSet
    <3>3. QED BY <3>1, <3>2
  <2>3. QED BY <2>2 DEF SessionSet
<1>3. QED BY <1>1, <1>2 DEF SessionBecomes

(* The first of some questions of a test is one of them.                   *)
LEMMA FirstIn ==
    ASSUME NEW t \in Tests, NEW qs, qs \subseteq QuestionsOf(t), qs # {}
    PROVE  First(t, qs) \in qs
<1> DEFINE places == {Position(t, q) : q \in qs}
<1>1. DOMAIN Asks[t] \subseteq Nat BY ReviewsAssumption
<1>2. \A q \in qs : Position(t, q) \in DOMAIN Asks[t] BY DEF QuestionsOf, Position
<1>3. places \subseteq Nat /\ places # {} BY <1>1, <1>2
<1> DEFINE Lower == {ss \in Nat \X Nat : ss[1] < ss[2]}
<1>4. IsWellFoundedOn(Lower, Nat) BY NatLessThanWellFounded DEF OpToRel
<1>5. \A x, y \in Nat : x < y => <<x, y>> \in Lower OBVIOUS
<1> HIDE DEF places, Lower
<1>6. PICK x \in places : \A y \in places : <<y, x>> \notin Lower BY <1>3, <1>4, WFMin
<1>7. ASSUME NEW y \in places PROVE x <= y
  <2>1. x \in Nat /\ y \in Nat /\ ~(y < x) BY <1>3, <1>5, <1>6
  <2>2. QED BY <2>1
<1>8. PICK q \in qs : x = Position(t, q) BY <1>6 DEF places
<1>9. \A p \in qs : Position(t, q) <= Position(t, p) BY <1>7, <1>8 DEF places
<1>10. QED BY <1>9 DEF First

(* Code and answers that fit nothing keep a test from being answered.      *)
LEMMA NotAnswerable ==
    ASSUME NEW t \in Tests, NEW said, ~resolvedAnswers(t, said)
    PROVE  ~Answerable(t)
BY DEF resolvedAnswers, ResolveStoredAnswer, Answerable

LEMMA CodeAsked ==
    ASSUME NEW t \in Tests, NEW qs, qs \subseteq QuestionsOf(t), qs # {},
           ~Supported(First(t, qs))
    PROVE  ~Answerable(t)
BY FirstIn DEF Supported, Answerable

LEMMA ReviewTask == ASSUME NEW r, ra.task = {r} PROVE reviewTask = r
BY DEF reviewTask

(* A later revision of the bank finds what an earlier one found, unless it *)
(* lost answers.                                                           *)
LEMMA BankKeeps ==
    ASSUME NEW by, AppendAnswerBlockRevision(by), configured' = configured, ~disturbed'
    PROVE  ~disturbed /\ FindVacancy \subseteq FindVacancy' /\ bank'.exists
BY DEF AppendAnswerBlockRevision, FindVacancy, MergeAnswerBlocks

LEMMA ReviewsInitInv == ReviewsInit => ReviewsInv /\ CaptureKnows
<1> SUFFICES ASSUME ReviewsInit PROVE ReviewsInv /\ CaptureKnows
  OBVIOUS
<1>1. /\ session \in [Tests -> SessionSet(Prompts)] /\ reviews = {} /\ disturbed \in BOOLEAN
      /\ \A t \in Tests : session[t].status = "none"
  BY DEF ReviewsInit, SessionSet, Prompts, SessionStatuses
<1>2. ra.pc = "idle" /\ ra.task = {} /\ cp.pc = "idle"
      /\ ra \in [pc : {"idle", "select"} \cup AfterSelect, task : SUBSET reviews, rev : Nat,
                 q : {ra.q}, todo : {ra.todo}, read : {ra.read}]
  BY DEF ReviewsInit, NoRA, NoCP
<1>3. QED
  BY <1>1, <1>2
  DEF ReviewsInv, ReviewsTypeOK, RevisionGrows, AnswersBrought, AtWork, AnsweredGoesOn,
      CaptureKnows

(* The handler of the answers rests or goes on as it was, and what the     *)
(* others do to the sessions, the bank and the tasks leaves it alone.      *)
LEMMA Beside ==
    ASSUME ReviewsInv, ra' = ra, reviews \subseteq reviews', kept \subseteq kept',
           formKeys \subseteq formKeys', disturbed' \in BOOLEAN,
           bank.exists => bank'.exists,
           ~disturbed' => ~disturbed /\ FindVacancy \subseteq FindVacancy',
           session' \in [Tests -> SessionSet({session'[u].prompt : u \in Tests})],
           \A t \in Tests :
              \/ session'[t] = session[t]
              \/ session'[t].status = "cancelled"
              \/ /\ session[t].status \in {"none", "pending"}
                 /\ session'[t].status \in {"pending", "waiting"} /\ session'[t].rev >= 1,
           \A r \in reviews' \ reviews :
              /\ r.t \in Tests /\ r.rev \in Nat /\ (r.banked \/ r.t \in kept')
              /\ ~r.single => r.qs \subseteq QuestionsOf(r.t)
              /\ ~r.single /\ ~disturbed' => QuestionsOf(r.t) \subseteq FindVacancy' \cup r.qs
    PROVE  ReviewsInv'
<1>1. ReviewsTypeOK'
  <2>1. ra' \in [pc : {"idle", "select"} \cup AfterSelect, task : SUBSET reviews', rev : Nat,
                 q : {ra'.q}, todo : {ra'.todo}, read : {ra'.read}]
    BY DEF ReviewsInv, ReviewsTypeOK
  <2>2. \A r \in reviews' : r.t \in Tests /\ r.rev \in Nat
    BY DEF ReviewsInv, ReviewsTypeOK
  <2>3. QED BY <2>1, <2>2 DEF ReviewsTypeOK, Prompts
<1>2. RevisionGrows' BY DEF ReviewsInv, RevisionGrows
<1>3. AnswersBrought' BY DEF ReviewsInv, AnswersBrought
<1>4. AtWork'
  <2>1. ra.pc # "idle" => \E r \in reviews' : ra.task = {r} BY DEF ReviewsInv, AtWork
  <2>2. ASSUME NEW r \in ra.task
        PROVE  /\ ra.pc = "select" =>
                    \/ session'[r.t].status = "cancelled"
                    \/ session'[r.t].status = "waiting" /\ session'[r.t].rev = ra.rev
               /\ ra.pc \in AfterSelect =>
                    \/ session'[r.t].status = "cancelled"
                    \/ session'[r.t].status = "answered" /\ session'[r.t].rev = ra.rev
               /\ ra.pc \in {"prompt", "continue"} /\ r.banked => bank'.exists
               /\ ra.todo \subseteq QuestionsOf(r.t)
               /\ ra.pc = "prompt" => ra.todo # {}
    <3>1. r.t \in Tests BY DEF ReviewsInv, ReviewsTypeOK
    <3>2. QED BY <3>1 DEF ReviewsInv, AtWork
  <2>3. QED BY <2>1, <2>2 DEF ReviewsInv, AtWork
<1>5. AnsweredGoesOn' BY DEF ReviewsInv, AnsweredGoesOn
<1>6. QED BY <1>1, <1>2, <1>3, <1>4, <1>5 DEF ReviewsInv

LEMMA SessionStays ==
    ASSUME ReviewsInv, session' = session
    PROVE  session' \in [Tests -> SessionSet({session'[u].prompt : u \in Tests})]
BY DEF ReviewsInv, ReviewsTypeOK, Prompts

(* Steps of the capture, of the operator and of the run over the bank.     *)
LEMMA QuietSteps ==
    ASSUME ReviewsInv, NEW t \in Tests,
           \/ EnqueueCapture(t) \/ NothingToCapture(t) \/ PrepareSession(t)
           \/ AnswerCovered \/ SendPrepared \/ EndCovered
    PROVE  ReviewsInv'
<1>1. /\ UNCHANGED <<configured, session, bank, reviews, ra, kept, disturbed>>
      /\ formKeys \subseteq formKeys'
  <2>1. CASE EnqueueCapture(t) \/ NothingToCapture(t) \/ EndCovered
    BY <2>1 DEF EnqueueCapture, NothingToCapture, EndCovered
  <2>2. CASE PrepareSession(t) BY <2>2 DEF PrepareSession
  <2>3. CASE AnswerCovered BY <2>3 DEF AnswerCovered
  <2>4. CASE SendPrepared BY <2>4 DEF SendPrepared, EnqueueAnswer
  <2>5. QED BY <2>1, <2>2, <2>3, <2>4
<1>2. FindVacancy' = FindVacancy BY <1>1 DEF FindVacancy, MergeAnswerBlocks
<1>3. disturbed \in BOOLEAN BY DEF ReviewsInv, ReviewsTypeOK
<1>4. QED BY <1>1, <1>2, <1>3, SessionStays, Beside

LEMMA CaptureSteps ==
    ASSUME ReviewsInv, CaptureKnows, NEW t \in Tests,
           CaptureVacancyTest(t) \/ SaveFirstPrompt \/ CancelReviewSession(t)
    PROVE  ReviewsInv'
<1>1. UNCHANGED <<configured, bank, reviews, ra, kept, disturbed>> /\ formKeys \subseteq formKeys'
  BY DEF CaptureVacancyTest, SaveFirstPrompt, CancelReviewSession, CreateReviewSession,
         EnqueueAnswer
<1>2. FindVacancy' = FindVacancy BY <1>1 DEF FindVacancy, MergeAnswerBlocks
<1>3. disturbed \in BOOLEAN /\ session \in [Tests -> SessionSet(Prompts)]
  BY DEF ReviewsInv, ReviewsTypeOK
<1>4. CASE session' = session BY <1>1, <1>2, <1>3, <1>4, SessionStays, Beside
<1>5. ASSUME NEW u \in Tests, NEW s \in SessionStatuses, NEW n \in Nat, NEW q,
             session' = [session EXCEPT ![u] = [status |-> s, rev |-> n, prompt |-> q]],
             \/ s = "cancelled"
             \/ /\ session[u].status \in {"none", "pending"}
                /\ s \in {"pending", "waiting"} /\ n >= 1
      PROVE  ReviewsInv'
  <2>1. SessionBecomes(u, s, n) BY <1>3, <1>5, SessionWritten
  <2>2. QED BY <1>1, <1>2, <1>3, <1>5, <2>1, Beside DEF SessionBecomes
<1>6. CASE CaptureVacancyTest(t)
  <2>1. session' = session
        \/ /\ session[t].status \in {"none", "pending"}
           /\ session' = [session EXCEPT ![t] = [status |-> "pending", rev |-> 1,
                                                 prompt |-> NoTest]]
    BY <1>6 DEF CaptureVacancyTest, CreateReviewSession
  <2>2. "pending" \in SessionStatuses /\ 1 \in Nat /\ 1 >= 1 BY DEF SessionStatuses
  <2>3. QED BY <1>4, <1>5, <2>1, <2>2
<1>7. CASE SaveFirstPrompt
  <2>1. CASE session' = Prompted(cp.t, cp.q) /\ AwaitsPrompt(cp.t, 1) /\ cp.pc = "prompt"
    <3> DEFINE u == cp.t
               n == session[u].rev
    <3>1. u \in Tests BY <2>1 DEF CaptureKnows
    <3>2. n = 1 /\ session[u].status = "pending"
      BY <2>1, <3>1 DEF AwaitsPrompt, ReviewsInv, RevisionGrows
    <3>3. session' = [session EXCEPT ![u] = [status |-> "waiting", rev |-> n,
                                             prompt |-> cp.q]]
      BY <2>1 DEF Prompted
    <3>4. "waiting" \in SessionStatuses /\ n \in Nat /\ n >= 1
      BY <3>2 DEF SessionStatuses
    <3> HIDE DEF u, n
    <3>5. QED BY <1>5, <3>1, <3>2, <3>3, <3>4 DEF u
  <2>2. QED BY <1>4, <1>7, <2>1 DEF SaveFirstPrompt
<1>8. CASE CancelReviewSession(t)
  <2> DEFINE n == session[t].rev + 1
  <2>1. /\ n \in Nat
        /\ session' = [session EXCEPT ![t] = [status |-> "cancelled", rev |-> n,
                                              prompt |-> NoTest]]
    BY <1>3, <1>8 DEF CancelReviewSession, SessionSet
  <2>2. "cancelled" \in SessionStatuses BY DEF SessionStatuses
  <2> HIDE DEF n
  <2>3. QED BY <1>5, <2>1, <2>2
<1>9. QED BY <1>6, <1>7, <1>8

LEMMA AnswerSentStep ==
    ASSUME ReviewsInv, NEW t \in Tests, EnqueueReviewAnswer(t) PROVE ReviewsInv'
<1>1. PICK single \in BOOLEAN, banked \in BOOLEAN :
        /\ reviews' = reviews \cup
             {[t |-> t, rev |-> session[t].rev, single |-> single, banked |-> banked,
               qs |-> IF single THEN {session[t].prompt} ELSE UncoveredQuestions(t),
               n |-> sentReviews]}
        /\ kept' = IF banked THEN kept ELSE kept \cup {t}
  BY DEF EnqueueReviewAnswer
<1>2. UNCHANGED <<configured, session, bank, formKeys, ra, disturbed>>
  BY DEF EnqueueReviewAnswer
<1>3. FindVacancy' = FindVacancy BY <1>2 DEF FindVacancy, MergeAnswerBlocks
<1>4. disturbed \in BOOLEAN /\ session[t].rev \in Nat
  BY DEF ReviewsInv, ReviewsTypeOK, SessionSet
<1>5. \A r \in reviews' \ reviews :
         /\ r.t \in Tests /\ r.rev \in Nat /\ (r.banked \/ r.t \in kept')
         /\ ~r.single => r.qs \subseteq QuestionsOf(r.t)
         /\ ~r.single /\ ~disturbed' => QuestionsOf(r.t) \subseteq FindVacancy' \cup r.qs
  BY <1>1, <1>3, <1>4 DEF UncoveredQuestions
<1>6. reviews \subseteq reviews' /\ kept \subseteq kept' BY <1>1
<1>7. QED BY <1>2, <1>3, <1>4, <1>5, <1>6, SessionStays, Beside

LEMMA ModelAnswersStep == ASSUME ReviewsInv, persistModelAnswers PROVE ReviewsInv'
<1>1. UNCHANGED <<configured, session, reviews, formKeys, ra, kept>>
  BY DEF persistModelAnswers
<1>2. PICK by : AppendAnswerBlockRevision(by) BY DEF persistModelAnswers
<1>3. bank'.exists /\ disturbed' \in BOOLEAN
  BY <1>2 DEF AppendAnswerBlockRevision, ReviewsInv, ReviewsTypeOK
<1>4. ~disturbed' => ~disturbed /\ FindVacancy \subseteq FindVacancy'
  BY <1>1, <1>2, BankKeeps
<1>5. QED BY <1>1, <1>3, <1>4, SessionStays, Beside

LEMMA StopStep == ASSUME ReviewsInv, StopWorkers PROVE ReviewsInv'
<1>1. /\ UNCHANGED <<session, bank, reviews, formKeys, kept>>
      /\ ra' = NoRA /\ disturbed' = TRUE
  BY DEF StopWorkers
<1>2. ra'.pc = "idle" /\ ra'.task = {}
      /\ ra' \in [pc : {"idle", "select"} \cup AfterSelect, task : SUBSET reviews', rev : Nat,
                  q : {ra'.q}, todo : {ra'.todo}, read : {ra'.read}]
  BY <1>1 DEF NoRA
<1>3. ReviewsTypeOK' BY <1>1, <1>2 DEF ReviewsInv, ReviewsTypeOK, Prompts
<1>4. RevisionGrows' /\ AnswersBrought' /\ AnsweredGoesOn'
  BY <1>1 DEF ReviewsInv, RevisionGrows, AnswersBrought, AnsweredGoesOn
<1>5. AtWork' BY <1>2 DEF AtWork, AfterSelect
<1>6. QED BY <1>3, <1>4, <1>5 DEF ReviewsInv

(* Steps of the handler of the answers: it takes a task or goes on with    *)
(* it,                                                                     *)
LEMMA HandlerGoesOn ==
    ASSUME ReviewsInv, UNCHANGED <<reviews, kept, formKeys>>,
           NEW r \in reviews, ra.task \subseteq {r},
           ra'.task = {r},
           ra' \in [pc : {"select"} \cup AfterSelect, task : {ra'.task}, rev : Nat,
                    q : {ra'.q}, todo : {ra'.todo}, read : {ra'.read}],
           disturbed' \in BOOLEAN,
           ~disturbed' => ~disturbed /\ FindVacancy \subseteq FindVacancy',
           session' \in [Tests -> SessionSet({session'[u].prompt : u \in Tests})],
           \A t \in Tests \ {r.t} : session'[t] = session[t],
           ra'.pc = "select" =>
              \/ session'[r.t].status = "cancelled"
              \/ /\ session'[r.t].status = "waiting"
                 /\ session'[r.t].rev = ra'.rev /\ ra'.rev >= 1,
           ra'.pc \in AfterSelect =>
              \/ session'[r.t].status = "cancelled"
              \/ /\ session'[r.t].status = "answered"
                 /\ session'[r.t].rev = ra'.rev /\ ra'.rev >= 2,
           ra'.pc \in {"prompt", "continue"} /\ r.banked => bank'.exists,
           ra'.todo \subseteq QuestionsOf(r.t), ra'.pc = "prompt" => ra'.todo # {}
    PROVE  ReviewsInv'
<1>1. r.t \in Tests /\ ra'.task = {r} BY DEF ReviewsInv, ReviewsTypeOK
<1>2. ReviewsTypeOK'
  <2>1. ra' \in [pc : {"idle", "select"} \cup AfterSelect, task : SUBSET reviews', rev : Nat,
                 q : {ra'.q}, todo : {ra'.todo}, read : {ra'.read}]
    OBVIOUS
  <2>2. QED BY <2>1 DEF ReviewsInv, ReviewsTypeOK, Prompts
<1>3. RevisionGrows'
  <2>1. /\ session'[r.t].status = "waiting" => session'[r.t].rev >= 1
        /\ session'[r.t].status = "answered" => session'[r.t].rev >= 2
    BY DEF AfterSelect
  <2>2. QED BY <2>1 DEF ReviewsInv, RevisionGrows
<1>4. AnswersBrought' BY DEF ReviewsInv, AnswersBrought
<1>5. AtWork' BY <1>1 DEF AtWork, AfterSelect
<1>6. AnsweredGoesOn' BY <1>1 DEF ReviewsInv, AnsweredGoesOn
<1>7. QED BY <1>2, <1>3, <1>4, <1>5, <1>6 DEF ReviewsInv

(* or lets it go.                                                          *)
LEMMA HandlerEnds ==
    ASSUME ReviewsInv, NEW r \in reviews, ra.task = {r}, EndReview,
           UNCHANGED <<configured, bank, kept, disturbed>>, formKeys \subseteq formKeys',
           session' \in [Tests -> SessionSet({session'[u].prompt : u \in Tests})],
           \A t \in Tests :
              \/ session'[t] = session[t]
              \/ session'[t].status = "waiting" /\ session'[t].rev >= 1,
           session'[r.t].status = "answered" /\ Answerable(r.t) /\ ~disturbed
             /\ r.t \notin kept
              => \E key \in formKeys' : key.t = r.t
    PROVE  ReviewsInv'
<1>1. ra' = NoRA /\ reviews' = reviews \ {r} BY DEF EndReview
<1>2. ra'.pc = "idle" /\ ra'.task = {}
      /\ ra' \in [pc : {"idle", "select"} \cup AfterSelect, task : SUBSET reviews', rev : Nat,
                  q : {ra'.q}, todo : {ra'.todo}, read : {ra'.read}]
  BY <1>1 DEF NoRA
<1>3. ReviewsTypeOK' BY <1>1, <1>2 DEF ReviewsInv, ReviewsTypeOK, Prompts
<1>4. RevisionGrows' BY DEF ReviewsInv, RevisionGrows
<1>5. FindVacancy' = FindVacancy BY DEF FindVacancy, MergeAnswerBlocks
<1>6. AnswersBrought' BY <1>1, <1>5 DEF ReviewsInv, AnswersBrought
<1>7. AtWork' BY <1>2 DEF AtWork, AfterSelect
<1>8. AnsweredGoesOn' BY DEF ReviewsInv, AnsweredGoesOn
<1>9. QED BY <1>3, <1>4, <1>6, <1>7, <1>8 DEF ReviewsInv

(* What the handler holds while it works.                                  *)
LEMMA WorksOn ==
    ASSUME ReviewsInv, ra.pc # "idle"
    PROVE  \E r \in reviews :
             /\ ra.task = {r} /\ reviewTask = r /\ r.t \in Tests
             /\ r.banked \/ r.t \in kept
             /\ session \in [Tests -> SessionSet(Prompts)]
             /\ session[r.t].rev \in Nat /\ ra.rev \in Nat
             /\ ra.pc = "select" =>
                  \/ session[r.t].status = "cancelled"
                  \/ /\ session[r.t].status = "waiting"
                     /\ session[r.t].rev = ra.rev /\ ra.rev >= 1
             /\ ra.pc \in AfterSelect =>
                  \/ session[r.t].status = "cancelled"
                  \/ /\ session[r.t].status = "answered"
                     /\ session[r.t].rev = ra.rev /\ ra.rev >= 2
             /\ ra.pc \in {"prompt", "continue"} /\ r.banked => bank.exists
             /\ ra.todo \subseteq QuestionsOf(r.t) /\ (ra.pc = "prompt" => ra.todo # {})
             /\ ~r.single /\ ~disturbed => QuestionsOf(r.t) \subseteq FindVacancy \cup r.qs
<1>1. PICK r \in reviews : ra.task = {r} BY DEF ReviewsInv, AtWork
<1>2. reviewTask = r BY <1>1, ReviewTask
<1>3. /\ r.t \in Tests /\ session \in [Tests -> SessionSet(Prompts)] /\ ra.rev \in Nat
      /\ r.banked \/ r.t \in kept
      /\ ~r.single /\ ~disturbed => QuestionsOf(r.t) \subseteq FindVacancy \cup r.qs
  BY DEF ReviewsInv, ReviewsTypeOK, AnswersBrought
<1>4. /\ session[r.t].rev \in Nat
      /\ session[r.t].status = "waiting" => session[r.t].rev >= 1
      /\ session[r.t].status = "answered" => session[r.t].rev >= 2
  BY <1>3 DEF ReviewsInv, RevisionGrows, SessionSet
<1>5. /\ ra.pc = "select" =>
           \/ session[r.t].status = "cancelled"
           \/ session[r.t].status = "waiting" /\ session[r.t].rev = ra.rev
      /\ ra.pc \in AfterSelect =>
           \/ session[r.t].status = "cancelled"
           \/ session[r.t].status = "answered" /\ session[r.t].rev = ra.rev
      /\ ra.pc \in {"prompt", "continue"} /\ r.banked => bank.exists
      /\ ra.todo \subseteq QuestionsOf(r.t) /\ (ra.pc = "prompt" => ra.todo # {})
  BY <1>1 DEF ReviewsInv, AtWork
<1>6. QED BY <1>1, <1>2, <1>3, <1>4, <1>5

LEMMA HandleStep ==
    ASSUME ReviewsInv, NEW r \in reviews, HandleReviewAnswer(r) PROVE ReviewsInv'
<1>1. /\ ra.pc = "idle" /\ ra.task = {}
      /\ UNCHANGED <<configured, session, bank, formKeys, kept, disturbed>>
  BY DEF HandleReviewAnswer, ReviewsInv, AtWork
<1>2. FindVacancy' = FindVacancy BY <1>1 DEF FindVacancy, MergeAnswerBlocks
<1>3. /\ r.t \in Tests /\ r.rev \in Nat /\ disturbed \in BOOLEAN
      /\ session[r.t].status = "waiting" => session[r.t].rev >= 1
  BY DEF ReviewsInv, ReviewsTypeOK, RevisionGrows
<1>4. CASE UNCHANGED reviews /\ AppendReviewSelection(r.t, r.rev)
  <2>1. PICK q, todo : /\ ra' = [pc |-> "select", task |-> {r}, rev |-> r.rev, q |-> q,
                                 todo |-> todo, read |-> Nothing]
                       /\ todo \subseteq QuestionsOf(r.t)
    <3>1. CASE r.single BY <1>4, <3>1 DEF HandleReviewAnswer
    <3>2. CASE ~r.single
      <4> DEFINE missing == UncoveredQuestions(r.t)
                 first == First(r.t, missing)
      <4>1. ra' = [pc |-> "select", task |-> {r}, rev |-> r.rev, q |-> first,
                   todo |-> missing \ {first}, read |-> Nothing]
        BY <1>4, <3>2 DEF HandleReviewAnswer
      <4>2. missing \subseteq QuestionsOf(r.t) BY DEF UncoveredQuestions
      <4> HIDE DEF missing, first
      <4>3. QED BY <4>1, <4>2
    <3>3. QED BY <3>1, <3>2
  <2>2. /\ ra'.pc = "select" /\ ra'.rev = r.rev /\ ra'.task = {r} /\ ra'.todo = todo
        /\ ra' \in [pc : {"select"} \cup AfterSelect, task : {ra'.task}, rev : Nat,
                    q : {ra'.q}, todo : {ra'.todo}, read : {ra'.read}]
    BY <1>3, <2>1
  <2>3. session[r.t].status = "waiting" /\ session[r.t].rev = r.rev /\ r.rev >= 1
    BY <1>3, <1>4 DEF AppendReviewSelection
  <2>4. "select" \notin AfterSelect /\ "select" \notin {"prompt", "continue"}
    BY DEF AfterSelect
  <2>5. QED BY <1>1, <1>2, <1>3, <1>4, <2>1, <2>2, <2>3, <2>4, SessionStays, HandlerGoesOn
<1>5. CASE ra' = NoRA /\ reviews' = reviews \ {r}
  <2>1. ra'.pc = "idle" /\ ra'.task = {}
        /\ ra' \in [pc : {"idle", "select"} \cup AfterSelect, task : SUBSET reviews', rev : Nat,
                    q : {ra'.q}, todo : {ra'.todo}, read : {ra'.read}]
    BY <1>5 DEF NoRA
  <2>2. ReviewsTypeOK' BY <1>1, <1>5, <2>1 DEF ReviewsInv, ReviewsTypeOK, Prompts
  <2>3. RevisionGrows' BY <1>1 DEF ReviewsInv, RevisionGrows
  <2>4. AnswersBrought' BY <1>1, <1>2, <1>5 DEF ReviewsInv, AnswersBrought
  <2>5. AtWork' BY <2>1 DEF AtWork, AfterSelect
  <2>6. AnsweredGoesOn' BY <1>1 DEF ReviewsInv, AnsweredGoesOn
  <2>7. QED BY <2>2, <2>3, <2>4, <2>5, <2>6 DEF ReviewsInv
<1>6. QED BY <1>4, <1>5 DEF HandleReviewAnswer

LEMMA RecordStep == ASSUME ReviewsInv, RecordSelection PROVE ReviewsInv'
<1>1. ra.pc = "select" /\ UNCHANGED <<configured, bank, formKeys, kept, disturbed>>
  BY DEF RecordSelection
<1>2. PICK r \in reviews :
        /\ ra.task = {r} /\ reviewTask = r /\ r.t \in Tests
        /\ session \in [Tests -> SessionSet(Prompts)] /\ ra.rev \in Nat
        /\ \/ session[r.t].status = "cancelled"
           \/ /\ session[r.t].status = "waiting"
              /\ session[r.t].rev = ra.rev /\ ra.rev >= 1
        /\ ra.todo \subseteq QuestionsOf(r.t)
  BY <1>1, WorksOn
<1>3. FindVacancy' = FindVacancy BY <1>1 DEF FindVacancy, MergeAnswerBlocks
<1>4. disturbed \in BOOLEAN BY DEF ReviewsInv, ReviewsTypeOK
<1>5. CASE ~(AppendReviewSelection(r.t, ra.rev) /\ Supported(ra.q))
  <2>1. EndReview /\ session' = session BY <1>2, <1>5 DEF RecordSelection
  <2>2. session[r.t].status # "answered" BY <1>2
  <2>3. QED BY <1>1, <1>2, <2>1, <2>2, SessionStays, HandlerEnds
<1>6. CASE AppendReviewSelection(r.t, ra.rev) /\ Supported(ra.q)
  <2> DEFINE n == ra.rev + 1
             pc == IF r.banked THEN "read" ELSE NextAnswer
  <2>1. /\ session' = [session EXCEPT ![r.t] = [status |-> "answered", rev |-> n,
                                                prompt |-> NoTest]]
        /\ ra' = [ra EXCEPT !.rev = n, !.pc = pc] /\ reviews' = reviews
    BY <1>2, <1>6 DEF RecordSelection
  <2>2. n \in Nat /\ n >= 2 /\ "answered" \in SessionStatuses /\ pc \in AfterSelect
        /\ pc # "select" /\ (pc \in {"prompt", "continue"} => ~r.banked)
        /\ (pc = "prompt" => ra.todo # {})
    BY <1>2, <1>6 DEF AppendReviewSelection, SessionStatuses, AfterSelect, NextAnswer
  <2> HIDE DEF n, pc
  <2>3. ra'.pc = pc /\ ra'.rev = n /\ ra'.task = {r} /\ ra'.todo = ra.todo
        /\ ra' \in [pc : {"select"} \cup AfterSelect, task : {ra'.task}, rev : Nat,
                    q : {ra'.q}, todo : {ra'.todo}, read : {ra'.read}]
    BY <1>2, <2>1, <2>2 DEF ReviewsInv, ReviewsTypeOK
  <2>4. SessionBecomes(r.t, "answered", n) BY <1>2, <2>1, <2>2, SessionWritten
  <2>5. QED
    BY <1>1, <1>2, <1>3, <1>4, <2>1, <2>2, <2>3, <2>4, HandlerGoesOn
    DEF SessionBecomes
<1>7. QED BY <1>5, <1>6

(* The block is read, and written back.                                    *)
LEMMA BankSteps ==
    ASSUME ReviewsInv, reviewedBlock \/ appendRevision PROVE ReviewsInv'
<1>1. /\ ra.pc \in {"read", "append"}
      /\ UNCHANGED <<configured, session, reviews, formKeys, kept>>
  BY DEF reviewedBlock, appendRevision
<1>2. PICK r \in reviews :
        /\ ra.task = {r} /\ r.t \in Tests /\ ra.rev \in Nat
        /\ ra.todo \subseteq QuestionsOf(r.t)
        /\ \/ session[r.t].status = "cancelled"
           \/ /\ session[r.t].status = "answered"
              /\ session[r.t].rev = ra.rev /\ ra.rev >= 2
  BY <1>1, WorksOn DEF AfterSelect
<1>3. PICK pc, read :
        /\ pc \in AfterSelect
        /\ ra' = [ra EXCEPT !.pc = pc, !.read = read]
        /\ pc \in {"prompt", "continue"} => appendRevision
        /\ pc = "prompt" => ra.todo # {}
  <2>1. CASE reviewedBlock
    <3>1. ra' = [ra EXCEPT !.pc = "append", !.read = MergeAnswerBlocks]
      BY <2>1 DEF reviewedBlock, MergeAnswerBlocks
    <3>2. "append" \in AfterSelect /\ "append" \notin {"prompt", "continue"}
          /\ "append" # "prompt"
      BY DEF AfterSelect
    <3> DEFINE read == MergeAnswerBlocks
    <3> HIDE DEF read
    <3>3. ra' = [ra EXCEPT !.pc = "append", !.read = read] BY <3>1 DEF read
    <3>4. QED BY <3>2, <3>3
  <2>2. CASE appendRevision
    <3> DEFINE pc == NextAnswer
               read == Nothing
    <3>1. ra' = [ra EXCEPT !.pc = pc, !.read = read] BY <2>2 DEF appendRevision
    <3>2. pc \in AfterSelect /\ (pc = "prompt" => ra.todo # {})
      BY DEF AfterSelect, NextAnswer
    <3> HIDE DEF pc, read
    <3>3. QED BY <2>2, <3>1, <3>2
  <2>3. QED BY <2>1, <2>2
<1>4. ra'.pc = pc /\ ra'.rev = ra.rev /\ ra'.task = {r} /\ pc # "select"
      /\ ra'.todo = ra.todo
      /\ ra' \in [pc : {"select"} \cup AfterSelect, task : {ra'.task}, rev : Nat,
                  q : {ra'.q}, todo : {ra'.todo}, read : {ra'.read}]
  BY <1>2, <1>3 DEF ReviewsInv, ReviewsTypeOK, AfterSelect
<1>5. /\ disturbed' \in BOOLEAN /\ (appendRevision => bank'.exists)
      /\ ~disturbed' => ~disturbed /\ FindVacancy \subseteq FindVacancy'
  <2>1. disturbed \in BOOLEAN BY DEF ReviewsInv, ReviewsTypeOK
  <2>2. CASE appendRevision
    <3>1. PICK by : AppendAnswerBlockRevision(by) BY <2>2 DEF appendRevision
    <3>2. bank'.exists /\ disturbed' \in BOOLEAN
      BY <2>1, <3>1 DEF AppendAnswerBlockRevision
    <3>3. QED BY <1>1, <3>1, <3>2, BankKeeps
  <2>3. CASE UNCHANGED <<bank, disturbed>> /\ ~appendRevision
    BY <1>1, <2>1, <2>3 DEF FindVacancy, MergeAnswerBlocks
  <2>4. QED BY <2>2, <2>3 DEF reviewedBlock
<1>6. QED BY <1>1, <1>2, <1>3, <1>4, <1>5, SessionStays, HandlerGoesOn

LEMMA PromptStep == ASSUME ReviewsInv, PromptNext PROVE ReviewsInv'
<1>1. ra.pc = "prompt" /\ UNCHANGED <<configured, bank, formKeys, kept, disturbed>>
  BY DEF PromptNext
<1>2. PICK r \in reviews :
        /\ ra.task = {r} /\ reviewTask = r /\ r.t \in Tests
        /\ session \in [Tests -> SessionSet(Prompts)] /\ ra.rev \in Nat
        /\ \/ session[r.t].status = "cancelled"
           \/ /\ session[r.t].status = "answered"
              /\ session[r.t].rev = ra.rev /\ ra.rev >= 2
        /\ ra.todo \subseteq QuestionsOf(r.t) /\ ra.todo # {}
  BY <1>1, WorksOn DEF AfterSelect
<1>3. FindVacancy' = FindVacancy BY <1>1 DEF FindVacancy, MergeAnswerBlocks
<1>4. disturbed \in BOOLEAN BY DEF ReviewsInv, ReviewsTypeOK
<1> DEFINE next == First(r.t, ra.todo)
<1>5. CASE ~(AwaitsPrompt(r.t, ra.rev) /\ Supported(next))
  <2>1. EndReview /\ session' = session BY <1>2, <1>5 DEF PromptNext
  <2>2. session[r.t].status = "cancelled" \/ ~Answerable(r.t)
    BY <1>2, <1>5, CodeAsked DEF AwaitsPrompt
  <2>3. QED BY <1>1, <1>2, <2>1, <2>2, SessionStays, HandlerEnds
<1>6. CASE AwaitsPrompt(r.t, ra.rev) /\ Supported(next)
  <2>1. session[r.t].rev = ra.rev /\ ra.rev >= 2 BY <1>2, <1>6 DEF AwaitsPrompt
  <2>2. PICK q, todo :
          /\ session' = [session EXCEPT ![r.t] = [status |-> "waiting", rev |-> ra.rev,
                                                  prompt |-> q]]
          /\ ra' = [ra EXCEPT !.pc = "select", !.q = q, !.todo = todo]
          /\ reviews' = reviews /\ todo \subseteq QuestionsOf(r.t)
    <3> DEFINE h == First(r.t, ra.todo)
               rest == ra.todo \ {h}
    <3>1. /\ session' = [session EXCEPT ![r.t] = [status |-> "waiting", rev |-> ra.rev,
                                                  prompt |-> h]]
          /\ ra' = [ra EXCEPT !.pc = "select", !.q = h, !.todo = rest]
          /\ reviews' = reviews
      BY <1>2, <1>6, <2>1 DEF PromptNext, Prompted
    <3>2. rest \subseteq QuestionsOf(r.t) BY <1>2
    <3> HIDE DEF h, rest
    <3>3. QED BY <3>1, <3>2
  <2>3. ra'.pc = "select" /\ ra'.rev = ra.rev /\ ra'.task = {r} /\ ra'.todo = todo
        /\ ra' \in [pc : {"select"} \cup AfterSelect, task : {ra'.task}, rev : Nat,
                    q : {ra'.q}, todo : {ra'.todo}, read : {ra'.read}]
    BY <1>2, <2>2 DEF ReviewsInv, ReviewsTypeOK
  <2>4. SessionBecomes(r.t, "waiting", ra.rev)
    <3>1. "waiting" \in SessionStatuses BY DEF SessionStatuses
    <3>2. QED BY <1>2, <2>2, <3>1, SessionWritten
  <2>5. "select" \notin AfterSelect BY DEF AfterSelect
  <2>6. QED
    BY <1>1, <1>2, <1>3, <1>4, <2>1, <2>2, <2>3, <2>4, <2>5, HandlerGoesOn
    DEF SessionBecomes
<1>7. QED BY <1>5, <1>6

LEMMA ContinueSteps ==
    ASSUME ReviewsInv, continueChain \/ continueBatch PROVE ReviewsInv'
<1>1. ra.pc = "continue" /\ EndReview /\ UNCHANGED <<configured, bank, kept, disturbed>>
  BY DEF continueChain, continueBatch
<1>2. PICK r \in reviews :
        /\ ra.task = {r} /\ reviewTask = r /\ r.t \in Tests
        /\ r.banked \/ r.t \in kept
        /\ session \in [Tests -> SessionSet(Prompts)] /\ ra.rev \in Nat
        /\ \/ session[r.t].status = "cancelled"
           \/ /\ session[r.t].status = "answered"
              /\ session[r.t].rev = ra.rev /\ ra.rev >= 2
        /\ r.banked => bank.exists
        /\ ~r.single /\ ~disturbed => QuestionsOf(r.t) \subseteq FindVacancy \cup r.qs
  BY <1>1, WorksOn DEF AfterSelect
<1>3. formKeys \subseteq formKeys' BY DEF continueChain, continueBatch, EnqueueAnswer
<1>4. CASE session' = session /\ session[r.t].status = "cancelled"
  BY <1>1, <1>2, <1>3, <1>4, SessionStays, HandlerEnds
<1>5. CASE session' = session /\ \E key \in formKeys' : key.t = r.t
  BY <1>1, <1>2, <1>3, <1>5, SessionStays, HandlerEnds
<1>6. CASE session' = session /\ (disturbed \/ r.t \in kept \/ ~Answerable(r.t))
  BY <1>1, <1>2, <1>3, <1>6, SessionStays, HandlerEnds
<1>7. CASE continueChain
  <2> DEFINE remaining == UncoveredQuestions(r.t) \ {ra.q}
             next == First(r.t, remaining)
  <2>1. CASE ~blockFound
    <3>1. session' = session /\ ~bank.exists BY <1>7, <2>1 DEF continueChain, blockFound
    <3>2. QED BY <1>2, <1>6, <3>1
  <2>2. CASE blockFound /\ remaining = {}
    <3>1. session' = session BY <1>2, <1>7, <2>2 DEF continueChain
    <3>2. CASE resolvedAnswers(r.t, {ra.q})
      <4>1. EnqueueAnswer(r.t, "review", ra.rev) BY <1>2, <1>7, <2>2, <3>2 DEF continueChain
      <4>2. [t |-> r.t, via |-> "review", rev |-> ra.rev] \in formKeys'
        BY <4>1 DEF EnqueueAnswer
      <4>3. \E key \in formKeys' : key.t = r.t BY <4>2
      <4>4. QED BY <1>5, <3>1, <4>3
    <3>3. CASE ~resolvedAnswers(r.t, {ra.q}) BY <1>2, <1>6, <3>1, <3>3, NotAnswerable
    <3>4. QED BY <3>2, <3>3
  <2>3. CASE blockFound /\ remaining # {}
    <3>1. session' = IF Supported(next) /\ AwaitsPrompt(r.t, ra.rev)
                     THEN Prompted(r.t, next) ELSE session
      BY <1>2, <1>7, <2>3 DEF continueChain
    <3>2. CASE ~AwaitsPrompt(r.t, ra.rev) BY <1>2, <1>4, <3>1, <3>2 DEF AwaitsPrompt
    <3>3. CASE ~Supported(next)
      <4>1. remaining \subseteq QuestionsOf(r.t) BY DEF UncoveredQuestions
      <4>2. ~Answerable(r.t) BY <1>2, <2>3, <3>3, <4>1, CodeAsked
      <4>3. QED BY <1>6, <3>1, <3>3, <4>2
    <3>4. CASE Supported(next) /\ AwaitsPrompt(r.t, ra.rev)
      <4>1. session[r.t].rev = ra.rev /\ ra.rev >= 1 BY <1>2, <3>4 DEF AwaitsPrompt
      <4>2. PICK q : session' = [session EXCEPT ![r.t] = [status |-> "waiting",
                                                          rev |-> ra.rev, prompt |-> q]]
        BY <3>1, <3>4, <4>1 DEF Prompted
      <4>3. SessionBecomes(r.t, "waiting", ra.rev)
        <5>1. "waiting" \in SessionStatuses BY DEF SessionStatuses
        <5>2. QED BY <1>2, <4>2, <5>1, SessionWritten
      <4>4. QED BY <1>1, <1>2, <1>3, <4>1, <4>3, HandlerEnds DEF SessionBecomes
    <3>5. QED BY <3>2, <3>3, <3>4
  <2>4. QED BY <2>1, <2>2, <2>3
<1>8. CASE continueBatch
  <2>1. session' = session /\ ~r.single BY <1>2, <1>8 DEF continueBatch
  <2>2. CASE UncoveredQuestions(r.t) \subseteq r.qs /\ resolvedAnswers(r.t, r.qs)
    <3>1. EnqueueAnswer(r.t, "review", ra.rev) BY <1>2, <1>8, <2>2 DEF continueBatch
    <3>2. [t |-> r.t, via |-> "review", rev |-> ra.rev] \in formKeys'
      BY <3>1 DEF EnqueueAnswer
    <3>3. \E key \in formKeys' : key.t = r.t BY <3>2
    <3>4. QED BY <1>5, <2>1, <3>3
  <2>3. CASE ~(UncoveredQuestions(r.t) \subseteq r.qs)
    BY <1>2, <1>6, <2>1, <2>3 DEF UncoveredQuestions
  <2>4. CASE ~resolvedAnswers(r.t, r.qs) BY <1>2, <1>6, <2>1, <2>4, NotAnswerable
  <2>5. QED BY <2>2, <2>3, <2>4
<1>9. QED BY <1>7, <1>8

LEMMA ReviewsKeep ==
    ReviewsInv /\ CaptureKnows /\ [ReviewsNext]_reviewsVars => ReviewsInv' /\ CaptureKnows'
<1> SUFFICES ASSUME ReviewsInv, CaptureKnows, [ReviewsNext]_reviewsVars PROVE ReviewsInv'
  BY CaptureStep
<1>1. ASSUME NEW t \in Tests,
             \/ EnqueueCapture(t) \/ CaptureVacancyTest(t) \/ NothingToCapture(t)
             \/ EnqueueReviewAnswer(t) \/ CancelReviewSession(t) \/ PrepareSession(t)
      PROVE  ReviewsInv'
  BY <1>1, QuietSteps, CaptureSteps, AnswerSentStep
<1>2. CASE SaveFirstPrompt
  <2>1. CASE \E t : t \in Tests BY <1>2, <2>1, CaptureSteps
  <2>2. CASE Tests = {} BY <1>2, <2>2 DEF CaptureKnows, SaveFirstPrompt
  <2>3. QED BY <2>1, <2>2
<1>3. CASE \E r \in reviews : HandleReviewAnswer(r) BY <1>3, HandleStep
<1>4. CASE RecordSelection BY <1>4, RecordStep
<1>5. CASE reviewedBlock \/ appendRevision BY <1>5, BankSteps
<1>6. CASE PromptNext BY <1>6, PromptStep
<1>7. CASE continueChain \/ continueBatch BY <1>7, ContinueSteps
<1>8. CASE AnswerCovered \/ SendPrepared \/ EndCovered
  <2>1. UNCHANGED <<configured, session, bank, reviews, ra, kept, disturbed>>
        /\ formKeys \subseteq formKeys'
    <3>1. CASE AnswerCovered BY <3>1 DEF AnswerCovered
    <3>2. CASE SendPrepared BY <3>2 DEF SendPrepared, EnqueueAnswer
    <3>3. CASE EndCovered BY <3>3 DEF EndCovered
    <3>4. QED BY <1>8, <3>1, <3>2, <3>3
  <2>2. FindVacancy' = FindVacancy BY <2>1 DEF FindVacancy, MergeAnswerBlocks
  <2>3. disturbed \in BOOLEAN BY DEF ReviewsInv, ReviewsTypeOK
  <2>4. QED BY <2>1, <2>2, <2>3, SessionStays, Beside
<1>9. CASE persistModelAnswers BY <1>9, ModelAnswersStep
<1>10. CASE StopWorkers BY <1>10, StopStep
<1>11. CASE UNCHANGED reviewsVars
  <2>1. UNCHANGED <<configured, session, bank, reviews, formKeys, ra, kept, disturbed>>
    BY <1>11 DEF reviewsVars
  <2>2. FindVacancy' = FindVacancy BY <2>1 DEF FindVacancy, MergeAnswerBlocks
  <2>3. disturbed \in BOOLEAN BY DEF ReviewsInv, ReviewsTypeOK
  <2>4. QED BY <2>1, <2>2, <2>3, SessionStays, Beside
<1>12. QED
  BY <1>1, <1>2, <1>3, <1>4, <1>5, <1>6, <1>7, <1>8, <1>9, <1>10, <1>11 DEF ReviewsNext

(* The invariant of the reviews holds in every state.                      *)
THEOREM ReviewsInductive == ReviewsSpec => [](ReviewsInv /\ CaptureKnows)
<1>1. QED BY ReviewsInitInv, ReviewsKeep, PTL DEF ReviewsSpec

(* AnsweredGoesOn: an answered session has somebody at work on it, or its  *)
(* form was enqueued (worker/review_answer.go).                            *)
THEOREM AnsweredIsContinued == ReviewsSpec => []AnsweredGoesOn
<1>1. ReviewsInv /\ CaptureKnows => AnsweredGoesOn BY DEF ReviewsInv
<1>2. QED BY <1>1, ReviewsInductive, PTL

(* CancelIsFinal: nothing is written into a session the operator cancelled *)
(* (storage/sqlite/test_review.go).                                        *)
THEOREM Cancelled == ReviewsSpec => CancelIsFinal
<1>1. ReviewsInv /\ CaptureKnows /\ [ReviewsNext]_reviewsVars =>
        [\A t \in Tests : session[t].status = "cancelled" => session'[t] = session[t]]_reviewsVars
  <2> SUFFICES ASSUME ReviewsInv, CaptureKnows, [ReviewsNext]_reviewsVars, NEW t \in Tests,
                      session[t].status = "cancelled"
               PROVE  session'[t] = session[t]
    OBVIOUS
  <2> DEFINE Elsewhere == \E u, x : /\ session' = [session EXCEPT ![u] = x]
                                     /\ session[u].status # "cancelled"
  <2>1. session' = session \/ Elsewhere
    <3>1. CASE \E u \in Tests : CaptureVacancyTest(u)
      <4>1. PICK u \in Tests : CaptureVacancyTest(u) BY <3>1
      <4>2. CASE CreateReviewSession(u, First(u, UncoveredQuestions(u)))
        BY <4>2 DEF CreateReviewSession
      <4>3. QED BY <4>1, <4>2 DEF CaptureVacancyTest
    <3>2. CASE \E u \in Tests : CancelReviewSession(u)
      BY <3>2 DEF CancelReviewSession, Cancellable
    <3>3. ASSUME NEW u, NEW n, NEW q, AwaitsPrompt(u, n), session' = Prompted(u, q)
          PROVE  Elsewhere
      BY <3>3 DEF AwaitsPrompt, Prompted
    <3>4. CASE SaveFirstPrompt BY <3>3, <3>4 DEF SaveFirstPrompt
    <3>5. CASE RecordSelection BY <3>5 DEF RecordSelection, AppendReviewSelection
    <3>6. CASE PromptNext BY <3>3, <3>6 DEF PromptNext
    <3>7. CASE continueChain BY <3>3, <3>7 DEF continueChain
    <3>8. QED
      BY <3>1, <3>2, <3>4, <3>5, <3>6, <3>7
      DEF ReviewsNext, reviewsVars, EnqueueCapture, NothingToCapture, EnqueueReviewAnswer,
          PrepareSession, HandleReviewAnswer, reviewedBlock, appendRevision, continueBatch,
          AnswerCovered, persistModelAnswers, SendPrepared, EndCovered, StopWorkers
  <2>2. DOMAIN session = Tests BY DEF ReviewsInv, ReviewsTypeOK
  <2>3. QED BY <2>1, <2>2
<1>2. QED BY <1>1, ReviewsInductive, PTL DEF ReviewsSpec, CancelIsFinal

-----------------------------------------------------------------------------
(* The definitions of a configuration.  Every one is a line of a job, at a *)
(* position of its targets and a trigger, or comes from the policies of a  *)
(* profile.  A line brings along the other lines of its job for the same   *)
(* target.                                                                 *)
ResourceActions == {"profile_state.reconcile", "resume.update"}
Places(job) == IF job.action \in ResourceActions THEN {1} ELSE DOMAIN job.profiles
TargetOf(cfg, job, k) ==
    IF job.action \in ResourceActions THEN ResourceProfile(captured.resources, job) ELSE job.profiles[k]
PayloadOf(cfg, rds, job) ==
    IF job.action \in ResourceActions THEN <<job.resource>>
    ELSE IF job.action = "application.campaign" THEN JobRoutes(cfg, job, rds) ELSE <<>>
Line(cfg, rds, job, k, t) ==
    [tag |-> job.tag, index |-> triggerIndexForProfile(t - 1, k - 1, job.triggers),
     action |-> job.action, profile |-> TargetOf(cfg, job, k), payload |-> PayloadOf(cfg, rds, job)]

(* d is the line (i, k, t), and D has the others for the same target. *)
LineAt(cfg, rds, D, d, i, k, t) ==
    /\ cfg.jobs[i].enabled
    /\ d = Line(cfg, rds, cfg.jobs[i], k, t)
    /\ \A n \in Places(cfg.jobs[i]), u \in 1..cfg.jobs[i].triggers :
          TargetOf(cfg, cfg.jobs[i], n) = TargetOf(cfg, cfg.jobs[i], k)
             => Line(cfg, rds, cfg.jobs[i], n, u) \in D
JobLine(cfg, rds, D, d) ==
    \E i \in DOMAIN cfg.jobs : \E k \in Places(cfg.jobs[i]) :
       \E t \in 1..cfg.jobs[i].triggers : LineAt(cfg, rds, D, d, i, k, t)
SystemLine(cfg, d) ==
    \E k \in DOMAIN cfg.profiles : \E s \in SystemTags :
       d = [tag |-> s, index |-> triggerIndexForProfile(0, k - 1, 1), action |-> s,
            profile |-> cfg.profiles[k].tag, payload |-> <<>>]
Lines(cfg, rds, D) == \A d \in D : JobLine(cfg, rds, D, d) \/ SystemLine(cfg, d)

LEMMA LinesUnion ==
  ASSUME NEW cfg, NEW rds, NEW S, \A A \in S : Lines(cfg, rds, A)
  PROVE  Lines(cfg, rds, UNION S)
<1> SUFFICES ASSUME NEW A \in S, NEW d \in A, ~SystemLine(cfg, d)
             PROVE  JobLine(cfg, rds, UNION S, d)
  BY DEF Lines
<1>1. JobLine(cfg, rds, A, d)
  BY DEF Lines
<1>2. PICK i \in DOMAIN cfg.jobs : \E k \in Places(cfg.jobs[i]) :
              \E t \in 1..cfg.jobs[i].triggers : LineAt(cfg, rds, A, d, i, k, t)
  BY <1>1 DEF JobLine
<1>3. PICK k \in Places(cfg.jobs[i]), t \in 1..cfg.jobs[i].triggers :
              LineAt(cfg, rds, A, d, i, k, t)
  BY <1>2
<1>4. LineAt(cfg, rds, UNION S, d, i, k, t)
  BY <1>3 DEF LineAt
<1> QED BY <1>4 DEF JobLine

LEMMA LinesJobsOn ==
  ASSUME NEW cfg, NEW hs, NEW rds, NEW need, NEW action,
         action \notin ResourceActions \cup {"application.campaign"}
  PROVE  Lines(cfg, rds, JobsOn(cfg, hs, action, need))
<1> DEFINE D == JobsOn(cfg, hs, action, need)
<1> SUFFICES ASSUME NEW d \in D PROVE JobLine(cfg, rds, D, d)
  BY DEF Lines
<1>1. PICK i \in DOMAIN cfg.jobs :
         /\ cfg.jobs[i].enabled /\ cfg.jobs[i].action = action
         /\ d \in UNION {ForProfile(cfg.jobs[i], k, cfg.jobs[i].profiles[k], <<>>) :
                    k \in {n \in DOMAIN cfg.jobs[i].profiles : Runs(cfg, hs, need, cfg.jobs[i].profiles[n])}}
  BY DEF JobsOn, EnabledJobs
<1> DEFINE job == cfg.jobs[i]
<1>2. PICK k \in DOMAIN job.profiles :
         Runs(cfg, hs, need, job.profiles[k]) /\ d \in ForProfile(job, k, job.profiles[k], <<>>)
  BY <1>1
<1>3. PICK t \in 1..job.triggers : d = Line(cfg, rds, job, k, t)
  BY <1>1, <1>2 DEF ForProfile, Line, TargetOf, PayloadOf
<1>4. ASSUME NEW n \in Places(job), NEW u \in 1..job.triggers, TargetOf(cfg, job, n) = TargetOf(cfg, job, k)
      PROVE  Line(cfg, rds, job, n, u) \in D
  <2>1. n \in DOMAIN job.profiles /\ job.profiles[n] = job.profiles[k]
    BY <1>1, <1>4 DEF Places, TargetOf
  <2>2. Line(cfg, rds, job, n, u) \in ForProfile(job, n, job.profiles[n], <<>>)
    BY <1>1 DEF ForProfile, Line, TargetOf, PayloadOf
  <2>3. job \in EnabledJobs(cfg, action)
    BY <1>1 DEF EnabledJobs
  <2> QED BY <2>1, <2>2, <2>3, <1>2 DEF JobsOn
<1>5. k \in Places(job)
  BY <1>1 DEF Places
<1>6. LineAt(cfg, rds, D, d, i, k, t)
  BY <1>1, <1>3, <1>4 DEF LineAt
<1> QED BY <1>5, <1>6 DEF JobLine

LEMMA LinesOnResource ==
  ASSUME NEW cfg, NEW rds, NEW action \in ResourceActions, NEW js \in SUBSET EnabledJobs(cfg, action)
  PROVE  Lines(cfg, rds, OnResource(captured.resources, js))
<1> DEFINE D == OnResource(captured.resources, js)
<1> SUFFICES ASSUME NEW d \in D PROVE JobLine(cfg, rds, D, d)
  BY DEF Lines
<1>1. PICK job \in js : d \in ForProfile(job, 1, ResourceProfile(captured.resources, job), <<job.resource>>)
  BY DEF OnResource
<1>2. PICK i \in DOMAIN cfg.jobs : job = cfg.jobs[i] /\ job.enabled /\ job.action = action
  BY DEF EnabledJobs
<1>3. Places(job) = {1}
  BY <1>2 DEF Places
<1>4. ForProfile(job, 1, ResourceProfile(captured.resources, job), <<job.resource>>)
        = {Line(cfg, rds, job, 1, t) : t \in 1..job.triggers}
  BY <1>2 DEF ForProfile, Line, TargetOf, PayloadOf
<1>5. PICK t \in 1..job.triggers : d = Line(cfg, rds, job, 1, t)
  BY <1>1, <1>4
<1>6. \A u \in 1..job.triggers : Line(cfg, rds, job, 1, u) \in D
  BY <1>4 DEF OnResource
<1>7. LineAt(cfg, rds, D, d, i, 1, t)
  BY <1>2, <1>3, <1>5, <1>6 DEF LineAt
<1> QED BY <1>2, <1>3, <1>7 DEF JobLine

LEMMA LinesCampaigns ==
  ASSUME NEW cfg, NEW rds
  PROVE  Lines(cfg, rds, CampaignDefinitions(cfg, rds))
<1> DEFINE D == CampaignDefinitions(cfg, rds)
<1> SUFFICES ASSUME NEW d \in D PROVE JobLine(cfg, rds, D, d)
  BY DEF Lines
<1> DEFINE Of(job) == UNION {ForProfile(job, k, job.profiles[k], JobRoutes(cfg, job, rds)) : k \in DOMAIN job.profiles}
           Able == {j \in EnabledJobs(cfg, "application.campaign") : CampaignRunnable(cfg, j, rds)}
<1>0. D = UNION {Of(job) : job \in Able}
  BY DEF CampaignDefinitions
<1>1. PICK job \in Able : d \in Of(job)
  BY <1>0
<1>2. PICK i \in DOMAIN cfg.jobs : job = cfg.jobs[i] /\ job.enabled /\ job.action = "application.campaign"
  BY DEF EnabledJobs
<1>3. Places(job) = DOMAIN job.profiles
  BY <1>2 DEF Places, ResourceActions
<1>4. \A k \in DOMAIN job.profiles :
         ForProfile(job, k, job.profiles[k], JobRoutes(cfg, job, rds))
           = {Line(cfg, rds, job, k, t) : t \in 1..job.triggers}
  BY <1>2 DEF ForProfile, Line, TargetOf, PayloadOf, ResourceActions
<1>5. PICK k \in Places(job), t \in 1..job.triggers : d = Line(cfg, rds, job, k, t)
  BY <1>1, <1>3, <1>4
<1>6. \A n \in Places(job), u \in 1..job.triggers : Line(cfg, rds, job, n, u) \in Of(job)
  BY <1>3, <1>4
<1>7. \A n \in Places(job), u \in 1..job.triggers : Line(cfg, rds, job, n, u) \in D
  BY <1>0, <1>6
<1>8. LineAt(cfg, rds, D, d, i, k, t)
  BY <1>2, <1>5, <1>7 DEF LineAt
<1> QED BY <1>2, <1>5, <1>8 DEF JobLine

LEMMA LinesSystem ==
  ASSUME NEW cfg, NEW hs, NEW rds
  PROVE  Lines(cfg, rds, profileSystemDefinitions(cfg, hs))
<1> SUFFICES ASSUME NEW d \in profileSystemDefinitions(cfg, hs) PROVE SystemLine(cfg, d)
  BY DEF Lines
<1>1. \A p : SystemJobs(p, hs) \subseteq SystemTags
  BY DEF SystemJobs, SystemTags
<1>2. PICK k \in DOMAIN cfg.profiles : \E s \in SystemJobs(cfg.profiles[k], hs) :
         d = [tag |-> s, index |-> triggerIndexForProfile(0, k - 1, 1), action |-> s,
              profile |-> cfg.profiles[k].tag, payload |-> <<>>]
  BY DEF profileSystemDefinitions
<1> QED BY <1>1, <1>2 DEF SystemLine

(* All the definitions of a configuration, with its campaigns, are lines. *)
LEMMA LinesBuilt ==
  ASSUME NEW cfg, NEW rds
  PROVE  Lines(cfg, rds, buildReloadableDefinitions(cfg, CampaignDefinitions(cfg, rds)))
<1>1. /\ Lines(cfg, rds, resumeTouchDefinitions(cfg, has))
      /\ Lines(cfg, rds, resumePublishDefinitions(cfg, has))
      /\ Lines(cfg, rds, sessionRefreshDefinitions(cfg, has))
      /\ Lines(cfg, rds, profileActivityDefinitions(cfg, has))
      /\ Lines(cfg, rds, conversationDiscoveryDefinitions(cfg, has))
      /\ Lines(cfg, rds, conversationFollowUpSelectionDefinitions(cfg, has))
      /\ Lines(cfg, rds, applicationRetentionDefinitions(cfg, has))
      /\ Lines(cfg, rds, applicationStateSyncDefinitions(cfg, has))
      /\ Lines(cfg, rds, profileActivityMaintainDefinitions(cfg, has))
      /\ Lines(cfg, rds, applicationAnswerCoveredDefinitions(cfg, has))
      /\ Lines(cfg, rds, applicationValidationRefreshDefinitions(cfg, has))
  BY LinesJobsOn DEF resumeTouchDefinitions, resumePublishDefinitions, sessionRefreshDefinitions,
     profileActivityDefinitions, conversationDiscoveryDefinitions,
     conversationFollowUpSelectionDefinitions, applicationRetentionDefinitions,
     applicationStateSyncDefinitions, profileActivityMaintainDefinitions,
     applicationAnswerCoveredDefinitions, applicationValidationRefreshDefinitions, ResourceActions
<1>2. /\ Lines(cfg, rds, profileStateReconcileDefinitions(cfg, has, captured))
      /\ Lines(cfg, rds, resumeUpdateDefinitions(cfg, has, captured))
  BY LinesOnResource DEF profileStateReconcileDefinitions, resumeUpdateDefinitions, ResourceActions
<1>3. Lines(cfg, rds, profileSystemDefinitions(cfg, has)) /\ Lines(cfg, rds, CampaignDefinitions(cfg, rds))
  BY LinesSystem, LinesCampaigns
<1> QED BY <1>1, <1>2, <1>3, LinesUnion DEF buildReloadableDefinitions

-----------------------------------------------------------------------------
(* The key of a definition.  Positions and triggers of one job do not run  *)
(* into each other, and no two jobs have one tag.                          *)
LEMMA IndexOnce ==
  ASSUME NEW n \in Nat, NEW k \in Nat, NEW m \in Nat, NEW t \in 1..n, NEW u \in 1..n,
         triggerIndexForProfile(t - 1, k, n) = triggerIndexForProfile(u - 1, m, n)
  PROVE  k = m /\ t = u
<1>1. k * n + (t - 1) = m * n + (u - 1)
  BY DEF triggerIndexForProfile
<1>2. \A a, b \in Nat : a < b => a * n + n <= b * n
  <2> SUFFICES ASSUME NEW a \in Nat, NEW b \in Nat, a < b PROVE a * n + n <= b * n
    OBVIOUS
  <2>1. PICK c \in Nat : b = a + 1 + c
    <3> WITNESS b - a - 1 \in Nat
    <3> QED OBVIOUS
  <2>2. b * n = a * n + n + c * n /\ c * n \in Nat /\ a * n \in Nat
    BY <2>1
  <2> QED BY <2>2
<1>3. k * n \in Nat /\ m * n \in Nat
  OBVIOUS
<1>4. ~ k < m /\ ~ m < k
  BY <1>1, <1>2, <1>3
<1>5. k = m
  BY <1>4
<1> QED BY <1>1, <1>3, <1>5

(* What the tags, the triggers and the positions of a configuration are.   *)
GoodConfig(cfg) ==
    /\ DistinctTags(cfg.jobs)
    /\ DOMAIN cfg.profiles = 1..Len(cfg.profiles) /\ Len(cfg.profiles) \in Nat
    /\ \A i \in DOMAIN cfg.jobs :
          /\ cfg.jobs[i].tag \notin SystemTags
          /\ cfg.jobs[i].triggers \in Nat
          /\ Len(cfg.jobs[i].profiles) \in Nat
          /\ DOMAIN cfg.jobs[i].profiles = 1..Len(cfg.jobs[i].profiles)

LEMMA ConfigsAreGood ==
  ASSUME NEW cfg \in Configs, DistinctTags(cfg.jobs)
  PROVE  GoodConfig(cfg)
<1>1. cfg.jobs \in Seq(JobRecords) /\ cfg.profiles \in Seq(ProfileRecords)
  BY DEF Configs
<1>2. \A i \in DOMAIN cfg.jobs : cfg.jobs[i] \in JobRecords
  BY <1>1
<1>3. \A i \in DOMAIN cfg.jobs : cfg.jobs[i].profiles \in Seq(STRING)
  BY <1>2 DEF JobRecords
<1>4. \A i \in DOMAIN cfg.jobs : cfg.jobs[i].tag \notin SystemTags /\ cfg.jobs[i].triggers \in Nat
  BY <1>2 DEF JobRecords
<1> QED BY <1>1, <1>3, <1>4 DEF GoodConfig

(* Definitions are told apart by tag and index, a tag has one payload, and *)
(* the indices of a tag are bounded.                                       *)
Keyed(D) ==
    /\ \A d, e \in D : d.tag = e.tag /\ d.index = e.index => d = e
    /\ \A d, e \in D : d.tag = e.tag => d.payload = e.payload
    /\ \A d \in D : d.index \in Nat
    /\ \A tag : \E n \in Nat : \A d \in D : d.tag = tag => d.index <= n

LEMMA LinesKeyed ==
  ASSUME NEW cfg, GoodConfig(cfg), NEW rds, NEW D, Lines(cfg, rds, D)
  PROVE  Keyed(D)
<1> DEFINE IsJob(d, i, k, t) == d = Line(cfg, rds, cfg.jobs[i], k, t)
           IsSystem(d, k, s) == d = [tag |-> s, index |-> triggerIndexForProfile(0, k - 1, 1), action |-> s,
                                     profile |-> cfg.profiles[k].tag, payload |-> <<>>]
<1>1. ASSUME NEW d \in D
      PROVE  \/ \E i \in DOMAIN cfg.jobs : \E k \in Places(cfg.jobs[i]) :
                   \E t \in 1..cfg.jobs[i].triggers : IsJob(d, i, k, t)
             \/ \E k \in DOMAIN cfg.profiles : \E s \in SystemTags : IsSystem(d, k, s)
  <2>1. CASE JobLine(cfg, rds, D, d)
    BY <2>1 DEF JobLine, LineAt
  <2>2. CASE SystemLine(cfg, d)
    BY <2>2 DEF SystemLine
  <2> QED BY <2>1, <2>2 DEF Lines
<1>2. \A i \in DOMAIN cfg.jobs : \A k \in Places(cfg.jobs[i]) :
         k \in Nat /\ k - 1 \in Nat /\ k <= Len(cfg.jobs[i].profiles) + 1
  BY DEF Places, GoodConfig
<1>3. \A k \in DOMAIN cfg.profiles : k \in Nat /\ triggerIndexForProfile(0, k - 1, 1) = k - 1 /\ k - 1 \in Nat
  BY DEF GoodConfig, triggerIndexForProfile
<1>s. ASSUME NEW i \in DOMAIN cfg.jobs, NEW e \in D, e.tag = cfg.jobs[i].tag
      PROVE  \E j \in DOMAIN cfg.jobs : \E m \in Places(cfg.jobs[j]) :
                \E u \in 1..cfg.jobs[j].triggers : IsJob(e, j, m, u)
  <2>1. cfg.jobs[i].tag \notin SystemTags
    BY DEF GoodConfig
  <2>2. ~ \E k \in DOMAIN cfg.profiles : \E s \in SystemTags : IsSystem(e, k, s)
    BY <1>s, <2>1
  <2> QED BY <1>1, <2>2
<1>4. ASSUME NEW d \in D, NEW e \in D, d.tag = e.tag
      PROVE  (d.index = e.index => d = e) /\ d.payload = e.payload
  <2>1. CASE \E k \in DOMAIN cfg.profiles : \E s \in SystemTags : IsSystem(d, k, s)
    <3>1. PICK k \in DOMAIN cfg.profiles, s \in SystemTags : IsSystem(d, k, s)
      BY <2>1
    <3>2. PICK m \in DOMAIN cfg.profiles, u \in SystemTags : IsSystem(e, m, u)
      BY <1>1, <1>4, <3>1 DEF GoodConfig, Line
    <3> QED BY <1>3, <1>4, <3>1, <3>2
  <2>2. CASE \E i \in DOMAIN cfg.jobs : \E k \in Places(cfg.jobs[i]) :
                \E t \in 1..cfg.jobs[i].triggers : IsJob(d, i, k, t)
    <3>1. PICK i \in DOMAIN cfg.jobs : \E k \in Places(cfg.jobs[i]) :
                 \E t \in 1..cfg.jobs[i].triggers : IsJob(d, i, k, t)
      BY <2>2
    <3>2. PICK k \in Places(cfg.jobs[i]), t \in 1..cfg.jobs[i].triggers : IsJob(d, i, k, t)
      BY <3>1
    <3>3. d.tag = cfg.jobs[i].tag
      BY <3>2 DEF Line
    <3>4. PICK j \in DOMAIN cfg.jobs : \E m \in Places(cfg.jobs[j]) :
                 \E u \in 1..cfg.jobs[j].triggers : IsJob(e, j, m, u)
      BY <1>s, <1>4, <3>3
    <3>5. PICK m \in Places(cfg.jobs[j]), u \in 1..cfg.jobs[j].triggers : IsJob(e, j, m, u)
      BY <3>4
    <3>6. i = j
      <4>1. e.tag = cfg.jobs[j].tag
        BY <3>5 DEF Line
      <4> QED BY <1>4, <3>3, <4>1 DEF GoodConfig, DistinctTags
    <3>7. d.payload = e.payload
      BY <3>2, <3>5, <3>6 DEF Line
    <3>8. ASSUME d.index = e.index PROVE d = e
      <4>1. triggerIndexForProfile(t - 1, k - 1, cfg.jobs[i].triggers)
              = triggerIndexForProfile(u - 1, m - 1, cfg.jobs[i].triggers)
        BY <3>2, <3>5, <3>6, <3>8 DEF Line
      <4>2. k - 1 \in Nat /\ m - 1 \in Nat /\ cfg.jobs[i].triggers \in Nat
        BY <1>2, <3>6 DEF GoodConfig
      <4>3. k - 1 = m - 1 /\ t = u
        BY <4>1, <4>2, <3>6, IndexOnce
      <4>4. k = m
        BY <4>3, <3>6 DEF Places, GoodConfig
      <4> QED BY <3>2, <3>5, <3>6, <4>3, <4>4
    <3> QED BY <3>7, <3>8
  <2> QED BY <1>1, <2>1, <2>2
<1>5. ASSUME NEW i \in DOMAIN cfg.jobs, NEW k \in Places(cfg.jobs[i]), NEW t \in 1..cfg.jobs[i].triggers
      PROVE  /\ triggerIndexForProfile(t - 1, k - 1, cfg.jobs[i].triggers) \in Nat
             /\ triggerIndexForProfile(t - 1, k - 1, cfg.jobs[i].triggers)
                   <= (Len(cfg.jobs[i].profiles) + 1) * cfg.jobs[i].triggers
  <2> DEFINE n == cfg.jobs[i].triggers
             a == k - 1
             b == Len(cfg.jobs[i].profiles)
  <2>1. n \in Nat /\ a \in Nat /\ b \in Nat /\ a <= b /\ t \in 1..n
    BY <1>2 DEF GoodConfig
  <2> HIDE DEF n, a, b
  <2>2. PICK c \in Nat : b = a + c
    <3> b - a \in Nat /\ b = a + (b - a)
      BY <2>1
    <3> QED OBVIOUS
  <2>3. (b + 1) * n = a * n + n + c * n /\ a * n \in Nat /\ c * n \in Nat
    BY <2>1, <2>2
  <2>4. a * n + (t - 1) \in Nat /\ a * n + (t - 1) <= (b + 1) * n
    BY <2>1, <2>3
  <2> QED BY <2>4 DEF triggerIndexForProfile, n, a, b
<1>6. ASSUME NEW d \in D PROVE d.index \in Nat
  <2>1. CASE \E k \in DOMAIN cfg.profiles : \E s \in SystemTags : IsSystem(d, k, s)
    BY <1>3, <2>1
  <2>2. CASE \E i \in DOMAIN cfg.jobs : \E k \in Places(cfg.jobs[i]) :
                \E t \in 1..cfg.jobs[i].triggers : IsJob(d, i, k, t)
    BY <1>5, <2>2 DEF Line
  <2> QED BY <1>1, <2>1, <2>2
<1>7. ASSUME NEW tag PROVE \E n \in Nat : \A d \in D : d.tag = tag => d.index <= n
  <2>1. CASE \E i \in DOMAIN cfg.jobs : cfg.jobs[i].tag = tag
    <3>1. PICK i \in DOMAIN cfg.jobs : cfg.jobs[i].tag = tag
      BY <2>1
    <3> DEFINE n == (Len(cfg.jobs[i].profiles) + 1) * cfg.jobs[i].triggers
    <3>2. n \in Nat
      BY DEF GoodConfig
    <3>3. ASSUME NEW d \in D, d.tag = tag PROVE d.index <= n
      <4>1. PICK j \in DOMAIN cfg.jobs : \E k \in Places(cfg.jobs[j]) :
                   \E t \in 1..cfg.jobs[j].triggers : IsJob(d, j, k, t)
        BY <1>s, <3>1, <3>3
      <4>2. cfg.jobs[j].tag = tag
        BY <4>1, <3>3 DEF Line
      <4>3. i = j
        BY <4>2, <3>1 DEF GoodConfig, DistinctTags
      <4> QED BY <4>1, <4>3, <1>5 DEF Line
    <3> QED BY <3>2, <3>3
  <2>2. CASE ~ \E i \in DOMAIN cfg.jobs : cfg.jobs[i].tag = tag
    <3>1. ASSUME NEW d \in D, d.tag = tag PROVE d.index <= Len(cfg.profiles)
      <4>1. PICK k \in DOMAIN cfg.profiles, s \in SystemTags : IsSystem(d, k, s)
        BY <1>1, <2>2, <3>1 DEF Line
      <4> QED BY <4>1, <1>3 DEF GoodConfig
    <3> QED BY <3>1 DEF GoodConfig
  <2> QED BY <2>1, <2>2
<1> QED BY <1>4, <1>6, <1>7 DEF Keyed

(* The commands of a job run: one for a profile.                           *)
OncePerProfile(todo) ==
    /\ Len(todo) \in Nat /\ DOMAIN todo = 1..Len(todo)
    /\ \A i, j \in 1..Len(todo) : todo[i].profile = todo[j].profile => i = j

LEMMA RunsOnce ==
  ASSUME NEW D, Keyed(D), NEW tag
  PROVE  OncePerProfile(jobRunDefinitions(D, tag))
<1> DEFINE F == {d \in D : d.tag = tag /\ \A e \in D :
                   e.tag = tag /\ e.profile = d.profile /\ e.payload = d.payload => e.index >= d.index}
           Below(x) == {y \in F : y.index < x.index}
           Rank(x) == Cardinality(Below(x))
           At(i) == CHOOSE x \in F : Rank(x) = i - 1
           N == Cardinality(F)
<1>1. \A d \in F : d.index \in Nat
  BY DEF Keyed
<1>2. \A d, e \in F : d.index = e.index => d = e
  BY DEF Keyed
<1>3. IsFiniteSet(F) /\ N \in Nat
  <2>1. PICK n \in Nat : \A d \in D : d.tag = tag => d.index <= n
    BY DEF Keyed
  <2> DEFINE f == [d \in F |-> d.index]
  <2>2. f \in Injection(F, 0..n)
    <3>1. f \in [F -> 0..n]
      BY <1>1, <2>1
    <3>2. \A a, b \in F : f[a] = f[b] => a = b
      BY <1>2
    <3> QED BY <3>1, <3>2 DEF Injection, IsInjective
  <2>3. IsFiniteSet(0..n)
    BY FS_Interval
  <2>4. IsFiniteSet(F)
    BY <2>2, <2>3, FS_Injection
  <2> QED BY <2>4, FS_CardinalityType
<1> HIDE DEF F
<1>4. ASSUME NEW x \in F PROVE Rank(x) \in 0..(N - 1) /\ IsFiniteSet(Below(x))
  <2>1. Below(x) \in SUBSET F /\ x \notin Below(x)
    BY <1>1
  <2>2. IsFiniteSet(Below(x)) /\ Rank(x) <= N /\ (N = Rank(x) => F = Below(x))
    BY <2>1, <1>3, FS_Subset
  <2>3. Rank(x) \in Nat
    BY <2>2, FS_CardinalityType
  <2> HIDE DEF Rank, N
  <2> QED BY <1>3, <2>1, <2>2, <2>3
<1>5. ASSUME NEW x \in F, NEW y \in F, x.index < y.index PROVE Rank(x) # Rank(y)
  <2>1. Below(x) \in SUBSET Below(y) /\ x \in Below(y) /\ x \notin Below(x)
    BY <1>1, <1>5
  <2>2. IsFiniteSet(Below(y))
    BY <1>4
  <2>3. Rank(x) = Rank(y) => Below(y) = Below(x)
    BY <2>1, <2>2, FS_Subset
  <2> QED BY <2>1, <2>3
<1>6. \A x, y \in F : Rank(x) = Rank(y) => x = y
  <2> SUFFICES ASSUME NEW x \in F, NEW y \in F, Rank(x) = Rank(y) PROVE x = y
    OBVIOUS
  <2>1. ~ x.index < y.index /\ ~ y.index < x.index
    BY <1>5
  <2>2. x.index = y.index
    BY <2>1, <1>1
  <2> QED BY <2>2, <1>2
<1> HIDE DEF Rank
<1>7. \A i \in 1..N : \E x \in F : Rank(x) = i - 1
  <2> DEFINE g == [x \in F |-> Rank(x)]
  <2>1. g \in Injection(F, 0..(N - 1))
    <3>1. g \in [F -> 0..(N - 1)]
      BY <1>4
    <3>2. \A a, b \in F : g[a] = g[b] => a = b
      BY <1>6
    <3> QED BY <3>1, <3>2 DEF Injection, IsInjective
  <2>2. IsFiniteSet(0..(N - 1)) /\ Cardinality(0..(N - 1)) = N
    <3>1. N - 1 \in Int /\ 0 \in Int
      BY <1>3
    <3>2. IsFiniteSet(0..(N - 1)) /\ Cardinality(0..(N - 1)) = IF 0 > N - 1 THEN 0 ELSE (N - 1) - 0 + 1
      BY <3>1, FS_Interval
    <3> HIDE DEF N
    <3> QED BY <3>2, <1>3
  <2>3. g \in Surjection(F, 0..(N - 1))
    BY <2>1, <2>2, FS_Injection
  <2> HIDE DEF N
  <2>4. \A v \in 0..(N - 1) : \E x \in F : g[x] = v
    BY <2>3 DEF Surjection
  <2> QED BY <2>4, <1>3
<1>8. \A i \in 1..N : At(i) \in F /\ Rank(At(i)) = i - 1
  BY <1>7
<1> DEFINE s == [i \in 1..N |-> [action |-> At(i).action, profile |-> At(i).profile, payload |-> At(i).payload]]
<1>9. jobRunDefinitions(D, tag) = s
  BY DEF jobRunDefinitions, F, Rank
<1>10. Len(s) = N /\ DOMAIN s = 1..N
  <2> HIDE DEF At, N
  <2> QED BY <1>3
<1>11. ASSUME NEW i \in 1..N, NEW j \in 1..N, s[i].profile = s[j].profile PROVE i = j
  <2>1. At(i) \in F /\ At(j) \in F /\ Rank(At(i)) = i - 1 /\ Rank(At(j)) = j - 1
    BY <1>8
  <2>2. At(i).profile = At(j).profile
    BY <1>11
  <2> HIDE DEF At, N
  <2>3. At(i).payload = At(j).payload
    BY <2>1 DEF Keyed, F
  <2>4. At(i).index >= At(j).index /\ At(j).index >= At(i).index
    BY <2>1, <2>2, <2>3 DEF F
  <2>5. At(i).index = At(j).index
    BY <2>1, <2>4, <1>1
  <2> QED BY <1>2, <1>3, <2>1, <2>5
<1> QED BY <1>3, <1>9, <1>10, <1>11 DEF OncePerProfile

(* Syncing gives every definition its row, the old one if it is the same.  *)
LEMMA Synced ==
  ASSUME NEW old, NEW D, Keyed(D)
  PROVE  /\ DOMAIN SyncSchedules(old, D) = {<<d.tag, d.index>> : d \in D}
         /\ \A d \in D : SyncSchedules(old, D)[<<d.tag, d.index>>].def = d
         /\ \A d \in D : <<d.tag, d.index>> \in DOMAIN old /\ old[<<d.tag, d.index>>].def = d
               => SyncSchedules(old, D)[<<d.tag, d.index>>] = old[<<d.tag, d.index>>]
<1> DEFINE K == {<<d.tag, d.index>> : d \in D}
           Of(k) == CHOOSE x \in D : <<x.tag, x.index>> = k
           New(k) == IF k \in DOMAIN old /\ old[k].def = Of(k) THEN old[k] ELSE [def |-> Of(k), due |-> epoch + 1]
<1>1. SyncSchedules(old, D) = [k \in K |-> New(k)]
  BY DEF SyncSchedules
<1>2. ASSUME NEW d \in D PROVE Of(<<d.tag, d.index>>) = d
  <2>1. Of(<<d.tag, d.index>>) \in D
        /\ <<Of(<<d.tag, d.index>>).tag, Of(<<d.tag, d.index>>).index>> = <<d.tag, d.index>>
    OBVIOUS
  <2> HIDE DEF Of
  <2>2. Of(<<d.tag, d.index>>).tag = d.tag /\ Of(<<d.tag, d.index>>).index = d.index
    BY <2>1
  <2> QED BY <2>1, <2>2 DEF Keyed
<1>3. \A d \in D : <<d.tag, d.index>> \in K
  OBVIOUS
<1> HIDE DEF Of, K
<1>4. \A d \in D : New(<<d.tag, d.index>>).def = d
  BY <1>2
<1>5. \A d \in D : <<d.tag, d.index>> \in DOMAIN old /\ old[<<d.tag, d.index>>].def = d
               => New(<<d.tag, d.index>>) = old[<<d.tag, d.index>>]
  BY <1>2
<1> HIDE DEF New
<1>6. /\ DOMAIN SyncSchedules(old, D) = K
      /\ \A d \in D : SyncSchedules(old, D)[<<d.tag, d.index>>] = New(<<d.tag, d.index>>)
  BY <1>1, <1>3
<1> QED BY <1>4, <1>5, <1>6 DEF K

LEMMA SyncedDefs ==
  ASSUME NEW old, NEW D, Keyed(D)
  PROVE  LET s == SyncSchedules(old, D)
         IN  /\ {s[k].def : k \in DOMAIN s} = D
             /\ \A k \in DOMAIN s : k = <<s[k].def.tag, s[k].def.index>>
<1> DEFINE s == SyncSchedules(old, D)
<1>1. DOMAIN s = {<<d.tag, d.index>> : d \in D} /\ \A d \in D : s[<<d.tag, d.index>>].def = d
  BY Synced
<1> HIDE DEF s
<1>2. \A k \in DOMAIN s : s[k].def \in D /\ k = <<s[k].def.tag, s[k].def.index>>
  <2> SUFFICES ASSUME NEW k \in DOMAIN s
               PROVE  s[k].def \in D /\ k = <<s[k].def.tag, s[k].def.index>>
    OBVIOUS
  <2>1. PICK d \in D : k = <<d.tag, d.index>>
    BY <1>1
  <2>2. s[k].def = d
    BY <1>1, <2>1
  <2> QED BY <2>1, <2>2
<1>3. \A d \in D : \E k \in DOMAIN s : s[k].def = d
  <2> SUFFICES ASSUME NEW d \in D PROVE \E k \in DOMAIN s : s[k].def = d
    OBVIOUS
  <2>1. <<d.tag, d.index>> \in DOMAIN s /\ s[<<d.tag, d.index>>].def = d
    BY <1>1
  <2> QED BY <2>1
<1>4. {s[k].def : k \in DOMAIN s} = D
  BY <1>2, <1>3
<1> QED BY <1>2, <1>4 DEF s

LEMMA ByTagOnce ==
  ASSUME NEW s, DistinctTags(s), NEW i \in DOMAIN s
  PROVE  ByTag(s, s[i].tag) = s[i]
<1>1. (CHOOSE n \in DOMAIN s : s[n].tag = s[i].tag) = i
  BY DEF DistinctTags
<1> QED BY <1>1 DEF ByTag

-----------------------------------------------------------------------------
(* The reload.  What an attempt works on is a configuration that loaded;   *)
(* its campaigns are those of the last refresh, its definitions those of   *)
(* the configuration, and between the sync and the replacement the rows    *)
(* are ahead of the runnable jobs.                                         *)
ReloadTypes ==
    /\ file \in Configs /\ IsFiniteSet(frags) /\ frags \subseteq JobRecords
    /\ epoch \in Nat /\ DOMAIN runs = Requests

Attempts ==
    /\ attempt.pc \notin {"down", "rest"} => attempt.cfg \in Configs /\ DistinctTags(attempt.cfg.jobs)
    /\ attempt.pc \in {"boot", "build", "sync", "replace"} =>
          /\ campaigns = CampaignDefinitions(attempt.cfg, reads)
          /\ routes = CampaignRoutes(attempt.cfg, reads)
    /\ attempt.pc \in {"sync", "replace"} =>
          attempt.defs = buildReloadableDefinitions(attempt.cfg, campaigns)
    /\ attempt.pc = "replace" => {sched[k].def : k \in DOMAIN sched} = attempt.defs
    /\ attempt.pc = "boot" => applied = NoConfig
    /\ applied # NoConfig => applied \in Configs /\ DistinctTags(applied.jobs)

(* The row is one of a job of the configuration, whatever its payload was. *)
RowAt(cfg, d, i, k, t) ==
    d = [tag |-> cfg.jobs[i].tag, index |-> triggerIndexForProfile(t - 1, k - 1, cfg.jobs[i].triggers),
         action |-> cfg.jobs[i].action, profile |-> TargetOf(cfg, cfg.jobs[i], k), payload |-> d.payload]
Declared(cfg, d) ==
    \/ d.tag \in SystemTags
    \/ \E i \in DOMAIN cfg.jobs : \E k \in Places(cfg.jobs[i]) :
          \E t \in 1..cfg.jobs[i].triggers : RowAt(cfg, d, i, k, t)
Rows ==
    /\ \A k \in DOMAIN sched : k = <<sched[k].def.tag, sched[k].def.index>>
    /\ applied # NoConfig /\ attempt.pc \in {"rest", "bind", "build", "sync"} =>
          \A k \in DOMAIN sched : Declared(applied, sched[k].def)

(* The commands behind a tag change with the replacements of the runnable  *)
(* definitions only, and the tasks of a run are those of one replacement.  *)
HasTask(tag, r, n) == \E x \in tasks : x.key = <<tag, r, n>>
RunFollows(plan, r) ==
    /\ runs[r].tag \in RunTags /\ runs[r].epoch \in 0..epoch
    /\ runs[r].todo = plan[runs[r].epoch][runs[r].tag]
    /\ runs[r].next \in 1..(Len(runs[r].todo) + 1)
    /\ \A n \in 1..(runs[r].next - 1) : HasTask(runs[r].tag, r, n)
    /\ runs[r] = [pc |-> "run", tag |-> runs[r].tag, next |-> runs[r].next, epoch |-> runs[r].epoch,
                  todo |-> runs[r].todo]
TaskFollows(plan, x) ==
    /\ x.tag \in RunTags /\ x.epoch \in 0..epoch
    /\ \E n \in 1..Len(plan[x.epoch][x.tag]) :
          x.key = <<x.tag, x.request, n>> /\ x.profile = plan[x.epoch][x.tag][n].profile
FinishFollows(plan, f) ==
    /\ f.tag \in RunTags /\ f.epoch \in 0..epoch
    /\ f.profiles = {c.profile : c \in Range(plan[f.epoch][f.tag])}
    /\ \A n \in 1..Len(plan[f.epoch][f.tag]) : HasTask(f.tag, f.request, n)
Follows(plan) ==
    /\ \A e \in 0..epoch, tag \in RunTags : OncePerProfile(plan[e][tag])
    /\ \A tag \in RunTags : plan[epoch][tag] = jobRunDefinitions(runnable, tag)
    /\ \A r \in Requests : runs[r].pc = "run" => RunFollows(plan, r)
    /\ \A x \in tasks : TaskFollows(plan, x)
    /\ \A x, y \in tasks : x.key = y.key => x = y
    /\ \A f \in finished : FinishFollows(plan, f)
Planned == \E plan : Follows(plan)

ReloadInv == ReloadTypes /\ Attempts /\ AppliedEverywhere /\ Rows /\ Planned

LEMMA LoadedConfigs ==
  ASSUME ReloadTypes
  PROVE  Loaded \in Configs
<1> DEFINE S == SetToSeq(frags)
           n == Cardinality(frags)
<1>1. n \in Nat /\ ExistsBijection(1..n, frags)
  BY FS_CardinalityType DEF ReloadTypes
<1>2. \E f \in [1..n -> frags] : IsInjective(f)
  BY <1>1 DEF ExistsBijection, Bijection, Injection, IsInjective
<1>3. S \in [1..n -> frags]
  BY <1>2 DEF SetToSeq
<1>4. S \in Seq(JobRecords)
  BY <1>1, <1>3 DEF ReloadTypes
<1> HIDE DEF S
<1>5. [NoConfig EXCEPT !.jobs = S]
        = [profiles |-> <<>>, searches |-> <<>>, resources |-> <<>>, jobs |-> S]
  BY DEF NoConfig
<1>6. Loaded = [profiles |-> file.profiles \o <<>>, searches |-> file.searches \o <<>>,
                resources |-> file.resources \o <<>>, jobs |-> file.jobs \o S]
  BY <1>5 DEF Loaded, loadProfileStore, mergeConfigCollections, S
<1>7. file.jobs \o S \in Seq(JobRecords)
  BY <1>4 DEF ReloadTypes, Configs
<1>8. /\ file.profiles \o <<>> \in Seq(ProfileRecords)
      /\ file.searches \o <<>> \in
           Seq([tag : STRING, profiles : Seq(STRING), resume : STRING, fallback : STRING])
      /\ file.resources \o <<>> \in Seq([tag : STRING, profile : STRING])
  BY DEF ReloadTypes, Configs
<1> QED BY <1>6, <1>7, <1>8 DEF Configs

(* What the definitions of a configuration that loaded are good for.       *)
LEMMA BuiltKeyed ==
  ASSUME NEW cfg \in Configs, DistinctTags(cfg.jobs), NEW rds
  PROVE  LET D == buildReloadableDefinitions(cfg, CampaignDefinitions(cfg, rds))
         IN  Lines(cfg, rds, D) /\ Keyed(D)
  BY ConfigsAreGood, LinesBuilt, LinesKeyed

LEMMA BuiltDeclared ==
  ASSUME NEW cfg, NEW rds, NEW D, Lines(cfg, rds, D), NEW d \in D
  PROVE  Declared(cfg, d)
<1>1. CASE JobLine(cfg, rds, D, d)
  <2>1. PICK i \in DOMAIN cfg.jobs : \E k \in Places(cfg.jobs[i]) :
                \E t \in 1..cfg.jobs[i].triggers : LineAt(cfg, rds, D, d, i, k, t)
    BY <1>1 DEF JobLine
  <2>2. PICK k \in Places(cfg.jobs[i]), t \in 1..cfg.jobs[i].triggers : LineAt(cfg, rds, D, d, i, k, t)
    BY <2>1
  <2>3. RowAt(cfg, d, i, k, t)
    BY <2>2 DEF LineAt, Line, RowAt
  <2> QED BY <2>3 DEF Declared
<1>2. CASE SystemLine(cfg, d)
  BY <1>2 DEF SystemLine, Declared
<1> QED BY <1>1, <1>2 DEF Lines

(* A campaign's lines name the routes of the configuration.                *)
LEMMA BuiltRoutes ==
  ASSUME NEW cfg, NEW rds, NEW D, Lines(cfg, rds, D), NEW d \in D, d.action = "application.campaign"
  PROVE  Range(d.payload) \subseteq CampaignRoutes(cfg, rds)
<1>1. ~ SystemLine(cfg, d)
  BY DEF SystemLine, SystemTags
<1>2. PICK i \in DOMAIN cfg.jobs : \E k \in Places(cfg.jobs[i]) :
              \E t \in 1..cfg.jobs[i].triggers : LineAt(cfg, rds, D, d, i, k, t)
  BY <1>1 DEF Lines, JobLine
<1>3. /\ cfg.jobs[i].enabled /\ cfg.jobs[i].action = d.action
      /\ d.payload = PayloadOf(cfg, rds, cfg.jobs[i])
  BY <1>2 DEF LineAt, Line
<1>4. d.payload = JobRoutes(cfg, cfg.jobs[i], rds)
  BY <1>3 DEF PayloadOf, ResourceActions
<1>5. cfg.jobs[i] \in EnabledJobs(cfg, "application.campaign")
  BY <1>3 DEF EnabledJobs
<1> QED BY <1>4, <1>5 DEF CampaignRoutes

-----------------------------------------------------------------------------
(* The steps.                                                              *)

\* What a step that leaves the runs, the tasks and the runnable jobs keeps.
LEMMA PlannedKept ==
  ASSUME Planned, UNCHANGED <<runs, tasks, finished, epoch, runnable>>
  PROVE  Planned'
<1>1. PICK plan : Follows(plan)
  BY DEF Planned
<1>2. Follows(plan)'
  BY <1>1 DEF Follows, RunFollows, TaskFollows, FinishFollows, HasTask
<1> QED BY <1>2 DEF Planned

\* Replacing the runnable definitions starts an epoch, with a plan of its own.
LEMMA PlannedReplaced ==
  ASSUME Planned, epoch \in Nat, UNCHANGED <<runs, tasks, finished>>, epoch' = epoch + 1, Keyed(runnable')
  PROVE  Planned'
<1>1. PICK old : Follows(old)
  BY DEF Planned
<1>2. PICK plan : plan = [e \in 0..(epoch + 1) |->
                            IF e <= epoch THEN old[e]
                            ELSE [tag \in RunTags |-> jobRunDefinitions(runnable', tag)]]
  OBVIOUS
<1>a. \A e \in 0..epoch : e \in 0..(epoch + 1) /\ e \in 0..epoch' /\ plan[e] = old[e]
  BY <1>2
<1>3. \A tag \in RunTags : plan[epoch'][tag] = jobRunDefinitions(runnable', tag)
  <2>1. epoch' \in 0..(epoch + 1) /\ ~ epoch' <= epoch
    OBVIOUS
  <2>2. plan[epoch'] = [tag \in RunTags |-> jobRunDefinitions(runnable', tag)]
    BY <1>2, <2>1
  <2> QED BY <2>2
<1>4. \A e \in 0..epoch', tag \in RunTags : OncePerProfile(plan[e][tag])
  <2> SUFFICES ASSUME NEW e \in 0..epoch', NEW tag \in RunTags PROVE OncePerProfile(plan[e][tag])
    OBVIOUS
  <2>1. CASE e = epoch'
    <3>1. OncePerProfile(jobRunDefinitions(runnable', tag))
      BY RunsOnce
    <3> QED BY <1>3, <2>1, <3>1
  <2>2. CASE e # epoch'
    <3>1. e \in 0..epoch
      BY <2>2
    <3> QED BY <1>1, <1>a, <3>1 DEF Follows
  <2> QED BY <2>1, <2>2
<1>5. \A r \in Requests : runs'[r].pc = "run" => RunFollows(plan, r)'
  <2> SUFFICES ASSUME NEW r \in Requests, runs[r].pc = "run" PROVE RunFollows(plan, r)'
    OBVIOUS
  <2>1. RunFollows(old, r)
    BY <1>1 DEF Follows
  <2>2. runs[r].epoch \in 0..epoch /\ plan[runs[r].epoch] = old[runs[r].epoch] /\ runs[r].epoch \in 0..epoch'
    BY <1>a, <2>1 DEF RunFollows
  <2> QED BY <2>1, <2>2 DEF RunFollows, HasTask
<1>6. \A x \in tasks' : TaskFollows(plan, x)'
  <2> SUFFICES ASSUME NEW x \in tasks PROVE TaskFollows(plan, x)'
    OBVIOUS
  <2>1. TaskFollows(old, x)
    BY <1>1 DEF Follows
  <2>2. x.epoch \in 0..epoch /\ plan[x.epoch] = old[x.epoch] /\ x.epoch \in 0..epoch'
    BY <1>a, <2>1 DEF TaskFollows
  <2> QED BY <2>1, <2>2 DEF TaskFollows
<1>7. \A f \in finished' : FinishFollows(plan, f)'
  <2> SUFFICES ASSUME NEW f \in finished PROVE FinishFollows(plan, f)'
    OBVIOUS
  <2>1. FinishFollows(old, f)
    BY <1>1 DEF Follows
  <2>2. f.epoch \in 0..epoch /\ plan[f.epoch] = old[f.epoch] /\ f.epoch \in 0..epoch'
    BY <1>a, <2>1 DEF FinishFollows
  <2> QED BY <2>1, <2>2 DEF FinishFollows, HasTask
<1>8. \A x, y \in tasks' : x.key = y.key => x = y
  BY <1>1 DEF Follows
<1>9. Follows(plan)'
  BY <1>3, <1>4, <1>5, <1>6, <1>7, <1>8 DEF Follows
<1> QED BY <1>9 DEF Planned

LEMMA PlannedStopped ==
  ASSUME Planned, UNCHANGED <<tasks, finished, epoch, runnable>>,
         runs' = [r \in Requests |-> NotRunning]
  PROVE  Planned'
<1>1. PICK plan : Follows(plan)
  BY DEF Planned
<1>2. \A r \in Requests : runs'[r].pc # "run"
  BY DEF NotRunning
<1>3. Follows(plan)'
  BY <1>1, <1>2 DEF Follows, TaskFollows, FinishFollows, HasTask
<1> QED BY <1>3 DEF Planned

LEMMA PlannedBegin ==
  ASSUME ReloadTypes, Planned, NEW r \in Requests, NEW tag \in RunTags, BeginRun(r, tag)
  PROVE  Planned'
<1>1. PICK plan : Follows(plan)
  BY DEF Planned
<1>2. /\ runs' = [runs EXCEPT ![r] = [pc |-> "run", tag |-> tag, next |-> 1, epoch |-> epoch,
                                      todo |-> jobRunDefinitions(runnable, tag)]]
      /\ UNCHANGED <<tasks, finished, epoch, runnable>>
  BY DEF BeginRun
<1>3. epoch \in 0..epoch /\ epoch \in Nat
  BY DEF ReloadTypes
<1>4. plan[epoch][tag] = jobRunDefinitions(runnable, tag) /\ Len(plan[epoch][tag]) \in Nat
  BY <1>1, <1>3 DEF Follows, OncePerProfile
<1>5. runs'[r] = [pc |-> "run", tag |-> tag, next |-> 1, epoch |-> epoch,
                  todo |-> jobRunDefinitions(runnable, tag)]
  BY <1>2 DEF ReloadTypes
<1>6. RunFollows(plan, r)'
  BY <1>2, <1>3, <1>4, <1>5 DEF RunFollows
<1>7. ASSUME NEW q \in Requests, runs'[q].pc = "run" PROVE RunFollows(plan, q)'
  <2>1. CASE q = r
    BY <1>6, <2>1
  <2>2. CASE q # r
    <3>1. runs'[q] = runs[q]
      BY <1>2, <2>2 DEF ReloadTypes
    <3>2. RunFollows(plan, q)
      BY <1>1, <1>7, <3>1 DEF Follows
    <3> QED BY <1>2, <3>1, <3>2 DEF RunFollows, HasTask
  <2> QED BY <2>1, <2>2
<1>8. Follows(plan)'
  BY <1>1, <1>2, <1>7 DEF Follows, TaskFollows, FinishFollows, HasTask
<1> QED BY <1>8 DEF Planned

LEMMA PlannedEnd ==
  ASSUME ReloadTypes, Planned, NEW r \in Requests, EndRun(r)
  PROVE  Planned'
<1>1. PICK plan : Follows(plan)
  BY DEF Planned
<1> DEFINE f == [request |-> r, tag |-> runs[r].tag, epoch |-> runs[r].epoch,
                 profiles |-> {c.profile : c \in Range(runs[r].todo)}]
<1>2. /\ runs[r].pc = "run" /\ runs[r].next > Len(runs[r].todo)
      /\ finished' = finished \cup {f} /\ runs' = [runs EXCEPT ![r] = NotRunning]
      /\ UNCHANGED <<tasks, epoch, runnable>>
  BY DEF EndRun
<1>3. RunFollows(plan, r)
  BY <1>1, <1>2 DEF Follows
<1>4. Len(runs[r].todo) \in Nat
  BY <1>1, <1>3 DEF Follows, RunFollows, OncePerProfile
<1>5. \A n \in 1..Len(runs[r].todo) : HasTask(runs[r].tag, r, n)
  BY <1>2, <1>3, <1>4 DEF RunFollows
<1>6. FinishFollows(plan, f)
  BY <1>3, <1>5 DEF RunFollows, FinishFollows
<1>7. \A g \in finished' : FinishFollows(plan, g)
  BY <1>1, <1>2, <1>6 DEF Follows
<1>8. ASSUME NEW q \in Requests, runs'[q].pc = "run" PROVE RunFollows(plan, q)'
  <2>1. q # r /\ runs'[q] = runs[q]
    BY <1>2, <1>8 DEF ReloadTypes, NotRunning
  <2>2. RunFollows(plan, q)
    BY <1>1, <1>8, <2>1 DEF Follows
  <2> QED BY <1>2, <2>1, <2>2 DEF RunFollows, HasTask
<1>9. Follows(plan)'
  BY <1>1, <1>2, <1>7, <1>8 DEF Follows, TaskFollows, FinishFollows, HasTask
<1> QED BY <1>9 DEF Planned

LEMMA PlannedEnqueue ==
  ASSUME ReloadTypes, Planned, NEW r \in Requests, EnqueueCommand(r)
  PROVE  Planned'
<1>1. PICK plan : Follows(plan)
  BY DEF Planned
<1>2. runs[r].pc = "run" /\ runs[r].next <= Len(runs[r].todo) /\ UNCHANGED <<epoch, runnable, finished>>
  BY DEF EnqueueCommand
<1>3. RunFollows(plan, r)
  BY <1>1, <1>2 DEF Follows
<1>n. PICK tag, next, todo, ep : tag = runs[r].tag /\ next = runs[r].next /\ todo = runs[r].todo
                                 /\ ep = runs[r].epoch
  OBVIOUS
<1>a. /\ runs[r] = [pc |-> "run", tag |-> tag, next |-> next, epoch |-> ep, todo |-> todo]
      /\ tag \in RunTags /\ ep \in 0..epoch /\ todo = plan[ep][tag]
      /\ next \in 1..(Len(todo) + 1) /\ next <= Len(todo)
      /\ \A n \in 1..(next - 1) : HasTask(tag, r, n)
  BY <1>2, <1>3, <1>n DEF RunFollows
<1>b. Len(todo) \in Nat
  BY <1>1, <1>a DEF Follows, OncePerProfile
<1> DEFINE key == <<tag, r, next>>
           x == [key |-> key, tag |-> tag, request |-> r, profile |-> todo[next].profile, epoch |-> ep]
<1>4. CASE /\ tasks' = IF \E y \in tasks : y.key = key THEN tasks ELSE tasks \cup {x}
           /\ runs' = [runs EXCEPT ![r] = [runs[r] EXCEPT !.next = next + 1]]
  <2>1. /\ \A tg, q, n : HasTask(tg, q, n) => HasTask(tg, q, n)'
        /\ HasTask(tag, r, next)'
    <3>1. tasks \subseteq tasks'
      BY <1>4
    <3>2. \E y \in tasks' : y.key = key
      <4>1. x.key = key
        OBVIOUS
      <4> HIDE DEF x, key
      <4> QED BY <1>4, <4>1
    <3> QED BY <3>1, <3>2 DEF HasTask
  <2>2. TaskFollows(plan, x)
    <3>1. next \in 1..Len(plan[ep][tag])
      BY <1>a, <1>b
    <3> QED BY <1>a, <3>1 DEF TaskFollows
  <2>3. \A y \in tasks' : TaskFollows(plan, y)
    BY <1>1, <1>4, <2>2 DEF Follows
  <2>4. \A y, z \in tasks' : y.key = z.key => y = z
    <3>1. \A y, z \in tasks : y.key = z.key => y = z
      BY <1>1 DEF Follows
    <3>2. CASE \E y \in tasks : y.key = key
      BY <1>4, <3>1, <3>2
    <3>3. CASE ~ \E y \in tasks : y.key = key
      <4>1. tasks' = tasks \cup {x} /\ x.key = key
        BY <1>4, <3>3
      <4> HIDE DEF key, x
      <4> QED BY <3>1, <3>3, <4>1
    <3> QED BY <3>2, <3>3
  <2>5. ASSUME NEW g \in finished PROVE FinishFollows(plan, g)'
    <3>1. FinishFollows(plan, g)
      BY <1>1 DEF Follows
    <3> QED BY <1>2, <2>1, <3>1 DEF FinishFollows
  <2>6. ASSUME NEW q \in Requests, runs'[q].pc = "run" PROVE RunFollows(plan, q)'
    <3>1. CASE q # r
      <4>1. runs'[q] = runs[q]
        BY <1>4, <3>1 DEF ReloadTypes
      <4>2. RunFollows(plan, q)
        BY <1>1, <2>6, <4>1 DEF Follows
      <4> QED BY <1>2, <2>1, <4>1, <4>2 DEF RunFollows
    <3>2. CASE q = r
      <4>1. runs'[r] = [runs[r] EXCEPT !.next = next + 1]
        BY <1>4 DEF ReloadTypes
      <4>2. runs'[r] = [pc |-> "run", tag |-> tag, next |-> next + 1, epoch |-> ep, todo |-> todo]
        BY <1>a, <4>1
      <4>3. \A n \in 1..(next - 1) : HasTask(tag, r, n)'
        BY <1>a, <2>1
      <4>4. \A n \in 1..next : HasTask(tag, r, n)'
        BY <1>a, <2>1, <4>3
      <4>5. next + 1 \in 1..(Len(todo) + 1) /\ (next + 1) - 1 = next
        BY <1>a, <1>b
      <4>8. RunFollows(plan, r)'
        BY <1>2, <1>a, <4>2, <4>4, <4>5 DEF RunFollows
      <4> QED BY <4>8, <3>2
    <3> QED BY <3>1, <3>2
  <2>7. \A y \in tasks' : TaskFollows(plan, y)'
    BY <1>2, <2>3 DEF TaskFollows
  <2>8. Follows(plan)'
    BY <1>1, <1>2, <2>4, <2>5, <2>6, <2>7 DEF Follows
  <2> QED BY <2>8 DEF Planned
<1>5. CASE runs' = [runs EXCEPT ![r] = NotRunning] /\ UNCHANGED tasks
  <2>1. ASSUME NEW q \in Requests, runs'[q].pc = "run" PROVE RunFollows(plan, q)'
    <3>1. q # r /\ runs'[q] = runs[q]
      BY <1>5, <2>1 DEF ReloadTypes, NotRunning
    <3>2. RunFollows(plan, q)
      BY <1>1, <2>1, <3>1 DEF Follows
    <3> QED BY <1>2, <1>5, <3>1, <3>2 DEF RunFollows, HasTask
  <2>2. Follows(plan)'
    BY <1>1, <1>2, <1>5, <2>1 DEF Follows, TaskFollows, FinishFollows, HasTask
  <2> QED BY <2>2 DEF Planned
<1> QED BY <1>4, <1>5, <1>n DEF EnqueueCommand, jobRunIdempotencyKey

\* The resources do not change while the process runs, and the rows stay those
\* of what was applied.
LEMMA DeclaredKept ==
  ASSUME UNCHANGED captured, NEW cfg, NEW d, Declared(cfg, d)
  PROVE  Declared(cfg, d)'
  BY DEF Declared, RowAt, TargetOf

LEMMA RowsStay ==
  ASSUME Rows, UNCHANGED <<captured, applied, sched>>,
         attempt'.pc \in {"rest", "bind", "build", "sync"}
           => attempt.pc \in {"rest", "bind", "build", "sync"}
  PROVE  Rows'
<1>1. PICK cfg : cfg = applied
  OBVIOUS
<1>2. ASSUME cfg # NoConfig, attempt.pc \in {"rest", "bind", "build", "sync"},
             NEW k \in DOMAIN sched
      PROVE  Declared(cfg, sched[k].def)'
  <2>1. PICK d : d = sched[k].def
    OBVIOUS
  <2>2. Declared(cfg, d)
    BY <1>1, <1>2, <2>1 DEF Rows
  <2>3. Declared(cfg, d)'
    BY <2>2, DeclaredKept
  <2> QED BY <2>1, <2>3
<1> QED BY <1>1, <1>2 DEF Rows

\* What a step that leaves the attempt and the configuration alone keeps.
LEMMA AttemptKept ==
  ASSUME Attempts, AppliedEverywhere, Rows,
         UNCHANGED <<attempt, applied, clean, campaigns, routes, reads, has, captured, sched, runnable>>
  PROVE  Attempts' /\ AppliedEverywhere' /\ Rows'
<1>1. Attempts'
  BY DEF Attempts, buildReloadableDefinitions
<1>2. AppliedEverywhere'
  BY DEF AppliedEverywhere, buildReloadableDefinitions
<1>3. Rows'
  BY RowsStay
<1> QED BY <1>1, <1>2, <1>3

LEMMA ReloadStarts == ReloadInit => ReloadInv
<1> SUFFICES ASSUME ReloadInit PROVE ReloadInv
  OBVIOUS
<1> USE DEF ReloadInit, Resting
<1>1. file \in Configs
  BY ReloadAssumption
<1>2. ReloadTypes
  BY <1>1, FS_EmptySet DEF ReloadTypes
<1>3. attempt.pc = "down"
  OBVIOUS
<1>4. Attempts /\ AppliedEverywhere /\ Rows
  BY <1>3 DEF Attempts, AppliedEverywhere, Rows
<1>5. Keyed({})
  BY DEF Keyed
<1>6. Planned
  <2>1. PICK plan : plan = [e \in 0..0 |-> [tag \in RunTags |-> jobRunDefinitions({}, tag)]]
    OBVIOUS
  <2>2. \A tag \in RunTags : plan[0][tag] = jobRunDefinitions({}, tag) /\ OncePerProfile(plan[0][tag])
    BY <1>5, <2>1, RunsOnce
  <2>3. \A r \in Requests : runs[r].pc # "run"
    BY DEF NotRunning
  <2>4. \A e \in 0..0 : e = 0
    OBVIOUS
  <2>5. Follows(plan)
    BY <2>2, <2>3, <2>4 DEF Follows
  <2> QED BY <2>5 DEF Planned
<1> QED BY <1>2, <1>4, <1>6 DEF ReloadInv

LEMMA ReloadSteps == ReloadInv /\ [ReloadNext]_reloadVars => ReloadInv'
<1> SUFFICES ASSUME ReloadTypes, Attempts, AppliedEverywhere, Rows, Planned, [ReloadNext]_reloadVars
             PROVE  ReloadTypes' /\ Attempts' /\ AppliedEverywhere' /\ Rows' /\ Planned'
  BY DEF ReloadInv
<1> USE DEF Fail, Resting
<1>1. CASE Start
  <2>1. /\ attempt.pc = "down" /\ applied' = NoConfig /\ attempt'.pc = "boot" /\ attempt'.cfg = Loaded
        /\ campaigns' = CampaignDefinitions(Loaded, reads') /\ routes' = CampaignRoutes(Loaded, reads')
        /\ Validate(Loaded)
        /\ UNCHANGED <<file, frags, sched, runnable, epoch, tasks, runs, finished>>
    BY <1>1 DEF Start
  <2>2. Loaded \in Configs /\ DistinctTags(Loaded.jobs)
    BY <2>1, LoadedConfigs DEF Validate, ValidJobs
  <2>3. Attempts'
    BY <2>1, <2>2 DEF Attempts
  <2>4. AppliedEverywhere' /\ Rows'
    BY <2>1 DEF AppliedEverywhere, Rows
  <2>5. ReloadTypes'
    BY <2>1 DEF ReloadTypes
  <2> QED BY <2>1, <2>3, <2>4, <2>5, PlannedKept
<1>2. CASE Boot
  <2> DEFINE D == buildReloadableDefinitions(attempt.cfg, campaigns)
  <2>1. /\ attempt.pc = "boot" /\ sched' = SyncSchedules(sched, D) /\ runnable' = D
        /\ epoch' = epoch + 1 /\ attempt'.pc = "rest"
        /\ UNCHANGED <<file, frags, campaigns, routes, reads, has, captured, applied, tasks, runs, finished>>
    BY <1>2 DEF Boot
  <2>2. /\ attempt.cfg \in Configs /\ DistinctTags(attempt.cfg.jobs) /\ applied = NoConfig
        /\ campaigns = CampaignDefinitions(attempt.cfg, reads)
    BY <2>1 DEF Attempts
  <2>3. Keyed(D)
    BY <2>2, BuiltKeyed
  <2> HIDE DEF D
  <2>4. Attempts' /\ AppliedEverywhere'
    BY <2>1, <2>2 DEF Attempts, AppliedEverywhere
  <2>5. Rows'
    BY <2>1, <2>2, <2>3, SyncedDefs DEF Rows
  <2>6. ReloadTypes'
    BY <2>1 DEF ReloadTypes
  <2>7. Planned'
    BY <2>1, <2>3, PlannedReplaced DEF ReloadTypes
  <2> QED BY <2>4, <2>5, <2>6, <2>7
<1>3. CASE Stop
  <2>1. /\ attempt'.pc = "down" /\ runs' = [r \in Requests |-> NotRunning]
        /\ UNCHANGED <<file, frags, sched, runnable, applied, epoch, tasks, finished>>
    BY <1>3 DEF Stop
  <2>2. Attempts' /\ AppliedEverywhere' /\ Rows'
    BY <2>1 DEF Attempts, AppliedEverywhere, Rows
  <2>3. ReloadTypes'
    BY <2>1 DEF ReloadTypes
  <2> QED BY <2>1, <2>2, <2>3, PlannedStopped
<1>4. CASE BeginReload
  <2>1. /\ attempt.pc = "rest" /\ attempt'.pc = "bind" /\ attempt'.cfg = Loaded /\ Validate(Loaded)
        /\ UNCHANGED <<file, frags, captured, sched, runnable, applied, epoch, tasks, runs, finished>>
    BY <1>4 DEF BeginReload
  <2>2. Loaded \in Configs /\ DistinctTags(Loaded.jobs)
    BY <2>1, LoadedConfigs DEF Validate, ValidJobs
  <2>3. Attempts' /\ AppliedEverywhere'
    BY <2>1, <2>2 DEF Attempts, AppliedEverywhere
  <2>4. Rows'
    BY <2>1, RowsStay
  <2>5. ReloadTypes'
    BY <2>1 DEF ReloadTypes
  <2> QED BY <2>1, <2>3, <2>4, <2>5, PlannedKept
<1>5. CASE BindProfile
  <2>1. /\ attempt.pc = "bind"
        /\ UNCHANGED <<file, frags, captured, sched, runnable, applied, epoch, tasks, runs, finished>>
        /\ \/ attempt' = attempt
           \/ attempt'.pc = "rest" /\ clean' = FALSE
    BY <1>5 DEF BindProfile
  <2>2. Attempts' /\ AppliedEverywhere'
    BY <2>1 DEF Attempts, AppliedEverywhere
  <2>3. Rows'
    BY <2>1, RowsStay
  <2>4. ReloadTypes'
    BY <2>1 DEF ReloadTypes
  <2> QED BY <2>1, <2>2, <2>3, <2>4, PlannedKept
<1>6. CASE RefreshCampaigns
  <2>1. /\ attempt.pc = "bind"
        /\ UNCHANGED <<file, frags, captured, sched, runnable, applied, epoch, reads, tasks, runs,
                       finished>>
        /\ \/ attempt'.pc = "rest" /\ clean' = FALSE
           \/ /\ attempt' = [attempt EXCEPT !.pc = "build"]
              /\ campaigns' = CampaignDefinitions(attempt.cfg, reads)
              /\ routes' = CampaignRoutes(attempt.cfg, reads)
    BY <1>6 DEF RefreshCampaigns
  <2>2. Attempts' /\ AppliedEverywhere' /\ Rows'
    <3>1. CASE attempt'.pc = "rest" /\ clean' = FALSE
      BY <2>1, <3>1, RowsStay DEF Attempts, AppliedEverywhere
    <3>2. CASE /\ attempt' = [attempt EXCEPT !.pc = "build"]
               /\ campaigns' = CampaignDefinitions(attempt.cfg, reads)
               /\ routes' = CampaignRoutes(attempt.cfg, reads)
      <4>1. attempt'.pc \in {"bind", "build"} /\ attempt'.cfg = attempt.cfg
        BY <2>1, <3>2
      <4> QED BY <2>1, <3>2, <4>1, RowsStay DEF Attempts, AppliedEverywhere
    <3> QED BY <2>1, <3>1, <3>2
  <2>3. ReloadTypes'
    BY <2>1 DEF ReloadTypes
  <2> QED BY <2>1, <2>2, <2>3, PlannedKept
<1>7. CASE BuildDefinitions
  <2>1. /\ attempt.pc = "build"
        /\ UNCHANGED <<file, frags, sched, runnable, applied, epoch, reads, has, captured, campaigns, routes,
                       tasks, runs, finished>>
        /\ \/ attempt'.pc = "rest" /\ clean' = FALSE
           \/ attempt' = [pc |-> "sync", cfg |-> attempt.cfg,
                          defs |-> buildReloadableDefinitions(attempt.cfg, campaigns)]
    BY <1>7 DEF BuildDefinitions
  <2>3. Attempts' /\ AppliedEverywhere' /\ Rows'
    <3>1. CASE attempt'.pc = "rest" /\ clean' = FALSE
      BY <2>1, <3>1, RowsStay DEF Attempts, AppliedEverywhere
    <3>2. CASE attempt' = [pc |-> "sync", cfg |-> attempt.cfg,
                           defs |-> buildReloadableDefinitions(attempt.cfg, campaigns)]
      BY <2>1, <3>2, RowsStay DEF Attempts, AppliedEverywhere, buildReloadableDefinitions
    <3> QED BY <2>1, <3>1, <3>2
  <2>4. ReloadTypes'
    BY <2>1 DEF ReloadTypes
  <2> QED BY <2>1, <2>3, <2>4, PlannedKept
<1>8. CASE Sync
  <2>1. /\ attempt.pc = "sync"
        /\ UNCHANGED <<file, frags, runnable, applied, epoch, reads, has, captured, campaigns, routes,
                       tasks, runs, finished>>
        /\ \/ attempt'.pc = "rest" /\ clean' = FALSE /\ sched' = sched
           \/ sched' = SyncSchedules(sched, attempt.defs) /\ attempt' = [attempt EXCEPT !.pc = "replace"]
    BY <1>8 DEF Sync
  <2>2. /\ attempt.cfg \in Configs /\ DistinctTags(attempt.cfg.jobs)
        /\ campaigns = CampaignDefinitions(attempt.cfg, reads)
        /\ attempt.defs = buildReloadableDefinitions(attempt.cfg, campaigns)
    BY <2>1 DEF Attempts
  <2>3. Keyed(attempt.defs)
    BY <2>2, BuiltKeyed
  <2>4. Attempts' /\ AppliedEverywhere' /\ Rows'
    <3>1. CASE attempt'.pc = "rest" /\ clean' = FALSE /\ sched' = sched
      BY <2>1, <3>1, RowsStay DEF Attempts, AppliedEverywhere
    <3>2. CASE sched' = SyncSchedules(sched, attempt.defs) /\ attempt' = [attempt EXCEPT !.pc = "replace"]
      <4>1. attempt'.pc \in {"sync", "replace"} /\ attempt'.cfg = attempt.cfg /\ attempt'.defs = attempt.defs
        BY <2>1, <3>2
      <4>2. /\ {sched'[k].def : k \in DOMAIN sched'} = attempt.defs
            /\ \A k \in DOMAIN sched' : k = <<sched'[k].def.tag, sched'[k].def.index>>
        BY <2>3, <3>2, SyncedDefs
      <4>3. attempt'.pc = "replace"
        BY <3>2
      <4>4. buildReloadableDefinitions(attempt.cfg, campaigns)' = attempt.defs
        BY <2>1, <2>2, <4>1 DEF buildReloadableDefinitions
      <4> QED BY <2>1, <2>2, <4>1, <4>2, <4>3, <4>4 DEF Attempts, AppliedEverywhere, Rows
    <3> QED BY <2>1, <3>1, <3>2
  <2>5. ReloadTypes'
    BY <2>1 DEF ReloadTypes
  <2> QED BY <2>1, <2>4, <2>5, PlannedKept
<1>9. CASE ReplaceDefinitions
  <2>1. /\ attempt.pc = "replace" /\ runnable' = attempt.defs /\ epoch' = epoch + 1
        /\ applied' = attempt.cfg /\ attempt'.pc = "rest"
        /\ UNCHANGED <<file, frags, sched, reads, has, captured, campaigns, routes, tasks, runs, finished>>
    BY <1>9 DEF ReplaceDefinitions
  <2>2. /\ attempt.cfg \in Configs /\ DistinctTags(attempt.cfg.jobs)
        /\ campaigns = CampaignDefinitions(attempt.cfg, reads)
        /\ routes = CampaignRoutes(attempt.cfg, reads)
        /\ attempt.defs = buildReloadableDefinitions(attempt.cfg, campaigns)
        /\ {sched[k].def : k \in DOMAIN sched} = attempt.defs
    BY <2>1 DEF Attempts
  <2>3. Lines(attempt.cfg, reads, attempt.defs) /\ Keyed(attempt.defs)
    BY <2>2, BuiltKeyed
  <2>4. buildReloadableDefinitions(applied, CampaignDefinitions(applied, reads))' = attempt.defs
    BY <2>1, <2>2 DEF buildReloadableDefinitions
  <2>5. \A d \in attempt.defs : d.action = "application.campaign" => Range(d.payload) \subseteq routes
    BY <2>2, <2>3, BuiltRoutes
  <2>6. AppliedEverywhere'
    BY <2>1, <2>2, <2>4, <2>5 DEF AppliedEverywhere
  <2>7. \A d \in attempt.defs : Declared(attempt.cfg, d)
    BY <2>3, BuiltDeclared
  <2>8. PICK cfg : cfg = attempt.cfg
    OBVIOUS
  <2>9. Attempts' /\ Rows'
    <3>1. ASSUME NEW k \in DOMAIN sched PROVE Declared(cfg, sched[k].def)'
      <4>1. PICK d : d = sched[k].def
        OBVIOUS
      <4>2. Declared(cfg, d)
        BY <2>2, <2>7, <2>8, <3>1, <4>1
      <4>3. Declared(cfg, d)'
        BY <2>1, <4>2, DeclaredKept
      <4> QED BY <2>1, <4>1, <4>3
    <3> QED BY <2>1, <2>2, <2>8, <3>1 DEF Attempts, Rows
  <2>10. ReloadTypes'
    BY <2>1 DEF ReloadTypes
  <2>11. Planned'
    BY <2>1, <2>3, PlannedReplaced DEF ReloadTypes
  <2> QED BY <2>6, <2>9, <2>10, <2>11
<1>10. CASE EditFile
  <2>1. file' \in Configs /\ UNCHANGED <<frags, epoch, runs>>
    BY <1>10, ReloadAssumption DEF EditFile
  <2>2. ReloadTypes'
    BY <2>1 DEF ReloadTypes
  <2>3. Attempts' /\ AppliedEverywhere' /\ Rows'
    BY <1>10, AttemptKept DEF EditFile
  <2> QED BY <1>10, <2>2, <2>3, PlannedKept DEF EditFile
<1>11. ASSUME NEW job \in Editable, SaveJob(job) \/ DeleteJob(job)
       PROVE  ReloadTypes' /\ Attempts' /\ AppliedEverywhere' /\ Rows' /\ Planned'
  <2>1. /\ UNCHANGED <<file, epoch, runs, attempt, applied, clean, campaigns, routes, reads, has, captured,
                       sched, runnable, tasks, finished>>
        /\ \E S \in SUBSET frags : frags' = S \/ frags' = S \cup {job}
    BY <1>11 DEF SaveJob, DeleteJob, writeFragmentFile
  <2>2. IsFiniteSet(frags') /\ frags' \subseteq JobRecords
    <3>1. PICK S \in SUBSET frags : frags' = S \/ frags' = S \cup {job}
      BY <2>1
    <3>2. IsFiniteSet(S) /\ S \subseteq JobRecords /\ job \in JobRecords
      BY FS_Subset, ReloadAssumption DEF ReloadTypes
    <3> QED BY <3>1, <3>2, FS_AddElement
  <2>3. ReloadTypes'
    BY <2>1, <2>2 DEF ReloadTypes
  <2> QED BY <2>1, <2>3, AttemptKept, PlannedKept
<1>12. ASSUME NEW r \in Requests,
              (\E tag \in RunTags : BeginRun(r, tag)) \/ EnqueueCommand(r) \/ EndRun(r)
       PROVE  ReloadTypes' /\ Attempts' /\ AppliedEverywhere' /\ Rows' /\ Planned'
  <2>1. /\ UNCHANGED <<file, frags, epoch, attempt, applied, clean, campaigns, routes, reads, has, captured,
                       sched, runnable>>
        /\ \E v : runs' = [runs EXCEPT ![r] = v]
    BY <1>12 DEF BeginRun, EnqueueCommand, EndRun
  <2>2. ReloadTypes'
    BY <2>1 DEF ReloadTypes
  <2>3. Planned'
    BY <1>12, PlannedBegin, PlannedEnqueue, PlannedEnd
  <2> QED BY <2>1, <2>2, <2>3, AttemptKept
<1>13. CASE UNCHANGED reloadVars
  <2>1. ReloadTypes'
    BY <1>13 DEF reloadVars, ReloadTypes
  <2> QED BY <1>13, <2>1, AttemptKept, PlannedKept DEF reloadVars
<1> QED BY <1>1, <1>2, <1>3, <1>4, <1>5, <1>6, <1>7, <1>8, <1>9, <1>10, <1>11, <1>12, <1>13 DEF ReloadNext

-----------------------------------------------------------------------------
(* What follows.                                                           *)

\* The invariant of the reload holds of every reachable state: the rows, the
\* runnable jobs and the tasks are those the steps of an attempt left.
THEOREM ReloadInductive == ReloadSpec => []ReloadInv
<1> QED BY ReloadStarts, ReloadSteps, PTL DEF ReloadSpec

\* Schedules, runnable jobs and campaign routes are those of the configuration
\* that watchConfigReload applied last.
THEOREM Applied == ReloadSpec => []AppliedEverywhere
<1>1. ReloadInv => AppliedEverywhere
  BY DEF ReloadInv
<1> QED BY <1>1, ReloadInductive, PTL

LEMMA PlannedOnce == Planned => OneTaskPerCommand
<1> SUFFICES ASSUME Planned, NEW f \in finished,
                    \A x \in tasks : x.request = f.request /\ x.tag = f.tag => x.epoch = f.epoch
             PROVE  LET mine == {x \in tasks : x.request = f.request /\ x.tag = f.tag}
                    IN  /\ {x.profile : x \in mine} = f.profiles
                        /\ \A x, y \in mine : x.profile = y.profile => x = y
  BY DEF OneTaskPerCommand
<1> DEFINE mine == {x \in tasks : x.request = f.request /\ x.tag = f.tag}
<1>1. PICK plan : Follows(plan)
  BY DEF Planned
<1> DEFINE todo == plan[f.epoch][f.tag]
<1>2. FinishFollows(plan, f)
  BY <1>1 DEF Follows
<1>3. OncePerProfile(todo)
  BY <1>1, <1>2 DEF Follows, FinishFollows
<1>4. \A x \in mine : \E n \in 1..Len(todo) :
         x.key = <<f.tag, f.request, n>> /\ x.profile = todo[n].profile
  BY <1>1 DEF Follows, TaskFollows
<1>5. \A n \in 1..Len(todo) : \E x \in mine : x.profile = todo[n].profile
  <2> SUFFICES ASSUME NEW n \in 1..Len(todo) PROVE \E x \in mine : x.profile = todo[n].profile
    OBVIOUS
  <2>1. PICK x \in tasks : x.key = <<f.tag, f.request, n>>
    BY <1>2 DEF FinishFollows, HasTask
  <2>2. PICK m \in 1..Len(plan[x.epoch][x.tag]) :
           x.key = <<x.tag, x.request, m>> /\ x.profile = plan[x.epoch][x.tag][m].profile
    BY <1>1 DEF Follows, TaskFollows
  <2>3. x.tag = f.tag /\ x.request = f.request /\ m = n
    BY <2>1, <2>2
  <2>4. x \in mine /\ x.epoch = f.epoch
    BY <2>3
  <2> QED BY <2>2, <2>3, <2>4
<1>6. ASSUME NEW x \in mine, NEW y \in mine, x.profile = y.profile PROVE x = y
  <2>1. PICK n \in 1..Len(todo) : x.key = <<f.tag, f.request, n>> /\ x.profile = todo[n].profile
    BY <1>4
  <2>2. PICK m \in 1..Len(todo) : y.key = <<f.tag, f.request, m>> /\ y.profile = todo[m].profile
    BY <1>4
  <2>3. n = m
    BY <1>3, <1>6, <2>1, <2>2 DEF OncePerProfile
  <2> QED BY <1>1, <2>1, <2>2, <2>3 DEF Follows
<1> HIDE DEF todo, mine
<1>7. f.profiles = {todo[n].profile : n \in 1..Len(todo)}
  <2>1. f.profiles = {c.profile : c \in Range(todo)}
    BY <1>2 DEF FinishFollows, todo
  <2>2. Range(todo) = {todo[n] : n \in 1..Len(todo)}
    BY <1>3 DEF Range, OncePerProfile
  <2> QED BY <2>1, <2>2
<1>8. {x.profile : x \in mine} = f.profiles
  BY <1>4, <1>5, <1>7
<1> QED BY <1>6, <1>8 DEF mine

\* However an enqueue failed before, and whatever was reloaded since, a job run
\* that returned left one task for every profile: no key covers two commands.
THEOREM RunsComplete == ReloadSpec => []OneTaskPerCommand
<1>1. ReloadInv => OneTaskPerCommand
  BY PlannedOnce DEF ReloadInv
<1> QED BY <1>1, ReloadInductive, PTL

\* A row whose job keeps its targets and triggers and has a definition that is
\* scheduled again is itself among the definitions of the attempt.
LEMMA RowStays ==
  ASSUME Attempts, Rows, attempt.pc = "sync", NEW k \in DOMAIN sched, SameTargets(sched[k].def.tag),
         NEW d \in attempt.defs, [d EXCEPT !.index = 0] = [sched[k].def EXCEPT !.index = 0]
  PROVE  sched[k].def \in attempt.defs
<1> DEFINE ln == sched[k].def
           cfg == attempt.cfg
<1>1. /\ cfg \in Configs /\ DistinctTags(cfg.jobs)
      /\ attempt.defs = buildReloadableDefinitions(cfg, CampaignDefinitions(cfg, reads))
  BY DEF Attempts
<1>2. GoodConfig(cfg) /\ Lines(cfg, reads, attempt.defs)
  BY <1>1, ConfigsAreGood, BuiltKeyed
<1>3. PICK i \in DOMAIN applied.jobs : applied.jobs[i].tag = ln.tag
  BY DEF SameTargets, TagsOf
<1>4. applied # NoConfig
  BY <1>3 DEF NoConfig
<1>5. DistinctTags(applied.jobs) /\ GoodConfig(applied) /\ Declared(applied, ln)
  BY <1>4, ConfigsAreGood DEF Attempts, Rows
<1>6. ln.tag \notin SystemTags
  BY <1>3, <1>5 DEF GoodConfig
<1>7. PICK a \in DOMAIN applied.jobs : \E n \in Places(applied.jobs[a]) :
              \E t \in 1..applied.jobs[a].triggers : RowAt(applied, ln, a, n, t)
  BY <1>5, <1>6 DEF Declared
<1>8. PICK n \in Places(applied.jobs[a]), t \in 1..applied.jobs[a].triggers : RowAt(applied, ln, a, n, t)
  BY <1>7
<1>9. ln = [tag |-> applied.jobs[a].tag,
             index |-> triggerIndexForProfile(t - 1, n - 1, applied.jobs[a].triggers),
             action |-> applied.jobs[a].action, profile |-> TargetOf(applied, applied.jobs[a], n),
             payload |-> ln.payload]
  BY <1>8 DEF RowAt
<1>10. JobLine(cfg, reads, attempt.defs, d) \/ SystemLine(cfg, d)
  BY <1>2 DEF Lines
<1>11. \E tg, ix, ac, pr, pl : d = [tag |-> tg, index |-> ix, action |-> ac, profile |-> pr, payload |-> pl]
  BY <1>10 DEF JobLine, LineAt, Line, SystemLine
<1> HIDE DEF ln
<1>12. d.tag = ln.tag /\ d.action = ln.action /\ d.profile = ln.profile /\ d.payload = ln.payload
  <2>1. PICK tg, ix, ac, pr, pl : d = [tag |-> tg, index |-> ix, action |-> ac, profile |-> pr, payload |-> pl]
    BY <1>11
  <2>2. PICK rt, ri, rc, rp, rl : ln = [tag |-> rt, index |-> ri, action |-> rc, profile |-> rp, payload |-> rl]
    BY <1>9
  <2>3. [d EXCEPT !.index = 0] = [tag |-> tg, index |-> 0, action |-> ac, profile |-> pr, payload |-> pl]
    BY <2>1
  <2>4. [ln EXCEPT !.index = 0] = [tag |-> rt, index |-> 0, action |-> rc, profile |-> rp, payload |-> rl]
    BY <2>2
  <2>5. tg = rt /\ ac = rc /\ pr = rp /\ pl = rl
    <3>1. PICK v : v = [d EXCEPT !.index = 0] /\ v = [ln EXCEPT !.index = 0]
      BY DEF ln
    <3>2. /\ v = [tag |-> tg, index |-> 0, action |-> ac, profile |-> pr, payload |-> pl]
          /\ v = [tag |-> rt, index |-> 0, action |-> rc, profile |-> rp, payload |-> rl]
      BY <2>3, <2>4, <3>1
    <3>3. v.tag = tg /\ v.action = ac /\ v.profile = pr /\ v.payload = pl
      BY <3>2
    <3>4. v.tag = rt /\ v.action = rc /\ v.profile = rp /\ v.payload = rl
      BY <3>2
    <3> QED BY <3>3, <3>4
  <2> QED BY <2>1, <2>2, <2>5
<1>13. PICK b \in DOMAIN cfg.jobs : \E m \in Places(cfg.jobs[b]) :
              \E u \in 1..cfg.jobs[b].triggers : LineAt(cfg, reads, attempt.defs, d, b, m, u)
  <2>1. ~ SystemLine(cfg, d)
    BY <1>6, <1>12 DEF SystemLine
  <2> QED BY <1>10, <2>1 DEF JobLine
<1>14. PICK m \in Places(cfg.jobs[b]), u \in 1..cfg.jobs[b].triggers :
              LineAt(cfg, reads, attempt.defs, d, b, m, u)
  BY <1>13
<1> DEFINE was == applied.jobs[a]
           job == cfg.jobs[b]
<1>15. d = Line(cfg, reads, job, m, u)
  BY <1>14 DEF LineAt
<1>16. job.tag = ln.tag /\ job.action = ln.action /\ TargetOf(cfg, job, m) = ln.profile
       /\ PayloadOf(cfg, reads, job) = ln.payload
  BY <1>12, <1>15 DEF Line
<1>17. was.tag = ln.tag /\ was.action = ln.action /\ TargetOf(applied, was, n) = ln.profile
       /\ triggerIndexForProfile(t - 1, n - 1, was.triggers) = ln.index
  BY <1>9
<1>18. ByTag(applied.jobs, ln.tag) = was /\ ByTag(cfg.jobs, ln.tag) = job
  BY <1>1, <1>5, <1>16, <1>17, ByTagOnce
<1>19. was.profiles = job.profiles /\ was.triggers = job.triggers
  BY <1>18 DEF SameTargets, ln
<1>20. n \in Places(job) /\ t \in 1..job.triggers
  BY <1>8, <1>16, <1>17, <1>19 DEF Places
<1>21. TargetOf(cfg, job, n) = TargetOf(cfg, job, m)
  <2>1. CASE job.action \in ResourceActions
    BY <2>1 DEF TargetOf
  <2>2. CASE job.action \notin ResourceActions
    BY <1>16, <1>17, <1>19, <2>2 DEF TargetOf
  <2> QED BY <2>1, <2>2
<1>22. Line(cfg, reads, job, n, t) \in attempt.defs
  BY <1>14, <1>20, <1>21 DEF LineAt
<1>23. Line(cfg, reads, job, n, t)
         = [tag |-> ln.tag, index |-> ln.index, action |-> ln.action, profile |-> ln.profile,
            payload |-> ln.payload]
  BY <1>16, <1>17, <1>19, <1>21 DEF Line
<1>24. ln = [tag |-> ln.tag, index |-> ln.index, action |-> ln.action, profile |-> ln.profile,
              payload |-> ln.payload]
  BY <1>9
<1> QED BY <1>22, <1>23, <1>24 DEF ln

\* SyncSchedules keeps the due time of a row whose job keeps its targets and
\* triggers, however the configuration around it changed.
THEOREM DueTimesKept == ReloadSpec => KeepsDueTimes
<1> DEFINE A == attempt.pc = "sync" /\ attempt'.pc = "replace" =>
       \A k \in DOMAIN sched :
         SameTargets(sched[k].def.tag)
         /\ (\E d \in attempt.defs : [d EXCEPT !.index = 0] = [sched[k].def EXCEPT !.index = 0])
         => k \in DOMAIN sched' /\ sched'[k] = sched[k]
<1>1. ReloadInv /\ [ReloadNext]_reloadVars => A
  <2> SUFFICES ASSUME ReloadInv, [ReloadNext]_reloadVars, attempt.pc = "sync", attempt'.pc = "replace",
                      NEW k \in DOMAIN sched, SameTargets(sched[k].def.tag), NEW d \in attempt.defs,
                      [d EXCEPT !.index = 0] = [sched[k].def EXCEPT !.index = 0]
               PROVE  k \in DOMAIN sched' /\ sched'[k] = sched[k]
    OBVIOUS
  <2>1. sched[k].def \in attempt.defs
    BY RowStays DEF ReloadInv
  <2>2. Keyed(attempt.defs)
    BY BuiltKeyed DEF ReloadInv, Attempts
  <2>3. k = <<sched[k].def.tag, sched[k].def.index>>
    BY DEF ReloadInv, Rows
  <2>4. sched' = SyncSchedules(sched, attempt.defs)
    <3>1. CASE Sync
      BY <3>1 DEF Sync, Fail, Resting
    <3>2. ~ (Start \/ Boot \/ BeginReload \/ BindProfile \/ RefreshCampaigns \/ BuildDefinitions
             \/ ReplaceDefinitions)
      BY DEF Start, Boot, BeginReload, BindProfile, RefreshCampaigns, BuildDefinitions, ReplaceDefinitions
    <3>3. ~ Stop
      BY DEF Stop, Resting
    <3>4. ~ EditFile /\ ~ UNCHANGED reloadVars
      BY DEF EditFile, reloadVars
    <3>5. \A job \in Editable : ~ SaveJob(job) /\ ~ DeleteJob(job)
      BY DEF SaveJob, DeleteJob
    <3>6. \A r \in Requests : ~ (\E tag \in RunTags : BeginRun(r, tag)) /\ ~ EnqueueCommand(r) /\ ~ EndRun(r)
      BY DEF BeginRun, EnqueueCommand, EndRun
    <3> QED BY <3>1, <3>2, <3>3, <3>4, <3>5, <3>6 DEF ReloadNext
  <2>5. PICK ln : ln = sched[k].def
    OBVIOUS
  <2>6. ln \in attempt.defs /\ k = <<ln.tag, ln.index>>
    BY <2>1, <2>3, <2>5
  <2>7. SyncSchedules(sched, attempt.defs)[k] = sched[k]
    <3>1. <<ln.tag, ln.index>> \in DOMAIN sched /\ sched[<<ln.tag, ln.index>>].def = ln
      BY <2>5, <2>6
    <3>2. \A e \in attempt.defs : <<e.tag, e.index>> \in DOMAIN sched /\ sched[<<e.tag, e.index>>].def = e
             => SyncSchedules(sched, attempt.defs)[<<e.tag, e.index>>] = sched[<<e.tag, e.index>>]
      BY <2>2, Synced
    <3>3. SyncSchedules(sched, attempt.defs)[<<ln.tag, ln.index>>] = sched[<<ln.tag, ln.index>>]
      BY <2>6, <3>1, <3>2
    <3> QED BY <2>6, <3>3
  <2>8. k \in DOMAIN SyncSchedules(sched, attempt.defs)
    <3>1. DOMAIN SyncSchedules(sched, attempt.defs) = {<<e.tag, e.index>> : e \in attempt.defs}
      BY <2>2, Synced
    <3> QED BY <2>6, <3>1
  <2> QED BY <2>4, <2>7, <2>8
<1> QED BY <1>1, ReloadInductive, PTL DEF ReloadSpec, KeepsDueTimes

=============================================================================
