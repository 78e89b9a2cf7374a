------------------------- MODULE ApplicationCampaign -------------------------
(***************************************************************************)
(* The campaign handler (workflow/application_campaign.go).  A campaign is *)
(* the durable cursor of one run of a job over its routes; a run belongs   *)
(* to one profile.  Every tick is a task keyed by the campaign and its     *)
(* revision, so a repeated or a late tick finds another revision and only  *)
(* makes sure the current one is queued.  One worker handles the campaign  *)
(* tasks, in steps that end at each write: between two of them the other   *)
(* workers run, or the process stops.                                      *)
(***************************************************************************)
EXTENDS VacancyIntake

CONSTANTS
    Runs,             \* start tasks; the campaign of a start task has its id
    ProfileOf,        \* ProfileOf[c]: the profile a run is for
    Pages,            \* Pages[r][k]: the vacancies on page k of route r
    Closed,           \* vacancies that are listed and no longer open
    TargetSuccessful, \* applications a campaign is to send
    MaxInFlight,      \* applications it has under way at once
    MaxRevision       \* bound: a later tick comes after the campaign's lifetime

NoRun     == "no-run"
NoVacancy == "no-vacancy"

VARIABLES
    camp,     \* camp[c]: the campaign row
    link,     \* link[c]: the applications (profile and vacancy) it found
    tick,     \* tick[c][n]: the task for revision n; n = 0 is the start task
    issued,   \* issued[c]: the submit tasks whose source is the campaign
    covered,  \* campaigns whose questionnaires were handed on
    routes,   \* routes the running handler knows
    h,        \* the handler: where it is and what it holds
    discover  \* the runs of discover_only jobs, which send nothing

workVars     == <<camp, link, issued, tick, covered, routes, h>>
campaignVars == <<workVars, discover>>

RouteIDs  == DOMAIN Pages
MaxTick   == MaxRevision + 2
Stopped   == {"target_reached", "exhausted", "superseded", "expired", "failed"}

ASSUME CampaignAssumption ==
  /\ ProfileOf \in [Runs -> Profiles]
  /\ Pages \in Seq(Seq(SUBSET Vacancies)) /\ Pages # <<>>
  /\ \A r \in RouteIDs : Pages[r] # <<>>
  /\ Closed \subseteq Vacancies /\ IsFiniteSet(Vacancies)
  /\ TargetSuccessful \in Nat \ {0} /\ MaxInFlight \in Nat \ {0}
  /\ MaxRevision \in Nat \ {0}

NoCampaign == [status |-> "none", route |-> 1, cursor |-> 1, revision |-> 0]

NewCampaign == [status |-> "running", route |-> 1, cursor |-> 1, revision |-> 1]

Idle == [pc |-> "idle", run |-> NoRun, n |-> 0, row |-> NoCampaign,
         seen |-> [v \in Vacancies |-> "none"], todo |-> {}, next |-> NoVacancy,
         planned |-> 0, inflight |-> 0, slots |-> 0, page |-> FALSE]

CampaignInit ==
  /\ camp = [c \in Runs |-> NoCampaign]
  /\ link = [c \in Runs |-> {}] /\ issued = [c \in Runs |-> {}]
  /\ tick = [c \in Runs |-> [n \in 0..MaxTick |-> "none"]]
  /\ covered = {} /\ routes = RouteIDs /\ discover \in SUBSET Runs
  /\ h = Idle

-----------------------------------------------------------------------------
(* The campaign row.                                                       *)

RouteDone(row) == row.cursor = 0

\* Every stored row passes this; a running row has a route and no reason to
\* have stopped, a finished route keeps no cursor.
ValidRow(row) ==
  /\ row.status \in {"running"} \cup Stopped
  /\ row.route \in RouteIDs
  /\ row.revision > 0

advanceRevision(row) == [row EXCEPT !.revision = row.revision + 1]

AdvancePage(row, next) == advanceRevision([row EXCEPT !.cursor = next])

AdvanceRoute(row) == advanceRevision([row EXCEPT !.route = row.route + 1, !.cursor = 1])

\* Mutation: the revision stays, so that the conditional update finds no row.
WaitInPlace(row) == row

WaitForApplications(row) == advanceRevision(row)

StopRow(row, status) == advanceRevision([row EXCEPT !.status = status])

\* The update is conditional on the revision that was read.
SaveApplicationCampaign(c, row) ==
  /\ ValidRow(row)
  /\ camp[c].revision = row.revision - 1
  /\ camp' = [camp EXCEPT ![c] = row]

\* INSERT OR IGNORE: a start task that is repeated finds the row it made.
CreateApplicationCampaign(c) ==
  camp' = IF camp[c].status = "none" THEN [camp EXCEPT ![c] = NewCampaign] ELSE camp

LinkCampaignApplication(c, v) ==
  link' = [link EXCEPT ![c] = link[c] \cup {v}]

\* The outcomes of the linked applications, live or as tombstones.
ListCampaignApplicationStates(c) ==
  [v \in Vacancies |-> IF v \in link[c] THEN app[ProfileOf[c]][v] ELSE "none"]

-----------------------------------------------------------------------------
(* The counts a tick decides on, from the states it listed and the tasks   *)
(* as they are when it looks each one up.                                  *)

applicationTask(c, v) == submit[ProfileOf[c]][v]

CountOf(S) == Cardinality(S)

progress(c, seen) ==
  LET open == {v \in Vacancies : seen[v] \in Unfinished} IN
  [submitted |-> CountOf({v \in Vacancies : seen[v] = "submitted"}),
   captcha   |-> CountOf({v \in Vacancies : seen[v] = "captcha"}),
   quota     |-> CountOf({v \in Vacancies : seen[v] = "quota"}),
   planned   |-> CountOf({v \in open : applicationTask(c, v) = "none"}),
   inflight  |-> CountOf({v \in open : applicationTask(c, v) = "queued"})]

-----------------------------------------------------------------------------
(* The tasks.                                                              *)

QueueTick(c, n) ==
  tick' = IF tick[c][n] = "none" THEN [tick EXCEPT ![c][n] = "new"] ELSE tick

\* ensureTick: a campaign that no longer runs needs no tick.
ensureTick(c) ==
  IF camp[c].status = "running" THEN QueueTick(c, camp[c].revision) ELSE UNCHANGED tick

\* A run is asked for: the schedule's task, or the command of an API run,
\* whose key is made of the tag, the request and the command's index.
StartRun(c) ==
  /\ tick[c][0] = "none"
  /\ QueueTick(c, 0)
  /\ UNCHANGED <<camp, link, issued, covered, routes, h, faults, intakeVars>>

\* The worker claims a campaign task.
Claim(c, n) ==
  /\ h.pc = "idle" /\ tick[c][n] = "new"
  /\ tick' = [tick EXCEPT ![c][n] = "run"]
  /\ h' = [Idle EXCEPT !.pc = IF n = 0 THEN "supersede" ELSE "load", !.run = c, !.n = n]
  /\ UNCHANGED <<camp, link, issued, covered, routes, faults, intakeVars>>

Finish == tick' = [tick EXCEPT ![h.run][h.n] = "done"] /\ h' = Idle

\* The process stops, or a call fails and the task is tried again; after the
\* last attempt, or at a permanent failure, the task is left failed.
Interrupt ==
  /\ h.pc # "idle" /\ Fault
  /\ \E s \in {"new", "failed"} : tick' = [tick EXCEPT ![h.run][h.n] = s]
  /\ h' = Idle
  /\ UNCHANGED <<camp, link, issued, covered, routes, intakeVars>>

-----------------------------------------------------------------------------
(* resolveCampaign.                                                        *)

\* Mutation: a late tick is acknowledged without a look at the current one.
LoadCampaignTrusting ==
  /\ h.pc = "load"
  /\ h' = [h EXCEPT !.pc = IF camp[h.run].revision = h.n THEN "covered" ELSE "ack",
                    !.row = camp[h.run]]
  /\ UNCHANGED <<camp, link, issued, tick, covered, routes, faults, intakeVars>>

\* A tick: the campaign is read; another revision than the expected one
\* means the tick is late, and only the tick of the current one is ensured.
LoadCampaign ==
  /\ h.pc = "load"
  /\ h' = [h EXCEPT !.pc = IF camp[h.run].revision = h.n THEN "covered" ELSE "ensure",
                    !.row = camp[h.run]]
  /\ UNCHANGED <<camp, link, issued, tick, covered, routes, faults, intakeVars>>

\* A start: every other running campaign of the job is superseded.  Failures
\* to list or to save are ignored, so any part of them may stay running.  The
\* stored status is exhausted, told apart here by its reason.
Supersede ==
  /\ h.pc = "supersede"
  /\ \E S \in SUBSET {c \in Runs \ {h.run} : camp[c].status = "running"} :
       camp' = [c \in Runs |-> IF c \in S THEN StopRow(camp[c], "superseded") ELSE camp[c]]
  /\ h' = [h EXCEPT !.pc = "create"]
  /\ UNCHANGED <<link, issued, tick, covered, routes, faults, intakeVars>>

\* The row is created, or found as an earlier attempt left it.
CreateCampaign ==
  /\ h.pc = "create"
  /\ CreateApplicationCampaign(h.run)
  /\ h' = [h EXCEPT !.pc = IF camp'[h.run].revision = 1 THEN "covered" ELSE "ensure",
                    !.row = camp'[h.run]]
  /\ UNCHANGED <<link, issued, tick, covered, routes, faults, intakeVars>>

\* Handle: a campaign that no longer runs is left alone.  Only the start
\* task carries the profile that enqueueAnswerCovered needs.
HandleCurrent ==
  /\ h.pc = "covered"
  /\ IF h.row.status # "running"
     THEN Finish /\ UNCHANGED covered
     ELSE /\ covered' = IF h.n = 0 THEN covered \cup {h.run} ELSE covered
          /\ h' = [h EXCEPT !.pc = "decide", !.seen = ListCampaignApplicationStates(h.run)]
          /\ UNCHANGED tick
  /\ UNCHANGED <<camp, link, issued, routes, faults, intakeVars>>

-----------------------------------------------------------------------------
(* runTick.  h.page tells its second half, after a page was read.          *)

\* Why the counts end the campaign, if they do; its age is looked at in the
\* first half only.
StopReason(p, old) ==
  CASE p.submitted >= TargetSuccessful -> "target_reached"
    [] p.submitted < TargetSuccessful /\ p.captcha + p.quota > 0 -> "failed"
    [] OTHER -> IF old THEN "expired" ELSE "none"

\* campaignMaxLifetime may have passed by any tick, and has by the last one.
Old == IF h.page THEN {FALSE} ELSE IF h.row.revision > MaxRevision THEN {TRUE} ELSE BOOLEAN

Decide ==
  /\ h.pc = "decide"
  /\ \E old \in Old :
       LET p == progress(h.run, h.seen)
           reason == StopReason(p, old)
       IN IF reason # "none"
          THEN /\ SaveApplicationCampaign(h.run, StopRow(h.row, reason))
               /\ Finish
          ELSE /\ h' = [h EXCEPT !.pc = "schedule", !.planned = p.planned,
                          !.inflight = p.inflight, !.slots = MaxInFlight - p.inflight]
               /\ UNCHANGED <<camp, tick>>
  /\ UNCHANGED <<link, issued, covered, routes, faults, intakeVars>>

\* The listed applications that may be given a task; the freshest vacancy
\* goes first, which is any of them here.
Schedulable == {v \in Vacancies : h.seen[v] \in Unfinished /\ applicationTask(h.run, v) = "none"}

\* scheduleApplications, one task at a time.
ScheduleApplication ==
  /\ h.pc = "schedule" /\ h.slots > 0 /\ h.run \notin discover
  /\ \E v \in Schedulable :
       /\ EnqueueSubmit(ProfileOf[h.run], v)
       /\ issued' = [issued EXCEPT ![h.run] = issued[h.run] \cup {v}]
  /\ h' = [h EXCEPT !.slots = h.slots - 1, !.planned = h.planned - 1, !.inflight = h.inflight + 1]
  /\ UNCHANGED <<camp, link, tick, covered, routes, faults, app, gone>>

ScheduleDone ==
  h.pc = "schedule" /\ (h.slots <= 0 \/ Schedulable = {} \/ h.run \in discover)

\* The tick has to wait: candidates left, every slot taken, or the last
\* applications of a finished route still under way.
MustWait ==
  \/ h.planned > 0
  \/ h.inflight >= MaxInFlight
  \/ RouteDone(h.row) /\ h.inflight > 0

\* wait, and the move to the next route: the row is saved, its tick follows.
SaveForNextTick ==
  /\ ScheduleDone /\ ~h.page
  /\ MustWait \/ (RouteDone(h.row) /\ h.row.route < Len(Pages))
  /\ SaveApplicationCampaign(h.run,
       IF MustWait THEN WaitForApplications(h.row) ELSE AdvanceRoute(h.row))
  /\ h' = [Idle EXCEPT !.pc = "ensure", !.run = h.run, !.n = h.n]
  /\ UNCHANGED <<link, issued, tick, covered, routes, faults, intakeVars>>

StopExhausted ==
  /\ ScheduleDone /\ ~h.page /\ ~MustWait /\ RouteDone(h.row) /\ h.row.route = Len(Pages)
  /\ SaveApplicationCampaign(h.run, StopRow(h.row, "exhausted"))
  /\ Finish
  /\ UNCHANGED <<link, issued, covered, routes, faults, intakeVars>>

\* route: a route the configuration dropped is a permanent failure.
SearchPage ==
  /\ ScheduleDone /\ ~h.page /\ ~MustWait /\ ~RouteDone(h.row)
  /\ IF h.row.route \in routes
     THEN /\ h' = [Idle EXCEPT !.pc = "plan", !.run = h.run, !.n = h.n, !.row = h.row,
                            !.todo = Pages[h.row.route][h.row.cursor] \ Closed]
          /\ UNCHANGED tick
     ELSE /\ tick' = [tick EXCEPT ![h.run][h.n] = "failed"]
          /\ h' = Idle
  /\ UNCHANGED <<camp, link, issued, covered, routes, faults, intakeVars>>

\* runPage with planApplication: a removed application is passed over.  The
\* vacancy and its discovery are upserted first; no decision here reads them.
PlanVacancy ==
  /\ h.pc = "plan"
  /\ \E v \in h.todo :
       IF gone[ProfileOf[h.run]][v]
       THEN h' = [h EXCEPT !.todo = h.todo \ {v}] /\ UNCHANGED app
       ELSE CreateApplication(ProfileOf[h.run], v) /\ h' = [h EXCEPT !.pc = "link", !.next = v]
  /\ UNCHANGED <<camp, link, issued, tick, covered, routes, faults, gone, submit>>

\* The row is there; the link to it is a write of its own.
LinkPlanned ==
  /\ h.pc = "link"
  /\ LinkCampaignApplication(h.run, h.next)
  /\ h' = [h EXCEPT !.pc = "plan", !.todo = h.todo \ {h.next}, !.next = NoVacancy]
  /\ UNCHANGED <<camp, issued, tick, covered, routes, faults, intakeVars>>

\* Mutation: the cursor moves on while vacancies of the page are unplanned.
SavePageEarly ==
  /\ h.pc = "plan"
  /\ LET next == IF h.row.cursor = Len(Pages[h.row.route]) THEN 0 ELSE h.row.cursor + 1
         row  == AdvancePage(h.row, next)
     IN /\ SaveApplicationCampaign(h.run, row)
        /\ h' = [h EXCEPT !.pc = "decide", !.row = row, !.page = TRUE,
                          !.seen = ListCampaignApplicationStates(h.run)]
  /\ UNCHANGED <<link, issued, tick, covered, routes, faults, intakeVars>>

SavePage ==
  /\ h.pc = "plan" /\ h.todo = {}
  /\ LET next == IF h.row.cursor = Len(Pages[h.row.route]) THEN 0 ELSE h.row.cursor + 1
         row  == AdvancePage(h.row, next)
     IN /\ SaveApplicationCampaign(h.run, row)
        /\ h' = [h EXCEPT !.pc = "decide", !.row = row, !.page = TRUE,
                          !.seen = ListCampaignApplicationStates(h.run)]
  /\ UNCHANGED <<link, issued, tick, covered, routes, faults, intakeVars>>

\* The next tick is queued, the task is acknowledged after it: two writes,
\* and an interrupt between them repeats the first.
EnsureTick ==
  /\ h.pc = "ensure" \/ (ScheduleDone /\ h.page)
  /\ ensureTick(h.run)
  /\ h' = [Idle EXCEPT !.pc = "ack", !.run = h.run, !.n = h.n]
  /\ UNCHANGED <<camp, link, issued, covered, routes, faults, intakeVars>>

Acknowledge ==
  /\ h.pc = "ack"
  /\ Finish
  /\ UNCHANGED <<camp, link, issued, covered, routes, faults, intakeVars>>

-----------------------------------------------------------------------------
(* What happens around the handler.                                        *)

\* ReplaceRoutes: a reload of the configuration swaps the set of routes.
ReplaceRoutes ==
  /\ Fault
  /\ \E r \in RouteIDs : routes' = RouteIDs \ {r}
  /\ UNCHANGED <<camp, link, issued, tick, covered, h, intakeVars>>

\* RemoveApplication: refused while a running campaign holds the application.
RemoveApplication(p, v) ==
  /\ app[p][v] \in AppStatuses \ {"none", "new"} /\ ~gone[p][v]
  /\ ~\E c \in Runs : ProfileOf[c] = p /\ v \in link[c] /\ camp[c].status = "running"
  /\ gone' = [gone EXCEPT ![p][v] = TRUE]
  /\ UNCHANGED <<app, submit, faults, workVars>>

HandlerActions ==
  \/ \E c \in Runs : \E n \in 0..MaxTick : Claim(c, n)
  \/ LoadCampaign \/ Supersede \/ CreateCampaign \/ HandleCurrent
  \/ Decide \/ ScheduleApplication \/ SaveForNextTick \/ StopExhausted \/ SearchPage
  \/ PlanVacancy \/ LinkPlanned \/ SavePage \/ EnsureTick \/ Acknowledge

HandlerStep == HandlerActions /\ UNCHANGED discover

CampaignActions ==
  \/ HandlerActions
  \/ Interrupt \/ ReplaceRoutes
  \/ \E c \in Runs : StartRun(c)
  \/ \E p \in Profiles, v \in Vacancies \ Closed :
       \/ WorkApplication(p, v) /\ UNCHANGED workVars
       \/ FoundElsewhere(p, v) /\ UNCHANGED workVars
       \/ RemoveApplication(p, v)

CampaignNext == CampaignActions /\ UNCHANGED discover

allVars == <<intakeVars, faults, campaignVars>>

CampaignStarts == IntakeInit /\ CampaignInit

\* The campaign worker polls for as long as the process runs.
CampaignSpec == CampaignStarts /\ [][CampaignNext]_allVars /\ WF_allVars(HandlerStep)

-----------------------------------------------------------------------------
Lost(c) == \E n \in 0..MaxTick : tick[c][n] = "failed"
Live(c) == \E n \in 0..MaxTick : tick[c][n] \in {"new", "run"}

\* docs/features.md 523: whatever page a campaign has read, a candidate on it
\* is not lost: a campaign that ran through its routes has handed every open
\* vacancy of every page to a submit task, unless the application is removed.
TailIsNotLost ==
  \A c \in Runs : camp[c].status = "exhausted" =>
    \A r \in RouteIDs : \A k \in DOMAIN Pages[r] : \A v \in Pages[r][k] \ Closed :
      \/ gone[ProfileOf[c]][v]
      \/ v \in link[c] /\ applicationTask(c, v) # "none"

\* A running campaign has a task that will carry it on, whichever write the
\* process stopped after; only a task that failed for good leaves it.
RunningHasTask ==
  \A c \in Runs : camp[c].status = "running" => Live(c) \/ Lost(c)

\* A running campaign comes to its end, at the latest when its lifetime is
\* over, unless one of its tasks failed for good.
CampaignEnds == \A c \in Runs : camp[c].status = "running" ~> camp[c].status # "running" \/ Lost(c)

=============================================================================
