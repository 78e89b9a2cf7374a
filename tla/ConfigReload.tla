---------------------------- MODULE ConfigReload ----------------------------
(***************************************************************************)
(* The configuration of a running service (cmd/job-agent/main.go,          *)
(* profile_binding.go, workflow/job_fragment.go, job_run.go).  Every few   *)
(* seconds the files are loaded; a configuration that differs from the     *)
(* last one applied is put into effect in steps: profiles are bound,       *)
(* campaign routes replaced, definitions built, schedules synced, runnable *)
(* jobs replaced.  A step that fails ends the attempt where it is.         *)
(* Meanwhile jobs are edited through the API and run by hand.              *)
(***************************************************************************)
EXTENDS JobDefinitions

CONSTANTS
    Files,        \* what the main file may contain
    FirstFiles,   \* what it contains when the service is first started
    Editable,     \* job definitions the dashboard may save
    Requests,     \* idempotency keys of job runs
    RunTags,      \* jobs that are run by hand
    MaxChanges,   \* bound: edits of the file and of fragments
    MaxReloadFaults \* bound: calls that fail, restarts

ASSUME ReloadAssumption == Files \cup FirstFiles \subseteq Configs /\ Editable \subseteq JobRecords

VARIABLES
    file,      \* the main file
    frags,     \* frags: the saved job fragments, by tag
    changes, reloadFaults,
    live,      \* the configuration job edits are validated against
    bound,     \* profiles that are wired, or were there at the start
    has,       \* has[r]: profiles in registry r
    captured,  \* as at the start: profiles with a state reader, and the resources
    reads,     \* profiles with read access to vacancies
    routes,    \* routes the campaign handler knows
    campaigns, \* the campaign definitions of the last refresh
    sched,     \* sched: the schedule rows, by key
    runnable,  \* the definitions the job-run workflow works from
    applied,   \* lastDigest: the configuration applied last
    attempt,   \* the attempt: pc, the configuration, its definitions
    clean,     \* no attempt has failed since the last one that was applied
    epoch,     \* replacements of the runnable definitions
    tasks,     \* tasks of job runs
    runs,      \* runs[r]: the job run in progress for a request
    finished   \* runs that returned without an error

reloadVars == <<file, frags, changes, reloadFaults, live, bound, has, captured, reads, routes,
                campaigns, sched, runnable, applied, attempt, clean, epoch, tasks, runs, finished>>

\* Load: the main file with the fragments of the store.
Loaded == loadProfileStore(file, frags)

ReloadFault == reloadFaults < MaxReloadFaults /\ reloadFaults' = reloadFaults + 1
Change == changes < MaxChanges /\ changes' = changes + 1

Resting == [pc |-> "rest", cfg |-> NoConfig, defs |-> {}]
NotRunning == [pc |-> "none", tag |-> None, todo |-> <<>>, next |-> 0, epoch |-> 0]

-----------------------------------------------------------------------------
(* Binding a profile.                                                      *)

\* The registrations of bind for one profile, in the order of the code: with a
\* state file the browser session serves chats, reads and, without an API
\* session, applications; an API session serves the rest.
BindPlan(p) ==
  LET on(c, s) == IF c THEN s ELSE <<>> IN
     on(p.autoReply, <<"reply">>)
  \o on(p.state, <<"chat">>)
  \o on(p.state /\ ~p.api /\ p.mode # "dry_run", <<"app">>)
  \o on(p.state \/ p.api, <<"writer">>)
  \o on(p.api, <<"app", "observer">>)
  \o on(~p.api /\ p.state, <<"observer">>)
  \o on(p.state \/ p.api, <<"reader">>)
  \o on(p.state, <<"touch", "activity">>)
  \o on(p.api, <<"publish">>)
  \o on(p.state, <<"session">>)

\* The plan up to its n-th registration, while none is refused as a repetition.
Registered(plan, n, t) ==
  [r \in Registries |-> IF r \in Range(SubSeq(plan, 1, n)) THEN has[r] \cup {t} ELSE has[r]]

Refused(plan, t) == {n \in DOMAIN plan : t \in has[plan[n]]}

CanRead(p) == p.enabled /\ (p.state \/ p.api)

\* The first profile of the configuration that is not wired yet; 0 if there is none.
NextUnbound(cfg) ==
  LET new == {k \in DOMAIN cfg.profiles : cfg.profiles[k].tag \notin bound}
  IN IF new = {} THEN 0 ELSE CHOOSE k \in new : \A n \in new : k <= n

-----------------------------------------------------------------------------
(* Starting and stopping.                                                  *)

AllHave(cfg) ==
  [r \in Registries |-> {p.tag : p \in {q \in Range(cfg.profiles) : q.enabled /\ r \in Range(BindPlan(q))}}]

\* The definitions of a configuration, the campaigns as they were planned last.
buildReloadableDefinitions(cfg, planned) ==
  UNION {resumeTouchDefinitions(cfg, has), resumePublishDefinitions(cfg, has),
         sessionRefreshDefinitions(cfg, has), profileActivityDefinitions(cfg, has),
         conversationDiscoveryDefinitions(cfg, has), profileSystemDefinitions(cfg, has),
         conversationFollowUpSelectionDefinitions(cfg, has),
         applicationRetentionDefinitions(cfg, has), applicationStateSyncDefinitions(cfg, has),
         profileActivityMaintainDefinitions(cfg, has), applicationAnswerCoveredDefinitions(cfg, has),
         applicationValidationRefreshDefinitions(cfg, has),
         profileStateReconcileDefinitions(cfg, has, captured),
         resumeUpdateDefinitions(cfg, has, captured), planned}

\* SyncSchedules: one row per key; a row that changes is due anew, one that
\* stays keeps its time, the others go.
SyncSchedules(old, defs) ==
  [k \in {<<d.tag, d.index>> : d \in defs} |->
     LET d == CHOOSE x \in defs : <<x.tag, x.index>> = k
     IN IF k \in DOMAIN old /\ old[k].def = d THEN old[k] ELSE [def |-> d, due |-> epoch + 1]]

\* The process starts with the files as they are, wires every profile and
\* applies the configuration once; it does not come up if that fails.
Start ==
  /\ attempt.pc = "down" /\ Validate(Loaded)
  /\ LET cfg == Loaded IN
     /\ live' = cfg /\ bound' = ProfileTags(cfg)
     /\ has' = AllHave(cfg)
     /\ reads' = {p.tag : p \in {q \in Range(cfg.profiles) : CanRead(q)}}
     /\ captured' = [readers |-> reads', resources |-> cfg.resources]
     /\ ~DefinitionsError(cfg, has', captured') /\ ~CampaignPlanError(cfg, reads')
     /\ routes' = CampaignRoutes(cfg, reads') /\ campaigns' = CampaignDefinitions(cfg, reads')
     /\ attempt' = [pc |-> "boot", cfg |-> cfg, defs |-> {}]
  /\ applied' = NoConfig /\ clean' = TRUE
  /\ UNCHANGED <<file, frags, changes, reloadFaults, sched, runnable, epoch, tasks, runs, finished>>

\* The schedules and runnable jobs of the start, before anything else runs.
Boot ==
  /\ attempt.pc = "boot"
  /\ LET defs == buildReloadableDefinitions(attempt.cfg, campaigns)
     IN sched' = SyncSchedules(sched, defs) /\ runnable' = defs
  /\ epoch' = epoch + 1 /\ attempt' = Resting
  /\ UNCHANGED <<file, frags, changes, reloadFaults, live, bound, has, captured, reads, routes, campaigns,
                 applied, clean, tasks, runs, finished>>

Stop ==
  /\ attempt.pc \notin {"down", "boot"} /\ ReloadFault
  /\ attempt' = [Resting EXCEPT !.pc = "down"]
  /\ runs' = [r \in Requests |-> NotRunning]
  /\ UNCHANGED <<file, frags, changes, live, bound, has, captured, reads, routes, campaigns, sched,
                 runnable, applied, clean, epoch, tasks, finished>>

-----------------------------------------------------------------------------
(* One attempt of the watcher.                                             *)

Fail == attempt' = Resting /\ clean' = FALSE

\* The files load and differ from what was applied last: live.Set comes first.
\* Files that do not load change nothing but the status.
BeginReload ==
  /\ attempt.pc = "rest" /\ Validate(Loaded) /\ Loaded # applied
  /\ live' = Loaded
  /\ attempt' = [pc |-> "bind", cfg |-> Loaded, defs |-> {}]
  /\ UNCHANGED <<file, frags, changes, reloadFaults, bound, has, captured, reads, routes, campaigns,
                 sched, runnable, applied, clean, epoch, tasks, runs, finished>>

\* bindProfiles, one new profile at a time.  A registration the registry
\* already has is refused; any other may fail, and what was registered stays.
BindProfile ==
  /\ attempt.pc = "bind"
  /\ LET k == NextUnbound(attempt.cfg)
         p == attempt.cfg.profiles[k]
         plan == IF p.enabled THEN BindPlan(p) ELSE <<>>
         refused == Refused(plan, p.tag)
     IN /\ k # 0
        /\ reads' = IF CanRead(p) THEN reads \cup {p.tag} ELSE reads
        /\ IF refused = {}
           THEN \/ /\ has' = Registered(plan, Len(plan), p.tag)
                   /\ bound' = bound \cup {p.tag}
                   /\ UNCHANGED <<attempt, clean, reloadFaults>>
                \/ \E n \in 0..(Len(plan) - 1) :
                     /\ ReloadFault /\ has' = Registered(plan, n, p.tag)
                     /\ UNCHANGED bound /\ Fail
           ELSE /\ has' = Registered(plan, (CHOOSE n \in refused : \A m \in refused : n <= m) - 1, p.tag)
                /\ Fail /\ UNCHANGED <<bound, reloadFaults>>
  /\ UNCHANGED <<file, frags, changes, live, captured, routes, campaigns, sched, runnable, applied,
                 epoch, tasks, runs, finished>>

\* Mutation: the routes are replaced, the definitions of the campaigns stay.
RefreshRoutesOnly ==
  /\ attempt.pc = "bind" /\ NextUnbound(attempt.cfg) = 0
  /\ ~CampaignPlanError(attempt.cfg, reads)
  /\ routes' = CampaignRoutes(attempt.cfg, reads)
  /\ attempt' = [attempt EXCEPT !.pc = "build"]
  /\ UNCHANGED <<file, frags, changes, reloadFaults, live, bound, has, captured, reads, sched,
                 runnable, applied, epoch, tasks, runs, finished, campaigns, clean>>

\* refreshCampaigns: the plan, the handler's routes, the definitions.
RefreshCampaigns ==
  /\ attempt.pc = "bind" /\ NextUnbound(attempt.cfg) = 0
  /\ IF CampaignPlanError(attempt.cfg, reads)
     THEN Fail /\ UNCHANGED <<routes, campaigns>>
     ELSE /\ routes' = CampaignRoutes(attempt.cfg, reads)
          /\ campaigns' = CampaignDefinitions(attempt.cfg, reads)
          /\ attempt' = [attempt EXCEPT !.pc = "build"] /\ UNCHANGED clean
  /\ UNCHANGED <<file, frags, changes, reloadFaults, live, bound, has, captured, reads, sched,
                 runnable, applied, epoch, tasks, runs, finished>>

BuildDefinitions ==
  /\ attempt.pc = "build"
  /\ IF DefinitionsError(attempt.cfg, has, captured)
     THEN Fail
     ELSE /\ attempt' = [pc |-> "sync", cfg |-> attempt.cfg,
                         defs |-> buildReloadableDefinitions(attempt.cfg, campaigns)]
          /\ UNCHANGED clean
  /\ UNCHANGED <<file, frags, changes, reloadFaults, live, bound, has, captured, reads, routes,
                 campaigns, sched, runnable, applied, epoch, tasks, runs, finished>>

\* scheduler.Sync: one transaction.
Sync ==
  /\ attempt.pc = "sync"
  /\ \/ /\ sched' = SyncSchedules(sched, attempt.defs)
        /\ attempt' = [attempt EXCEPT !.pc = "replace"] /\ UNCHANGED <<clean, reloadFaults>>
     \/ ReloadFault /\ Fail /\ UNCHANGED sched
  /\ UNCHANGED <<file, frags, changes, live, bound, has, captured, reads, routes, campaigns,
                 runnable, applied, epoch, tasks, runs, finished>>

\* ReplaceDefinitions, and the digest of what was applied.  What it checks of a
\* definition the scheduler has checked before; a job under the tag of a
\* generated one would be refused here, logged, and the digest recorded.
ReplaceDefinitions ==
  /\ attempt.pc = "replace"
  /\ runnable' = attempt.defs /\ epoch' = epoch + 1
  /\ applied' = attempt.cfg /\ clean' = TRUE /\ attempt' = Resting
  /\ UNCHANGED <<file, frags, changes, reloadFaults, live, bound, has, captured, reads, routes,
                 campaigns, sched, tasks, runs, finished>>

-----------------------------------------------------------------------------
(* Edits.                                                                  *)

EditFile ==
  /\ Change
  /\ \E f \in Files \ {file} : file' = f
  /\ UNCHANGED <<frags, reloadFaults, live, bound, has, captured, reads, routes, campaigns, sched,
                 runnable, applied, attempt, clean, epoch, tasks, runs, finished>>

\* The file of the job is replaced as a whole.
writeFragmentFile(job) == frags' = {j \in frags : j.tag # job.tag} \cup {job}

\* Save: the job is validated against the live configuration.
SaveJob(job) ==
  /\ attempt.pc \notin {"down", "boot"} /\ Change
  /\ job \notin frags /\ ValidateJobReplace(live, job)
  /\ writeFragmentFile(job)
  /\ UNCHANGED <<file, reloadFaults, live, bound, has, captured, reads, routes, campaigns, sched,
                 runnable, applied, attempt, clean, epoch, tasks, runs, finished>>

\* Delete: only what the dashboard saved.
DeleteJob(job) ==
  /\ attempt.pc \notin {"down", "boot"} /\ Change
  /\ job \in frags /\ frags' = frags \ {job}
  /\ UNCHANGED <<file, reloadFaults, live, bound, has, captured, reads, routes, campaigns, sched,
                 runnable, applied, attempt, clean, epoch, tasks, runs, finished>>

-----------------------------------------------------------------------------
(* A job run by hand.                                                      *)

\* The definition is read once, under the lock.
BeginRun(r, tag) ==
  /\ attempt.pc \notin {"down", "boot"} /\ runs[r].pc = "none"
  /\ jobRunDefinitions(runnable, tag) # <<>>
  /\ runs' = [runs EXCEPT ![r] = [pc |-> "run", tag |-> tag, next |-> 1, epoch |-> epoch,
                                  todo |-> jobRunDefinitions(runnable, tag)]]
  /\ UNCHANGED <<file, frags, changes, reloadFaults, live, bound, has, captured, reads, routes,
                 campaigns, sched, runnable, applied, attempt, clean, epoch, tasks, finished>>

\* Mutation: the key leaves out the command's index.
jobRunKeyOfTag(tag, r, index) == <<tag, r, 1>>

jobRunIdempotencyKey(tag, r, index) == <<tag, r, index>>

\* One command: its task, unless the key has one; an enqueue may fail and
\* leave the run with a part of its tasks.
EnqueueCommand(r) ==
  /\ runs[r].pc = "run" /\ runs[r].next <= Len(runs[r].todo)
  /\ LET key == jobRunIdempotencyKey(runs[r].tag, r, runs[r].next)
         command == runs[r].todo[runs[r].next]
     IN \/ /\ tasks' = IF \E x \in tasks : x.key = key THEN tasks
                       ELSE tasks \cup {[key |-> key, tag |-> runs[r].tag, request |-> r,
                                         profile |-> command.profile, epoch |-> runs[r].epoch]}
           /\ runs' = [runs EXCEPT ![r] = [runs[r] EXCEPT !.next = runs[r].next + 1]]
           /\ UNCHANGED reloadFaults
        \/ ReloadFault /\ runs' = [runs EXCEPT ![r] = NotRunning] /\ UNCHANGED tasks
  /\ UNCHANGED <<file, frags, changes, live, bound, has, captured, reads, routes, campaigns, sched,
                 runnable, applied, attempt, clean, epoch, finished>>

EndRun(r) ==
  /\ runs[r].pc = "run" /\ runs[r].next > Len(runs[r].todo)
  /\ finished' = finished \cup {[request |-> r, tag |-> runs[r].tag, epoch |-> runs[r].epoch,
                                 profiles |-> {c.profile : c \in Range(runs[r].todo)}]}
  /\ runs' = [runs EXCEPT ![r] = NotRunning]
  /\ UNCHANGED <<file, frags, changes, reloadFaults, live, bound, has, captured, reads, routes,
                 campaigns, sched, runnable, applied, attempt, clean, epoch, tasks>>

-----------------------------------------------------------------------------
ReloadInit ==
  /\ file \in FirstFiles /\ frags = {} /\ changes = 0 /\ reloadFaults = 0
  /\ live = NoConfig /\ bound = {} /\ has = [r \in Registries |-> {}]
  /\ captured = [readers |-> {}, resources |-> <<>>] /\ reads = {} /\ routes = {} /\ campaigns = {} /\ sched = <<>> /\ runnable = {}
  /\ applied = NoConfig /\ attempt = [Resting EXCEPT !.pc = "down"] /\ clean = TRUE /\ epoch = 0
  /\ tasks = {} /\ runs = [r \in Requests |-> NotRunning] /\ finished = {}

ReloadNext ==
  \/ Start \/ Boot \/ Stop \/ BeginReload \/ BindProfile \/ RefreshCampaigns
  \/ BuildDefinitions \/ Sync \/ ReplaceDefinitions \/ EditFile
  \/ \E job \in Editable : SaveJob(job) \/ DeleteJob(job)
  \/ \E r \in Requests :
       (\E tag \in RunTags : BeginRun(r, tag)) \/ EnqueueCommand(r) \/ EndRun(r)

ReloadSpec == ReloadInit /\ [][ReloadNext]_reloadVars

-----------------------------------------------------------------------------
\* After a reload went through, the schedule rows, the runnable jobs and the
\* routes of the handler are those of one configuration, the one that was
\* applied: no definition shares its row with another, every campaign schedule
\* names routes the handler has.
AppliedEverywhere ==
  attempt.pc = "rest" /\ clean /\ applied # NoConfig =>
    /\ {sched[k].def : k \in DOMAIN sched} = runnable
    /\ runnable = buildReloadableDefinitions(applied, CampaignDefinitions(applied, reads))
    /\ \A d \in runnable : d.action = "application.campaign" => Range(d.payload) \subseteq routes

\* The job has the same targets and triggers in what was applied and in what is
\* being applied.
SameTargets(tag) ==
  /\ tag \in TagsOf(applied.jobs) \cap TagsOf(attempt.cfg.jobs)
  /\ ByTag(applied.jobs, tag).profiles = ByTag(attempt.cfg.jobs, tag).profiles
  /\ ByTag(applied.jobs, tag).triggers = ByTag(attempt.cfg.jobs, tag).triggers

\* SyncSchedules keeps the due time of a row whose definition stays: a reload
\* that disables one profile, or edits the jobs around, does not make the
\* schedules of the other profiles of a job due anew.  Said of jobs that keep
\* their lists of targets and triggers.
KeepsDueTimes ==
  [][attempt.pc = "sync" /\ attempt'.pc = "replace" =>
       \A k \in DOMAIN sched :
         SameTargets(sched[k].def.tag)
         /\ (\E d \in attempt.defs : [d EXCEPT !.index = 0] = [sched[k].def EXCEPT !.index = 0])
         => k \in DOMAIN sched' /\ sched'[k] = sched[k]]_reloadVars

\* A run that returned has one task for every profile of the job, also when an
\* attempt before it failed halfway, unless the job changed in between.
OneTaskPerCommand ==
  \A f \in finished :
    LET mine == {x \in tasks : x.request = f.request /\ x.tag = f.tag} IN
    (\A x \in mine : x.epoch = f.epoch) =>
      /\ {x.profile : x \in mine} = f.profiles
      /\ \A x, y \in mine : x.profile = y.profile => x = y

=============================================================================
