--------------------------- MODULE JobDefinitions ---------------------------
(***************************************************************************)
(* What a configuration means (config/config.go) and what is scheduled     *)
(* from it (cmd/job-agent/main.go): which configurations load, the routes  *)
(* of the campaigns, and the schedule definitions, each with its key, the  *)
(* job's tag and an index.                                                 *)
(*                                                                         *)
(* A configuration is a record of sequences:                               *)
(*   profiles  tag, enabled, state (a browser state file), api (authorized *)
(*             API credentials), resumes, mode, policies (the system jobs  *)
(*             the profile leaves on), allowSend, autoReply, wellFormed (the rules on *)
(*             texts, models and durations hold)                           *)
(*   searches  tag, profiles, resume, fallback                             *)
(*   resources tag, profile                                                *)
(*   jobs      tag, enabled, action, profiles, routes, triggers (their     *)
(*             number), resource, publish                                  *)
(***************************************************************************)
EXTENDS Naturals, Sequences, FiniteSets, SequencesExt

None == "none"

\* The names of the capability registries that definitions depend on.
Registries == {"reply", "chat", "app", "writer", "observer", "reader", "touch", "activity",
               "publish", "session"}

\* The tags of the jobs the service generates; no job of the files is to have one.
SystemTags == {"state.chats", "state.poll", "state.applications", "state.activity", "session",
               "validation", "resume-touch", "activity-maintain", "cleanup"}

ProfileRecords ==
  [tag : STRING, enabled : BOOLEAN, state : BOOLEAN, api : BOOLEAN, resumes : Seq(STRING), mode : STRING,
   policies : SUBSET STRING, allowSend : BOOLEAN, autoReply : BOOLEAN, wellFormed : BOOLEAN]
JobRecords ==
  [tag : STRING \ SystemTags, enabled : BOOLEAN, action : STRING, profiles : Seq(STRING),
   routes : Seq(STRING), triggers : Nat, resource : STRING, publish : BOOLEAN]
Configs ==
  [profiles : Seq(ProfileRecords), jobs : Seq(JobRecords), resources : Seq([tag : STRING, profile : STRING]),
   searches : Seq([tag : STRING, profiles : Seq(STRING), resume : STRING, fallback : STRING])]

TagsOf(s)      == {s[i].tag : i \in DOMAIN s}
ByTag(s, t)    == s[CHOOSE i \in DOMAIN s : s[i].tag = t]
DistinctTags(s) == \A i, j \in DOMAIN s : s[i].tag = s[j].tag => i = j
ProfileTags(cfg) == TagsOf(cfg.profiles)

-----------------------------------------------------------------------------
(* Loading.                                                                *)

\* mergeConfigCollections: what a fragment declares is appended.
mergeConfigCollections(target, extra) ==
  [profiles |-> target.profiles \o extra.profiles, searches |-> target.searches \o extra.searches,
   resources |-> target.resources \o extra.resources, jobs |-> target.jobs \o extra.jobs]

NoConfig == [profiles |-> <<>>, searches |-> <<>>, resources |-> <<>>, jobs |-> <<>>]

\* loadProfileStore: the fragments of the store, each one saved job, in some order.
loadProfileStore(main, saved) ==
  mergeConfigCollections(main, [NoConfig EXCEPT !.jobs = SetToSeq(saved)])

\* validateProfileResumes, after normalizeResumes made one list of them.
validateProfileResumes(p) == \A i, j \in DOMAIN p.resumes : p.resumes[i] = p.resumes[j] => i = j

\* The primary resume is the first one of the normalized list.
PrimaryResume(p) == IF p.resumes = <<>> THEN None ELSE p.resumes[1]

\* The rules on one profile that its own fields decide.
ValidProfile(p) ==
  /\ p.wellFormed /\ validateProfileResumes(p)
  /\ p.mode \in {"dry_run", "approval", "submit"}
  /\ p.autoReply => p.allowSend

\* The fallback chain of a search: the search, then its fallback, and so on.
FallbackChain(cfg, tag) ==
  LET chain[n \in 0..Len(cfg.searches)] ==
        IF n = 0 THEN <<tag>>
        ELSE LET c == chain[n - 1]
                 t == c[Len(c)]
                 next == IF t \in TagsOf(cfg.searches) THEN ByTag(cfg.searches, t).fallback ELSE None
             IN IF next = None THEN c ELSE Append(c, next)
  IN chain[Len(cfg.searches)]

\* ResolveSearchChain rejects cycles and unknown references.
ResolveSearchChain(cfg, tag) ==
  LET c == FallbackChain(cfg, tag)
  IN Range(c) \subseteq TagsOf(cfg.searches) /\ IsInjective(c)

ValidSearches(cfg) ==
  /\ DistinctTags(cfg.searches)
  /\ \A i \in DOMAIN cfg.searches :
       LET s == cfg.searches[i] IN
       s.profiles # <<>> /\ Range(s.profiles) \subseteq ProfileTags(cfg) /\ ResolveSearchChain(cfg, s.tag)

BuildProfileStateResources(cfg) ==
  /\ DistinctTags(cfg.resources)
  /\ \A i \in DOMAIN cfg.resources : cfg.resources[i].profile \in ProfileTags(cfg)

\* The targets of a job exist, and there is at least one.
jobActionTargets(cfg, job) ==
  job.profiles # <<>> /\ Range(job.profiles) \subseteq ProfileTags(cfg)

validateApplicationCampaignAction(cfg, job) ==
  /\ jobActionTargets(cfg, job) /\ IsInjective(job.profiles)
  /\ job.routes # <<>> /\ IsInjective(job.routes)
  /\ \A r \in Range(job.routes) :
       /\ r \in TagsOf(cfg.searches)
       /\ Range(job.profiles) \subseteq Range(ByTag(cfg.searches, r).profiles)

\* What each action asks of the profiles and resources it names.
ValidAction(cfg, job) ==
  LET target(t) == ByTag(cfg.profiles, t) IN
  CASE job.action = "application.campaign" -> validateApplicationCampaignAction(cfg, job)
    [] job.action = "profile.session_refresh" ->
         jobActionTargets(cfg, job) /\ \A t \in Range(job.profiles) : target(t).state
    [] job.action \in {"resume.touch", "resume.publish", "profile.activity.observe"} ->
         jobActionTargets(cfg, job) /\ \A t \in Range(job.profiles) : PrimaryResume(target(t)) # None
    [] job.action = "conversation.follow_up.select" ->
         jobActionTargets(cfg, job) /\ \A t \in Range(job.profiles) : target(t).allowSend
    [] job.action = "resume.update" ->
         /\ jobActionTargets(cfg, job) /\ Len(job.profiles) = 1
         /\ job.resource \in TagsOf(cfg.resources)
         /\ ByTag(cfg.resources, job.resource).profile = job.profiles[1]
         /\ job.publish => PrimaryResume(target(job.profiles[1])) # None
    [] job.action = "profile_state.reconcile" -> job.profiles = <<>> /\ job.resource \in TagsOf(cfg.resources)
    [] OTHER -> jobActionTargets(cfg, job)

\* A disabled job is looked at no further than its tag.
ValidJobs(cfg) ==
  /\ DistinctTags(cfg.jobs)
  /\ \A i \in DOMAIN cfg.jobs :
       cfg.jobs[i].enabled => cfg.jobs[i].triggers > 0 /\ ValidAction(cfg, cfg.jobs[i])

Validate(cfg) ==
  /\ DistinctTags(cfg.profiles) /\ \A i \in DOMAIN cfg.profiles : ValidProfile(cfg.profiles[i])
  /\ BuildProfileStateResources(cfg) /\ ValidSearches(cfg) /\ ValidJobs(cfg)

\* ValidateJobReplace: the job in the place of the one with its tag, against
\* the configuration that is loaded.
ValidateJobReplace(cfg, job) ==
  Validate([cfg EXCEPT !.jobs = Append(SelectSeq(cfg.jobs, LAMBDA j : j.tag # job.tag), job)])

-----------------------------------------------------------------------------
(* Definitions.                                                            *)

triggerIndexForProfile(trigger, profile, triggers) == profile * triggers + trigger

\* The definitions of one job for one of its profiles; positions count from 0.
ForProfile(job, position, profile, payload) ==
  {[tag |-> job.tag, index |-> triggerIndexForProfile(t - 1, position - 1, job.triggers),
    action |-> job.action, profile |-> profile, payload |-> payload] : t \in 1..job.triggers}

EnabledJobs(cfg, action) ==
  {cfg.jobs[i] : i \in {k \in DOMAIN cfg.jobs : cfg.jobs[k].enabled /\ cfg.jobs[k].action = action}}

Runs(cfg, has, need, t) ==
  ByTag(cfg.profiles, t).enabled /\ \A r \in need : t \in has[r]

\* Mutation: the position counts the profiles that can run.
JobsOnCompact(cfg, has, action, need) ==
  UNION {LET able == SelectSeq(job.profiles, LAMBDA t : Runs(cfg, has, need, t))
         IN UNION {ForProfile(job, k, able[k], <<>>) : k \in DOMAIN able} : job \in EnabledJobs(cfg, action)}

\* A job of the action for each enabled target that has what the action needs;
\* the others are passed over and keep their position.
JobsOn(cfg, has, action, need) ==
  UNION {UNION {ForProfile(job, k, job.profiles[k], <<>>) :
                  k \in {n \in DOMAIN job.profiles : Runs(cfg, has, need, job.profiles[n])}} :
           job \in EnabledJobs(cfg, action)}

resumeTouchDefinitions(cfg, has)       == JobsOn(cfg, has, "resume.touch", {"touch"})
resumePublishDefinitions(cfg, has)     == JobsOn(cfg, has, "resume.publish", {"publish"})
sessionRefreshDefinitions(cfg, has)    == JobsOn(cfg, has, "profile.session_refresh", {"session"})
profileActivityDefinitions(cfg, has)   == JobsOn(cfg, has, "profile.activity.observe", {"activity"})
conversationDiscoveryDefinitions(cfg, has) == JobsOn(cfg, has, "conversation.sync", {"chat"})
conversationFollowUpSelectionDefinitions(cfg, has) ==
  JobsOn(cfg, has, "conversation.follow_up.select", {"chat"})
applicationRetentionDefinitions(cfg, has) == JobsOn(cfg, has, "application.retention", {"observer"})
applicationStateSyncDefinitions(cfg, has) == JobsOn(cfg, has, "application.state_sync", {"observer"})
profileActivityMaintainDefinitions(cfg, has) == JobsOn(cfg, has, "profile.activity.maintain", {"reader"})
applicationValidationRefreshDefinitions(cfg, has) ==
  JobsOn(cfg, has, "application.validation.refresh", {"reader"})
applicationAnswerCoveredDefinitions(cfg, has) == JobsOn(cfg, has, "application.answer_covered", {})

\* A job on a resource has no position: it runs for the resource's profile, as
\* the resources were captured at the start of the process.
ResourceProfile(resources, job) == ByTag(resources, job.resource).profile
OnResource(resources, jobs) ==
  UNION {ForProfile(job, 1, ResourceProfile(resources, job), <<job.resource>>) : job \in jobs}

profileStateReconcileDefinitions(cfg, has, captured) ==
  OnResource(captured.resources,
             {job \in EnabledJobs(cfg, "profile_state.reconcile") :
                ResourceProfile(captured.resources, job) \in captured.readers})

resumeUpdateDefinitions(cfg, has, captured) ==
  OnResource(captured.resources,
             {job \in EnabledJobs(cfg, "resume.update") :
                LET target == ResourceProfile(captured.resources, job) IN
                /\ target \in captured.readers \cap has["writer"]
                /\ job.publish => target \in has["publish"]})

\* The system jobs a profile gets from its policies.
SystemJobs(p, has) ==
  {s \in {"state.chats", "state.poll", "state.applications", "state.activity"} :
      "harvest" \in p.policies /\ (s = "state.activity" => PrimaryResume(p) # None)}
  \cup {s \in {"session"} : p.tag \in has["session"]}
  \cup {s \in {"validation"} : p.tag \in has["reader"]}
  \cup {s \in {"resume-touch"} : "touch" \in p.policies /\ PrimaryResume(p) # None /\ p.tag \in has["touch"]}
  \cup {s \in {"activity-maintain"} : "activity" \in p.policies /\ p.tag \in has["reader"]}
  \cup {s \in {"cleanup"} : "cleanup" \in p.policies /\ p.tag \in has["observer"]}

\* Their position is that of the profile in the configuration.
profileSystemDefinitions(cfg, has) ==
  UNION {LET p == cfg.profiles[k] IN
         {[tag |-> s, index |-> triggerIndexForProfile(0, k - 1, 1), action |-> s,
           profile |-> p.tag, payload |-> <<>>] : s \in SystemJobs(p, has)} :
           k \in {n \in DOMAIN cfg.profiles : cfg.profiles[n].enabled}}

\* Retention asks for its observer, a job on a resource for the resource.
DefinitionsError(cfg, has, captured) ==
  \/ \E job \in EnabledJobs(cfg, "application.retention") : \E t \in Range(job.profiles) :
       ByTag(cfg.profiles, t).enabled /\ t \notin has["observer"]
  \/ \E action \in {"profile_state.reconcile", "resume.update"} :
       \E job \in EnabledJobs(cfg, action) : job.resource \notin TagsOf(captured.resources)

-----------------------------------------------------------------------------
(* Campaigns.                                                              *)

hasResumePlaceholder(s) == s.resume \in {"$profile", "$all"}

\* resumeQueryVariants: the profile's own resume, or every one it lists.
resumeQueryVariants(s, p) ==
  IF s.resume = "$profile" THEN SubSeq(p.resumes, 1, 1) ELSE p.resumes

\* The searches a route stands for, with the profile that runs each: one for
\* every resume of every profile that can read, or the search as it is for the
\* first such profile.
RouteVariants(cfg, s, reads) ==
  LET able == SelectSeq(s.profiles, LAMBDA t : t \in reads)
      of(t) == LET rs == resumeQueryVariants(s, ByTag(cfg.profiles, t))
               IN [i \in DOMAIN rs |-> [profile |-> t, resume |-> rs[i]]]
  IN IF hasResumePlaceholder(s)
     THEN FlattenSeq([i \in DOMAIN able |-> of(able[i])])
     ELSE IF able = <<>> THEN <<>> ELSE <<[profile |-> able[1], resume |-> s.resume]>>

\* The routes of a job in order, the fallbacks of each behind it.
JobRoutes(cfg, job, reads) ==
  LET tags == FlattenSeq([i \in DOMAIN job.routes |-> FallbackChain(cfg, job.routes[i])])
      one(i) == LET v == RouteVariants(cfg, ByTag(cfg.searches, tags[i]), reads)
                IN [k \in DOMAIN v |-> <<tags[i], k>>]
      first == {i \in DOMAIN tags : \A j \in 1..(i - 1) : tags[j] # tags[i]}
  IN FlattenSeq([i \in DOMAIN tags |-> IF i \in first THEN one(i) ELSE <<>>])

\* Every profile can read, and every route has a search to run.
CampaignRunnable(cfg, job, reads) ==
  /\ Range(job.profiles) \subseteq reads
  /\ \A r \in Range(job.routes) : \A t \in Range(FallbackChain(cfg, r)) :
       RouteVariants(cfg, ByTag(cfg.searches, t), reads) # <<>>

\* A placeholder that no resume of the profile can fill rejects the plan.
CampaignPlanError(cfg, reads) ==
  \E job \in EnabledJobs(cfg, "application.campaign") : \E r \in Range(job.routes) :
    \E t \in Range(FallbackChain(cfg, r)) :
      LET s == ByTag(cfg.searches, t) IN
      hasResumePlaceholder(s)
      /\ \E p \in Range(s.profiles) \cap reads : ByTag(cfg.profiles, p).resumes = <<>>

CampaignRoutes(cfg, reads) ==
  UNION {Range(JobRoutes(cfg, job, reads)) : job \in EnabledJobs(cfg, "application.campaign")}

\* One schedule per profile of a campaign that can run, with its routes.
CampaignDefinitions(cfg, reads) ==
  UNION {UNION {ForProfile(job, k, job.profiles[k], JobRoutes(cfg, job, reads)) :
                  k \in DOMAIN job.profiles} :
           job \in {j \in EnabledJobs(cfg, "application.campaign") : CampaignRunnable(cfg, j, reads)}}

-----------------------------------------------------------------------------
\* jobRunDefinitions: the runnable commands behind a tag, one for each profile
\* and payload, whatever the number of triggers; in the order of their index.
jobRunDefinitions(defs, tag) ==
  LET firsts == {d \in defs : d.tag = tag /\ \A e \in defs :
                   e.tag = tag /\ e.profile = d.profile /\ e.payload = d.payload => e.index >= d.index}
  IN [i \in 1..Cardinality(firsts) |->
        LET d == CHOOSE x \in firsts : Cardinality({y \in firsts : y.index < x.index}) = i - 1
        IN [action |-> d.action, profile |-> d.profile, payload |-> d.payload]]

=============================================================================
