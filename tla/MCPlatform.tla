------------------------------ MODULE MCPlatform -----------------------------
(* The configuration, the search runs, the reviews of questionnaires and   *)
(* the removal of applications, one at a time: they share no variable.     *)
EXTENDS ConfigReload, SearchRuns, QuestionnaireReviews, ApplicationRemoval

VARIABLE part   \* the component that runs

-----------------------------------------------------------------------------
(* Two accounts with a campaign and a resume job; a third account, a route *)
(* with a fallback and a job without what it needs come with the edits.    *)

Account(t, on, browser) ==
  [tag |-> t, enabled |-> on, state |-> browser, api |-> FALSE, resumes |-> <<"r1", "r2">>,
   mode |-> "submit", policies |-> {"harvest"}, allowSend |-> TRUE, autoReply |-> TRUE, wellFormed |-> TRUE]

Job(t, action, on, targets, ways) ==
  [tag |-> t, enabled |-> TRUE, action |-> action, profiles |-> targets, routes |-> ways,
   triggers |-> on, resource |-> "res", publish |-> FALSE]

Searches ==
  << [tag |-> "s1", profiles |-> <<"p1", "p2">>, resume |-> "$all", fallback |-> None],
     [tag |-> "s2", profiles |-> <<"p2", "p1">>, resume |-> None, fallback |-> "s1"] >>

Resources == << [tag |-> "res", profile |-> "p1"] >>

Base ==
  [profiles |-> <<Account("p1", TRUE, TRUE), Account("p2", TRUE, TRUE)>>,
   searches |-> Searches, resources |-> Resources,
   jobs |-> <<Job("camp", "application.campaign", 2, <<"p1", "p2">>, <<"s2">>),
              Job("lift", "resume.touch", 1, <<"p1", "p2">>, <<>>)>>]

Paused == [Base EXCEPT !.profiles = <<Account("p1", FALSE, TRUE), Account("p2", TRUE, TRUE)>>]

Grown ==
  [Base EXCEPT !.profiles = @ \o <<Account("p3", TRUE, TRUE)>>,
               !.resources = << [tag |-> "res", profile |-> "p2"] >>,
               !.jobs = @ \o <<Job("sync", "application.state_sync", 1, <<"p3", "p1">>, <<>>),
                               Job("want", "profile_state.reconcile", 1, <<>>, <<>>)>>]

\* The routes change, and a retention job has a profile without an observer.
Broken ==
  [Base EXCEPT !.profiles = @ \o <<Account("p3", TRUE, FALSE)>>,
               !.jobs = <<Job("camp", "application.campaign", 2, <<"p1", "p2">>, <<"s1">>),
                          Job("keep", "application.retention", 1, <<"p3">>, <<>>)>>]

MCFiles == {Base, Paused, Grown, Broken}
MCFirst == {Base}
MCEditable == {Job("lift", "resume.touch", 2, <<"p2">>, <<>>), Job("mine", "resume.touch", 1, <<"p2", "p1">>, <<>>)}

\* Two definitions of a search, of two pages and of one.
MCListing == [d \in Definitions |-> IF d = "d1" THEN <<{"v1"}, {"v2"}>> ELSE <<{"v2"}>>]

\* Two tests, one with a question of the other; in a run of their own two
\* that ask for code (q3) and for what is answered wrongly (q4).
MCAsks ==
  [t \in Tests |-> CASE t = "v1" -> <<"q1", "q2">> [] t = "v2" -> <<"q2">>
                     [] t = "v3" -> <<"q1", "q3">> [] OTHER -> <<"q1", "q4">>]
InPlay == IF part = "reviews" THEN {"v1", "v2"} ELSE {"v3", "v4"}

-----------------------------------------------------------------------------
vars == <<reloadVars, intakeVars, faults, searchVars, reviewsVars, removalVars, part>>

Init ==
  /\ part \in {"reload", "search", "reviews", "odd", "removal", "local"}
  /\ ReloadInit /\ IntakeInit /\ SearchInit /\ ReviewsInit /\ RemovalInit
  /\ part # "search" => search.definition = "d1"
  /\ configured = IF part = "odd" THEN {"q4"} ELSE {}
  /\ withdraws = (part # "local")

\* Of the reviews: a run over the bank or a stop.  Of the removal: two answers
\* of the employer or failed calls, one while the application is held or if
\* the profile cannot withdraw.
Next ==
  \/ part = "reload" /\ ReloadNext
     /\ UNCHANGED <<intakeVars, faults, searchVars, reviewsVars, removalVars, part>>
  \/ part = "search" /\ SearchNext
     /\ UNCHANGED <<reloadVars, reviewsVars, removalVars, part>>
  \/ part \in {"reviews", "odd"} /\ ReviewsNext /\ bankRuns' + stops' <= 1
     /\ \A t \in Tests \ InPlay : capture'[t] = "none"
     /\ UNCHANGED <<reloadVars, intakeVars, faults, searchVars, removalVars, part>>
  \/ part \in {"removal", "local"} /\ RemovalNext
     /\ budget'.answers + budget'.upsets <= (IF part = "local" \/ held' # {} THEN 1 ELSE 2)
     /\ UNCHANGED <<reloadVars, intakeVars, faults, searchVars, reviewsVars, part>>

Spec == Init /\ [][Next]_vars

=============================================================================
