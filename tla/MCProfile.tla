------------------------------ MODULE MCProfile -----------------------------
\* Four instances around one profile and its browser, checked apart.
\*
\* state: two declared fields and one more; at most two proposals are stored,
\* the pages of the site hold no other field, and an operator wants one other
\* value through the API.
\* signin: two sessions, two accounts, every interruption.
\* drafts: the same sign-ins of one account, without codes, captchas and
\* failures, with a draft, its captures and its fragment.
\* check: two blocked applications, the operator's checks and the worker.
EXTENDS ProfileState, ProfileDrafts, BrowserCheck

VARIABLE part

allVars == <<part, profileVars, signInVars, draftVars, checkVars>>

MCPages == <<{"languages"}, {"about"}>>
MCRegistered == [f \in Declared |-> 1]
MCOverrides == {[f \in Declared |-> IF f = "about" THEN 2 ELSE 1]}

Init ==
  /\ part \in {"state", "signin", "drafts", "check"}
  /\ remote = [f \in Fields |-> 0] /\ ProfileInit /\ (part # "state" => via = "site")
  /\ SignInInit /\ DraftInit /\ CheckInit

\* Readings of a plan are not interleaved with the task.
StatePart ==
  /\ part = "state" /\ ProfileStep
  /\ \A f \in Undeclared : remote'[f] < 2 /\ (via = "site" => remote'[f] = 0)
  /\ plan.pc = "read" => plan'.pc = "idle" \/ (lane' = lane /\ UNCHANGED <<remote, update, apply>>)
  /\ Cardinality(plans') <= 2 /\ (plan'.desired # Registered => via = "api")
  /\ UNCHANGED <<part, signInVars, draftVars, checkVars>>

SignInPart ==
  /\ part = "signin" /\ SignInStep
  /\ UNCHANGED <<part, draftVars, profileVars, checkVars>>

QuickLogin ==
  /\ SignInRuns /\ moment' = 0 /\ page'.kind \in {"form", "in"} /\ page'.account \in {"none", "a"}
  /\ export' = "none"
  /\ \A s \in Logins : login'[s].status \notin {"cancelled", "failed"}
\* The second request starts beside the first, for the first draft and sign-in.
TwoApplies ==
  applying'["q"].pc # "idle" =>
    /\ drafted' = 1 /\ login'["s2"] = NoLogin
    /\ applying["q"].pc = "idle" => applying["p"].pc # "idle"
DraftsPart ==
  /\ part = "drafts"
  /\ \/ QuickLogin /\ UNCHANGED <<draftVars, signInFaults>>
     \/ DraftStep /\ UNCHANGED signInVars
     \/ StopSignIn /\ StopDrafts
  /\ TwoApplies
  /\ UNCHANGED <<part, profileVars, checkVars>>

\* Two of three callers work at a time; the API takes the second application.
CheckPart ==
  /\ part = "check" /\ CheckStep
  /\ Cardinality({c \in Callers : flow'[c].pc # "idle"}) <= 2 /\ row'["a2"] # "submitting"
  /\ UNCHANGED <<part, profileVars, signInVars, draftVars>>

Next == StatePart \/ SignInPart \/ DraftsPart \/ CheckPart

Spec == Init /\ [][Next]_allVars
=============================================================================
