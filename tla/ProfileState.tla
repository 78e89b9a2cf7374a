---------------------------- MODULE ProfileState ----------------------------
(***************************************************************************)
(* The declared state of a profile: plans made from what was read, the     *)
(* profile_state.apply task of a plan, scheduled resume updates and the    *)
(* first fill of an empty profile (core/profile_state.go, workflow/        *)
(* profile_state*.go, worker/profile_state.go, worker/resume_update.go,    *)
(* adapters/hh/*_profile_state.go).  The owner edits the profile on the    *)
(* platform at any time.  It is read and written in several requests: the  *)
(* pages of the site one by one, or a document with everything in it.      *)
(***************************************************************************)
EXTENDS Naturals, Sequences, SequencesExt

CONSTANTS
    Declared,      \* the fields the resource declares
    Undeclared,    \* other fields of the same document
    Pages,         \* the declared fields in the order the site is written
    Values, Empty,
    Registered,    \* the values the resource declares
    Overrides,     \* values an operator wants once
    Updates,       \* runs of the job that updates the resume
    MaxEdits, MaxFaults    \* bounds: edits of the owner, failed calls and stops

Fields == Declared \cup Undeclared

ASSUME ProfileAssumption ==
  /\ Pages \in Seq(SUBSET Declared) /\ Empty \in Values
  /\ Declared \subseteq UNION {Pages[i] : i \in DOMAIN Pages}
  /\ {Registered} \cup Overrides \subseteq [Declared -> Values]

VARIABLES
    via,        \* "site" or "api": how this profile is reached
    remote,     \* the profile on the platform
    plan,       \* a plan that is being made
    plans,      \* the stored proposals
    apply,      \* the apply task of each proposal
    update,     \* the resume.update tasks
    revision,   \* who recorded a proposal as applied
    lane,       \* the task in the mutation lane of the profile
    edits, faults

profileVars == <<via, remote, plan, plans, apply, update, revision, lane, edits, faults>>

-----------------------------------------------------------------------------
(* Proposals.  The key of a proposal is made of the desired and the        *)
(* observed values, so that a proposal is these two.                       *)

Proposal(desired, seen) == [desired |-> desired, before |-> seen]
Changes(p) == {f \in Declared : p.before[f] # p.desired[f]}
Proposals  == {p \in [desired : {Registered} \cup Overrides, before : [Declared -> Values]] : Changes(p) # {}}

\* ChangesToApply: a third value is a conflict, otherwise what is left to do.
Conflict(p, seen) == \E f \in Declared : seen[f] \notin {p.before[f], p.desired[f]}
ToApply(p, seen)  == {f \in Declared : seen[f] # p.desired[f]}

Unread == [f \in Fields |-> Empty]
NoPlan == [pc |-> "idle", by |-> "none", desired |-> Registered, n |-> 1, seen |-> Unread]
NoTask == [pc |-> "idle", key |-> "none", p |-> Proposal(Registered, Registered), n |-> 1,
           seen |-> Unread, todo |-> {}, met |-> {}, touched |-> {}]

ProfileInit ==
  /\ via \in {"site", "api"} /\ remote \in [Fields -> Values]
  /\ plan = NoPlan /\ plans = {} /\ lane = NoTask
  /\ apply = [p \in Proposals |-> "none"] /\ update = [u \in Updates |-> "none"]
  /\ revision = [p \in Proposals |-> "none"]
  /\ edits = 0 /\ faults = 0

Fault == faults < MaxFaults /\ faults' = faults + 1

\* The requests of one reading: the site is read in another order than it is
\* written.
Reads  == IF via = "api" THEN <<Fields>> ELSE Reverse(Pages)
Writes == IF via = "api" THEN <<Fields>> ELSE Pages
ReadPart(r) == [r EXCEPT !.n = @ + 1, !.seen = [f \in Fields |-> IF f \in Reads[r.n] THEN remote[f] ELSE @[f]]]
HasRead(r)  == r.n > Len(Reads)
Seen(r)     == [f \in Declared |-> r.seen[f]]

\* The owner writes a field.
OwnerEdits(f, v) ==
  /\ edits < MaxEdits /\ v # remote[f] /\ edits' = edits + 1
  /\ remote' = [remote EXCEPT ![f] = v]
  /\ lane' = IF lane.pc = "idle" THEN lane
             ELSE [lane EXCEPT !.touched = @ \cup {f},
                               !.met = IF f \in Declared /\ lane.p.desired[f] = v THEN @ \cup {f} ELSE @]
  /\ UNCHANGED <<via, plan, plans, apply, update, revision, faults>>

-----------------------------------------------------------------------------
(* Plans: of the operator, of a reconciliation, and of a first fill before *)
(* the workers of a process start.                                         *)

StartPlan(by, desired) ==
  /\ plan.pc = "idle" /\ plan' = [NoPlan EXCEPT !.pc = "read", !.by = by, !.desired = desired]
  /\ UNCHANGED <<via, remote, plans, apply, update, revision, lane, edits, faults>>

OperatorPlans(desired) == StartPlan("operator", desired)
StartReconcile         == StartPlan("reconcile", Registered)
StartFirstFill         == lane.pc = "idle" /\ StartPlan("bootstrap", Registered)

ReadForPlan ==
  /\ plan.pc = "read" /\ ~HasRead(plan)
  /\ plan' \in {NoPlan, ReadPart(plan)}      \* a failed request ends the plan
  /\ UNCHANGED <<via, remote, plans, apply, update, revision, lane, edits, faults>>

\* Enqueue finds the task of a proposal whatever became of it.
EnqueueApply(p) == apply' = IF apply[p] = "none" THEN [apply EXCEPT ![p] = "new"] ELSE apply

Planned == Proposal(plan.desired, Seen(plan))

\* RunWhenEmpty leaves a profile alone that holds something already.
AlreadyFilled == plan.by = "bootstrap" /\ \E f \in Declared : plan.seen[f] # Empty

\* planResource stores the proposal, or finds it; a reconciliation and a first
\* fill put its task into the queue.
MakePlan ==
  /\ plan.pc = "read" /\ HasRead(plan) /\ plan' = NoPlan
  /\ IF Changes(Planned) = {} \/ AlreadyFilled
     THEN UNCHANGED <<plans, apply>>
     ELSE /\ plans' = plans \cup {Planned}
          /\ IF plan.by = "operator" THEN apply' = apply ELSE EnqueueApply(Planned)
  /\ UNCHANGED <<via, remote, update, revision, lane, edits, faults>>

\* The operator applies a stored plan, however old.
ApplyPlan(p) ==
  /\ p \in plans /\ apply[p] = "none" /\ EnqueueApply(p)
  /\ UNCHANGED <<via, remote, plan, plans, update, revision, lane, edits, faults>>

\* Retry and Dismiss of a failed task.
ControlFailed(p) ==
  /\ apply[p] = "failed" /\ \E to \in {"new", "dismissed"} : apply' = [apply EXCEPT ![p] = to]
  /\ UNCHANGED <<via, remote, plan, plans, update, revision, lane, edits, faults>>

EnqueueUpdate(u) ==
  /\ update[u] = "none" /\ update' = [update EXCEPT ![u] = "new"]
  /\ UNCHANGED <<via, remote, plan, plans, apply, revision, lane, edits, faults>>

-----------------------------------------------------------------------------
(* The lane: the handler of an apply task, and of an update, which plans   *)
(* first.                                                                  *)

IsUpdate == lane.key \in Updates
Go(pc) == [lane EXCEPT !.pc = pc, !.n = 1]

Taken(key, p, pc) ==
  [NoTask EXCEPT !.pc = pc, !.key = key, !.p = p, !.met = {f \in Declared : remote[f] = p.desired[f]}]

ClaimApply(p) ==
  /\ lane.pc = "idle" /\ apply[p] = "new"
  /\ apply' = [apply EXCEPT ![p] = "running"] /\ lane' = Taken("apply", p, "read")
  /\ UNCHANGED <<via, remote, plan, plans, update, revision, edits, faults>>

ClaimUpdate(u) ==
  /\ lane.pc = "idle" /\ update[u] = "new"
  /\ update' = [update EXCEPT ![u] = "running"]
  /\ lane' = Taken(u, Proposal(Registered, Registered), "plan")
  /\ UNCHANGED <<via, remote, plan, plans, apply, revision, edits, faults>>

\* The task ends: "done", "failed", or "new" to be tried again.
End(outcome) ==
  /\ lane' = NoTask
  /\ IF IsUpdate THEN update' = [update EXCEPT ![lane.key] = outcome] /\ apply' = apply
     ELSE apply' = [apply EXCEPT ![lane.p] = outcome] /\ update' = update
Stay(l) == lane' = l /\ UNCHANGED <<apply, update>>

ReadInLane ==
  /\ lane.pc \in {"plan", "read", "check", "confirm"} /\ ~HasRead(lane) /\ Stay(ReadPart(lane))
  /\ UNCHANGED <<via, remote, plan, plans, revision, edits, faults>>

\* An update plans; with nothing to change it goes on to the publication.
PlanUpdate ==
  /\ lane.pc = "plan" /\ HasRead(lane)
  /\ LET p == Proposal(Registered, Seen(lane)) IN
       IF Changes(p) = {} THEN plans' = plans /\ Stay(Go("publish"))
       ELSE plans' = plans \cup {p} /\ Stay([Go("read") EXCEPT !.p = p])
  /\ UNCHANGED <<via, remote, plan, revision, edits, faults>>

\* The writer compares what it read with the plan.
Compare ==
  /\ lane.pc = "read" /\ HasRead(lane)
  /\ LET seen == Seen(lane) IN
     IF Conflict(lane.p, seen) THEN End("failed")
     ELSE IF ToApply(lane.p, seen) = {} THEN Stay(Go("record"))
     ELSE Stay([Go("write") EXCEPT !.todo = ToApply(lane.p, seen)])
  /\ UNCHANGED <<via, remote, plan, plans, revision, edits, faults>>

\* A page is written with the fields that are pending, the document with all it
\* held when it was read.
Body == Writes[lane.n] \cap (IF via = "api" THEN Fields ELSE lane.todo)
Written ==
  [f \in Fields |-> IF f \notin Body THEN remote[f]
                    ELSE IF f \in Declared THEN lane.p.desired[f] ELSE lane.seen[f]]

Write ==
  /\ lane.pc = "write" /\ lane.n <= Len(Writes)
  /\ remote' = Written
  /\ lane' = [lane EXCEPT !.n = @ + 1, !.met = @ \cup {f \in Declared : Written[f] = lane.p.desired[f]}]
  /\ UNCHANGED <<via, plan, plans, apply, update, revision, edits, faults>>

\* The answer to a write is lost; whether it arrived is read back.
WriteLost ==
  /\ lane.pc = "write" /\ lane.n <= Len(Writes) /\ Body # {} /\ Fault
  /\ remote' \in {remote, Written}
  /\ lane' = [Go("check") EXCEPT !.met = @ \cup {f \in Declared : remote'[f] = lane.p.desired[f]}]
  /\ UNCHANGED <<via, plan, plans, apply, update, revision, edits>>

WroteAll ==
  /\ lane.pc = "write" /\ lane.n > Len(Writes) /\ Stay(Go("confirm"))
  /\ UNCHANGED <<via, remote, plan, plans, revision, edits, faults>>

\* Mutation: what was accepted needs no reading back.
TrustAnswer ==
  /\ lane.pc \in {"check", "confirm"} /\ HasRead(lane)
  /\ Stay(Go("record"))
  /\ UNCHANGED <<via, remote, plan, plans, revision, edits, faults>>

\* What is read after the writes: everything as desired, or an ambiguous result
\* that is tried again, or a conflict; a conflict after a lost answer leaves the
\* result ambiguous.
ReadBack ==
  /\ lane.pc \in {"check", "confirm"} /\ HasRead(lane)
  /\ LET seen == Seen(lane) IN
     IF ToApply(lane.p, seen) = {} THEN Stay(Go("record"))
     ELSE IF Conflict(lane.p, seen) /\ lane.pc = "confirm" THEN End("failed")
     ELSE \E outcome \in {"new", "failed"} : End(outcome)
  /\ UNCHANGED <<via, remote, plan, plans, revision, edits, faults>>

\* CreateProfileStateRevision keeps the first record of a proposal; one of
\* another source is a conflict.
Source == IF IsUpdate THEN "update" ELSE "apply"
Record ==
  /\ lane.pc = "record"
  /\ IF revision[lane.p] \in {"none", Source}
     THEN /\ revision' = [revision EXCEPT ![lane.p] = Source]
          /\ IF IsUpdate THEN Stay(Go("publish")) ELSE End("done")
     ELSE revision' = revision /\ End("failed")
  /\ UNCHANGED <<via, remote, plan, plans, edits, faults>>

\* The resume is published, or the platform asks to wait.
Publish ==
  /\ lane.pc = "publish" /\ \E outcome \in {"done", "new"} : End(outcome)
  /\ UNCHANGED <<via, remote, plan, plans, revision, edits, faults>>

\* A request fails, the platform refuses, or the process stops.
BreakTask ==
  /\ lane.pc # "idle" /\ Fault /\ \E outcome \in {"new", "failed"} : End(outcome)
  /\ UNCHANGED <<via, remote, plan, plans, revision, edits>>

ProfileStep ==
  \/ \E f \in Fields, v \in Values : OwnerEdits(f, v)
  \/ \E desired \in {Registered} \cup Overrides : OperatorPlans(desired)
  \/ StartReconcile \/ StartFirstFill \/ ReadForPlan \/ MakePlan
  \/ \E p \in Proposals : ApplyPlan(p) \/ ControlFailed(p) \/ ClaimApply(p)
  \/ \E u \in Updates : EnqueueUpdate(u) \/ ClaimUpdate(u)
  \/ ReadInLane \/ PlanUpdate \/ Compare \/ Write \/ WriteLost \/ WroteAll
  \/ ReadBack \/ Record \/ Publish \/ BreakTask

ProfileSpec == ProfileInit /\ [][ProfileStep]_profileVars

-----------------------------------------------------------------------------

\* A change is recorded as applied, and a resume published after one, only if
\* every declared field had its value at some moment of this attempt: a lost
\* answer or half a write does not count.
RecordedWasApplied ==
  [][(lane.pc = "record" /\ revision' # revision) \/ (lane.pc = "publish" /\ lane'.pc = "idle" /\ faults' = faults)
       => lane.met = Declared]_profileVars
=============================================================================
