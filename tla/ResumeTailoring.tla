-------------------------- MODULE ResumeTailoring --------------------------
(***************************************************************************)
(* The tailoring saga of one profile: worker/application_tailoring.go over *)
(* core/application_tailoring.go and its store.  A saga keeps the resume   *)
(* it found (the baseline), changes it for one application and puts the    *)
(* baseline back.  Every operation saves the saga under its revision; the  *)
(* application worker is its only writer.                                  *)
(*                                                                         *)
(* The resume lives on the platform and its owner may edit it at any time. *)
(* A resume is told apart by its text and by how much of the tailoring of  *)
(* which application is on it: the platform is written in two requests, so *)
(* a write may stop half way.                                              *)
(***************************************************************************)
EXTENDS Applications

CONSTANT Texts       \* what the owner may write

ASSUME TailoringAssumption == Texts # {}

VARIABLES
    saga,       \* application_tailorings: the last saga of each application
    resume      \* the resume on the platform

tailoringVars == <<saga, resume>>

Owned(text) == [text |-> text, by |-> NoApp, form |-> "base"]

TailoringInit ==
    \E t \in Texts :
        /\ resume = Owned(t)
        /\ saga = [a \in Apps |-> [status |-> "none", attempt |-> 0,
                                   baseline |-> Owned(t), changes |-> FALSE]]

(* ApplicationTailoringByApplication finds it.                             *)
Unfinished(a) == saga[a].status \notin {"none", "restored"}

Tailored(a) == [saga[a].baseline EXCEPT !.by = a, !.form = "tailored"]
HalfTailored(a) == [saga[a].baseline EXCEPT !.by = a, !.form = "partial"]

(* Mutation: what is on the platform is not compared.                      *)
BetweenAny(a, r) == TRUE

(* ChangesToApply accepts every mixture of the two ends of a proposal.     *)
Between(a, r) == r \in {saga[a].baseline, HalfTailored(a), Tailored(a)}

SagaBecomes(a, status) == saga' = [saga EXCEPT ![a].status = status]

(* The unique indexes: one unfinished saga in a profile, one saga for an   *)
(* attempt of an application.                                              *)
MutationLocked(a) == \E b \in Apps \ {a} : Unfinished(b)
AttemptUsed(a, attempt) == saga[a].status = "restored" /\ saga[a].attempt = attempt

(* Mutation: the lock of the profile is not looked at.                     *)
CreateUnlocked(a, attempt, seen) ==
    /\ ~AttemptUsed(a, attempt)
    /\ saga' = [saga EXCEPT ![a] = [status |-> "planned", attempt |-> attempt,
                                    baseline |-> seen, changes |-> FALSE]]
    /\ UNCHANGED resume

CreateApplicationTailoring(a, attempt, seen) ==
    /\ ~MutationLocked(a) /\ ~AttemptUsed(a, attempt)
    /\ saga' = [saga EXCEPT ![a] = [status |-> "planned", attempt |-> attempt,
                                    baseline |-> seen, changes |-> FALSE]]
    /\ UNCHANGED resume

BeginApply(a) ==
    /\ saga[a].status = "planned" /\ SagaBecomes(a, "applying")
    /\ UNCHANGED resume

(* ApplyProfileState reads, compares, writes in one request or more and    *)
(* reads back.  A request that was lost, failed or was accepted may have   *)
(* changed nothing, some of the fields or all of them; it puts what the    *)
(* saga wants over what stands there by then, so a text the owner wrote    *)
(* after the reading stays only in the fields the request does not reach.  *)
Lands(a, target) ==
    {resume, target, HalfTailored(a), [HalfTailored(a) EXCEPT !.text = resume.text]}

WriteProfileState(a, target) ==
    /\ resume' \in Lands(a, target)
    /\ UNCHANGED saga

WriteConflicts(a) ==
    /\ ~Between(a, resume) /\ SagaBecomes(a, "recovery_required")
    /\ UNCHANGED resume

RecordApplied(a) ==
    /\ saga[a].status = "applying" /\ SagaBecomes(a, "applied")
    /\ UNCHANGED resume

(* BeginSubmit verifies the tailored state it has read.                    *)
VerifyAndBeginSubmit(a, seen) ==
    /\ saga[a].status = "applied"
    /\ SagaBecomes(a, IF seen = Tailored(a) THEN "submitting"
                      ELSE "recovery_required")
    /\ UNCHANGED resume

(* Restore plans from what it has read; a resume that is neither tailored  *)
(* nor the baseline needs a person.                                        *)
BeginRestore(a, seen) ==
    /\ saga[a].status \in {"applied", "submitting"}
    /\ saga' = IF seen \in {Tailored(a), saga[a].baseline}
                 THEN [saga EXCEPT ![a] = [saga[a] EXCEPT !.status = "restoring",
                                               !.changes = seen # saga[a].baseline]]
                 ELSE [saga EXCEPT ![a].status = "recovery_required"]
    /\ UNCHANGED resume

RecordRestored(a) ==
    /\ saga[a].status = "restoring" /\ SagaBecomes(a, "restored")
    /\ UNCHANGED resume

-----------------------------------------------------------------------------
(* Tailoring never builds on the tailored resume of another application:   *)
(* what a saga will put back is a text of the resume's owner.              *)
BaselineIsOwned == \A a \in Apps : saga[a].baseline.form = "base"
=============================================================================
