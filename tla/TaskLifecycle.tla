--------------------------- MODULE TaskLifecycle ---------------------------
(***************************************************************************)
(* What the queue promises about each task: the state machine of           *)
(* core/task.go.  The store writes rows with SQL statements of its own     *)
(* (Claim, expiry, the controls), so that rows follow this machine has to  *)
(* be shown; TaskRuntime is checked, and proved, to implement it.          *)
(***************************************************************************)
EXTENDS Naturals

CONSTANT Keys

VARIABLES status, attempts

vars == <<status, attempts>>

Init == /\ status = [k \in Keys |-> "absent"]
        /\ attempts = [k \in Keys |-> 0]

(* NewTask, stored by the first Enqueue of the key. *)
Create(k) == /\ status[k] = "absent"
             /\ status'[k] = "new" /\ attempts'[k] = 0

(* Transition to processing.  A task that is processing starts again when  *)
(* its lease has run out: the queue's own addition to the transitions.     *)
Start(k) == /\ status[k] \in {"new", "retry_scheduled", "processing"}
            /\ status'[k] = "processing" /\ attempts'[k] = attempts[k] + 1

Complete(k) == /\ status[k] = "processing"
               /\ status'[k] = "completed" /\ attempts'[k] = attempts[k]

(* ScheduleRetry; a pacing wait gives its attempt back. *)
ScheduleRetry(k) == /\ status[k] = "processing"
                    /\ status'[k] = "retry_scheduled"
                    /\ attempts'[k] \in {attempts[k], attempts[k] - 1}

(* Fail, by the worker or by the deadline. *)
Fail(k) == /\ status[k] \in {"new", "retry_scheduled", "processing"}
           /\ status'[k] = "failed" /\ attempts'[k] = attempts[k]

(* RestartFailed and Requeue. *)
Reopen(k) == /\ status[k] \in {"failed", "dismissed"}
             /\ status'[k] = "new" /\ attempts'[k] = 0

(* CancelQueued and DismissFailure. *)
Dismiss(k) == /\ status[k] \in {"new", "retry_scheduled", "failed"}
              /\ status'[k] = "dismissed" /\ attempts'[k] = attempts[k]

Stay(k) == status'[k] = status[k] /\ attempts'[k] = attempts[k]

(* One step moves any number of tasks, each along the machine.             *)
Next == \A k \in Keys :
           \/ Create(k) \/ Start(k) \/ Complete(k) \/ ScheduleRetry(k)
           \/ Fail(k) \/ Reopen(k) \/ Dismiss(k) \/ Stay(k)

Spec == Init /\ [][Next]_vars
=============================================================================
