--------------------------- MODULE MCTaskRuntime ---------------------------
(* Instances of TaskRuntime for TLC, one at a time.                        *)
EXTENDS TaskRuntime, TLC

CONSTANTS w1, w2, w3
VARIABLE part

(* Keys 1 and 2 are profile state tasks, key 3 an application that they    *)
(* block.  Two workers compete for the applications.                       *)
BlockTypeOf == [k \in Keys |-> IF k = 3 THEN "submit" ELSE "state"]
TwoServe == [w \in Workers |-> IF w = w3 THEN "state" ELSE "submit"]
WorkerSymmetry == Permutations({w1, w2})

OneProfile == [k \in Keys |-> "p"]
LowFirst == [k \in Keys |-> k]
SubmitBlockedByState ==
    [t \in Types |-> IF t = "submit" THEN "state" ELSE NoType]
SomeDeadlines == {NoDeadline, 2}

(* "race": the application alone, two workers, every result and operator.  *)
(* "blocked": all three tasks and a worker of each type, a short time, no  *)
(* deadlines, no retries, and an operator who dismisses failures.          *)
Alone ==
    /\ \A k \in Keys \ {3} : tasks[k] = NoRow
    /\ worker[w3] = Idle
Short ==
    /\ clock <= 1
    /\ \A k \in Keys : tasks[k] = NoRow \/ tasks[k].deadline = NoDeadline
    /\ \A w \in Workers : worker[w].outcome \in {"ok", "permanent"}
    /\ worker[w1] = Idle \/ worker[w2] = Idle
    /\ \A o \in Operators : operator[o].op \in {NoControl.op, "dismiss"}

MCInit == Init /\ part \in {"race", "blocked"}
MCNext ==
    /\ Next
    /\ UNCHANGED part
    /\ IF part = "race" THEN Alone' ELSE Short'
MCSpec == MCInit /\ [][MCNext]_<<vars, part>>
=============================================================================
