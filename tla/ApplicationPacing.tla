------------------------- MODULE ApplicationPacing -------------------------
(***************************************************************************)
(* The submission slots of one profile on one platform                     *)
(* (storage/sqlite/application_pacing.go).  The clock starts at 1, so 0    *)
(* stands for the NULL of acquired_at; an interval of 0 for no row.        *)
(***************************************************************************)
EXTENDS Applications, FiniteSetsExt

VARIABLE pace        \* application_pacing_reservations

paceVars == <<pace>>

NotAcquired == 0

PaceInit ==
    pace = [a \in Apps |->
              [scheduledAt |-> 0, interval |-> 0, acquiredAt |-> NotAcquired]]

Paced == {a \in Apps : pace[a].interval # 0}
Acquired == {a \in Paced : pace[a].acquiredAt # NotAcquired}

(* The first moment at or after floor that is behind every other slot.     *)
PaceTail(a, floor) ==
    Max({floor} \cup {pace[b].scheduledAt + pace[b].interval : b \in Paced \ {a}})

(* Mutation: the gate looks at the own slot only.                          *)
NextAllowedOwn(a) ==
    IF a \in Acquired THEN pace[a].acquiredAt + pace[a].interval ELSE 0

NextAllowed(a) ==
    Max({0} \cup {pace[b].acquiredAt + pace[b].interval : b \in Acquired})

(* The slot AcquireApplicationPace works on: the stored one, which keeps   *)
(* its interval, or a new one at the tail.                                 *)
Slot(a, interval, now) ==
    IF a \in Paced THEN pace[a]
    ELSE [scheduledAt |-> PaceTail(a, now), interval |-> interval,
          acquiredAt |-> NotAcquired]

PaceAllowed(a, interval, now) ==
    Slot(a, interval, now).scheduledAt <= now /\ NextAllowed(a) <= now

(* What the transaction stores.                                            *)
SlotAfter(a, interval, now) ==
    LET slot == Slot(a, interval, now) IN
    CASE slot.scheduledAt > now -> slot
      [] slot.scheduledAt <= now /\ NextAllowed(a) > now ->
            [slot EXCEPT !.scheduledAt = PaceTail(a, NextAllowed(a)),
                         !.acquiredAt = NotAcquired]
      [] OTHER -> [slot EXCEPT !.acquiredAt = now]

AcquireApplicationPace(a, interval, now) ==
    pace' = [pace EXCEPT ![a] = SlotAfter(a, interval, now)]

-----------------------------------------------------------------------------
(* Two applications that both hold a granted slot are at least the         *)
(* interval of the earlier one apart, whatever order they asked, waited    *)
(* and were rescheduled in.                                                *)
SlotsSpaced ==
    \A a, b \in Acquired :
        a # b => \/ pace[a].acquiredAt + pace[a].interval <= pace[b].acquiredAt
                 \/ pace[b].acquiredAt + pace[b].interval <= pace[a].acquiredAt
=============================================================================
