------------------------- MODULE ApplicationBudget -------------------------
(***************************************************************************)
(* The daily application budget of one profile on one platform             *)
(* (storage/sqlite/application_budget.go).  Every operation is one         *)
(* transaction.  A window is a local day; it is named by its number.  The  *)
(* operations also refuse a reading of the clock before the row's last     *)
(* update; the clock of the model does not go back.                        *)
(***************************************************************************)
EXTENDS Applications

CONSTANT Windows     \* budget windows

ASSUME BudgetAssumption == Windows \subseteq Nat

VARIABLES
    bucket,       \* application_budget_buckets: limit 0 stands for no row
    reservation   \* application_budget_reservations: state "none" likewise

budgetVars == <<bucket, reservation>>

BudgetInit ==
    /\ bucket = [w \in Windows |-> [limit |-> 0, used |-> 0]]
    /\ reservation = [a \in Apps |-> [state |-> "none", window |-> 0]]

Counted == {"reserved", "committed"}

Smaller(m, n) == IF m < n THEN m ELSE n
Larger(m, n) == IF m < n THEN n ELSE m

(* The INSERT ... ON CONFLICT DO UPDATE that opens ReserveApplicationBudget:*)
(* a configured limit lowers the limit of a window, never below its use.   *)
Opened(b, limit) ==
    IF b.limit = 0 THEN [limit |-> limit, used |-> 0]
    ELSE [limit |-> Larger(b.used, Smaller(b.limit, limit)), used |-> b.used]

Taken(b) == [limit |-> b.limit, used |-> b.used + 1]
Returned(b) == [limit |-> b.limit, used |-> Larger(b.used, 1) - 1]

Holding(a) == reservation[a].state \in Counted

(* The reservation is already there: only the limit is refreshed.          *)
ReserveAgain(a, w, limit) ==
    /\ Holding(a) /\ reservation[a].window = w
    /\ bucket' = [bucket EXCEPT ![w] = Opened(bucket[w], limit)]
    /\ UNCHANGED reservation

(* Mutation: the slot of the past window is kept.                          *)
KeepPast(a, w) == bucket

(* A reservation left in a past window gives its slot back first.          *)
ReturnPast(a, w) ==
    IF Holding(a) /\ reservation[a].window < w
      THEN [bucket EXCEPT ![reservation[a].window] =
                 Returned(bucket[reservation[a].window])]
      ELSE bucket

HasRoom(w, limit) ==
    LET b == Opened(bucket[w], limit) IN b.used < b.limit

(* The row of a committed reservation is not rewritten (its WHERE names    *)
(* the released state), although its slot in the past window is returned.  *)
ReserveSlot(a, w, limit) ==
    /\ ~Holding(a) \/ reservation[a].window < w
    /\ HasRoom(w, limit)
    /\ bucket' = [ReturnPast(a, w) EXCEPT ![w] = Taken(Opened(bucket[w], limit))]
    /\ reservation' =
          IF reservation[a].state = "committed" THEN reservation
          ELSE [reservation EXCEPT ![a] = [state |-> "reserved", window |-> w]]

ReserveApplicationBudget(a, w, limit) ==
    ReserveAgain(a, w, limit) \/ ReserveSlot(a, w, limit)

(* QuotaExceeded, or a reservation in a later window: the transaction is   *)
(* rolled back.                                                            *)
ReserveRefused(a, w, limit) ==
    IF Holding(a) /\ reservation[a].window >= w
      THEN reservation[a].window # w
      ELSE ~HasRoom(w, limit)

(* finishApplicationBudget: moving to the state the row is in already is   *)
(* no error, and neither is releasing what was never reserved.             *)
CommitApplicationBudget(a) ==
    /\ Holding(a)
    /\ reservation' = [reservation EXCEPT ![a].state = "committed"]
    /\ UNCHANGED bucket

ReleaseApplicationBudget(a) ==
    /\ reservation[a].state # "committed"
    /\ IF ~Holding(a) THEN UNCHANGED budgetVars
       ELSE /\ reservation' = [reservation EXCEPT ![a].state = "released"]
            /\ bucket' = [bucket EXCEPT ![reservation[a].window] =
                            Returned(bucket[reservation[a].window])]

-----------------------------------------------------------------------------
CountedIn(w) ==
    {a \in Apps : Holding(a) /\ reservation[a].window = w}

(* The use a window reports is the number of applications that hold a slot *)
(* of it ...                                                               *)
SlotsCounted == \A w \in Windows : bucket[w].used = Cardinality(CountedIn(w))

(* ... and never exceeds its limit ...                                     *)
WithinLimit == \A w \in Windows : bucket[w].used <= bucket[w].limit

(* ... through crashes, repeated releases, retries, changed limits and     *)
(* moves to the next day: no slot is lost, handed out twice or handed out  *)
(* above the limit.                                                        *)
BudgetAccounts == SlotsCounted /\ WithinLimit
=============================================================================
