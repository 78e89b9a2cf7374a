-------------------------- MODULE ApplicationProofs --------------------------
(***************************************************************************)
(* Proofs about the submission of applications: the daily budget, the      *)
(* pacing slots, the handler between two writes of its row, and the        *)
(* tailoring saga.                                                         *)
(***************************************************************************)
EXTENDS ApplicationSubmit, FiniteSetTheorems, WellFoundedInduction,
        TLAPS

-----------------------------------------------------------------------------
(* The budget by itself.                                                   *)

BucketSet == [limit : Nat, used : Nat]
ReservationSet ==
    [state : {"none", "reserved", "committed", "released"}, window : Nat]

BudgetTypeOK ==
    /\ bucket \in [Windows -> BucketSet]
    /\ reservation \in [Apps -> ReservationSet]
    /\ \A a \in Apps : Holding(a) => reservation[a].window \in Windows

BudgetInvariant == BudgetTypeOK /\ BudgetAccounts

LEMMA CountedFinite ==
    ASSUME NEW w PROVE /\ IsFiniteSet(CountedIn(w))
                       /\ Cardinality(CountedIn(w)) \in Nat
<1>1. CountedIn(w) \subseteq Apps BY DEF CountedIn
<1>2. IsFiniteSet(CountedIn(w)) BY <1>1, ApplicationsAssumption, FS_Subset
<1>3. QED BY <1>2, FS_CardinalityType

LEMMA BudgetStarts == BudgetInit => BudgetInvariant
<1> SUFFICES ASSUME BudgetInit PROVE BudgetInvariant
  OBVIOUS
<1>1. BudgetTypeOK
  BY DEF BudgetInit, BudgetTypeOK, BucketSet, ReservationSet, Holding, Counted
<1>2. ASSUME NEW w \in Windows PROVE Cardinality(CountedIn(w)) = 0
  <2>1. CountedIn(w) = {} BY DEF BudgetInit, CountedIn, Holding, Counted
  <2>2. QED BY <2>1, FS_EmptySet
<1>3. QED
  BY <1>1, <1>2
  DEF BudgetInit, BudgetInvariant, BudgetAccounts, SlotsCounted, WithinLimit

(* The limit of a window is lowered, never below its use.                  *)
LEMMA OpenedKeeps ==
    ASSUME NEW b \in BucketSet, b.used <= b.limit, NEW limit \in Nat \ {0}
    PROVE  /\ Opened(b, limit) \in BucketSet
           /\ Opened(b, limit).used = b.used
           /\ b.used <= Opened(b, limit).limit
BY DEF Opened, BucketSet, Larger, Smaller

LEMMA ReturnedKeeps ==
    ASSUME NEW b \in BucketSet, b.used <= b.limit, b.used # 0
    PROVE  /\ Returned(b) \in BucketSet /\ Returned(b).used = b.used - 1
           /\ Returned(b).used <= Returned(b).limit
BY DEF Returned, BucketSet, Larger

(* A window that counts an application has a slot in use.                  *)
LEMMA HeldIsUsed ==
    ASSUME BudgetInvariant, NEW a \in Apps, Holding(a)
    PROVE  /\ reservation[a].window \in Windows
           /\ a \in CountedIn(reservation[a].window)
           /\ bucket[reservation[a].window].used # 0
<1>1. reservation[a].window \in Windows /\ a \in CountedIn(reservation[a].window)
  BY DEF BudgetInvariant, BudgetTypeOK, CountedIn
<1>2. Cardinality(CountedIn(reservation[a].window)) # 0
  BY <1>1, CountedFinite, FS_EmptySet
<1>3. QED BY <1>1, <1>2 DEF BudgetInvariant, BudgetAccounts, SlotsCounted

LEMMA Joins ==
    ASSUME NEW S, IsFiniteSet(S), NEW x, x \notin S
    PROVE  Cardinality(S \cup {x}) = Cardinality(S) + 1
BY FS_AddElement

LEMMA Leaves ==
    ASSUME NEW S, IsFiniteSet(S), NEW x \in S
    PROVE  Cardinality(S \ {x}) = Cardinality(S) - 1
BY FS_RemoveElement

(* An application gets a slot it does not hold, after it gave back the one *)
(* it held in a window that is over.                                       *)
LEMMA SlotReserved ==
    ASSUME BudgetInvariant, NEW a \in Apps, NEW w \in Windows, NEW limit \in Nat \ {0},
           reservation[a].state # "committed", ReserveSlot(a, w, limit)
    PROVE  BudgetInvariant'
<1> DEFINE past == reservation[a].window
           opened == Opened(bucket[w], limit)
<1>1. /\ ~Holding(a) \/ past < w
      /\ opened.used < opened.limit
      /\ bucket' = [ReturnPast(a, w) EXCEPT ![w] = Taken(opened)]
      /\ reservation' = [reservation EXCEPT ![a] = [state |-> "reserved", window |-> w]]
  BY DEF ReserveSlot, HasRoom
<1>2. /\ bucket \in [Windows -> BucketSet] /\ reservation \in [Apps -> ReservationSet]
      /\ w \in Nat
      /\ \A v \in Windows : bucket[v] \in BucketSet /\ bucket[v].used <= bucket[v].limit
      /\ \A v \in Windows : bucket[v].used = Cardinality(CountedIn(v))
  BY BudgetAssumption
  DEF BudgetInvariant, BudgetTypeOK, BudgetAccounts, SlotsCounted, WithinLimit
<1>3. opened \in BucketSet /\ opened.used = bucket[w].used
  BY <1>2, OpenedKeeps
<1> HIDE DEF opened
<1>4. /\ Taken(opened) \in BucketSet /\ Taken(opened).used = bucket[w].used + 1
      /\ Taken(opened).used <= Taken(opened).limit
  BY <1>1, <1>3 DEF Taken, BucketSet
<1>5. ReturnPast(a, w) \in [Windows -> BucketSet]
  <2>1. CASE Holding(a) /\ past < w
    BY <1>2, <2>1, HeldIsUsed, ReturnedKeeps DEF ReturnPast
  <2>2. CASE ~(Holding(a) /\ past < w) BY <1>2, <2>2 DEF ReturnPast
  <2>3. QED BY <2>1, <2>2
<1>6. \A v \in Windows \ {w} :
         ReturnPast(a, w)[v] = IF Holding(a) /\ past = v THEN Returned(bucket[v])
                               ELSE bucket[v]
  BY <1>1, <1>2 DEF ReturnPast
<1>7. bucket' \in [Windows -> BucketSet] BY <1>1, <1>4, <1>5
<1>8. bucket'[w] = Taken(opened) BY <1>1, <1>5
<1>9. \A v \in Windows \ {w} : bucket'[v] = ReturnPast(a, w)[v] BY <1>1, <1>5
<1>10. /\ reservation' \in [Apps -> ReservationSet]
       /\ reservation'[a] = [state |-> "reserved", window |-> w]
       /\ \A b \in Apps \ {a} : reservation'[b] = reservation[b]
  BY <1>1, <1>2 DEF ReservationSet
<1>11. BudgetTypeOK'
  BY <1>7, <1>10 DEF BudgetInvariant, BudgetTypeOK, Holding, Counted
<1>12. CountedIn(w)' = CountedIn(w) \cup {a} /\ a \notin CountedIn(w)
  BY <1>1, <1>2, <1>10 DEF CountedIn, Holding, Counted
<1>13. bucket'[w].used = Cardinality(CountedIn(w)')
  <2>1. Cardinality(CountedIn(w) \cup {a}) = Cardinality(CountedIn(w)) + 1
    BY <1>12, CountedFinite, Joins
  <2>2. QED BY <1>2, <1>4, <1>8, <1>12, <2>1
<1>14. ASSUME NEW v \in Windows \ {w}
       PROVE  /\ bucket'[v].used = Cardinality(CountedIn(v)')
              /\ bucket'[v].used <= bucket'[v].limit
  <2>1. CASE Holding(a) /\ past = v
    <3>1. CountedIn(v)' = CountedIn(v) \ {a} /\ a \in CountedIn(v)
      BY <1>10, <1>14, <2>1 DEF CountedIn, Holding, Counted
    <3>2. Cardinality(CountedIn(v) \ {a}) = Cardinality(CountedIn(v)) - 1
      BY <3>1, CountedFinite, Leaves
    <3>3. bucket[v].used # 0 BY <2>1, HeldIsUsed
    <3>4. /\ Returned(bucket[v]).used = bucket[v].used - 1
          /\ Returned(bucket[v]).used <= Returned(bucket[v]).limit
      BY <1>2, <1>14, <3>3, ReturnedKeeps
    <3>5. bucket'[v] = Returned(bucket[v]) BY <1>6, <1>9, <1>14, <2>1
    <3>6. QED BY <1>2, <1>14, <3>1, <3>2, <3>4, <3>5
  <2>2. CASE ~(Holding(a) /\ past = v)
    <3>1. CountedIn(v)' = CountedIn(v)
      BY <1>10, <1>14, <2>2 DEF CountedIn, Holding, Counted
    <3>2. bucket'[v] = bucket[v] BY <1>6, <1>9, <1>14, <2>2
    <3>3. QED BY <1>2, <1>14, <3>1, <3>2
  <2>3. QED BY <2>1, <2>2
<1>15. SlotsCounted' /\ WithinLimit'
  BY <1>4, <1>8, <1>13, <1>14 DEF SlotsCounted, WithinLimit
<1>16. QED BY <1>11, <1>15 DEF BudgetInvariant, BudgetAccounts

LEMMA BudgetReserved ==
    ASSUME BudgetInvariant, NEW a \in Apps, NEW w \in Windows, NEW limit \in Nat \ {0},
           reservation[a].state # "committed", ReserveApplicationBudget(a, w, limit)
    PROVE  BudgetInvariant'
<1>1. CASE ReserveAgain(a, w, limit)
  <2>1. /\ Opened(bucket[w], limit) \in BucketSet
        /\ Opened(bucket[w], limit).used = bucket[w].used
        /\ bucket[w].used <= Opened(bucket[w], limit).limit
    BY OpenedKeeps
    DEF BudgetInvariant, BudgetTypeOK, BudgetAccounts, WithinLimit
  <2>2. /\ bucket' = [bucket EXCEPT ![w] = Opened(bucket[w], limit)]
        /\ UNCHANGED reservation
    BY <1>1 DEF ReserveAgain
  <2>3. \A v : CountedIn(v)' = CountedIn(v) BY <2>2 DEF CountedIn, Holding
  <2>4. BudgetTypeOK' BY <2>1, <2>2 DEF BudgetInvariant, BudgetTypeOK, Holding
  <2>5. \A v \in Windows : bucket'[v].used = bucket[v].used
    BY <2>1, <2>2 DEF BudgetInvariant, BudgetTypeOK
  <2>6. SlotsCounted'
    BY <2>3, <2>5 DEF BudgetInvariant, BudgetAccounts, SlotsCounted
  <2>7. WithinLimit'
    BY <2>1, <2>2
    DEF BudgetInvariant, BudgetTypeOK, BudgetAccounts, WithinLimit
  <2>8. QED BY <2>4, <2>6, <2>7 DEF BudgetInvariant, BudgetAccounts
<1>2. QED BY <1>1, SlotReserved DEF ReserveApplicationBudget

LEMMA BudgetCommitted ==
    ASSUME BudgetInvariant, NEW a \in Apps, CommitApplicationBudget(a)
    PROVE  BudgetInvariant'
<1>1. /\ Holding(a) /\ UNCHANGED bucket
      /\ reservation' = [reservation EXCEPT ![a].state = "committed"]
      /\ reservation \in [Apps -> ReservationSet]
  BY DEF CommitApplicationBudget, BudgetInvariant, BudgetTypeOK
<1>2. /\ reservation' \in [Apps -> ReservationSet]
      /\ \A b \in Apps : /\ reservation'[b].window = reservation[b].window
                         /\ Holding(b)' <=> Holding(b)
  BY <1>1 DEF ReservationSet, Holding, Counted
<1>3. \A v : CountedIn(v)' = CountedIn(v) BY <1>2 DEF CountedIn
<1>4. BudgetTypeOK' BY <1>1, <1>2 DEF BudgetInvariant, BudgetTypeOK
<1>5. QED
  BY <1>1, <1>3, <1>4
  DEF BudgetInvariant, BudgetAccounts, SlotsCounted, WithinLimit

LEMMA BudgetReleased ==
    ASSUME BudgetInvariant, NEW a \in Apps, ReleaseApplicationBudget(a)
    PROVE  BudgetInvariant'
<1>0. PICK w : w = reservation[a].window OBVIOUS
<1>1. CASE ~Holding(a)
  <2>1. UNCHANGED budgetVars BY <1>1 DEF ReleaseApplicationBudget
  <2>2. QED
    BY <2>1 DEF budgetVars, BudgetInvariant, BudgetTypeOK, BudgetAccounts,
       SlotsCounted, WithinLimit, CountedIn, Holding
<1>2. CASE Holding(a)
  <2>1. /\ reservation' = [reservation EXCEPT ![a].state = "released"]
        /\ bucket' = [bucket EXCEPT ![w] = Returned(bucket[w])]
        /\ reservation \in [Apps -> ReservationSet] /\ bucket \in [Windows -> BucketSet]
    BY <1>0, <1>2 DEF ReleaseApplicationBudget, BudgetInvariant, BudgetTypeOK
  <2>2. w \in Windows /\ a \in CountedIn(w) /\ bucket[w].used # 0
    BY <1>0, <1>2, HeldIsUsed
  <2>3. \A v \in Windows : /\ bucket[v].used <= bucket[v].limit
                           /\ bucket[v].used = Cardinality(CountedIn(v))
    BY DEF BudgetInvariant, BudgetAccounts, SlotsCounted, WithinLimit
  <2>4. /\ Returned(bucket[w]) \in BucketSet
        /\ Returned(bucket[w]).used = bucket[w].used - 1
        /\ Returned(bucket[w]).used <= Returned(bucket[w]).limit
    BY <2>1, <2>2, <2>3, ReturnedKeeps
  <2>5. /\ reservation' \in [Apps -> ReservationSet] /\ ~Holding(a)'
        /\ \A b \in Apps \ {a} : reservation'[b] = reservation[b]
    BY <2>1 DEF ReservationSet, Holding, Counted
  <2>6. /\ bucket' \in [Windows -> BucketSet]
        /\ bucket'[w] = Returned(bucket[w])
        /\ \A v \in Windows \ {w} : bucket'[v] = bucket[v]
    BY <2>1, <2>2, <2>4
  <2>7. BudgetTypeOK'
    BY <2>5, <2>6 DEF BudgetInvariant, BudgetTypeOK, Holding
  <2>8. CountedIn(w)' = CountedIn(w) \ {a} BY <2>5 DEF CountedIn, Holding
  <2>9. Cardinality(CountedIn(w) \ {a}) = Cardinality(CountedIn(w)) - 1
    BY <2>2, CountedFinite, Leaves
  <2>10. \A v \in Windows \ {w} : CountedIn(v)' = CountedIn(v)
    BY <1>0, <2>1, <2>5 DEF CountedIn, Holding
  <2>11. SlotsCounted' /\ WithinLimit'
    <3>1. bucket'[w].used = Cardinality(CountedIn(w)')
      BY <2>2, <2>3, <2>4, <2>6, <2>8, <2>9
    <3>2. QED
      BY <2>3, <2>4, <2>6, <2>10, <3>1 DEF SlotsCounted, WithinLimit
  <2>12. QED BY <2>7, <2>11 DEF BudgetInvariant, BudgetAccounts
<1>3. QED BY <1>1, <1>2

-----------------------------------------------------------------------------
(* The pacing slots by themselves.  The library's induction over finite    *)
(* sets takes an operator as its parameter; a smallest set without a       *)
(* maximum takes its place.                                                *)

HasMax(U) == \E x \in U : \A y \in U : x >= y

LEMMA FiniteHasMax ==
    ASSUME NEW S, IsFiniteSet(S), S \subseteq Nat, S # {} PROVE HasMax(S)
<1> DEFINE R == StrictSubsetOrdering(S)
           T == {U \in SUBSET S : U # {} /\ ~HasMax(U)}
<1>1. IsWellFoundedOn(R, SUBSET S)
  <2>1. FiniteSubsetsOf(S) = SUBSET S BY FS_FiniteSubsetsOfFinite
  <2>2. QED BY <2>1, FS_StrictSubsetOrderingWellFounded
<1>2. SUFFICES ASSUME ~HasMax(S) PROVE FALSE
  OBVIOUS
<1>3. T \subseteq SUBSET S /\ S \in T BY <1>2
<1>4. \A U, V : U \in SUBSET S /\ V \in SUBSET S /\ U \subseteq V /\ U # V
                => <<U, V>> \in R
  BY DEF StrictSubsetOrdering
<1>5. \A U \in T : U \in SUBSET S /\ U # {} /\ ~HasMax(U) OBVIOUS
<1>6. \A U \in SUBSET S : U # {} /\ ~HasMax(U) => U \in T OBVIOUS
<1> HIDE DEF R, T
<1>7. PICK U \in T : \A V \in T : ~(<<V, U>> \in R) BY <1>1, <1>3, WFMin
<1>8. PICK x \in U : TRUE BY <1>5
<1>9. U \subseteq Nat /\ U \in SUBSET S BY <1>5
<1> DEFINE V == U \ {x}
<1>10. V \in SUBSET S /\ V \subseteq U /\ V # U BY <1>8, <1>9
<1>11. V \notin T BY <1>4, <1>7, <1>9, <1>10
<1>12. CASE V = {}
  <2>1. \A y \in U : x >= y BY <1>8, <1>9, <1>12
  <2>2. QED BY <1>5, <1>8, <2>1 DEF HasMax
<1>13. CASE V # {}
  <2>1. HasMax(V) BY <1>6, <1>10, <1>11, <1>13
  <2>2. PICK m \in V : \A y \in V : m >= y BY <2>1 DEF HasMax
  <2>3. CASE x >= m
    <3>1. \A y \in U : x >= y BY <1>8, <1>9, <2>2, <2>3
    <3>2. QED BY <1>5, <1>8, <3>1 DEF HasMax
  <2>4. CASE ~(x >= m)
    <3>1. \A y \in U : m >= y BY <1>8, <1>9, <2>2, <2>4
    <3>2. QED BY <1>5, <1>8, <2>2, <3>1 DEF HasMax
  <2>5. QED BY <2>3, <2>4
<1>14. QED BY <1>12, <1>13

LEMMA MaxBounds ==
    ASSUME NEW S, IsFiniteSet(S), S \subseteq Nat, S # {}
    PROVE  Max(S) \in Nat /\ \A y \in S : Max(S) >= y
<1>1. \E x \in S : \A y \in S : x >= y BY FiniteHasMax DEF HasMax
<1>2. Max(S) \in S /\ \A y \in S : Max(S) >= y BY <1>1 DEF Max
<1>3. QED BY <1>2

PaceSet == [scheduledAt : Nat, interval : Nat, acquiredAt : Nat]
PaceInvariant == pace \in [Apps -> PaceSet] /\ SlotsSpaced

LEMMA PaceStarts == PaceInit => PaceInvariant
BY DEF PaceInit, PaceInvariant, PaceSet, SlotsSpaced, Acquired, Paced, NotAcquired

(* The end of the last slot that was granted, and of the last reserved.    *)
LEMMA NextAllowedBounds ==
    ASSUME pace \in [Apps -> PaceSet], NEW a
    PROVE  /\ NextAllowed(a) \in Nat
           /\ \A b \in Acquired : pace[b].acquiredAt + pace[b].interval <= NextAllowed(a)
<1> DEFINE ends == {pace[b].acquiredAt + pace[b].interval : b \in Acquired}
           f == [b \in Acquired |-> pace[b].acquiredAt + pace[b].interval]
<1>1. Acquired \subseteq Apps BY DEF Acquired, Paced
<1>2. \A b \in Acquired : pace[b].acquiredAt + pace[b].interval \in Nat
  BY <1>1 DEF PaceSet
<1>3. f \in Surjection(Acquired, ends) BY DEF Surjection
<1>4. IsFiniteSet(Acquired) BY <1>1, ApplicationsAssumption, FS_Subset
<1> HIDE DEF f
<1>5. IsFiniteSet(ends) BY <1>3, <1>4, FS_Surjection
<1>6. ends \subseteq Nat BY <1>2
<1>7. \A b \in Acquired : pace[b].acquiredAt + pace[b].interval \in ends OBVIOUS
<1>8. NextAllowed(a) = Max({0} \cup ends) BY DEF NextAllowed
<1> HIDE DEF ends
<1>9. IsFiniteSet({0} \cup ends) BY <1>5, FS_Singleton, FS_Union
<1> DEFINE all == {0} \cup ends
<1>10. all \subseteq Nat /\ all # {} /\ ends \subseteq all BY <1>6
<1>11. IsFiniteSet(all) /\ NextAllowed(a) = Max(all) BY <1>8, <1>9
<1> HIDE DEF all
<1>12. Max(all) \in Nat /\ \A y \in all : Max(all) >= y BY <1>10, <1>11, MaxBounds
<1>13. QED BY <1>2, <1>7, <1>10, <1>11, <1>12

LEMMA PaceTailNat ==
    ASSUME pace \in [Apps -> PaceSet], NEW a, NEW floor \in Nat
    PROVE  PaceTail(a, floor) \in Nat
<1> DEFINE others == Paced \ {a}
           ends == {pace[b].scheduledAt + pace[b].interval : b \in others}
           f == [b \in others |-> pace[b].scheduledAt + pace[b].interval]
<1>1. others \subseteq Apps BY DEF Paced
<1>2. f \in Surjection(others, ends) BY DEF Surjection
<1>3. IsFiniteSet(others) BY <1>1, ApplicationsAssumption, FS_Subset
<1>4. ends \subseteq Nat BY <1>1 DEF PaceSet
<1>5. PaceTail(a, floor) = Max({floor} \cup ends) BY DEF PaceTail
<1> HIDE DEF f, others
<1>6. IsFiniteSet(ends) BY <1>2, <1>3, FS_Surjection
<1> HIDE DEF ends
<1>7. IsFiniteSet({floor} \cup ends) BY <1>6, FS_Singleton, FS_Union
<1>8. QED BY <1>4, <1>5, <1>7, MaxBounds

(* A slot is granted behind the end of every slot granted before; one that *)
(* is refused is no longer granted.                                        *)
LEMMA SlotAcquired ==
    ASSUME PaceInvariant, NEW a \in Apps, NEW interval \in Nat \ {0}, NEW now \in Nat,
           AcquireApplicationPace(a, interval, now)
    PROVE  PaceInvariant' /\ pace'[a].scheduledAt \in Nat
<1> DEFINE slot == Slot(a, interval, now)
           next == SlotAfter(a, interval, now)
<1>1. pace \in [Apps -> PaceSet] BY DEF PaceInvariant
<1>2. slot \in PaceSet /\ (a \in Paced => slot = pace[a])
      /\ (a \notin Paced => slot.acquiredAt = NotAcquired)
  BY <1>1, PaceTailNat DEF Slot, PaceSet, NotAcquired
<1>3. NextAllowed(a) \in Nat /\ PaceTail(a, NextAllowed(a)) \in Nat
  BY <1>1, NextAllowedBounds, PaceTailNat
<1>4. \/ next = slot
      \/ next = [slot EXCEPT !.scheduledAt = PaceTail(a, NextAllowed(a)),
                             !.acquiredAt = NotAcquired]
      \/ next = [slot EXCEPT !.acquiredAt = now] /\ NextAllowed(a) <= now
  BY <1>2, <1>3 DEF SlotAfter, PaceSet
<1> HIDE DEF slot, next
<1>5. /\ next \in PaceSet
      /\ \/ next = slot
         \/ next.acquiredAt = NotAcquired
         \/ next.acquiredAt = now /\ NextAllowed(a) <= now
  <2>1. CASE next = slot BY <1>2, <2>1
  <2>2. CASE next = [slot EXCEPT !.scheduledAt = PaceTail(a, NextAllowed(a)),
                                 !.acquiredAt = NotAcquired]
    <3>1. NotAcquired \in Nat BY DEF NotAcquired
    <3>2. QED BY <1>2, <1>3, <2>2, <3>1 DEF PaceSet
  <2>3. CASE next = [slot EXCEPT !.acquiredAt = now] /\ NextAllowed(a) <= now
    BY <1>2, <2>3 DEF PaceSet
  <2>4. QED BY <1>4, <2>1, <2>2, <2>3
<1>6. pace' = [pace EXCEPT ![a] = next] BY DEF AcquireApplicationPace, next
<1>7. /\ pace' \in [Apps -> PaceSet] /\ pace'[a] = next
      /\ \A b \in Apps \ {a} : pace'[b] = pace[b]
  BY <1>1, <1>5, <1>6
<1>8. \A b \in Apps \ {a} : b \in Acquired' => b \in Acquired
  BY <1>7 DEF Acquired, Paced
<1>9. ASSUME NEW b \in Acquired', b # a, a \in Acquired'
      PROVE  \/ pace'[a].acquiredAt + pace'[a].interval <= pace'[b].acquiredAt
             \/ pace'[b].acquiredAt + pace'[b].interval <= pace'[a].acquiredAt
  <2>1. b \in Apps /\ b \in Acquired /\ pace'[b] = pace[b]
    BY <1>7, <1>8, <1>9 DEF Acquired, Paced
  <2>2. next.acquiredAt # NotAcquired BY <1>7, <1>9 DEF Acquired, Paced
  <2>3. CASE next = slot
    <3>1. a \in Paced BY <1>2, <2>2, <2>3
    <3>2. a \in Acquired /\ pace'[a] = pace[a]
      BY <1>2, <1>7, <2>2, <2>3, <3>1 DEF Acquired
    <3>3. QED BY <1>9, <2>1, <3>2 DEF PaceInvariant, SlotsSpaced
  <2>4. CASE next.acquiredAt = now /\ NextAllowed(a) <= now
    <3>1. /\ pace[b].acquiredAt + pace[b].interval <= NextAllowed(a)
          /\ pace[b].acquiredAt + pace[b].interval \in Nat
      BY <1>1, <2>1, NextAllowedBounds DEF PaceSet
    <3>2. QED BY <1>3, <1>7, <2>1, <2>4, <3>1
  <2>5. QED BY <1>5, <2>2, <2>3, <2>4
<1>10. ASSUME NEW b \in Acquired', NEW c \in Acquired', b # a, c # a, b # c
       PROVE  \/ pace'[b].acquiredAt + pace'[b].interval <= pace'[c].acquiredAt
              \/ pace'[c].acquiredAt + pace'[c].interval <= pace'[b].acquiredAt
  <2>1. b \in Apps /\ c \in Apps BY DEF Acquired, Paced
  <2>2. QED BY <1>7, <1>8, <1>10, <2>1 DEF PaceInvariant, SlotsSpaced
<1>11. SlotsSpaced' BY <1>9, <1>10 DEF SlotsSpaced
<1>12. QED BY <1>5, <1>7, <1>11 DEF PaceInvariant, PaceSet

-----------------------------------------------------------------------------
(* The handler: what it is made of, and the few ways it goes on.           *)

Statuses ==
    {"new", "preparing", "ready", "waiting_validation", "waiting_approval",
     "skipped", "dry_run", "submitting", "pending_reconcile", "submitted", "failed"}
RowSet == [status : Statuses, prepared : BOOLEAN, attempts : Nat]
PlanSet == [mode : {"submit", "approval", "dry_run"}, limit : Nat \ {0},
            skips : BOOLEAN, tailors : BOOLEAN]
ResumeSet == [text : Texts \cup {NoApp}, by : Apps \cup {NoApp},
              form : {"base", "partial", "tailored"}]
SagaSet ==
    [status : {"none", "planned", "applying", "applied", "submitting",
               "restoring", "restored", "recovery_required"},
     attempt : Nat, baseline : ResumeSet, changes : BOOLEAN]

Restoring ==
    {"restoreBegin", "restoreRead", "restoreWrite", "restoreCheck", "restoreRecord"}
Steps == {"save", "commit", "release", "restore"} \cup Restoring
Sending == {"begin", "verify", "send", "browser"}
Working ==
    {"prepare", "reserve", "pace", "wait", "tailor", "plan", "apply", "write", "check",
     "applied", "submit", "reconcile"} \cup Sending

HandlerSet ==
    [pc : Working \cup {"idle", "finish"}, app : Apps \cup {NoApp}, key : Keys,
     cur : RowSet, expected : Statuses, now : Nat, at : Nat, until : Nat,
     tries : Nat, plan : PlanSet, seen : ResumeSet, todo : SUBSET Steps,
     result : {"ok", "retryable", "failed"}, sure : BOOLEAN]

RequestSet ==
    [kind : {"retry", "approve", "refresh"}, app : Apps, key : Keys, row : RowSet,
     saved : BOOLEAN]

Typed ==
    /\ clock \in 1 .. MaxTime
    /\ app \in [Apps -> RowSet]
    /\ op \in [Operators -> {NoRequest} \cup RequestSet]
    /\ h \in HandlerSet /\ (h.pc # "idle" => h.app \in Apps)
    /\ saga \in [Apps -> SagaSet] /\ resume \in ResumeSet
    /\ drift \in Nat
    /\ PaceInvariant

LEMMA IdleTyped ==
    Idle \in HandlerSet /\ Idle.pc = "idle" /\ Idle.todo = {} /\ Idle.sure
    /\ Idle.result = "ok" /\ Idle.now = 0
<1>1. NoRow \in RowSet BY DEF NoRow, RowSet, Statuses
<1>2. NoPlan \in PlanSet BY DEF NoPlan, PlanSet
<1>3. Owned(NoApp) \in ResumeSet
  BY DEF Owned, ResumeSet
<1>4. QED
  BY <1>1, <1>2, <1>3, SubmitAssumption DEF Idle, HandlerSet, Statuses

(* The same task goes on, with the row it read.                            *)
SameTask(n) ==
    /\ n \in HandlerSet /\ n.app = h.app /\ n.key = h.key
    /\ n.expected = h.expected /\ n.sure = h.sure

(* It saves a status and returns, ...                                      *)
Saves(n, status, steps, result) ==
    /\ SameTask(n) /\ n.pc = "finish" /\ n.result = result
    /\ n.todo = {"save"} \cup steps
    /\ n.cur = With(h.cur, status) /\ n.cur.status = status
    /\ n.cur.prepared = h.cur.prepared

(* ... it returns at once, ...                                             *)
Stops(n, result) ==
    /\ SameTask(n) /\ n.pc = "finish" /\ n.result = result
    /\ n.todo = {} /\ n.cur = h.cur

(* ... it goes on elsewhere, ...                                           *)
GoesTo(n, pc) ==
    /\ SameTask(n) /\ n.pc = pc /\ n.result = h.result
    /\ n.todo = h.todo /\ n.cur = h.cur

(* ... or with the next of its calls.                                      *)
Drops(n, steps) ==
    /\ SameTask(n) /\ n.pc = h.pc /\ n.result = h.result
    /\ n.todo = steps /\ n.cur = h.cur /\ n.now = h.now

(* An error ends the task and saves nothing.                               *)
Errs(n) == Stops(n, "retryable") \/ Stops(n, "failed")

Results == {"ok", "retryable", "failed"}

LEMMA WithTyped ==
    ASSUME NEW row \in RowSet, NEW status \in Statuses
    PROVE  /\ With(row, status) \in RowSet /\ With(row, status).status = status
           /\ With(row, status).prepared = row.prepared
BY DEF With, RowSet

LEMMA FinishesSaves ==
    ASSUME h \in HandlerSet, NEW status \in Statuses, NEW steps \in SUBSET Steps,
           NEW result \in Results
    PROVE  Saves(Finishes(status, steps, result), status, steps, result)
<1> DEFINE row == With(h.cur, status)
           todo == {"save"} \cup steps
<1>1. row \in RowSet /\ row.status = status /\ row.prepared = h.cur.prepared
  BY WithTyped DEF HandlerSet
<1>2. todo \in SUBSET Steps BY DEF Steps
<1>3. Finishes(status, steps, result) =
        [h EXCEPT !.pc = "finish", !.cur = row, !.todo = todo, !.result = result]
  BY DEF Finishes
<1> HIDE DEF row, todo
<1>4. LET n == Finishes(status, steps, result)
      IN SameTask(n) /\ n.pc = "finish" /\ n.result = result /\ n.todo = todo
         /\ n.cur = row
  BY <1>1, <1>2, <1>3 DEF SameTask, HandlerSet, Results
<1>5. QED BY <1>1, <1>4 DEF Saves, row, todo

LEMMA ReturnsStops ==
    ASSUME h \in HandlerSet, NEW result \in Results
    PROVE  Stops(Returns(result), result)
BY DEF Returns, Stops, SameTask, HandlerSet, Results

LEMMA DoneDrops ==
    ASSUME h \in HandlerSet, NEW step
    PROVE  Drops(Done(step), h.todo \ {step})
BY DEF Done, Drops, SameTask, HandlerSet

LEMMA GoesGoesTo ==
    ASSUME h \in HandlerSet, NEW pc \in Working
    PROVE  GoesTo([h EXCEPT !.pc = pc], pc)
BY DEF GoesTo, SameTask, HandlerSet

LEMMA InsteadDrops ==
    ASSUME h \in HandlerSet, NEW step \in Restoring
    PROVE  Drops(Instead(step), {step})
BY DEF Instead, Drops, SameTask, HandlerSet, Steps

(* What it has read of the resume goes along.                              *)
LEMMA HavingSeen ==
    ASSUME h \in HandlerSet, resume \in ResumeSet
    PROVE  /\ \A pc \in Working :
                 LET n == Having([h EXCEPT !.pc = pc])
                 IN GoesTo(n, pc) /\ n.seen = resume
           /\ \A step \in Restoring :
                 LET n == Having(Instead(step))
                 IN Drops(n, {step}) /\ n.seen = resume
<1>1. ASSUME NEW pc \in Working
      PROVE  LET n == Having([h EXCEPT !.pc = pc])
             IN GoesTo(n, pc) /\ n.seen = resume
  BY DEF Having, GoesTo, SameTask, HandlerSet
<1>2. ASSUME NEW step \in Restoring
      PROVE  LET n == Having(Instead(step))
             IN Drops(n, {step}) /\ n.seen = resume
  BY DEF Having, Instead, Drops, SameTask, HandlerSet, Steps
<1>3. QED BY <1>1, <1>2

(* A step of the handler that touches neither rows, slots nor sagas.       *)
LEMMA HandlerTyped ==
    ASSUME Typed, h' \in HandlerSet, h'.pc = "idle" \/ h'.app \in Apps,
           UNCHANGED <<clock, app, op, saga, resume, drift, pace>>
    PROVE  Typed'
BY DEF Typed, PaceInvariant, SlotsSpaced, Acquired, Paced

LEMMA ErrsTyped ==
    ASSUME h \in HandlerSet, NEW n \in {Returns("retryable"), Returns("failed")}
    PROVE  Errs(n) /\ n \in HandlerSet /\ n.app = h.app
BY ReturnsStops DEF Errs, Stops, SameTask, Results

(* A handler that goes on for the application it runs for stays typed.     *)
LEMMA SameTyped ==
    ASSUME Typed, h.pc # "idle", SameTask(h'),
           UNCHANGED <<clock, app, op, saga, resume, drift, pace>>
    PROVE  Typed'
BY HandlerTyped DEF SameTask, Typed

-----------------------------------------------------------------------------
(* What each step of the handler makes of it.                              *)

(* Handle starts from the row it reads, with nothing to do, or with the    *)
(* calls an earlier run of the task may have left out.                     *)
Begins(n, a, k) ==
    /\ n \in HandlerSet /\ n.app = a /\ n.key = k /\ n.sure
    /\ n.expected = app[a].status /\ n.now = clock
    /\ \/ /\ n.pc = "finish" /\ n.cur = app[a] /\ n.result = "ok"
          /\ \/ app[a].status = "submitted" /\ n.todo = {"commit", "restore"}
             \/ /\ app[a].status \in {"failed", "waiting_validation"}
                /\ n.todo = {"release", "restore"}
             \/ /\ app[a].status \in {"skipped", "dry_run", "waiting_approval"}
                /\ n.todo = {}
       \/ /\ n.pc = "finish" /\ app[a].status = "submitting" /\ n.todo = {"save"}
          /\ n.cur.status = "pending_reconcile" /\ n.result = "retryable"
       \/ /\ n.pc = "reconcile" /\ app[a].status = "pending_reconcile"
          /\ n.cur = app[a] /\ n.todo = {} /\ n.result = "ok"
       \/ /\ n.pc = "prepare" /\ n.cur.prepared = app[a].prepared /\ n.result = "ok"
          /\ n.todo \in SUBSET {"release"}
          /\ \/ app[a].status \in {"new", "preparing", "ready"}
             \/ app[a].status = "waiting_validation" /\ ~app[a].prepared

LEMMA StartTyped ==
    ASSUME Typed, NEW a \in Apps, NEW k \in Keys
    PROVE  LET s == Start(a, k) IN
           /\ s \in HandlerSet /\ s.app = a /\ s.key = k /\ s.sure
           /\ s.expected = app[a].status /\ s.now = clock /\ s.cur = app[a]
           /\ s.todo = {} /\ s.result = "ok"
<1>1. app[a] \in RowSet /\ app[a].status \in Statuses /\ clock \in Nat
  BY SubmitAssumption DEF Typed, RowSet
<1>2. QED BY <1>1, IdleTyped DEF Start, HandlerSet

LEMMA HandleBegins ==
    ASSUME Typed, NEW a \in Apps, NEW k \in Keys
    PROVE  Begins(Dispatch(Start(a, k)), a, k)
<1> DEFINE s == Start(a, k)
           n == Dispatch(s)
<1> SUFFICES Begins(n, a, k)
  OBVIOUS
<1>1. /\ s \in HandlerSet /\ s.app = a /\ s.key = k /\ s.sure
      /\ s.expected = app[a].status /\ s.now = clock /\ s.cur = app[a]
      /\ s.todo = {} /\ s.result = "ok"
  BY StartTyped
<1>2. app[a] \in RowSet /\ app[a].status \in Statuses BY DEF Typed, RowSet
<1> HIDE DEF s
<1>3. ASSUME NEW status \in Statuses, NEW steps \in SUBSET Steps
      PROVE  LET p == Prepares(s, status, steps) IN
             /\ p \in HandlerSet /\ p.app = a /\ p.key = k /\ p.sure
             /\ p.expected = app[a].status /\ p.now = clock /\ p.pc = "prepare"
             /\ p.cur.prepared = app[a].prepared /\ p.todo = steps /\ p.result = "ok"
  <2> DEFINE row == With(s.cur, status)
  <2>1. row \in RowSet /\ row.prepared = app[a].prepared BY <1>1, <1>2, WithTyped
  <2>2. Prepares(s, status, steps) =
          [s EXCEPT !.pc = "prepare", !.cur = row, !.todo = steps]
    BY DEF Prepares
  <2> HIDE DEF row
  <2>3. QED BY <1>1, <2>1, <2>2 DEF HandlerSet, Working
<1>4. ASSUME NEW steps \in SUBSET Steps
      PROVE  LET p == Does(s, steps) IN
             /\ p \in HandlerSet /\ p.app = a /\ p.key = k /\ p.sure
             /\ p.expected = app[a].status /\ p.now = clock /\ p.pc = "finish"
             /\ p.cur = app[a] /\ p.todo = steps /\ p.result = "ok"
  BY <1>1 DEF Does, HandlerSet
<1>5. CASE app[a].status = "submitted"
  <2>1. n = Does(s, {"commit", "restore"}) BY <1>1, <1>5 DEF Dispatch
  <2>2. {"commit", "restore"} \in SUBSET Steps BY DEF Steps
  <2>3. QED BY <1>4, <1>5, <2>1, <2>2 DEF Begins
<1>6. CASE app[a].status = "pending_reconcile"
  <2>1. n = [s EXCEPT !.pc = "reconcile"] BY <1>1, <1>6 DEF Dispatch
  <2>2. QED BY <1>1, <1>6, <2>1 DEF Begins, HandlerSet, Working
<1>7. CASE \/ app[a].status = "failed"
           \/ app[a].status = "waiting_validation" /\ app[a].prepared
  <2>1. n = Does(s, {"release", "restore"}) BY <1>1, <1>7 DEF Dispatch
  <2>2. {"release", "restore"} \in SUBSET Steps BY DEF Steps
  <2>3. QED BY <1>4, <1>7, <2>1, <2>2 DEF Begins
<1>8. CASE app[a].status = "waiting_validation" /\ ~app[a].prepared
  <2>1. n = Prepares(s, "preparing", {"release"}) BY <1>1, <1>8 DEF Dispatch
  <2>2. {"release"} \in SUBSET Steps /\ "preparing" \in Statuses
    BY DEF Steps, Statuses
  <2>3. QED BY <1>3, <1>8, <2>1, <2>2 DEF Begins
<1>9. CASE app[a].status \in {"skipped", "dry_run", "waiting_approval"}
  <2>1. n = Does(s, {}) BY <1>1, <1>9 DEF Dispatch
  <2>2. QED BY <1>4, <1>9, <2>1 DEF Begins
<1>10. CASE app[a].status = "submitting"
  <2> DEFINE row == With(s.cur, "pending_reconcile")
  <2>1. row \in RowSet /\ row.status = "pending_reconcile"
    BY <1>1, <1>2, WithTyped DEF Statuses
  <2>2. n = [s EXCEPT !.pc = "finish", !.cur = row, !.todo = {"save"},
                      !.result = "retryable"]
    BY <1>1, <1>10 DEF Dispatch, Parks
  <2> HIDE DEF row, n
  <2>3. QED BY <1>1, <1>10, <2>1, <2>2 DEF Begins, HandlerSet, Steps
<1>11. CASE app[a].status = "new"
  <2>1. n = Prepares(s, "preparing", {}) BY <1>1, <1>11 DEF Dispatch
  <2>2. "preparing" \in Statuses BY DEF Statuses
  <2>3. QED BY <1>3, <1>11, <2>1, <2>2 DEF Begins
<1>12. CASE app[a].status \in {"preparing", "ready"}
  <2>1. n = Prepares(s, app[a].status, {}) BY <1>1, <1>12 DEF Dispatch
  <2>2. QED BY <1>2, <1>3, <1>12, <2>1 DEF Begins
<1>13. app[a].prepared \in BOOLEAN BY <1>2 DEF RowSet
<1>14. QED
  BY <1>2, <1>5, <1>6, <1>7, <1>8, <1>9, <1>10, <1>11, <1>12, <1>13 DEF Statuses

(* The preparation ends the task with a status, or goes on to the slots.   *)
Ended(n, status) ==
    /\ SameTask(n) /\ n.pc = "finish" /\ n.todo = {"save"} /\ n.result = h.result
    /\ n.cur.status = status
Reserves(n) ==
    /\ SameTask(n) /\ n.pc = "reserve" /\ n.todo = h.todo /\ n.result = h.result
    /\ n.now = h.now
Decides(n) ==
    \/ Reserves(n)
    \/ Ended(n, "dry_run") \/ Ended(n, "waiting_approval") \/ Ended(n, "skipped")
    \/ Ended(n, "waiting_validation")

LEMMA ToldTyped ==
    ASSUME h \in HandlerSet, NEW status \in Statuses
    PROVE  Told(status) \in RowSet /\ Told(status).status = status
<1>1. h.cur \in RowSet BY DEF HandlerSet
<1>2. QED BY <1>1 DEF Told, RowSet

LEMMA EndsEnded ==
    ASSUME h \in HandlerSet, NEW status \in Statuses
    PROVE  Ended(Ends(status), status)
<1> DEFINE row == Told(status)
<1>1. row \in RowSet /\ row.status = status BY ToldTyped
<1>2. Ends(status) = [h EXCEPT !.pc = "finish", !.cur = row, !.todo = {"save"}]
  BY DEF Ends
<1> HIDE DEF row
<1>3. {"save"} \in SUBSET Steps BY DEF Steps
<1>4. Ends(status) \in HandlerSet BY <1>1, <1>2, <1>3 DEF HandlerSet
<1>5. QED BY <1>1, <1>2, <1>4 DEF Ended, SameTask, HandlerSet

LEMMA ProceedsDecides ==
    ASSUME h \in HandlerSet, NEW plan \in Plans PROVE Decides(Proceeds(plan))
<1> DEFINE row == Told("ready")
<1>1. row \in RowSet BY ToldTyped DEF Statuses
<1>2. "dry_run" \in Statuses /\ "waiting_approval" \in Statuses BY DEF Statuses
<1>3. plan \in PlanSet BY SubmitAssumption DEF PlanSet
<1>4. CASE plan.mode = "dry_run"
  BY <1>2, <1>4, EndsEnded DEF Proceeds, Decides
<1>5. CASE plan.mode = "approval"
  BY <1>2, <1>5, EndsEnded DEF Proceeds, Decides
<1>6. CASE plan.mode = "submit"
  <2>1. Proceeds(plan) = [h EXCEPT !.pc = "reserve", !.cur = row, !.plan = plan]
    BY <1>6 DEF Proceeds
  <2> HIDE DEF row
  <2>2. QED
    BY <1>1, <1>3, <2>1 DEF Decides, Reserves, SameTask, HandlerSet, Working
<1>7. QED BY <1>3, <1>4, <1>5, <1>6 DEF PlanSet

LEMMA DecidesSame == \A n : Decides(n) => SameTask(n)
BY DEF Decides, Reserves, Ended

LEMMA PrepareMoves ==
    ASSUME Typed, Prepare
    PROVE  /\ Typed'
           /\ \/ Errs(h') /\ UNCHANGED unsettled
              \/ Decides(h') /\ h.cur.prepared /\ UNCHANGED unsettled
              \/ Decides(h') /\ unsettled' = unsettled \ {h.app}
<1>1. h \in HandlerSet /\ h.pc # "idle" BY DEF Typed, Prepare
<1>2. UNCHANGED <<clock, app, op, saga, resume, drift, pace>>
  BY DEF Prepare, NoStore, HandlerOnly, paceVars, tailoringVars
<1>3. "skipped" \in Statuses /\ "waiting_validation" \in Statuses BY DEF Statuses
<1>4. PICK plan \in Plans :
        \/ h.cur.prepared /\ h' = Proceeds(plan) /\ UNCHANGED unsettled
        \/ h' \in {Returns("retryable"), Returns("failed")} /\ UNCHANGED unsettled
        \/ /\ unsettled' = unsettled \ {h.app}
           /\ \E d \in Decisions :
                h' = CASE d = "apply" -> Proceeds(plan)
                       [] d = "skip" -> Ends("skipped")
                       [] d = "review" -> Ends("waiting_validation")
  BY DEF Prepare
<1>5. CASE h.cur.prepared /\ h' = Proceeds(plan) /\ UNCHANGED unsettled
  BY <1>1, <1>2, <1>5, ProceedsDecides, DecidesSame, SameTyped
<1>6. CASE h' \in {Returns("retryable"), Returns("failed")} /\ UNCHANGED unsettled
  <2>1. Errs(h') BY <1>1, <1>6, ErrsTyped
  <2>2. QED BY <1>1, <1>2, <1>6, <2>1, SameTyped DEF Errs, Stops
<1>7. CASE /\ unsettled' = unsettled \ {h.app}
           /\ \E d \in Decisions :
                h' = CASE d = "apply" -> Proceeds(plan)
                       [] d = "skip" -> Ends("skipped")
                       [] d = "review" -> Ends("waiting_validation")
  <2>1. \/ h' = Proceeds(plan) \/ h' = Ends("skipped") \/ h' = Ends("waiting_validation")
    BY <1>7 DEF Decisions
  <2>2. Decides(h')
    BY <1>1, <1>3, <2>1, ProceedsDecides, EndsEnded DEF Decides
  <2>3. QED BY <1>1, <1>2, <1>7, <2>2, DecidesSame, SameTyped
<1>8. QED BY <1>4, <1>5, <1>6, <1>7

LEMMA PlanUnresolvedMoves ==
    ASSUME Typed, PlanUnresolved
    PROVE  Typed' /\ (Errs(h') \/ Saves(h', "waiting_validation", {}, "ok"))
<1>1. h \in HandlerSet /\ h.pc # "idle" BY DEF Typed, PlanUnresolved
<1>2. UNCHANGED <<clock, app, op, saga, resume, drift, pace>>
  BY DEF PlanUnresolved, NoStore, HandlerOnly, paceVars, tailoringVars
<1>3. \/ h' = Finishes("waiting_validation", {}, "ok")
      \/ h' \in {Returns("retryable"), Returns("failed")}
  BY DEF PlanUnresolved
<1>4. "waiting_validation" \in Statuses BY DEF Statuses
<1>5. Errs(h') \/ Saves(h', "waiting_validation", {}, "ok")
  BY <1>1, <1>3, <1>4, ErrsTyped, FinishesSaves DEF Results
<1>6. QED BY <1>1, <1>2, <1>5, SameTyped DEF Errs, Stops, Saves

LEMMA VacancyUnreadableMoves ==
    ASSUME Typed, VacancyUnreadable
    PROVE  /\ Typed'
           /\ \/ Saves(h', "skipped", {"release", "restore"}, "ok")
              \/ Saves(h', "failed", {}, "failed")
<1>1. h \in HandlerSet /\ h.pc # "idle" BY DEF Typed, VacancyUnreadable
<1>2. UNCHANGED <<clock, app, op, saga, resume, drift, pace>>
  BY DEF VacancyUnreadable, NoStore, HandlerOnly, paceVars, tailoringVars
<1>3. \/ h' = Finishes("skipped", {"release", "restore"}, "ok")
      \/ h' = Finishes("failed", {}, "failed")
  BY DEF VacancyUnreadable
<1>4. "skipped" \in Statuses /\ "failed" \in Statuses BY DEF Statuses
<1>5. \/ Saves(h', "skipped", {"release", "restore"}, "ok")
      \/ Saves(h', "failed", {}, "failed")
  BY <1>1, <1>3, <1>4, FinishesSaves DEF Results, Steps
<1>6. QED BY <1>1, <1>2, <1>5, SameTyped DEF Saves

LEMMA ReleaseFirstMoves ==
    ASSUME Typed, ReleaseFirst
    PROVE  Typed' /\ Drops(h', h.todo \ {"release"})
<1>1. h \in HandlerSet /\ h.pc # "idle" BY DEF Typed, ReleaseFirst
<1>2. Drops(h', h.todo \ {"release"}) BY <1>1, DoneDrops DEF ReleaseFirst
<1>3. UNCHANGED <<clock, app, op, saga, resume, drift, pace>>
  BY DEF ReleaseFirst, HandlerOnly, paceVars, tailoringVars
<1>4. QED BY <1>1, <1>2, <1>3, SameTyped DEF Drops

(* A step may besides move the slots, the rows or the saga.                *)
LEMMA PacedTyped ==
    ASSUME Typed, h.pc # "idle", SameTask(h'), PaceInvariant',
           UNCHANGED <<clock, app, op, saga, resume, drift>>
    PROVE  Typed'
BY DEF SameTask, Typed

LEMMA TailoredTyped ==
    ASSUME Typed, h.pc # "idle", SameTask(h'), saga' \in [Apps -> SagaSet],
           resume' \in ResumeSet, UNCHANGED <<clock, app, op, drift, pace>>
    PROVE  Typed'
BY DEF SameTask, Typed, PaceInvariant, SlotsSpaced, Acquired, Paced

LEMMA ReserveMoves ==
    ASSUME Typed, Reserve
    PROVE  Typed' /\ (GoesTo(h', "pace") \/ Saves(h', "ready", {}, "retryable"))
<1>1. h \in HandlerSet /\ h.pc # "idle" BY DEF Typed, Reserve
<1>2. UNCHANGED <<clock, app, op, saga, resume, drift, pace>>
  BY DEF Reserve, HandlerOnly, paceVars, tailoringVars
<1>3. \/ h' = [h EXCEPT !.pc = "pace", !.now = 0, !.at = h.now,
                        !.until = h.now + MaxPacingWait]
      \/ h' = Finishes("ready", {}, "retryable")
  BY DEF Reserve
<1>4. "ready" \in Statuses BY DEF Statuses
<1>5. CASE h' = Finishes("ready", {}, "retryable")
  <2>1. Saves(h', "ready", {}, "retryable")
    BY <1>1, <1>4, <1>5, FinishesSaves DEF Results
  <2>2. QED BY <1>1, <1>2, <2>1, SameTyped DEF Saves
<1>6. CASE h' = [h EXCEPT !.pc = "pace", !.now = 0, !.at = h.now,
                          !.until = h.now + MaxPacingWait]
  <2>1. h.now \in Nat /\ h.now + MaxPacingWait \in Nat
    BY <1>1, SubmitAssumption DEF HandlerSet
  <2>2. GoesTo(h', "pace")
    BY <1>1, <1>6, <2>1 DEF GoesTo, SameTask, HandlerSet, Working
  <2>3. QED BY <1>1, <1>2, <2>2, SameTyped DEF GoesTo
<1>7. QED BY <1>3, <1>5, <1>6

LEMMA AcquirePacingMoves ==
    ASSUME Typed, AcquirePacing
    PROVE  /\ Typed'
           /\ \/ GoesTo(h', "tailor") \/ GoesTo(h', "wait")
              \/ Saves(h', "ready", {"release"}, "retryable")
<1>1. h \in HandlerSet /\ h.pc # "idle" /\ h.app \in Apps /\ h.at \in Nat /\ h.tries \in Nat
  BY DEF Typed, AcquirePacing, HandlerSet
<1>2. UNCHANGED <<clock, app, op, saga, resume, drift>>
  BY DEF AcquirePacing, HandlerOnly, tailoringVars
<1>3. PICK i \in Intervals :
        /\ AcquireApplicationPace(h.app, i, h.at)
        /\ \/ h' = [h EXCEPT !.pc = "tailor", !.at = 0, !.until = 0, !.tries = 0]
           \/ h' = Finishes("ready", {"release"}, "retryable")
           \/ h' = [h EXCEPT !.pc = "wait", !.tries = h.tries + 1,
                             !.at = Larger(pace'[h.app].scheduledAt, h.at + 1)]
  BY DEF AcquirePacing
<1>4. PaceInvariant' /\ pace'[h.app].scheduledAt \in Nat
  BY <1>1, <1>3, SlotAcquired, SubmitAssumption DEF Typed
<1>5. Larger(pace'[h.app].scheduledAt, h.at + 1) \in Nat BY <1>1, <1>4 DEF Larger
<1>6. CASE h' = [h EXCEPT !.pc = "tailor", !.at = 0, !.until = 0, !.tries = 0]
  <2>1. GoesTo(h', "tailor")
    BY <1>1, <1>6 DEF GoesTo, SameTask, HandlerSet, Working
  <2>2. QED BY <1>1, <1>2, <1>4, <2>1, PacedTyped DEF GoesTo
<1>7. CASE h' = Finishes("ready", {"release"}, "retryable")
  <2>1. Saves(h', "ready", {"release"}, "retryable")
    BY <1>1, <1>7, FinishesSaves DEF Results, Statuses, Steps
  <2>2. QED BY <1>1, <1>2, <1>4, <2>1, PacedTyped DEF Saves
<1>8. CASE h' = [h EXCEPT !.pc = "wait", !.tries = h.tries + 1,
                          !.at = Larger(pace'[h.app].scheduledAt, h.at + 1)]
  <2>0. PICK late \in Nat : late = Larger(pace'[h.app].scheduledAt, h.at + 1)
    BY <1>5
  <2>1. GoesTo(h', "wait")
    <3>1. h' = [h EXCEPT !.pc = "wait", !.tries = h.tries + 1, !.at = late]
      BY <1>8, <2>0
    <3>2. h.tries + 1 \in Nat BY <1>1
    <3>3. QED BY <1>1, <3>1, <3>2 DEF GoesTo, SameTask, HandlerSet, Working
  <2>2. QED BY <1>1, <1>2, <1>4, <2>1, PacedTyped DEF GoesTo
<1>9. QED BY <1>3, <1>6, <1>7, <1>8

LEMMA PacingWaitMoves ==
    ASSUME Typed, PacingWait
    PROVE  /\ Typed'
           /\ GoesTo(h', "pace") \/ Saves(h', "ready", {"release"}, "retryable")
<1>1. h \in HandlerSet /\ h.pc # "idle" /\ clock \in Nat
  BY SubmitAssumption DEF Typed, PacingWait
<1>2. UNCHANGED <<clock, app, op, saga, resume, drift, pace>>
  BY DEF PacingWait, NoStore, HandlerOnly, paceVars, tailoringVars
<1>3. \/ h' = [h EXCEPT !.pc = "pace", !.at = clock]
      \/ h' = Finishes("ready", {"release"}, "retryable")
  BY DEF PacingWait
<1>4. \/ GoesTo(h', "pace") \/ Saves(h', "ready", {"release"}, "retryable")
  <2>1. CASE h' = [h EXCEPT !.pc = "pace", !.at = clock]
    BY <1>1, <2>1 DEF GoesTo, SameTask, HandlerSet, Working
  <2>2. CASE h' = Finishes("ready", {"release"}, "retryable")
    BY <1>1, <2>2, FinishesSaves DEF Results, Statuses, Steps
  <2>3. QED BY <1>3, <2>1, <2>2
<1>5. QED BY <1>1, <1>2, <1>4, SameTyped DEF GoesTo, Saves

LEMMA SlotUnavailableMoves ==
    ASSUME Typed, SlotUnavailable
    PROVE  /\ Typed'
           /\ \/ Saves(h', "ready", {}, "retryable")
              \/ Saves(h', "ready", {"release"}, "retryable")
<1>1. h \in HandlerSet /\ h.pc # "idle" BY DEF Typed, SlotUnavailable
<1>2. UNCHANGED <<clock, app, op, saga, resume, drift, pace>>
  BY DEF SlotUnavailable, NoStore, HandlerOnly, paceVars, tailoringVars
<1>3. \/ Saves(h', "ready", {}, "retryable")
      \/ Saves(h', "ready", {"release"}, "retryable")
  BY <1>1, FinishesSaves DEF SlotUnavailable, Results, Statuses, Steps
<1>4. QED BY <1>1, <1>2, <1>3, SameTyped DEF Saves

(* The saga of one application changes its status, ...                     *)
SagaStatuses ==
    {"none", "planned", "applying", "applied", "submitting", "restoring",
     "restored", "recovery_required"}
SagaMoves(a, status) ==
    /\ saga' \in [Apps -> SagaSet] /\ saga'[a].status = status
    /\ saga'[a].baseline = saga[a].baseline
    /\ \A b \in Apps \ {a} : saga'[b] = saga[b]

LEMMA SagaBecomesMoves ==
    ASSUME saga \in [Apps -> SagaSet], NEW a \in Apps, NEW status \in SagaStatuses,
           SagaBecomes(a, status)
    PROVE  SagaMoves(a, status)
<1>1. saga[a] \in SagaSet OBVIOUS
<1> DEFINE s == [saga[a] EXCEPT !.status = status]
<1>2. s \in SagaSet /\ s.status = status /\ s.baseline = saga[a].baseline
  BY <1>1 DEF SagaSet, SagaStatuses
<1>3. saga' = [saga EXCEPT ![a] = s] BY <1>1 DEF SagaBecomes
<1> HIDE DEF s
<1>4. QED BY <1>2, <1>3 DEF SagaMoves

(* ... and the platform's resume moves between the ends of its proposal.   *)
LEMMA TargetsTyped ==
    ASSUME saga \in [Apps -> SagaSet], NEW a \in Apps
    PROVE  /\ saga[a].baseline \in ResumeSet
           /\ Tailored(a) \in ResumeSet /\ Tailored(a).text = saga[a].baseline.text
           /\ HalfTailored(a) \in ResumeSet
           /\ HalfTailored(a).text = saga[a].baseline.text
<1>1. saga[a].baseline \in ResumeSet BY DEF SagaSet
<1>2. QED BY <1>1 DEF Tailored, HalfTailored, ResumeSet

(* A request leaves some of what it wants over what was there.             *)
Writes(a) == UNCHANGED saga /\ resume' \in ResumeSet

LEMMA WriteWrites ==
    ASSUME Typed, NEW a \in Apps, NEW target \in {saga[a].baseline, Tailored(a)},
           WriteProfileState(a, target)
    PROVE  Writes(a) /\ resume'.text \in {resume.text, saga[a].baseline.text}
<1>1. UNCHANGED saga /\ resume' \in Lands(a, target) BY DEF WriteProfileState
<1>2. /\ resume \in ResumeSet /\ saga[a].baseline \in ResumeSet
      /\ Tailored(a) \in ResumeSet /\ Tailored(a).text = saga[a].baseline.text
      /\ HalfTailored(a) \in ResumeSet
      /\ HalfTailored(a).text = saga[a].baseline.text
  BY TargetsTyped DEF Typed
<1>3. PICK r \in ResumeSet : r = [HalfTailored(a) EXCEPT !.text = resume.text]
                             /\ r.text = resume.text
  <2>1. PICK half \in ResumeSet, t \in Texts \cup {NoApp} :
          half = HalfTailored(a) /\ t = resume.text
    BY <1>2 DEF ResumeSet
  <2>2. [half EXCEPT !.text = t] \in ResumeSet /\ [half EXCEPT !.text = t].text = t
    BY DEF ResumeSet
  <2>3. QED BY <2>1, <2>2
<1>4. resume' \in {resume, target, HalfTailored(a), r} BY <1>1, <1>3 DEF Lands
<1>5. QED BY <1>1, <1>2, <1>3, <1>4 DEF Writes

LEMMA ReadingTyped ==
    ASSUME Typed, NEW a \in Apps, Between(a, resume)
    PROVE  resume.text = saga[a].baseline.text
BY TargetsTyped DEF Typed, Between

LEMMA TailorMoves ==
    ASSUME Typed, Tailor
    PROVE  /\ Typed'
           /\ \/ GoesTo(h', "submit")
              \/ GoesTo(h', "apply") /\ Unfinished(h.app)
              \/ GoesTo(h', "plan") /\ h'.seen = resume /\ ~Unfinished(h.app)
              \/ Saves(h', "ready", {"release"}, "retryable")
              \/ Saves(h', "ready", {"release"}, "failed")
<1>1. h \in HandlerSet /\ h.pc # "idle" /\ h.app \in Apps /\ saga[h.app] \in SagaSet
      /\ resume \in ResumeSet
  BY DEF Typed, Tailor
<1>2. UNCHANGED <<clock, app, op, saga, resume, drift, pace>>
  BY DEF Tailor, NoStore, HandlerOnly, paceVars, tailoringVars
<1>3. CASE ~h.plan.tailors
  <2>1. h' = [h EXCEPT !.pc = "submit"] BY <1>3 DEF Tailor
  <2>2. GoesTo(h', "submit") BY <1>1, <2>1, GoesGoesTo DEF Working
  <2>3. QED BY <1>1, <1>2, <2>2, SameTyped DEF GoesTo
<1>4. CASE h.plan.tailors /\ ~Unfinished(h.app)
  <2>1. \/ h' = [h EXCEPT !.pc = "plan", !.seen = resume]
        \/ h' = Finishes("ready", {"release"}, "retryable")
    BY <1>4 DEF Tailor, TailoringError
  <2>2. CASE h' = [h EXCEPT !.pc = "plan", !.seen = resume]
    <3>1. GoesTo(h', "plan") /\ h'.seen = resume
      BY <1>1, <2>2 DEF GoesTo, SameTask, HandlerSet, Working
    <3>2. QED BY <1>1, <1>2, <1>4, <3>1, SameTyped DEF GoesTo
  <2>3. CASE h' = Finishes("ready", {"release"}, "retryable")
    <3>1. Saves(h', "ready", {"release"}, "retryable")
      BY <1>1, <2>3, FinishesSaves DEF Results, Statuses, Steps
    <3>2. QED BY <1>1, <1>2, <3>1, SameTyped DEF Saves
  <2>4. QED BY <2>1, <2>2, <2>3
<1>5. CASE h.plan.tailors /\ Unfinished(h.app)
  <2>1. \/ h' = [h EXCEPT !.pc = "apply"]
        \/ h' = [h EXCEPT !.pc = "submit"]
        \/ h' = Finishes("ready", {"release"}, "failed")
    BY <1>5 DEF Tailor, TailoringError
  <2>2. \/ GoesTo(h', "apply") \/ GoesTo(h', "submit")
        \/ Saves(h', "ready", {"release"}, "failed")
    BY <1>1, <2>1, GoesGoesTo, FinishesSaves DEF Working, Results, Statuses, Steps
  <2>3. QED BY <1>1, <1>2, <1>5, <2>2, SameTyped DEF GoesTo, Saves
<1>6. QED BY <1>3, <1>4, <1>5

(* A saga is created on the resume that was read, with no other under way. *)
Creates(a, seen) ==
    /\ UNCHANGED resume /\ saga' \in [Apps -> SagaSet] /\ saga'[a].status = "planned"
    /\ saga'[a].baseline = seen /\ ~MutationLocked(a)
    /\ \A b \in Apps \ {a} : saga'[b] = saga[b]

LEMMA PlanTailoringMoves ==
    ASSUME Typed, PlanTailoring
    PROVE  /\ Typed'
           /\ \/ GoesTo(h', "apply") /\ Creates(h.app, h.seen)
              \/ GoesTo(h', "submit") /\ UNCHANGED tailoringVars
              \/ Saves(h', "ready", {"release"}, "retryable") /\ UNCHANGED tailoringVars
              \/ Saves(h', "ready", {"release"}, "failed") /\ UNCHANGED tailoringVars
<1> DEFINE attempt == h.cur.attempts + 1
<1>1. /\ h \in HandlerSet /\ h.pc # "idle" /\ h.app \in Apps /\ h.seen \in ResumeSet
      /\ attempt \in Nat /\ saga \in [Apps -> SagaSet] /\ resume \in ResumeSet
  BY DEF Typed, PlanTailoring, HandlerSet, RowSet
<1>2. UNCHANGED <<clock, app, op, drift, pace>>
  BY DEF PlanTailoring, HandlerOnly, paceVars
<1>3. \/ CreateApplicationTailoring(h.app, attempt, h.seen) /\ h' = [h EXCEPT !.pc = "apply"]
      \/ /\ UNCHANGED tailoringVars
         /\ \/ h' = [h EXCEPT !.pc = "submit"]
            \/ h' = Finishes("ready", {"release"}, "retryable")
            \/ h' = Finishes("ready", {"release"}, "failed")
  BY DEF PlanTailoring, TailoringError
<1> HIDE DEF attempt
<1>4. CASE /\ CreateApplicationTailoring(h.app, attempt, h.seen)
           /\ h' = [h EXCEPT !.pc = "apply"]
  <2>1. GoesTo(h', "apply") BY <1>1, <1>4, GoesGoesTo DEF Working
  <2> DEFINE new == [status |-> "planned", attempt |-> attempt,
                     baseline |-> h.seen, changes |-> FALSE]
  <2>2. /\ saga' = [saga EXCEPT ![h.app] = new] /\ UNCHANGED resume
        /\ ~MutationLocked(h.app)
    BY <1>4 DEF CreateApplicationTailoring
  <2>3. new \in SagaSet /\ new.status = "planned" /\ new.baseline = h.seen
    BY <1>1 DEF SagaSet
  <2> HIDE DEF new
  <2>4. Creates(h.app, h.seen) BY <1>1, <2>2, <2>3 DEF Creates
  <2>5. Typed' BY <1>1, <1>2, <2>1, <2>4, TailoredTyped DEF GoesTo, Creates
  <2>6. QED BY <2>1, <2>4, <2>5
<1>5. CASE /\ UNCHANGED tailoringVars
           /\ \/ h' = [h EXCEPT !.pc = "submit"]
              \/ h' = Finishes("ready", {"release"}, "retryable")
              \/ h' = Finishes("ready", {"release"}, "failed")
  <2>1. \/ GoesTo(h', "submit")
        \/ Saves(h', "ready", {"release"}, "retryable")
        \/ Saves(h', "ready", {"release"}, "failed")
    BY <1>1, <1>5, GoesGoesTo, FinishesSaves DEF Working, Results, Statuses, Steps
  <2>2. Typed'
    BY <1>1, <1>2, <1>5, <2>1, SameTyped DEF GoesTo, Saves, tailoringVars
  <2>3. QED BY <1>5, <2>1, <2>2
<1>6. QED BY <1>3, <1>4, <1>5

(* The phase is recorded, the resume read, written or checked, or found to *)
(* be another than the saga left.                                          *)
Driven ==
    \/ UNCHANGED h /\ h.pc = "apply" /\ UNCHANGED resume /\ SagaMoves(h.app, "applying")
    \/ /\ GoesTo(h', "write") /\ h'.seen = resume
       /\ UNCHANGED <<saga, resume>> /\ Between(h.app, resume)
    \/ /\ \/ GoesTo(h', "check") \/ GoesTo(h', "applied")
          \/ UNCHANGED h /\ h.pc = "write"
          \/ Saves(h', "ready", {"release"}, "retryable")
       /\ Writes(h.app)
    \/ /\ Saves(h', "ready", {"release"}, "failed") /\ UNCHANGED resume
       /\ SagaMoves(h.app, "recovery_required")

LEMMA DrivenTyped ==
    ASSUME Typed, h.pc # "idle", Driven, UNCHANGED <<clock, app, op, drift, pace>>
    PROVE  Typed'
<1>1. saga \in [Apps -> SagaSet] /\ resume \in ResumeSet /\ h \in HandlerSet
  BY DEF Typed
<1>2. SameTask(h') BY <1>1 DEF Driven, GoesTo, Saves, SameTask
<1>3. saga' \in [Apps -> SagaSet] /\ resume' \in ResumeSet
  BY <1>1 DEF Driven, Writes, SagaMoves
<1>4. QED BY <1>2, <1>3, TailoredTyped

LEMMA DriveMoves ==
    ASSUME Typed, DriveApply \/ DriveWrite \/ DriveCheck
    PROVE  Typed' /\ Driven
<1>1. /\ h \in HandlerSet /\ h.pc # "idle" /\ h.app \in Apps
      /\ saga \in [Apps -> SagaSet] /\ resume \in ResumeSet
  BY DEF Typed, DriveApply, DriveWrite, DriveCheck
<1>2. UNCHANGED <<clock, app, op, drift, pace>>
  BY DEF DriveApply, DriveWrite, DriveCheck, HandlerOnly, paceVars
<1>3. Saves(TailoringError("retryable"), "ready", {"release"}, "retryable")
      /\ Saves(TailoringError("failed"), "ready", {"release"}, "failed")
  BY <1>1, FinishesSaves DEF TailoringError, Results, Statuses, Steps
<1>4. /\ GoesTo([h EXCEPT !.pc = "check"], "check")
      /\ GoesTo([h EXCEPT !.pc = "applied"], "applied")
  BY <1>1, GoesGoesTo DEF Working
<1>5. /\ GoesTo(Having([h EXCEPT !.pc = "write"]), "write")
      /\ Having([h EXCEPT !.pc = "write"]).seen = resume
  BY <1>1, HavingSeen DEF Working
<1>6. UNCHANGED tailoringVars => Writes(h.app) BY <1>1 DEF Writes, tailoringVars
<1>7. SUFFICES Driven BY <1>1, <1>2, DrivenTyped
<1>8. CASE WriteConflicts(h.app) /\ h' = TailoringError("failed")
  <2>1. SagaMoves(h.app, "recovery_required") /\ UNCHANGED resume
    BY <1>1, <1>8, SagaBecomesMoves DEF WriteConflicts, SagaStatuses
  <2>2. QED BY <1>3, <1>8, <2>1 DEF Driven
<1>9. CASE DriveApply /\ BeginApply(h.app) /\ UNCHANGED h
  <2>1. SagaMoves(h.app, "applying") /\ UNCHANGED resume
    BY <1>1, <1>9, SagaBecomesMoves DEF BeginApply, SagaStatuses
  <2>2. QED BY <1>9, <2>1 DEF Driven, DriveApply
<1>10. CASE /\ UNCHANGED tailoringVars
            /\ h' = [h EXCEPT !.pc = "applied"] \/ h' = TailoringError("retryable")
  BY <1>3, <1>4, <1>6, <1>10 DEF Driven
<1>11. CASE /\ UNCHANGED tailoringVars /\ Between(h.app, resume)
            /\ h' = Having([h EXCEPT !.pc = "write"])
  BY <1>5, <1>11 DEF Driven, tailoringVars
<1>12. CASE DriveWrite
  <2>1. Writes(h.app) BY <1>1, <1>12, WriteWrites DEF DriveWrite
  <2>2. \/ GoesTo(h', "check") \/ (UNCHANGED h /\ h.pc = "write")
        \/ Saves(h', "ready", {"release"}, "retryable")
    BY <1>3, <1>4, <1>12 DEF DriveWrite
  <2>3. QED BY <2>1, <2>2 DEF Driven
<1>13. QED
  BY <1>8, <1>9, <1>10, <1>11, <1>12 DEF DriveApply, DriveCheck

LEMMA DriveAppliedMoves ==
    ASSUME Typed, DriveApplied
    PROVE  /\ Typed' /\ GoesTo(h', "submit")
           /\ UNCHANGED resume /\ SagaMoves(h.app, "applied")
<1>1. /\ h \in HandlerSet /\ h.pc # "idle" /\ h.app \in Apps
      /\ saga \in [Apps -> SagaSet] /\ resume \in ResumeSet
  BY DEF Typed, DriveApplied
<1>2. UNCHANGED <<clock, app, op, drift, pace>>
  BY DEF DriveApplied, HandlerOnly, paceVars
<1>3. SagaMoves(h.app, "applied") /\ UNCHANGED resume
  BY <1>1, SagaBecomesMoves DEF DriveApplied, RecordApplied, SagaStatuses
<1>4. GoesTo(h', "submit") BY <1>1, GoesGoesTo DEF DriveApplied, Working
<1>5. QED BY <1>1, <1>2, <1>3, <1>4, TailoredTyped DEF GoesTo, SagaMoves

(* A row is saved: the stored one had the status that was expected.        *)
RowSaved(a, status) ==
    /\ app' \in [Apps -> RowSet] /\ app'[a].status = status
    /\ \A b \in Apps \ {a} : app'[b] = app[b]

LEMMA BeginSubmittingMoves ==
    ASSUME Typed, BeginSubmitting
    PROVE  /\ Typed'
           /\ \/ Errs(h') /\ UNCHANGED app
              \/ /\ app[h.app].status = h.expected /\ RowSaved(h.app, "submitting")
                 /\ h' \in HandlerSet /\ h'.app = h.app /\ h'.key = h.key
                 /\ h'.pc = "begin" /\ h'.expected = "submitting" /\ h'.todo = h.todo
                 /\ h'.sure = h.sure /\ h'.result = h.result
<1>1. h \in HandlerSet /\ h.pc # "idle" /\ h.app \in Apps /\ h.cur \in RowSet
  BY DEF Typed, BeginSubmitting, HandlerSet
<1>2. UNCHANGED <<clock, op, saga, resume, drift, pace>>
  BY DEF BeginSubmitting, HandlerOnly, paceVars, tailoringVars
<1> DEFINE row == [h.cur EXCEPT !.status = "submitting", !.attempts = h.cur.attempts + 1]
<1>3. row \in RowSet /\ row.status = "submitting"
  <2>1. PICK cur \in RowSet : cur = h.cur BY <1>1
  <2>2. cur.attempts + 1 \in Nat BY DEF RowSet
  <2>3. row = [cur EXCEPT !.status = "submitting", !.attempts = cur.attempts + 1]
    BY <2>1
  <2>4. QED BY <2>2, <2>3 DEF RowSet, Statuses
<1>4. \/ /\ app[h.app].status = h.expected /\ app' = [app EXCEPT ![h.app] = row]
         /\ h' = [h EXCEPT !.pc = "begin", !.cur = row, !.expected = "submitting"]
      \/ h' = Returns("failed") /\ UNCHANGED app
  BY DEF BeginSubmitting, SaveApplication, SaveConflict
<1> HIDE DEF row
<1>5. CASE h' = Returns("failed") /\ UNCHANGED app
  <2>1. Errs(h') BY <1>1, <1>5, ErrsTyped
  <2>2. QED BY <1>1, <1>2, <1>5, <2>1, SameTyped DEF Errs, Stops
<1>6. CASE /\ app[h.app].status = h.expected /\ app' = [app EXCEPT ![h.app] = row]
           /\ h' = [h EXCEPT !.pc = "begin", !.cur = row, !.expected = "submitting"]
  <2>1. RowSaved(h.app, "submitting") BY <1>1, <1>3, <1>6 DEF RowSaved, Typed
  <2>2. /\ h' \in HandlerSet /\ h'.app = h.app /\ h'.key = h.key
        /\ h'.pc = "begin" /\ h'.expected = "submitting" /\ h'.todo = h.todo
        /\ h'.sure = h.sure /\ h'.result = h.result
    BY <1>1, <1>3, <1>6 DEF HandlerSet, Working, Sending, Statuses
  <2>3. Typed'
    BY <1>1, <1>2, <2>1, <2>2
    DEF Typed, RowSaved, PaceInvariant, SlotsSpaced, Acquired, Paced
  <2>4. QED BY <1>6, <2>1, <2>2, <2>3
<1>7. QED BY <1>4, <1>5, <1>6

(* The slot is given back and the resume restored.                        *)
Giving == {"release", "restore"}

LEMMA BeginSubmitMoves ==
    ASSUME Typed, BeginSubmit \/ VerifyTailoring
    PROVE  /\ Typed' /\ UNCHANGED resume
           /\ \/ UNCHANGED saga
              \/ SagaMoves(h.app, "submitting") \/ SagaMoves(h.app, "recovery_required")
           /\ \/ GoesTo(h', "verify") \/ GoesTo(h', "send")
              \/ Saves(h', "failed", Giving, "failed")
              \/ Saves(h', "ready", Giving, "retryable")
<1>1. /\ h \in HandlerSet /\ h.pc # "idle" /\ h.app \in Apps
      /\ saga \in [Apps -> SagaSet] /\ resume \in ResumeSet
  BY DEF Typed, BeginSubmit, VerifyTailoring
<1>2. UNCHANGED <<clock, app, op, drift, pace>>
  BY DEF BeginSubmit, VerifyTailoring, NoStore, HandlerOnly, paceVars
<1>3. \/ h' = [h EXCEPT !.pc = "send"] \/ h' = Having([h EXCEPT !.pc = "verify"])
      \/ h' = Finishes("failed", Giving, "failed")
      \/ h' = Finishes("ready", Giving, "retryable")
  BY DEF BeginSubmit, VerifyTailoring, BeginFails, Giving
<1>4. \/ GoesTo(h', "verify") \/ GoesTo(h', "send")
      \/ Saves(h', "failed", Giving, "failed")
      \/ Saves(h', "ready", Giving, "retryable")
  <2>1. /\ Giving \in SUBSET Steps /\ "failed" \in Statuses /\ "ready" \in Statuses
        /\ "send" \in Working /\ "verify" \in Working
    BY DEF Giving, Steps, Statuses, Working, Sending
  <2>2. QED BY <1>1, <1>3, <2>1, GoesGoesTo, HavingSeen, FinishesSaves DEF Results
<1>5. \/ UNCHANGED tailoringVars \/ VerifyAndBeginSubmit(h.app, h.seen)
  BY DEF BeginSubmit, VerifyTailoring, NoStore
<1>6. /\ UNCHANGED resume
      /\ \/ UNCHANGED saga
         \/ SagaMoves(h.app, "submitting") \/ SagaMoves(h.app, "recovery_required")
  <2>1. CASE UNCHANGED tailoringVars BY <2>1 DEF tailoringVars
  <2>2. CASE VerifyAndBeginSubmit(h.app, h.seen)
    BY <1>1, <2>2, SagaBecomesMoves DEF VerifyAndBeginSubmit, SagaStatuses
  <2>3. QED BY <1>5, <2>1, <2>2
<1>7. SameTask(h') BY <1>4 DEF GoesTo, Saves
<1>8. saga' \in [Apps -> SagaSet] /\ resume' \in ResumeSet BY <1>1, <1>6 DEF SagaMoves
<1>9. QED BY <1>1, <1>2, <1>4, <1>6, <1>7, <1>8, TailoredTyped

(* The platform's answer decides the status that is saved, and the calls   *)
(* that follow.  Only an answer that counts as submitted is committed.     *)
Counting == {"commit", "restore"}
Answered(n) ==
    \/ Saves(n, "submitted", Counting, "ok")
    \/ \E status \in {"skipped", "waiting_validation", "failed"} :
          Saves(n, status, Giving, "ok")
    \/ Saves(n, "pending_reconcile", {}, "retryable")
    \/ Saves(n, "ready", Giving, "retryable")
    \/ Saves(n, "ready", Giving, "failed")
    \/ Saves(n, "failed", Giving, "failed")

LEMMA AnsweredSame == \A n : Answered(n) => SameTask(n)
BY DEF Answered, Saves

LEMMA AnswersKnown ==
    /\ Giving \in SUBSET Steps /\ Counting \in SUBSET Steps
    /\ {"skipped", "waiting_validation", "failed", "ready", "submitted",
        "pending_reconcile"} \subseteq Statuses
BY DEF Giving, Counting, Steps, Statuses

LEMMA RefusedSaves ==
    ASSUME h \in HandlerSet, NEW status \in Statuses, NEW result \in Results
    PROVE  Saves(Refused(status, result), status, Giving, result)
BY FinishesSaves, AnswersKnown DEF Refused, Giving

LEMMA SubmittedSaves ==
    ASSUME h \in HandlerSet PROVE Saves(Submitted, "submitted", Counting, "ok")
BY FinishesSaves, AnswersKnown DEF Submitted, Counting, Results

LEMMA SubmitApplicationMoves ==
    ASSUME Typed, SubmitApplication
    PROVE  Typed' /\ (GoesTo(h', "browser") \/ Answered(h'))
<1>1. h \in HandlerSet /\ h.pc # "idle" BY DEF Typed, SubmitApplication
<1>2. UNCHANGED <<clock, app, op, saga, resume, drift, pace>>
  BY DEF SubmitApplication, NoStore, HandlerOnly, paceVars, tailoringVars
<1>3. PICK answer \in AllAnswers : h' \in AfterAnswer(answer)
  BY SubmitAssumption DEF SubmitApplication
<1>4. \/ h' = Submitted
      \/ \E status \in {"skipped", "waiting_validation"} : h' = Refused(status, "ok")
      \/ h' = Finishes("pending_reconcile", {}, "retryable")
      \/ h' = [h EXCEPT !.pc = "browser"]
      \/ h' = Refused("ready", "retryable") \/ h' = Refused("ready", "failed")
      \/ h' = Refused("failed", "failed")
  <2>1. CASE answer = "ok" BY <1>3, <2>1 DEF AfterAnswer
  <2>2. CASE answer \in {"already", "closed"} BY <1>3, <2>2 DEF AfterAnswer
  <2>3. CASE answer = "ambiguous" BY <1>3, <2>3 DEF AfterAnswer
  <2>4. CASE answer = "validation" BY <1>3, <2>4 DEF AfterAnswer
  <2>5. CASE answer = "confirmation" BY <1>3, <2>5 DEF AfterAnswer
  <2>6. CASE answer = "temporary" BY <1>3, <2>6 DEF AfterAnswer
  <2>7. CASE answer = "unauthorized" BY <1>3, <2>7 DEF AfterAnswer
  <2>8. CASE answer = "permanent" BY <1>3, <2>8 DEF AfterAnswer
  <2>9. QED
    BY <2>1, <2>2, <2>3, <2>4, <2>5, <2>6, <2>7, <2>8 DEF AllAnswers
<1>5. GoesTo(h', "browser") \/ Answered(h')
  <2>1. CASE h' = Submitted BY <1>1, <2>1, SubmittedSaves DEF Answered
  <2>2. CASE \E status \in {"skipped", "waiting_validation"} : h' = Refused(status, "ok")
    BY <1>1, <2>2, RefusedSaves, AnswersKnown DEF Answered, Results
  <2>3. CASE h' = Finishes("pending_reconcile", {}, "retryable")
    BY <1>1, <2>3, FinishesSaves, AnswersKnown DEF Answered, Results
  <2>4. CASE h' = [h EXCEPT !.pc = "browser"]
    BY <1>1, <2>4, GoesGoesTo DEF Working, Sending
  <2>5. CASE h' = Refused("ready", "retryable") \/ h' = Refused("ready", "failed")
    BY <1>1, <2>5, RefusedSaves, AnswersKnown DEF Answered, Results
  <2>6. CASE h' = Refused("failed", "failed")
    BY <1>1, <2>6, RefusedSaves, AnswersKnown DEF Answered, Results
  <2>7. QED BY <1>4, <2>1, <2>2, <2>3, <2>4, <2>5, <2>6
<1>6. SameTask(h') BY <1>5, AnsweredSame DEF GoesTo
<1>7. QED BY <1>1, <1>2, <1>5, <1>6, SameTyped

(* The browser's outcome is known, or it is not and the row waits for      *)
(* validation.                                                             *)
BrowserSaves(n) ==
    /\ n \in HandlerSet /\ n.app = h.app /\ n.key = h.key /\ n.expected = h.expected
    /\ n.pc = "finish" /\ n.result = "ok"
    /\ \/ n.cur.status = "submitted" /\ n.todo = {"save"} \cup Counting /\ n.sure
       \/ n.cur.status = "waiting_validation" /\ n.todo = {"save"} \cup Giving

LEMMA BrowserFallbackMoves ==
    ASSUME Typed, BrowserFallback PROVE Typed' /\ BrowserSaves(h')
<1>1. h \in HandlerSet /\ h.pc # "idle" /\ h.app \in Apps
  BY DEF Typed, BrowserFallback
<1>2. UNCHANGED <<clock, app, op, saga, resume, drift, pace>>
  BY DEF BrowserFallback, NoStore, HandlerOnly, paceVars, tailoringVars
<1>3. PICK sure \in BOOLEAN :
        \/ h' = [Submitted EXCEPT !.sure = sure] /\ sure
        \/ h' = [Refused("waiting_validation", "ok") EXCEPT !.sure = sure]
  BY DEF BrowserFallback
<1>4. CASE h' = [Submitted EXCEPT !.sure = sure] /\ sure
  <2>1. PICK n : n = Submitted OBVIOUS
  <2>2. Saves(n, "submitted", Counting, "ok") BY <1>1, <2>1, SubmittedSaves
  <2>3. h' = [n EXCEPT !.sure = sure] /\ sure BY <1>4, <2>1
  <2>4. BrowserSaves(h')
    BY <1>1, <2>2, <2>3 DEF Saves, SameTask, BrowserSaves, HandlerSet
  <2>5. QED BY <1>1, <1>2, <2>4, HandlerTyped DEF BrowserSaves
<1>5. CASE h' = [Refused("waiting_validation", "ok") EXCEPT !.sure = sure]
  <2>1. PICK n : n = Refused("waiting_validation", "ok") OBVIOUS
  <2>2. Saves(n, "waiting_validation", Giving, "ok")
    BY <1>1, <2>1, RefusedSaves, AnswersKnown DEF Results
  <2>3. h' = [n EXCEPT !.sure = sure] BY <1>5, <2>1
  <2>4. BrowserSaves(h')
    BY <1>1, <2>2, <2>3 DEF Saves, SameTask, BrowserSaves, HandlerSet
  <2>5. QED BY <1>1, <1>2, <2>4, HandlerTyped DEF BrowserSaves
<1>6. QED BY <1>3, <1>4, <1>5

LEMMA ReconcileMoves ==
    ASSUME Typed, Reconcile PROVE Typed' /\ (Errs(h') \/ Answered(h'))
<1>1. h \in HandlerSet /\ h.pc # "idle" BY DEF Typed, Reconcile
<1>2. UNCHANGED <<clock, app, op, saga, resume, drift, pace>>
  BY DEF Reconcile, NoStore, HandlerOnly, paceVars, tailoringVars
<1>3. \/ h' = Submitted \/ h' = Refused("failed", "ok")
      \/ h' \in {Returns("retryable"), Returns("failed")}
  BY DEF Reconcile
<1>4. Errs(h') \/ Answered(h')
  <2>1. CASE h' = Submitted BY <1>1, <2>1, SubmittedSaves DEF Answered
  <2>2. CASE h' = Refused("failed", "ok")
    BY <1>1, <2>2, RefusedSaves, AnswersKnown DEF Answered, Results
  <2>3. CASE h' \in {Returns("retryable"), Returns("failed")}
    BY <1>1, <2>3, ErrsTyped
  <2>4. QED BY <1>3, <2>1, <2>2, <2>3
<1>5. SameTask(h') BY <1>4, AnsweredSame DEF Errs, Stops
<1>6. QED BY <1>1, <1>2, <1>4, <1>5, SameTyped

LEMMA SaveOutcomeMoves ==
    ASSUME Typed, SaveOutcome
    PROVE  /\ Typed'
           /\ \/ Errs(h') /\ UNCHANGED <<app, unsettled>>
              \/ /\ app[h.app].status = h.expected
                 /\ app' = [app EXCEPT ![h.app] = h.cur]
                 /\ RowSaved(h.app, h.cur.status) /\ Drops(h', h.todo \ {"save"})
<1>1. h \in HandlerSet /\ h.pc # "idle" /\ h.app \in Apps /\ h.cur \in RowSet
  BY DEF Typed, SaveOutcome, Doing, HandlerSet
<1>2. UNCHANGED <<clock, op, saga, resume, drift, pace>>
  BY DEF SaveOutcome, HandlerOnly, paceVars, tailoringVars
<1>3. \/ /\ app[h.app].status = h.expected /\ app' = [app EXCEPT ![h.app] = h.cur]
         /\ h' = Done("save")
      \/ h' = Returns("failed") /\ UNCHANGED <<app, unsettled>>
  BY DEF SaveOutcome, SaveApplication, SaveConflict
<1>4. CASE h' = Returns("failed") /\ UNCHANGED <<app, unsettled>>
  <2>1. Errs(h') BY <1>1, <1>4, ErrsTyped
  <2>2. QED BY <1>1, <1>2, <1>4, <2>1, SameTyped DEF Errs, Stops
<1>5. CASE /\ app[h.app].status = h.expected /\ app' = [app EXCEPT ![h.app] = h.cur]
           /\ h' = Done("save")
  <2>1. RowSaved(h.app, h.cur.status) BY <1>1, <1>5 DEF RowSaved, Typed
  <2>2. Drops(h', h.todo \ {"save"}) BY <1>1, <1>5, DoneDrops
  <2>3. Typed'
    BY <1>1, <1>2, <2>1, <2>2
    DEF Typed, RowSaved, Drops, SameTask, PaceInvariant, SlotsSpaced, Acquired, Paced
  <2>4. QED BY <1>5, <2>1, <2>2, <2>3
<1>6. QED BY <1>3, <1>4, <1>5

LEMMA CommitBudgetMoves ==
    ASSUME Typed, CommitBudget PROVE Typed' /\ Drops(h', h.todo \ {"commit"})
<1>1. h \in HandlerSet /\ h.pc # "idle" BY DEF Typed, CommitBudget, Doing
<1>2. Drops(h', h.todo \ {"commit"}) BY <1>1, DoneDrops DEF CommitBudget
<1>3. UNCHANGED <<clock, app, op, saga, resume, drift, pace>>
  BY DEF CommitBudget, HandlerOnly, paceVars, tailoringVars
<1>4. QED BY <1>1, <1>2, <1>3, SameTyped DEF Drops

LEMMA ReleaseBudgetMoves ==
    ASSUME Typed, ReleaseBudget PROVE Typed' /\ Drops(h', h.todo \ {"release"})
<1>1. h \in HandlerSet /\ h.pc # "idle" BY DEF Typed, ReleaseBudget, Doing
<1>2. Drops(h', h.todo \ {"release"}) BY <1>1, DoneDrops DEF ReleaseBudget
<1>3. UNCHANGED <<clock, app, op, saga, resume, drift, pace>>
  BY DEF ReleaseBudget, HandlerOnly, paceVars, tailoringVars
<1>4. QED BY <1>1, <1>2, <1>3, SameTyped DEF Drops

LEMMA RestoreTailoringMoves ==
    ASSUME Typed, RestoreTailoring
    PROVE  /\ Typed' /\ UNCHANGED <<saga, resume>>
           /\ \/ Drops(h', h.todo \ {"restore"}) \/ Errs(h')
              \/ Drops(h', {"restoreBegin"}) /\ Unfinished(h.app)
              \/ Drops(h', {"restoreRead"}) /\ saga[h.app].status = "restoring"
<1>1. /\ h \in HandlerSet /\ h.pc # "idle" /\ h.app \in Apps /\ resume \in ResumeSet
  BY DEF Typed, RestoreTailoring, Doing
<1>2. UNCHANGED <<clock, app, op, saga, resume, drift, pace>>
  BY DEF RestoreTailoring, NoStore, HandlerOnly, paceVars, tailoringVars
<1>3. \/ h' = Done("restore") \/ h' = Returns("failed")
      \/ h' = Having(Instead("restoreBegin")) /\ Unfinished(h.app)
      \/ h' = Instead("restoreRead") /\ saga[h.app].status = "restoring"
  BY DEF RestoreTailoring, Unfinished
<1>4. \/ Drops(h', h.todo \ {"restore"}) \/ Errs(h')
      \/ Drops(h', {"restoreBegin"}) /\ Unfinished(h.app)
      \/ Drops(h', {"restoreRead"}) /\ saga[h.app].status = "restoring"
  BY <1>1, <1>3, DoneDrops, ErrsTyped, HavingSeen, InsteadDrops DEF Restoring
<1>5. SameTask(h') BY <1>4 DEF Drops, Errs, Stops
<1>6. QED BY <1>1, <1>2, <1>4, <1>5, SameTyped

(* What a restore does: it is begun, a write or two goes out, it is        *)
(* confirmed, and a resume that is another needs a person.                 *)
Restored ==
    \/ Drops(h', {"restoreRead"}) /\ UNCHANGED resume /\ SagaMoves(h.app, "restoring")
    \/ Drops(h', {"restoreRecord"}) /\ UNCHANGED <<saga, resume>>
       /\ resume = saga[h.app].baseline
    \/ /\ Drops(h', {"restoreWrite"}) /\ h'.seen = resume
       /\ UNCHANGED <<saga, resume>> /\ Between(h.app, resume)
    \/ /\ Writes(h.app) /\ "restoreWrite" \in h.todo
       /\ UNCHANGED h \/ Drops(h', {"restoreCheck"})
    \/ Errs(h') /\ Writes(h.app)
    \/ Errs(h') /\ UNCHANGED resume /\ SagaMoves(h.app, "recovery_required")

LEMMA RestoredTyped ==
    ASSUME Typed, h.pc # "idle", Restored, UNCHANGED <<clock, app, op, drift, pace>>
    PROVE  Typed'
<1>1. saga \in [Apps -> SagaSet] /\ resume \in ResumeSet /\ h \in HandlerSet
  BY DEF Typed
<1>2. SameTask(h') BY <1>1 DEF Restored, Drops, Errs, Stops, SameTask
<1>3. saga' \in [Apps -> SagaSet] /\ resume' \in ResumeSet
  BY <1>1 DEF Restored, Writes, SagaMoves
<1>4. QED BY <1>2, <1>3, TailoredTyped

Restores == RestoreBegin \/ RestoreRead \/ RestoreWrite \/ RestoreCheck

LEMMA RestoreBeginMoves == ASSUME Typed, RestoreBegin PROVE Restored
<1>1. /\ h \in HandlerSet /\ h.app \in Apps /\ saga \in [Apps -> SagaSet]
  BY DEF Typed, RestoreBegin, Doing
<1>2. BeginRestore(h.app, h.seen) BY DEF RestoreBegin
<1>3. CASE h.seen \in {Tailored(h.app), saga[h.app].baseline}
  <2> DEFINE s == [saga[h.app] EXCEPT !.status = "restoring",
                                      !.changes = h.seen # saga[h.app].baseline]
  <2>1. saga' = [saga EXCEPT ![h.app] = s] /\ UNCHANGED resume
    BY <1>2, <1>3 DEF BeginRestore
  <2>2. s \in SagaSet /\ s.status = "restoring" /\ s.baseline = saga[h.app].baseline
    <3>1. PICK old \in SagaSet : old = saga[h.app] BY <1>1
    <3>2. PICK c \in BOOLEAN : c = (h.seen # saga[h.app].baseline) OBVIOUS
    <3>3. s = [old EXCEPT !.status = "restoring", !.changes = c] BY <3>1, <3>2
    <3> HIDE DEF s
    <3>4. QED BY <3>1, <3>3 DEF SagaSet
  <2> HIDE DEF s
  <2>3. SagaMoves(h.app, "restoring") BY <1>1, <2>1, <2>2 DEF SagaMoves
  <2>4. h' = Instead("restoreRead") BY <2>3 DEF RestoreBegin, SagaMoves
  <2>5. QED BY <1>1, <2>1, <2>3, <2>4, InsteadDrops DEF Restored, Restoring
<1>4. CASE h.seen \notin {Tailored(h.app), saga[h.app].baseline}
  <2>1. SagaBecomes(h.app, "recovery_required") /\ UNCHANGED resume
    BY <1>2, <1>4 DEF BeginRestore, SagaBecomes
  <2>2. SagaMoves(h.app, "recovery_required")
    BY <1>1, <2>1, SagaBecomesMoves DEF SagaStatuses
  <2>3. h' = Returns("failed") BY <2>2 DEF RestoreBegin, SagaMoves
  <2>4. QED BY <1>1, <2>1, <2>2, <2>3, ErrsTyped DEF Restored
<1>5. QED BY <1>3, <1>4

LEMMA RestoreMoves == ASSUME Typed, Restores PROVE Typed' /\ Restored
<1>1. /\ h \in HandlerSet /\ h.pc # "idle" /\ h.app \in Apps
      /\ saga \in [Apps -> SagaSet] /\ resume \in ResumeSet
  BY DEF Typed, Restores, RestoreBegin, RestoreRead, RestoreWrite, RestoreCheck, Doing
<1>2. UNCHANGED <<clock, app, op, drift, pace>>
  BY DEF Restores, RestoreBegin, RestoreRead, RestoreWrite, RestoreCheck, HandlerOnly,
     paceVars
<1>3. SUFFICES Restored BY <1>1, <1>2, RestoredTyped
<1>4. /\ Errs(Returns("failed")) /\ Errs(Returns("retryable"))
      /\ \A step \in Restoring : Drops(Instead(step), {step})
  BY <1>1, ErrsTyped, InsteadDrops
<1>5. CASE WriteConflicts(h.app) /\ h' = Returns("failed")
  <2>1. SagaMoves(h.app, "recovery_required") /\ UNCHANGED resume
    BY <1>1, <1>5, SagaBecomesMoves DEF WriteConflicts, SagaStatuses
  <2>2. QED BY <1>4, <1>5, <2>1 DEF Restored
<1>6. CASE UNCHANGED tailoringVars /\ (h' = Returns("failed") \/ h' = Returns("retryable"))
  BY <1>1, <1>4, <1>6 DEF Restored, Writes, tailoringVars
<1>7. CASE /\ UNCHANGED tailoringVars /\ resume = saga[h.app].baseline
           /\ h' = Instead("restoreRecord")
  BY <1>4, <1>7 DEF Restored, Restoring, tailoringVars
<1>8. CASE RestoreBegin BY <1>8, RestoreBeginMoves
<1>9. CASE /\ UNCHANGED tailoringVars /\ Between(h.app, resume)
           /\ h' = Having(Instead("restoreWrite"))
  BY <1>1, <1>9, HavingSeen DEF Restored, Restoring, tailoringVars
<1>10. CASE RestoreWrite
  <2>1. Writes(h.app) /\ "restoreWrite" \in h.todo
    BY <1>1, <1>10, WriteWrites DEF RestoreWrite, Doing
  <2>2. UNCHANGED h \/ h' = Instead("restoreCheck") \/ h' = Returns("retryable")
    BY <1>10 DEF RestoreWrite
  <2>3. QED BY <1>4, <2>1, <2>2 DEF Restored, Restoring
<1>11. QED
  BY <1>5, <1>6, <1>7, <1>8, <1>9, <1>10 DEF Restores, RestoreRead, RestoreCheck

(* All of them come last.                                                  *)
LEMMA RestoresLast ==
    ASSUME Restores \/ RestoreRecord \/ RestoreTailoring
    PROVE  /\ h.pc = "finish" /\ "save" \notin h.todo /\ "commit" \notin h.todo
           /\ UNCHANGED <<app, op, task, budgetVars, unsettled>>
BY DEF Restores, RestoreBegin, RestoreRead, RestoreWrite, RestoreCheck, RestoreRecord,
   RestoreTailoring, Doing, Before, HandlerOnly, NoStore, NoSend

LEMMA RestoredGoesOn ==
    ASSUME Restored
    PROVE  Errs(h') \/ UNCHANGED h \/ \E step \in Restoring : Drops(h', {step})
BY DEF Restored, Restoring

LEMMA RestoreRecordMoves ==
    ASSUME Typed, RestoreRecord
    PROVE  /\ Typed' /\ Drops(h', h.todo \ {"restoreRecord"})
           /\ UNCHANGED resume /\ SagaMoves(h.app, "restored")
<1>1. /\ h \in HandlerSet /\ h.pc # "idle" /\ h.app \in Apps
      /\ saga \in [Apps -> SagaSet] /\ resume \in ResumeSet
  BY DEF Typed, RestoreRecord, Doing
<1>2. UNCHANGED <<clock, app, op, drift, pace>>
  BY DEF RestoreRecord, HandlerOnly, paceVars
<1>3. Drops(h', h.todo \ {"restoreRecord"}) BY <1>1, DoneDrops DEF RestoreRecord
<1>4. SagaMoves(h.app, "restored") /\ UNCHANGED resume
  BY <1>1, SagaBecomesMoves DEF RestoreRecord, RecordRestored, SagaStatuses
<1>5. QED BY <1>1, <1>2, <1>3, <1>4, TailoredTyped DEF Drops, SagaMoves

LEMMA CallFailsMoves ==
    ASSUME Typed, h.pc # "idle", CallFails PROVE Typed' /\ Errs(h')
<1>1. h \in HandlerSet BY DEF Typed
<1>2. Errs(h') BY <1>1, ErrsTyped DEF CallFails
<1>3. UNCHANGED <<clock, app, op, saga, resume, drift, pace>>
  BY DEF CallFails, NoStore, HandlerOnly, paceVars, tailoringVars
<1>4. QED BY <1>1, <1>2, <1>3, SameTyped DEF Errs, Stops

-----------------------------------------------------------------------------
(* Every step keeps the types.                                             *)

LEMMA HandleMoves ==
    ASSUME Typed, NEW a \in Apps, NEW k \in Keys, Handle(a, k)
    PROVE  Typed' /\ Begins(h', a, k)
<1>1. Begins(h', a, k) BY HandleBegins DEF Handle
<1>2. UNCHANGED <<clock, app, op, saga, resume, drift, pace>>
  BY DEF Handle, NoStore, HandlerOnly, paceVars, tailoringVars
<1>3. QED BY <1>1, <1>2, HandlerTyped DEF Begins

LEMMA IdleMoves ==
    ASSUME Typed, HandleReturns \/ Crash
    PROVE  /\ Typed' /\ h'.pc = "idle" /\ h'.todo = {} /\ h'.sure
           /\ UNCHANGED <<clock, app, op, saga, resume, drift, pace>>
<1>1. h' = Idle BY DEF HandleReturns, Crash
<1>2. UNCHANGED <<clock, app, op, saga, resume, drift, pace>>
  BY DEF HandleReturns, Crash, NoStore, HandlerOnly, paceVars, tailoringVars
<1>3. QED BY <1>1, <1>2, IdleTyped, HandlerTyped

(* A request changes a row that has the status the request read.           *)
RequestSaves(r) ==
    /\ r \in RequestSet /\ ~r.saved /\ app[r.app].status = r.row.status
    /\ app' = [app EXCEPT ![r.app] = Changed(r)]
    /\ RowSaved(r.app, Changed(r).status)

LEMMA ChangedTyped ==
    ASSUME NEW r \in RequestSet
    PROVE  /\ Changed(r) \in RowSet /\ Changed(r).status \in {"ready", "skipped"}
           /\ r.kind = "retry" => ~Changed(r).prepared
           /\ r.kind = "refresh" => Changed(r).status = "skipped"
<1>1. PICK row \in RowSet : row = r.row BY DEF RequestSet
<1>2. CASE r.kind = "retry"
  <2>1. Changed(r) = [row EXCEPT !.status = "ready", !.prepared = FALSE]
    BY <1>1, <1>2 DEF Changed
  <2>2. QED BY <1>2, <2>1 DEF RowSet, Statuses
<1>3. CASE r.kind = "approve"
  <2>1. Changed(r) = [row EXCEPT !.status = "ready"] BY <1>1, <1>3 DEF Changed
  <2>2. QED BY <1>3, <2>1 DEF RowSet, Statuses
<1>4. CASE r.kind = "refresh"
  <2>1. Changed(r) = [row EXCEPT !.status = "skipped"] BY <1>1, <1>4 DEF Changed
  <2>2. QED BY <1>4, <2>1 DEF RowSet, Statuses
<1>5. QED BY <1>2, <1>3, <1>4 DEF RequestSet

LEMMA NoRequestApart == NoRequest \notin RequestSet
<1>1. NoRequest.kind = "none" BY DEF NoRequest
<1>2. QED BY <1>1 DEF RequestSet

LEMMA RequestSaveMoves ==
    ASSUME Typed, NEW o \in Operators, RequestSave(o)
    PROVE  /\ Typed' /\ UNCHANGED h
           /\ UNCHANGED app \/ RequestSaves(op[o])
           /\ op'[o] = NoRequest \/ op'[o].saved
           /\ \A p \in Operators \ {o} : op'[p] = op[p]
<1> DEFINE r == op[o]
<1>1. r \in RequestSet BY DEF RequestSave, Typed
<1>2. UNCHANGED <<clock, h, saga, resume, drift, pace>>
  BY DEF RequestSave, OpOnly, paceVars, tailoringVars
<1>3. \/ /\ SaveApplication(r.app, Changed(r), r.row.status)
         /\ op' = [op EXCEPT ![o] = NoRequest]
      \/ /\ SaveApplication(r.app, Changed(r), r.row.status)
         /\ op' = [op EXCEPT ![o] = [r EXCEPT !.saved = TRUE]]
      \/ UNCHANGED app /\ op' = [op EXCEPT ![o] = NoRequest]
  BY DEF RequestSave, Asks
<1>4. ~r.saved BY DEF RequestSave
<1>5. [r EXCEPT !.saved = TRUE] \in RequestSet /\ [r EXCEPT !.saved = TRUE].saved
  BY <1>1 DEF RequestSet
<1> HIDE DEF r
<1>6. ASSUME SaveApplication(r.app, Changed(r), r.row.status) PROVE RequestSaves(r)
  <2>1. r.app \in Apps BY <1>1 DEF RequestSet
  <2>2. app' = [app EXCEPT ![r.app] = Changed(r)] /\ app[r.app].status = r.row.status
    BY <1>6 DEF SaveApplication
  <2>3. RowSaved(r.app, Changed(r).status)
    BY <1>1, <2>1, <2>2, ChangedTyped DEF RowSaved, Typed
  <2>4. QED BY <1>1, <1>4, <2>2, <2>3 DEF RequestSaves
<1>7. app' \in [Apps -> RowSet] BY <1>3, <1>6 DEF RequestSaves, RowSaved, Typed
<1>8. op' \in [Operators -> {NoRequest} \cup RequestSet]
  BY <1>3, <1>5 DEF Typed
<1>9. Typed'
  BY <1>2, <1>7, <1>8 DEF Typed, PaceInvariant, SlotsSpaced, Acquired, Paced
<1>10. op'[o] = NoRequest \/ op'[o].saved BY <1>3, <1>5 DEF Typed
<1>11. \A p \in Operators \ {o} : op'[p] = op[p] BY <1>3 DEF Typed
<1>12. UNCHANGED app \/ RequestSaves(r) BY <1>3, <1>6
<1>13. QED BY <1>2, <1>9, <1>10, <1>11, <1>12 DEF r

(* The other steps of an operator read, enqueue or stop.                   *)
Requests ==
    \E o \in Operators :
        \/ \E a \in Apps, k \in Keys \ {"submit"} : AskRetry(o, a, k) \/ AskApproval(o, a, k)
        \/ \E a \in Apps : AskRefresh(o, a)
        \/ RequestEnqueue(o) \/ RequestCrash(o)

(* A fresh request has read a row that may be changed.                     *)
FreshRequest(r) ==
    /\ r \in RequestSet
    /\ ~r.saved => /\ r.row.status \in Retryable \cup {"waiting_approval"}
                   /\ r.kind = "approve" => r.row.status = "waiting_approval"

LEMMA RequestsMove ==
    ASSUME Typed, Requests
    PROVE  /\ Typed' /\ UNCHANGED <<h, app>>
           /\ \A o \in Operators :
                op'[o] = op[o] \/ op'[o] = NoRequest \/ FreshRequest(op'[o])
<1>1. PICK o \in Operators :
        \/ \E a \in Apps, k \in Keys \ {"submit"} : AskRetry(o, a, k) \/ AskApproval(o, a, k)
        \/ \E a \in Apps : AskRefresh(o, a)
        \/ RequestEnqueue(o) \/ RequestCrash(o)
  BY DEF Requests
<1>2. UNCHANGED <<clock, h, app, saga, resume, drift, pace>>
  BY <1>1 DEF AskRetry, AskApproval, AskRefresh, RequestEnqueue, RequestCrash, OpOnly,
     paceVars, tailoringVars
<1>3. \E r : op' = [op EXCEPT ![o] = r] /\ (r = NoRequest \/ FreshRequest(r))
  <2>1. \A a \in Apps : app[a] \in RowSet BY DEF Typed
  <2>2. CASE \E a \in Apps, k \in Keys \ {"submit"} : AskRetry(o, a, k)
    <3>1. PICK a \in Apps, k \in Keys \ {"submit"} : AskRetry(o, a, k) BY <2>2
    <3> DEFINE r == [kind |-> "retry", app |-> a, key |-> k, row |-> app[a],
                     saved |-> FALSE]
    <3>2. FreshRequest(r) BY <2>1, <3>1 DEF FreshRequest, RequestSet, AskRetry, Retryable
    <3>3. op' = [op EXCEPT ![o] = r] BY <3>1 DEF AskRetry, Asks
    <3>4. QED BY <3>2, <3>3
  <2>3. CASE \E a \in Apps, k \in Keys \ {"submit"} : AskApproval(o, a, k)
    <3>1. PICK a \in Apps, k \in Keys \ {"submit"} : AskApproval(o, a, k) BY <2>3
    <3> DEFINE r == [kind |-> "approve", app |-> a, key |-> k, row |-> app[a],
                     saved |-> app[a].status = "ready"]
    <3>2. FreshRequest(r) BY <2>1, <3>1 DEF FreshRequest, RequestSet, AskApproval
    <3>3. op' = [op EXCEPT ![o] = r] BY <3>1 DEF AskApproval, Asks
    <3>4. QED BY <3>2, <3>3
  <2>4. CASE \E a \in Apps : AskRefresh(o, a)
    <3>1. PICK a \in Apps : AskRefresh(o, a) BY <2>4
    <3> DEFINE r == [kind |-> "refresh", app |-> a, key |-> "submit", row |-> app[a],
                     saved |-> FALSE]
    <3>2. FreshRequest(r)
      BY <2>1, <3>1, SubmitAssumption DEF FreshRequest, RequestSet, AskRefresh, Retryable
    <3>3. op' = [op EXCEPT ![o] = r] BY <3>1 DEF AskRefresh, Asks
    <3>4. QED BY <3>2, <3>3
  <2>5. CASE RequestEnqueue(o) \/ RequestCrash(o)
    BY <2>5 DEF RequestEnqueue, RequestCrash, Asks
  <2>6. QED BY <1>1, <2>2, <2>3, <2>4, <2>5
<1>4. /\ op' \in [Operators -> {NoRequest} \cup RequestSet]
      /\ \A p \in Operators :
            op'[p] = op[p] \/ op'[p] = NoRequest \/ FreshRequest(op'[p])
  BY <1>3 DEF Typed, FreshRequest
<1>5. Typed'
  BY <1>2, <1>4 DEF Typed, PaceInvariant, SlotsSpaced, Acquired, Paced
<1>6. QED BY <1>2, <1>4, <1>5

(* The clock, the owner of the resume and a requeued task.                 *)
Outside ==
    \/ Tick \/ OwnerEdits \/ \E a \in Apps, k \in Keys : Requeue(a, k)

LEMMA OutsideMoves ==
    ASSUME Typed, Outside
    PROVE  /\ Typed' /\ UNCHANGED <<h, app, op, saga>>
           /\ UNCHANGED resume \/ (resume'.form = "base" /\ drift' # drift)
<1>1. CASE Tick
  <2>1. UNCHANGED <<h, app, op, saga, resume, drift, pace>>
    BY <1>1 DEF Tick, paceVars, tailoringVars
  <2>2. clock' \in 1 .. MaxTime BY <1>1, SubmitAssumption DEF Tick, Typed
  <2>3. QED BY <2>1, <2>2 DEF Typed, PaceInvariant, SlotsSpaced, Acquired, Paced
<1>2. CASE OwnerEdits
  <2>1. UNCHANGED <<h, app, op, saga, clock, pace>> BY <1>2 DEF OwnerEdits, paceVars
  <2>2. drift' = drift + 1 /\ drift \in Nat BY <1>2 DEF OwnerEdits, Typed
  <2>3. resume' \in ResumeSet /\ resume'.form = "base"
    BY <1>2 DEF OwnerEdits, Owned, ResumeSet
  <2>4. QED
    BY <2>1, <2>2, <2>3 DEF Typed, PaceInvariant, SlotsSpaced, Acquired, Paced
<1>3. CASE \E a \in Apps, k \in Keys : Requeue(a, k)
  <2>1. UNCHANGED <<h, app, op, saga, resume, drift, pace, clock>>
    BY <1>3 DEF Requeue, paceVars, tailoringVars
  <2>2. QED BY <2>1 DEF Typed, PaceInvariant, SlotsSpaced, Acquired, Paced
<1>4. QED BY <1>1, <1>2, <1>3 DEF Outside

-----------------------------------------------------------------------------
(* The handler and the row it works on.  Nobody changes a row under the    *)
(* handler that is sent or has an unknown outcome; a submitted row is      *)
(* final; and what is committed is, or is about to be, saved as submitted. *)

Unsure == {"submitting", "pending_reconcile"}

WorksOnOpenRow ==
    h.pc \in Working =>
        /\ h.todo \subseteq {"release"} /\ h.sure /\ h.result = "ok"
        /\ h.expected # "submitted" /\ app[h.app].status # "submitted"
        /\ h.pc \in Sending => h.expected = "submitting"
        /\ h.pc = "reconcile" => h.expected = "pending_reconcile"
        /\ h.pc \in {"prepare", "reserve"} => h.now \in 1 .. MaxTime
KeepsUnsureRow ==
    (h.pc \in Working \/ "save" \in h.todo) /\ h.expected \in Unsure =>
        app[h.app].status = h.expected
CommitsSubmitted ==
    /\ "save" \in h.todo => h.expected # "submitted"
    /\ "commit" \in h.todo =>
         IF "save" \in h.todo THEN h.cur.status = "submitted"
         ELSE app[h.app].status = "submitted"
RequestsFresh == \A o \in Operators : op[o] = NoRequest \/ FreshRequest(op[o])

Control ==
    /\ Typed /\ WorksOnOpenRow /\ KeepsUnsureRow /\ CommitsSubmitted
    /\ RequestsFresh /\ (h.pc = "idle" => h.todo = {})

LEMMA ErrsControl ==
    ASSUME Control, Typed', Errs(h'), UNCHANGED <<app, op>> PROVE Control'
<1>1. h'.pc = "finish" /\ h'.todo = {} BY DEF Errs, Stops
<1>2. h'.pc \notin Working BY <1>1 DEF Working, Sending
<1>3. RequestsFresh' BY DEF Control, RequestsFresh, FreshRequest
<1>4. QED
  BY <1>1, <1>2, <1>3 DEF Control, WorksOnOpenRow, KeepsUnsureRow, CommitsSubmitted

LEMMA SavesControl ==
    ASSUME Control, Typed', h.pc \in Working, NEW status, NEW steps, NEW result,
           Saves(h', status, steps, result), "commit" \in steps => status = "submitted",
           UNCHANGED <<app, op>>
    PROVE  Control'
<1>1. /\ h'.pc = "finish" /\ h'.app = h.app /\ h'.expected = h.expected
      /\ h'.cur.status = status /\ "save" \in h'.todo
      /\ "commit" \in h'.todo => "commit" \in steps
  BY DEF Saves, SameTask
<1>2. h'.pc \notin Working BY <1>1 DEF Working, Sending
<1>3. RequestsFresh' BY DEF Control, RequestsFresh, FreshRequest
<1>4. QED
  BY <1>1, <1>2, <1>3 DEF Control, WorksOnOpenRow, KeepsUnsureRow, CommitsSubmitted

LEMMA EndedControl ==
    ASSUME Control, Typed', h.pc \in Working, NEW status, Ended(h', status),
           UNCHANGED <<app, op>>
    PROVE  Control'
<1>1. /\ h'.pc = "finish" /\ h'.app = h.app /\ h'.expected = h.expected
      /\ h'.cur.status = status /\ h'.todo = {"save"}
  BY DEF Ended, SameTask
<1>2. h'.pc \notin Working BY <1>1 DEF Working, Sending
<1>3. RequestsFresh' BY DEF Control, RequestsFresh, FreshRequest
<1>4. QED
  BY <1>1, <1>2, <1>3 DEF Control, WorksOnOpenRow, KeepsUnsureRow, CommitsSubmitted

LEMMA GoesControl ==
    ASSUME Control, Typed', h.pc \in Working, NEW pc \in Working \ {"prepare", "reconcile"},
           pc \in Sending => h.expected = "submitting",
           pc = "reserve" => h'.now = h.now /\ h.pc = "prepare",
           SameTask(h'), h'.pc = pc, h'.todo = h.todo, h'.result = h.result,
           UNCHANGED <<app, op>>
    PROVE  Control'
<1>1. h'.app = h.app /\ h'.expected = h.expected /\ h'.sure = h.sure BY DEF SameTask
<1>2. RequestsFresh' BY DEF Control, RequestsFresh, FreshRequest
<1>3. WorksOnOpenRow' BY <1>1 DEF Control, WorksOnOpenRow
<1>4. KeepsUnsureRow' BY <1>1 DEF Control, KeepsUnsureRow, WorksOnOpenRow
<1>5. "save" \notin h'.todo /\ "commit" \notin h'.todo BY DEF Control, WorksOnOpenRow
<1>6. QED BY <1>2, <1>3, <1>4, <1>5 DEF Control, CommitsSubmitted, Working, Sending

LEMMA DropsControl ==
    ASSUME Control, Typed', h.pc # "idle", NEW steps, Drops(h', steps),
           h.pc \in Working => steps \subseteq h.todo,
           "save" \in steps <=> "save" \in h.todo,
           "commit" \in steps => "commit" \in h.todo,
           UNCHANGED <<app, op>>
    PROVE  Control'
<1>1. /\ h'.app = h.app /\ h'.expected = h.expected /\ h'.sure = h.sure
      /\ h'.pc = h.pc /\ h'.result = h.result /\ h'.todo = steps /\ h'.cur = h.cur
      /\ h'.now = h.now
  BY DEF Drops, SameTask
<1>2. RequestsFresh' BY DEF Control, RequestsFresh, FreshRequest
<1>3. WorksOnOpenRow' BY <1>1 DEF Control, WorksOnOpenRow
<1>4. KeepsUnsureRow' BY <1>1 DEF Control, KeepsUnsureRow
<1>5. CommitsSubmitted' BY <1>1 DEF Control, CommitsSubmitted
<1>6. QED BY <1>1, <1>2, <1>3, <1>4, <1>5 DEF Control

LEMMA AnsweredControl ==
    ASSUME Control, Typed', h.pc \in Working, Answered(h'), UNCHANGED <<app, op>>
    PROVE  Control'
<1>1. CASE Saves(h', "submitted", Counting, "ok") BY <1>1, SavesControl
<1>2. "commit" \notin Giving BY DEF Giving
<1>3. CASE \E status \in {"skipped", "waiting_validation", "failed"} :
              Saves(h', status, Giving, "ok")
  BY <1>2, <1>3, SavesControl
<1>4. CASE Saves(h', "pending_reconcile", {}, "retryable") BY <1>4, SavesControl
<1>5. CASE Saves(h', "ready", Giving, "retryable") BY <1>2, <1>5, SavesControl
<1>6. CASE Saves(h', "ready", Giving, "failed") BY <1>2, <1>6, SavesControl
<1>7. CASE Saves(h', "failed", Giving, "failed") BY <1>2, <1>7, SavesControl
<1>8. QED BY <1>1, <1>3, <1>4, <1>5, <1>6, <1>7 DEF Answered

LEMMA BeginsControl ==
    ASSUME Control, Typed', NEW a \in Apps, NEW k \in Keys, Begins(h', a, k),
           UNCHANGED <<app, op>>
    PROVE  Control'
<1>1. RequestsFresh' BY DEF Control, RequestsFresh, FreshRequest
<1>2. clock \in 1 .. MaxTime BY DEF Control, Typed
<1>3. /\ h'.app = a /\ h'.sure /\ h'.expected = app[a].status /\ h'.now = clock
      /\ app' = app
  BY DEF Begins
<1>4. CASE h'.pc = "finish"
  <2>1. h'.pc \notin Working BY <1>4 DEF Working, Sending
  <2>2. /\ "save" \in h'.todo => app[a].status = "submitting"
        /\ "commit" \in h'.todo =>
              app[a].status = "submitted" /\ "save" \notin h'.todo
    BY <1>4 DEF Begins
  <2>3. QED
    BY <1>1, <1>3, <1>4, <2>1, <2>2
    DEF Control, WorksOnOpenRow, KeepsUnsureRow, CommitsSubmitted
<1>5. CASE h'.pc \in {"prepare", "reconcile"}
  <2>1. /\ h'.todo \subseteq {"release"} /\ h'.result = "ok"
        /\ app[a].status # "submitted"
        /\ h'.pc = "reconcile" => app[a].status = "pending_reconcile"
    BY <1>5 DEF Begins
  <2>2. h'.pc \notin Sending BY <1>5 DEF Sending
  <2>3. WorksOnOpenRow' BY <1>2, <1>3, <1>5, <2>1, <2>2 DEF WorksOnOpenRow
  <2>4. KeepsUnsureRow' BY <1>3 DEF KeepsUnsureRow
  <2>5. QED
    BY <1>1, <1>5, <2>1, <2>3, <2>4 DEF Control, CommitsSubmitted
<1>6. QED BY <1>4, <1>5 DEF Begins

LEMMA SaveOutcomeControl == ASSUME Control, SaveOutcome PROVE Control'
<1>1. /\ Typed /\ "save" \in h.todo /\ h.pc = "finish" /\ UNCHANGED op
  BY DEF Control, SaveOutcome, Doing, HandlerOnly
<1>2. h.pc \notin Working /\ h.app \in Apps BY <1>1 DEF Working, Sending, Typed
<1>3. CASE Errs(h') /\ UNCHANGED app
  BY <1>1, <1>3, SaveOutcomeMoves, ErrsControl
<1>4. CASE RowSaved(h.app, h.cur.status) /\ Drops(h', h.todo \ {"save"})
  <2>1. /\ h'.app = h.app /\ h'.pc = "finish" /\ h'.todo = h.todo \ {"save"}
        /\ h'.cur = h.cur /\ app'[h.app].status = h.cur.status
    BY <1>1, <1>4 DEF Drops, SameTask, RowSaved
  <2>2. h'.pc \notin Working BY <2>1 DEF Working, Sending
  <2>3. RequestsFresh' BY <1>1 DEF Control, RequestsFresh, FreshRequest
  <2>4. Typed' BY <1>1, SaveOutcomeMoves
  <2>5. QED
    BY <1>1, <2>1, <2>2, <2>3, <2>4
    DEF Control, WorksOnOpenRow, KeepsUnsureRow, CommitsSubmitted
<1>5. QED BY <1>1, <1>3, <1>4, SaveOutcomeMoves

LEMMA BeginSubmittingControl == ASSUME Control, BeginSubmitting PROVE Control'
<1>1. Typed /\ h.pc = "submit" /\ UNCHANGED op
  BY DEF Control, BeginSubmitting, HandlerOnly
<1>2. h.pc \in Working /\ h.app \in Apps BY <1>1 DEF Working, Typed
<1>3. CASE Errs(h') /\ UNCHANGED app
  BY <1>1, <1>3, BeginSubmittingMoves, ErrsControl
<1>4. CASE /\ RowSaved(h.app, "submitting") /\ h'.app = h.app /\ h'.pc = "begin"
           /\ h'.expected = "submitting" /\ h'.todo = h.todo /\ h'.sure = h.sure
           /\ h'.result = h.result
  <2>1. app'[h.app].status = "submitting" BY <1>4 DEF RowSaved
  <2>2. RequestsFresh' BY <1>1 DEF Control, RequestsFresh, FreshRequest
  <2>3. "save" \notin h'.todo /\ "commit" \notin h'.todo
    BY <1>2, <1>4 DEF Control, WorksOnOpenRow
  <2>4. WorksOnOpenRow' BY <1>2, <1>4, <2>1 DEF Control, WorksOnOpenRow
  <2>5. KeepsUnsureRow' BY <1>4, <2>1 DEF KeepsUnsureRow
  <2>6. Typed' BY <1>1, BeginSubmittingMoves
  <2>7. QED BY <1>4, <2>2, <2>3, <2>4, <2>5, <2>6 DEF Control, CommitsSubmitted
<1>5. QED BY <1>1, <1>3, <1>4, BeginSubmittingMoves

(* The row under a request is at rest: it is neither submitted nor of      *)
(* unknown outcome.                                                        *)
LEMMA RequestSavesAtRest ==
    ASSUME Control, NEW o \in Operators, RequestSaves(op[o])
    PROVE  /\ op[o].app \in Apps
           /\ app[op[o].app].status \in Retryable \cup {"waiting_approval"}
           /\ op[o].kind = "approve" => app[op[o].app].status = "waiting_approval"
           /\ app'[op[o].app].status \in {"ready", "skipped"}
           /\ \A b \in Apps \ {op[o].app} : app'[b] = app[b]
<1>1. op[o] \in RequestSet BY DEF RequestSaves
<1>2. op[o] # NoRequest BY <1>1, NoRequestApart
<1>3. FreshRequest(op[o]) BY <1>2 DEF Control, RequestsFresh
<1>4. op[o].app \in Apps BY <1>1 DEF RequestSet
<1>5. QED
  BY <1>1, <1>3, <1>4, ChangedTyped DEF RequestSaves, RowSaved, FreshRequest

LEMMA RequestSaveControl ==
    ASSUME Control, NEW o \in Operators, RequestSave(o) PROVE Control'
<1>1. /\ Typed' /\ UNCHANGED h
      /\ op'[o] = NoRequest \/ op'[o].saved
      /\ \A p \in Operators \ {o} : op'[p] = op[p]
      /\ UNCHANGED app \/ RequestSaves(op[o])
  BY RequestSaveMoves DEF Control
<1>2. RequestsFresh'
  <2>1. op'[o] = NoRequest \/ FreshRequest(op'[o])
    <3>1. op'[o] \in {NoRequest} \cup RequestSet BY <1>1 DEF Typed
    <3>2. QED BY <1>1, <3>1 DEF FreshRequest
  <2>2. \A p \in Operators \ {o} : op'[p] = NoRequest \/ FreshRequest(op'[p])
    BY <1>1 DEF Control, RequestsFresh
  <2>3. QED BY <2>1, <2>2 DEF RequestsFresh, FreshRequest
<1>3. CASE UNCHANGED app
  BY <1>1, <1>2, <1>3
  DEF Control, WorksOnOpenRow, KeepsUnsureRow, CommitsSubmitted
<1>4. CASE RequestSaves(op[o])
  <2>1. /\ op[o].app \in Apps
        /\ app[op[o].app].status \in Retryable \cup {"waiting_approval"}
        /\ app'[op[o].app].status \in {"ready", "skipped"}
        /\ \A b \in Apps \ {op[o].app} : app'[b] = app[b]
    BY <1>4, RequestSavesAtRest
  <2>2. /\ app[op[o].app].status \notin Unsure /\ app[op[o].app].status # "submitted"
        /\ app'[op[o].app].status # "submitted"
    BY <2>1 DEF Retryable, Unsure
  <2>3. h.pc # "idle" => h.app \in Apps BY DEF Control, Typed
  <2>4. WorksOnOpenRow'
    BY <1>1, <2>1, <2>2, <2>3 DEF Control, WorksOnOpenRow, Working, Sending
  <2>5. h.todo # {} => h.pc # "idle" BY DEF Control
  <2>6. KeepsUnsureRow'
    BY <1>1, <2>1, <2>2, <2>3, <2>5 DEF Control, KeepsUnsureRow, Working, Sending
  <2>7. CommitsSubmitted'
    BY <1>1, <2>1, <2>2, <2>3, <2>5 DEF Control, CommitsSubmitted
  <2>8. QED BY <1>1, <1>2, <2>4, <2>6, <2>7 DEF Control
<1>5. QED BY <1>1, <1>3, <1>4

LEMMA StillControl ==
    ASSUME Control, Typed', UNCHANGED <<h, app>>, RequestsFresh' PROVE Control'
BY DEF Control, WorksOnOpenRow, KeepsUnsureRow, CommitsSubmitted

LEMMA ControlStarts == Init => Control
<1> SUFFICES ASSUME Init PROVE Control
  OBVIOUS
<1>1. PaceInvariant BY PaceStarts DEF Init
<1>2. NoRow \in RowSet BY DEF NoRow, RowSet, Statuses
<1>3. PICK t \in Texts :
        /\ resume = Owned(t)
        /\ saga = [a \in Apps |-> [status |-> "none", attempt |-> 0,
                                   baseline |-> Owned(t), changes |-> FALSE]]
  BY DEF Init, TailoringInit
<1>4. Owned(t) \in ResumeSet BY DEF Owned, ResumeSet
<1>5. saga \in [Apps -> SagaSet] /\ resume \in ResumeSet BY <1>3, <1>4 DEF SagaSet
<1>6. h = Idle BY DEF Init
<1>7. /\ clock \in 1 .. MaxTime /\ app \in [Apps -> RowSet] /\ drift \in Nat
      /\ op \in [Operators -> {NoRequest} \cup RequestSet]
  BY <1>2, SubmitAssumption DEF Init
<1>8. Typed BY <1>1, <1>5, <1>6, <1>7, IdleTyped DEF Typed
<1>9. RequestsFresh BY DEF Init, RequestsFresh
<1>10. h.pc \notin Working /\ h.todo = {}
  BY <1>6, IdleTyped DEF Working, Sending
<1>11. QED
  BY <1>8, <1>9, <1>10
  DEF Control, WorksOnOpenRow, KeepsUnsureRow, CommitsSubmitted

LEMMA ControlStep == ASSUME Control, Next PROVE Control'
<1>0. Typed /\ RequestsFresh BY DEF Control
<1>1. ASSUME NEW a \in Apps, NEW k \in Keys, Handle(a, k) PROVE Control'
  <2>1. UNCHANGED <<app, op>> BY <1>1 DEF Handle, NoStore, HandlerOnly
  <2>2. QED BY <1>0, <1>1, <2>1, HandleMoves, BeginsControl
<1>2. CASE ReleaseFirst
  <2>1. UNCHANGED <<app, op>> /\ h.pc = "prepare" BY <1>2 DEF ReleaseFirst, HandlerOnly
  <2>2. "save" \notin h.todo BY <2>1 DEF Control, WorksOnOpenRow, Working
  <2>3. QED BY <1>0, <1>2, <2>1, <2>2, ReleaseFirstMoves, DropsControl
<1>3. CASE PlanUnresolved
  <2>1. UNCHANGED <<app, op>> /\ h.pc \in Working
    BY <1>3 DEF PlanUnresolved, NoStore, HandlerOnly, Working
  <2>2. QED BY <1>0, <1>3, <2>1, PlanUnresolvedMoves, ErrsControl, SavesControl
<1>4. CASE Prepare
  <2>1. UNCHANGED <<app, op>> /\ h.pc = "prepare" /\ h.pc \in Working
    BY <1>4 DEF Prepare, NoStore, HandlerOnly, Working
  <2>2. Typed' /\ (Errs(h') \/ Decides(h')) BY <1>0, <1>4, PrepareMoves
  <2>3. CASE Errs(h') BY <2>1, <2>2, <2>3, ErrsControl
  <2>4. CASE Reserves(h')
    BY <2>1, <2>2, <2>4, GoesControl DEF Reserves, Working, Sending
  <2>5. CASE \/ Ended(h', "dry_run") \/ Ended(h', "waiting_approval")
             \/ Ended(h', "skipped") \/ Ended(h', "waiting_validation")
    BY <2>1, <2>2, <2>5, EndedControl
  <2>6. QED BY <2>2, <2>3, <2>4, <2>5 DEF Decides
<1>5. CASE VacancyUnreadable
  <2>1. UNCHANGED <<app, op>> /\ h.pc \in Working
    BY <1>5 DEF VacancyUnreadable, NoStore, HandlerOnly, Working
  <2>2. QED BY <1>0, <1>5, <2>1, VacancyUnreadableMoves, SavesControl
<1>6. CASE Reserve
  <2>1. UNCHANGED <<app, op>> /\ h.pc \in Working
    BY <1>6 DEF Reserve, HandlerOnly, Working
  <2>2. Typed' /\ (GoesTo(h', "pace") \/ Saves(h', "ready", {}, "retryable"))
    BY <1>0, <1>6, ReserveMoves
  <2>3. CASE GoesTo(h', "pace")
    BY <2>1, <2>2, <2>3, GoesControl DEF GoesTo, Working, Sending
  <2>4. CASE Saves(h', "ready", {}, "retryable") BY <2>1, <2>2, <2>4, SavesControl
  <2>5. QED BY <2>2, <2>3, <2>4
<1>7. CASE AcquirePacing
  <2>1. UNCHANGED <<app, op>> /\ h.pc \in Working
    BY <1>7 DEF AcquirePacing, HandlerOnly, Working
  <2>2. /\ Typed'
        /\ \/ GoesTo(h', "tailor") \/ GoesTo(h', "wait")
           \/ Saves(h', "ready", {"release"}, "retryable")
    BY <1>0, <1>7, AcquirePacingMoves
  <2>3. CASE GoesTo(h', "tailor") \/ GoesTo(h', "wait")
    BY <2>1, <2>2, <2>3, GoesControl DEF GoesTo, Working, Sending
  <2>4. CASE Saves(h', "ready", {"release"}, "retryable")
    BY <2>1, <2>2, <2>4, SavesControl
  <2>5. QED BY <2>2, <2>3, <2>4
<1>8. CASE PacingWait
  <2>1. UNCHANGED <<app, op>> /\ h.pc \in Working
    BY <1>8 DEF PacingWait, NoStore, HandlerOnly, Working
  <2>2. /\ Typed'
        /\ GoesTo(h', "pace") \/ Saves(h', "ready", {"release"}, "retryable")
    BY <1>0, <1>8, PacingWaitMoves
  <2>3. CASE GoesTo(h', "pace")
    BY <2>1, <2>2, <2>3, GoesControl DEF GoesTo, Working, Sending
  <2>4. CASE Saves(h', "ready", {"release"}, "retryable")
    BY <2>1, <2>2, <2>4, SavesControl
  <2>5. QED BY <2>2, <2>3, <2>4
<1>9. CASE SlotUnavailable
  <2>1. UNCHANGED <<app, op>> /\ h.pc \in Working
    BY <1>9 DEF SlotUnavailable, NoStore, HandlerOnly, Working
  <2>2. QED BY <1>0, <1>9, <2>1, SlotUnavailableMoves, SavesControl
<1>10. CASE Tailor
  <2>1. UNCHANGED <<app, op>> /\ h.pc \in Working
    BY <1>10 DEF Tailor, NoStore, HandlerOnly, Working
  <2>2. /\ Typed'
        /\ \/ GoesTo(h', "submit") \/ GoesTo(h', "apply") \/ GoesTo(h', "plan")
           \/ Saves(h', "ready", {"release"}, "retryable")
           \/ Saves(h', "ready", {"release"}, "failed")
    BY <1>0, <1>10, TailorMoves
  <2>3. CASE GoesTo(h', "submit") \/ GoesTo(h', "apply") \/ GoesTo(h', "plan")
    BY <2>1, <2>2, <2>3, GoesControl DEF GoesTo, Working, Sending
  <2>4. CASE \/ Saves(h', "ready", {"release"}, "retryable")
             \/ Saves(h', "ready", {"release"}, "failed")
    BY <2>1, <2>2, <2>4, SavesControl
  <2>5. QED BY <2>2, <2>3, <2>4
<1>11. CASE PlanTailoring
  <2>1. UNCHANGED <<app, op>> /\ h.pc \in Working
    BY <1>11 DEF PlanTailoring, HandlerOnly, Working
  <2>2. /\ Typed'
        /\ \/ GoesTo(h', "apply") \/ GoesTo(h', "submit")
           \/ Saves(h', "ready", {"release"}, "retryable")
           \/ Saves(h', "ready", {"release"}, "failed")
    BY <1>0, <1>11, PlanTailoringMoves
  <2>3. CASE GoesTo(h', "submit") \/ GoesTo(h', "apply")
    BY <2>1, <2>2, <2>3, GoesControl DEF GoesTo, Working, Sending
  <2>4. CASE \/ Saves(h', "ready", {"release"}, "retryable")
             \/ Saves(h', "ready", {"release"}, "failed")
    BY <2>1, <2>2, <2>4, SavesControl
  <2>5. QED BY <2>2, <2>3, <2>4
<1>12. CASE DriveApply \/ DriveWrite \/ DriveCheck
  <2>1. UNCHANGED <<app, op>> /\ h.pc \in Working
    BY <1>12 DEF DriveApply, DriveWrite, DriveCheck, HandlerOnly, Working
  <2>2. /\ Typed'
        /\ \/ UNCHANGED h \/ \E pc \in {"write", "check", "applied"} : GoesTo(h', pc)
           \/ Saves(h', "ready", {"release"}, "retryable")
           \/ Saves(h', "ready", {"release"}, "failed")
    BY <1>0, <1>12, DriveMoves DEF Driven
  <2>3. CASE \E pc \in {"write", "check", "applied"} : GoesTo(h', pc)
    BY <2>1, <2>2, <2>3, GoesControl DEF GoesTo, Working, Sending
  <2>4. CASE \/ Saves(h', "ready", {"release"}, "retryable")
             \/ Saves(h', "ready", {"release"}, "failed")
    BY <2>1, <2>2, <2>4, SavesControl
  <2>5. CASE UNCHANGED h
    BY <1>0, <2>1, <2>2, <2>5, StillControl DEF RequestsFresh, FreshRequest
  <2>6. QED BY <2>2, <2>3, <2>4, <2>5
<1>13. CASE DriveApplied
  <2>1. UNCHANGED <<app, op>> /\ h.pc \in Working
    BY <1>13 DEF DriveApplied, HandlerOnly, Working
  <2>2. Typed' /\ GoesTo(h', "submit") BY <1>0, <1>13, DriveAppliedMoves
  <2>3. QED BY <2>1, <2>2, GoesControl DEF GoesTo, Working, Sending
<1>14. CASE BeginSubmitting BY <1>14, BeginSubmittingControl
<1>15. CASE BeginSubmit \/ VerifyTailoring
  <2>1. UNCHANGED <<app, op>> /\ h.pc \in Sending /\ h.pc \in Working
    BY <1>15 DEF BeginSubmit, VerifyTailoring, NoStore, HandlerOnly, Working, Sending
  <2>2. /\ Typed'
        /\ \/ GoesTo(h', "verify") \/ GoesTo(h', "send")
           \/ Saves(h', "failed", Giving, "failed")
           \/ Saves(h', "ready", Giving, "retryable")
    BY <1>0, <1>15, BeginSubmitMoves
  <2>3. h.expected = "submitting" BY <2>1 DEF Control, WorksOnOpenRow
  <2>4. CASE GoesTo(h', "verify") \/ GoesTo(h', "send")
    BY <2>1, <2>2, <2>3, <2>4, GoesControl DEF GoesTo, Working, Sending
  <2>5. CASE \/ Saves(h', "failed", Giving, "failed")
             \/ Saves(h', "ready", Giving, "retryable")
    BY <2>1, <2>2, <2>5, SavesControl DEF Giving
  <2>6. QED BY <2>2, <2>4, <2>5
<1>16. CASE SubmitApplication
  <2>1. UNCHANGED <<app, op>> /\ h.pc \in Sending /\ h.pc \in Working
    BY <1>16 DEF SubmitApplication, NoStore, HandlerOnly, Working, Sending
  <2>2. Typed' /\ (GoesTo(h', "browser") \/ Answered(h'))
    BY <1>0, <1>16, SubmitApplicationMoves
  <2>3. h.expected = "submitting" BY <2>1 DEF Control, WorksOnOpenRow
  <2>4. CASE GoesTo(h', "browser")
    BY <2>1, <2>2, <2>3, <2>4, GoesControl DEF GoesTo, Working, Sending
  <2>5. CASE Answered(h') BY <2>1, <2>2, <2>5, AnsweredControl
  <2>6. QED BY <2>2, <2>4, <2>5
<1>17. CASE BrowserFallback
  <2>1. UNCHANGED <<app, op>> /\ h.pc \in Working
    BY <1>17 DEF BrowserFallback, NoStore, HandlerOnly, Working, Sending
  <2>2. Typed' /\ BrowserSaves(h') BY <1>0, <1>17, BrowserFallbackMoves
  <2>3. /\ h'.pc = "finish" /\ h'.app = h.app /\ h'.expected = h.expected
        /\ "save" \in h'.todo
        /\ "commit" \in h'.todo => h'.cur.status = "submitted"
    BY <2>2 DEF BrowserSaves, Giving
  <2>4. h'.pc \notin Working BY <2>3 DEF Working, Sending
  <2>5. QED
    BY <1>0, <2>1, <2>2, <2>3, <2>4
    DEF Control, WorksOnOpenRow, KeepsUnsureRow, CommitsSubmitted, RequestsFresh,
        FreshRequest
<1>18. CASE Reconcile
  <2>1. UNCHANGED <<app, op>> /\ h.pc \in Working
    BY <1>18 DEF Reconcile, NoStore, HandlerOnly, Working
  <2>2. QED BY <1>0, <1>18, <2>1, ReconcileMoves, ErrsControl, AnsweredControl
<1>19. CASE SaveOutcome BY <1>19, SaveOutcomeControl
<1>20. CASE CommitBudget
  <2>1. UNCHANGED <<app, op>> /\ h.pc = "finish" /\ "save" \notin h.todo
    BY <1>20 DEF CommitBudget, Doing, Before, HandlerOnly
  <2>2. h.pc \notin Working BY <2>1 DEF Working, Sending
  <2>3. QED BY <1>0, <1>20, <2>1, <2>2, CommitBudgetMoves, DropsControl
<1>21. CASE ReleaseBudget
  <2>1. UNCHANGED <<app, op>> /\ h.pc = "finish" /\ "save" \notin h.todo
    BY <1>21 DEF ReleaseBudget, Doing, Before, HandlerOnly
  <2>2. h.pc \notin Working BY <2>1 DEF Working, Sending
  <2>3. QED BY <1>0, <1>21, <2>1, <2>2, ReleaseBudgetMoves, DropsControl
<1>22. CASE RestoreTailoring \/ Restores
  <2>1. UNCHANGED <<app, op>> /\ h.pc = "finish" /\ "save" \notin h.todo
    BY <1>22, RestoresLast
  <2>2. h.pc \notin Working BY <2>1 DEF Working, Sending
  <2>3. /\ Typed'
        /\ \/ Errs(h') \/ UNCHANGED h \/ Drops(h', h.todo \ {"restore"})
           \/ \E step \in Restoring : Drops(h', {step})
    BY <1>0, <1>22, RestoreTailoringMoves, RestoreMoves, RestoredGoesOn DEF Restoring
  <2>4. CASE Errs(h') BY <2>1, <2>3, <2>4, ErrsControl
  <2>5. CASE Drops(h', h.todo \ {"restore"})
    BY <2>1, <2>2, <2>3, <2>5, DropsControl
  <2>6. ASSUME NEW step \in Restoring, Drops(h', {step}) PROVE Control'
    <3>1. "save" \notin {step} /\ "commit" \notin {step} BY DEF Restoring
    <3>2. QED BY <2>1, <2>2, <2>3, <2>6, <3>1, DropsControl
  <2>7. CASE UNCHANGED h
    BY <1>0, <2>1, <2>3, <2>7, StillControl DEF RequestsFresh, FreshRequest
  <2>8. QED BY <2>3, <2>4, <2>5, <2>6, <2>7
<1>24. CASE RestoreRecord
  <2>1. UNCHANGED <<app, op>> /\ h.pc = "finish"
    BY <1>24 DEF RestoreRecord, Doing, HandlerOnly
  <2>2. h.pc \notin Working BY <2>1 DEF Working, Sending
  <2>3. QED BY <1>0, <1>24, <2>1, <2>2, RestoreRecordMoves, DropsControl
<1>25. CASE HandleReturns \/ Crash
  <2>1. /\ Typed' /\ h'.pc = "idle" /\ h'.todo = {} /\ UNCHANGED <<app, op>>
    BY <1>0, <1>25, IdleMoves
  <2>2. h'.pc \notin Working BY <2>1 DEF Working, Sending
  <2>3. QED
    BY <1>0, <2>1, <2>2
    DEF Control, WorksOnOpenRow, KeepsUnsureRow, CommitsSubmitted, RequestsFresh,
        FreshRequest
<1>26. CASE CallFails
  <2>1. UNCHANGED <<app, op>> /\ h.pc # "idle"
    BY <1>26 DEF CallFails, NoStore, HandlerOnly, Control
  <2>2. QED BY <1>0, <1>26, <2>1, CallFailsMoves, ErrsControl
<1>27. CASE Outside
  BY <1>0, <1>27, OutsideMoves, StillControl DEF RequestsFresh, FreshRequest
<1>28. CASE Requests
  <2>1. /\ Typed' /\ UNCHANGED <<h, app>>
        /\ \A o \in Operators :
             op'[o] = op[o] \/ op'[o] = NoRequest \/ FreshRequest(op'[o])
    BY <1>0, <1>28, RequestsMove
  <2>2. RequestsFresh' BY <1>0, <2>1 DEF RequestsFresh, FreshRequest
  <2>3. QED BY <2>1, <2>2, StillControl
<1>29. ASSUME NEW o \in Operators, RequestSave(o) PROVE Control'
  BY <1>29, RequestSaveControl
<1>30. QED
  BY <1>1, <1>2, <1>3, <1>4, <1>5, <1>6, <1>7, <1>8, <1>9, <1>10, <1>11, <1>12, <1>13,
     <1>14, <1>15, <1>16, <1>17, <1>18, <1>19, <1>20, <1>21, <1>22, <1>24, <1>25,
     <1>26, <1>27, <1>28, <1>29
  DEF Next, Step, Outside, Requests, Restores

LEMMA ControlStays == ASSUME Control, UNCHANGED vars PROVE Control'
<1>1. UNCHANGED <<clock, app, op, h, saga, resume, drift, pace>>
  BY DEF vars, submitVars, paceVars, tailoringVars
<1>2. Typed' BY <1>1 DEF Control, Typed, PaceInvariant, SlotsSpaced, Acquired, Paced
<1>3. QED BY <1>1, <1>2, StillControl DEF Control, RequestsFresh, FreshRequest

(* Between two of its writes the handler of worker/application.go works on *)
(* the row it read: nobody else has moved it from the open status the      *)
(* handler relies on, what it is about to save is in line with that row,   *)
(* and a request of an operator saves over the row it has read.            *)
THEOREM HandlerInductive == Spec => []Control
<1>1. Control /\ [Next]_vars => Control' BY ControlStep, ControlStays
<1>2. QED BY ControlStarts, <1>1, PTL DEF Spec

(* The pacing slots that were granted are an interval apart.               *)
THEOREM Spaced == Spec => []SlotsSpaced
<1>1. Control => SlotsSpaced BY DEF Control, Typed, PaceInvariant
<1>2. QED BY HandlerInductive, <1>1, PTL

-----------------------------------------------------------------------------
(* The budget under the handler.  A reservation is committed only for an   *)
(* application whose row is submitted, and that row is final; so nothing   *)
(* is reserved again for it, and no slot of a past window is given back    *)
(* under a committed reservation.                                          *)

CommittedIsSubmitted ==
    \A a \in Apps : reservation[a].state = "committed" => app[a].status = "submitted"

MovesBudget == ReleaseFirst \/ Reserve \/ CommitBudget \/ ReleaseBudget
MovesRows == BeginSubmitting \/ SaveOutcome \/ \E o \in Operators : RequestSave(o)

LEMMA WhatMoves ==
    ASSUME Next
    PROVE  \/ MovesBudget /\ UNCHANGED app
           \/ MovesRows /\ UNCHANGED budgetVars
           \/ UNCHANGED <<budgetVars, app>>
<1>1. ASSUME NEW a \in Apps, NEW k \in Keys, Handle(a, k) \/ Requeue(a, k)
      PROVE  UNCHANGED <<budgetVars, app>>
  BY <1>1 DEF Handle, Requeue, NoStore
<1>2. CASE MovesBudget
  BY <1>2 DEF MovesBudget, ReleaseFirst, Reserve, CommitBudget, ReleaseBudget
<1>3. CASE MovesRows
  BY <1>3 DEF MovesRows, BeginSubmitting, SaveOutcome, RequestSave, OpOnly
<1>4. CASE \/ PlanUnresolved \/ Prepare \/ VacancyUnreadable \/ AcquirePacing
           \/ PacingWait \/ SlotUnavailable \/ Tailor \/ PlanTailoring
  BY <1>4 DEF PlanUnresolved, Prepare, VacancyUnreadable, AcquirePacing, PacingWait,
     SlotUnavailable, Tailor, PlanTailoring, NoStore
<1>5. CASE \/ DriveApply \/ DriveWrite \/ DriveCheck \/ DriveApplied \/ BeginSubmit
           \/ VerifyTailoring \/ SubmitApplication \/ BrowserFallback \/ Reconcile
  BY <1>5 DEF DriveApply, DriveWrite, DriveCheck, DriveApplied, BeginSubmit,
     VerifyTailoring, SubmitApplication, BrowserFallback, Reconcile, NoStore
<1>6. CASE \/ RestoreTailoring \/ Restores \/ RestoreRecord \/ HandleReturns
           \/ CallFails \/ Crash \/ Tick \/ OwnerEdits
  BY <1>6, RestoresLast DEF HandleReturns, CallFails, Crash, Tick, OwnerEdits, NoStore
<1>7. CASE Requests
  BY <1>7 DEF Requests, AskRetry, AskApproval, AskRefresh, RequestEnqueue,
     RequestCrash, OpOnly
<1>8. QED
  BY <1>1, <1>2, <1>3, <1>4, <1>5, <1>6, <1>7
  DEF Next, Step, MovesBudget, MovesRows, Requests, Restores

(* Only a row that is not submitted is changed.                            *)
LEMMA RowsMove ==
    ASSUME Control, MovesRows
    PROVE  \/ UNCHANGED app
           \/ \E a \in Apps : /\ app[a].status # "submitted"
                              /\ \A b \in Apps \ {a} : app'[b] = app[b]
<1>0. Typed BY DEF Control
<1>1. CASE BeginSubmitting
  <2>1. h.pc \in Working /\ h.app \in Apps /\ app[h.app].status # "submitted"
    BY <1>0, <1>1 DEF BeginSubmitting, Working, Typed, Control, WorksOnOpenRow
  <2>2. UNCHANGED app \/ RowSaved(h.app, "submitting")
    BY <1>0, <1>1, BeginSubmittingMoves
  <2>3. QED BY <2>1, <2>2 DEF RowSaved
<1>2. CASE SaveOutcome
  <2>1. h.app \in Apps /\ h.expected # "submitted"
    BY <1>0, <1>2 DEF SaveOutcome, Doing, Typed, Control, CommitsSubmitted
  <2>2. \/ UNCHANGED app
        \/ app[h.app].status = h.expected /\ RowSaved(h.app, h.cur.status)
    BY <1>0, <1>2, SaveOutcomeMoves
  <2>3. QED BY <2>1, <2>2 DEF RowSaved
<1>3. ASSUME NEW o \in Operators, RequestSave(o), ~UNCHANGED app
      PROVE  \E a \in Apps : /\ app[a].status # "submitted"
                             /\ \A b \in Apps \ {a} : app'[b] = app[b]
  <2>1. RequestSaves(op[o]) BY <1>0, <1>3, RequestSaveMoves
  <2>2. QED BY <2>1, RequestSavesAtRest DEF Retryable
<1>4. QED BY <1>1, <1>2, <1>3 DEF MovesRows

LEMMA BudgetMoves ==
    ASSUME Control, BudgetInvariant, CommittedIsSubmitted, MovesBudget, UNCHANGED app
    PROVE  BudgetInvariant' /\ CommittedIsSubmitted'
<1>0. Typed /\ (h.pc # "idle" => h.app \in Apps) BY DEF Control, Typed
<1>1. reservation \in [Apps -> ReservationSet]
  BY DEF BudgetInvariant, BudgetTypeOK
<1>2. CASE ReleaseFirst \/ ReleaseBudget
  <2>1. h.app \in Apps /\ ReleaseApplicationBudget(h.app)
    BY <1>0, <1>2 DEF ReleaseFirst, ReleaseBudget, Doing
  <2>2. BudgetInvariant' BY <2>1, BudgetReleased
  <2>3. \A a \in Apps : reservation'[a].state = "committed"
                           => reservation[a].state = "committed"
    BY <1>1, <2>1 DEF ReleaseApplicationBudget, ReservationSet, budgetVars
  <2>4. QED BY <2>2, <2>3 DEF CommittedIsSubmitted
<1>3. CASE CommitBudget
  <2>1. /\ h.app \in Apps /\ CommitApplicationBudget(h.app)
        /\ app[h.app].status = "submitted"
    BY <1>0, <1>3 DEF CommitBudget, Doing, Before, Control, CommitsSubmitted
  <2>2. BudgetInvariant' BY <2>1, BudgetCommitted
  <2>3. \A a \in Apps \ {h.app} : reservation'[a] = reservation[a]
    BY <1>1, <2>1 DEF CommitApplicationBudget
  <2>4. QED BY <2>1, <2>2, <2>3 DEF CommittedIsSubmitted
<1>4. CASE Reserve
  <2>1. /\ h.pc = "reserve" /\ h.pc \in Working /\ h.app \in Apps /\ h \in HandlerSet
    BY <1>0, <1>4 DEF Reserve, Working, Typed
  <2>2. h.now \in 1 .. MaxTime /\ app[h.app].status # "submitted"
    BY <2>1 DEF Control, WorksOnOpenRow
  <2>3. reservation[h.app].state # "committed" BY <2>1, <2>2 DEF CommittedIsSubmitted
  <2>4. Window(h.now) \in Windows /\ h.plan.limit \in Nat \ {0}
    BY <2>1, <2>2, SubmitAssumption DEF Window, HandlerSet, PlanSet
  <2>5. \/ ReserveApplicationBudget(h.app, Window(h.now), h.plan.limit)
        \/ UNCHANGED budgetVars
    BY <1>4 DEF Reserve
  <2>6. CASE ReserveApplicationBudget(h.app, Window(h.now), h.plan.limit)
    <3>1. BudgetInvariant' BY <2>1, <2>3, <2>4, <2>6, BudgetReserved
    <3>2. \A a \in Apps : reservation'[a].state = "committed"
                             => reservation[a].state = "committed"
      BY <1>1, <2>6
      DEF ReserveApplicationBudget, ReserveAgain, ReserveSlot, ReservationSet
    <3>3. QED BY <3>1, <3>2 DEF CommittedIsSubmitted
  <2>7. CASE UNCHANGED budgetVars
    BY <2>7 DEF budgetVars, BudgetInvariant, BudgetTypeOK, BudgetAccounts,
       SlotsCounted, WithinLimit, CountedIn, Holding, CommittedIsSubmitted
  <2>8. QED BY <2>5, <2>6, <2>7
<1>5. QED BY <1>2, <1>3, <1>4 DEF MovesBudget

LEMMA BudgetStays ==
    ASSUME BudgetInvariant, UNCHANGED budgetVars PROVE BudgetInvariant'
BY DEF budgetVars, BudgetInvariant, BudgetTypeOK, BudgetAccounts,
   SlotsCounted, WithinLimit, CountedIn, Holding

LEMMA BudgetStep ==
    ASSUME Control, BudgetInvariant, CommittedIsSubmitted, [Next]_vars
    PROVE  BudgetInvariant' /\ CommittedIsSubmitted'
<1>1. CASE MovesBudget /\ UNCHANGED app BY <1>1, BudgetMoves
<1>2. CASE MovesRows /\ UNCHANGED budgetVars
  BY <1>2, BudgetStays, RowsMove DEF CommittedIsSubmitted, budgetVars
<1>3. CASE UNCHANGED <<budgetVars, app>>
  BY <1>3, BudgetStays DEF CommittedIsSubmitted, budgetVars
<1>4. CASE UNCHANGED vars
  BY <1>4, BudgetStays DEF CommittedIsSubmitted, budgetVars, vars, submitVars
<1>5. QED BY <1>1, <1>2, <1>3, <1>4, WhatMoves

(* What the budget accounts rest on: every committed reservation belongs   *)
(* to a submitted row, in every state the handlers and operators reach.    *)
THEOREM BudgetInductive ==
    Spec => [](Control /\ BudgetInvariant /\ CommittedIsSubmitted)
<1>1. Init => BudgetInvariant /\ CommittedIsSubmitted
  BY BudgetStarts DEF Init, BudgetInit, CommittedIsSubmitted
<1>2. Control /\ BudgetInvariant /\ CommittedIsSubmitted /\ [Next]_vars
        => BudgetInvariant' /\ CommittedIsSubmitted'
  BY BudgetStep
<1>3. QED BY HandlerInductive, <1>1, <1>2, PTL DEF Spec

(* The use of every window is the number of applications that hold a slot  *)
(* of it, and never exceeds the limit of the window.                       *)
THEOREM BudgetKept == Spec => []BudgetAccounts
<1>1. BudgetInvariant => BudgetAccounts BY DEF BudgetInvariant
<1>2. QED BY BudgetInductive, <1>1, PTL

-----------------------------------------------------------------------------
(* A submission is not repeated blindly.  A row whose submission has an    *)
(* outcome nobody knows is never one the handler prepares and sends: it is *)
(* either unprepared, or not in a status that leads to the submission; and *)
(* the handler that knows the outcome saves it before it lets the row go   *)
(* back to such a status.                                                  *)

Sendable(row) ==
    \/ row.status = "waiting_approval"
    \/ row.prepared /\ row.status \in {"new", "preparing", "ready"}

OnTheWay == Working \ {"prepare", "reconcile", "browser"}

RowsSettled == \A a \in Apps : a \in unsettled => ~Sendable(app[a])
HandlerSettled ==
    h.app \in unsettled =>
        /\ h.pc \notin OnTheWay
        /\ ~(h.pc = "prepare" /\ h.cur.prepared)
        /\ "save" \in h.todo /\ Sendable(h.cur) => h.expected \in Unsure /\ h.sure

Settled == RowsSettled /\ HandlerSettled

LEMMA ErrsSettled ==
    ASSUME Settled, Errs(h'), UNCHANGED <<app, unsettled>> PROVE Settled'
<1>1. h'.pc = "finish" /\ h'.todo = {} BY DEF Errs, Stops
<1>2. h'.pc \notin OnTheWay BY <1>1 DEF OnTheWay, Working, Sending
<1>3. QED BY <1>1, <1>2 DEF Settled, RowsSettled, HandlerSettled

LEMMA SavesSettled ==
    ASSUME Settled, NEW status, NEW steps, NEW result, Saves(h', status, steps, result),
           UNCHANGED <<app, unsettled>>,
           \/ h.app \notin unsettled
           \/ status \in {"waiting_validation", "skipped", "failed", "submitted",
                          "pending_reconcile"}
           \/ h.expected \in Unsure /\ h.sure
    PROVE  Settled'
<1>1. /\ h'.pc = "finish" /\ h'.app = h.app /\ h'.cur.status = status
      /\ h'.expected = h.expected /\ h'.sure = h.sure
  BY DEF Saves, SameTask
<1>2. h'.pc \notin OnTheWay BY <1>1 DEF OnTheWay, Working, Sending
<1>3. QED BY <1>1, <1>2 DEF Settled, RowsSettled, HandlerSettled, Sendable

LEMMA GoesSettled ==
    ASSUME Settled, NEW pc, GoesTo(h', pc), h.app \notin unsettled,
           UNCHANGED <<app, unsettled>>
    PROVE  Settled'
BY DEF GoesTo, SameTask, Settled, RowsSettled, HandlerSettled

LEMMA DropsSettled ==
    ASSUME Settled, NEW steps, Drops(h', steps), "save" \in steps => "save" \in h.todo,
           UNCHANGED <<app, unsettled>>
    PROVE  Settled'
<1>1. /\ h'.app = h.app /\ h'.expected = h.expected /\ h'.sure = h.sure
      /\ h'.pc = h.pc /\ h'.todo = steps /\ h'.cur = h.cur
  BY DEF Drops, SameTask
<1>2. QED BY <1>1 DEF Settled, RowsSettled, HandlerSettled

LEMMA HandleSettled ==
    ASSUME Control, Settled, NEW a \in Apps, NEW k \in Keys, Handle(a, k) PROVE Settled'
<1>1. Typed' /\ Begins(h', a, k) BY HandleMoves DEF Control
<1>2. UNCHANGED <<app, unsettled>> BY DEF Handle, NoStore, NoSend
<1>3. RowsSettled' BY <1>2 DEF Settled, RowsSettled
<1>4. CASE h'.pc = "finish"
  <2>1. h'.pc \notin OnTheWay BY <1>4 DEF OnTheWay, Working, Sending
  <2>2. "save" \in h'.todo => h'.cur.status = "pending_reconcile"
    BY <1>1, <1>4 DEF Begins
  <2>3. HandlerSettled' BY <1>4, <2>1, <2>2 DEF HandlerSettled, Sendable
  <2>4. QED BY <1>3, <2>3 DEF Settled
<1>5. CASE h'.pc \in {"prepare", "reconcile"}
  <2>1. h'.pc \notin OnTheWay /\ "save" \notin h'.todo
    BY <1>1, <1>5 DEF OnTheWay, Begins
  <2>2. h'.pc = "prepare" /\ h'.cur.prepared => Sendable(app[a])
    BY <1>1, <1>5 DEF Begins, Sendable
  <2>3. h'.app = a /\ unsettled' = unsettled BY <1>1, <1>2 DEF Begins
  <2>4. HandlerSettled'
    BY <2>1, <2>2, <2>3 DEF Settled, RowsSettled, HandlerSettled
  <2>5. QED BY <1>3, <2>4 DEF Settled
<1>6. QED BY <1>1, <1>4, <1>5 DEF Begins

LEMMA PrepareSettled == ASSUME Control, Settled, Prepare PROVE Settled'
<1>1. \/ Errs(h') /\ UNCHANGED unsettled
      \/ Decides(h') /\ h.cur.prepared /\ UNCHANGED unsettled
      \/ Decides(h') /\ unsettled' = unsettled \ {h.app}
  BY PrepareMoves DEF Control
<1>2. UNCHANGED app /\ h.pc = "prepare" BY DEF Prepare, NoStore
<1>3. CASE Errs(h') /\ UNCHANGED unsettled BY <1>2, <1>3, ErrsSettled
<1>4. CASE Decides(h') /\ h.app \notin unsettled' /\ unsettled' \subseteq unsettled
  <2>1. h'.app = h.app BY <1>4, DecidesSame DEF SameTask
  <2>2. QED BY <1>2, <1>4, <2>1 DEF Settled, RowsSettled, HandlerSettled
<1>5. h.cur.prepared => h.app \notin unsettled
  BY <1>2 DEF Settled, HandlerSettled
<1>6. QED BY <1>1, <1>3, <1>4, <1>5

(* The row under a submission is marked, whatever the answer.              *)
LEMMA SubmitSettled == ASSUME Control, Settled, SubmitApplication PROVE Settled'
<1>1. GoesTo(h', "browser") \/ Answered(h')
  BY SubmitApplicationMoves DEF Control
<1>2. UNCHANGED app /\ h.pc = "send" /\ unsettled' = unsettled \cup {h.app}
  BY DEF SubmitApplication, NoStore
<1>3. h.pc \in Working /\ h.pc \in Sending BY <1>2 DEF Working, Sending
<1>4. h.expected = "submitting" /\ h.sure /\ h.todo \subseteq {"release"}
  BY <1>3 DEF Control, WorksOnOpenRow
<1>5. app[h.app].status = "submitting"
  BY <1>3, <1>4 DEF Control, KeepsUnsureRow, Unsure
<1>6. RowsSettled'
  BY <1>2, <1>5 DEF Settled, RowsSettled, Sendable
<1>7. SameTask(h') /\ h'.pc \in {"browser", "finish"}
  BY <1>1 DEF GoesTo, Answered, Saves
<1>8. h'.pc \notin OnTheWay /\ h'.pc # "prepare"
  BY <1>7 DEF OnTheWay, Working, Sending
<1>9. HandlerSettled' BY <1>4, <1>7, <1>8 DEF SameTask, HandlerSettled, Unsure
<1>10. QED BY <1>6, <1>9 DEF Settled

LEMMA SaveOutcomeSettled == ASSUME Control, Settled, SaveOutcome PROVE Settled'
<1>1. Typed /\ "save" \in h.todo /\ h.pc = "finish" /\ h.app \in Apps
  BY DEF Control, SaveOutcome, Doing, Typed
<1>2. CASE Errs(h') /\ UNCHANGED <<app, unsettled>> BY <1>2, ErrsSettled
<1>3. CASE /\ app[h.app].status = h.expected /\ app' = [app EXCEPT ![h.app] = h.cur]
           /\ RowSaved(h.app, h.cur.status) /\ Drops(h', h.todo \ {"save"})
  <2>1. unsettled' = IF /\ h.expected \in Unsure /\ h.cur.status # "pending_reconcile"
                        /\ h.sure
                       THEN unsettled \ {h.app} ELSE unsettled
    BY <1>3 DEF SaveOutcome, SaveConflict, Unsure
  <2>2. app'[h.app] = h.cur /\ \A b \in Apps \ {h.app} : app'[b] = app[b]
    BY <1>1, <1>3 DEF Typed
  <2>3. h'.app = h.app /\ h'.pc = "finish" /\ "save" \notin h'.todo
    BY <1>1, <1>3 DEF Drops, SameTask
  <2>4. h.app \in unsettled' => ~Sendable(h.cur)
    BY <1>1, <2>1 DEF Settled, HandlerSettled, Sendable
  <2>5. RowsSettled' BY <2>1, <2>2, <2>4 DEF Settled, RowsSettled
  <2>6. h'.pc \notin OnTheWay BY <2>3 DEF OnTheWay, Working, Sending
  <2>7. HandlerSettled' BY <2>3, <2>6 DEF HandlerSettled
  <2>8. QED BY <2>5, <2>7 DEF Settled
<1>4. QED BY <1>1, <1>2, <1>3, SaveOutcomeMoves

LEMMA BeginSubmittingSettled ==
    ASSUME Control, Settled, BeginSubmitting PROVE Settled'
<1>1. Typed /\ h.pc = "submit" /\ UNCHANGED unsettled /\ h.app \in Apps
  BY DEF Control, BeginSubmitting, NoSend, Typed
<1>2. CASE Errs(h') /\ UNCHANGED app BY <1>1, <1>2, ErrsSettled
<1>3. CASE RowSaved(h.app, "submitting") /\ h'.app = h.app /\ h'.pc = "begin"
  <2>1. h.app \notin unsettled
    BY <1>1 DEF Settled, HandlerSettled, OnTheWay, Working
  <2>2. RowsSettled'
    BY <1>1, <1>3, <2>1 DEF RowSaved, Settled, RowsSettled
  <2>3. HandlerSettled' BY <1>1, <1>3, <2>1 DEF HandlerSettled
  <2>4. QED BY <2>2, <2>3 DEF Settled
<1>4. QED BY <1>1, <1>2, <1>3, BeginSubmittingMoves

(* A retry clears the preparation, and an approval finds a row that waits  *)
(* for it.                                                                 *)
LEMMA RequestSaveSettled ==
    ASSUME Control, Settled, NEW o \in Operators, RequestSave(o) PROVE Settled'
<1>1. UNCHANGED h /\ (UNCHANGED app \/ RequestSaves(op[o]))
  BY RequestSaveMoves DEF Control
<1>2. UNCHANGED unsettled BY DEF RequestSave, OpOnly
<1>3. HandlerSettled' BY <1>1, <1>2 DEF Settled, HandlerSettled
<1>4. CASE UNCHANGED app BY <1>2, <1>3, <1>4 DEF Settled, RowsSettled
<1>5. CASE RequestSaves(op[o])
  <2>1. /\ op[o].app \in Apps
        /\ op[o].kind = "approve" => app[op[o].app].status = "waiting_approval"
        /\ \A b \in Apps \ {op[o].app} : app'[b] = app[b]
    BY <1>5, RequestSavesAtRest
  <2>2. op[o] \in RequestSet /\ app'[op[o].app] = Changed(op[o])
    BY <1>5, <2>1 DEF RequestSaves, Control, Typed
  <2>3. op[o].kind = "approve" => op[o].app \notin unsettled
    BY <2>1 DEF Settled, RowsSettled, Sendable
  <2>4. op[o].kind # "approve" => ~Sendable(Changed(op[o]))
    BY <2>2, ChangedTyped DEF Sendable, RequestSet
  <2>5. RowsSettled' BY <1>2, <2>1, <2>2, <2>3, <2>4 DEF Settled, RowsSettled
  <2>6. QED BY <1>3, <2>5 DEF Settled
<1>6. QED BY <1>1, <1>4, <1>5

LEMMA SettledStep == ASSUME Control, Settled, Next PROVE Settled'
<1>0. Typed BY DEF Control
<1>1. ASSUME NEW a \in Apps, NEW k \in Keys, Handle(a, k) PROVE Settled'
  BY <1>1, HandleSettled
<1>2. CASE ReleaseFirst
  <2>1. UNCHANGED <<app, unsettled>> BY <1>2 DEF ReleaseFirst, NoSend
  <2>2. QED BY <1>0, <1>2, <2>1, ReleaseFirstMoves, DropsSettled
<1>3. CASE PlanUnresolved
  <2>1. UNCHANGED <<app, unsettled>> BY <1>3 DEF PlanUnresolved, NoStore, NoSend
  <2>2. QED BY <1>0, <1>3, <2>1, PlanUnresolvedMoves, ErrsSettled, SavesSettled
<1>4. CASE Prepare BY <1>4, PrepareSettled
<1>5. CASE VacancyUnreadable
  <2>1. UNCHANGED <<app, unsettled>> BY <1>5 DEF VacancyUnreadable, NoStore, NoSend
  <2>2. QED BY <1>0, <1>5, <2>1, VacancyUnreadableMoves, SavesSettled
<1>6. CASE Reserve \/ AcquirePacing \/ PacingWait \/ SlotUnavailable
  <2>1. UNCHANGED <<app, unsettled>> /\ h.pc \in OnTheWay
    BY <1>6 DEF Reserve, AcquirePacing, PacingWait, SlotUnavailable, NoStore, NoSend,
       OnTheWay, Working
  <2>2. h.app \notin unsettled BY <2>1 DEF Settled, HandlerSettled
  <2>3. \/ GoesTo(h', "pace") \/ GoesTo(h', "tailor") \/ GoesTo(h', "wait")
        \/ Saves(h', "ready", {}, "retryable")
        \/ Saves(h', "ready", {"release"}, "retryable")
    BY <1>0, <1>6, ReserveMoves, AcquirePacingMoves, PacingWaitMoves,
       SlotUnavailableMoves
  <2>4. QED BY <2>1, <2>2, <2>3, GoesSettled, SavesSettled
<1>7. CASE \/ Tailor \/ PlanTailoring \/ DriveApply \/ DriveWrite \/ DriveCheck
           \/ DriveApplied
  <2>1. UNCHANGED <<app, unsettled>> /\ h.pc \in OnTheWay
    BY <1>7 DEF Tailor, PlanTailoring, DriveApply, DriveWrite, DriveCheck,
       DriveApplied, NoStore, NoSend, OnTheWay, Working
  <2>2. h.app \notin unsettled BY <2>1 DEF Settled, HandlerSettled
  <2>3. \/ \E pc \in {"submit", "apply", "plan", "write", "check", "applied"} :
               GoesTo(h', pc)
        \/ UNCHANGED h
        \/ Saves(h', "ready", {"release"}, "retryable")
        \/ Saves(h', "ready", {"release"}, "failed")
    BY <1>0, <1>7, TailorMoves, PlanTailoringMoves, DriveMoves, DriveAppliedMoves
    DEF Driven
  <2>4. CASE UNCHANGED h
    BY <2>1, <2>4 DEF Settled, RowsSettled, HandlerSettled
  <2>5. QED BY <2>1, <2>2, <2>3, <2>4, GoesSettled, SavesSettled
<1>8. CASE BeginSubmitting BY <1>8, BeginSubmittingSettled
<1>9. CASE BeginSubmit \/ VerifyTailoring
  <2>1. UNCHANGED <<app, unsettled>> /\ h.pc \in OnTheWay
    BY <1>9 DEF BeginSubmit, VerifyTailoring, NoStore, NoSend, OnTheWay, Working, Sending
  <2>2. h.app \notin unsettled BY <2>1 DEF Settled, HandlerSettled
  <2>3. \/ GoesTo(h', "verify") \/ GoesTo(h', "send")
        \/ Saves(h', "failed", Giving, "failed")
        \/ Saves(h', "ready", Giving, "retryable")
    BY <1>0, <1>9, BeginSubmitMoves
  <2>4. QED BY <2>1, <2>2, <2>3, GoesSettled, SavesSettled
<1>10. CASE SubmitApplication BY <1>10, SubmitSettled
<1>11. CASE BrowserFallback
  <2>1. UNCHANGED <<app, unsettled>> BY <1>11 DEF BrowserFallback, NoStore
  <2>2. BrowserSaves(h') BY <1>0, <1>11, BrowserFallbackMoves
  <2>3. h'.pc = "finish" /\ h'.cur.status \in {"submitted", "waiting_validation"}
    BY <2>2 DEF BrowserSaves
  <2>4. h'.pc \notin OnTheWay BY <2>3 DEF OnTheWay, Working, Sending
  <2>5. HandlerSettled' BY <2>3, <2>4 DEF HandlerSettled, Sendable
  <2>6. QED BY <2>1, <2>5 DEF Settled, RowsSettled
<1>12. CASE Reconcile
  <2>1. UNCHANGED <<app, unsettled>> /\ h.pc = "reconcile" /\ h.pc \in Working
    BY <1>12 DEF Reconcile, NoStore, NoSend, Working
  <2>2. h.expected \in Unsure /\ h.sure BY <2>1 DEF Control, WorksOnOpenRow, Unsure
  <2>3. Errs(h') \/ Answered(h') BY <1>0, <1>12, ReconcileMoves
  <2>4. CASE Errs(h') BY <2>1, <2>4, ErrsSettled
  <2>5. CASE Answered(h')
    BY <2>1, <2>2, <2>5, SavesSettled DEF Answered
  <2>6. QED BY <2>3, <2>4, <2>5
<1>13. CASE SaveOutcome BY <1>13, SaveOutcomeSettled
<1>14. CASE CommitBudget \/ ReleaseBudget
  <2>1. UNCHANGED <<app, unsettled>> BY <1>14 DEF CommitBudget, ReleaseBudget, NoSend
  <2>2. Drops(h', h.todo \ {"commit"}) \/ Drops(h', h.todo \ {"release"})
    BY <1>0, <1>14, CommitBudgetMoves, ReleaseBudgetMoves
  <2>3. QED BY <2>1, <2>2, DropsSettled
<1>15. CASE RestoreTailoring \/ Restores \/ RestoreRecord
  <2>1. UNCHANGED <<app, unsettled>> BY <1>15, RestoresLast
  <2>2. \/ Errs(h') \/ UNCHANGED h \/ Drops(h', h.todo \ {"restore"})
        \/ Drops(h', h.todo \ {"restoreRecord"})
        \/ \E step \in Restoring : Drops(h', {step})
    BY <1>0, <1>15, RestoreTailoringMoves, RestoreMoves, RestoredGoesOn,
       RestoreRecordMoves
    DEF Restoring
  <2>3. ASSUME NEW step \in Restoring, Drops(h', {step}) PROVE Settled'
    <3>1. "save" \notin {step} BY DEF Restoring
    <3>2. QED BY <2>1, <2>3, <3>1, DropsSettled
  <2>4. CASE UNCHANGED h BY <2>1, <2>4 DEF Settled, RowsSettled, HandlerSettled
  <2>5. QED BY <2>1, <2>2, <2>3, <2>4, ErrsSettled, DropsSettled
<1>16. CASE HandleReturns \/ Crash
  <2>1. UNCHANGED <<app, unsettled>> /\ h'.pc = "idle" /\ h'.todo = {}
    BY <1>0, <1>16, IdleMoves DEF HandleReturns, Crash, NoSend
  <2>2. h'.pc \notin OnTheWay BY <2>1 DEF OnTheWay, Working, Sending
  <2>3. QED BY <2>1, <2>2 DEF Settled, RowsSettled, HandlerSettled
<1>17. CASE CallFails
  <2>1. UNCHANGED <<app, unsettled>> /\ h.pc # "idle"
    BY <1>17 DEF CallFails, NoStore, NoSend, Control
  <2>2. QED BY <1>0, <1>17, <2>1, CallFailsMoves, ErrsSettled
<1>18. CASE Outside
  <2>1. UNCHANGED <<h, app, unsettled>>
    BY <1>18 DEF Outside, Tick, OwnerEdits, Requeue
  <2>2. QED BY <2>1 DEF Settled, RowsSettled, HandlerSettled
<1>19. CASE Requests
  <2>1. UNCHANGED <<h, app, unsettled>>
    BY <1>19 DEF Requests, AskRetry, AskApproval, AskRefresh, RequestEnqueue,
       RequestCrash, OpOnly
  <2>2. QED BY <2>1 DEF Settled, RowsSettled, HandlerSettled
<1>20. ASSUME NEW o \in Operators, RequestSave(o) PROVE Settled'
  BY <1>20, RequestSaveSettled
<1>21. QED
  BY <1>1, <1>2, <1>3, <1>4, <1>5, <1>6, <1>7, <1>8, <1>9, <1>10, <1>11, <1>12, <1>13,
     <1>14, <1>15, <1>16, <1>17, <1>18, <1>19, <1>20
  DEF Next, Step, Outside, Requests, Restores

(* A submission is never sent while the outcome of an earlier one is known *)
(* to nobody, through crashes, lost answers, retries and approvals.        *)
THEOREM NeverBlind == Spec => []NoBlindResend
<1>1. Init => Settled BY DEF Init, Settled, RowsSettled, HandlerSettled
<1>2. Control /\ Settled /\ [Next]_vars => Settled'
  <2>1. Control /\ Settled /\ UNCHANGED vars => Settled'
    BY DEF vars, submitVars, Settled, RowsSettled, HandlerSettled
  <2>2. QED BY <2>1, SettledStep
<1>3. Settled => NoBlindResend
  BY DEF Settled, HandlerSettled, NoBlindResend, OnTheWay, Working, Sending
<1>4. QED BY HandlerInductive, <1>1, <1>2, <1>3, PTL DEF Spec

-----------------------------------------------------------------------------
(* The tailoring saga.  Without a saga under way the resume is one its     *)
(* owner wrote; a handler that plans has read such a resume, or finds the  *)
(* profile locked by the saga of another application; a handler that is    *)
(* about to write has read the text it wants; and a restore is recorded    *)
(* only after the baseline is back.                                        *)

SomeUnfinished == \E a \in Apps : Unfinished(a)

Writing == h.pc = "write" \/ "restoreWrite" \in h.todo
RestoresAlone == \A step \in Restoring : step \in h.todo => h.todo = {step}

Tailoring ==
    /\ BaselineIsOwned
    /\ ~SomeUnfinished => resume.form = "base"
    /\ h.pc = "plan" =>
         ~Unfinished(h.app) /\ (h.seen.form = "base" \/ MutationLocked(h.app))
    /\ h.pc \in {"apply", "write", "check"} \/ h.todo \cap Restoring # {} =>
         Unfinished(h.app)
    /\ Writing => h.seen.text = saga[h.app].baseline.text
    /\ RestoresAlone
    /\ "restoreRecord" \in h.todo => resume.form = "base"

(* The steps that do not leave saga and resume alone, and those that make  *)
(* ready for one.                                                          *)
Drives == DriveApply \/ DriveWrite \/ DriveCheck
MovesSaga ==
    \/ PlanTailoring \/ Drives \/ DriveApplied \/ BeginSubmit \/ VerifyTailoring
    \/ RestoreTailoring \/ Restores \/ RestoreRecord

LEMMA SagaStays ==
    ASSUME Next PROVE MovesSaga \/ OwnerEdits \/ UNCHANGED <<saga, resume>>
<1>1. ASSUME NEW a \in Apps, NEW k \in Keys, Handle(a, k) \/ Requeue(a, k)
      PROVE  UNCHANGED <<saga, resume>>
  BY <1>1 DEF Handle, Requeue, NoStore, tailoringVars
<1>2. CASE \/ ReleaseFirst \/ PlanUnresolved \/ Prepare \/ VacancyUnreadable
           \/ Reserve \/ AcquirePacing \/ PacingWait \/ SlotUnavailable \/ Tailor
  BY <1>2 DEF ReleaseFirst, PlanUnresolved, Prepare, VacancyUnreadable, Reserve,
     AcquirePacing, PacingWait, SlotUnavailable, Tailor, NoStore, tailoringVars
<1>3. CASE \/ BeginSubmitting \/ SubmitApplication \/ BrowserFallback \/ Reconcile
           \/ SaveOutcome \/ CommitBudget \/ ReleaseBudget
  BY <1>3 DEF BeginSubmitting, SubmitApplication, BrowserFallback, Reconcile,
     SaveOutcome, CommitBudget, ReleaseBudget, NoStore, tailoringVars
<1>4. CASE HandleReturns \/ CallFails \/ Crash \/ Tick
  BY <1>4 DEF HandleReturns, CallFails, Crash, Tick, NoStore, tailoringVars
<1>5. CASE Requests \/ \E o \in Operators : RequestSave(o)
  BY <1>5 DEF Requests, AskRetry, AskApproval, AskRefresh, RequestEnqueue,
     RequestCrash, RequestSave, OpOnly, tailoringVars
<1>6. QED
  BY <1>1, <1>2, <1>3, <1>4, <1>5 DEF Next, Step, Requests, MovesSaga, Drives, Restores

(* A saga that moves from one unfinished phase to the next changes nothing *)
(* but its status.                                                         *)
LEMMA PhaseTailoring ==
    ASSUME Tailoring, NEW a \in Apps, NEW status \in SagaStatuses \ {"none", "restored"},
           SagaMoves(a, status), UNCHANGED resume
    PROVE  /\ BaselineIsOwned' /\ SomeUnfinished' /\ Unfinished(a)'
<1>1. Unfinished(a)' BY DEF SagaMoves, Unfinished
<1>2. BaselineIsOwned' BY DEF SagaMoves, Tailoring, BaselineIsOwned
<1>3. QED BY <1>1, <1>2 DEF SomeUnfinished

LEMMA WriteTailoring ==
    ASSUME Tailoring, NEW a \in Apps, Writes(a)
    PROVE  BaselineIsOwned' /\ (SomeUnfinished' <=> SomeUnfinished)
BY DEF Tailoring, Writes, BaselineIsOwned, SomeUnfinished, Unfinished

(* A handler that neither tailors nor restores has nothing to keep.        *)
Quieted(n) ==
    n.pc \notin {"plan", "apply", "write", "check"} /\ n.todo \cap Restoring = {}

LEMMA QuietTailoring ==
    ASSUME BaselineIsOwned', ~SomeUnfinished' => resume'.form = "base", Quieted(h')
    PROVE  Tailoring'
BY DEF Tailoring, Quieted, Writing, RestoresAlone, Restoring

LEMMA PlainTailoring ==
    ASSUME Tailoring, UNCHANGED <<saga, resume>>, Quieted(h')
    PROVE  Tailoring'
<1>1. BaselineIsOwned' /\ (SomeUnfinished' <=> SomeUnfinished)
  BY DEF Tailoring, BaselineIsOwned, SomeUnfinished, Unfinished
<1>2. QED BY <1>1, QuietTailoring DEF Tailoring

LEMMA SavesQuiet ==
    ASSUME NEW n, NEW status, NEW steps, NEW result, Saves(n, status, steps, result),
           steps \cap Restoring = {}
    PROVE  Quieted(n)
BY DEF Saves, Quieted, Restoring

LEMMA ErrsQuiet == ASSUME NEW n, Errs(n) PROVE Quieted(n)
BY DEF Errs, Stops, Quieted

LEMMA GoesQuiet ==
    ASSUME NEW n, NEW pc, GoesTo(n, pc), h.todo \cap Restoring = {},
           pc \notin {"plan", "apply", "write", "check"}
    PROVE  Quieted(n)
BY DEF GoesTo, Quieted

(* While the handler works, it restores nothing; and one that has a save,  *)
(* a slot or a restore before it has not begun to restore.                 *)
LEMMA WorkingQuiet ==
    ASSUME Control, h.pc \in Working PROVE h.todo \cap Restoring = {}
BY DEF Control, WorksOnOpenRow, Restoring

LEMMA AheadQuiet ==
    ASSUME Tailoring, NEW step \in {"save", "commit", "release", "restore"},
           step \in h.todo
    PROVE  h.todo \cap Restoring = {}
BY DEF Tailoring, RestoresAlone, Restoring

LEMMA OtherTailoring ==
    ASSUME Control, Tailoring, Step \/ Crash, ~MovesSaga, ~Tailor,
           UNCHANGED <<saga, resume>>
    PROVE  Tailoring'
<1>0. Typed BY DEF Control
<1>1. ASSUME NEW a \in Apps, NEW k \in Keys, Handle(a, k) PROVE Quieted(h')
  <2>1. Begins(h', a, k) BY <1>0, <1>1, HandleMoves
  <2>2. QED BY <2>1 DEF Begins, Quieted, Restoring
<1>2. CASE HandleReturns \/ Crash
  <2>1. h'.pc = "idle" /\ h'.todo = {} BY <1>0, <1>2, IdleMoves
  <2>2. QED BY <2>1, PlainTailoring DEF Quieted
<1>3. CASE \/ PlanUnresolved \/ VacancyUnreadable \/ SlotUnavailable \/ BrowserFallback
           \/ Reconcile \/ Prepare
  <2>0. h.todo \cap Restoring = {}
    BY <1>3, WorkingQuiet
    DEF PlanUnresolved, VacancyUnreadable, SlotUnavailable, BrowserFallback, Reconcile,
        Prepare, Working, Sending
  <2>1. CASE PlanUnresolved \/ VacancyUnreadable \/ SlotUnavailable
    BY <1>0, <2>0, <2>1, PlanUnresolvedMoves, VacancyUnreadableMoves,
       SlotUnavailableMoves, PlainTailoring
    DEF Errs, Stops, Saves, Quieted, Restoring
  <2>2. CASE BrowserFallback
    BY <1>0, <2>0, <2>2, BrowserFallbackMoves, PlainTailoring
    DEF BrowserSaves, Counting, Giving, Quieted, Restoring
  <2>3. CASE Reconcile
    BY <1>0, <2>0, <2>3, ReconcileMoves, PlainTailoring
    DEF Errs, Stops, Answered, Saves, Counting, Giving, Quieted, Restoring
  <2>4. CASE Prepare
    BY <1>0, <2>0, <2>4, PrepareMoves, PlainTailoring
    DEF Errs, Stops, Decides, Ended, Reserves, SameTask, Quieted, Restoring
  <2>5. QED BY <1>3, <2>1, <2>2, <2>3, <2>4
<1>4. CASE Reserve \/ AcquirePacing \/ PacingWait \/ SubmitApplication
  <2>0. h.todo \cap Restoring = {}
    BY <1>4, WorkingQuiet
    DEF Reserve, AcquirePacing, PacingWait, SubmitApplication, Working, Sending
  <2>1. \/ GoesTo(h', "pace") \/ GoesTo(h', "tailor") \/ GoesTo(h', "wait")
        \/ Saves(h', "ready", {}, "retryable")
        \/ Saves(h', "ready", {"release"}, "retryable")
        \/ GoesTo(h', "browser") \/ Answered(h')
    BY <1>0, <1>4, ReserveMoves, AcquirePacingMoves, PacingWaitMoves,
       SubmitApplicationMoves
  <2>2. Quieted(h')
    BY <2>0, <2>1
    DEF GoesTo, SameTask, Answered, Saves, Counting, Giving, Quieted, Restoring
  <2>3. QED BY <2>2, PlainTailoring
<1>5. CASE BeginSubmitting
  <2>0. h.todo \cap Restoring = {} BY <1>5, WorkingQuiet DEF BeginSubmitting, Working
  <2>1. Errs(h') \/ (h'.pc = "begin" /\ h'.app = h.app /\ h'.todo = h.todo)
    BY <1>0, <1>5, BeginSubmittingMoves
  <2>2. QED BY <2>0, <2>1, ErrsQuiet, PlainTailoring DEF Quieted
<1>6. CASE ReleaseFirst \/ SaveOutcome \/ CommitBudget \/ ReleaseBudget
  <2>0. /\ h.pc \notin {"plan", "apply", "write", "check"}
        /\ h.todo \cap Restoring = {}
    BY <1>6, WorkingQuiet, AheadQuiet
    DEF ReleaseFirst, SaveOutcome, CommitBudget, ReleaseBudget, Doing, Working
  <2>1. \/ Errs(h') \/ Drops(h', h.todo \ {"release"}) \/ Drops(h', h.todo \ {"save"})
        \/ Drops(h', h.todo \ {"commit"})
    BY <1>0, <1>6, ReleaseFirstMoves, SaveOutcomeMoves, CommitBudgetMoves,
       ReleaseBudgetMoves
  <2>2. Quieted(h') BY <2>0, <2>1, ErrsQuiet DEF Drops, SameTask, Quieted
  <2>3. QED BY <2>2, PlainTailoring
<1>7. CASE CallFails
  <2>1. h.pc # "idle" BY <1>7 DEF CallFails, Control
  <2>2. QED BY <1>0, <1>7, <2>1, CallFailsMoves, ErrsQuiet, PlainTailoring
<1>8. QED
  BY <1>1, <1>2, <1>3, <1>4, <1>5, <1>6, <1>7, PlainTailoring
  DEF Step, MovesSaga, Drives, Restores

LEMMA TailorTailoring == ASSUME Control, Tailoring, Tailor PROVE Tailoring'
<1>0. Typed /\ UNCHANGED <<saga, resume>> BY DEF Control, Tailor, NoStore, tailoringVars
<1>1. h.pc = "tailor" /\ h.pc \in Working /\ h.todo \cap Restoring = {}
  BY WorkingQuiet DEF Tailor, Working
<1>2. CASE GoesTo(h', "plan") /\ h'.seen = resume /\ ~Unfinished(h.app)
  <2>1. h'.app = h.app /\ h'.todo = h.todo /\ h'.pc = "plan" BY <1>2 DEF GoesTo, SameTask
  <2>2. resume.form = "base" \/ MutationLocked(h.app)
    BY <1>2 DEF Tailoring, SomeUnfinished, MutationLocked
  <2>3. BaselineIsOwned' /\ (SomeUnfinished' <=> SomeUnfinished)
        /\ (MutationLocked(h.app)' <=> MutationLocked(h.app)) /\ ~Unfinished(h.app)'
    BY <1>0, <1>2, <2>1
    DEF Tailoring, BaselineIsOwned, SomeUnfinished, Unfinished, MutationLocked
  <2>4. ~Writing' /\ RestoresAlone' /\ h'.todo \cap Restoring = {}
    BY <1>1, <2>1 DEF Writing, RestoresAlone, Restoring
  <2>5. QED
    BY <1>0, <1>1, <1>2, <2>1, <2>2, <2>3, <2>4
    DEF Tailoring, MutationLocked, Restoring
<1>3. CASE GoesTo(h', "apply") /\ Unfinished(h.app)
  <2>1. h'.app = h.app /\ h'.todo = h.todo /\ h'.pc = "apply" BY <1>3 DEF GoesTo, SameTask
  <2>2. BaselineIsOwned' /\ SomeUnfinished' /\ Unfinished(h.app)'
    <3>1. h.app \in Apps BY <1>0, <1>1 DEF Typed
    <3>2. QED
      BY <1>0, <1>3, <2>1, <3>1 DEF Tailoring, BaselineIsOwned, SomeUnfinished, Unfinished
  <2>3. ~Writing' /\ RestoresAlone' /\ "restoreRecord" \notin h'.todo
    BY <1>1, <2>1 DEF Writing, RestoresAlone, Restoring
  <2>4. QED BY <2>1, <2>2, <2>3 DEF Tailoring, Unfinished
<1>4. CASE \/ GoesTo(h', "submit")
           \/ Saves(h', "ready", {"release"}, "retryable")
           \/ Saves(h', "ready", {"release"}, "failed")
  <2>1. Quieted(h') BY <1>1, <1>4 DEF GoesTo, Saves, Quieted, Restoring
  <2>2. QED BY <1>0, <2>1, PlainTailoring
<1>5. QED BY <1>0, <1>2, <1>3, <1>4, TailorMoves

LEMMA PlanTailoringKept ==
    ASSUME Control, Tailoring, PlanTailoring PROVE Tailoring'
<1>0. Typed /\ h.pc = "plan" /\ h.pc \in Working /\ h.app \in Apps
  BY DEF Control, PlanTailoring, Working, Typed
<1>1. h.todo \cap Restoring = {} BY <1>0, WorkingQuiet
<1>2. CASE GoesTo(h', "apply") /\ Creates(h.app, h.seen)
  <2>1. h.seen.form = "base" BY <1>0, <1>2 DEF Tailoring, Creates
  <2>2. h'.app = h.app /\ h'.todo = h.todo /\ h'.pc = "apply" BY <1>2 DEF GoesTo, SameTask
  <2>3. saga'[h.app].status = "planned" BY <1>2 DEF Creates
  <2>4. BaselineIsOwned' BY <1>2, <2>1 DEF Creates, Tailoring, BaselineIsOwned
  <2>5. SomeUnfinished' BY <1>0, <2>3 DEF SomeUnfinished, Unfinished
  <2>6. ~Writing' /\ RestoresAlone' /\ "restoreRecord" \notin h'.todo
    BY <1>1, <2>2 DEF Writing, RestoresAlone, Restoring
  <2>7. QED BY <2>2, <2>3, <2>4, <2>5, <2>6 DEF Tailoring, Unfinished
<1>3. CASE /\ UNCHANGED tailoringVars
           /\ \/ GoesTo(h', "submit")
              \/ Saves(h', "ready", {"release"}, "retryable")
              \/ Saves(h', "ready", {"release"}, "failed")
  <2>1. Quieted(h') BY <1>1, <1>3 DEF GoesTo, Saves, Quieted, Restoring
  <2>2. QED BY <1>3, <2>1, PlainTailoring DEF tailoringVars
<1>4. QED BY <1>0, <1>2, <1>3, PlanTailoringMoves

(* A handler goes on with what it wants to write.                          *)
LEMMA DriveGoesTailoring ==
    ASSUME Tailoring, Unfinished(h.app), h'.app = h.app, h'.pc \in {"apply", "write", "check"},
           h'.todo \cap Restoring = {}, BaselineIsOwned', SomeUnfinished',
           Unfinished(h.app)',
           h'.pc = "write" => h'.seen.text = saga'[h.app].baseline.text
    PROVE  Tailoring'
<1>1. "restoreWrite" \notin h'.todo /\ "restoreRecord" \notin h'.todo /\ RestoresAlone'
  BY DEF RestoresAlone, Restoring
<1>2. Writing' => h'.pc = "write" BY <1>1 DEF Writing
<1>3. QED BY <1>1, <1>2 DEF Tailoring, Unfinished

LEMMA DriveTailoring == ASSUME Control, Tailoring, Drives PROVE Tailoring'
<1>0. /\ Typed /\ h.app \in Apps /\ h.todo \cap Restoring = {}
      /\ h.pc \in {"apply", "write", "check"} /\ Unfinished(h.app) /\ SomeUnfinished
  <2>1. h.pc \in {"apply", "write", "check"}
    BY DEF Drives, DriveApply, DriveWrite, DriveCheck
  <2>2. h.pc \in Working BY <2>1 DEF Working
  <2>3. QED BY <2>1, <2>2, WorkingQuiet DEF Control, Typed, Tailoring, SomeUnfinished
<1>1. CASE UNCHANGED h /\ h.pc = "apply" /\ UNCHANGED resume /\ SagaMoves(h.app, "applying")
  <2>1. BaselineIsOwned' /\ SomeUnfinished' /\ Unfinished(h.app)'
    BY <1>0, <1>1, PhaseTailoring DEF SagaStatuses
  <2>2. QED BY <1>0, <1>1, <2>1, DriveGoesTailoring
<1>2. CASE /\ GoesTo(h', "write") /\ h'.seen = resume
           /\ UNCHANGED <<saga, resume>> /\ Between(h.app, resume)
  <2>1. resume.text = saga[h.app].baseline.text BY <1>0, <1>2, ReadingTyped
  <2>2. h'.app = h.app /\ h'.pc = "write" /\ h'.todo = h.todo BY <1>2 DEF GoesTo, SameTask
  <2>3. BaselineIsOwned' /\ SomeUnfinished' /\ Unfinished(h.app)'
    BY <1>0, <1>2, <2>2 DEF Tailoring, BaselineIsOwned, SomeUnfinished, Unfinished
  <2>4. QED BY <1>0, <1>2, <2>1, <2>2, <2>3, DriveGoesTailoring
<1>3. CASE /\ GoesTo(h', "check") \/ (UNCHANGED h /\ h.pc = "write")
           /\ Writes(h.app)
  <2>1. /\ BaselineIsOwned' /\ SomeUnfinished' /\ Unfinished(h.app)'
        /\ saga'[h.app] = saga[h.app]
    BY <1>0, <1>3, WriteTailoring DEF Writes, Unfinished, GoesTo, SameTask
  <2>2. /\ h'.app = h.app /\ h'.todo = h.todo /\ h'.pc \in {"write", "check"}
        /\ h'.pc = "write" => h'.seen.text = saga[h.app].baseline.text
    BY <1>0, <1>3 DEF GoesTo, SameTask, Tailoring, Writing
  <2>3. QED BY <1>0, <2>1, <2>2, DriveGoesTailoring
<1>4. CASE /\ GoesTo(h', "applied") \/ Saves(h', "ready", {"release"}, "retryable")
           /\ Writes(h.app)
  <2>1. Quieted(h') BY <1>0, <1>4 DEF GoesTo, Saves, Quieted, Restoring
  <2>2. BaselineIsOwned' /\ SomeUnfinished' BY <1>0, <1>4, WriteTailoring
  <2>3. QED BY <2>1, <2>2, QuietTailoring
<1>5. CASE /\ Saves(h', "ready", {"release"}, "failed") /\ UNCHANGED resume
           /\ SagaMoves(h.app, "recovery_required")
  <2>1. BaselineIsOwned' /\ SomeUnfinished'
    BY <1>0, <1>5, PhaseTailoring DEF SagaStatuses
  <2>2. Quieted(h') BY <1>5 DEF Saves, Quieted, Restoring
  <2>3. QED BY <2>1, <2>2, QuietTailoring
<1>6. QED BY <1>0, <1>1, <1>2, <1>3, <1>4, <1>5, DriveMoves DEF Drives, Driven

LEMMA SubmitTailoring ==
    ASSUME Control, Tailoring, DriveApplied \/ BeginSubmit \/ VerifyTailoring
    PROVE  Tailoring'
<1>0. /\ Typed /\ h.app \in Apps /\ h.todo \cap Restoring = {}
  BY WorkingQuiet
  DEF Control, DriveApplied, BeginSubmit, VerifyTailoring, Working, Sending, Typed
<1>1. CASE DriveApplied
  <2>1. GoesTo(h', "submit") /\ UNCHANGED resume /\ SagaMoves(h.app, "applied")
    BY <1>0, <1>1, DriveAppliedMoves
  <2>2. BaselineIsOwned' /\ SomeUnfinished' BY <1>0, <2>1, PhaseTailoring DEF SagaStatuses
  <2>3. QED BY <1>0, <2>1, <2>2, QuietTailoring, GoesQuiet
<1>2. CASE BeginSubmit \/ VerifyTailoring
  <2>1. Quieted(h')
    BY <1>0, <1>2, BeginSubmitMoves DEF GoesTo, Saves, Giving, Quieted, Restoring
  <2>2. UNCHANGED resume BY <1>0, <1>2, BeginSubmitMoves
  <2>3. CASE UNCHANGED saga BY <2>1, <2>2, <2>3, PlainTailoring
  <2>4. CASE SagaMoves(h.app, "submitting") \/ SagaMoves(h.app, "recovery_required")
    <3>1. BaselineIsOwned' /\ SomeUnfinished'
      BY <1>0, <2>2, <2>4, PhaseTailoring DEF SagaStatuses
    <3>2. QED BY <2>1, <3>1, QuietTailoring
  <2>5. QED BY <1>0, <1>2, <2>3, <2>4, BeginSubmitMoves
<1>3. QED BY <1>1, <1>2

(* A handler goes on with one of the calls of a restore.                   *)
LEMMA RestoreGoesTailoring ==
    ASSUME Tailoring, NEW step \in Restoring, h'.todo = {step}, h'.app = h.app,
           h'.pc = "finish", BaselineIsOwned', SomeUnfinished', Unfinished(h.app)',
           step = "restoreWrite" => h'.seen.text = saga'[h.app].baseline.text,
           step = "restoreRecord" => resume'.form = "base"
    PROVE  Tailoring'
<1>1. RestoresAlone' BY DEF RestoresAlone
<1>2. Writing' => step = "restoreWrite" BY DEF Writing
<1>3. QED BY <1>1, <1>2 DEF Tailoring, Unfinished

LEMMA RestoreTailoringKept ==
    ASSUME Control, Tailoring, RestoreTailoring PROVE Tailoring'
<1>0. /\ Typed /\ h.pc = "finish" /\ h.app \in Apps /\ UNCHANGED <<saga, resume>>
      /\ h.todo \cap Restoring = {}
  BY RestoreTailoringMoves, AheadQuiet DEF Control, RestoreTailoring, Doing, Typed
<1>1. CASE Drops(h', h.todo \ {"restore"}) \/ Errs(h')
  <2>1. Quieted(h') BY <1>0, <1>1, ErrsQuiet DEF Drops, Quieted
  <2>2. QED BY <1>0, <2>1, PlainTailoring
<1>2. ASSUME NEW step \in {"restoreBegin", "restoreRead"}, Drops(h', {step}),
             Unfinished(h.app)
      PROVE  Tailoring'
  <2>1. h'.todo = {step} /\ h'.app = h.app /\ h'.pc = "finish"
    BY <1>0, <1>2 DEF Drops, SameTask
  <2>2. BaselineIsOwned' /\ SomeUnfinished' /\ Unfinished(h.app)'
    BY <1>0, <1>2, <2>1 DEF Tailoring, BaselineIsOwned, SomeUnfinished, Unfinished
  <2>3. step \in Restoring BY DEF Restoring
  <2>4. QED BY <2>1, <2>2, <2>3, RestoreGoesTailoring
<1>3. saga[h.app].status = "restoring" => Unfinished(h.app) BY DEF Unfinished
<1>4. QED BY <1>0, <1>1, <1>2, <1>3, RestoreTailoringMoves

LEMMA RestoresTailoring == ASSUME Control, Tailoring, Restores PROVE Tailoring'
<1>0. /\ Typed /\ h.pc = "finish" /\ h.app \in Apps /\ RestoresAlone
      /\ Unfinished(h.app) /\ SomeUnfinished
  <2>1. h.pc = "finish" /\ h.todo \cap Restoring # {}
    BY DEF Restores, RestoreBegin, RestoreRead, RestoreWrite, RestoreCheck, Doing, Restoring
  <2>2. QED BY <2>1 DEF Control, Typed, Tailoring, SomeUnfinished
<1>1. CASE /\ Drops(h', {"restoreRead"}) /\ UNCHANGED resume
           /\ SagaMoves(h.app, "restoring")
  <2>1. h'.todo = {"restoreRead"} /\ h'.app = h.app /\ h'.pc = "finish"
    BY <1>0, <1>1 DEF Drops, SameTask
  <2>2. BaselineIsOwned' /\ SomeUnfinished' /\ Unfinished(h.app)'
    BY <1>0, <1>1, <2>1, PhaseTailoring DEF SagaStatuses
  <2>3. QED BY <2>1, <2>2, RestoreGoesTailoring DEF Restoring
<1>2. CASE /\ Drops(h', {"restoreRecord"}) /\ UNCHANGED <<saga, resume>>
           /\ resume = saga[h.app].baseline
  <2>1. /\ BaselineIsOwned' /\ SomeUnfinished' /\ Unfinished(h.app)'
        /\ resume'.form = "base"
    BY <1>0, <1>2 DEF Tailoring, BaselineIsOwned, SomeUnfinished, Unfinished, Drops, SameTask
  <2>2. h'.todo = {"restoreRecord"} /\ h'.app = h.app /\ h'.pc = "finish"
    BY <1>0, <1>2 DEF Drops, SameTask
  <2>3. QED BY <2>1, <2>2, RestoreGoesTailoring DEF Restoring
<1>3. CASE /\ Drops(h', {"restoreWrite"}) /\ h'.seen = resume
           /\ UNCHANGED <<saga, resume>> /\ Between(h.app, resume)
  <2>1. resume.text = saga[h.app].baseline.text BY <1>0, <1>3, ReadingTyped
  <2>2. BaselineIsOwned' /\ SomeUnfinished' /\ Unfinished(h.app)'
    BY <1>0, <1>3 DEF Tailoring, BaselineIsOwned, SomeUnfinished, Unfinished, Drops, SameTask
  <2>3. h'.todo = {"restoreWrite"} /\ h'.app = h.app /\ h'.pc = "finish"
    BY <1>0, <1>3 DEF Drops, SameTask
  <2>4. QED BY <1>3, <2>1, <2>2, <2>3, RestoreGoesTailoring DEF Restoring
<1>4. CASE /\ Writes(h.app) /\ "restoreWrite" \in h.todo
           /\ UNCHANGED h \/ Drops(h', {"restoreCheck"})
  <2>1. /\ BaselineIsOwned' /\ SomeUnfinished' /\ Unfinished(h.app)'
        /\ saga'[h.app] = saga[h.app]
    BY <1>0, <1>4, WriteTailoring DEF Writes, Unfinished, Drops, SameTask
  <2>2. h.todo = {"restoreWrite"} /\ h.seen.text = saga[h.app].baseline.text
    BY <1>0, <1>4 DEF RestoresAlone, Restoring, Tailoring, Writing
  <2>3. CASE UNCHANGED h
    BY <1>0, <2>1, <2>2, <2>3, RestoreGoesTailoring DEF Restoring
  <2>4. CASE Drops(h', {"restoreCheck"})
    <3>1. h'.todo = {"restoreCheck"} /\ h'.app = h.app /\ h'.pc = "finish"
      BY <1>0, <2>4 DEF Drops, SameTask
    <3>2. QED BY <2>1, <3>1, RestoreGoesTailoring DEF Restoring
  <2>5. QED BY <1>4, <2>3, <2>4
<1>5. CASE Errs(h') /\ Writes(h.app)
  BY <1>0, <1>5, WriteTailoring, ErrsQuiet, QuietTailoring
<1>6. CASE Errs(h') /\ UNCHANGED resume /\ SagaMoves(h.app, "recovery_required")
  <2>1. BaselineIsOwned' /\ SomeUnfinished'
    BY <1>0, <1>6, PhaseTailoring DEF SagaStatuses
  <2>2. QED BY <1>6, <2>1, ErrsQuiet, QuietTailoring
<1>7. QED BY <1>0, <1>1, <1>2, <1>3, <1>4, <1>5, <1>6, RestoreMoves DEF Restored

LEMMA RestoreRecordTailoring ==
    ASSUME Control, Tailoring, RestoreRecord PROVE Tailoring'
<1>0. /\ Typed /\ h.pc = "finish" /\ h.app \in Apps
      /\ "restoreRecord" \in h.todo /\ h.todo = {"restoreRecord"}
  BY DEF Control, RestoreRecord, Doing, Typed, Tailoring, RestoresAlone, Restoring
<1>1. /\ Drops(h', h.todo \ {"restoreRecord"}) /\ UNCHANGED resume
      /\ SagaMoves(h.app, "restored")
  BY <1>0, RestoreRecordMoves
<1>2. resume.form = "base" BY <1>0 DEF Tailoring
<1>3. BaselineIsOwned' BY <1>1 DEF SagaMoves, Tailoring, BaselineIsOwned
<1>4. Quieted(h') BY <1>0, <1>1 DEF Drops, Quieted
<1>5. QED BY <1>1, <1>2, <1>3, <1>4, QuietTailoring

LEMMA StillTailoring ==
    ASSUME Tailoring, UNCHANGED <<h, saga>>, UNCHANGED resume \/ resume'.form = "base"
    PROVE  Tailoring'
<1>1. /\ BaselineIsOwned' /\ (SomeUnfinished' <=> SomeUnfinished)
      /\ MutationLocked(h.app)' <=> MutationLocked(h.app)
      /\ Unfinished(h.app)' <=> Unfinished(h.app)
      /\ (Writing' <=> Writing) /\ (RestoresAlone' <=> RestoresAlone)
  BY DEF Tailoring, BaselineIsOwned, SomeUnfinished, Unfinished, MutationLocked,
     Writing, RestoresAlone
<1>2. QED BY <1>1 DEF Tailoring

LEMMA TailoringStep == ASSUME Control, Tailoring, [Next]_vars PROVE Tailoring'
<1>0. Typed BY DEF Control
<1>1. CASE MovesSaga
  BY <1>1, PlanTailoringKept, DriveTailoring, SubmitTailoring, RestoreTailoringKept,
     RestoresTailoring, RestoreRecordTailoring
  DEF MovesSaga
<1>2. CASE Outside BY <1>0, <1>2, OutsideMoves, StillTailoring
<1>3. CASE Requests \/ \E o \in Operators : RequestSave(o)
  <2>1. UNCHANGED <<h, saga, resume>>
    BY <1>3 DEF Requests, AskRetry, AskApproval, AskRefresh, RequestEnqueue,
       RequestCrash, RequestSave, OpOnly, tailoringVars
  <2>2. QED BY <2>1, StillTailoring
<1>4. CASE (Step \/ Crash) /\ ~MovesSaga /\ ~Outside
  <2>1. UNCHANGED <<saga, resume>> BY <1>4, SagaStays DEF Next, Outside
  <2>2. QED BY <1>4, <2>1, OtherTailoring, TailorTailoring
<1>5. CASE UNCHANGED vars
  BY <1>5, StillTailoring DEF vars, submitVars, tailoringVars
<1>6. QED BY <1>1, <1>2, <1>3, <1>4, <1>5 DEF Next, Outside, Requests

(* A step of the worker changes the text of the resume only by a request,  *)
(* and then to the text the handler has read.                              *)
LEMMA TextKept ==
    ASSUME Control, Tailoring, MovesSaga
    PROVE  resume'.text = resume.text \/ resume'.text = h.seen.text
<1>0. Typed BY DEF Control
<1>1. CASE PlanTailoring
  BY <1>0, <1>1, PlanTailoringMoves DEF Creates, tailoringVars
<1>2. CASE DriveApply \/ DriveCheck \/ RestoreBegin \/ RestoreRead \/ RestoreCheck
  BY <1>2 DEF DriveApply, DriveCheck, RestoreBegin, RestoreRead, RestoreCheck,
     BeginApply, WriteConflicts, BeginRestore, tailoringVars
<1>3. CASE DriveApplied \/ BeginSubmit \/ VerifyTailoring \/ RestoreTailoring \/ RestoreRecord
  BY <1>0, <1>3, DriveAppliedMoves, BeginSubmitMoves, RestoreTailoringMoves,
     RestoreRecordMoves
<1>4. CASE DriveWrite \/ RestoreWrite
  <2>1. h.app \in Apps /\ Writing
    BY <1>0, <1>4 DEF Typed, DriveWrite, RestoreWrite, Doing, Writing
  <2>2. resume'.text \in {resume.text, saga[h.app].baseline.text}
    BY <1>0, <1>4, <2>1, WriteWrites DEF DriveWrite, RestoreWrite
  <2>3. QED BY <2>1, <2>2 DEF Tailoring
<1>5. QED BY <1>1, <1>2, <1>3, <1>4 DEF MovesSaga, Drives, Restores

THEOREM TailoringInductive == Spec => [](Control /\ Tailoring)
<1>1. Init => Tailoring
  <2> SUFFICES ASSUME Init PROVE Tailoring
    OBVIOUS
  <2>1. h.pc = "idle" /\ h.todo = {} BY IdleTyped DEF Init
  <2>2. resume.form = "base" /\ BaselineIsOwned
    BY DEF Init, TailoringInit, Owned, BaselineIsOwned
  <2>3. QED BY <2>1, <2>2 DEF Tailoring, Writing, RestoresAlone
<1>2. Control /\ Tailoring /\ [Next]_vars => Tailoring' BY TailoringStep
<1>3. QED BY HandlerInductive, <1>1, <1>2, PTL DEF Spec

(* What a saga will put back is a text of the resume's owner.              *)
THEOREM BaselineOwned == Spec => []BaselineIsOwned
<1>1. Tailoring => BaselineIsOwned BY DEF Tailoring
<1>2. QED BY TailoringInductive, <1>1, PTL

(* No step but the owner's own changes the text of the resume to one the   *)
(* same call had not read there: what it replaces was written since that   *)
(* reading, at whatever point of a saga, of a failed write or of a restart.*)
THEOREM EditsKept == Spec => OwnerEditsKept
<1>1. ASSUME Control, Tailoring, [Next]_vars, drift' = drift
      PROVE  resume'.text = resume.text \/ resume'.text = h.seen.text
  <2>0. Typed BY <1>1 DEF Control
  <2>1. CASE MovesSaga BY <1>1, <2>1, TextKept
  <2>2. CASE OwnerEdits BY <1>1, <2>0, <2>2 DEF OwnerEdits, Typed
  <2>3. CASE UNCHANGED <<saga, resume>> BY <2>3
  <2>4. CASE UNCHANGED vars BY <2>4 DEF vars, tailoringVars
  <2>5. QED BY <1>1, <2>1, <2>2, <2>3, <2>4, SagaStays
<1>2. Control /\ Tailoring /\ [Next]_vars
        => [drift' = drift /\ resume'.text # resume.text
               => resume'.text = h.seen.text]_vars
  BY <1>1
<1>3. QED BY TailoringInductive, <1>2, PTL DEF Spec, OwnerEditsKept

-----------------------------------------------------------------------------
(* What is done is counted.  An application that is not at rest has a task *)
(* that is not done; and a handler that will report success has left, or   *)
(* will leave, a row at rest, and committed the slot of a submitted one.   *)

TaskStatuses == {"none", "active", "failed", "done"}
OpenStatuses == {"new", "preparing"} \cup Unsure

Pending(a) == \E k \in Keys : task[a][k] \notin {"none", "done"}
IsCommitted(a) == reservation[a].state = "committed"

RowsCounted ==
    \A a \in Apps :
        /\ app[a].status \in OpenStatuses => Pending(a)
        /\ app[a].status = "submitted" => IsCommitted(a) \/ Pending(a)
HandlerCounts ==
    h.pc = "finish" /\ h.result = "ok" =>
        IF "save" \in h.todo
        THEN /\ h.cur.status \notin OpenStatuses
             /\ h.cur.status = "submitted" => "commit" \in h.todo
        ELSE /\ app[h.app].status \notin OpenStatuses
             /\ app[h.app].status = "submitted" =>
                  "commit" \in h.todo \/ IsCommitted(h.app)
TaskRuns == h.pc # "idle" => task[h.app][h.key] = "active"

Counts ==
    /\ task \in [Apps -> [Keys -> TaskStatuses]]
    /\ TaskRuns /\ RowsCounted /\ HandlerCounts

LEMMA RunsPending ==
    ASSUME Control, TaskRuns, h.pc # "idle" PROVE h.app \in Apps /\ Pending(h.app)
<1>1. h.app \in Apps /\ h.key \in Keys BY DEF Control, Typed, HandlerSet
<1>2. QED BY <1>1 DEF TaskRuns, Pending

(* A slot that is committed stays committed.                               *)
LEMMA CommittedStays ==
    ASSUME Control, BudgetInvariant, CommittedIsSubmitted, Next, NEW a \in Apps,
           IsCommitted(a)
    PROVE  IsCommitted(a)'
<1>0. Typed /\ (h.pc # "idle" => h.app \in Apps) BY DEF Control, Typed
<1>1. reservation \in [Apps -> ReservationSet] BY DEF BudgetInvariant, BudgetTypeOK
<1>2. CASE ReleaseFirst \/ ReleaseBudget
  <2>1. h.app \in Apps /\ ReleaseApplicationBudget(h.app)
    BY <1>0, <1>2 DEF ReleaseFirst, ReleaseBudget, Doing
  <2>2. QED
    BY <1>1, <2>1 DEF ReleaseApplicationBudget, IsCommitted, budgetVars
<1>3. CASE CommitBudget
  <2>1. h.app \in Apps /\ CommitApplicationBudget(h.app)
    BY <1>0, <1>3 DEF CommitBudget, Doing
  <2>2. QED
    BY <1>1, <2>1 DEF CommitApplicationBudget, IsCommitted, ReservationSet
<1>4. CASE Reserve
  <2>1. h.pc \in Working /\ h.app \in Apps
    BY <1>0, <1>4 DEF Reserve, Working
  <2>2. a # h.app
    BY <2>1 DEF Control, WorksOnOpenRow, CommittedIsSubmitted, IsCommitted
  <2>3. reservation'[a] = reservation[a]
    BY <1>1, <1>4, <2>1, <2>2
    DEF Reserve, ReserveApplicationBudget, ReserveAgain, ReserveSlot, budgetVars
  <2>4. QED BY <2>3 DEF IsCommitted
<1>5. CASE UNCHANGED budgetVars BY <1>5 DEF budgetVars, IsCommitted
<1>6. QED BY <1>2, <1>3, <1>4, <1>5, WhatMoves DEF MovesBudget

LEMMA TasksMove ==
    ASSUME Next
    PROVE  \/ HandleReturns \/ UNCHANGED task
           \/ \E a \in Apps, k \in Keys : Requeue(a, k)
           \/ \E o \in Operators : RequestEnqueue(o)
<1>1. ASSUME NEW a \in Apps, NEW k \in Keys, Handle(a, k) PROVE UNCHANGED task
  BY <1>1 DEF Handle, NoStore
<1>2. CASE \/ ReleaseFirst \/ PlanUnresolved \/ Prepare \/ VacancyUnreadable
           \/ Reserve \/ AcquirePacing \/ PacingWait \/ SlotUnavailable \/ Tailor
  BY <1>2 DEF ReleaseFirst, PlanUnresolved, Prepare, VacancyUnreadable, Reserve,
     AcquirePacing, PacingWait, SlotUnavailable, Tailor, NoStore
<1>3. CASE \/ PlanTailoring \/ Drives \/ DriveApplied \/ BeginSubmitting
           \/ BeginSubmit \/ VerifyTailoring \/ SubmitApplication \/ BrowserFallback
           \/ Reconcile
  BY <1>3 DEF PlanTailoring, Drives, DriveApply, DriveWrite, DriveCheck, DriveApplied,
     BeginSubmitting, BeginSubmit, VerifyTailoring, SubmitApplication, BrowserFallback,
     Reconcile, NoStore
<1>4. CASE \/ SaveOutcome \/ CommitBudget \/ ReleaseBudget \/ RestoreTailoring
           \/ Restores \/ RestoreRecord \/ CallFails \/ Crash \/ Tick \/ OwnerEdits
  BY <1>4, RestoresLast DEF SaveOutcome, CommitBudget, ReleaseBudget, CallFails, Crash,
     Tick, OwnerEdits, NoStore
<1>5. ASSUME NEW o \in Operators,
             \/ \E a \in Apps, k \in Keys \ {"submit"} : AskRetry(o, a, k) \/ AskApproval(o, a, k)
             \/ \E a \in Apps : AskRefresh(o, a)
             \/ RequestSave(o) \/ RequestCrash(o)
      PROVE  UNCHANGED task
  BY <1>5 DEF AskRetry, AskApproval, AskRefresh, RequestSave, RequestCrash
<1>6. QED BY <1>1, <1>2, <1>3, <1>4, <1>5 DEF Next, Step, Drives, Restores

(* Only a handler that returns success ends a task.                        *)
LEMMA TasksKept ==
    ASSUME Control, Counts, Next, ~HandleReturns
    PROVE  /\ task' \in [Apps -> [Keys -> TaskStatuses]]
           /\ \A a \in Apps : Pending(a) => Pending(a)'
           /\ \A a \in Apps, k \in Keys :
                task[a][k] = "active" => task'[a][k] = "active"
<1>1. task \in [Apps -> [Keys -> TaskStatuses]] BY DEF Counts
<1>2. CASE UNCHANGED task BY <1>1, <1>2 DEF Pending
<1>3. ASSUME NEW a \in Apps, NEW k \in Keys, task[a][k] # "active",
             task' = [task EXCEPT ![a][k] = "active"]
      PROVE  /\ task' \in [Apps -> [Keys -> TaskStatuses]]
             /\ \A b \in Apps : Pending(b) => Pending(b)'
             /\ \A b \in Apps, l \in Keys :
                  task[b][l] = "active" => task'[b][l] = "active"
  <2>1. \A b \in Apps, l \in Keys :
           task'[b][l] = IF b = a /\ l = k THEN "active" ELSE task[b][l]
    BY <1>1, <1>3
  <2>2. task' \in [Apps -> [Keys -> TaskStatuses]] BY <1>1, <1>3 DEF TaskStatuses
  <2>3. QED BY <2>1, <2>2 DEF Pending
<1>4. ASSUME NEW a \in Apps, NEW k \in Keys, Requeue(a, k)
      PROVE  task[a][k] # "active" /\ task' = [task EXCEPT ![a][k] = "active"]
  BY <1>4 DEF Requeue
<1>5. ASSUME NEW o \in Operators, RequestEnqueue(o)
      PROVE  \/ UNCHANGED task
             \/ \E a \in Apps, k \in Keys :
                  task[a][k] # "active" /\ task' = [task EXCEPT ![a][k] = "active"]
  <2>1. op[o] \in RequestSet BY <1>5 DEF RequestEnqueue, Control, Typed
  <2>2. op[o].app \in Apps /\ op[o].key \in Keys BY <2>1 DEF RequestSet
  <2>3. QED BY <1>5, <2>2 DEF RequestEnqueue
<1>6. QED BY <1>2, <1>3, <1>4, <1>5, TasksMove

(* Rows are changed under a task that is not done, or to a status at rest. *)
LEMMA RowsStayCounted ==
    ASSUME Control, BudgetInvariant, CommittedIsSubmitted, Counts, Next, ~HandleReturns
    PROVE  RowsCounted'
<1>1. \A a \in Apps : (Pending(a) => Pending(a)') /\ (IsCommitted(a) => IsCommitted(a)')
  BY TasksKept, CommittedStays
<1>2. ASSUME NEW a \in Apps, app'[a].status = app[a].status
      PROVE  /\ app'[a].status \in OpenStatuses => Pending(a)'
             /\ app'[a].status = "submitted" => IsCommitted(a)' \/ Pending(a)'
  BY <1>1, <1>2 DEF Counts, RowsCounted
<1>3. CASE UNCHANGED app BY <1>2, <1>3 DEF RowsCounted
<1>4. CASE BeginSubmitting \/ SaveOutcome
  <2>1. h.pc # "idle" BY <1>4 DEF BeginSubmitting, SaveOutcome, Doing
  <2>2. PICK a \in Apps : a = h.app /\ Pending(a)
    BY <2>1, RunsPending DEF Counts
  <2>3. UNCHANGED app \/ \A b \in Apps \ {a} : app'[b] = app[b]
    BY <1>4, <2>2, BeginSubmittingMoves, SaveOutcomeMoves DEF Control, RowSaved
  <2>4. Pending(a)' BY <1>1, <2>2
  <2>5. QED BY <1>2, <1>3, <2>2, <2>3, <2>4 DEF RowsCounted
<1>5. ASSUME NEW o \in Operators, RequestSave(o) PROVE RowsCounted'
  <2>1. UNCHANGED app \/ RequestSaves(op[o]) BY <1>5, RequestSaveMoves DEF Control
  <2>2. CASE RequestSaves(op[o])
    <3>1. /\ op[o].app \in Apps
          /\ app'[op[o].app].status \in {"ready", "skipped"}
          /\ \A b \in Apps \ {op[o].app} : app'[b] = app[b]
      BY <2>2, RequestSavesAtRest
    <3>2. QED BY <1>2, <3>1 DEF RowsCounted, OpenStatuses, Unsure
  <2>3. QED BY <1>3, <2>1, <2>2
<1>6. QED BY <1>3, <1>4, <1>5, WhatMoves DEF MovesRows

LEMMA TaskStillRuns ==
    ASSUME Control, Counts, Next, ~HandleReturns PROVE TaskRuns'
<1>0. Typed BY DEF Control
<1>1. ASSUME NEW a \in Apps, NEW k \in Keys, Handle(a, k) PROVE TaskRuns'
  <2>1. Begins(h', a, k) /\ task[a][k] = "active" BY <1>0, <1>1, HandleMoves DEF Handle
  <2>2. UNCHANGED task BY <1>1 DEF Handle, NoStore
  <2>3. QED BY <2>1, <2>2 DEF Begins, TaskRuns
<1>2. CASE Crash BY <1>0, <1>2, IdleMoves DEF TaskRuns
<1>3. CASE h'.pc # "idle" /\ h.pc # "idle" /\ h'.app = h.app /\ h'.key = h.key
  <2>1. h.app \in Apps /\ h.key \in Keys BY <1>0, <1>3 DEF Typed, HandlerSet
  <2>2. QED BY <1>3, <2>1, TasksKept DEF Counts, TaskRuns
<1>4. CASE h'.pc = "idle" BY <1>4 DEF TaskRuns
<1>5. ASSUME UNCHANGED h PROVE TaskRuns' BY <1>3, <1>4, <1>5
<1>6. CASE SameTask(h') /\ h.pc # "idle" BY <1>3, <1>4, <1>6 DEF SameTask
<1>7. CASE \/ ReleaseFirst \/ PlanUnresolved \/ Prepare \/ VacancyUnreadable
           \/ Reserve \/ AcquirePacing \/ PacingWait \/ SlotUnavailable \/ Tailor
  <2>1. h.pc # "idle"
    BY <1>7 DEF ReleaseFirst, PlanUnresolved, Prepare, VacancyUnreadable, Reserve,
       AcquirePacing, PacingWait, SlotUnavailable, Tailor
  <2>2. SameTask(h')
    BY <1>0, <1>7, ReleaseFirstMoves, PlanUnresolvedMoves, PrepareMoves,
       VacancyUnreadableMoves, ReserveMoves, AcquirePacingMoves, PacingWaitMoves,
       SlotUnavailableMoves, TailorMoves, DecidesSame
    DEF Drops, Errs, Stops, Saves, GoesTo
  <2>3. QED BY <1>6, <2>1, <2>2
<1>8. CASE PlanTailoring \/ Drives \/ DriveApplied \/ BeginSubmit \/ VerifyTailoring
  <2>1. h.pc # "idle"
    BY <1>8 DEF PlanTailoring, Drives, DriveApply, DriveWrite, DriveCheck, DriveApplied,
       BeginSubmit, VerifyTailoring
  <2>2. SameTask(h') \/ UNCHANGED h
    BY <1>0, <1>8, PlanTailoringMoves, DriveMoves, DriveAppliedMoves, BeginSubmitMoves
    DEF Drives, Driven, Saves, GoesTo
  <2>3. QED BY <1>5, <1>6, <2>1, <2>2
<1>9. CASE BeginSubmitting
  <2>1. h.pc # "idle" BY <1>9 DEF BeginSubmitting
  <2>2. h'.app = h.app /\ h'.key = h.key
    BY <1>0, <1>9, BeginSubmittingMoves DEF Errs, Stops, SameTask
  <2>3. QED BY <1>3, <1>4, <2>1, <2>2
<1>10. CASE SubmitApplication \/ BrowserFallback \/ Reconcile
  <2>1. h.pc # "idle" BY <1>10 DEF SubmitApplication, BrowserFallback, Reconcile
  <2>2. h'.app = h.app /\ h'.key = h.key
    BY <1>0, <1>10, SubmitApplicationMoves, BrowserFallbackMoves, ReconcileMoves,
       AnsweredSame
    DEF GoesTo, BrowserSaves, Errs, Stops, SameTask
  <2>3. QED BY <1>3, <1>4, <2>1, <2>2
<1>11. CASE \/ SaveOutcome \/ CommitBudget \/ ReleaseBudget \/ RestoreTailoring
            \/ Restores \/ RestoreRecord
  <2>1. h.pc # "idle"
    BY <1>11, RestoresLast DEF SaveOutcome, CommitBudget, ReleaseBudget, Doing
  <2>2. SameTask(h') \/ UNCHANGED h
    BY <1>0, <1>11, SaveOutcomeMoves, CommitBudgetMoves, ReleaseBudgetMoves,
       RestoreTailoringMoves, RestoreMoves, RestoredGoesOn, RestoreRecordMoves
    DEF Errs, Stops, Drops
  <2>3. QED BY <1>5, <1>6, <2>1, <2>2
<1>12. CASE CallFails
  <2>1. h.pc # "idle" BY <1>12 DEF CallFails, Control
  <2>2. QED BY <1>0, <1>6, <1>12, <2>1, CallFailsMoves DEF Errs, Stops
<1>13. CASE Outside \/ Requests BY <1>0, <1>5, <1>13, OutsideMoves, RequestsMove
<1>14. ASSUME NEW o \in Operators, RequestSave(o) PROVE TaskRuns'
  BY <1>0, <1>5, <1>14, RequestSaveMoves
<1>15. QED
  BY <1>1, <1>2, <1>7, <1>8, <1>9, <1>10, <1>11, <1>12, <1>13, <1>14
  DEF Next, Step, Outside, Requests, Drives, Restores

(* A return path that reports success saves a row at rest.                 *)
Rests(n) ==
    n.pc = "finish" /\ n.result = "ok" =>
        /\ "save" \in n.todo /\ n.cur.status \notin OpenStatuses
        /\ n.cur.status = "submitted" => "commit" \in n.todo

LEMMA RestsCounts == ASSUME Rests(h') PROVE HandlerCounts'
BY DEF Rests, HandlerCounts

LEMMA KindsRest ==
    ASSUME NEW n,
           \/ Errs(n) \/ Answered(n) \/ Decides(n) \/ BrowserSaves(n)
           \/ Saves(n, "waiting_validation", {}, "ok")
           \/ Saves(n, "skipped", {"release", "restore"}, "ok")
           \/ \E status, steps : Saves(n, status, steps, "failed")
           \/ \E status, steps : Saves(n, status, steps, "retryable")
           \/ \E pc \in Working : GoesTo(n, pc)
    PROVE  Rests(n)
<1>1. CASE Errs(n) BY <1>1 DEF Errs, Stops, Rests
<1>2. CASE Answered(n)
  BY <1>2 DEF Answered, Saves, Rests, OpenStatuses, Unsure, Counting
<1>3. CASE Decides(n)
  BY <1>3 DEF Decides, Reserves, Ended, Rests, OpenStatuses, Unsure
<1>4. CASE BrowserSaves(n)
  BY <1>4 DEF BrowserSaves, Rests, OpenStatuses, Unsure, Counting
<1>5. CASE \/ Saves(n, "waiting_validation", {}, "ok")
           \/ Saves(n, "skipped", {"release", "restore"}, "ok")
  BY <1>5 DEF Saves, Rests, OpenStatuses, Unsure
<1>6. CASE \/ \E status, steps : Saves(n, status, steps, "failed")
           \/ \E status, steps : Saves(n, status, steps, "retryable")
  BY <1>6 DEF Saves, Rests
<1>7. CASE \E pc \in Working : GoesTo(n, pc)
  BY <1>7 DEF GoesTo, Rests, Working, Sending
<1>8. QED BY <1>1, <1>2, <1>3, <1>4, <1>5, <1>6, <1>7

(* The calls after the row is saved, one after the other.                  *)
LEMMA SaveCounts ==
    ASSUME Control, Counts, BudgetInvariant, CommittedIsSubmitted, SaveOutcome
    PROVE  HandlerCounts'
<1>0. Typed /\ "save" \in h.todo /\ h.pc = "finish" /\ h.app \in Apps
  BY DEF Control, SaveOutcome, Doing, Typed
<1>1. CASE Errs(h') BY <1>1 DEF Errs, Stops, HandlerCounts
<1>2. CASE RowSaved(h.app, h.cur.status) /\ Drops(h', h.todo \ {"save"})
  <2>1. /\ h'.app = h.app /\ h'.result = h.result /\ h'.todo = h.todo \ {"save"}
        /\ app'[h.app].status = h.cur.status
    BY <1>2 DEF Drops, SameTask, RowSaved
  <2>2. QED BY <1>0, <2>1 DEF Counts, HandlerCounts
<1>3. QED BY <1>0, <1>1, <1>2, SaveOutcomeMoves

LEMMA DropsCounts ==
    ASSUME Control, Counts, h.pc = "finish", "save" \notin h.todo, NEW steps,
           Drops(h', steps), "save" \notin steps, UNCHANGED app,
           IsCommitted(h.app) => IsCommitted(h.app)',
           "commit" \in h.todo => "commit" \in steps \/ IsCommitted(h.app)'
    PROVE  HandlerCounts'
<1>1. h'.app = h.app /\ h'.result = h.result /\ h'.todo = steps
  BY DEF Drops, SameTask
<1>2. QED BY <1>1 DEF Counts, HandlerCounts, IsCommitted

LEMMA AfterSaveCounts ==
    ASSUME Control, Counts, BudgetInvariant, CommittedIsSubmitted, Next,
           \/ CommitBudget \/ ReleaseBudget \/ RestoreTailoring
           \/ Restores \/ RestoreRecord
    PROVE  HandlerCounts'
<1>0. Typed /\ h.pc = "finish" /\ h.app \in Apps /\ UNCHANGED app
  BY RestoresLast DEF Control, Typed, CommitBudget, ReleaseBudget, Doing
<1>1. PICK a \in Apps : a = h.app BY <1>0
<1>2. SameTask(h') \/ UNCHANGED h
  BY <1>0, CommitBudgetMoves, ReleaseBudgetMoves, RestoreTailoringMoves,
     RestoreMoves, RestoredGoesOn, RestoreRecordMoves
  DEF Errs, Stops, Drops
<1>3. h'.app = a BY <1>1, <1>2 DEF SameTask
<1>4. IsCommitted(h.app) => IsCommitted(h.app)'
  BY <1>1, <1>3, CommittedStays DEF IsCommitted
<1>5. CASE Errs(h') BY <1>5 DEF Errs, Stops, HandlerCounts
<1>6. CASE CommitBudget
  <2>1. "save" \notin h.todo /\ Drops(h', h.todo \ {"commit"})
    BY <1>0, <1>6, CommitBudgetMoves DEF CommitBudget, Doing, Before
  <2>2. reservation'[a].state = "committed"
    BY <1>1, <1>6
    DEF CommitBudget, CommitApplicationBudget, BudgetInvariant, BudgetTypeOK,
        ReservationSet
  <2>3. IsCommitted(h.app)' BY <1>3, <2>2 DEF IsCommitted
  <2>4. QED BY <1>0, <1>4, <2>1, <2>3, DropsCounts
<1>7. CASE ReleaseBudget
  <2>1. "save" \notin h.todo /\ Drops(h', h.todo \ {"release"})
    BY <1>0, <1>7, ReleaseBudgetMoves DEF ReleaseBudget, Doing, Before
  <2>2. QED BY <1>0, <1>4, <2>1, DropsCounts
<1>8. CASE (RestoreTailoring \/ Restores \/ RestoreRecord) /\ ~Errs(h')
  <2>1. "save" \notin h.todo /\ "commit" \notin h.todo BY <1>8, RestoresLast
  <2>2. CASE UNCHANGED h
    BY <1>0, <1>4, <2>1, <2>2 DEF Counts, HandlerCounts, IsCommitted
  <2>3. ASSUME NEW steps, Drops(h', steps), steps \subseteq h.todo \cup Restoring
        PROVE  HandlerCounts'
    <3>1. "save" \notin steps BY <2>1, <2>3 DEF Restoring
    <3>2. QED BY <1>0, <1>4, <2>1, <2>3, <3>1, DropsCounts
  <2>4. \/ UNCHANGED h \/ Drops(h', h.todo \ {"restore"})
        \/ Drops(h', h.todo \ {"restoreRecord"})
        \/ \E step \in Restoring : Drops(h', {step})
    BY <1>0, <1>8, RestoreTailoringMoves, RestoreMoves, RestoredGoesOn, RestoreRecordMoves
    DEF Restoring
  <2>5. QED BY <2>2, <2>3, <2>4
<1>9. QED BY <1>5, <1>6, <1>7, <1>8

LEMMA HandlerStillCounts ==
    ASSUME Control, Counts, BudgetInvariant, CommittedIsSubmitted, Next, ~HandleReturns
    PROVE  HandlerCounts'
<1>0. Typed BY DEF Control
<1>1. ASSUME NEW a \in Apps, NEW k \in Keys, Handle(a, k) PROVE HandlerCounts'
  <2>1. Begins(h', a, k) /\ UNCHANGED app
    BY <1>0, <1>1, HandleMoves DEF Handle, NoStore
  <2>2. QED
    BY <2>1 DEF Begins, HandlerCounts, OpenStatuses, Unsure
<1>2. CASE Crash BY <1>0, <1>2, IdleMoves DEF HandlerCounts
<1>3. CASE PlanUnresolved \/ Prepare \/ VacancyUnreadable
  BY <1>0, <1>3, PlanUnresolvedMoves, PrepareMoves, VacancyUnreadableMoves, KindsRest,
     RestsCounts
<1>4. CASE Reserve \/ AcquirePacing \/ PacingWait \/ SlotUnavailable
  <2>1. \/ \E status, steps : Saves(h', status, steps, "retryable")
        \/ \E pc \in Working : GoesTo(h', pc)
    BY <1>0, <1>4, ReserveMoves, AcquirePacingMoves, PacingWaitMoves,
       SlotUnavailableMoves
    DEF Working
  <2>2. QED BY <2>1, KindsRest, RestsCounts
<1>5. CASE Tailor \/ PlanTailoring \/ DriveApplied \/ BeginSubmit \/ VerifyTailoring
  <2>1. \/ \E status, steps : Saves(h', status, steps, "failed")
        \/ \E status, steps : Saves(h', status, steps, "retryable")
        \/ \E pc \in Working : GoesTo(h', pc)
    BY <1>0, <1>5, TailorMoves, PlanTailoringMoves, DriveAppliedMoves, BeginSubmitMoves
    DEF Working, Sending
  <2>2. QED BY <2>1, KindsRest, RestsCounts
<1>6. CASE Drives
  <2>1. \/ \E status, steps : Saves(h', status, steps, "failed")
        \/ \E status, steps : Saves(h', status, steps, "retryable")
        \/ \E pc \in Working : GoesTo(h', pc)
        \/ UNCHANGED h
    BY <1>0, <1>6, DriveMoves DEF Drives, Driven, Working
  <2>2. UNCHANGED h => h'.pc # "finish"
    BY <1>6 DEF Drives, DriveApply, DriveWrite, DriveCheck
  <2>3. CASE UNCHANGED h BY <2>2, <2>3 DEF HandlerCounts
  <2>4. QED BY <2>1, <2>3, KindsRest, RestsCounts
<1>7. CASE BeginSubmitting
  <2>1. Errs(h') \/ h'.pc = "begin" BY <1>0, <1>7, BeginSubmittingMoves
  <2>2. QED BY <2>1 DEF Errs, Stops, HandlerCounts
<1>8. CASE SubmitApplication \/ BrowserFallback \/ Reconcile
  <2>1. GoesTo(h', "browser") \/ Answered(h') \/ BrowserSaves(h') \/ Errs(h')
    BY <1>0, <1>8, SubmitApplicationMoves, BrowserFallbackMoves, ReconcileMoves
  <2>2. "browser" \in Working BY DEF Working, Sending
  <2>3. QED BY <2>1, <2>2, KindsRest, RestsCounts
<1>9. CASE ReleaseFirst
  <2>1. h'.pc = "prepare" BY <1>0, <1>9, ReleaseFirstMoves DEF ReleaseFirst, Drops
  <2>2. QED BY <2>1 DEF HandlerCounts
<1>10. CASE SaveOutcome BY <1>10, SaveCounts
<1>11. CASE \/ CommitBudget \/ ReleaseBudget \/ RestoreTailoring
            \/ Restores \/ RestoreRecord
  BY <1>11, AfterSaveCounts
<1>12. CASE CallFails
  <2>1. h.pc # "idle" BY <1>12 DEF CallFails, Control
  <2>2. QED BY <1>0, <1>12, <2>1, CallFailsMoves, KindsRest, RestsCounts
<1>13. ASSUME UNCHANGED h, h.pc = "finish",
              app'[h.app].status = app[h.app].status \/ app'[h.app].status \in {"ready", "skipped"}
       PROVE  HandlerCounts'
  <2>1. PICK a \in Apps : a = h.app BY <1>0, <1>13 DEF Typed
  <2>2. IsCommitted(h.app) => IsCommitted(h.app)'
    BY <1>13, <2>1, CommittedStays DEF IsCommitted
  <2>3. QED
    BY <1>13, <2>2 DEF Counts, HandlerCounts, IsCommitted, OpenStatuses, Unsure
<1>14. CASE Outside \/ Requests
  <2>1. UNCHANGED <<h, app>> BY <1>0, <1>14, OutsideMoves, RequestsMove
  <2>2. QED BY <1>13, <2>1 DEF HandlerCounts
<1>15. ASSUME NEW o \in Operators, RequestSave(o) PROVE HandlerCounts'
  <2>1. UNCHANGED h /\ (UNCHANGED app \/ RequestSaves(op[o]))
    BY <1>0, <1>15, RequestSaveMoves
  <2>2. h.pc = "finish" => h.app \in Apps BY <1>0 DEF Typed
  <2>3. CASE UNCHANGED app BY <1>13, <2>1, <2>3 DEF HandlerCounts
  <2>4. CASE RequestSaves(op[o])
    <3>1. /\ op[o].app \in Apps
          /\ app'[op[o].app].status \in {"ready", "skipped"}
          /\ \A b \in Apps \ {op[o].app} : app'[b] = app[b]
      BY <2>4, RequestSavesAtRest
    <3>2. QED BY <1>13, <2>1, <2>2, <3>1 DEF HandlerCounts
  <2>5. QED BY <2>1, <2>3, <2>4
<1>16. QED
  BY <1>1, <1>2, <1>3, <1>4, <1>5, <1>6, <1>7, <1>8, <1>9, <1>10, <1>11, <1>12, <1>14,
     <1>15
  DEF Next, Step, Outside, Requests, Drives, Restores

(* A handler that returns success leaves its application at rest, and      *)
(* counted when it is submitted.                                           *)
LEMMA ReturnsCounts ==
    ASSUME Control, Counts, HandleReturns PROVE Counts'
<1>1. PICK a \in Apps, k \in Keys : a = h.app /\ k = h.key
  BY DEF HandleReturns, Control, Typed, HandlerSet
<1>2. h.pc = "finish" /\ h.todo = {} /\ UNCHANGED <<app, reservation>>
  BY DEF HandleReturns, budgetVars
<1>3. h'.pc = "idle" BY IdleMoves DEF Control
<1>4. PICK s \in {"done", "active", "failed"} :
        /\ task' = [task EXCEPT ![a][k] = s]
        /\ s = "done" => h.result = "ok"
  BY <1>1 DEF HandleReturns, Control, Typed, HandlerSet
<1>5. task \in [Apps -> [Keys -> TaskStatuses]] BY DEF Counts
<1>6. \A b \in Apps, l \in Keys :
        task'[b][l] = IF b = a /\ l = k THEN s ELSE task[b][l]
  BY <1>4, <1>5
<1>7. task' \in [Apps -> [Keys -> TaskStatuses]] BY <1>4, <1>5 DEF TaskStatuses
<1>8. \A b \in Apps \ {a} : Pending(b) => Pending(b)' BY <1>6 DEF Pending
<1>9. s # "done" => Pending(a)' BY <1>4, <1>6 DEF Pending
<1>10. s = "done" => /\ app[a].status \notin OpenStatuses
                     /\ app[a].status = "submitted" => IsCommitted(a)
  BY <1>1, <1>2, <1>4 DEF Counts, HandlerCounts, IsCommitted
<1>11. RowsCounted'
  BY <1>2, <1>8, <1>9, <1>10 DEF Counts, RowsCounted, IsCommitted
<1>12. QED BY <1>3, <1>7, <1>11 DEF Counts, TaskRuns, HandlerCounts

Whole == Control /\ BudgetInvariant /\ CommittedIsSubmitted

LEMMA CountsStep == ASSUME Whole, Counts, [Next]_vars PROVE Counts'
<1>1. CASE HandleReturns BY <1>1, ReturnsCounts DEF Whole
<1>2. CASE Next /\ ~HandleReturns
  BY <1>2, TasksKept, TaskStillRuns, RowsStayCounted, HandlerStillCounts
  DEF Whole, Counts
<1>3. CASE UNCHANGED vars
  BY <1>3 DEF vars, submitVars, budgetVars, Counts, TaskRuns, RowsCounted,
     HandlerCounts, Pending, IsCommitted
<1>4. QED BY <1>1, <1>2, <1>3

LEMMA CountsStarts == ASSUME Init PROVE Counts
<1>1. /\ task \in [Apps -> [Keys -> TaskStatuses]]
      /\ \A a \in Apps : task[a]["submit"] = "active"
  BY SubmitAssumption DEF Init, TaskStatuses
<1>2. h.pc = "idle" BY IdleTyped DEF Init
<1>3. \A a \in Apps : Pending(a) BY <1>1, SubmitAssumption DEF Pending
<1>4. QED
  BY <1>1, <1>2, <1>3 DEF Counts, TaskRuns, RowsCounted, HandlerCounts

(* Once every task of an application is done, a submitted application has  *)
(* been counted, and no outcome is left open.                              *)
THEOREM DoneCounted == Spec => []DoneIsCounted
<1>1. Spec => []Whole BY BudgetInductive DEF Whole
<1>2. Whole /\ Counts /\ [Next]_vars => Counts' BY CountsStep
<1>3. Counts => DoneIsCounted
  BY DEF Counts, RowsCounted, DoneIsCounted, AllDone, Pending, IsCommitted,
     OpenStatuses, Unsure
<1>4. QED BY CountsStarts, <1>1, <1>2, <1>3, PTL DEF Spec
=============================================================================
