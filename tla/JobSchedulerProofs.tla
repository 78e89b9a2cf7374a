------------------------ MODULE JobSchedulerProofs ------------------------
(***************************************************************************)
(* The scheduler, for any number of schedules, jobs and processes.  A run  *)
(* a resume promised stays due because the reading of the clock it puts    *)
(* into the rows is nobody else's: a pass that was under way compares the  *)
(* due time it read with another one and leaves the row alone.             *)
(***************************************************************************)
EXTENDS JobScheduler, TLAPS

Even(n) == n % 2 = 0

Steady == {t \in Timing : Even(t.every)}
Rows == [timing : Steady \cup {Off}, next : Int]
Entries == [id : Schedules, timing : Steady, next : Int]
Places == {"idle", "due", "loop", "enqueue", "advance"}
Passes == [at : Places, now : Int, todo : SUBSET Entries,
           paused : SUBSET Jobs, entry : Entries \cup {NoEntry}]

TablesOK ==
    /\ clock \in Nat /\ Even(clock)
    /\ schedule \in [Schedules -> Rows]
    /\ DOMAIN pause = Jobs
    /\ resuming \in [Jobs -> Int]
    /\ owed \subseteq Schedules

(* The reading of a resume is odd and past.                                *)
ReadingsPast ==
    \A j \in Jobs :
        resuming[j] # NoReading => ~Even(resuming[j]) /\ resuming[j] <= clock

(* A due time is computed, hence even, or the past reading of a resume,    *)
(* but not the reading of the one whose trigger is still to come.          *)
Timed(n, j) == /\ Even(n) \/ n <= clock
               /\ resuming[j] # NoReading => n # resuming[j]

RowsTimed == \A s \in Schedules : Timed(schedule[s].next, JobOf[s])

(* What is owed runs: its job is not paused, its row is there and due.     *)
OwedRuns == \A s \in owed : pause[JobOf[s]] = "none" /\ Due(s, clock)

PassTimed(x) ==
    /\ Even(x.now)
    /\ x.at \in {"enqueue", "advance"} => x.entry \in Entries
    /\ \A e \in x.todo : Timed(e.next, JobOf[e.id])
    /\ x.entry \in Entries => Timed(x.entry.next, JobOf[x.entry.id])

(* A pass writes the row of an owed schedule only over another due time.   *)
Misses(x, debts) ==
    /\ x.at \in {"loop", "enqueue", "advance"} =>
          \A e \in x.todo : JobOf[e.id] \in x.paused /\ e.id \in debts
                               => schedule[e.id].next # e.next
    /\ x.at = "advance" /\ x.entry.id \in debts
          => schedule[x.entry.id].next # x.entry.next

PassesFine ==
    /\ pass \in [Schedulers -> Passes]
    /\ \A p \in Schedulers : PassTimed(pass[p]) /\ Misses(pass[p], owed)

SchedulerInv == TablesOK /\ ReadingsPast /\ RowsTimed /\ OwedRuns /\ PassesFine

-----------------------------------------------------------------------------
LEMMA EvenSum == ASSUME NEW a \in Int, NEW b \in Int, Even(a), Even(b)
                 PROVE  Even(a + b)
BY DEF Even

LEMMA EvenProduct == ASSUME NEW a \in Int, NEW b \in Int, Even(a)
                     PROVE  Even(a * b)
<1>1. PICK c \in Int : a = 2 * c BY DEF Even
<1>2. a * b = 2 * (c * b) BY <1>1
<1>3. c * b \in Int OBVIOUS
<1> DEFINE d == c * b
<1> HIDE DEF d
<1>4. d \in Int BY <1>3 DEF d
<1>5. Even(2 * d) BY <1>4 DEF Even
<1>6. QED BY <1>2, <1>5 DEF d

(* The next due time of a schedule is even.                                *)
LEMMA NextRunEven ==
    ASSUME NEW timing \in Steady, NEW now \in Int, Even(now)
    PROVE  NextRun(timing, now) \in Int /\ Even(NextRun(timing, now))
<1>1. timing.every \in Nat \ {0} /\ Even(timing.every) /\ timing.cron \in BOOLEAN
  BY DEF Steady, Timing
<1>2. CASE timing.cron
  <2> DEFINE n == (now \div timing.every) + 1
  <2>1. n \in Int BY <1>1
  <2>2. NextRun(timing, now) = timing.every * n BY <1>2 DEF NextRun
  <2> HIDE DEF n
  <2>3. timing.every * n \in Int BY <1>1, <2>1
  <2>4. QED BY <1>1, <2>1, <2>2, <2>3, EvenProduct
<1>3. CASE ~timing.cron
  <2>1. NextRun(timing, now) = now + timing.every BY <1>3 DEF NextRun
  <2>2. timing.every \in Int BY <1>1
  <2>3. Even(now + timing.every) BY <1>1, <2>2, EvenSum
  <2>4. QED BY <2>1, <2>2, <2>3
<1>4. QED BY <1>2, <1>3

LEMMA ConfiguredTiming ==
    ASSUME NEW config \in Configs, NEW s \in Schedules
    PROVE  /\ config[s] \in Steady \cup {Off}
           /\ config[s].on <=> config[s] \in Steady
<1>1. config[s] \in Timing \cup {Off} BY SchedulerAssumption
<1>2. CASE config[s] \in Timing
  <2>1. config[s].on BY <1>2 DEF Timing
  <2>2. Even(config[s].every) BY <2>1, SchedulerAssumption DEF Even
  <2>3. QED BY <1>2, <2>1, <2>2 DEF Steady
<1>3. CASE config[s] = Off
  <2>1. ~Off.on BY DEF Off
  <2>2. \A t \in Steady : t.on BY DEF Steady, Timing
  <2>3. QED BY <1>3, <2>1, <2>2
<1>4. QED BY <1>1, <1>2, <1>3

LEMMA SchedulerInitInv == SchedulerInit => SchedulerInv
<1> SUFFICES ASSUME SchedulerInit PROVE SchedulerInv
  OBVIOUS
<1>1. PICK config \in Configs :
         schedule = [s \in Schedules |->
            [timing |-> config[s],
             next |-> IF config[s].on THEN NextRun(config[s], 0) ELSE 0]]
  BY DEF SchedulerInit
<1>2. Even(0) BY DEF Even
<1>3. \A s \in Schedules : schedule[s] \in Rows /\ Even(schedule[s].next)
  <2> SUFFICES ASSUME NEW s \in Schedules
               PROVE  schedule[s] \in Rows /\ Even(schedule[s].next)
    OBVIOUS
  <2>1. CASE config[s].on
    <3>1. config[s] \in Steady BY <2>1, ConfiguredTiming
    <3>2. NextRun(config[s], 0) \in Int /\ Even(NextRun(config[s], 0))
      BY <1>2, <3>1, NextRunEven
    <3>3. QED BY <1>1, <2>1, <3>1, <3>2 DEF Rows
  <2>2. CASE ~config[s].on
    <3>1. config[s] \in Steady \cup {Off} BY ConfiguredTiming
    <3>2. QED BY <1>1, <1>2, <2>2, <3>1 DEF Rows
  <2>3. QED BY <2>1, <2>2
<1>4. TablesOK
  BY <1>1, <1>2, <1>3 DEF SchedulerInit, TablesOK, NoReading
<1>5. ReadingsPast BY DEF SchedulerInit, ReadingsPast
<1>6. RowsTimed
  BY <1>3, SchedulerAssumption DEF SchedulerInit, RowsTimed, Timed
<1>7. OwedRuns BY DEF SchedulerInit, OwedRuns
<1>8. /\ Resting \in Passes /\ Even(Resting.now) /\ Resting.at = "idle"
      /\ Resting.todo = {} /\ Resting.entry = NoEntry
  BY <1>2 DEF Resting, Passes, Places
<1>9. NoEntry \notin Entries BY SchedulerAssumption DEF NoEntry, Entries
<1>10. PassesFine
  BY <1>8, <1>9 DEF SchedulerInit, PassesFine, PassTimed, Misses
<1>11. QED BY <1>4, <1>5, <1>6, <1>7, <1>10 DEF SchedulerInv

(* Only a pass moves, and debts may be paid.                               *)
LEMMA PassMoves ==
    ASSUME SchedulerInv, NEW p \in Schedulers, NEW x \in Passes,
           Proceeds(p, x), owed' \subseteq owed,
           UNCHANGED <<clock, schedule, pause, resuming>>,
           PassTimed(x), Misses(x, owed')
    PROVE  SchedulerInv'
<1>1. TablesOK' BY DEF SchedulerInv, TablesOK
<1>2. ReadingsPast' BY DEF SchedulerInv, ReadingsPast
<1>3. RowsTimed' BY DEF SchedulerInv, RowsTimed, Timed
<1>4. OwedRuns' BY DEF SchedulerInv, OwedRuns, Due
<1>5. /\ pass' \in [Schedulers -> Passes] /\ pass'[p] = x
      /\ \A q \in Schedulers \ {p} : pass'[q] = pass[q]
  BY DEF SchedulerInv, PassesFine, Proceeds
<1>6. \A q \in Schedulers : PassTimed(pass'[q]) /\ Misses(pass'[q], owed')
  BY <1>5 DEF SchedulerInv, PassesFine, Misses
<1>7. PassesFine'
  BY <1>5, <1>6 DEF PassesFine, PassTimed, Misses, Timed
<1>8. QED BY <1>1, <1>2, <1>3, <1>4, <1>7 DEF SchedulerInv

(* What the compare-and-set of AdvanceSchedule does to the rows.           *)
LEMMA AdvancedRows ==
    ASSUME TablesOK, NEW e \in Entries, NEW now \in Int, Even(now),
           AdvanceSchedule(e, now)
    PROVE  /\ schedule' \in [Schedules -> Rows]
           /\ \A s \in Schedules \ {e.id} : schedule'[s] = schedule[s]
           /\ \/ schedule' = schedule
              \/ /\ schedule[e.id].next = e.next
                 /\ Even(schedule'[e.id].next)
<1>1. e.id \in Schedules /\ e.timing \in Steady BY DEF Entries
<1> DEFINE n == NextRun(e.timing, now)
<1>2. n \in Int /\ Even(n) BY <1>1, NextRunEven
<1> HIDE DEF n
<1>3. CASE schedule' = schedule BY <1>3 DEF TablesOK
<1>4. CASE /\ schedule[e.id].next = e.next
           /\ schedule' = [schedule EXCEPT ![e.id].next = n]
  <2>1. schedule[e.id] \in Rows BY <1>1 DEF TablesOK
  <2>2. /\ [schedule[e.id] EXCEPT !.next = n] \in Rows
        /\ [schedule[e.id] EXCEPT !.next = n].next = n
    BY <1>2, <2>1 DEF Rows
  <2>3. schedule' = [schedule EXCEPT ![e.id] = [schedule[e.id] EXCEPT !.next = n]]
    BY <1>4
  <2>4. QED BY <1>1, <1>2, <1>4, <2>2, <2>3 DEF TablesOK
<1>5. QED BY <1>3, <1>4 DEF AdvanceSchedule, n

LEMMA EvenIsTimed ==
    ASSUME ReadingsPast, NEW n \in Int, Even(n), NEW j \in Jobs
    PROVE  Timed(n, j)
BY DEF ReadingsPast, Timed

(* What SkipPaused and Advance have in common.                             *)
LEMMA AdvanceStep ==
    ASSUME SchedulerInv, NEW p \in Schedulers, NEW e \in Entries,
           pass[p].at \in {"loop", "advance"},
           e.id \in owed => schedule[e.id].next # e.next,
           AdvanceSchedule(e, pass[p].now), Proceeds(p, Without(p, e)),
           UNCHANGED <<clock, pause, resuming, owed>>
    PROVE  SchedulerInv'
<1> DEFINE x == Without(p, e)
<1>1. pass[p] \in Passes /\ PassTimed(pass[p]) /\ Misses(pass[p], owed)
  BY DEF SchedulerInv, PassesFine
<1>2. /\ x \in Passes /\ x.now = pass[p].now /\ x.at = "loop"
      /\ x.todo \subseteq pass[p].todo /\ x.paused = pass[p].paused
      /\ x.entry = NoEntry
  BY <1>1 DEF Without, Passes, Places
<1>3. NoEntry \notin Entries BY SchedulerAssumption DEF NoEntry, Entries
<1>4. /\ schedule' \in [Schedules -> Rows]
      /\ \A s \in Schedules \ {e.id} : schedule'[s] = schedule[s]
      /\ \/ schedule' = schedule
         \/ schedule[e.id].next = e.next /\ Even(schedule'[e.id].next)
  BY <1>1, AdvancedRows DEF SchedulerInv, Passes, PassTimed
<1>5. \A s \in owed : schedule'[s] = schedule[s]
  BY <1>4 DEF SchedulerInv, TablesOK
<1>6. TablesOK' BY <1>4 DEF SchedulerInv, TablesOK
<1>7. ReadingsPast' BY DEF SchedulerInv, ReadingsPast
<1>8. RowsTimed'
  <2> SUFFICES ASSUME NEW s \in Schedules
               PROVE  Timed(schedule'[s].next, JobOf[s])
    BY DEF RowsTimed, Timed
  <2>1. CASE schedule'[s] = schedule[s]
    BY <2>1 DEF SchedulerInv, RowsTimed
  <2>2. CASE Even(schedule'[s].next)
    <3>1. schedule'[s].next \in Int BY <1>4 DEF Rows
    <3>2. JobOf[s] \in Jobs BY SchedulerAssumption
    <3>3. QED BY <2>2, <3>1, <3>2, EvenIsTimed DEF SchedulerInv
  <2>3. QED BY <1>4, <2>1, <2>2
<1>9. OwedRuns' BY <1>5 DEF SchedulerInv, OwedRuns, Due
<1> HIDE DEF x
<1>10. /\ pass' \in [Schedulers -> Passes] /\ pass'[p] = x
       /\ \A q \in Schedulers \ {p} : pass'[q] = pass[q]
  BY <1>2 DEF SchedulerInv, PassesFine, Proceeds, x
<1>11. \A q \in Schedulers : PassTimed(pass'[q])
  BY <1>1, <1>2, <1>3, <1>10 DEF SchedulerInv, PassesFine, PassTimed
<1>12. \A q \in Schedulers : Misses(pass'[q], owed)
  BY <1>1, <1>2, <1>10 DEF SchedulerInv, PassesFine, Misses
<1>13. \A q \in Schedulers : Misses(pass[q], owed)'
  BY <1>5, <1>12 DEF Misses
<1>14. PassesFine'
  BY <1>10, <1>11, <1>13 DEF PassesFine, PassTimed, Misses, Timed
<1>15. QED BY <1>6, <1>7, <1>8, <1>9, <1>14 DEF SchedulerInv

LEMMA StartStep ==
    ASSUME SchedulerInv, NEW p \in Schedulers, StartPass(p)
    PROVE  SchedulerInv'
<1> DEFINE x == [Resting EXCEPT !.at = "due", !.now = clock,
                                !.todo = DueEntries(clock)]
<1>1. Proceeds(p, x) /\ UNCHANGED <<clock, schedule, pause, resuming, owed>>
  BY DEF StartPass
<1>2. ASSUME NEW s \in Schedules, Due(s, clock)
      PROVE  EntryOf(s) \in Entries /\ Timed(EntryOf(s).next, JobOf[EntryOf(s).id])
  <2>1. schedule[s] \in Rows BY DEF SchedulerInv, TablesOK
  <2>2. schedule[s].timing \in Steady BY <1>2, <2>1 DEF Due, Rows, Off
  <2>3. EntryOf(s) \in Entries BY <2>1, <2>2 DEF EntryOf, Entries, Rows
  <2>4. QED BY <2>3 DEF SchedulerInv, RowsTimed, EntryOf
<1>3. \A e \in DueEntries(clock) : e \in Entries /\ Timed(e.next, JobOf[e.id])
  BY <1>2 DEF DueEntries
<1>4. clock \in Int /\ Even(clock) BY DEF SchedulerInv, TablesOK
<1>5. Resting \in Passes /\ Resting.entry = NoEntry BY DEF Resting, Passes, Places
<1>6. /\ x \in Passes /\ x.at = "due" /\ x.now = clock
      /\ x.todo = DueEntries(clock) /\ x.entry = NoEntry
  BY <1>3, <1>4, <1>5 DEF Passes, Places
<1> HIDE DEF x
<1>7. NoEntry \notin Entries BY SchedulerAssumption DEF NoEntry, Entries
<1>8. PassTimed(x) BY <1>3, <1>4, <1>6, <1>7 DEF PassTimed
<1>9. Misses(x, owed') BY <1>6 DEF Misses
<1>10. QED BY <1>1, <1>6, <1>8, <1>9, PassMoves

LEMMA ReadPausesStep ==
    ASSUME SchedulerInv, NEW p \in Schedulers, ReadPauses(p)
    PROVE  SchedulerInv'
<1> DEFINE x == [pass[p] EXCEPT !.at = "loop",
                                !.paused = {j \in Jobs : pause[j] # "none"}]
<1>1. pass[p] \in Passes /\ PassTimed(pass[p]) BY DEF SchedulerInv, PassesFine
<1>2. Proceeds(p, x) /\ UNCHANGED <<clock, schedule, pause, resuming, owed>>
  BY DEF ReadPauses
<1>3. /\ x \in Passes /\ x.at = "loop" /\ x.now = pass[p].now
      /\ x.todo = pass[p].todo /\ x.entry = pass[p].entry
      /\ x.paused = {j \in Jobs : pause[j] # "none"}
  BY <1>1 DEF Passes, Places
<1> HIDE DEF x
<1>4. PassTimed(x) BY <1>1, <1>3 DEF PassTimed
<1>5. Misses(x, owed')
  BY <1>2, <1>3 DEF Misses, SchedulerInv, OwedRuns
<1>6. QED BY <1>2, <1>3, <1>4, <1>5, PassMoves

LEMMA CheckStep ==
    ASSUME SchedulerInv, NEW p \in Schedulers, NEW e \in pass[p].todo,
           CheckActive(p, e)
    PROVE  SchedulerInv'
<1> DEFINE x == [pass[p] EXCEPT !.at = "enqueue", !.entry = e]
           y == [pass[p] EXCEPT !.at = "advance", !.entry = e]
<1>1. /\ pass[p] \in Passes /\ PassTimed(pass[p]) /\ Misses(pass[p], owed)
      /\ pass[p].at = "loop" /\ e \in Entries
  BY DEF SchedulerInv, PassesFine, CheckActive, IsNext, Passes
<1>2. /\ UNCHANGED <<clock, schedule, pause, resuming>>
      /\ \/ Proceeds(p, x) /\ owed' = owed
         \/ Proceeds(p, y) /\ owed' = owed \ {e.id}
  BY Zenon DEF CheckActive
<1>3. /\ x \in Passes /\ x.at = "enqueue" /\ x.now = pass[p].now
      /\ x.todo = pass[p].todo /\ x.entry = e /\ x.paused = pass[p].paused
  BY <1>1 DEF Passes, Places
<1>4. /\ y \in Passes /\ y.at = "advance" /\ y.now = pass[p].now
      /\ y.todo = pass[p].todo /\ y.entry = e /\ y.paused = pass[p].paused
  BY <1>1 DEF Passes, Places
<1> HIDE DEF x, y
<1>5. PassTimed(x) /\ PassTimed(y) BY <1>1, <1>3, <1>4 DEF PassTimed
<1>6. Misses(x, owed) /\ Misses(y, owed \ {e.id})
  BY <1>1, <1>3, <1>4 DEF Misses
<1>7. QED BY <1>2, <1>3, <1>4, <1>5, <1>6, PassMoves

LEMMA EnqueueStep ==
    ASSUME SchedulerInv, NEW p \in Schedulers, EnqueueOccurrence(p)
    PROVE  SchedulerInv'
<1> DEFINE x == [pass[p] EXCEPT !.at = "advance"]
<1>1. /\ pass[p] \in Passes /\ PassTimed(pass[p]) /\ Misses(pass[p], owed)
      /\ pass[p].at = "enqueue"
  BY DEF SchedulerInv, PassesFine, EnqueueOccurrence
<1>2. /\ UNCHANGED <<clock, schedule, pause, resuming>>
      /\ Proceeds(p, x) /\ owed' = owed \ {pass[p].entry.id}
  BY DEF EnqueueOccurrence
<1>3. /\ x \in Passes /\ x.at = "advance" /\ x.now = pass[p].now
      /\ x.todo = pass[p].todo /\ x.entry = pass[p].entry
      /\ x.paused = pass[p].paused
  BY <1>1 DEF Passes, Places
<1> HIDE DEF x
<1>4. PassTimed(x) BY <1>1, <1>3 DEF PassTimed
<1>5. Misses(x, owed') BY <1>1, <1>2, <1>3 DEF Misses
<1>6. QED BY <1>2, <1>3, <1>4, <1>5, PassMoves

LEMMA RestStep ==
    ASSUME SchedulerInv, NEW p \in Schedulers, EndPass(p) \/ PassFails(p)
    PROVE  SchedulerInv'
<1>1. /\ Proceeds(p, Resting)
      /\ UNCHANGED <<clock, schedule, pause, resuming, owed>>
  BY DEF EndPass, PassFails
<1>2. /\ Resting \in Passes /\ Even(Resting.now) /\ Resting.at = "idle"
      /\ Resting.todo = {} /\ Resting.entry = NoEntry
  BY DEF Resting, Passes, Places, Even
<1>3. NoEntry \notin Entries BY SchedulerAssumption DEF NoEntry, Entries
<1>4. PassTimed(Resting) /\ Misses(Resting, owed')
  BY <1>2, <1>3 DEF PassTimed, Misses
<1>5. QED BY <1>1, <1>2, <1>4, PassMoves

LEMMA SkipStep ==
    ASSUME SchedulerInv, NEW p \in Schedulers, NEW e \in pass[p].todo,
           SkipPaused(p, e)
    PROVE  SchedulerInv'
<1>1. /\ pass[p] \in Passes /\ Misses(pass[p], owed) /\ pass[p].at = "loop"
      /\ JobOf[e.id] \in pass[p].paused
  BY DEF SchedulerInv, PassesFine, SkipPaused, IsNext
<1>2. e \in Entries BY <1>1 DEF Passes
<1>3. e.id \in owed => schedule[e.id].next # e.next BY <1>1 DEF Misses
<1>4. QED BY <1>1, <1>2, <1>3, AdvanceStep DEF SkipPaused

LEMMA WriteStep ==
    ASSUME SchedulerInv, NEW p \in Schedulers, Advance(p)
    PROVE  SchedulerInv'
<1>1. Misses(pass[p], owed) /\ PassTimed(pass[p]) /\ pass[p].at = "advance"
  BY DEF SchedulerInv, PassesFine, Advance
<1>2. pass[p].entry \in Entries BY <1>1 DEF PassTimed
<1>3. pass[p].entry.id \in owed
         => schedule[pass[p].entry.id].next # pass[p].entry.next
  BY <1>1 DEF Misses
<1>4. QED BY <1>1, <1>2, <1>3, AdvanceStep DEF Advance

-----------------------------------------------------------------------------
(* The clock moves, and readings are taken or given up.                    *)
LEMMA TimedStays ==
    ASSUME ReadingsPast, clock \in Nat, clock' \in Nat, clock <= clock',
           NEW n \in Int, NEW j \in Jobs, Timed(n, j),
           \/ resuming'[j] \in {resuming[j], NoReading}
           \/ resuming'[j] = clock + 1 /\ Even(clock)
    PROVE  Timed(n, j)'
BY DEF Timed, Even

LEMMA PassesStayTimed ==
    ASSUME SchedulerInv, clock' \in Nat, clock <= clock', UNCHANGED pass,
           \A j \in Jobs : \/ resuming'[j] \in {resuming[j], NoReading}
                           \/ resuming'[j] = clock + 1
    PROVE  \A p \in Schedulers : pass'[p] \in Passes /\ PassTimed(pass[p])'
<1> SUFFICES ASSUME NEW p \in Schedulers
             PROVE  pass'[p] \in Passes /\ PassTimed(pass[p])'
  OBVIOUS
<1>1. pass'[p] = pass[p] OBVIOUS
<1>2. pass[p] \in Passes /\ PassTimed(pass[p]) BY DEF SchedulerInv, PassesFine
<1>3. ASSUME NEW e \in Entries, Timed(e.next, JobOf[e.id])
      PROVE  Timed(e.next, JobOf[e.id])'
  <2>1. e.next \in Int /\ JobOf[e.id] \in Jobs
    BY SchedulerAssumption DEF Entries
  <2>2. ReadingsPast /\ clock \in Nat /\ Even(clock) BY DEF SchedulerInv, TablesOK
  <2> DEFINE n == e.next
             j == JobOf[e.id]
  <2>3. /\ n \in Int /\ j \in Jobs /\ Timed(n, j)
        /\ \/ resuming'[j] \in {resuming[j], NoReading}
           \/ resuming'[j] = clock + 1
    BY <1>3, <2>1
  <2> HIDE DEF n, j
  <2>4. Timed(n, j)' BY <2>2, <2>3, TimedStays
  <2>5. QED BY <2>4 DEF n, j
<1>4. QED BY <1>1, <1>2, <1>3 DEF PassTimed, Passes

LEMMA RowStaysTimed ==
    ASSUME SchedulerInv, clock' \in Nat, clock <= clock', NEW s \in Schedules,
           schedule'[s] = schedule[s],
           \/ resuming'[JobOf[s]] \in {resuming[JobOf[s]], NoReading}
           \/ resuming'[JobOf[s]] = clock + 1
    PROVE  Timed(schedule[s].next, JobOf[s])'
<1>1. /\ schedule[s].next \in Int /\ JobOf[s] \in Jobs
      /\ ReadingsPast /\ clock \in Nat /\ Even(clock)
      /\ Timed(schedule[s].next, JobOf[s])
  BY SchedulerAssumption DEF SchedulerInv, TablesOK, RowsTimed, Rows
<1> DEFINE n == schedule[s].next
<1>2. n \in Int /\ Timed(n, JobOf[s]) BY <1>1
<1>3. schedule'[s].next = n OBVIOUS
<1> DEFINE m == schedule'[s].next
<1>4. m = n BY <1>3
<1>5. \/ Even(n) \/ n <= clock BY <1>2 DEF Timed
<1>6. resuming'[JobOf[s]] # NoReading => m # resuming'[JobOf[s]]
  BY <1>1, <1>2, <1>4 DEF Timed, Even
<1>7. Even(m) \/ m <= clock' BY <1>1, <1>2, <1>4, <1>5
<1>8. QED BY <1>6, <1>7 DEF Timed

LEMMA TickStep == ASSUME SchedulerInv, SchedulerTick PROVE SchedulerInv'
<1>1. clock \in Nat /\ Even(clock) BY DEF SchedulerInv, TablesOK
<1>2. /\ clock' = clock + 2 /\ UNCHANGED <<schedule, pause, pass, owed, resuming>>
  BY DEF SchedulerTick
<1>3. clock' \in Nat /\ Even(clock') /\ clock <= clock' BY <1>1, <1>2 DEF Even
<1>4. TablesOK' BY <1>2, <1>3 DEF SchedulerInv, TablesOK
<1>5. ReadingsPast'
  BY <1>1, <1>2 DEF SchedulerInv, TablesOK, ReadingsPast
<1>6. RowsTimed' BY <1>2, <1>3, RowStaysTimed DEF RowsTimed
<1>7. OwedRuns'
  <2>1. \A s \in owed : schedule[s].next \in Int
    BY DEF SchedulerInv, TablesOK, Rows
  <2>2. QED BY <1>1, <1>2, <2>1 DEF SchedulerInv, OwedRuns, Due
<1>8. \A p \in Schedulers : pass'[p] \in Passes /\ PassTimed(pass[p])'
  BY <1>2, <1>3, PassesStayTimed
<1>9. PassesFine' BY <1>2, <1>8 DEF SchedulerInv, PassesFine, Misses
<1>10. QED BY <1>4, <1>5, <1>6, <1>7, <1>9 DEF SchedulerInv

LEMMA ResumeStep ==
    ASSUME SchedulerInv, NEW j \in Jobs, Resume(j) PROVE SchedulerInv'
<1>1. clock \in Nat /\ Even(clock) /\ resuming \in [Jobs -> Int]
  BY DEF SchedulerInv, TablesOK
<1>2. /\ clock' = clock + 2 /\ UNCHANGED <<schedule, pass, owed>>
      /\ pause' = [pause EXCEPT ![j] = "none"]
      /\ resuming' = [resuming EXCEPT ![j] = clock + 1]
  BY DEF Resume
<1>3. /\ clock' \in Nat /\ Even(clock') /\ clock <= clock'
      /\ ~Even(clock + 1) /\ clock + 1 <= clock'
  BY <1>1, <1>2 DEF Even
<1>4. \A k \in Jobs : \/ resuming'[k] \in {resuming[k], NoReading}
                      \/ resuming'[k] = clock + 1
  BY <1>1, <1>2
<1>5. TablesOK' BY <1>1, <1>2, <1>3 DEF SchedulerInv, TablesOK
<1>6. ReadingsPast'
  BY <1>1, <1>2, <1>3 DEF SchedulerInv, ReadingsPast
<1>7. RowsTimed'
  BY <1>2, <1>3, <1>4, RowStaysTimed, SchedulerAssumption DEF RowsTimed
<1>8. OwedRuns'
  <2>1. \A s \in owed : schedule[s].next \in Int /\ JobOf[s] \in Jobs
    BY SchedulerAssumption DEF SchedulerInv, TablesOK, Rows
  <2>2. \A s \in owed : pause'[JobOf[s]] = "none"
    BY <1>2, <2>1 DEF SchedulerInv, OwedRuns, TablesOK
  <2>3. QED BY <1>1, <1>2, <2>1, <2>2 DEF SchedulerInv, OwedRuns, Due
<1>9. \A p \in Schedulers : pass'[p] \in Passes /\ PassTimed(pass[p])'
  BY <1>2, <1>3, <1>4, PassesStayTimed
<1>10. PassesFine' BY <1>2, <1>9 DEF SchedulerInv, PassesFine, Misses
<1>11. QED BY <1>5, <1>6, <1>7, <1>8, <1>10 DEF SchedulerInv

LEMMA PauseStep ==
    ASSUME SchedulerInv, NEW j \in Jobs, Pause(j) PROVE SchedulerInv'
<1>1. /\ UNCHANGED <<clock, schedule, pass, resuming>>
      /\ owed' = owed \ RowsOf(j)
      /\ pause' = [pause EXCEPT ![j] = "operator"]
  BY DEF Pause, PauseJob
<1>2. TablesOK' BY <1>1 DEF SchedulerInv, TablesOK
<1>3. ReadingsPast' /\ RowsTimed'
  BY <1>1 DEF SchedulerInv, ReadingsPast, RowsTimed, Timed
<1>4. \A s \in owed' : JobOf[s] # j
  BY <1>1 DEF SchedulerInv, TablesOK, OwedRuns, Due, RowsOf
<1>5. OwedRuns'
  BY <1>1, <1>4, SchedulerAssumption DEF SchedulerInv, TablesOK, OwedRuns, Due
<1>6. PassesFine'
  BY <1>1 DEF SchedulerInv, PassesFine, PassTimed, Misses, Timed
<1>7. QED BY <1>2, <1>3, <1>5, <1>6 DEF SchedulerInv

LEMMA SyncStep == ASSUME SchedulerInv, Sync PROVE SchedulerInv'
<1>1. PICK config \in Configs :
         /\ schedule' = [s \in Schedules |-> SyncedRow(config, s, clock)]
         /\ owed' = {s \in owed : schedule[s].timing = config[s]}
  BY DEF Sync
<1>2. UNCHANGED <<clock, pause, pass, resuming>> BY DEF Sync
<1>3. /\ clock \in Nat /\ Even(clock) /\ owed \subseteq Schedules
      /\ ReadingsPast /\ Even(0)
  BY DEF SchedulerInv, TablesOK, Even
<1>4. \A s \in Schedules : /\ schedule'[s] \in Rows
                           /\ schedule'[s] = schedule[s] \/ Even(schedule'[s].next)
  <2> SUFFICES ASSUME NEW s \in Schedules
               PROVE  /\ SyncedRow(config, s, clock) \in Rows
                      /\ \/ SyncedRow(config, s, clock) = schedule[s]
                         \/ Even(SyncedRow(config, s, clock).next)
    BY <1>1
  <2>1. schedule[s] \in Rows BY DEF SchedulerInv, TablesOK
  <2>2. CASE ~config[s].on BY <1>3, <2>2 DEF SyncedRow, Rows
  <2>3. CASE config[s].on
    <3>1. config[s] \in Steady BY <2>3, ConfiguredTiming
    <3>2. NextRun(config[s], clock) \in Int /\ Even(NextRun(config[s], clock))
      BY <1>3, <3>1, NextRunEven
    <3>3. QED BY <2>1, <2>3, <3>1, <3>2 DEF SyncedRow, Rows
  <2>4. QED BY <2>2, <2>3
<1>5. \A s \in owed' : schedule'[s] = schedule[s]
  <2> SUFFICES ASSUME NEW s \in owed' PROVE schedule'[s] = schedule[s]
    OBVIOUS
  <2>1. s \in owed /\ s \in Schedules /\ schedule[s].timing = config[s]
    BY <1>1, <1>3
  <2>2. config[s].on BY <2>1 DEF SchedulerInv, OwedRuns, Due
  <2>3. QED BY <1>1, <2>1, <2>2 DEF SyncedRow
<1>6. TablesOK'
  BY <1>1, <1>2, <1>4 DEF SchedulerInv, TablesOK
<1>7. ReadingsPast' BY <1>2 DEF SchedulerInv, ReadingsPast
<1>8. RowsTimed'
  <2> SUFFICES ASSUME NEW s \in Schedules PROVE Timed(schedule'[s].next, JobOf[s])
    BY <1>2 DEF RowsTimed, Timed
  <2>1. CASE schedule'[s] = schedule[s] BY <2>1 DEF SchedulerInv, RowsTimed
  <2>2. CASE Even(schedule'[s].next)
    <3>1. schedule'[s].next \in Int /\ JobOf[s] \in Jobs
      BY <1>4, SchedulerAssumption DEF Rows
    <3>2. QED BY <1>3, <2>2, <3>1, EvenIsTimed
  <2>3. QED BY <1>4, <2>1, <2>2
<1>9. owed' \subseteq owed BY <1>1
<1>10. OwedRuns' BY <1>2, <1>5, <1>9 DEF SchedulerInv, OwedRuns, Due
<1>11. \A p \in Schedulers : Misses(pass[p], owed)'
  BY <1>2, <1>5, <1>9 DEF SchedulerInv, PassesFine, Misses
<1>12. PassesFine'
  BY <1>2, <1>11 DEF SchedulerInv, PassesFine, PassTimed, Timed
<1>13. QED BY <1>6, <1>7, <1>8, <1>10, <1>12 DEF SchedulerInv

LEMMA TriggerStep ==
    ASSUME SchedulerInv, NEW j \in Jobs, TriggerScheduledJob(j)
    PROVE  SchedulerInv'
<1> DEFINE r == resuming[j]
<1>1. /\ r # NoReading /\ UNCHANGED <<clock, pause, pass>>
      /\ schedule' = [s \in Schedules |->
                         IF s \in RowsOf(j)
                         THEN [schedule[s] EXCEPT !.next = r] ELSE schedule[s]]
      /\ owed' = IF pause[j] = "none" THEN owed \cup RowsOf(j) ELSE owed
      /\ resuming' = [resuming EXCEPT ![j] = NoReading]
  BY DEF TriggerScheduledJob
<1>2. clock \in Nat /\ r \in Int /\ ~Even(r) /\ r <= clock
  BY <1>1 DEF SchedulerInv, TablesOK, ReadingsPast
<1>3. /\ resuming' \in [Jobs -> Int] /\ resuming'[j] = NoReading
      /\ \A k \in Jobs : resuming'[k] \in {resuming[k], NoReading}
  BY <1>1 DEF SchedulerInv, TablesOK, NoReading
<1>4. \A s \in RowsOf(j) :
         /\ s \in Schedules /\ JobOf[s] = j /\ schedule'[s] \in Rows
         /\ schedule'[s].next = r /\ schedule'[s].timing = schedule[s].timing
         /\ schedule[s].timing.on
  <2> SUFFICES ASSUME NEW s \in RowsOf(j)
               PROVE  /\ s \in Schedules /\ JobOf[s] = j /\ schedule'[s] \in Rows
                      /\ schedule'[s].next = r
                      /\ schedule'[s].timing = schedule[s].timing
                      /\ schedule[s].timing.on
    OBVIOUS
  <2>1. s \in Schedules /\ JobOf[s] = j /\ schedule[s].timing.on BY DEF RowsOf
  <2>2. schedule'[s] = [schedule[s] EXCEPT !.next = r] BY <1>1, <2>1
  <2>3. schedule[s] \in Rows BY <2>1 DEF SchedulerInv, TablesOK
  <2>4. QED BY <1>2, <2>1, <2>2, <2>3 DEF Rows
<1>5. \A s \in Schedules \ RowsOf(j) : schedule'[s] = schedule[s] BY <1>1
<1> HIDE DEF r
<1>6. schedule' \in [Schedules -> Rows]
  BY <1>1, <1>4, <1>5 DEF SchedulerInv, TablesOK
<1>7. TablesOK' BY <1>1, <1>3, <1>6 DEF SchedulerInv, TablesOK, RowsOf
<1>8. ReadingsPast' BY <1>1, <1>3 DEF SchedulerInv, ReadingsPast
<1>9. RowsTimed'
  <2> SUFFICES ASSUME NEW s \in Schedules
               PROVE  Timed(schedule[s].next, JobOf[s])'
    BY DEF RowsTimed
  <2>1. CASE s \in RowsOf(j) BY <1>1, <1>2, <1>3, <1>4, <2>1 DEF Timed
  <2>2. CASE s \notin RowsOf(j)
    <3>1. schedule'[s] = schedule[s] /\ JobOf[s] \in Jobs
      BY <1>5, <2>2, SchedulerAssumption
    <3>2. clock' \in Nat /\ clock <= clock' BY <1>1, <1>2
    <3>3. resuming'[JobOf[s]] \in {resuming[JobOf[s]], NoReading} BY <1>3, <3>1
    <3>4. QED BY <3>1, <3>2, <3>3, RowStaysTimed
  <2>3. QED BY <2>1, <2>2
<1>10. \A s \in owed' : \/ s \in RowsOf(j) /\ pause[j] = "none"
                        \/ s \in RowsOf(j) /\ s \in owed
                        \/ s \in owed /\ s \notin RowsOf(j) /\ s \in Schedules
  BY <1>1 DEF SchedulerInv, TablesOK
<1>11. OwedRuns'
  <2> SUFFICES ASSUME NEW s \in owed'
               PROVE  /\ pause[JobOf[s]] = "none" /\ schedule'[s].timing.on
                      /\ schedule'[s].next <= clock
    BY <1>1 DEF OwedRuns, Due
  <2>1. CASE s \in RowsOf(j) /\ pause[j] = "none" BY <1>2, <1>4, <2>1
  <2>2. CASE s \in RowsOf(j) /\ s \in owed
    BY <1>2, <1>4, <2>2 DEF SchedulerInv, OwedRuns
  <2>3. CASE s \in owed /\ s \notin RowsOf(j) /\ s \in Schedules
    BY <1>5, <2>3 DEF SchedulerInv, OwedRuns, Due
  <2>4. QED BY <1>10, <2>1, <2>2, <2>3
<1>12. \A p \in Schedulers : pass'[p] \in Passes /\ PassTimed(pass[p])'
  BY <1>1, <1>2, <1>3, PassesStayTimed
<1>13. ASSUME NEW p \in Schedulers,
              NEW e \in pass[p].todo \cup ({pass[p].entry} \cap Entries)
       PROVE  e.id \in RowsOf(j) => schedule'[e.id].next # e.next
  <2>1. Timed(e.next, JobOf[e.id])
    BY DEF SchedulerInv, PassesFine, PassTimed
  <2>2. QED BY <1>1, <1>4, <2>1 DEF Timed, r
<1>14. ASSUME NEW p \in Schedulers PROVE Misses(pass[p], owed)'
  <2> DEFINE x == pass[p]
  <2>1. Misses(x, owed) BY DEF SchedulerInv, PassesFine
  <2>2. x.at = "advance" => x.entry \in Entries
    BY DEF SchedulerInv, PassesFine, PassTimed
  <2>3. \A e \in x.todo : e.id \in RowsOf(j) => schedule'[e.id].next # e.next
    BY <1>13
  <2>4. x.at = "advance" /\ x.entry.id \in RowsOf(j)
           => schedule'[x.entry.id].next # x.entry.next
    BY <1>13, <2>2
  <2> HIDE DEF x
  <2>5. \A s \in owed' : \/ s \in RowsOf(j)
                         \/ s \in owed /\ schedule'[s] = schedule[s]
    BY <1>5, <1>10
  <2>6. /\ x.at \in {"loop", "enqueue", "advance"} =>
              \A e \in x.todo : JobOf[e.id] \in x.paused /\ e.id \in owed'
                                   => schedule'[e.id].next # e.next
        /\ x.at = "advance" /\ x.entry.id \in owed'
              => schedule'[x.entry.id].next # x.entry.next
    BY <2>1, <2>3, <2>4, <2>5 DEF Misses
  <2>7. QED BY <1>1, <2>6 DEF Misses, x
<1>15. PassesFine' BY <1>1, <1>12, <1>14 DEF SchedulerInv, PassesFine
<1>16. QED BY <1>7, <1>8, <1>9, <1>11, <1>15 DEF SchedulerInv

LEMMA SchedulerStaysInv ==
    ASSUME SchedulerInv,
           UNCHANGED <<clock, schedule, pause, pass, resuming, owed>>
    PROVE  SchedulerInv'
BY DEF SchedulerInv, TablesOK, ReadingsPast, RowsTimed, OwedRuns, PassesFine,
       PassTimed, Misses, Timed, Due

LEMMA SchedulerStepInv == SchedulerInv /\ [SchedulerNext]_schedVars => SchedulerInv'
<1> SUFFICES ASSUME SchedulerInv, [SchedulerNext]_schedVars PROVE SchedulerInv'
  OBVIOUS
<1>1. CASE SchedulerTick BY <1>1, TickStep
<1>2. CASE Sync BY <1>2, SyncStep
<1>3. ASSUME NEW p \in Schedulers, PassStep(p) PROVE SchedulerInv'
  <2>1. CASE StartPass(p) BY <2>1, StartStep
  <2>2. CASE ReadPauses(p) BY <2>2, ReadPausesStep
  <2>3. ASSUME NEW e \in pass[p].todo, SkipPaused(p, e) \/ CheckActive(p, e)
        PROVE  SchedulerInv'
    BY <2>3, SkipStep, CheckStep
  <2>4. CASE EnqueueOccurrence(p) BY <2>4, EnqueueStep
  <2>5. CASE Advance(p) BY <2>5, WriteStep
  <2>6. CASE EndPass(p) BY <2>6, RestStep
  <2>7. QED BY <1>3, <2>1, <2>2, <2>3, <2>4, <2>5, <2>6 DEF PassStep
<1>4. ASSUME NEW p \in Schedulers, PassFails(p) PROVE SchedulerInv'
  BY <1>4, RestStep
<1>5. ASSUME NEW j \in Jobs, Pause(j) \/ Resume(j) \/ TriggerScheduledJob(j)
      PROVE  SchedulerInv'
  BY <1>5, PauseStep, ResumeStep, TriggerStep
<1>6. ASSUME NEW t \in active, Settle(t) PROVE SchedulerInv'
  BY <1>6, SchedulerStaysInv DEF Settle
<1>7. ASSUME NEW t \in failed, Restart(t) PROVE SchedulerInv'
  BY <1>7, SchedulerStaysInv DEF Restart
<1>8. CASE UNCHANGED schedVars BY <1>8, SchedulerStaysInv DEF schedVars
<1>9. QED BY <1>1, <1>2, <1>3, <1>4, <1>5, <1>6, <1>7, <1>8 DEF SchedulerNext

(* The rows, the readings of resumes and the passes under way always fit   *)
(* together, for any number of schedules, jobs and processes.              *)
THEOREM SchedulerInductive == SchedulerSpec => []SchedulerInv
BY SchedulerInitInv, SchedulerStepInv, PTL DEF SchedulerSpec

(* The run a resume promised is not lost to a pass under way: its schedule *)
(* stays due until the run is made, found active, denied or paused, or a   *)
(* reload that changes or drops the schedule takes the promise back.       *)
THEOREM OwedStays == SchedulerSpec => []OwedStaysDue
<1>1. SchedulerInv => OwedStaysDue BY DEF SchedulerInv, OwedRuns, OwedStaysDue
<1>2. QED BY <1>1, SchedulerInductive, PTL

-----------------------------------------------------------------------------
(* With one process only a restart makes a task active between the look at *)
(* the active tasks of a job and the enqueue, and then it is beside.       *)
OneProcess == \A p, q \in Schedulers : p = q

EnqueuesFreeJob ==
    \A p \in Schedulers :
        pass[p].at = "enqueue" =>
            \A t \in active \ beside : JobOf[t[1]] # JobOf[pass[p].entry.id]

ActiveInv == SchedulerInv /\ OneActivePerJob /\ EnqueuesFreeJob

LEMMA ActiveStepInv ==
    ASSUME OneProcess, ActiveInv, [SchedulerNext]_schedVars
    PROVE  ActiveInv'
<1>1. SchedulerInv' BY SchedulerStepInv DEF ActiveInv
<1>2. pass \in [Schedulers -> Passes] BY DEF ActiveInv, SchedulerInv, PassesFine
<1>3. CASE active' \ beside' \subseteq active \ beside /\ UNCHANGED pass
  BY <1>1, <1>3 DEF ActiveInv, OneActivePerJob, EnqueuesFreeJob
<1>4. ASSUME NEW p \in Schedulers, NEW x, Proceeds(p, x), x.at # "enqueue",
             UNCHANGED <<active, beside>>
      PROVE  ActiveInv'
  <2>1. \A q \in Schedulers : pass'[q].at # "enqueue"
    BY <1>2, <1>4 DEF Proceeds, OneProcess
  <2>2. QED BY <1>1, <1>4, <2>1 DEF ActiveInv, OneActivePerJob, EnqueuesFreeJob
<1>5. Resting.at = "idle" BY DEF Resting
<1>6. ASSUME NEW p \in Schedulers, PassStep(p) PROVE ActiveInv'
  <2>1. pass[p] \in Passes BY <1>2
  <2>2. CASE StartPass(p)
    <3> DEFINE x == [Resting EXCEPT !.at = "due", !.now = clock,
                                    !.todo = DueEntries(clock)]
    <3>1. x.at = "due" BY DEF Resting
    <3>2. Proceeds(p, x) /\ UNCHANGED <<active, beside>> BY <2>2 DEF StartPass, taskVars
    <3> HIDE DEF x
    <3>3. QED BY <1>4, <3>1, <3>2
  <2>3. CASE ReadPauses(p)
    <3> DEFINE x == [pass[p] EXCEPT !.at = "loop",
                                    !.paused = {j \in Jobs : pause[j] # "none"}]
    <3>1. x.at = "loop" BY <2>1 DEF Passes
    <3>2. Proceeds(p, x) /\ UNCHANGED <<active, beside>> BY <2>3 DEF ReadPauses, taskVars
    <3> HIDE DEF x
    <3>3. QED BY <1>4, <3>1, <3>2
  <2>4. ASSUME NEW e, Proceeds(p, Without(p, e)), UNCHANGED <<active, beside>>
        PROVE  ActiveInv'
    <3>1. Without(p, e).at = "loop" BY <2>1 DEF Without, Passes
    <3>2. QED BY <1>4, <2>4, <3>1
  <2>5. ASSUME NEW e \in pass[p].todo, SkipPaused(p, e) PROVE ActiveInv'
    BY <2>4, <2>5 DEF SkipPaused, taskVars
  <2>6. ASSUME NEW e \in pass[p].todo, CheckActive(p, e) PROVE ActiveInv'
    <3> DEFINE x == [pass[p] EXCEPT !.at = "enqueue", !.entry = e]
               y == [pass[p] EXCEPT !.at = "advance", !.entry = e]
    <3>1. x.entry = e /\ y.at = "advance" BY <2>1 DEF Passes
    <3>2. /\ UNCHANGED <<active, beside>>
          /\ \/ Proceeds(p, x) /\ ~HasActiveTask(JobOf[e.id])
             \/ Proceeds(p, y)
      BY <2>6, Zenon DEF CheckActive, taskVars
    <3> HIDE DEF x, y
    <3>3. CASE Proceeds(p, y) BY <1>4, <3>1, <3>2, <3>3
    <3>4. CASE Proceeds(p, x) /\ ~HasActiveTask(JobOf[e.id])
      <4>1. \A q \in Schedulers : pass'[q] = x
        BY <1>2, <3>4 DEF Proceeds, OneProcess
      <4>2. EnqueuesFreeJob'
        BY <3>1, <3>2, <3>4, <4>1 DEF EnqueuesFreeJob, HasActiveTask
      <4>3. QED BY <1>1, <3>2, <4>2 DEF ActiveInv, OneActivePerJob
    <3>5. QED BY <3>2, <3>3, <3>4
  <2>7. CASE EnqueueOccurrence(p)
    <3> DEFINE x == [pass[p] EXCEPT !.at = "advance"]
               key == <<pass[p].entry.id, pass[p].entry.next>>
    <3>1. x.at = "advance" BY <2>1 DEF Passes
    <3>2. /\ Proceeds(p, x) /\ pass[p].at = "enqueue" /\ UNCHANGED beside
          /\ active' = IF key \in created THEN active ELSE active \cup {key}
      BY <2>7 DEF EnqueueOccurrence
    <3>3. \A t \in active \ beside : JobOf[t[1]] # JobOf[key[1]]
      BY <3>2 DEF ActiveInv, EnqueuesFreeJob
    <3> HIDE DEF x, key
    <3>4. active' \subseteq active \cup {key} BY <3>2
    <3>5. OneActivePerJob' BY <3>2, <3>3, <3>4 DEF ActiveInv, OneActivePerJob
    <3>6. \A q \in Schedulers : pass'[q].at # "enqueue"
      BY <1>2, <3>1, <3>2 DEF Proceeds, OneProcess
    <3>7. QED BY <1>1, <3>5, <3>6 DEF ActiveInv, EnqueuesFreeJob
  <2>8. CASE Advance(p) BY <2>4, <2>8 DEF Advance, taskVars
  <2>9. CASE EndPass(p) BY <1>4, <1>5, <2>9 DEF EndPass, taskVars
  <2>10. QED BY <1>6, <2>2, <2>3, <2>5, <2>6, <2>7, <2>8, <2>9 DEF PassStep
<1>7. ASSUME NEW p \in Schedulers, PassFails(p) PROVE ActiveInv'
  BY <1>4, <1>5, <1>7 DEF PassFails, taskVars
<1>8. CASE SchedulerTick \/ Sync BY <1>3, <1>8 DEF SchedulerTick, Sync, taskVars
<1>9. ASSUME NEW j \in Jobs, Pause(j) \/ Resume(j) \/ TriggerScheduledJob(j)
      PROVE  ActiveInv'
  BY <1>3, <1>9 DEF Pause, Resume, TriggerScheduledJob, taskVars
<1>10. ASSUME NEW t \in active, Settle(t) PROVE ActiveInv'
  BY <1>3, <1>10 DEF Settle
<1>11. ASSUME NEW t \in failed, Restart(t) PROVE ActiveInv'
  <2> DEFINE j == JobOf[t[1]]
  <2>1. active' = active \cup {t} /\ UNCHANGED pass BY <1>11 DEF Restart
  <2>2. CASE HasActiveTask(j) \/ EnqueuesFor(j)
    <3>1. beside' = beside \cup {t} BY <1>11, <2>2 DEF Restart
    <3>2. QED BY <1>3, <2>1, <3>1
  <2>3. CASE ~HasActiveTask(j) /\ ~EnqueuesFor(j)
    <3>1. beside' = beside BY <1>11, <2>3 DEF Restart
    <3>2. \A u \in active : JobOf[u[1]] # j BY <2>3 DEF HasActiveTask
    <3>3. OneActivePerJob'
      BY <2>1, <3>1, <3>2 DEF ActiveInv, OneActivePerJob
    <3>4. EnqueuesFreeJob'
      BY <2>1, <2>3, <3>1 DEF ActiveInv, EnqueuesFreeJob, EnqueuesFor
    <3>5. QED BY <1>1, <3>3, <3>4 DEF ActiveInv
  <2>4. QED BY <2>2, <2>3
<1>12. CASE UNCHANGED schedVars BY <1>3, <1>12 DEF schedVars, taskVars
<1>13. QED BY <1>6, <1>7, <1>8, <1>9, <1>10, <1>11, <1>12 DEF SchedulerNext

(* One process makes a scheduled task only while no other of the job is    *)
(* active, however many schedules of the job fall due in one pass: two are *)
(* in flight only when one of them was restarted beside the other or       *)
(* between a pass's check and its enqueue.                                 *)
THEOREM OneActive ==
    ASSUME OneProcess PROVE SchedulerSpec => []OneActivePerJob
<1>1. SchedulerInit => ActiveInv
  <2>1. Resting.at = "idle" BY DEF Resting
  <2>2. QED BY <2>1, SchedulerInitInv
     DEF SchedulerInit, ActiveInv, OneActivePerJob, EnqueuesFreeJob
<1>2. ActiveInv /\ [SchedulerNext]_schedVars => ActiveInv' BY ActiveStepInv
<1>3. ActiveInv => OneActivePerJob BY DEF ActiveInv
<1>4. QED BY <1>1, <1>2, <1>3, PTL DEF SchedulerSpec
=============================================================================
