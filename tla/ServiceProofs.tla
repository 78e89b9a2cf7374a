--------------------------- MODULE ServiceProofs ---------------------------
(***************************************************************************)
(* The lease of the process, the forms of vacancy tests, the upkeep of a   *)
(* profile's activity and the recovery after a sign-in, for any number of  *)
(* starts, forms, cards and tasks.                                         *)
(***************************************************************************)
EXTENDS ProcessLease, QuestionnaireForms, ProfileActivity, AuthRecovery,
        FiniteSetTheorems, SequenceTheorems, TLAPS

-----------------------------------------------------------------------------
(* The lease of the single-replica guard, for any TTL and any stall: it is *)
(* taken only from a process that gave it up or was silent for longer than *)
(* TTL, and its holder is a process that took it.  The inductive invariant *)
(* is that every reading of the clock, in a process or in the row, is past.*)
Lives == {"none", "starting", "synced", "acquiring", "serving", "closing",
          "ended"}
Proc == [at : Lives, now : Nat, renews : BOOLEAN]

LeaseTypeOK ==
    /\ time \in Nat
    /\ lease \in [owner : Owners \cup {NoOwner}, renewedAt : Nat]
    /\ process \in [Owners -> Proc]

ClockReadingsPast == \A o \in Owners : process[o].now <= time

LeaseInv == LeaseTypeOK /\ ClockReadingsPast /\ lease.renewedAt <= time
            /\ HolderTookLease

LEMMA LeaseInitInv == LeaseInit => LeaseInv
BY LeaseAssumption
DEF LeaseInit, LeaseInv, LeaseTypeOK, ClockReadingsPast, HolderTookLease,
    NoLease, Lives, Proc

(* A process moves on, by itself, with the lease of somebody else or none. *)
LEMMA ProcessMoves ==
    ASSUME LeaseInv, NEW o \in Owners,
           NEW s \in Proc,
           s.now <= time, Becomes(o, s), UNCHANGED <<time, lease>>,
           lease.owner = o => s.at \in {"serving", "closing", "ended"}
    PROVE  LeaseInv'
<1>1. /\ process'[o] = s
      /\ \A p \in Owners \ {o} : process'[p] = process[p]
      /\ process' \in [Owners -> Proc]
  BY DEF LeaseInv, LeaseTypeOK, Becomes
<1>2. LeaseTypeOK' BY <1>1 DEF LeaseInv, LeaseTypeOK
<1>3. ClockReadingsPast' BY <1>1 DEF LeaseInv, ClockReadingsPast
<1>4. HolderTookLease'
  <2> SUFFICES ASSUME lease.owner # NoOwner
               PROVE  process'[lease.owner].at \in {"serving", "closing", "ended"}
    BY DEF HolderTookLease, LeaseInv
  <2>1. lease.owner \in Owners BY DEF LeaseInv, LeaseTypeOK
  <2>2. QED BY <1>1, <2>1 DEF LeaseInv, HolderTookLease
<1>5. QED BY <1>2, <1>3, <1>4 DEF LeaseInv

LEMMA LeaseInvStep == LeaseInv /\ [LeaseNext]_leaseVars => LeaseInv'
<1> SUFFICES ASSUME LeaseInv, [LeaseNext]_leaseVars PROVE LeaseInv'
  OBVIOUS
<1> USE LeaseAssumption
<1>0. /\ time \in Nat /\ lease.renewedAt \in Nat
      /\ lease.owner \in Owners \cup {NoOwner}
      /\ \A o \in Owners :
            /\ process[o] \in Proc
            /\ process[o].now <= time
      /\ lease.owner # NoOwner =>
            process[lease.owner].at \in {"serving", "closing", "ended"}
  BY DEF LeaseInv, LeaseTypeOK, ClockReadingsPast, HolderTookLease
<1>1. CASE TimePasses
  <2>1. \A o \in Owners : process[o].now \in Nat BY <1>0 DEF Proc
  <2>2. QED
    BY <1>0, <1>1, <2>1 DEF TimePasses, LeaseInv, LeaseTypeOK,
       ClockReadingsPast, HolderTookLease
<1>2. ASSUME NEW o \in Owners, Start(o) PROVE LeaseInv'
  <2> DEFINE s == [process[o] EXCEPT !.at = "starting"]
  <2>1. /\ s \in Proc /\ s.now <= time
        /\ lease.owner # o
    BY <1>0, <1>2 DEF Start, Lives, Proc
  <2>2. Becomes(o, s) /\ UNCHANGED <<time, lease>> BY <1>2 DEF Start
  <2> HIDE DEF s
  <2>3. QED BY <2>1, <2>2, ProcessMoves
<1>3. ASSUME NEW o \in Owners, SyncSchedules(o) PROVE LeaseInv'
  <2> DEFINE s == [process[o] EXCEPT !.at = "synced"]
  <2>1. /\ s \in Proc /\ s.now <= time
        /\ lease.owner # o
    BY <1>0, <1>3 DEF SyncSchedules, Lives, Proc
  <2>2. Becomes(o, s) /\ UNCHANGED <<time, lease>> BY <1>3 DEF SyncSchedules
  <2> HIDE DEF s
  <2>3. QED BY <2>1, <2>2, ProcessMoves
<1>4. ASSUME NEW o \in Owners, ReadClock(o) PROVE LeaseInv'
  <2> DEFINE s == [process[o] EXCEPT !.at = "acquiring", !.now = time]
  <2> DEFINE p == process[o]
  <2>3. p \in Proc /\ time \in Nat BY <1>0
  <2>4. lease.owner # o BY <1>0, <1>4 DEF ReadClock
  <2> HIDE DEF p
  <2>1. [p EXCEPT !.at = "acquiring", !.now = time] \in Proc
        /\ [p EXCEPT !.at = "acquiring", !.now = time].now = time
    BY <2>3 DEF Proc, Lives
  <2>2. Becomes(o, s) /\ UNCHANGED <<time, lease>> BY <1>4 DEF ReadClock
  <2>5. s \in Proc /\ s.now <= time BY <2>1, <2>3 DEF p
  <2> HIDE DEF s
  <2>6. QED BY <2>2, <2>4, <2>5, ProcessMoves
<1>5. ASSUME NEW o \in Owners, AcquireRuntimeInstance(o) PROVE LeaseInv'
  <2> DEFINE taken == [process[o] EXCEPT !.at = "serving", !.now = 0, !.renews = TRUE]
             refused == [process[o] EXCEPT !.at = "ended", !.now = 0]
  <2>1. CASE /\ lease' = [owner |-> o, renewedAt |-> process[o].now]
             /\ Becomes(o, taken)
    <3>1. taken \in Proc /\ taken.now <= time /\ taken.at = "serving"
      <4> DEFINE p == process[o]
      <4>1. p \in Proc /\ time \in Nat BY <1>0
      <4> HIDE DEF p
      <4>2. /\ [p EXCEPT !.at = "serving", !.now = 0, !.renews = TRUE] \in Proc
            /\ [p EXCEPT !.at = "serving", !.now = 0, !.renews = TRUE].now = 0
            /\ [p EXCEPT !.at = "serving", !.now = 0, !.renews = TRUE].at = "serving"
        BY <4>1 DEF Proc, Lives
      <4>3. QED BY <4>1, <4>2 DEF p
    <3> HIDE DEF taken
    <3>2. /\ process'[o] = taken
          /\ \A p \in Owners \ {o} : process'[p] = process[p]
          /\ process' \in [Owners -> Proc]
      BY <2>1, <3>1 DEF LeaseInv, LeaseTypeOK, Becomes
    <3>3. time' = time BY <1>5 DEF AcquireRuntimeInstance
    <3>4. process[o].now \in Nat /\ process[o].now <= time
      BY <1>0 DEF Proc
    <3>5. /\ lease' \in [owner : Owners \cup {NoOwner}, renewedAt : Nat]
          /\ lease'.owner = o /\ lease'.renewedAt <= time
      BY <2>1, <3>4
    <3>6. LeaseTypeOK' BY <1>0, <3>2, <3>3, <3>5 DEF LeaseTypeOK
    <3>7. ClockReadingsPast'
      BY <1>0, <3>1, <3>2, <3>3 DEF ClockReadingsPast
    <3>8. HolderTookLease'
      BY <3>1, <3>2, <3>3, <3>5 DEF HolderTookLease
    <3>9. QED BY <3>3, <3>5, <3>6, <3>7, <3>8 DEF LeaseInv
  <2>2. CASE UNCHANGED lease /\ Becomes(o, refused)
    <3>1. refused \in Proc /\ refused.now <= time /\ refused.at = "ended"
      <4> DEFINE p == process[o]
      <4>1. p \in Proc /\ time \in Nat BY <1>0
      <4> HIDE DEF p
      <4>2. /\ [p EXCEPT !.at = "ended", !.now = 0] \in Proc
            /\ [p EXCEPT !.at = "ended", !.now = 0].now = 0
            /\ [p EXCEPT !.at = "ended", !.now = 0].at = "ended"
        BY <4>1 DEF Proc, Lives
      <4>3. QED BY <4>1, <4>2 DEF p
    <3>2. time' = time BY <1>5 DEF AcquireRuntimeInstance
    <3> HIDE DEF refused
    <3>3. QED BY <2>2, <3>1, <3>2, ProcessMoves
  <2>3. QED BY <1>5, <2>1, <2>2 DEF AcquireRuntimeInstance
<1>6. ASSUME NEW o \in Owners, RenewRuntimeInstance(o) PROVE LeaseInv'
  <2> DEFINE s == [process[o] EXCEPT !.renews = FALSE]
  <2>1. CASE Renewed(o) /\ UNCHANGED process
    <3>1. time' = time BY <1>6 DEF RenewRuntimeInstance
    <3>2. lease' \in [owner : Owners \cup {NoOwner}, renewedAt : Nat]
          /\ lease'.owner = lease.owner /\ lease'.renewedAt = time
      BY <1>0, <2>1 DEF Renewed, LeaseInv, LeaseTypeOK
    <3>3. QED
      BY <1>0, <2>1, <3>1, <3>2
      DEF LeaseInv, LeaseTypeOK, ClockReadingsPast, HolderTookLease
  <2>2. CASE UNCHANGED lease /\ Becomes(o, s)
    <3>1. /\ s \in Proc
          /\ s.now <= time /\ s.at = "serving"
      BY <1>0, <1>6 DEF RenewRuntimeInstance, Proc
    <3>2. time' = time BY <1>6 DEF RenewRuntimeInstance
    <3> HIDE DEF s
    <3>3. QED BY <2>2, <3>1, <3>2, ProcessMoves
  <2>3. QED BY <1>6, <2>1, <2>2 DEF RenewRuntimeInstance
<1>7. ASSUME NEW o \in Owners, Shutdown(o) PROVE LeaseInv'
  <2> DEFINE s == [process[o] EXCEPT !.at = "closing", !.renews = FALSE]
  <2>1. /\ s \in Proc /\ s.now <= time
        /\ s.at = "closing"
    BY <1>0 DEF Lives, Proc
  <2>2. Becomes(o, s) /\ UNCHANGED <<time, lease>> BY <1>7 DEF Shutdown
  <2> HIDE DEF s
  <2>3. QED BY <2>1, <2>2, ProcessMoves
<1>8. ASSUME NEW o \in Owners, ReleaseRuntimeInstance(o) PROVE LeaseInv'
  <2> DEFINE s == [process[o] EXCEPT !.at = "ended"]
  <2>1. /\ s \in Proc /\ s.now <= time
        /\ s.at = "ended"
    BY <1>0 DEF Lives, Proc
  <2>2. Becomes(o, s) /\ time' = time BY <1>8 DEF ReleaseRuntimeInstance
  <2> HIDE DEF s
  <2>3. CASE lease' = lease BY <2>1, <2>2, <2>3, ProcessMoves
  <2>4. CASE lease' = NoLease
    <3>1. /\ process'[o] = s
          /\ \A p \in Owners \ {o} : process'[p] = process[p]
          /\ process' \in [Owners -> Proc]
      BY <2>1, <2>2 DEF LeaseInv, LeaseTypeOK, Becomes
    <3>2. QED
      BY <1>0, <2>1, <2>2, <2>4, <3>1
      DEF LeaseInv, LeaseTypeOK, ClockReadingsPast, HolderTookLease, NoLease
  <2>5. QED BY <1>8, <2>3, <2>4 DEF ReleaseRuntimeInstance
<1>9. ASSUME NEW o \in Owners, Crash(o) PROVE LeaseInv'
  <2> DEFINE s == [at |-> "ended", now |-> 0, renews |-> FALSE]
  <2>1. /\ s \in Proc /\ s.now <= time
        /\ s.at = "ended"
    BY <1>0 DEF Lives, Proc
  <2>2. Becomes(o, s) /\ UNCHANGED <<time, lease>> BY <1>9 DEF Crash
  <2> HIDE DEF s
  <2>3. QED BY <2>1, <2>2, ProcessMoves
<1>10. CASE UNCHANGED leaseVars
  BY <1>10 DEF leaseVars, LeaseInv, LeaseTypeOK, ClockReadingsPast,
     HolderTookLease
<1>11. QED
  BY <1>1, <1>2, <1>3, <1>4, <1>5, <1>6, <1>7, <1>8, <1>9, <1>10 DEF LeaseNext

(* Types of the runtime lease and what every process knows of it, for any  *)
(* set of processes and any life time of the lease.                        *)
THEOREM LeaseInductive == LeaseSpec => []LeaseInv
BY LeaseInitInv, LeaseInvStep, PTL DEF LeaseSpec

(* The row names a process that took the lease and did not give it back.   *)
THEOREM HolderTook == LeaseSpec => []HolderTookLease
<1>1. LeaseInv => HolderTookLease BY DEF LeaseInv
<1>2. QED BY <1>1, LeaseInductive, PTL

(* The lease leaves a process that serves only after a silence longer than *)
(* TTL, however late the newcomer's reading of the clock is.               *)
THEOREM TakenWhenSilent == LeaseSpec => TakenOnlyWhenSilent
<1>1. ASSUME LeaseInv, [LeaseNext]_leaseVars, NEW o \in Owners,
             lease.owner = o, lease'.owner # o
      PROVE  \/ process[o].at \in {"closing", "ended"}
             \/ time - lease.renewedAt > TTL
  <2>1. /\ time \in Nat /\ lease.renewedAt \in Nat /\ TTL \in Nat
        /\ \A p \in Owners : process[p].now \in Nat /\ process[p].now <= time
    BY <1>1, LeaseAssumption DEF LeaseInv, LeaseTypeOK, ClockReadingsPast, Proc
  <2>2. lease' # lease BY <1>1
  <2>3. o # NoOwner BY LeaseAssumption
  <2>4. \E p \in Owners :
           AcquireRuntimeInstance(p) \/ RenewRuntimeInstance(p)
           \/ ReleaseRuntimeInstance(p)
    BY <1>1, <2>2 DEF LeaseNext, leaseVars, TimePasses, Start, SyncSchedules,
       ReadClock, Shutdown, Crash
  <2>5. ASSUME NEW p \in Owners, AcquireRuntimeInstance(p)
        PROVE  time - lease.renewedAt > TTL
    BY <1>1, <2>1, <2>2, <2>3, <2>5 DEF AcquireRuntimeInstance, Free
  <2>6. ASSUME NEW p \in Owners, RenewRuntimeInstance(p) PROVE FALSE
    BY <1>1, <2>6 DEF RenewRuntimeInstance, Renewed, LeaseInv, LeaseTypeOK
  <2>7. ASSUME NEW p \in Owners, ReleaseRuntimeInstance(p)
        PROVE  process[o].at = "closing"
    BY <1>1, <2>2, <2>7 DEF ReleaseRuntimeInstance
  <2>8. QED BY <2>4, <2>5, <2>6, <2>7
<1>2. LeaseInv /\ [LeaseNext]_leaseVars =>
        [\A o \in Owners :
           (lease.owner = o /\ lease'.owner # o)
             => \/ process[o].at \in {"closing", "ended"}
                \/ time - lease.renewedAt > TTL]_leaseVars
  BY <1>1
<1>3. QED BY <1>2, LeaseInductive, PTL DEF LeaseSpec, TakenOnlyWhenSilent

-----------------------------------------------------------------------------
(* Forms: nothing that opens the gate exists before the platform took the  *)
(* form, unless a page without it was taken for a confirmation.            *)
FormsTypeOK ==
    /\ fm.pc # "idle" => fm.k \in Vias
    /\ DOMAIN completed = Vias
    /\ form \in {"open", "accepted"}

FormTaken == form = "accepted" \/ odd

NothingFollows ==
    /\ fm.pc \notin {"complete", "retry"}
    /\ \A k \in Vias : completed[k] = "none"
    /\ attempts = 0
    /\ application # "through"

FormsInv == FormsTypeOK /\ (FormTaken \/ NothingFollows)

LEMMA FormsInitInv == FormsInit => FormsInv
BY DEF FormsInit, FormsInv, FormsTypeOK, NothingFollows, NoFM

LEMMA EndsForm == ASSUME NEW status, EndForm(status) PROVE fm'.pc = "idle"
BY DEF EndForm, NoFM

(* The handler goes on without a record.                                   *)
LEMMA FormHandled ==
    ASSUME FormsInv, UNCHANGED <<completed, attempts, application>>,
           form' \in {form, "accepted"}, odd => odd',
           fm'.pc # "idle" => fm'.k \in Vias,
           fm'.pc \in {"complete", "retry"} =>
              FormTaken' \/ fm.pc \in {"complete", "retry"}
    PROVE  FormsInv'
<1>1. FormsTypeOK' BY DEF FormsInv, FormsTypeOK
<1>2. FormTaken => FormTaken' BY DEF FormTaken, FormsInv, FormsTypeOK
<1>3. NothingFollows => FormTaken' \/ NothingFollows'
  BY DEF NothingFollows
<1>4. QED BY <1>1, <1>2, <1>3 DEF FormsInv

LEMMA FormHandlerStep ==
    ASSUME FormsInv,
           \/ \E k \in Vias : EnqueueForm(k) \/ BeginForm(k)
           \/ ReadForm \/ SubmitVacancyTest \/ ConfirmForm \/ StopForm
    PROVE  FormsInv'
<1>1. ASSUME NEW k \in Vias, EnqueueForm(k) PROVE FormsInv'
  BY <1>1, FormHandled DEF EnqueueForm, FormsInv, FormsTypeOK
<1>2. ASSUME NEW k \in Vias, BeginForm(k) PROVE FormsInv'
  BY <1>2, FormHandled DEF BeginForm
<1>3. CASE ReadForm
  <2>1. UNCHANGED <<form, completed, attempts, application, odd>>
    BY <1>3 DEF ReadForm
  <2>2. CASE fm' = [fm EXCEPT !.pc = "post"]
    <3>1. fm'.pc = fm'.pc /\ fm'.k = fm.k /\ fm.k \in Vias
      BY <1>3, <2>2 DEF ReadForm, FormsInv, FormsTypeOK
    <3>2. fm'.pc \notin {"complete", "retry"} BY <1>3, <2>2 DEF ReadForm
    <3>3. QED BY <2>1, <3>1, <3>2, FormHandled
  <2>3. CASE \E status \in {"new", "failed"} : EndForm(status)
    BY <2>1, <2>3, EndsForm, FormHandled
  <2>4. QED BY <1>3, <2>2, <2>3 DEF ReadForm
<1>4. CASE SubmitVacancyTest
  <2>1. PICK accepted \in BOOLEAN, answer \in {"2xx", "worker", "error"} :
          /\ form' = IF accepted THEN "accepted" ELSE form
          /\ CASE answer = "2xx" -> fm' = [fm EXCEPT !.pc = "confirm"] /\ UNCHANGED forms
               [] submitVacancyTestThroughWorker(answer, accepted) ->
                    fm' = [fm EXCEPT !.pc = "complete"] /\ UNCHANGED forms
               [] OTHER -> \E status \in {"new", "failed"} : EndForm(status)
    BY <1>4 DEF SubmitVacancyTest
  <2>2. /\ UNCHANGED <<completed, attempts, application, odd>>
        /\ fm.pc = "post" /\ fm.k \in Vias /\ form' \in {form, "accepted"}
    BY <1>4, <2>1 DEF SubmitVacancyTest, FormsInv, FormsTypeOK
  <2>3. CASE fm' = [fm EXCEPT !.pc = "confirm"]
    <3>1. fm'.k = fm.k /\ fm'.pc \notin {"complete", "retry"} BY <2>2, <2>3
    <3>2. QED BY <2>2, <3>1, FormHandled
  <2>4. CASE accepted /\ fm' = [fm EXCEPT !.pc = "complete"]
    <3>1. fm'.k = fm.k /\ FormTaken' BY <2>1, <2>4 DEF FormTaken
    <3>2. QED BY <2>2, <3>1, FormHandled
  <2>5. CASE \E status \in {"new", "failed"} : EndForm(status)
    BY <2>2, <2>5, EndsForm, FormHandled
  <2>6. QED BY <2>1, <2>3, <2>4, <2>5 DEF submitVacancyTestThroughWorker
<1>5. CASE ConfirmForm
  <2>1. /\ UNCHANGED <<form, completed, attempts, application>>
        /\ fm.pc = "confirm" /\ fm.k \in Vias
    BY <1>5 DEF ConfirmForm, FormsInv, FormsTypeOK
  <2>2. CASE fm' = [fm EXCEPT !.pc = "complete"] /\ FormTaken' /\ (odd => odd')
    <3>1. fm'.k = fm.k BY <2>2
    <3>2. QED BY <2>1, <2>2, <3>1, FormHandled
  <2>3. CASE (\E status \in {"new", "failed"} : EndForm(status)) /\ odd' = odd
    BY <2>1, <2>3, EndsForm, FormHandled
  <2>4. QED
    BY <1>5, <2>1, <2>2, <2>3
    DEF ConfirmForm, confirmVacancyTestSubmission, FormTaken
<1>6. CASE StopForm
  <2>1. EndForm("new") /\ UNCHANGED <<form, completed, attempts, application, odd>>
    BY <1>6 DEF StopForm
  <2>2. QED BY <2>1, EndsForm, FormHandled
<1>7. QED BY <1>1, <1>2, <1>3, <1>4, <1>5, <1>6

LEMMA FormRecordStep ==
    ASSUME FormsInv,
           \/ EnqueueComplete \/ EnqueueRetry \/ applicationPlatformPreflight
           \/ RetryParked \/ \E k \in Vias : RecordAttempt(k)
    PROVE  FormsInv'
<1>1. UNCHANGED <<form, odd>>
  BY DEF EnqueueComplete, EnqueueRetry, applicationPlatformPreflight, RetryParked,
         RecordAttempt
<1>2. CASE EnqueueComplete
  <2>1. FormTaken BY <1>2 DEF EnqueueComplete, FormsInv, NothingFollows
  <2>2. /\ fm'.k = fm.k /\ fm.pc # "idle" /\ DOMAIN completed' = DOMAIN completed
    BY <1>2 DEF EnqueueComplete
  <2>3. QED BY <1>1, <2>1, <2>2 DEF FormsInv, FormsTypeOK, FormTaken
<1>3. CASE EnqueueRetry
  <2>1. FormTaken BY <1>3 DEF EnqueueRetry, FormsInv, NothingFollows
  <2>2. fm'.pc = "idle" /\ completed' = completed
    BY <1>3, EndsForm DEF EnqueueRetry
  <2>3. QED BY <1>1, <2>1, <2>2 DEF FormsInv, FormsTypeOK, FormTaken
<1>4. ASSUME NEW k \in Vias, RecordAttempt(k) PROVE FormsInv'
  <2>1. FormTaken BY <1>4 DEF RecordAttempt, FormsInv, NothingFollows
  <2>2. DOMAIN completed' = DOMAIN completed /\ fm' = fm BY <1>4 DEF RecordAttempt
  <2>3. QED BY <1>1, <2>1, <2>2 DEF FormsInv, FormsTypeOK, FormTaken
<1>5. CASE applicationPlatformPreflight \/ RetryParked
  BY <1>1, <1>5 DEF applicationPlatformPreflight, RetryParked, FormsInv,
     FormsTypeOK, FormTaken, NothingFollows
<1>6. QED BY <1>2, <1>3, <1>4, <1>5

(* The gate opens only on a form the platform took, however many tasks for *)
(* it there are and however often one is run again.                        *)
THEOREM GateOpens == FormsSpec => []GateOpensOnAccepted
<1>1. FormsInv /\ [FormsNext]_formsVars => FormsInv'
  <2>1. CASE UNCHANGED formsVars
    BY <2>1 DEF formsVars, FormsInv, FormsTypeOK, FormTaken, NothingFollows
  <2>2. CASE FormsNext BY <2>2, FormHandlerStep, FormRecordStep DEF FormsNext
  <2>3. QED BY <2>1, <2>2
<1>2. FormsInv => GateOpensOnAccepted
  BY DEF FormsInv, FormTaken, NothingFollows, GateOpensOnAccepted
<1>3. QED BY <1>1, <1>2, FormsInitInv, PTL DEF FormsSpec

-----------------------------------------------------------------------------
(* Activity: what a run may still open, it has not seen, and a card whose  *)
(* record is in the window it has seen or recorded itself.                 *)
UpkeepTypeOK ==
    /\ day \in Nat /\ fresh \subseteq Cards
    /\ records \in [Cards -> Int]
    /\ upkeep \in [at : {"idle", "searching", "opening", "recording"},
                   seen : SUBSET Cards, page : Nat,
                   targets : Seq(Cards)]

UpkeepInv ==
    /\ UpkeepTypeOK
    /\ upkeep.targets \in Seq(Cards \ upkeep.seen)
    /\ upkeep.at = "recording" => upkeep.targets # <<>>
    /\ upkeep.at # "idle" => \A c \in Cards : Seen(c) => c \in upkeep.seen \cup fresh

LEMMA NoTargets == NoUpkeep \in [at : {"idle", "searching", "opening", "recording"},
                                 seen : SUBSET Cards, page : Nat, targets : Seq(Cards)]
BY DEF NoUpkeep

LEMMA ActivityInitInv == ActivityInit => UpkeepInv
<1> SUFFICES ASSUME ActivityInit PROVE UpkeepInv
  OBVIOUS
<1>1. UpkeepTypeOK BY NoTargets DEF ActivityInit, UpkeepTypeOK, Never
<1>2. upkeep.targets = <<>> /\ upkeep.at = "idle"
  BY DEF ActivityInit, NoUpkeep
<1>3. QED BY <1>1, <1>2 DEF UpkeepInv

(* What is picked from a page of unseen cards is unseen.                   *)
LEMMA TargetsUnseen ==
    ASSUME NEW S, upkeep.targets \in Seq(S), NEW page \in Seq(S)
    PROVE  Targets(page) \in Seq(S)
<1> DEFINE all == upkeep.targets \o page
           n == IF Len(all) < ViewCount THEN Len(all) ELSE ViewCount
<1>1. all \in Seq(S) BY ConcatProperties
<1> HIDE DEF all
<1>2. n \in Nat /\ n <= Len(all) /\ Len(all) \in Nat
  BY <1>1, ActivityAssumption, LenProperties
<1>3. \A i \in 1 .. n : all[i] \in S BY <1>1, <1>2, ElementOfSeq
<1>4. SubSeq(all, 1, n) \in Seq(S) BY <1>2, <1>3, SubSeqProperties
<1>5. QED BY <1>4 DEF Targets, all

LEMMA PagesUnseen ==
    ASSUME NEW page \in UnseenPages PROVE page \in Seq(Cards \ upkeep.seen)
<1> DEFINE unseen == Cards \ upkeep.seen
<1>1. \/ page = <<>>
      \/ \E c \in unseen : page = <<c>>
      \/ page \in unseen \X unseen
  BY DEF UnseenPages
<1> HIDE DEF unseen
<1>2. CASE page = <<>> BY <1>2, EmptySeq DEF unseen
<1>3. ASSUME NEW c \in unseen, page = <<c>> PROVE page \in Seq(unseen)
  BY <1>3
<1>4. ASSUME page \in unseen \X unseen PROVE page \in Seq(unseen)
  <2>1. PICK c \in unseen, d \in unseen : page = <<c, d>> BY <1>4
  <2>2. <<c, d>> \in Seq(unseen) OBVIOUS
  <2>3. QED BY <2>1, <2>2
<1>5. QED BY <1>1, <1>2, <1>3, <1>4 DEF unseen

(* The run moves on; nothing is recorded.                                  *)
LEMMA UpkeepMoves ==
    ASSUME UpkeepInv,
           NEW at \in {"searching", "opening", "recording"}, NEW page \in Nat,
           NEW targets \in Seq(Cards \ upkeep.seen),
           upkeep.at # "idle", at = "recording" => targets # <<>>,
           upkeep' = [upkeep EXCEPT !.at = at, !.page = page, !.targets = targets],
           UNCHANGED <<day, records, fresh>>
    PROVE  UpkeepInv'
<1>1. targets \in Seq(Cards) BY SeqMonotonic
<1> DEFINE u == upkeep
<1>2. u \in [at : {"idle", "searching", "opening", "recording"},
             seen : SUBSET Cards, page : Nat, targets : Seq(Cards)]
  BY DEF UpkeepInv, UpkeepTypeOK
<1> HIDE DEF u
<1>3. LET w == [u EXCEPT !.at = at, !.page = page, !.targets = targets]
      IN /\ w \in [at : {"idle", "searching", "opening", "recording"},
                   seen : SUBSET Cards, page : Nat, targets : Seq(Cards)]
         /\ w.at = at /\ w.targets = targets /\ w.seen = u.seen
  BY <1>1, <1>2
<1>4. /\ upkeep' \in [at : {"idle", "searching", "opening", "recording"},
                      seen : SUBSET Cards, page : Nat, targets : Seq(Cards)]
      /\ upkeep'.at = at /\ upkeep'.targets = targets /\ upkeep'.seen = upkeep.seen
  BY <1>3 DEF u
<1>5. UpkeepTypeOK' BY <1>4 DEF UpkeepInv, UpkeepTypeOK
<1>6. \A c \in Cards : Seen(c)' <=> Seen(c) BY DEF Seen, Recorded
<1>7. QED BY <1>4, <1>5, <1>6 DEF UpkeepInv

LEMMA SearchStep == ASSUME UpkeepInv, SearchPage PROVE UpkeepInv'
<1>1. PICK page \in UnseenPages, last \in BOOLEAN :
         upkeep' = [upkeep EXCEPT
             !.page = upkeep.page + 1, !.targets = Targets(page),
             !.at = IF last \/ upkeep.page + 1 = MaintainPages
                       \/ Len(Targets(page)) = ViewCount
                    THEN "opening" ELSE "searching"]
  BY DEF SearchPage
<1> DEFINE s == Cards \ upkeep.seen
           t == Targets(page)
           a == IF last \/ upkeep.page + 1 = MaintainPages
                   \/ Len(Targets(page)) = ViewCount
                THEN "opening" ELSE "searching"
<1>2. upkeep.targets \in Seq(s) /\ page \in Seq(s) BY PagesUnseen DEF UpkeepInv
<1>3. t \in Seq(s) BY <1>2, TargetsUnseen
<1>4. upkeep.page + 1 \in Nat BY DEF UpkeepInv, UpkeepTypeOK
<1>5. a \in {"searching", "opening", "recording"} /\ a # "recording" OBVIOUS
<1>6. /\ upkeep' = [upkeep EXCEPT !.at = a, !.page = upkeep.page + 1, !.targets = t]
      /\ UNCHANGED <<day, records, fresh>> /\ upkeep.at # "idle"
  BY <1>1 DEF SearchPage
<1> HIDE DEF a, t
<1>7. QED BY <1>3, <1>4, <1>5, <1>6, UpkeepMoves

LEMMA OpenStep == ASSUME UpkeepInv, OpenCard PROVE UpkeepInv'
<1>1. /\ upkeep.at = "opening" /\ upkeep.targets # <<>>
      /\ UNCHANGED <<day, records, fresh>>
      /\ \/ upkeep' = [upkeep EXCEPT !.at = "recording"]
         \/ upkeep' = [upkeep EXCEPT !.targets = Tail(upkeep.targets)]
  BY DEF OpenCard
<1>2. /\ upkeep.page \in Nat /\ upkeep.targets \in Seq(Cards \ upkeep.seen)
      /\ upkeep \in [at : {"idle", "searching", "opening", "recording"},
                     seen : SUBSET Cards, page : Nat, targets : Seq(Cards)]
  BY DEF UpkeepInv, UpkeepTypeOK
<1>3. CASE upkeep' = [upkeep EXCEPT !.at = "recording"]
  <2>1. upkeep' = [upkeep EXCEPT !.at = "recording", !.page = upkeep.page,
                                 !.targets = upkeep.targets]
    BY <1>2, <1>3
  <2>2. QED BY <1>1, <1>2, <2>1, UpkeepMoves
<1>4. CASE upkeep' = [upkeep EXCEPT !.targets = Tail(upkeep.targets)]
  <2>1. Tail(upkeep.targets) \in Seq(Cards \ upkeep.seen)
    BY <1>1, <1>2, HeadTailProperties
  <2>2. upkeep' = [upkeep EXCEPT !.at = "opening", !.page = upkeep.page,
                                 !.targets = Tail(upkeep.targets)]
    BY <1>1, <1>2, <1>4
  <2>3. QED BY <1>1, <1>2, <2>1, <2>2, UpkeepMoves
<1>5. QED BY <1>1, <1>3, <1>4

LEMMA RecordOpenedStep == ASSUME UpkeepInv, RecordOpened PROVE UpkeepInv'
<1> DEFINE c == Head(upkeep.targets)
           t == Tail(upkeep.targets)
           u == upkeep
<1>1. /\ u.at = "recording" /\ u.targets # <<>>
      /\ u.targets \in Seq(Cards \ u.seen) /\ u.targets \in Seq(Cards)
      /\ u \in [at : {"idle", "searching", "opening", "recording"},
                seen : SUBSET Cards, page : Nat, targets : Seq(Cards)]
  BY DEF RecordOpened, UpkeepInv, UpkeepTypeOK
<1>2. c \in Cards /\ t \in Seq(Cards \ u.seen) /\ t \in Seq(Cards)
  BY <1>1, HeadTailProperties
<1>3. /\ records' = [records EXCEPT ![c] = IF records[c] = Never THEN day
                                           ELSE records[c]]
      /\ fresh' = fresh \cup {c} /\ day' = day
      /\ upkeep' = [u EXCEPT !.at = "opening", !.targets = t]
  BY DEF RecordOpened, RecordProfileActivity
<1> HIDE DEF c, t, u
<1>4. /\ upkeep' \in [at : {"idle", "searching", "opening", "recording"},
                      seen : SUBSET Cards, page : Nat, targets : Seq(Cards)]
      /\ upkeep'.at = "opening" /\ upkeep'.targets = t /\ upkeep'.seen = u.seen
  BY <1>1, <1>2, <1>3
<1>5. records \in [Cards -> Int] /\ day \in Nat BY DEF UpkeepInv, UpkeepTypeOK
<1>6. /\ records' \in [Cards -> Int]
      /\ \A d \in Cards \ {c} : records'[d] = records[d]
  BY <1>2, <1>3, <1>5
<1>7. UpkeepTypeOK'
  BY <1>2, <1>3, <1>4, <1>5, <1>6 DEF UpkeepInv, UpkeepTypeOK
<1>8. \A d \in Cards : Seen(d)' => Seen(d) \/ d = c
  BY <1>3, <1>6 DEF Seen, Recorded
<1>9. \A d \in Cards : Seen(d) => d \in u.seen \cup fresh
  BY <1>1 DEF UpkeepInv, u
<1>10. \A d \in Cards : Seen(d)' => d \in upkeep'.seen \cup fresh'
  BY <1>3, <1>4, <1>8, <1>9
<1>11. QED BY <1>2, <1>4, <1>7, <1>10 DEF UpkeepInv

LEMMA ActivityStep == UpkeepInv /\ [ActivityNext]_activityVars => UpkeepInv'
<1> SUFFICES ASSUME UpkeepInv, [ActivityNext]_activityVars PROVE UpkeepInv'
  OBVIOUS
<1>1. CASE DayPasses
  <2>1. /\ day' = day + 1 /\ day \in Nat /\ records \in [Cards -> Int]
        /\ InspectedWindow \in Nat /\ UNCHANGED <<records, upkeep, fresh>>
    BY <1>1, ActivityAssumption DEF DayPasses, UpkeepInv, UpkeepTypeOK
  <2>2. \A c \in Cards : Seen(c)' => Seen(c) BY <2>1 DEF Seen, Recorded
  <2>3. UpkeepTypeOK' BY <2>1 DEF UpkeepInv, UpkeepTypeOK
  <2>4. QED BY <2>1, <2>2, <2>3 DEF UpkeepInv
<1>2. CASE StartUpkeep
  <2> DEFINE seen == {c \in Cards : Seen(c)}
  <2>1. /\ upkeep' = [NoUpkeep EXCEPT !.at = "searching", !.seen = seen]
        /\ UNCHANGED <<day, records, fresh>>
    BY <1>2 DEF StartUpkeep
  <2>2. upkeep' = [at |-> "searching", seen |-> seen, page |-> 0, targets |-> <<>>]
    BY <2>1 DEF NoUpkeep
  <2>3. seen \in SUBSET Cards OBVIOUS
  <2>4. \A c \in Cards : Seen(c)' => c \in seen BY <2>1 DEF Seen, Recorded
  <2> HIDE DEF seen
  <2>5. UpkeepTypeOK' BY <2>1, <2>2, <2>3, NoTargets DEF UpkeepInv, UpkeepTypeOK
  <2>6. QED BY <2>2, <2>4, <2>5 DEF UpkeepInv
<1>3. CASE EndUpkeep
  <2>1. upkeep' = NoUpkeep /\ fresh' = {} /\ UNCHANGED <<day, records>>
    BY <1>3 DEF EndUpkeep
  <2>2. UpkeepTypeOK' BY <2>1, NoTargets DEF UpkeepInv, UpkeepTypeOK
  <2>3. QED BY <2>1, <2>2 DEF UpkeepInv, NoUpkeep
<1>4. ASSUME UNCHANGED <<day, records, upkeep, fresh>> PROVE UpkeepInv'
  <2>1. \A c \in Cards : Seen(c)' <=> Seen(c) BY <1>4 DEF Seen, Recorded
  <2>2. QED BY <1>4, <2>1 DEF UpkeepInv, UpkeepTypeOK
<1>5. QED
  BY <1>1, <1>2, <1>3, <1>4, SearchStep, OpenStep, RecordOpenedStep
  DEF ActivityNext, ObserveActivity, activityVars

(* A card is left alone for the window after its first recorded opening,   *)
(* for any number of cards, any window and any length of a run.            *)
THEOREM RestsAfter == ActivitySpec => RestsAfterFirst
<1>1. ASSUME UpkeepInv, ActivityNext, NEW c \in Cards, Opens(c) PROVE ~Seen(c)
  <2>1. /\ upkeep.at = "opening" /\ upkeep.targets # <<>> /\ c = Head(upkeep.targets)
        /\ c \notin fresh
    BY <1>1 DEF Opens, ActivityNext, DayPasses, ObserveActivity, StartUpkeep,
       SearchPage, OpenCard, RecordOpened, EndUpkeep, NoUpkeep
  <2>2. c \in Cards \ upkeep.seen BY <2>1, <1>1, HeadTailProperties DEF UpkeepInv
  <2>3. QED BY <1>1, <2>1, <2>2 DEF UpkeepInv
<1>2. UpkeepInv /\ [ActivityNext]_activityVars =>
        [\A c \in Cards : Opens(c) => ~Seen(c)]_activityVars
  BY <1>1
<1>3. QED
  BY <1>2, ActivityInitInv, ActivityStep, PTL DEF ActivitySpec, RestsAfterFirst

-----------------------------------------------------------------------------
(* The recovery after a sign-in: when no refused task was in flight at the *)
(* sign-in and the session was not lost again, the hook meets everything   *)
(* the lost session left behind.                                           *)
Statuses == {"absent", "new", "completed", "other", "refused", "guarded", "failed"}
Reasons == {"none", "auth", "operator"}
Steps == {"idle", "begun", "resuming", "listing", "retrying", "done"}
Recoveries == [at : Steps, jobs : SUBSET GuardedJobs, retry : SUBSET Tasks,
               missed : SUBSET Tasks, clean : BOOLEAN]

Once(s) == \A i, j \in DOMAIN s : s[i] = s[j] => i = j

RecoveryTypeOK ==
    /\ session \in BOOLEAN
    /\ tasks \in [Tasks -> Statuses]
    /\ failures \in Seq(Tasks)
    /\ pauses \in [GuardedJobs -> Reasons]
    /\ recovery \in Recoveries

(* The failed tasks stand in the order of their failure, each once.        *)
FailuresFit ==
    /\ Once(failures)
    /\ ToSet(failures) = {t \in Tasks : tasks[t] = "failed"}

(* A clean recovery is one of a session that still holds.                  *)
CleanHolds ==
    recovery.clean => session /\ \A t \in Tasks : tasks[t] \notin InFlight

(* What is still to be resumed is on the list of the recovery, then none.  *)
PausesListed ==
    recovery.clean /\ recovery.at \in {"resuming", "listing", "retrying", "done"} =>
        \A j \in GuardedJobs :
            pauses[j] = "auth" => recovery.at = "resuming" /\ j \in recovery.jobs

(* And so are the failures, when one list holds them all, until the retry  *)
(* of one ended with an error.                                             *)
FailuresListed ==
    /\ recovery.clean /\ Cardinality(Tasks) <= RecoveryLimit
    /\ recovery.at \in {"retrying", "done"}
    => \A t \in Tasks \ recovery.missed :
          tasks[t] = "failed" => recovery.at = "retrying" /\ t \in recovery.retry

RecoveryInv ==
    RecoveryTypeOK /\ FailuresFit /\ CleanHolds /\ PausesListed /\ FailuresListed

-----------------------------------------------------------------------------
(* Removing the only place of a task.                                      *)
LEMMA Removing ==
    ASSUME NEW s \in Seq(Tasks), Once(s), NEW i \in DOMAIN s
    PROVE  /\ RemoveAt(s, i) \in Seq(Tasks)
           /\ Once(RemoveAt(s, i))
           /\ ToSet(RemoveAt(s, i)) = ToSet(s) \ {s[i]}
<1> DEFINE n == Len(s)
           a == SubSeq(s, 1, i - 1)
           b == SubSeq(s, i + 1, n)
           r == a \o b
<1>1. n \in Nat /\ DOMAIN s = 1 .. n /\ i \in 1 .. n /\ \A k \in 1 .. n : s[k] \in Tasks
  BY LenProperties, ElementOfSeq
<1>2. RemoveAt(s, i) = r BY DEF RemoveAt
<1> HIDE DEF n
<1>3. /\ a \in Seq(Tasks) /\ Len(a) = i - 1
      /\ \A k \in 1 .. (i - 1) : a[k] = s[k]
  <2>1. \A k \in 1 .. (i - 1) : s[k] \in Tasks BY <1>1
  <2>2. i - 1 \in Int /\ 1 \in Int /\ (i - 1) - 1 + 1 = i - 1
        /\ \A k \in 1 .. (i - 1) : 1 + k - 1 = k
    BY <1>1
  <2>3. /\ a \in Seq(Tasks) /\ Len(a) = IF 1 <= i - 1 THEN (i - 1) - 1 + 1 ELSE 0
        /\ \A k \in 1 .. ((i - 1) - 1 + 1) : a[k] = s[1 + k - 1]
    BY <2>1, <2>2, SubSeqProperties
  <2> HIDE DEF a
  <2>4. QED BY <1>1, <2>2, <2>3
<1>4. /\ b \in Seq(Tasks) /\ Len(b) = n - i
      /\ \A k \in 1 .. (n - i) : b[k] = s[k + i]
  <2>1. \A k \in (i + 1) .. n : s[k] \in Tasks BY <1>1
  <2>2. i + 1 \in Int /\ n \in Int /\ n - (i + 1) + 1 = n - i
        /\ \A k \in 1 .. (n - i) : (i + 1) + k - 1 = k + i
    BY <1>1
  <2>3. /\ b \in Seq(Tasks) /\ Len(b) = IF i + 1 <= n THEN n - (i + 1) + 1 ELSE 0
        /\ \A k \in 1 .. (n - (i + 1) + 1) : b[k] = s[(i + 1) + k - 1]
    BY <2>1, <2>2, SubSeqProperties
  <2> HIDE DEF b
  <2>4. QED BY <1>1, <2>2, <2>3
<1> HIDE DEF a, b
<1>5. /\ r \in Seq(Tasks) /\ Len(r) = (i - 1) + (n - i)
      /\ \A k \in 1 .. (i - 1) + (n - i) :
            r[k] = IF k <= i - 1 THEN a[k] ELSE b[k - (i - 1)]
  <2>1. /\ r \in Seq(Tasks) /\ Len(r) = Len(a) + Len(b)
        /\ \A k \in 1 .. Len(a) + Len(b) :
              r[k] = IF k <= Len(a) THEN a[k] ELSE b[k - Len(a)]
    BY <1>3, <1>4, ConcatProperties
  <2> HIDE DEF r
  <2>2. QED BY <1>3, <1>4, <2>1
<1> HIDE DEF r
<1>6. r \in Seq(Tasks) /\ DOMAIN r = 1 .. (n - 1)
  <2>1. (i - 1) + (n - i) = n - 1 BY <1>1
  <2>2. QED BY <1>5, <2>1, LenProperties
<1>7. \A k \in 1 .. (n - 1) : r[k] = IF k < i THEN s[k] ELSE s[k + 1]
  <2> SUFFICES ASSUME NEW k \in 1 .. (n - 1)
               PROVE  r[k] = IF k < i THEN s[k] ELSE s[k + 1]
    OBVIOUS
  <2>1. k \in 1 .. (i - 1) + (n - i) BY <1>1
  <2>2. CASE k < i
    <3>1. k \in 1 .. (i - 1) /\ k <= i - 1 BY <1>1, <2>2
    <3>2. QED BY <1>3, <1>5, <2>1, <2>2, <3>1
  <2>3. CASE ~(k < i)
    <3>1. /\ k - (i - 1) \in 1 .. (n - i) /\ ~(k <= i - 1)
          /\ k - (i - 1) + i = k + 1
      BY <1>1, <2>3
    <3>2. QED BY <1>4, <1>5, <2>1, <2>3, <3>1
  <2>4. QED BY <2>2, <2>3
<1> DEFINE at(k) == IF k < i THEN k ELSE k + 1
<1>8. \A k \in 1 .. (n - 1) : /\ at(k) \in 1 .. n /\ at(k) # i
                             /\ r[k] = s[at(k)]
  BY <1>1, <1>7
<1>9. \A k, l \in 1 .. (n - 1) : at(k) = at(l) => k = l BY <1>1
<1>10. \A k \in 1 .. n : k # i => \E l \in 1 .. (n - 1) : at(l) = k
  <2> SUFFICES ASSUME NEW k \in 1 .. n, k # i
               PROVE  \E l \in 1 .. (n - 1) : at(l) = k
    OBVIOUS
  <2>1. CASE k < i BY <1>1, <2>1
  <2>2. CASE k > i
    <3>1. k - 1 \in 1 .. (n - 1) /\ at(k - 1) = k BY <1>1, <2>2
    <3>2. QED BY <3>1
  <2>3. QED BY <1>1, <2>1, <2>2
<1> HIDE DEF at
<1>11. Once(r) BY <1>1, <1>6, <1>8, <1>9 DEF Once
<1>12. ToSet(r) = ToSet(s) \ {s[i]}
  <2>1. ASSUME NEW x \in ToSet(r) PROVE x \in ToSet(s) \ {s[i]}
    <3>1. PICK k \in 1 .. (n - 1) : x = r[k] BY <1>6 DEF ToSet
    <3>2. x = s[at(k)] /\ at(k) \in 1 .. n /\ at(k) # i BY <1>8, <3>1
    <3>3. QED BY <1>1, <3>2 DEF Once, ToSet
  <2>2. ASSUME NEW x \in ToSet(s) \ {s[i]} PROVE x \in ToSet(r)
    <3>1. PICK k \in 1 .. n : x = s[k] /\ k # i BY <1>1, <2>2 DEF ToSet
    <3>2. PICK l \in 1 .. (n - 1) : at(l) = k BY <1>10, <3>1
    <3>3. QED BY <1>6, <1>8, <3>1, <3>2 DEF ToSet
  <2>3. QED BY <2>1, <2>2
<1>13. QED BY <1>2, <1>6, <1>11, <1>12

(* There are no more failures than tasks.                                  *)
LEMMA FailuresBounded ==
    ASSUME NEW s \in Seq(Tasks), Once(s)
    PROVE  Len(s) <= Cardinality(Tasks)
<1>1. Len(s) \in Nat /\ DOMAIN s = 1 .. Len(s) /\ s \in [1 .. Len(s) -> Tasks]
  OBVIOUS
<1>2. s \in Injection(1 .. Len(s), Tasks)
  BY <1>1 DEF Once, Injection, IsInjective
<1>3. Cardinality(1 .. Len(s)) = Len(s) BY <1>1, FS_Interval
<1>4. QED BY <1>2, <1>3, FS_Injection, RecoveryAssumption

(* The list of a recovery holds every failure when its limit allows.       *)
LEMMA AllListed ==
    ASSUME failures \in Seq(Tasks), Once(failures),
           Cardinality(Tasks) <= RecoveryLimit
    PROVE  FailedAuthTasks = ToSet(failures)
<1>1. Len(failures) \in Nat /\ Len(failures) <= Cardinality(Tasks)
  BY FailuresBounded, LenProperties
<1>2. Cardinality(Tasks) \in Nat /\ RecoveryLimit \in Nat
  BY FS_CardinalityType, RecoveryAssumption
<1>3. (IF Len(failures) < RecoveryLimit THEN Len(failures) ELSE RecoveryLimit)
        = Len(failures)
  BY <1>1, <1>2
<1>4. SubSeq(failures, 1, Len(failures)) = failures BY SubSeqFull
<1>5. QED BY <1>3, <1>4 DEF FailedAuthTasks

(* A list of failures is a list of tasks.                                  *)
LEMMA ListedTasks ==
    ASSUME failures \in Seq(Tasks) PROVE FailedAuthTasks \subseteq Tasks
<1> DEFINE n == IF Len(failures) < RecoveryLimit THEN Len(failures) ELSE RecoveryLimit
           r == SubSeq(failures, 1, n)
<1>1. Len(failures) \in Nat /\ \A k \in 1 .. Len(failures) : failures[k] \in Tasks
  BY LenProperties, ElementOfSeq
<1>2. n \in Nat /\ n <= Len(failures) BY <1>1, RecoveryAssumption
<1> HIDE DEF n
<1>3. \A k \in 1 .. n : failures[k] \in Tasks BY <1>1, <1>2
<1>4. r \in Seq(Tasks) BY <1>2, <1>3, SubSeqProperties
<1> HIDE DEF r
<1>5. ToSet(r) \subseteq Tasks BY <1>4, LenProperties, ElementOfSeq DEF ToSet
<1>6. QED BY <1>5 DEF FailedAuthTasks, r, n

-----------------------------------------------------------------------------
LEMMA RecoveryInitInv == RecoveryInit => RecoveryInv
<1> SUFFICES ASSUME RecoveryInit PROVE RecoveryInv
  OBVIOUS
<1>1. /\ session = TRUE /\ tasks = [t \in Tasks |-> "absent"] /\ failures = <<>>
      /\ pauses = [j \in GuardedJobs |-> "none"] /\ recovery = NotStarted
  BY DEF RecoveryInit
<1>2. /\ NotStarted \in Recoveries /\ NotStarted.clean = FALSE
  BY DEF NotStarted, Recoveries, Steps
<1>3. <<>> \in Seq(Tasks) /\ DOMAIN <<>> = {}
  OBVIOUS
<1>4. RecoveryTypeOK BY <1>1, <1>2, <1>3 DEF RecoveryTypeOK, Statuses, Reasons
<1>5. FailuresFit BY <1>1, <1>3 DEF FailuresFit, Once, ToSet
<1>6. CleanHolds /\ PausesListed /\ FailuresListed
  BY <1>1, <1>2 DEF CleanHolds, PausesListed, FailuresListed
<1>7. QED BY <1>4, <1>5, <1>6 DEF RecoveryInv

(* A task changes its status between others than failed.                   *)
LEMMA TaskMoves ==
    ASSUME RecoveryInv, NEW t \in Tasks, NEW status \in Statuses \ {"failed"},
           tasks[t] # "failed", TaskBecomes(t, status),
           UNCHANGED <<session, failures, recovery>>,
           status \in InFlight => ~recovery.clean,
           pauses' \in [GuardedJobs -> Reasons],
           pauses' = pauses \/ ~recovery.clean
    PROVE  RecoveryInv'
<1>1. tasks \in [Tasks -> Statuses] /\ tasks' = [tasks EXCEPT ![t] = status]
  BY DEF RecoveryInv, RecoveryTypeOK, TaskBecomes
<1>2. /\ tasks' \in [Tasks -> Statuses] /\ tasks'[t] = status
      /\ \A u \in Tasks \ {t} : tasks'[u] = tasks[u]
  BY <1>1
<1>3. \A u \in Tasks : tasks'[u] = "failed" <=> tasks[u] = "failed" BY <1>2
<1>4. RecoveryTypeOK' BY <1>2 DEF RecoveryInv, RecoveryTypeOK
<1>5. FailuresFit' BY <1>3 DEF RecoveryInv, FailuresFit
<1>6. CleanHolds' BY <1>2 DEF RecoveryInv, CleanHolds
<1>7. PausesListed' BY DEF RecoveryInv, PausesListed
<1>8. FailuresListed' BY <1>3 DEF RecoveryInv, FailuresListed
<1>9. QED BY <1>4, <1>5, <1>6, <1>7, <1>8 DEF RecoveryInv

LEMMA WorkerMoves ==
    ASSUME RecoveryInv, NEW t \in Tasks,
           Create(t) \/ Execute(t) \/ Guard(t) \/ Reclaimed(t)
    PROVE  RecoveryInv'
<1>1. tasks \in [Tasks -> Statuses] /\ pauses \in [GuardedJobs -> Reasons]
  BY DEF RecoveryInv, RecoveryTypeOK
<1>2. CASE Create(t) BY <1>1, <1>2, TaskMoves DEF Create, Statuses, InFlight
<1>3. CASE Execute(t)
  <2>1. PICK status \in IF session THEN {"completed", "other"} ELSE {"refused"} :
           TaskBecomes(t, status)
    BY <1>3 DEF Execute
  <2>2. status \in InFlight => ~recovery.clean
    BY <2>1 DEF RecoveryInv, CleanHolds, InFlight
  <2>3. QED BY <1>1, <1>3, <2>1, <2>2, TaskMoves DEF Execute, Statuses
<1>4. CASE Guard(t)
  <2>1. /\ tasks[t] = "refused" /\ TaskBecomes(t, "guarded")
        /\ UNCHANGED <<session, failures, recovery>>
    BY <1>4 DEF Guard
  <2>2. ~recovery.clean BY <2>1 DEF RecoveryInv, CleanHolds, InFlight
  <2>3. pauses' \in [GuardedJobs -> Reasons]
    BY <1>1, <1>4 DEF Guard, SetPause, Reasons
  <2>4. QED BY <2>1, <2>2, <2>3, TaskMoves DEF Statuses
<1>5. CASE Reclaimed(t)
  BY <1>1, <1>5, TaskMoves DEF Reclaimed, Statuses, InFlight
<1>6. QED BY <1>2, <1>3, <1>4, <1>5

LEMMA RecordStep == ASSUME RecoveryInv, NEW t \in Tasks, RecordFailure(t) PROVE RecoveryInv'
<1>1. /\ tasks[t] = "guarded" /\ tasks' = [tasks EXCEPT ![t] = "failed"]
      /\ failures' = Append(failures, t)
      /\ UNCHANGED <<session, pauses, recovery>>
  BY DEF RecordFailure, TaskBecomes
<1>2. tasks \in [Tasks -> Statuses] /\ failures \in Seq(Tasks)
  BY DEF RecoveryInv, RecoveryTypeOK
<1>3. ~recovery.clean BY <1>1 DEF RecoveryInv, CleanHolds, InFlight
<1>4. /\ tasks' \in [Tasks -> Statuses] /\ tasks'[t] = "failed"
      /\ \A u \in Tasks \ {t} : tasks'[u] = tasks[u]
  BY <1>1, <1>2 DEF Statuses
<1> DEFINE n == Len(failures)
<1>5. /\ failures' \in Seq(Tasks) /\ n \in Nat
      /\ DOMAIN failures = 1 .. n /\ DOMAIN failures' = 1 .. (n + 1)
      /\ failures'[n + 1] = t /\ \A k \in 1 .. n : failures'[k] = failures[k]
  BY <1>1, <1>2
<1> HIDE DEF n
<1>6. RecoveryTypeOK' BY <1>1, <1>4, <1>5 DEF RecoveryInv, RecoveryTypeOK
<1>7. t \notin ToSet(failures) BY <1>1 DEF RecoveryInv, FailuresFit
<1>8. Once(failures')
  BY <1>5, <1>7 DEF RecoveryInv, FailuresFit, Once, ToSet
<1>9. ToSet(failures') = ToSet(failures) \cup {t}
  <2>1. \A x \in ToSet(failures') : x \in ToSet(failures) \cup {t}
    BY <1>5 DEF ToSet
  <2>2. \A x \in ToSet(failures) : x \in ToSet(failures') BY <1>5 DEF ToSet
  <2>3. t \in ToSet(failures') BY <1>5 DEF ToSet
  <2>4. QED BY <2>1, <2>2, <2>3
<1>10. FailuresFit'
  BY <1>4, <1>8, <1>9 DEF RecoveryInv, FailuresFit
<1>11. CleanHolds' /\ PausesListed' /\ FailuresListed'
  BY <1>1, <1>3 DEF CleanHolds, PausesListed, FailuresListed
<1>12. QED BY <1>6, <1>10, <1>11 DEF RecoveryInv

(* A failure that is restarted leaves the list.                            *)
LEMMA Restarting ==
    ASSUME RecoveryInv, NEW t \in Tasks, RestartFailed(t)
    PROVE  /\ tasks' \in [Tasks -> Statuses] /\ tasks'[t] = "new"
           /\ \A u \in Tasks \ {t} : tasks'[u] = tasks[u]
           /\ failures' \in Seq(Tasks) /\ FailuresFit'
<1>1. tasks' = [tasks EXCEPT ![t] = "new"] /\ tasks \in [Tasks -> Statuses]
  BY DEF RestartFailed, TaskBecomes, RecoveryInv, RecoveryTypeOK
<1>2. /\ tasks' \in [Tasks -> Statuses] /\ tasks'[t] = "new"
      /\ \A u \in Tasks \ {t} : tasks'[u] = tasks[u]
  BY <1>1 DEF Statuses
<1>3. failures \in Seq(Tasks) /\ Once(failures)
  BY DEF RecoveryInv, RecoveryTypeOK, FailuresFit
<1>4. /\ failures' \in Seq(Tasks) /\ Once(failures')
      /\ ToSet(failures') = ToSet(failures) \ {t}
  <2>1. CASE t \in ToSet(failures)
    <3>1. Position(t) \in DOMAIN failures /\ failures[Position(t)] = t
      BY <2>1 DEF Position, ToSet
    <3>2. failures' = RemoveAt(failures, Position(t)) BY <2>1 DEF RestartFailed
    <3>3. QED BY <1>3, <3>1, <3>2, Removing
  <2>2. CASE t \notin ToSet(failures)
    BY <1>3, <2>2 DEF RestartFailed
  <2>3. QED BY <2>1, <2>2
<1>5. FailuresFit' BY <1>2, <1>4 DEF RecoveryInv, FailuresFit
<1>6. QED BY <1>2, <1>4, <1>5

LEMMA RetryStep ==
    ASSUME RecoveryInv, NEW t \in Tasks, OperatorRetry(t) \/ RetryFailed(t)
    PROVE  RecoveryInv'
<1>1. recovery \in Recoveries BY DEF RecoveryInv, RecoveryTypeOK
<1>2. CASE OperatorRetry(t)
  <2>1. RestartFailed(t) /\ UNCHANGED <<session, pauses, recovery>>
    BY <1>2 DEF OperatorRetry
  <2>2. /\ tasks' \in [Tasks -> Statuses] /\ tasks'[t] = "new"
        /\ \A u \in Tasks \ {t} : tasks'[u] = tasks[u]
        /\ failures' \in Seq(Tasks) /\ FailuresFit'
    BY <2>1, Restarting
  <2>3. QED BY <2>1, <2>2 DEF RecoveryInv, RecoveryTypeOK, CleanHolds,
               PausesListed, FailuresListed, InFlight
<1>3. CASE RetryFailed(t)
  <2> DEFINE left == [recovery EXCEPT !.retry = recovery.retry \ {t}]
             passed == [recovery EXCEPT !.retry = recovery.retry \ {t},
                                        !.missed = Missed(t)]
  <2>1. /\ UNCHANGED <<session, pauses>> /\ recovery.at = "retrying"
        /\ \/ RestartFailed(t) /\ recovery' = left
           \/ recovery' = passed /\ UNCHANGED <<tasks, failures>>
    BY <1>3 DEF RetryFailed
  <2>8. Missed(t) \in SUBSET Tasks BY <1>1 DEF Recoveries, Missed
  <2>2. /\ left \in Recoveries /\ left.at = recovery.at
        /\ left.retry = recovery.retry \ {t} /\ left.jobs = recovery.jobs
        /\ left.clean = recovery.clean /\ left.missed = recovery.missed
    BY <1>1 DEF Recoveries
  <2>3. /\ passed \in Recoveries /\ passed.at = recovery.at
        /\ passed.retry = recovery.retry \ {t} /\ passed.jobs = recovery.jobs
        /\ passed.clean = recovery.clean
        /\ passed.missed = Missed(t)
    BY <1>1, <2>8 DEF Recoveries
  <2> HIDE DEF left, passed
  <2>4. CASE RestartFailed(t) /\ recovery' = left
    <3>1. /\ tasks' \in [Tasks -> Statuses] /\ tasks'[t] = "new"
          /\ \A u \in Tasks \ {t} : tasks'[u] = tasks[u]
          /\ failures' \in Seq(Tasks) /\ FailuresFit'
      BY <2>4, Restarting
    <3>2. QED BY <2>1, <2>2, <2>4, <3>1 DEF RecoveryInv, RecoveryTypeOK,
                 CleanHolds, PausesListed, FailuresListed, InFlight
  <2>5. CASE recovery' = passed /\ UNCHANGED <<tasks, failures>>
    BY <2>1, <2>3, <2>5 DEF RecoveryInv, RecoveryTypeOK, FailuresFit, CleanHolds,
       PausesListed, FailuresListed, Missed
  <2>6. QED BY <2>1, <2>4, <2>5
<1>4. QED BY <1>2, <1>3

(* An operator never makes a pause of the guard.                           *)
LEMMA OperatorStep ==
    ASSUME RecoveryInv, NEW j \in GuardedJobs, OperatorPause(j) \/ OperatorResume(j)
    PROVE  RecoveryInv'
<1>1. /\ UNCHANGED <<session, tasks, failures, recovery>>
      /\ \E reason \in {"operator", "none"} :
            pauses' = [pauses EXCEPT ![j] = reason]
  BY DEF OperatorPause, OperatorResume, SetPause, ResumeJob
<1>2. /\ pauses' \in [GuardedJobs -> Reasons]
      /\ \A k \in GuardedJobs : pauses'[k] = "auth" => pauses[k] = "auth"
  BY <1>1 DEF RecoveryInv, RecoveryTypeOK, Reasons
<1>3. QED BY <1>1, <1>2 DEF RecoveryInv, RecoveryTypeOK, FailuresFit, CleanHolds,
             PausesListed, FailuresListed

(* The recovery goes on while the tables stay as they are.                 *)
LEMMA RecoveryMoves ==
    ASSUME RecoveryInv, UNCHANGED <<tasks, failures, pauses>>, session' \in BOOLEAN,
           recovery' \in Recoveries, CleanHolds', PausesListed', FailuresListed'
    PROVE  RecoveryInv'
BY DEF RecoveryInv, RecoveryTypeOK, FailuresFit

LEMMA SessionStep == ASSUME RecoveryInv, SessionLost \/ SignIn PROVE RecoveryInv'
<1>1. recovery \in Recoveries BY DEF RecoveryInv, RecoveryTypeOK
<1>2. CASE SessionLost
  <2>1. recovery' = [recovery EXCEPT !.clean = FALSE] /\ session' = FALSE
    BY <1>2 DEF SessionLost
  <2>2. recovery' \in Recoveries /\ recovery'.clean = FALSE
    BY <1>1, <2>1 DEF Recoveries
  <2>3. CleanHolds' /\ PausesListed' /\ FailuresListed'
    BY <2>2 DEF CleanHolds, PausesListed, FailuresListed
  <2>4. QED BY <1>2, <2>1, <2>2, <2>3, RecoveryMoves DEF SessionLost
<1>3. CASE SignIn
  <2> DEFINE c == \A t \in Tasks : tasks[t] \notin InFlight
  <2>1. /\ recovery' = [NotStarted EXCEPT !.at = "begun", !.clean = c]
        /\ session' = TRUE /\ UNCHANGED <<tasks, failures, pauses>>
    BY <1>3 DEF SignIn
  <2>2. c \in BOOLEAN OBVIOUS
  <2>3. c => \A t \in Tasks : tasks'[t] \notin InFlight BY <2>1
  <2> HIDE DEF c
  <2>4. NotStarted \in Recoveries BY DEF NotStarted, Recoveries, Steps
  <2>5. recovery' \in Recoveries /\ recovery'.at = "begun" /\ recovery'.clean = c
    BY <2>1, <2>2, <2>4 DEF Recoveries, Steps
  <2>6. CleanHolds' /\ PausesListed' /\ FailuresListed'
    BY <2>1, <2>3, <2>5 DEF CleanHolds, PausesListed, FailuresListed
  <2>7. QED BY <2>1, <2>5, <2>6, RecoveryMoves
<1>4. QED BY <1>2, <1>3

LEMMA ListPausesStep == ASSUME RecoveryInv, ListPauses PROVE RecoveryInv'
<1> DEFINE l == {j \in GuardedJobs : pauses[j] = "auth"}
<1>1. /\ recovery' = [recovery EXCEPT !.at = "resuming", !.jobs = l]
      /\ UNCHANGED <<session, tasks, failures, pauses>>
  BY DEF ListPauses
<1>2. recovery \in Recoveries /\ session \in BOOLEAN /\ l \in SUBSET GuardedJobs
  BY DEF RecoveryInv, RecoveryTypeOK
<1>3. /\ recovery' \in Recoveries /\ recovery'.at = "resuming"
      /\ recovery'.jobs = l /\ recovery'.clean = recovery.clean
  BY <1>1, <1>2 DEF Recoveries, Steps
<1>4. CleanHolds' BY <1>1, <1>3 DEF RecoveryInv, CleanHolds
<1>5. PausesListed' BY <1>1, <1>3 DEF PausesListed
<1>6. FailuresListed' BY <1>3 DEF FailuresListed
<1>7. QED BY <1>1, <1>2, <1>3, <1>4, <1>5, <1>6, RecoveryMoves

LEMMA ResumeGuardedStep ==
    ASSUME RecoveryInv, NEW j \in GuardedJobs, ResumeGuarded(j)
    PROVE  RecoveryInv'
<1>1. /\ recovery.at = "resuming" /\ pauses' = [pauses EXCEPT ![j] = "none"]
      /\ recovery' = [recovery EXCEPT !.jobs = recovery.jobs \ {j}]
      /\ UNCHANGED <<session, tasks, failures>>
  BY DEF ResumeGuarded, ResumeJob
<1>2. recovery \in Recoveries /\ pauses \in [GuardedJobs -> Reasons]
  BY DEF RecoveryInv, RecoveryTypeOK
<1>3. /\ recovery' \in Recoveries /\ recovery'.at = "resuming"
      /\ recovery'.jobs = recovery.jobs \ {j} /\ recovery'.clean = recovery.clean
  BY <1>1, <1>2 DEF Recoveries
<1>4. /\ pauses' \in [GuardedJobs -> Reasons] /\ pauses'[j] = "none"
      /\ \A k \in GuardedJobs \ {j} : pauses'[k] = pauses[k]
  BY <1>1, <1>2 DEF Reasons
<1>5. RecoveryTypeOK' /\ FailuresFit'
  BY <1>1, <1>3, <1>4 DEF RecoveryInv, RecoveryTypeOK, FailuresFit
<1>6. CleanHolds' BY <1>1, <1>3 DEF RecoveryInv, CleanHolds
<1>7. PausesListed' BY <1>1, <1>3, <1>4 DEF RecoveryInv, PausesListed
<1>8. FailuresListed' BY <1>3 DEF FailuresListed
<1>9. QED BY <1>5, <1>6, <1>7, <1>8 DEF RecoveryInv

LEMMA ResumedStep == ASSUME RecoveryInv, Resumed PROVE RecoveryInv'
<1>1. /\ recovery.at = "resuming" /\ recovery.jobs = {}
      /\ recovery' = [recovery EXCEPT !.at = "listing"]
      /\ UNCHANGED <<session, tasks, failures, pauses>>
  BY DEF Resumed
<1>2. recovery \in Recoveries /\ session \in BOOLEAN
  BY DEF RecoveryInv, RecoveryTypeOK
<1>3. /\ recovery' \in Recoveries /\ recovery'.at = "listing"
      /\ recovery'.clean = recovery.clean
  BY <1>1, <1>2 DEF Recoveries, Steps
<1>4. CleanHolds' /\ PausesListed' /\ FailuresListed'
  BY <1>1, <1>3 DEF RecoveryInv, CleanHolds, PausesListed, FailuresListed
<1>5. QED BY <1>1, <1>2, <1>3, <1>4, RecoveryMoves

LEMMA ListFailedStep == ASSUME RecoveryInv, ListFailed PROVE RecoveryInv'
<1>1. /\ recovery.at = "listing" /\ UNCHANGED <<session, tasks, failures, pauses>>
      /\ recovery' = [recovery EXCEPT !.at = "retrying", !.retry = FailedAuthTasks]
  BY DEF ListFailed
<1>2. /\ recovery \in Recoveries /\ session \in BOOLEAN
      /\ failures \in Seq(Tasks) /\ FailedAuthTasks \in SUBSET Tasks
  BY ListedTasks DEF RecoveryInv, RecoveryTypeOK
<1> DEFINE f == FailedAuthTasks
<1>3. recovery' = [recovery EXCEPT !.at = "retrying", !.retry = f] /\ f \in SUBSET Tasks
  BY <1>1, <1>2
<1>4. Cardinality(Tasks) <= RecoveryLimit
         => \A t \in Tasks : tasks[t] = "failed" => t \in f
  BY <1>2, AllListed DEF RecoveryInv, FailuresFit
<1> HIDE DEF f
<1>5. /\ recovery' \in Recoveries /\ recovery'.at = "retrying"
      /\ recovery'.retry = f /\ recovery'.clean = recovery.clean
  BY <1>2, <1>3 DEF Recoveries, Steps
<1>6. CleanHolds' BY <1>1, <1>5 DEF RecoveryInv, CleanHolds
<1>7. PausesListed' BY <1>1, <1>5 DEF RecoveryInv, PausesListed
<1>8. FailuresListed' BY <1>1, <1>4, <1>5 DEF FailuresListed
<1>9. QED BY <1>1, <1>2, <1>5, <1>6, <1>7, <1>8, RecoveryMoves

LEMMA RecoveredStep == ASSUME RecoveryInv, Recovered PROVE RecoveryInv'
<1>1. /\ recovery.at = "retrying" /\ recovery.retry = {}
      /\ recovery' = [recovery EXCEPT !.at = "done"]
      /\ UNCHANGED <<session, tasks, failures, pauses>>
  BY DEF Recovered
<1>2. recovery \in Recoveries /\ session \in BOOLEAN
  BY DEF RecoveryInv, RecoveryTypeOK
<1>3. /\ recovery' \in Recoveries /\ recovery'.at = "done"
      /\ recovery'.clean = recovery.clean /\ recovery'.missed = recovery.missed
  BY <1>1, <1>2 DEF Recoveries, Steps
<1>4. CleanHolds' /\ PausesListed' /\ FailuresListed'
  BY <1>1, <1>3 DEF RecoveryInv, CleanHolds, PausesListed, FailuresListed
<1>5. QED BY <1>1, <1>2, <1>3, <1>4, RecoveryMoves

LEMMA RecoveryFailsStep == ASSUME RecoveryInv, RecoveryFails PROVE RecoveryInv'
<1>1. recovery' = NotStarted /\ UNCHANGED <<session, tasks, failures, pauses>>
  BY DEF RecoveryFails
<1>2. NotStarted \in Recoveries /\ NotStarted.clean = FALSE
  BY DEF NotStarted, Recoveries, Steps
<1>3. CleanHolds' /\ PausesListed' /\ FailuresListed'
  BY <1>1, <1>2 DEF CleanHolds, PausesListed, FailuresListed
<1>4. session \in BOOLEAN BY DEF RecoveryInv, RecoveryTypeOK
<1>5. QED BY <1>1, <1>2, <1>3, <1>4, RecoveryMoves

LEMMA RecoveryStepInv == RecoveryInv /\ [RecoveryNext]_recoveryVars => RecoveryInv'
<1> SUFFICES ASSUME RecoveryInv, [RecoveryNext]_recoveryVars PROVE RecoveryInv'
  OBVIOUS
<1>1. CASE UNCHANGED recoveryVars
  BY <1>1 DEF recoveryVars, RecoveryInv, RecoveryTypeOK, FailuresFit, CleanHolds,
     PausesListed, FailuresListed
<1>2. CASE SessionLost \/ SignIn BY <1>2, SessionStep
<1>3. CASE RecoveryStep
  BY <1>3, ListPausesStep, ResumedStep, ListFailedStep, RecoveredStep,
     ResumeGuardedStep, RetryStep DEF RecoveryStep
<1>4. CASE RecoveryFails BY <1>4, RecoveryFailsStep
<1>5. ASSUME NEW t \in Tasks,
             Create(t) \/ WorkerStep(t) \/ Reclaimed(t) \/ OperatorRetry(t)
      PROVE  RecoveryInv'
  BY <1>5, WorkerMoves, RecordStep, RetryStep DEF WorkerStep
<1>6. ASSUME NEW j \in GuardedJobs, OperatorPause(j) \/ OperatorResume(j)
      PROVE  RecoveryInv'
  BY <1>6, OperatorStep
<1>7. QED BY <1>1, <1>2, <1>3, <1>4, <1>5, <1>6 DEF RecoveryNext

(* What a recovery has listed and what is left of the lost session fit     *)
(* together at every step of the hook.                                     *)
THEOREM RecoveryInductive == RecoverySpec => []RecoveryInv
BY RecoveryInitInv, RecoveryStepInv, PTL DEF RecoverySpec

(* A recovery that ran to its end leaves no job paused by the guard and no *)
(* task failed for want of a session but those whose own retry ended with  *)
(* an error, for any number of tasks within its limit.                     *)
THEOREM SignInsHeal == RecoverySpec => []SignInHeals
<1>1. RecoveryInv => SignInHeals
  BY DEF RecoveryInv, PausesListed, FailuresListed, SignInHeals
<1>2. QED BY <1>1, RecoveryInductive, PTL
=============================================================================
