-------------------------- MODULE ProfileActivity --------------------------
(***************************************************************************)
(* The job that keeps a profile's activity warm (worker/activity_maintain):*)
(* it searches, opens cards the profile has not opened lately, and records *)
(* each one in profile_activity.  The record of a card is found by         *)
(* (platform, profile, kind, card) and INSERT OR IGNORE keeps the first.   *)
(* The platform may list a card on two pages, or on none; a card may be    *)
(* closed when it is opened; a run may stop anywhere and be delivered      *)
(* again.  The application pipeline reads cards too, but records them      *)
(* under the id of the application, which this job never looks up.         *)
(***************************************************************************)
EXTENDS Integers, Sequences

CONSTANTS
    Cards,           \* vacancies the search may list
    ViewCount,       \* payload.Count
    MaintainPages,   \* maximumMaintainSearchPages
    InspectedWindow, \* maintainInspectedWindow, in days
    LastDay          \* bound on the clock

ASSUME ActivityAssumption ==
    /\ ViewCount \in Nat \ {0} /\ MaintainPages \in Nat \ {0}
    /\ InspectedWindow \in Nat /\ LastDay \in Nat

VARIABLES
    day,
    score,           \* of the latest snapshot: "none", "low" or "full"
    records,         \* occurred_at of each card's record, Never for none
    upkeep,          \* the run: [at, seen, page, targets]
    fresh,           \* the cards this run has opened and recorded
    kept             \* the day each card was last opened and recorded

activityVars == <<day, score, records, upkeep, fresh, kept>>

Never == 0 - 1
NoUpkeep == [at |-> "idle", seen |-> {}, page |-> 0, targets |-> <<>>]

ActivityInit ==
    /\ day = 0 /\ score = "none"
    /\ records = [c \in Cards |-> Never]
    /\ upkeep = NoUpkeep
    /\ fresh = {}
    /\ kept = [c \in Cards |-> Never]

DayPasses ==
    /\ day < LastDay
    /\ day' = day + 1
    /\ UNCHANGED <<score, records, upkeep, fresh, kept>>

(* The latest snapshot is the one that counts.                             *)
RecordProfileActivitySnapshot(s) == score # s /\ score' = s

(* activityScore of the latest snapshot; a hidden score is stored as none. *)
ScoreIsFull == score = "full"

ObserveActivity(s) ==
    /\ RecordProfileActivitySnapshot(s)
    /\ UNCHANGED <<day, records, upkeep, fresh, kept>>

(* The card is among the records of the profile.                           *)
Recorded(c) == records[c] # Never

(* Mutation: the cutoff looks at the wrong side of the window.             *)
SeenBefore(c) == Recorded(c) /\ records[c] < day - InspectedWindow

(* A record of the card that is not older than the window.                 *)
Seen(c) == Recorded(c) /\ records[c] >= day - InspectedWindow

(* A run reads the score and the records, then searches; a full score or   *)
(* a job without a query ends it at once.                                  *)
StartUpkeep ==
    /\ upkeep.at = "idle" /\ ~ScoreIsFull
    /\ upkeep' = [NoUpkeep EXCEPT !.at = "searching", !.seen = {c \in Cards : Seen(c)}]
    /\ UNCHANGED <<day, score, records, fresh, kept>>

(* The cards of a page, in the order of the platform, each once, without   *)
(* those that are closed or were seen.                                     *)
UnseenPages ==
    LET unseen == Cards \ upkeep.seen
    IN {<<>>} \cup {<<c>> : c \in unseen}
          \cup {p \in unseen \X unseen : p[1] # p[2]}

(* What is opened is what the pages had, up to the count.                  *)
Targets(page) ==
    LET all == upkeep.targets \o page
    IN SubSeq(all, 1, IF Len(all) < ViewCount THEN Len(all) ELSE ViewCount)

SearchPage ==
    /\ upkeep.at = "searching"
    /\ \E page \in UnseenPages, last \in BOOLEAN :
          upkeep' = [upkeep EXCEPT
              !.page = @ + 1, !.targets = Targets(page),
              !.at = IF last \/ upkeep.page + 1 = MaintainPages
                        \/ Len(Targets(page)) = ViewCount
                     THEN "opening" ELSE "searching"]
    /\ UNCHANGED <<day, score, records, fresh, kept>>

(* The card is opened; a refused or closed one is passed over.             *)
OpenCard ==
    /\ upkeep.at = "opening" /\ upkeep.targets # <<>>
    /\ \/ upkeep' = [upkeep EXCEPT !.at = "recording"]
       \/ upkeep' = [upkeep EXCEPT !.targets = Tail(@)]
    /\ UNCHANGED <<day, score, records, fresh, kept>>

(* INSERT OR IGNORE: a second record of the card changes nothing.          *)
RecordProfileActivity(c) ==
    records' = [records EXCEPT ![c] = IF @ = Never THEN day ELSE @]

RecordOpened ==
    /\ upkeep.at = "recording"
    /\ RecordProfileActivity(Head(upkeep.targets))
    /\ fresh' = fresh \cup {Head(upkeep.targets)}
    /\ kept' = [kept EXCEPT ![Head(upkeep.targets)] = day]
    /\ upkeep' = [upkeep EXCEPT !.at = "opening", !.targets = Tail(@)]
    /\ UNCHANGED <<day, score>>

(* The run ends, by itself, by an error or with its process.               *)
EndUpkeep ==
    /\ upkeep.at # "idle"
    /\ upkeep' = NoUpkeep
    /\ fresh' = {}
    /\ UNCHANGED <<day, score, records, kept>>

ActivityNext ==
    \/ DayPasses \/ StartUpkeep \/ SearchPage \/ OpenCard \/ RecordOpened \/ EndUpkeep
    \/ \E s \in {"none", "low", "full"} : ObserveActivity(s)

ActivitySpec == ActivityInit /\ [][ActivityNext]_activityVars

(* This step opens the card, and this run has not opened it before.        *)
Opens(c) ==
    /\ upkeep.at = "opening" /\ upkeep'.at = "recording"
    /\ c = Head(upkeep.targets) /\ c \notin fresh

(* However runs are cut off and delivered again, on whatever day they      *)
(* were started, a card is left alone for the window after its first       *)
(* recorded opening.                                                       *)
RestsAfterFirst ==
    [][\A c \in Cards : Opens(c) => ~Seen(c)]_activityVars

(* The comment on inspectedVacancies (worker/activity_maintain.go:164):    *)
(* "repeated runs move to fresh cards instead of re-opening the same       *)
(* ones": no card is opened by a run while its last recorded opening, by   *)
(* an earlier run, is in the window.                                       *)
MovesToFreshCards ==
    [][\A c \in Cards :
          Opens(c) => kept[c] = Never \/ kept[c] < day - InspectedWindow]_activityVars
=============================================================================
