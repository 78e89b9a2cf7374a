---------------------------- MODULE IntakeProofs ----------------------------
(***************************************************************************)
(* The finders of vacancies: searches and campaigns, for any listings,     *)
(* routes, runs and bounds, with stops after every write.  They share the  *)
(* applications and their tasks.                                           *)
(***************************************************************************)
EXTENDS SearchRuns, ApplicationCampaign, FiniteSetTheorems, TLAPS

-----------------------------------------------------------------------------
(* Search runs.  Pages are numbered within a generation, and a task may    *)
(* belong to an earlier one, so the invariant says which tasks there are:  *)
(* none beyond the page the run is at, which is not done while the run is  *)
(* at it.                                                                  *)
SearchSet == [definition : Definitions, cursor : Nat, done : BOOLEAN,
              generation : Generations, revision : Nat]
PageStates == {"none", "new", "run", "done", "failed"}
PageSet == [Generations -> [Cursors -> PageStates]]

SearchTypeOK ==
    /\ search \in SearchSet
    /\ ~search.done => search.cursor \in 1 .. Len(Listing[search.definition])
    /\ page \in PageSet
    /\ srch \in [pc : {"idle", "boot", "plan", "enqueue", "ack"},
                 g : {0} \cup Generations, k : {0} \cup Cursors,
                 todo : {srch.todo}, row : SearchSet]

(* The task a handler holds and what it knows of the run.                  *)
HandlerHolds ==
    /\ srch.g # 0 => srch.k \in Cursors /\ page[srch.g][srch.k] = "run"
    /\ srch.pc \in {"plan", "ack"} => srch.g # 0
    /\ srch.pc \in {"idle", "boot"} => srch.g = 0
    /\ srch.pc \in {"plan", "enqueue"} => srch.row = search /\ ~search.done
    /\ srch.pc = "plan" => srch.k = search.cursor
    /\ srch.pc = "enqueue" /\ srch.g # 0 => srch.k # search.cursor
    /\ srch.pc = "ack" /\ ~search.done =>
         /\ srch.k # search.cursor
         /\ page[search.generation][search.cursor] # "none"

(* There is no task for a page the run has not come to.                    *)
NoneAhead ==
    \A g \in Generations, k \in Cursors :
        page[g][k] # "none" =>
            \/ g < search.generation
            \/ g = search.generation /\ (search.done \/ k <= search.cursor)

CurrentNotDone ==
    ~search.done => page[search.generation][search.cursor] # "done"

SearchInv ==
    SearchTypeOK /\ HandlerHolds /\ NoneAhead /\ CurrentNotDone /\ SearchHasTask

(* One task of the table changes.                                          *)
OnlyPage(g, k, s) ==
    /\ page' \in PageSet /\ page'[g][k] = s
    /\ \A i \in Generations, j \in Cursors :
          i # g \/ j # k => page'[i][j] = page[i][j]

LEMMA PageWritten ==
    ASSUME page \in PageSet, NEW g \in Generations, NEW k \in Cursors,
           NEW s \in PageStates, page' = [page EXCEPT ![g][k] = s]
    PROVE  OnlyPage(g, k, s)
BY DEF PageSet, OnlyPage

LEMMA CursorListed ==
    ASSUME NEW sr \in SearchSet, sr.cursor \in 1 .. Len(Listing[sr.definition])
    PROVE  sr.cursor \in Cursors /\ sr.generation \in Generations
<1>1. sr.definition \in Definitions /\ sr.generation \in Generations BY DEF SearchSet
<1>2. Listing[sr.definition] \in Seq(SUBSET Vacancies) BY <1>1, SearchAssumption
<1>3. DOMAIN Listing[sr.definition] = 1 .. Len(Listing[sr.definition]) BY <1>2
<1>4. QED BY <1>1, <1>3 DEF Cursors

LEMMA FirstPage ==
    ASSUME NEW d \in Definitions PROVE 1 \in 1 .. Len(Listing[d])
<1>1. Listing[d] \in Seq(SUBSET Vacancies) /\ Listing[d] # <<>> BY SearchAssumption
<1>2. QED BY <1>1

LEMMA FreshRun ==
    ASSUME NEW d \in Definitions
    PROVE  NewSearchRun(d) \in SearchSet
BY SearchAssumption DEF NewSearchRun, SearchSet, Generations

LEMMA NoTaskOK ==
    /\ NoTask.row \in SearchSet /\ NoTask.pc = "idle" /\ NoTask.g = 0 /\ NoTask.k = 0
    /\ NoTask \in [pc : {"idle", "boot", "plan", "enqueue", "ack"},
                   g : {0} \cup Generations, k : {0} \cup Cursors,
                   todo : {NoTask.todo}, row : SearchSet]
<1>1. (CHOOSE d \in Definitions : TRUE) \in Definitions BY SearchAssumption
<1>2. QED BY <1>1, FreshRun DEF NoTask

LEMMA SearchInitInv == SearchInit => SearchInv
<1> SUFFICES ASSUME SearchInit PROVE SearchInv
  OBVIOUS
<1>1. PICK d \in Definitions : search = NewSearchRun(d) BY DEF SearchInit
<1>2. /\ search \in SearchSet /\ search.cursor = 1 /\ search.generation = 1
      /\ search.definition = d
  BY <1>1, FreshRun DEF NewSearchRun
<1>3. 1 \in Generations /\ 1 \in Cursors /\ search.cursor \in 1 .. Len(Listing[d])
  BY <1>2, FirstPage, CursorListed
<1>4. /\ page \in PageSet /\ page[1][1] = "new"
      /\ \A g \in Generations, k \in Cursors : page[g][k] # "none" => g = 1 /\ k = 1
  BY <1>3 DEF SearchInit, PageSet, PageStates
<1>5. SearchTypeOK BY <1>2, <1>3, <1>4, NoTaskOK DEF SearchTypeOK, SearchInit
<1>6. HandlerHolds BY NoTaskOK DEF HandlerHolds, SearchInit
<1>7. NoneAhead BY <1>2, <1>4 DEF NoneAhead
<1>8. SearchHasTask
  <2>1. search.generation = 1 /\ page[1][1] = "new" /\ 1 \in Cursors BY <1>2, <1>3, <1>4
  <2>2. QED BY <2>1 DEF SearchHasTask
<1>9. QED BY <1>2, <1>4, <1>5, <1>6, <1>7, <1>8 DEF SearchInv, CurrentNotDone

LEMMA SearchRowWritten ==
    ASSUME NEW sr \in SearchSet, NEW c \in Nat, NEW d \in BOOLEAN, NEW r \in Nat
    PROVE  [sr EXCEPT !.cursor = c, !.done = d, !.revision = r] \in SearchSet
BY DEF SearchSet

LEMMA Advanced ==
    ASSUME NEW sr \in SearchSet, sr.cursor \in 1 .. Len(Listing[sr.definition])
    PROVE  /\ AdvanceRun(sr) \in SearchSet
           /\ AdvanceRun(sr).generation = sr.generation
           /\ AdvanceRun(sr).revision = sr.revision + 1
           /\ ~AdvanceRun(sr).done =>
                /\ AdvanceRun(sr).cursor = sr.cursor + 1
                /\ AdvanceRun(sr).cursor
                     \in 1 .. Len(Listing[AdvanceRun(sr).definition])
<1> DEFINE n    == Len(Listing[sr.definition])
           last == sr.cursor = n
           c    == IF last THEN 0 ELSE sr.cursor + 1
<1>1. n \in Nat /\ sr.cursor \in 1 .. n
  <2>1. Listing[sr.definition] \in Seq(SUBSET Vacancies)
    BY SearchAssumption DEF SearchSet
  <2>2. QED BY <2>1
<1>2. AdvanceRun(sr) = [sr EXCEPT !.cursor = c, !.done = last, !.revision = sr.revision + 1]
  BY DEF AdvanceRun
<1>3. c \in Nat /\ last \in BOOLEAN /\ (~last => c = sr.cursor + 1 /\ c \in 1 .. n)
  BY <1>1
<1>4. sr.revision + 1 \in Nat BY DEF SearchSet
<1> HIDE DEF c, last
<1>5. AdvanceRun(sr) \in SearchSet
  <2>1. [sr EXCEPT !.cursor = c, !.done = last, !.revision = sr.revision + 1] \in SearchSet
    <3>1. c \in Nat /\ last \in BOOLEAN BY <1>3
    <3>2. QED BY ONLY <3>1, <1>4, SearchRowWritten, sr \in SearchSet
  <2>2. QED BY <1>2, <2>1
<1>6. /\ AdvanceRun(sr).generation = sr.generation
      /\ AdvanceRun(sr).definition = sr.definition
      /\ AdvanceRun(sr).revision = sr.revision + 1
      /\ AdvanceRun(sr).done = last /\ AdvanceRun(sr).cursor = c
  BY <1>2 DEF SearchSet
<1>7. QED BY <1>3, <1>5, <1>6

(* A handler that lets its task go, and a process that comes up again.     *)
LEMMA LetsGo ==
    ASSUME SearchInv, UNCHANGED search, srch' = [NoTask EXCEPT !.pc = "boot"],
           page' \in PageSet,
           \A g \in Generations, k \in Cursors :
              page'[g][k] = page[g][k] \/ (page[g][k] = "run" /\ page'[g][k] = "new")
    PROVE  SearchInv'
<1>1. srch'.pc = "boot" /\ srch'.g = 0 /\ srch'.k = 0 /\ SearchTypeOK'
  BY NoTaskOK DEF SearchInv, SearchTypeOK
<1>2. NoneAhead' BY DEF SearchInv, NoneAhead
<1>3. CurrentNotDone'
  <2>1. SUFFICES ASSUME ~search.done PROVE page'[search.generation][search.cursor] # "done"
    BY DEF CurrentNotDone
  <2>2. search.cursor \in Cursors /\ search.generation \in Generations
    BY <2>1, CursorListed DEF SearchInv, SearchTypeOK
  <2>3. QED BY <2>1, <2>2 DEF SearchInv, CurrentNotDone
<1>4. HandlerHolds' BY <1>1 DEF HandlerHolds
<1>5. SearchHasTask' BY <1>1 DEF SearchHasTask
<1>6. QED BY <1>1, <1>2, <1>3, <1>4, <1>5 DEF SearchInv

LEMMA EnsureRunStep == ASSUME SearchInv, NEW d \in Definitions, EnsureRun(d) PROVE SearchInv'
<1>1. /\ srch.pc = "boot" /\ page' = page
      /\ d # search.definition => search.generation < MaxGeneration
      /\ search' = IF search.definition = d THEN search ELSE resetSearchRun(d)
      /\ srch' = [NoTask EXCEPT !.pc = IF search'.done THEN "idle" ELSE "enqueue",
                                !.row = search']
  BY DEF EnsureRun, CreateSearchRun
<1>2. search \in SearchSet BY DEF SearchInv, SearchTypeOK
<1>3. CASE search' = search
  <2>1. /\ srch'.g = 0 /\ srch'.k = 0 /\ srch'.row = search'
        /\ srch'.pc = (IF search'.done THEN "idle" ELSE "enqueue") /\ SearchTypeOK'
    BY <1>1, <1>2, <1>3, NoTaskOK DEF SearchInv, SearchTypeOK
  <2>2. HandlerHolds' BY <2>1, <1>1, <1>3 DEF SearchInv, HandlerHolds
  <2>3. NoneAhead' /\ CurrentNotDone' BY <1>1, <1>3 DEF SearchInv, NoneAhead, CurrentNotDone
  <2>4. SearchHasTask' BY <2>1 DEF SearchHasTask
  <2>5. QED BY <2>1, <2>2, <2>3, <2>4 DEF SearchInv
<1>4. CASE search.definition # d
  <2>1. search' = resetSearchRun(d) /\ search.generation < MaxGeneration BY <1>1, <1>4
  <2>2. /\ search' \in SearchSet /\ ~search'.done /\ search'.cursor = 1
        /\ search'.generation = search.generation + 1 /\ search'.definition = d
    <3>1. /\ search.generation + 1 \in Generations /\ search.revision + 1 \in Nat
      BY <1>2, <2>1, SearchAssumption DEF SearchSet, Generations
    <3>2. QED BY <2>1, <3>1, <1>2 DEF resetSearchRun, SearchSet
  <2>3. search'.cursor \in 1 .. Len(Listing[search'.definition]) BY <2>2, FirstPage
  <2>4. search'.cursor \in Cursors /\ search'.generation \in Generations
    BY <2>2, <2>3, CursorListed
  <2>5. /\ srch'.g = 0 /\ srch'.k = 0 /\ srch'.row = search' /\ srch'.pc = "enqueue"
        /\ SearchTypeOK'
    BY <1>1, <2>2, <2>3, NoTaskOK DEF SearchInv, SearchTypeOK
  <2>6. HandlerHolds' BY <2>2, <2>5 DEF HandlerHolds
  <2>7. \A g \in Generations, k \in Cursors :
           page[g][k] # "none" => g < search'.generation
    BY <1>2, <2>2 DEF SearchInv, NoneAhead, SearchSet, Generations
  <2>8. NoneAhead' BY <1>1, <2>7 DEF NoneAhead
  <2>9. CurrentNotDone'
    BY <1>1, <2>2, <2>4, <2>7 DEF CurrentNotDone, SearchSet, Generations
  <2>10. SearchHasTask' BY <2>5 DEF SearchHasTask
  <2>11. QED BY <2>5, <2>6, <2>8, <2>9, <2>10 DEF SearchInv
<1>5. QED BY <1>1, <1>3, <1>4

LEMMA StopProcessStep == ASSUME SearchInv, StopProcess PROVE SearchInv'
<1>1. /\ page' = IF srch.g = 0 THEN page ELSE [page EXCEPT ![srch.g][srch.k] = "new"]
      /\ srch' = [NoTask EXCEPT !.pc = "boot"] /\ UNCHANGED search
  BY DEF StopProcess
<1>2. srch.g \in {0} \cup Generations /\ page \in PageSet
  BY DEF SearchInv, SearchTypeOK
<1>3. CASE srch.g = 0 BY <1>1, <1>2, <1>3, LetsGo
<1>4. CASE srch.g # 0
  <2> DEFINE gn == srch.g
             j == srch.k
  <2>1. gn \in Generations /\ j \in Cursors /\ page[gn][j] = "run"
    BY <1>2, <1>4 DEF SearchInv, HandlerHolds
  <2>2. page' = [page EXCEPT ![gn][j] = "new"] BY <1>1, <1>4
  <2>3. "new" \in PageStates BY DEF PageStates
  <2> HIDE DEF gn, j
  <2>4. OnlyPage(gn, j, "new") BY <1>2, <2>1, <2>2, <2>3, PageWritten
  <2>5. \A g \in Generations, k \in Cursors :
            page'[g][k] = page[g][k] \/ (page[g][k] = "run" /\ page'[g][k] = "new")
    BY <2>1, <2>4 DEF OnlyPage
  <2>6. page' \in PageSet BY <2>4 DEF OnlyPage
  <2>7. QED BY <1>1, <2>5, <2>6, LetsGo
<1>5. QED BY <1>3, <1>4

(* A step that rewrites a task which exists, and leaves the current page   *)
(* of an unfinished run undone.                                            *)
LEMMA TaskRewritten ==
    ASSUME SearchInv, UNCHANGED search,
           NEW g \in Generations, NEW k \in Cursors, NEW s \in PageStates \ {"none"},
           page[g][k] # "none", page' = [page EXCEPT ![g][k] = s],
           s = "done" => search.done \/ k # search.cursor
    PROVE  page' \in PageSet /\ page'[g][k] = s /\ NoneAhead' /\ CurrentNotDone'
<1>1. OnlyPage(g, k, s)
  <2>1. s \in PageStates /\ page \in PageSet BY DEF SearchInv, SearchTypeOK
  <2>2. QED BY <2>1, PageWritten
<1>2. NoneAhead'
  <2>1. \A i \in Generations, j \in Cursors : page'[i][j] # "none" => page[i][j] # "none"
    BY <1>1 DEF OnlyPage
  <2>2. QED BY <2>1 DEF SearchInv, NoneAhead
<1>3. CurrentNotDone'
  <2>1. SUFFICES ASSUME ~search.done PROVE page'[search.generation][search.cursor] # "done"
    BY DEF CurrentNotDone
  <2>2. search.cursor \in Cursors /\ search.generation \in Generations
    BY <2>1, CursorListed DEF SearchInv, SearchTypeOK
  <2>3. QED BY <1>1, <2>1, <2>2 DEF OnlyPage, SearchInv, CurrentNotDone
<1>4. QED BY <1>1, <1>2, <1>3 DEF OnlyPage

(* What the idle handler leaves behind.                                    *)
LEMMA Rests ==
    ASSUME SearchInv, UNCHANGED search, srch' = NoTask,
           page' \in PageSet, NoneAhead', CurrentNotDone', SearchHasTask'
    PROVE  SearchInv'
<1>1. srch'.pc = "idle" /\ srch'.g = 0 /\ srch'.k = 0 /\ SearchTypeOK'
  BY NoTaskOK DEF SearchInv, SearchTypeOK
<1>2. HandlerHolds' BY <1>1 DEF HandlerHolds
<1>3. QED BY <1>1, <1>2 DEF SearchInv

LEMMA FailPageStep == ASSUME SearchInv, FailPage PROVE SearchInv'
<1> DEFINE gn == srch.g
           j == srch.k
<1>1. PICK r \in {"new", "failed"} : page' = [page EXCEPT ![gn][j] = r]
  BY DEF FailPage
<1>2. gn \in Generations /\ j \in Cursors /\ page[gn][j] = "run"
  BY DEF SearchInv, HandlerHolds, SearchTypeOK, FailPage
<1>3. UNCHANGED search /\ srch' = NoTask BY DEF FailPage
<1> HIDE DEF gn, j
<1>4. r \in PageStates \ {"none"} /\ r # "done" BY DEF PageStates
<1>5. page' \in PageSet /\ page'[gn][j] = r /\ NoneAhead' /\ CurrentNotDone'
  BY <1>1, <1>2, <1>3, <1>4, TaskRewritten
<1>6. SearchHasTask'
  <2>1. OnlyPage(gn, j, r) /\ ~search.done /\ search.generation \in Generations
    BY <1>1, <1>2, <1>4, PageWritten DEF SearchInv, SearchTypeOK, HandlerHolds, FailPage, SearchSet
  <2>2. PICK k \in Cursors : page[search.generation][k] \in {"new", "run", "failed"}
    BY <1>2, <2>1 DEF SearchInv, SearchHasTask, FailPage
  <2>3. page'[search.generation][k] \in {"new", "run", "failed"}
    BY <1>2, <1>5, <2>1, <2>2 DEF OnlyPage
  <2>4. QED BY <1>3, <2>3 DEF SearchHasTask
<1>7. QED BY <1>3, <1>5, <1>6, Rests

LEMMA ClaimPageStep ==
    ASSUME SearchInv, NEW g \in Generations, NEW k \in Cursors, ClaimPage(g, k)
    PROVE  SearchInv'
<1>1. page[g][k] = "new" /\ UNCHANGED search BY DEF ClaimPage
<1>2. CASE search.done
  <2>1. page' = [page EXCEPT ![g][k] = "done"] /\ srch' = NoTask
    BY <1>2 DEF ClaimPage
  <2>2. "done" \in PageStates \ {"none"} BY DEF PageStates
  <2>3. page' \in PageSet /\ NoneAhead' /\ CurrentNotDone'
    BY <1>1, <1>2, <2>1, <2>2, TaskRewritten
  <2>4. SearchHasTask' BY <1>1, <1>2 DEF SearchHasTask
  <2>5. QED BY <1>1, <2>1, <2>3, <2>4, Rests
<1>3. CASE ~search.done
  <2>1. /\ page' = [page EXCEPT ![g][k] = "run"]
        /\ srch'.pc = (IF k = search.cursor THEN "plan" ELSE "enqueue")
        /\ srch'.g = g /\ srch'.k = k /\ srch'.row = search
        /\ srch' = [pc |-> srch'.pc, g |-> g, k |-> k, row |-> search, todo |-> srch'.todo]
    BY <1>3 DEF ClaimPage
  <2>2. "run" \in PageStates \ {"none"} BY DEF PageStates
  <2>3. page' \in PageSet /\ page'[g][k] = "run" /\ NoneAhead' /\ CurrentNotDone'
    <3>1. page' = [page EXCEPT ![g][k] = "run"] BY <2>1
    <3>2. page[g][k] # "none" /\ "run" # "done" BY <1>1
    <3>3. QED BY <1>1, <2>2, <3>1, <3>2, TaskRewritten, Zenon
  <2>4. SearchTypeOK'
    <3>1. srch'.pc \in {"plan", "enqueue"} /\ search \in SearchSet
      BY <2>1 DEF SearchInv, SearchTypeOK
    <3>2. srch' \in [pc : {"idle", "boot", "plan", "enqueue", "ack"},
                    g : {0} \cup Generations, k : {0} \cup Cursors,
                    todo : {srch'.todo}, row : SearchSet]
      BY <2>1, <3>1
    <3>3. QED BY <1>1, <2>3, <3>2 DEF SearchInv, SearchTypeOK
  <2>5. HandlerHolds'
    <3>1. g # 0 BY DEF Generations
    <3>2. QED BY <1>1, <1>3, <2>1, <2>3, <3>1 DEF HandlerHolds
  <2>6. SearchHasTask'
    <3>1. srch.pc = "idle" /\ search.generation \in Generations
      BY DEF ClaimPage, SearchInv, SearchTypeOK, SearchSet
    <3>2. OnlyPage(g, k, "run") BY <2>1, <2>2, PageWritten DEF SearchInv, SearchTypeOK
    <3>3. PICK c \in Cursors : page[search.generation][c] \in {"new", "run", "failed"}
      BY <1>3, <3>1 DEF SearchInv, SearchHasTask
    <3>4. page'[search.generation][c] \in {"new", "run", "failed"}
      BY <2>3, <3>1, <3>2, <3>3 DEF OnlyPage
    <3>5. QED BY <1>1, <3>4 DEF SearchHasTask
  <2>7. QED BY <2>3, <2>4, <2>5, <2>6 DEF SearchInv
<1>4. QED BY <1>2, <1>3

LEMMA PlanFoundStep == ASSUME SearchInv, PlanFound PROVE SearchInv'
<1>1. UNCHANGED <<search, page>> BY DEF PlanFound
<1>2. srch' = srch \/ \E t : srch' = [srch EXCEPT !.todo = t]
  BY DEF PlanFound
<1>3. /\ srch'.pc = srch.pc /\ srch'.g = srch.g /\ srch'.k = srch.k /\ srch'.row = srch.row
      /\ SearchTypeOK'
  BY <1>1, <1>2 DEF SearchInv, SearchTypeOK
<1>4. HandlerHolds' /\ NoneAhead' /\ CurrentNotDone' /\ SearchHasTask'
  BY <1>1, <1>3
  DEF SearchInv, HandlerHolds, NoneAhead, CurrentNotDone, SearchHasTask
<1>5. QED BY <1>3, <1>4 DEF SearchInv

LEMMA SaveCursorStep == ASSUME SearchInv, SaveCursor PROVE SearchInv'
<1> DEFINE n == AdvanceRun(search)
           g == srch.g
           k == srch.k
<1>1. /\ srch.row = search /\ ~search.done /\ k = search.cursor
      /\ g \in Generations /\ k \in Cursors /\ page[g][k] = "run"
  BY DEF SearchInv, SearchTypeOK, HandlerHolds, SaveCursor
<1>2. /\ search \in SearchSet /\ search.cursor \in 1 .. Len(Listing[search.definition])
      /\ search.cursor \in Cursors /\ search.generation \in Generations
  BY <1>1, CursorListed DEF SearchInv, SearchTypeOK
<1>3. /\ search' = n /\ page' = page
      /\ srch' = [srch EXCEPT !.pc = IF search'.done THEN "ack" ELSE "enqueue", !.row = search']
  BY <1>1 DEF SaveCursor, SaveSearchRun
<1>4. /\ n \in SearchSet /\ n.generation = search.generation
      /\ ~n.done => n.cursor = search.cursor + 1 /\ n.cursor \in 1 .. Len(Listing[n.definition])
  BY <1>2, Advanced
<1>5. /\ srch'.pc = (IF search'.done THEN "ack" ELSE "enqueue") /\ srch'.row = search'
      /\ srch'.g = g /\ srch'.k = k /\ SearchTypeOK'
  BY <1>3, <1>4 DEF SearchInv, SearchTypeOK
<1> HIDE DEF n, g, k
<1>6. g # 0 /\ search.cursor \in Nat BY <1>1, <1>2 DEF Generations, SearchSet
<1>7. HandlerHolds' BY <1>1, <1>3, <1>4, <1>5, <1>6 DEF HandlerHolds
<1>8. NoneAhead'
  <2>1. SUFFICES ASSUME NEW i \in Generations, NEW j \in Cursors, page[i][j] # "none"
                 PROVE  i < n.generation \/ (i = n.generation /\ (n.done \/ j <= n.cursor))
    BY <1>3 DEF NoneAhead
  <2>2. i < search.generation \/ (i = search.generation /\ j <= search.cursor)
    BY <1>1, <2>1 DEF SearchInv, NoneAhead
  <2>3. j \in Nat
    <3>1. PICK d \in Definitions : j \in DOMAIN Listing[d] BY DEF Cursors
    <3>2. Listing[d] \in Seq(SUBSET Vacancies) BY SearchAssumption
    <3>3. DOMAIN Listing[d] = 1 .. Len(Listing[d]) /\ Len(Listing[d]) \in Nat BY <3>2
    <3>4. QED BY <3>1, <3>3
  <2>4. QED BY <1>4, <1>6, <2>2, <2>3
<1>9. CurrentNotDone'
  <2>1. SUFFICES ASSUME ~n.done PROVE page[n.generation][n.cursor] # "done"
    BY <1>3 DEF CurrentNotDone
  <2>2. n.cursor \in Cursors /\ n.generation \in Generations
    BY <1>4, <2>1, CursorListed
  <2>3. QED BY <1>1, <1>4, <1>6, <2>1, <2>2
            DEF SearchInv, NoneAhead, Generations
<1>10. SearchHasTask'
  <2>1. srch.pc = "plan" BY DEF SaveCursor
  <2>2. PICK c \in Cursors : page[search.generation][c] \in {"new", "run", "failed"}
    BY <1>1, <2>1 DEF SearchInv, SearchHasTask
  <2>3. page'[search'.generation][c] \in {"new", "run", "failed"} BY <1>3, <1>4, <2>2
  <2>4. QED BY <2>3 DEF SearchHasTask
<1>11. QED BY <1>5, <1>7, <1>8, <1>9, <1>10 DEF SearchInv

LEMMA EnqueuePageStep == ASSUME SearchInv, EnqueuePage PROVE SearchInv'
<1> DEFINE gn == search.generation
           j == search.cursor
<1>1. /\ srch.row = search /\ ~search.done /\ UNCHANGED search
      /\ srch' = [srch EXCEPT !.pc = IF srch.g = 0 THEN "idle" ELSE "ack"]
      /\ srch.g # 0 => srch.k # search.cursor
  BY DEF EnqueuePage, SearchInv, HandlerHolds
<1>2. gn \in Generations /\ j \in Cursors /\ search \in SearchSet /\ j \in Nat
  BY <1>1, CursorListed DEF SearchInv, SearchTypeOK, SearchSet
<1>3. page' = IF page[gn][j] = "none" THEN [page EXCEPT ![gn][j] = "new"] ELSE page
  BY <1>1 DEF EnqueuePage, enqueuePage
<1> HIDE DEF gn, j
<1>4. /\ page' \in PageSet /\ page'[gn][j] \notin {"none", "done"}
      /\ \A a \in Generations, b \in Cursors :
            page'[a][b] # page[a][b] => a = gn /\ b = j /\ page[a][b] = "none"
  <2>1. page \in PageSet /\ page[gn][j] # "done" /\ "new" \in PageStates
    BY <1>1 DEF SearchInv, SearchTypeOK, CurrentNotDone, PageStates, gn, j
  <2>2. CASE page[gn][j] = "none"
    <3>1. page' = [page EXCEPT ![gn][j] = "new"] BY <1>3, <2>2
    <3>2. OnlyPage(gn, j, "new") BY <1>2, <2>1, <3>1, PageWritten
    <3>3. QED BY <2>2, <3>2 DEF OnlyPage
  <2>3. CASE page[gn][j] # "none" BY <1>3, <2>1, <2>3
  <2>4. QED BY <2>2, <2>3
<1>5. /\ srch'.pc = (IF srch.g = 0 THEN "idle" ELSE "ack") /\ srch'.row = srch.row
      /\ srch'.g = srch.g /\ srch'.k = srch.k
  BY <1>1 DEF SearchInv, SearchTypeOK
<1>6. SearchTypeOK' BY <1>1, <1>4 DEF SearchInv, SearchTypeOK
<1>7. HandlerHolds'
  <2>1. srch.g # 0 => srch.g \in Generations /\ srch.k \in Cursors /\ page[srch.g][srch.k] = "run"
    BY DEF SearchInv, SearchTypeOK, HandlerHolds
  <2>2. srch.g # 0 => page'[srch.g][srch.k] = "run" BY <1>4, <2>1
  <2>3. page'[search.generation][search.cursor] # "none" BY <1>4 DEF gn, j
  <2>4. QED BY <1>1, <1>5, <2>1, <2>2, <2>3 DEF HandlerHolds
<1>8. NoneAhead'
  <2>1. SUFFICES ASSUME NEW a \in Generations, NEW b \in Cursors, page'[a][b] # "none"
                 PROVE  a < gn \/ (a = gn /\ (search.done \/ b <= j))
    BY <1>1 DEF NoneAhead, gn, j
  <2>2. CASE page'[a][b] = page[a][b]
    BY <2>1, <2>2 DEF SearchInv, NoneAhead, gn, j
  <2>3. CASE page'[a][b] # page[a][b] BY <1>2, <1>4, <2>3
  <2>4. QED BY <2>2, <2>3
<1>9. CurrentNotDone' BY <1>1, <1>4 DEF CurrentNotDone, gn, j
<1>10. SearchHasTask'
  <2>1. page'[gn][j] \in PageStates BY <1>2, <1>4 DEF PageSet
  <2>2. page'[gn][j] \in {"new", "run", "failed"} BY <1>4, <2>1 DEF PageStates
  <2>3. gn = search'.generation BY <1>1 DEF gn
  <2>4. QED BY <1>2, <2>2, <2>3 DEF SearchHasTask
<1>11. QED BY <1>6, <1>7, <1>8, <1>9, <1>10 DEF SearchInv

LEMMA AckPageStep == ASSUME SearchInv, AckPage PROVE SearchInv'
<1> DEFINE g == srch.g
           k == srch.k
<1>1. /\ page' = [page EXCEPT ![g][k] = "done"] /\ srch' = NoTask /\ UNCHANGED search
      /\ srch.pc = "ack"
  BY DEF AckPage
<1>2. /\ g \in Generations /\ k \in Cursors /\ page[g][k] = "run"
      /\ ~search.done => /\ k # search.cursor
                         /\ page[search.generation][search.cursor] # "none"
  BY <1>1 DEF SearchInv, SearchTypeOK, HandlerHolds
<1> HIDE DEF g, k
<1>3. "done" \in PageStates \ {"none"} BY DEF PageStates
<1>4. page' \in PageSet /\ NoneAhead' /\ CurrentNotDone'
  BY <1>1, <1>2, <1>3, TaskRewritten
<1>5. SearchHasTask'
  <2>1. CASE search.done BY <1>1, <2>1 DEF SearchHasTask
  <2>2. CASE ~search.done
    <3>1. search.generation \in Generations /\ search.cursor \in Cursors
      BY <2>2, CursorListed DEF SearchInv, SearchTypeOK
    <3>2. page \in PageSet /\ "done" \in PageStates
      BY DEF SearchInv, SearchTypeOK, PageStates
    <3>3. OnlyPage(g, k, "done") BY <1>1, <1>2, <3>2, PageWritten
    <3>4. page'[search.generation][search.cursor] = page[search.generation][search.cursor]
      BY <1>2, <2>2, <3>1, <3>3 DEF OnlyPage
    <3>5. page'[search.generation][search.cursor] \in PageStates \ {"none", "done"}
      BY <1>1, <1>2, <1>4, <2>2, <3>1, <3>4 DEF PageSet, CurrentNotDone
    <3>6. page'[search'.generation][search.cursor] \in {"new", "run", "failed"}
      BY <1>1, <3>5 DEF PageStates
    <3>7. QED BY <3>1, <3>6 DEF SearchHasTask
  <2>3. QED BY <2>1, <2>2
<1>6. QED BY <1>1, <1>4, <1>5, Rests

LEMMA SearchAside == ASSUME SearchInv, UNCHANGED searchVars PROVE SearchInv'
BY DEF searchVars, SearchInv, SearchTypeOK, HandlerHolds, NoneAhead, CurrentNotDone,
       SearchHasTask

LEMMA SearchNextKeeps ==
    ASSUME SearchInv, [SearchNext]_<<intakeVars, faults, searchVars>> PROVE SearchInv'
<1>1. CASE \E d \in Definitions : EnsureRun(d) BY <1>1, EnsureRunStep
<1>2. CASE \E g \in Generations, k \in Cursors : ClaimPage(g, k) BY <1>2, ClaimPageStep
<1>3. CASE PlanFound BY <1>3, PlanFoundStep
<1>4. CASE SaveCursor BY <1>4, SaveCursorStep
<1>5. CASE EnqueuePage BY <1>5, EnqueuePageStep
<1>6. CASE AckPage BY <1>6, AckPageStep
<1>7. CASE StopProcess BY <1>7, StopProcessStep
<1>8. CASE FailPage BY <1>8, FailPageStep
<1>9. CASE UNCHANGED searchVars BY <1>9, SearchAside
<1>10. QED
  BY <1>1, <1>2, <1>3, <1>4, <1>5, <1>6, <1>7, <1>8, <1>9
  DEF SearchNext, SearchStep, RemoveFound

(* SearchHasTask: a search that is not done has a task of its definition   *)
(* that carries it on, wherever the process stopped between its writes and *)
(* whatever late tasks did (workflow/search_page.go).                      *)
THEOREM SearchCarriesOn == SearchSpec => []SearchHasTask
<1>1. SearchSpec => []SearchInv
  <2>1. SearchInit => SearchInv BY SearchInitInv
  <2>2. SearchInv /\ [SearchNext]_<<intakeVars, faults, searchVars>> => SearchInv'
    BY SearchNextKeeps
  <2>3. QED BY <2>1, <2>2, PTL DEF SearchSpec
<1>2. SearchInv => SearchHasTask BY DEF SearchInv
<1>3. QED BY <1>1, <1>2, PTL

-----------------------------------------------------------------------------
(* The campaign.  A tick is keyed by a revision, and the revision of a row *)
(* grows by one with every write, so the tick of the row's own revision is *)
(* either to come or not over while the campaign runs.                     *)
TickStates == {"none", "new", "run", "done", "failed"}
OpenTick   == {"new", "run", "failed"}
TickTable  == [Runs -> [0 .. MaxTick -> TickStates]]
CampSet == [status : {"none", "running"} \cup Stopped, route : Nat, cursor : Nat,
            revision : Nat]
Working == {"decide", "schedule", "plan", "link"}

HandlerSet(x) ==
    [pc : {"idle", "supersede", "create", "load", "covered", "ensure", "ack"} \cup Working,
     run : {NoRun} \cup Runs, n : 0 .. MaxTick, row : CampSet, seen : {x.seen},
     todo : SUBSET Vacancies, next : {NoVacancy} \cup Vacancies, planned : {x.planned},
     inflight : {x.inflight}, slots : {x.slots}, page : BOOLEAN]

CampaignTypeOK ==
    /\ camp \in [Runs -> CampSet] /\ link \in [Runs -> SUBSET Vacancies]
    /\ tick \in TickTable /\ h \in HandlerSet(h)

(* A row that runs is at a route, and within its lifetime.                 *)
RowOK(row) ==
    /\ row.status = "none" => row.revision = 0
    /\ row.status # "none" => row.revision >= 1 /\ row.route \in RouteIDs
    /\ row.status = "running" => /\ row.cursor \in 0 .. Len(Pages[row.route])
                                 /\ row.revision <= MaxRevision + 1

CampaignRows ==
    \A c \in Runs : RowOK(camp[c]) /\ (camp[c].status = "none" => link[c] = {})

(* No tick is queued for a revision the row has not come to, and that of   *)
(* its own is not over.                                                    *)
TicksInTime ==
    \A c \in Runs :
        /\ \A n \in 1 .. MaxTick : tick[c][n] # "none" => n <= camp[c].revision
        /\ camp[c].status = "running" => tick[c][camp[c].revision] # "done"

(* The handler's task, and the row as it knows it.                         *)
RunHolds ==
    /\ h.pc # "idle" => h.run \in Runs /\ tick[h.run][h.n] = "run"
    /\ h.pc \in {"supersede", "create"} => h.n = 0
    /\ h.pc = "load" => h.n \in 1 .. MaxTick
    /\ h.pc \in {"covered"} \cup Working =>
         h.row = camp[h.run] /\ camp[h.run].status # "none"
    /\ h.pc \in Working => camp[h.run].status = "running"
    /\ h.pc \in {"supersede", "create", "load", "covered", "plan", "link"} => ~h.page
    /\ h.pc \in {"schedule", "plan", "link"} /\ ~h.page => camp[h.run].revision <= MaxRevision
    /\ h.pc \in {"plan", "link"} => h.row.cursor # 0
    /\ h.pc = "link" => h.next \in h.todo
    /\ h.pc \in {"covered"} \cup Working /\ ~h.page => h.n <= camp[h.run].revision
    /\ h.pc \in {"ensure", "ack"} \/ (h.pc \in Working /\ h.page) =>
         h.n < camp[h.run].revision
    /\ h.pc = "ack" /\ camp[h.run].status = "running" =>
         tick[h.run][camp[h.run].revision] # "none"

CampaignInv ==
    CampaignTypeOK /\ CampaignRows /\ TicksInTime /\ RunHolds /\ RunningHasTask

(* One task, or one row, of a table changes.                               *)
OnlyTick(c, n, s) ==
    /\ tick' \in TickTable /\ tick'[c][n] = s
    /\ \A d \in Runs, m \in 0 .. MaxTick :
          d # c \/ m # n => tick'[d][m] = tick[d][m]

OnlyRow(c, row) ==
    /\ camp' \in [Runs -> CampSet] /\ camp'[c] = row
    /\ \A d \in Runs : d # c => camp'[d] = camp[d]

LEMMA TickWritten ==
    ASSUME tick \in TickTable, NEW c \in Runs, NEW n \in 0 .. MaxTick,
           NEW s \in TickStates, tick' = [tick EXCEPT ![c][n] = s]
    PROVE  OnlyTick(c, n, s)
BY DEF TickTable, OnlyTick

LEMMA Bounds ==
    /\ MaxRevision \in Nat /\ MaxTick \in Nat /\ MaxTick = MaxRevision + 2
    /\ 0 \in 0 .. MaxTick /\ Len(Pages) \in Nat /\ RouteIDs = 1 .. Len(Pages)
    /\ 1 \in RouteIDs /\ \A r \in RouteIDs : Len(Pages[r]) \in Nat /\ Len(Pages[r]) >= 1
    /\ \A r \in RouteIDs : DOMAIN Pages[r] = 1 .. Len(Pages[r])
    /\ \A r \in RouteIDs : \A k \in DOMAIN Pages[r] : Pages[r][k] \subseteq Vacancies
<1>1. /\ MaxRevision \in Nat /\ Pages \in Seq(Seq(SUBSET Vacancies)) /\ Pages # <<>>
      /\ \A r \in RouteIDs : Pages[r] # <<>>
  BY CampaignAssumption
<1>2. \A r \in RouteIDs : Pages[r] \in Seq(SUBSET Vacancies) BY <1>1 DEF RouteIDs
<1>3. \A r \in RouteIDs : Len(Pages[r]) \in Nat /\ Len(Pages[r]) >= 1
                          /\ DOMAIN Pages[r] = 1 .. Len(Pages[r])
  BY <1>1, <1>2
<1>5. \A r \in RouteIDs : \A k \in DOMAIN Pages[r] : Pages[r][k] \subseteq Vacancies
  BY <1>2
<1>4. Len(Pages) \in Nat /\ RouteIDs = 1 .. Len(Pages) /\ 1 \in RouteIDs BY <1>1 DEF RouteIDs
<1>6. QED BY <1>1, <1>3, <1>4, <1>5 DEF MaxTick

LEMMA IdleOK ==
    /\ Idle.pc = "idle" /\ Idle.n = 0 /\ ~Idle.page
    /\ NoCampaign \in CampSet
    /\ Idle \in HandlerSet(Idle)
BY Bounds DEF Idle, HandlerSet, NoCampaign, CampSet

(* A campaign that runs keeps a task while no open tick ends.              *)
LEMMA StaysLive ==
    ASSUME RunningHasTask, tick' \in TickTable,
           \A c \in Runs : camp'[c].status = "running" =>
              camp[c].status = "running" \/ \E n \in 0 .. MaxTick : tick'[c][n] \in OpenTick,
           \A c \in Runs, n \in 0 .. MaxTick :
              tick[c][n] \in OpenTick => tick'[c][n] \in OpenTick
    PROVE  RunningHasTask'
BY DEF RunningHasTask, Live, Lost, OpenTick

(* A handler that lets its task go.                                        *)
LEMMA HandlerLetsGo ==
    ASSUME CampaignInv, h.pc # "idle", h' = Idle, UNCHANGED <<camp, link>>,
           NEW s \in {"new", "failed"}, tick' = [tick EXCEPT ![h.run][h.n] = s]
    PROVE  CampaignInv'
<1>1. h.run \in Runs /\ h.n \in 0 .. MaxTick /\ tick[h.run][h.n] = "run"
  BY DEF CampaignInv, CampaignTypeOK, RunHolds, HandlerSet
<1>2. OnlyTick(h.run, h.n, s)
  BY <1>1, TickWritten DEF CampaignInv, CampaignTypeOK, TickStates
<1>3. CampaignTypeOK' BY <1>2, IdleOK DEF CampaignInv, CampaignTypeOK, OnlyTick
<1>4. CampaignRows' BY DEF CampaignInv, CampaignRows
<1>5. TicksInTime'
  <2>1. \A c \in Runs, n \in 0 .. MaxTick :
           tick'[c][n] = tick[c][n] \/ (tick[c][n] = "run" /\ tick'[c][n] = s)
    BY <1>1, <1>2 DEF OnlyTick
  <2>2. \A c \in Runs : camp[c].status = "running" => camp[c].revision \in 0 .. MaxTick
    BY Bounds DEF CampaignInv, CampaignTypeOK, CampaignRows, RowOK, CampSet
  <2>3. \A n \in 1 .. MaxTick : n \in 0 .. MaxTick BY Bounds
  <2>4. QED BY <2>1, <2>2, <2>3 DEF CampaignInv, TicksInTime
<1>6. RunHolds' BY IdleOK DEF RunHolds, Working
<1>7. RunningHasTask'
  BY <1>1, <1>2, StaysLive DEF CampaignInv, OnlyTick, OpenTick
<1>8. QED BY <1>3, <1>4, <1>5, <1>6, <1>7 DEF CampaignInv

(* A handler that goes on with its task, and writes nothing.               *)
LEMMA HandlerGoes ==
    ASSUME CampaignInv, h' \in HandlerSet(h'), UNCHANGED <<camp, link, tick>>, RunHolds'
    PROVE  CampaignInv'
BY DEF CampaignInv, CampaignTypeOK, CampaignRows, TicksInTime, RunningHasTask, Live, Lost

LEMMA StartRunStep == ASSUME CampaignInv, NEW c \in Runs, StartRun(c) PROVE CampaignInv'
<1>1. /\ tick[c][0] = "none" /\ tick' = [tick EXCEPT ![c][0] = "new"]
      /\ UNCHANGED <<camp, link, h>>
  BY DEF StartRun, QueueTick
<1>2. OnlyTick(c, 0, "new")
  BY <1>1, TickWritten, Bounds DEF CampaignInv, CampaignTypeOK, TickStates
<1>3. \A d \in Runs, n \in 0 .. MaxTick : tick[d][n] # "none" => tick'[d][n] = tick[d][n]
  BY <1>1, <1>2 DEF OnlyTick
<1>4. \A d \in Runs, n \in 1 .. MaxTick : tick'[d][n] = tick[d][n]
  BY <1>2, Bounds DEF OnlyTick
<1>5. CampaignTypeOK' BY <1>1, <1>2 DEF CampaignInv, CampaignTypeOK, OnlyTick
<1>6. CampaignRows' BY <1>1 DEF CampaignInv, CampaignRows
<1>7. TicksInTime'
  <2>1. \A d \in Runs : camp[d].status = "running" => camp[d].revision \in 1 .. MaxTick
    BY Bounds DEF CampaignInv, CampaignTypeOK, CampaignRows, RowOK, CampSet
  <2>2. QED BY <1>1, <1>4, <2>1 DEF CampaignInv, TicksInTime
<1>8. RunHolds'
  <2>1. h.pc = "ack" /\ camp[h.run].status = "running" =>
          h.run \in Runs /\ camp[h.run].revision \in 0 .. MaxTick
    BY Bounds DEF CampaignInv, CampaignTypeOK, CampaignRows, RunHolds, RowOK, CampSet
  <2>2. h.n \in 0 .. MaxTick BY DEF CampaignInv, CampaignTypeOK, HandlerSet
  <2>3. QED BY <1>1, <1>3, <2>1, <2>2 DEF CampaignInv, RunHolds
<1>9. RunningHasTask'
  BY <1>1, <1>2, <1>3, StaysLive DEF CampaignInv, OnlyTick, OpenTick
<1>10. QED BY <1>5, <1>6, <1>7, <1>8, <1>9 DEF CampaignInv

LEMMA ClaimStep ==
    ASSUME CampaignInv, NEW c \in Runs, NEW n \in 0 .. MaxTick, Claim(c, n)
    PROVE  CampaignInv'
<1>1. /\ h.pc = "idle" /\ tick[c][n] = "new" /\ tick' = [tick EXCEPT ![c][n] = "run"]
      /\ h' = [Idle EXCEPT !.pc = IF n = 0 THEN "supersede" ELSE "load", !.run = c, !.n = n]
      /\ UNCHANGED <<camp, link>>
  BY DEF Claim
<1>2. OnlyTick(c, n, "run")
  BY <1>1, TickWritten DEF CampaignInv, CampaignTypeOK, TickStates
<1>3. /\ h'.pc = (IF n = 0 THEN "supersede" ELSE "load") /\ h'.run = c /\ h'.n = n
      /\ ~h'.page /\ h' \in HandlerSet(h')
  BY <1>1, IdleOK DEF HandlerSet
<1>4. CampaignTypeOK' BY <1>1, <1>2, <1>3 DEF CampaignInv, CampaignTypeOK, OnlyTick
<1>5. CampaignRows' BY <1>1 DEF CampaignInv, CampaignRows
<1>6. TicksInTime'
  <2>1. \A d \in Runs, m \in 0 .. MaxTick :
           tick'[d][m] = tick[d][m] \/ (tick[d][m] = "new" /\ tick'[d][m] = "run")
    BY <1>1, <1>2 DEF OnlyTick
  <2>2. \A d \in Runs : camp[d].status = "running" => camp[d].revision \in 0 .. MaxTick
    BY Bounds DEF CampaignInv, CampaignTypeOK, CampaignRows, RowOK, CampSet
  <2>3. \A m \in 1 .. MaxTick : m \in 0 .. MaxTick BY Bounds
  <2>4. QED BY <1>1, <2>1, <2>2, <2>3 DEF CampaignInv, TicksInTime
<1>7. RunHolds'
  <2>1. n # 0 => n \in 1 .. MaxTick BY Bounds
  <2>2. QED BY <1>2, <1>3, <2>1 DEF RunHolds, OnlyTick, Working
<1>8. RunningHasTask'
  BY <1>1, <1>2, StaysLive DEF CampaignInv, OnlyTick, OpenTick
<1>9. QED BY <1>4, <1>5, <1>6, <1>7, <1>8 DEF CampaignInv

LEMMA LoadStep == ASSUME CampaignInv, LoadCampaign PROVE CampaignInv'
<1>1. /\ h.pc = "load" /\ UNCHANGED <<camp, link, tick>>
      /\ h' = [h EXCEPT !.pc = IF camp[h.run].revision = h.n THEN "covered" ELSE "ensure",
                        !.row = camp[h.run]]
  BY DEF LoadCampaign
<1>2. /\ h.run \in Runs /\ h.n \in 1 .. MaxTick /\ tick[h.run][h.n] = "run" /\ ~h.page
      /\ h \in HandlerSet(h) /\ camp[h.run] \in CampSet
  BY <1>1 DEF CampaignInv, CampaignTypeOK, RunHolds
<1>3. /\ h'.pc = (IF camp[h.run].revision = h.n THEN "covered" ELSE "ensure")
      /\ h'.run = h.run /\ h'.n = h.n /\ h'.page = h.page /\ h'.row = camp[h.run]
      /\ h' \in HandlerSet(h')
  BY <1>1, <1>2 DEF HandlerSet
<1>4. h.n <= camp[h.run].revision /\ camp[h.run].revision \in Nat
  BY <1>2 DEF CampaignInv, TicksInTime, CampSet
<1>5. camp[h.run].status # "none"
  BY <1>2, <1>4, Bounds DEF CampaignInv, CampaignRows, RowOK
<1>6. h.n \in Nat BY <1>2, Bounds
<1>7. RunHolds'
  BY <1>1, <1>2, <1>3, <1>4, <1>5, <1>6 DEF RunHolds, Working
<1>8. QED BY <1>1, <1>3, <1>7, HandlerGoes

LEMMA RevisionAdvances == ASSUME NEW row, row = [status |-> row.status, route |-> row.route,
                                cursor |-> row.cursor, revision |-> row.revision]
    PROVE advanceRevision(row) = [status |-> row.status, route |-> row.route,
                                  cursor |-> row.cursor, revision |-> row.revision + 1]
BY DEF advanceRevision

LEMMA RowAdvances == ASSUME NEW row \in CampSet, NEW k
    PROVE /\ AdvancePage(row, k) = [status |-> row.status, route |-> row.route,
                                    cursor |-> k, revision |-> row.revision + 1]
          /\ AdvanceRoute(row) = [status |-> row.status, route |-> row.route + 1,
                                  cursor |-> 1, revision |-> row.revision + 1]
          /\ WaitForApplications(row) = [status |-> row.status, route |-> row.route,
                                  cursor |-> row.cursor, revision |-> row.revision + 1]
          /\ StopRow(row, k) = [status |-> k, route |-> row.route,
                                  cursor |-> row.cursor, revision |-> row.revision + 1]
<1>1. row = [status |-> row.status, route |-> row.route, cursor |-> row.cursor,
             revision |-> row.revision]
  BY DEF CampSet
<1>2. [row EXCEPT !.cursor = k] = [status |-> row.status, route |-> row.route,
                                   cursor |-> k, revision |-> row.revision]
  BY <1>1
<1>3. [row EXCEPT !.route = row.route + 1, !.cursor = 1] =
        [status |-> row.status, route |-> row.route + 1, cursor |-> 1,
         revision |-> row.revision]
  <2> DEFINE x == [row EXCEPT !.route = row.route + 1, !.cursor = 1]
  <2>1. x \in [status : {row.status}, route : {row.route + 1}, cursor : {1},
               revision : {row.revision}]
    BY DEF CampSet
  <2> HIDE DEF x
  <2>2. x = [status |-> row.status, route |-> row.route + 1, cursor |-> 1,
             revision |-> row.revision]
    BY <2>1
  <2>3. QED BY <2>2 DEF x
<1>4. [row EXCEPT !.status = k] = [status |-> k, route |-> row.route,
                                   cursor |-> row.cursor, revision |-> row.revision]
  BY <1>1
<1>5. AdvancePage(row, k) = [status |-> row.status, route |-> row.route, cursor |-> k,
                             revision |-> row.revision + 1]
  BY <1>2, RevisionAdvances DEF AdvancePage
<1>6. AdvanceRoute(row) = [status |-> row.status, route |-> row.route + 1, cursor |-> 1,
                           revision |-> row.revision + 1]
  BY <1>3, RevisionAdvances DEF AdvanceRoute
<1>7. StopRow(row, k) = [status |-> k, route |-> row.route, cursor |-> row.cursor,
                         revision |-> row.revision + 1]
  BY <1>4, RevisionAdvances DEF StopRow
<1>8. WaitForApplications(row) = [status |-> row.status, route |-> row.route,
                                  cursor |-> row.cursor, revision |-> row.revision + 1]
  BY <1>1, RevisionAdvances DEF WaitForApplications
<1>9. QED BY <1>5, <1>6, <1>7, <1>8

LEMMA SupersedeStep == ASSUME CampaignInv, Supersede PROVE CampaignInv'
<1>1. PICK S \in SUBSET {c \in Runs \ {h.run} : camp[c].status = "running"} :
         camp' = [c \in Runs |-> IF c \in S THEN StopRow(camp[c], "superseded") ELSE camp[c]]
  BY DEF Supersede
<1>2. /\ h.pc = "supersede" /\ h' = [h EXCEPT !.pc = "create"] /\ UNCHANGED <<link, tick>>
  BY DEF Supersede
<1>3. camp \in [Runs -> CampSet] BY DEF CampaignInv, CampaignTypeOK
<1>4. \A c \in Runs :
         \/ camp'[c] = camp[c]
         \/ /\ camp[c].status = "running" /\ camp'[c].status = "superseded"
            /\ camp'[c].route = camp[c].route /\ camp'[c].revision = camp[c].revision + 1
            /\ camp'[c] \in CampSet
  <2>1. SUFFICES ASSUME NEW c \in Runs, c \in S
                 PROVE  /\ camp[c].status = "running" /\ camp'[c].status = "superseded"
                        /\ camp'[c].route = camp[c].route
                        /\ camp'[c].revision = camp[c].revision + 1 /\ camp'[c] \in CampSet
    BY <1>1
  <2>2. camp'[c] = [status |-> "superseded", route |-> camp[c].route,
                    cursor |-> camp[c].cursor, revision |-> camp[c].revision + 1]
    BY <1>1, <1>3, <2>1, RowAdvances
  <2>3. camp[c].revision + 1 \in Nat BY <1>3 DEF CampSet
  <2>4. QED BY <1>1, <1>3, <2>1, <2>2, <2>3 DEF CampSet, Stopped
<1>5. /\ h'.pc = "create" /\ h'.run = h.run /\ h'.n = h.n /\ h'.page = h.page
      /\ h' \in HandlerSet(h')
  BY <1>2 DEF CampaignInv, CampaignTypeOK, HandlerSet
<1>6. CampaignTypeOK'
  <2>1. camp' \in [Runs -> CampSet]
    <3>1. camp' = [c \in Runs |-> camp'[c]] BY <1>1
    <3>2. \A c \in Runs : camp'[c] \in CampSet BY <1>3, <1>4
    <3>3. QED BY <3>1, <3>2
  <2>2. QED BY <1>2, <1>5, <2>1 DEF CampaignInv, CampaignTypeOK
<1>7. CampaignRows' BY <1>2, <1>3, <1>4 DEF CampaignInv, CampaignRows, RowOK, CampSet
<1>8. TicksInTime' BY <1>2, <1>3, <1>4, Bounds DEF CampaignInv, TicksInTime, CampSet
<1>9. RunHolds' BY <1>2, <1>5 DEF CampaignInv, RunHolds, Working
<1>10. RunningHasTask'
  BY <1>2, <1>4 DEF CampaignInv, RunningHasTask, Live, Lost
<1>11. QED BY <1>6, <1>7, <1>8, <1>9, <1>10 DEF CampaignInv

LEMMA CreateStep == ASSUME CampaignInv, CreateCampaign PROVE CampaignInv'
<1>1. /\ h.pc = "create" /\ UNCHANGED <<link, tick>>
      /\ camp' = IF camp[h.run].status = "none" THEN [camp EXCEPT ![h.run] = NewCampaign]
                 ELSE camp
      /\ h' = [h EXCEPT !.pc = IF camp'[h.run].revision = 1 THEN "covered" ELSE "ensure",
                        !.row = camp'[h.run]]
  BY DEF CreateCampaign, CreateApplicationCampaign
<1>2. /\ h.run \in Runs /\ h.n = 0 /\ tick[h.run][0] = "run" /\ ~h.page
      /\ h \in HandlerSet(h) /\ camp \in [Runs -> CampSet]
  BY <1>1 DEF CampaignInv, CampaignTypeOK, RunHolds
<1>3. NewCampaign \in CampSet /\ RowOK(NewCampaign) /\ NewCampaign.status = "running"
  BY Bounds DEF NewCampaign, CampSet, RowOK
<1>4. camp' = camp \/ (camp[h.run].status = "none" /\ OnlyRow(h.run, NewCampaign))
  BY <1>1, <1>2, <1>3 DEF OnlyRow
<1>5. /\ camp' \in [Runs -> CampSet] /\ camp'[h.run].status # "none"
      /\ \A c \in Runs : camp'[c] # camp[c] =>
           c = h.run /\ camp[c].status = "none" /\ camp'[c] = NewCampaign
  BY <1>1, <1>2, <1>3, <1>4 DEF OnlyRow
<1>6. /\ h'.pc = (IF camp'[h.run].revision = 1 THEN "covered" ELSE "ensure")
      /\ h'.run = h.run /\ h'.n = h.n /\ h'.page = h.page /\ h'.row = camp'[h.run]
      /\ h' \in HandlerSet(h')
  BY <1>1, <1>2, <1>5 DEF HandlerSet
<1>7. CampaignTypeOK' BY <1>1, <1>5, <1>6 DEF CampaignInv, CampaignTypeOK
<1>8. CampaignRows'
  BY <1>1, <1>3, <1>5 DEF CampaignInv, CampaignTypeOK, CampaignRows
<1>9. TicksInTime'
  <2>1. camp[h.run].status = "none" =>
          \A n \in 1 .. MaxTick : tick[h.run][n] = "none"
    BY <1>2, Bounds DEF CampaignInv, CampaignRows, RowOK, TicksInTime
  <2>2. 1 \in 1 .. MaxTick /\ NewCampaign.revision = 1 BY Bounds DEF NewCampaign
  <2>3. QED BY <1>1, <1>5, <2>1, <2>2 DEF CampaignInv, TicksInTime
<1>10. RunHolds'
  <2>1. RowOK(camp'[h.run]) /\ camp'[h.run].revision \in Nat
    BY <1>2, <1>5, <1>8 DEF CampaignRows, CampSet
  <2>2. QED BY <1>1, <1>2, <1>5, <1>6, <2>1 DEF RunHolds, RowOK, Working
<1>11. RunningHasTask'
  <2>1. tick' \in TickTable BY <1>1 DEF CampaignInv, CampaignTypeOK
  <2>2. QED BY <1>1, <1>2, <1>5, <2>1, Bounds, StaysLive DEF CampaignInv, OpenTick
<1>12. QED BY <1>7, <1>8, <1>9, <1>10, <1>11 DEF CampaignInv

(* The row is as the handler read it when it comes to a write.             *)
LEMMA AtARow ==
    ASSUME CampaignInv, h.pc \in {"covered"} \cup Working
    PROVE  /\ h.run \in Runs /\ h.n \in 0 .. MaxTick /\ tick[h.run][h.n] = "run"
           /\ h.row = camp[h.run] /\ h.row \in CampSet /\ RowOK(h.row)
           /\ h.row.status # "none" /\ (h.pc \in Working => h.row.status = "running")
           /\ h.n <= h.row.revision /\ h \in HandlerSet(h)
<1>1. /\ h.run \in Runs /\ tick[h.run][h.n] = "run" /\ h.row = camp[h.run]
      /\ camp[h.run].status # "none"
  BY DEF CampaignInv, RunHolds, Working
<1>2. /\ h \in HandlerSet(h) /\ h.n \in 0 .. MaxTick /\ camp[h.run] \in CampSet
      /\ RowOK(camp[h.run])
  BY <1>1 DEF CampaignInv, CampaignTypeOK, CampaignRows, HandlerSet
<1>3. h.pc \in Working => h.row.status = "running" BY <1>1 DEF CampaignInv, RunHolds
<1>4. h.n <= h.row.revision
  <2>1. h.n \in Nat /\ h.row.revision \in Nat BY <1>1, <1>2, Bounds DEF CampSet
  <2>2. h.page \in BOOLEAN BY <1>2 DEF HandlerSet
  <2>3. CASE ~h.page BY <1>1, <2>3 DEF CampaignInv, RunHolds
  <2>4. CASE h.page
    <3>1. h.pc \in Working BY <2>4 DEF CampaignInv, RunHolds
    <3>2. QED BY <1>1, <2>1, <2>4, <3>1 DEF CampaignInv, RunHolds
  <2>5. QED BY <2>2, <2>3, <2>4
<1>5. QED BY <1>1, <1>2, <1>3, <1>4

LEMMA RowSaved ==
    ASSUME CampaignInv, h.pc \in Working, NEW row \in CampSet,
           SaveApplicationCampaign(h.run, row)
    PROVE  OnlyRow(h.run, row)
BY AtARow DEF CampaignInv, CampaignTypeOK, SaveApplicationCampaign, OnlyRow

(* The row moves on and the campaign with it.                              *)
LEMMA RowMovesOn ==
    ASSUME CampaignInv, h.pc \in Working, NEW row \in CampSet, RowOK(row),
           row.status = "running", row.revision = h.row.revision + 1,
           SaveApplicationCampaign(h.run, row), UNCHANGED <<link, tick>>
    PROVE  /\ OnlyRow(h.run, row) /\ CampaignRows' /\ TicksInTime' /\ RunningHasTask'
           /\ camp' \in [Runs -> CampSet]
<1>1. OnlyRow(h.run, row) BY RowSaved
<1>2. /\ h.run \in Runs /\ camp[h.run].status = "running" /\ h.row = camp[h.run]
      /\ h.row.revision \in Nat
  BY AtARow DEF CampSet
<1>3. CampaignRows' BY <1>1, <1>2 DEF CampaignInv, CampaignRows, OnlyRow
<1>4. TicksInTime'
  <2>1. row.revision \in 1 .. MaxTick BY <1>2, Bounds DEF RowOK
  <2>2. \A n \in 1 .. MaxTick : tick[h.run][n] # "none" => n <= h.row.revision
    BY <1>2 DEF CampaignInv, TicksInTime
  <2>3. tick[h.run][row.revision] = "none"
    BY <1>2, <2>1, <2>2
  <2>4. \A n \in 1 .. MaxTick : tick[h.run][n] # "none" => n <= row.revision
    BY <1>2, <2>2, Bounds
  <2>5. QED BY <1>1, <2>3, <2>4 DEF CampaignInv, TicksInTime, OnlyRow
<1>5. RunningHasTask'
  BY <1>1, <1>2 DEF CampaignInv, RunningHasTask, Live, Lost, OnlyRow
<1>6. QED BY <1>1, <1>3, <1>4, <1>5 DEF OnlyRow

LEMMA CampaignStops ==
    ASSUME CampaignInv, h.pc \in Working, NEW reason \in Stopped,
           SaveApplicationCampaign(h.run, StopRow(h.row, reason)), Finish, UNCHANGED link
    PROVE  CampaignInv' /\ OnlyRow(h.run, StopRow(h.row, reason))
<1> DEFINE row == StopRow(h.row, reason)
<1>1. /\ h.run \in Runs /\ h.n \in 0 .. MaxTick /\ h.row = camp[h.run]
      /\ h.row \in CampSet /\ RowOK(h.row) /\ h.row.status = "running"
  BY AtARow
<1>2. row = [status |-> reason, route |-> h.row.route, cursor |-> h.row.cursor,
             revision |-> h.row.revision + 1]
  BY <1>1, RowAdvances
<1>3. /\ row \in CampSet /\ RowOK(row) /\ row.status = reason
      /\ row.status \notin {"none", "running"} /\ row.revision = h.row.revision + 1
  BY <1>1, <1>2 DEF CampSet, RowOK, Stopped
<1> HIDE DEF row
<1>4. SaveApplicationCampaign(h.run, row) BY DEF row
<1>5. OnlyRow(h.run, row) BY <1>3, <1>4, RowSaved
<1>6. OnlyTick(h.run, h.n, "done") /\ h' = Idle
  BY <1>1, TickWritten DEF Finish, CampaignInv, CampaignTypeOK, TickStates
<1>7. CampaignTypeOK'
  BY <1>5, <1>6, IdleOK DEF CampaignInv, CampaignTypeOK, OnlyTick, OnlyRow
<1>8. CampaignRows' BY <1>1, <1>3, <1>5 DEF CampaignInv, CampaignRows, OnlyRow
<1>9. TicksInTime'
  <2>1. \A c \in Runs : c # h.run => camp'[c] = camp[c]
                          /\ \A n \in 0 .. MaxTick : tick'[c][n] = tick[c][n]
    BY <1>5, <1>6 DEF OnlyRow, OnlyTick
  <2>2. \A c \in Runs : camp[c].status = "running" => camp[c].revision \in 0 .. MaxTick
    BY Bounds DEF CampaignInv, CampaignTypeOK, CampaignRows, RowOK, CampSet
  <2>3. \A n \in 1 .. MaxTick : n \in 0 .. MaxTick BY Bounds
  <2>4. \A n \in 1 .. MaxTick : tick'[h.run][n] # "none" => n <= row.revision
    <3>1. SUFFICES ASSUME NEW n \in 1 .. MaxTick, tick'[h.run][n] # "none"
                   PROVE  n <= h.row.revision
      BY <1>1, <1>3, Bounds DEF CampSet
    <3>2. tick[h.run][n] # "none"
      BY <1>1, <1>6, <2>3, <3>1, AtARow DEF OnlyTick
    <3>3. QED BY <1>1, <3>2 DEF CampaignInv, TicksInTime
  <2>5. camp'[h.run] = row BY <1>5 DEF OnlyRow
  <2>6. SUFFICES ASSUME NEW c \in Runs
                 PROVE  /\ \A n \in 1 .. MaxTick : tick'[c][n] # "none" => n <= camp'[c].revision
                        /\ camp'[c].status = "running" => tick'[c][camp'[c].revision] # "done"
    BY DEF TicksInTime
  <2>7. CASE c = h.run BY <1>3, <2>4, <2>5, <2>7
  <2>8. CASE c # h.run BY <2>1, <2>2, <2>3, <2>8 DEF CampaignInv, TicksInTime
  <2>9. QED BY <2>7, <2>8
<1>10. RunHolds' BY <1>6, IdleOK DEF RunHolds, Working
<1>11. RunningHasTask'
  <2>1. SUFFICES ASSUME NEW c \in Runs, camp'[c].status = "running"
                 PROVE  (Live(c) \/ Lost(c))'
    BY DEF RunningHasTask
  <2>2. c # h.run BY <1>3, <1>5, <2>1 DEF OnlyRow
  <2>3. camp[c].status = "running" BY <1>5, <2>1, <2>2 DEF OnlyRow
  <2>4. \A n \in 0 .. MaxTick : tick'[c][n] = tick[c][n] BY <1>6, <2>2 DEF OnlyTick
  <2>5. QED BY <2>3, <2>4 DEF CampaignInv, RunningHasTask, Live, Lost
<1>12. QED BY <1>5, <1>7, <1>8, <1>9, <1>10, <1>11 DEF CampaignInv, row

(* A task that is over: the campaign stopped, or has the tick of its row.  *)
LEMMA TaskIsOver ==
    ASSUME CampaignInv, h.pc # "idle", Finish, UNCHANGED <<camp, link>>,
           camp[h.run].status = "running" =>
              h.n < camp[h.run].revision /\ tick[h.run][camp[h.run].revision] # "none"
    PROVE  CampaignInv'
<1>1. h.run \in Runs /\ h.n \in 0 .. MaxTick /\ tick[h.run][h.n] = "run"
  BY DEF CampaignInv, CampaignTypeOK, RunHolds, HandlerSet
<1>2. OnlyTick(h.run, h.n, "done") /\ h' = Idle
  BY <1>1, TickWritten DEF Finish, CampaignInv, CampaignTypeOK, TickStates
<1>3. CampaignTypeOK' BY <1>2, IdleOK DEF CampaignInv, CampaignTypeOK, OnlyTick
<1>4. CampaignRows' BY DEF CampaignInv, CampaignRows
<1>5. \A c \in Runs : camp[c].status = "running" =>
         /\ camp[c].revision \in 0 .. MaxTick
         /\ tick'[c][camp[c].revision] = tick[c][camp[c].revision]
  <2>1. \A c \in Runs : camp[c].status = "running" => camp[c].revision \in 0 .. MaxTick
    BY Bounds DEF CampaignInv, CampaignTypeOK, CampaignRows, RowOK, CampSet
  <2>2. h.n \in Nat BY <1>1, Bounds
  <2>3. \A c \in Runs : camp[c].status = "running" => c # h.run \/ camp[c].revision # h.n
    BY <2>2
  <2>4. QED BY <1>2, <2>1, <2>3 DEF OnlyTick
<1>6. TicksInTime'
  <2>1. \A c \in Runs, n \in 0 .. MaxTick : tick'[c][n] # "none" => tick[c][n] # "none"
    BY <1>1, <1>2 DEF OnlyTick
  <2>2. \A n \in 1 .. MaxTick : n \in 0 .. MaxTick BY Bounds
  <2>3. QED BY <1>5, <2>1, <2>2 DEF CampaignInv, TicksInTime
<1>7. RunHolds' BY <1>2, IdleOK DEF RunHolds, Working
<1>8. RunningHasTask'
  <2>1. SUFFICES ASSUME NEW c \in Runs, camp[c].status = "running"
                 PROVE  \E n \in 0 .. MaxTick : tick'[c][n] \in OpenTick
    BY DEF RunningHasTask, Live, Lost, OpenTick
  <2>2. CASE c = h.run
    <3>1. tick[c][camp[c].revision] \notin {"none", "done"}
      BY <2>1, <2>2 DEF CampaignInv, TicksInTime
    <3>2. tick'[c][camp[c].revision] \in TickStates
      BY <1>2, <1>5, <2>1 DEF OnlyTick, TickTable
    <3>3. QED BY <1>5, <2>1, <3>1, <3>2 DEF TickStates, OpenTick
  <2>3. CASE c # h.run
    <3>1. \A n \in 0 .. MaxTick : tick'[c][n] = tick[c][n] BY <1>2, <2>3 DEF OnlyTick
    <3>2. QED BY <2>1, <3>1 DEF CampaignInv, RunningHasTask, Live, Lost, OpenTick
  <2>4. QED BY <2>2, <2>3
<1>9. QED BY <1>3, <1>4, <1>6, <1>7, <1>8 DEF CampaignInv

LEMMA CurrentStep == ASSUME CampaignInv, HandleCurrent PROVE CampaignInv'
<1>1. /\ h.pc = "covered" /\ h.pc # "idle" /\ UNCHANGED <<camp, link>>
      /\ h.row = camp[h.run] /\ ~h.page
  BY AtARow DEF HandleCurrent, CampaignInv, RunHolds
<1>2. CASE h.row.status # "running"
  BY <1>1, <1>2, TaskIsOver DEF HandleCurrent
<1>3. CASE h.row.status = "running"
  <2>1. /\ UNCHANGED tick
        /\ h' = [h EXCEPT !.pc = "decide", !.seen = ListCampaignApplicationStates(h.run)]
    BY <1>3 DEF HandleCurrent
  <2>2. /\ h'.pc = "decide" /\ h'.run = h.run /\ h'.n = h.n /\ h'.page = h.page
        /\ h'.row = h.row /\ h' \in HandlerSet(h')
    BY <1>1, <2>1, AtARow DEF HandlerSet, Working
  <2>3. RunHolds'
    BY <1>1, <1>3, <2>1, <2>2, AtARow DEF RunHolds, Working
  <2>4. QED BY <1>1, <2>1, <2>2, <2>3, HandlerGoes
<1>4. QED BY <1>2, <1>3

LEMMA DecideStep == ASSUME CampaignInv, Decide PROVE CampaignInv'
<1>1. /\ h.pc = "decide" /\ h.pc \in Working /\ link' = link BY DEF Decide, Working
<1>2. PICK old \in Old :
        LET p == progress(h.run, h.seen)
            reason == StopReason(p, old)
        IN IF reason # "none"
           THEN /\ SaveApplicationCampaign(h.run, StopRow(h.row, reason))
                /\ Finish
           ELSE /\ h' = [h EXCEPT !.pc = "schedule", !.planned = p.planned,
                           !.inflight = p.inflight, !.slots = MaxInFlight - p.inflight]
                /\ UNCHANGED <<camp, tick>>
  BY DEF Decide
<1> DEFINE p == progress(h.run, h.seen)
           reason == StopReason(p, old)
<1>3. reason \in Stopped \cup {"none"} /\ (old => reason # "none")
  <2> HIDE DEF p
  <2>1. QED BY DEF StopReason, Stopped
<1>4. CASE reason # "none"
  <2> HIDE DEF reason
  <2>1. SaveApplicationCampaign(h.run, StopRow(h.row, reason)) /\ Finish
    BY <1>2, <1>4 DEF reason
  <2>2. QED BY <1>1, <1>3, <1>4, <2>1, CampaignStops
<1>5. CASE reason = "none"
  <2>1. /\ h' = [h EXCEPT !.pc = "schedule", !.planned = p.planned,
                   !.inflight = p.inflight, !.slots = MaxInFlight - p.inflight]
        /\ UNCHANGED <<camp, tick>>
    BY <1>2, <1>5
  <2>2. /\ h'.pc = "schedule" /\ h'.run = h.run /\ h'.n = h.n /\ h'.page = h.page
        /\ h'.row = h.row /\ h' \in HandlerSet(h')
    <3> HIDE DEF p, reason
    <3>1. QED BY <1>1, <2>1, AtARow DEF HandlerSet, Working
  <2>3. ~h.page => camp[h.run].revision <= MaxRevision
    <3>1. SUFFICES ASSUME ~h.page PROVE ~(camp[h.run].revision > MaxRevision)
      BY <1>1, AtARow, Bounds DEF CampSet
    <3>2. old = FALSE
      <4>1. old \in BOOLEAN BY <1>2 DEF Old
      <4>2. QED BY <1>3, <1>5, <4>1
    <3>3. QED BY <1>1, <1>2, <3>1, <3>2, AtARow DEF Old
  <2>4. RunHolds'
    <3> HIDE DEF p, reason
    <3>1. /\ h.run \in Runs /\ tick[h.run][h.n] = "run" /\ h.row = camp[h.run]
          /\ camp[h.run].status = "running"
      BY <1>1, AtARow
    <3>2. /\ ~h.page => h.n <= camp[h.run].revision
          /\ h.page => h.n < camp[h.run].revision
      BY <1>1 DEF CampaignInv, RunHolds
    <3>3. QED BY <1>1, <2>1, <2>2, <2>3, <3>1, <3>2 DEF RunHolds, Working
  <2>5. QED
    <3> HIDE DEF p, reason
    <3>1. QED BY <1>1, <2>1, <2>2, <2>4, HandlerGoes
<1>6. QED BY <1>4, <1>5

LEMMA ScheduleStep == ASSUME CampaignInv, ScheduleApplication PROVE CampaignInv'
<1>1. /\ h.pc = "schedule" /\ UNCHANGED <<camp, link, tick>>
      /\ h' = [h EXCEPT !.slots = h.slots - 1, !.planned = h.planned - 1,
                        !.inflight = h.inflight + 1]
  BY DEF ScheduleApplication
<1>2. /\ h'.pc = h.pc /\ h'.run = h.run /\ h'.n = h.n /\ h'.page = h.page
      /\ h'.row = h.row /\ h' \in HandlerSet(h')
  BY <1>1, AtARow DEF HandlerSet, Working
<1>3. RunHolds' BY <1>1, <1>2 DEF CampaignInv, RunHolds, Working
<1>4. QED BY <1>1, <1>2, <1>3, HandlerGoes

LEMMA SaveForNextTickStep == ASSUME CampaignInv, SaveForNextTick PROVE CampaignInv'
<1> DEFINE row == IF MustWait THEN WaitForApplications(h.row) ELSE AdvanceRoute(h.row)
<1>1. /\ h.pc = "schedule" /\ ~h.page /\ h.pc \in Working
      /\ UNCHANGED <<link, tick>> /\ SaveApplicationCampaign(h.run, row)
      /\ ~MustWait => h.row.route < Len(Pages)
      /\ h' = [Idle EXCEPT !.pc = "ensure", !.run = h.run, !.n = h.n]
  BY DEF SaveForNextTick, ScheduleDone, Working
<1>2. /\ h.row \in CampSet /\ RowOK(h.row) /\ h.row.status = "running"
      /\ h.run \in Runs /\ h.row = camp[h.run] /\ h.n \in 0 .. MaxTick
      /\ h.n <= h.row.revision /\ tick[h.run][h.n] = "run"
  BY <1>1, AtARow
<1>3. h.row.revision <= MaxRevision BY <1>1, <1>2 DEF CampaignInv, RunHolds
<1>4. /\ row.status = "running" /\ row.revision = h.row.revision + 1
      /\ row \in CampSet /\ RowOK(row)
  <2>1. CASE MustWait
    <3>1. row = [status |-> h.row.status, route |-> h.row.route, cursor |-> h.row.cursor,
                 revision |-> h.row.revision + 1]
      BY <1>2, <2>1, RowAdvances
    <3> HIDE DEF row
    <3>2. h.row.revision + 1 \in 1 .. MaxRevision + 1 BY <1>2, <1>3, Bounds DEF CampSet
    <3>3. row \in CampSet BY <1>2, <3>1, <3>2, Bounds DEF CampSet
    <3>4. QED BY <1>2, <3>1, <3>2, <3>3, Bounds DEF RowOK
  <2>2. CASE ~MustWait
    <3>1. row = [status |-> h.row.status, route |-> h.row.route + 1, cursor |-> 1,
                 revision |-> h.row.revision + 1]
      BY <1>2, <2>2, RowAdvances
    <3>2. h.row.route + 1 \in RouteIDs /\ 1 \in 0 .. Len(Pages[h.row.route + 1])
      <4>1. h.row.route + 1 \in RouteIDs BY <1>1, <1>2, <2>2, Bounds DEF RowOK
      <4>2. QED BY <4>1, Bounds
    <3> HIDE DEF row
    <3>3. h.row.revision + 1 \in 1 .. MaxRevision + 1 BY <1>2, <1>3, Bounds DEF CampSet
    <3>4. row \in CampSet BY <1>2, <3>1, <3>2, <3>3, Bounds DEF CampSet
    <3>5. QED BY <1>2, <3>1, <3>2, <3>3, <3>4, Bounds DEF RowOK
  <2>3. QED BY <2>1, <2>2
<1> HIDE DEF row
<1>5. /\ OnlyRow(h.run, row) /\ CampaignRows' /\ TicksInTime' /\ RunningHasTask'
      /\ camp' \in [Runs -> CampSet]
  BY <1>1, <1>4, RowMovesOn
<1>6. h'.pc = "ensure" /\ h'.run = h.run /\ h'.n = h.n /\ ~h'.page /\ h' \in HandlerSet(h')
  BY <1>1, <1>2, IdleOK DEF HandlerSet
<1>7. RunHolds'
  <2>1. h.n < camp'[h.run].revision
    BY <1>2, <1>4, <1>5, Bounds DEF OnlyRow, CampSet
  <2>2. QED BY <1>1, <1>2, <1>6, <2>1 DEF RunHolds, Working
<1>8. QED BY <1>1, <1>5, <1>6, <1>7 DEF CampaignInv, CampaignTypeOK

LEMMA StopExhaustedStep == ASSUME CampaignInv, StopExhausted PROVE CampaignInv'
<1>1. /\ h.pc \in Working /\ link' = link /\ Finish /\ "exhausted" \in Stopped
      /\ SaveApplicationCampaign(h.run, StopRow(h.row, "exhausted"))
  BY DEF StopExhausted, ScheduleDone, Working, Stopped
<1>2. QED BY <1>1, CampaignStops

LEMMA SearchPageStep == ASSUME CampaignInv, SearchPage PROVE CampaignInv'
<1>1. /\ h.pc = "schedule" /\ ~h.page /\ ~RouteDone(h.row) /\ UNCHANGED <<camp, link>>
  BY DEF SearchPage, ScheduleDone
<1>2. CASE h.row.route \in routes
  <2>1. /\ UNCHANGED tick
        /\ h' = [Idle EXCEPT !.pc = "plan", !.run = h.run, !.n = h.n, !.row = h.row,
                             !.todo = Pages[h.row.route][h.row.cursor] \ Closed]
    BY <1>2 DEF SearchPage
  <2>2. /\ h.run \in Runs /\ h.n \in 0 .. MaxTick /\ tick[h.run][h.n] = "run"
        /\ h.row = camp[h.run] /\ h.row \in CampSet /\ h.row.status = "running"
        /\ h.n <= h.row.revision
    BY <1>1, AtARow DEF Working
  <2>3. h'.todo \in SUBSET Vacancies
    <3>1. h.row.cursor \in DOMAIN Pages[h.row.route] /\ h.row.route \in RouteIDs
      BY <1>1, <2>2, AtARow, Bounds DEF RowOK, RouteDone, Working
    <3>2. h'.todo = Pages[h.row.route][h.row.cursor] \ Closed BY <2>1 DEF Idle
    <3>3. QED BY <3>1, <3>2, Bounds
  <2>7. /\ h'.pc = "plan" /\ h'.run = h.run /\ h'.n = h.n /\ ~h'.page /\ h'.row = h.row
    BY <2>1 DEF Idle
  <2>8. h' \in HandlerSet(h')
    <3> DEFINE todo == Pages[h.row.route][h.row.cursor] \ Closed
    <3>1. todo \in SUBSET Vacancies BY <2>1, <2>3 DEF Idle
    <3> HIDE DEF todo
    <3>2. h' = [Idle EXCEPT !.pc = "plan", !.run = h.run, !.n = h.n, !.row = h.row,
                            !.todo = todo]
      BY <2>1 DEF todo
    <3>3. QED BY <2>2, <3>1, <3>2, IdleOK DEF HandlerSet, Working
  <2>4. h.row.cursor # 0 /\ camp[h.run].revision <= MaxRevision
    BY <1>1, <2>2 DEF RouteDone, CampaignInv, RunHolds
  <2>5. RunHolds' BY <1>1, <2>1, <2>2, <2>7, <2>4 DEF RunHolds, Working
  <2>6. QED BY <1>1, <2>1, <2>8, <2>5, HandlerGoes
<1>3. CASE h.row.route \notin routes
  BY <1>1, <1>3, HandlerLetsGo DEF SearchPage
<1>4. QED BY <1>2, <1>3

LEMMA PlanStep == ASSUME CampaignInv, PlanVacancy PROVE CampaignInv'
<1>1. PICK v \in h.todo :
         \/ h' = [h EXCEPT !.todo = h.todo \ {v}]
         \/ h' = [h EXCEPT !.pc = "link", !.next = v]
  BY DEF PlanVacancy
<1>2. h.pc = "plan" /\ UNCHANGED <<camp, link, tick>> BY DEF PlanVacancy
<1>3. /\ h.run \in Runs /\ h \in HandlerSet(h) /\ v \in Vacancies
  BY <1>1, <1>2, AtARow DEF HandlerSet, Working
<1>4. /\ h'.pc \in {"plan", "link"} /\ h'.run = h.run /\ h'.n = h.n /\ h'.page = h.page
      /\ h'.row = h.row /\ h' \in HandlerSet(h')
      /\ h'.pc = "link" => h'.next \in h'.todo
  <2>1. CASE h' = [h EXCEPT !.todo = h.todo \ {v}]
    BY <1>2, <1>3, <2>1 DEF HandlerSet, Working
  <2>2. CASE h' = [h EXCEPT !.pc = "link", !.next = v]
    BY <1>1, <1>2, <1>3, <2>2 DEF HandlerSet, Working
  <2>3. QED BY <1>1, <2>1, <2>2
<1>5. RunHolds' BY <1>2, <1>4 DEF CampaignInv, RunHolds, Working
<1>6. QED BY <1>2, <1>4, <1>5, HandlerGoes

LEMMA LinkStep == ASSUME CampaignInv, LinkPlanned PROVE CampaignInv'
<1>1. /\ h.pc = "link" /\ LinkCampaignApplication(h.run, h.next) /\ UNCHANGED <<camp, tick>>
      /\ h' = [h EXCEPT !.pc = "plan", !.todo = h.todo \ {h.next}, !.next = NoVacancy]
  BY DEF LinkPlanned
<1>2. /\ h.run \in Runs /\ camp[h.run].status = "running" /\ h \in HandlerSet(h)
      /\ h.next \in Vacancies
  BY <1>1, AtARow DEF HandlerSet, Working, CampaignInv, RunHolds
<1>3. /\ h'.pc = "plan" /\ h'.run = h.run /\ h'.n = h.n /\ h'.page = h.page
      /\ h'.row = h.row /\ h' \in HandlerSet(h')
  <2>1. h.todo \ {h.next} \in SUBSET Vacancies BY <1>2 DEF HandlerSet
  <2>2. QED BY <1>1, <1>2, <2>1 DEF HandlerSet, Working
<1>4. link' \in [Runs -> SUBSET Vacancies] /\ \A c \in Runs : c # h.run => link'[c] = link[c]
  BY <1>1, <1>2 DEF LinkCampaignApplication, CampaignInv, CampaignTypeOK
<1>5. CampaignTypeOK' BY <1>1, <1>3, <1>4 DEF CampaignInv, CampaignTypeOK
<1>6. CampaignRows' BY <1>1, <1>2, <1>4 DEF CampaignInv, CampaignRows
<1>7. TicksInTime' BY <1>1 DEF CampaignInv, TicksInTime
<1>8. RunHolds' BY <1>1, <1>3 DEF CampaignInv, RunHolds, Working
<1>9. RunningHasTask' BY <1>1 DEF CampaignInv, RunningHasTask, Live, Lost
<1>10. QED BY <1>5, <1>6, <1>7, <1>8, <1>9 DEF CampaignInv

(* The cursor after a page.                                                *)
NextCursor(row) == IF row.cursor = Len(Pages[row.route]) THEN 0 ELSE row.cursor + 1

LEMMA PageSaved ==
    ASSUME CampaignInv, SavePage
    PROVE  /\ CampaignInv' /\ h.run \in Runs /\ h'.run = h.run /\ h'.pc = "decide"
           /\ OnlyRow(h.run, AdvancePage(h.row, NextCursor(h.row)))
<1> DEFINE row == AdvancePage(h.row, NextCursor(h.row))
<1>1. /\ h.pc = "plan" /\ h.pc \in Working /\ UNCHANGED <<link, tick>>
      /\ SaveApplicationCampaign(h.run, row)
      /\ h' = [h EXCEPT !.pc = "decide", !.row = row, !.page = TRUE,
                        !.seen = ListCampaignApplicationStates(h.run)]
  BY DEF SavePage, NextCursor, Working
<1>2. /\ h.row \in CampSet /\ RowOK(h.row) /\ h.row.status = "running"
      /\ h.run \in Runs /\ h.row = camp[h.run] /\ h.n \in 0 .. MaxTick
      /\ h.n <= h.row.revision /\ tick[h.run][h.n] = "run" /\ h \in HandlerSet(h)
  BY <1>1, AtARow
<1>3. h.row.revision <= MaxRevision BY <1>1, <1>2 DEF CampaignInv, RunHolds
<1>4. NextCursor(h.row) \in 0 .. Len(Pages[h.row.route])
  BY <1>2, Bounds DEF NextCursor, RowOK, CampSet
<1>5. row = [status |-> h.row.status, route |-> h.row.route, cursor |-> NextCursor(h.row),
             revision |-> h.row.revision + 1]
  BY <1>2, RowAdvances
<1>6. /\ row.status = "running" /\ row.revision = h.row.revision + 1
      /\ row \in CampSet /\ RowOK(row)
  <2>1. NextCursor(h.row) \in Nat BY <1>2, <1>4, Bounds DEF RowOK
  <2>2. h.row.revision + 1 \in 1 .. MaxRevision + 1 BY <1>2, <1>3, Bounds DEF CampSet
  <2> HIDE DEF row
  <2>3. row \in CampSet BY <1>2, <1>5, <2>1, <2>2, Bounds DEF CampSet
  <2>4. QED BY <1>2, <1>4, <1>5, <2>2, <2>3, Bounds DEF RowOK
<1> HIDE DEF row
<1>7. /\ OnlyRow(h.run, row) /\ CampaignRows' /\ TicksInTime' /\ RunningHasTask'
      /\ camp' \in [Runs -> CampSet]
  BY <1>1, <1>2, <1>6, RowMovesOn
<1>8. /\ h'.pc = "decide" /\ h'.run = h.run /\ h'.n = h.n /\ h'.page /\ h'.row = row
      /\ h' \in HandlerSet(h')
  BY <1>1, <1>2, <1>6 DEF HandlerSet, Working
<1>9. RunHolds'
  <2>1. h.n < camp'[h.run].revision
    BY <1>2, <1>6, <1>7, Bounds DEF OnlyRow, CampSet
  <2>2. camp'[h.run] = row BY <1>7 DEF OnlyRow
  <2>3. QED BY <1>1, <1>2, <1>6, <1>8, <2>1, <2>2 DEF RunHolds, Working
<1>10. QED
  BY <1>1, <1>2, <1>7, <1>8, <1>9 DEF CampaignInv, CampaignTypeOK, row

LEMMA EnsureStep == ASSUME CampaignInv, EnsureTick PROVE CampaignInv'
<1>1. /\ h.pc = "ensure" \/ (h.pc = "schedule" /\ h.page)
      /\ ensureTick(h.run) /\ UNCHANGED <<camp, link>>
      /\ h' = [Idle EXCEPT !.pc = "ack", !.run = h.run, !.n = h.n]
  BY DEF EnsureTick, ScheduleDone
<1>2. /\ h.run \in Runs /\ tick[h.run][h.n] = "run" /\ h.n < camp[h.run].revision
      /\ h.n \in 0 .. MaxTick
  BY <1>1 DEF CampaignInv, CampaignTypeOK, HandlerSet, RunHolds, Working
<1>3. h'.pc = "ack" /\ h'.run = h.run /\ h'.n = h.n /\ ~h'.page /\ h' \in HandlerSet(h')
  BY <1>1, <1>2, IdleOK DEF HandlerSet
<1> DEFINE k == camp[h.run].revision
<1>4. CASE tick' = tick
  <2>1. camp[h.run].status = "running" => tick[h.run][k] # "none"
    <3>1. SUFFICES ASSUME camp[h.run].status = "running", tick[h.run][k] = "none" PROVE FALSE
      OBVIOUS
    <3>2. tick' = [tick EXCEPT ![h.run][k] = "new"]
      BY <1>1, <3>1 DEF ensureTick, QueueTick
    <3>3. k \in 0 .. MaxTick
      BY <1>2, <3>1, Bounds DEF CampaignInv, CampaignTypeOK, CampaignRows, RowOK, CampSet
    <3>4. OnlyTick(h.run, k, "new")
      <4> HIDE DEF k
      <4>1. QED BY <1>2, <3>2, <3>3, TickWritten DEF CampaignInv, CampaignTypeOK, TickStates
    <3>5. QED BY <1>4, <3>1, <3>4 DEF OnlyTick
  <2>2. RunHolds' BY <1>1, <1>2, <1>3, <1>4, <2>1 DEF RunHolds, Working
  <2>3. QED BY <1>1, <1>3, <1>4, <2>2, HandlerGoes
<1>5. CASE /\ camp[h.run].status = "running" /\ tick[h.run][k] = "none"
           /\ tick' = [tick EXCEPT ![h.run][k] = "new"]
  <2>1. k \in 1 .. MaxTick /\ k \in 0 .. MaxTick
    BY <1>2, <1>5, Bounds DEF CampaignInv, CampaignTypeOK, CampaignRows, RowOK, CampSet
  <2>2. OnlyTick(h.run, k, "new")
    <3> HIDE DEF k
    <3>1. QED BY <1>2, <1>5, <2>1, TickWritten DEF CampaignInv, CampaignTypeOK, TickStates
  <2>3. \A d \in Runs, n \in 0 .. MaxTick :
           tick'[d][n] = tick[d][n] \/ (d = h.run /\ n = k /\ tick[d][n] = "none" /\ tick'[d][n] = "new")
    BY <1>5, <2>2 DEF OnlyTick
  <2>4. CampaignTypeOK' BY <1>1, <1>3, <2>2 DEF CampaignInv, CampaignTypeOK, OnlyTick
  <2>5. CampaignRows' BY <1>1 DEF CampaignInv, CampaignRows
  <2>6. TicksInTime'
    <3>1. \A c \in Runs : camp[c].status = "running" => camp[c].revision \in 0 .. MaxTick
      BY Bounds DEF CampaignInv, CampaignTypeOK, CampaignRows, RowOK, CampSet
    <3>2. \A n \in 1 .. MaxTick : n \in 0 .. MaxTick BY Bounds
    <3>3. k <= camp[h.run].revision BY <2>1, Bounds
    <3> HIDE DEF k
    <3>4. QED BY <1>1, <2>3, <3>1, <3>2, <3>3 DEF CampaignInv, TicksInTime
  <2>7. RunHolds'
    <3>1. tick'[h.run][h.n] = "run" BY <1>2, <1>5, <2>2 DEF OnlyTick
    <3>2. tick'[h.run][camp[h.run].revision] = "new" BY <2>2 DEF OnlyTick
    <3>3. QED BY <1>1, <1>2, <1>3, <3>1, <3>2 DEF RunHolds, Working
  <2>8. RunningHasTask'
    BY <1>1, <2>2, <2>3, StaysLive DEF CampaignInv, OnlyTick, OpenTick
  <2>9. QED BY <2>4, <2>5, <2>6, <2>7, <2>8 DEF CampaignInv
<1>6. QED BY <1>1, <1>4, <1>5 DEF ensureTick, QueueTick

LEMMA AcknowledgeStep == ASSUME CampaignInv, Acknowledge PROVE CampaignInv'
<1>1. h.pc = "ack" /\ Finish /\ UNCHANGED <<camp, link>> BY DEF Acknowledge
<1>2. QED BY <1>1, TaskIsOver DEF CampaignInv, RunHolds

LEMMA CampaignInitInv == CampaignStarts => CampaignInv
<1> SUFFICES ASSUME CampaignStarts PROVE CampaignInv
  OBVIOUS
<1>1. /\ camp = [c \in Runs |-> NoCampaign] /\ link = [c \in Runs |-> {}]
      /\ tick = [c \in Runs |-> [n \in 0 .. MaxTick |-> "none"]] /\ h = Idle
  BY DEF CampaignStarts, CampaignInit
<1>2. CampaignTypeOK BY <1>1, IdleOK DEF CampaignTypeOK, TickTable, TickStates
<1>3. CampaignRows BY <1>1 DEF CampaignRows, RowOK, NoCampaign
<1>4. TicksInTime BY <1>1, Bounds DEF TicksInTime, NoCampaign
<1>5. RunHolds BY <1>1, IdleOK DEF RunHolds, Working
<1>6. RunningHasTask BY <1>1 DEF RunningHasTask, NoCampaign
<1>7. QED BY <1>2, <1>3, <1>4, <1>5, <1>6 DEF CampaignInv

LEMMA CampaignKeeps == CampaignInv /\ [CampaignNext]_allVars => CampaignInv'
<1> SUFFICES ASSUME CampaignInv, [CampaignNext]_allVars PROVE CampaignInv'
  OBVIOUS
<1>1. CASE HandlerActions
  <2>1. ASSUME NEW c \in Runs, NEW n \in 0 .. MaxTick, Claim(c, n) PROVE CampaignInv'
    BY <2>1, ClaimStep
  <2>2. QED
    BY <1>1, <2>1, LoadStep, SupersedeStep, CreateStep, CurrentStep, DecideStep,
       ScheduleStep, SaveForNextTickStep, StopExhaustedStep, SearchPageStep, PlanStep,
       LinkStep, PageSaved, EnsureStep, AcknowledgeStep
    DEF HandlerActions
<1>2. CASE Interrupt
  <2>1. PICK s \in {"new", "failed"} : tick' = [tick EXCEPT ![h.run][h.n] = s]
    BY <1>2 DEF Interrupt
  <2>2. QED BY <1>2, <2>1, HandlerLetsGo DEF Interrupt
<1>3. ASSUME NEW c \in Runs, StartRun(c) PROVE CampaignInv'
  BY <1>3, StartRunStep
<1>4. CASE UNCHANGED <<camp, link, tick, h>>
  BY <1>4
  DEF CampaignInv, CampaignTypeOK, CampaignRows, TicksInTime, RunHolds, RunningHasTask,
      Live, Lost, HandlerSet
<1>5. QED
  BY <1>1, <1>2, <1>3, <1>4
  DEF CampaignNext, CampaignActions, ReplaceRoutes, RemoveApplication, workVars,
      campaignVars, allVars

(* The invariant of the campaigns holds in every state.                    *)
THEOREM CampaignInductive == CampaignSpec => []CampaignInv
<1>1. QED BY CampaignInitInv, CampaignKeeps, PTL DEF CampaignSpec

(* RunningHasTask: a running campaign has a task that will carry it on,    *)
(* whichever write the process stopped after, unless one of its tasks      *)
(* failed for good (workflow/application_campaign.go).                     *)
THEOREM CampaignCarriesOn == CampaignSpec => []RunningHasTask
<1>1. CampaignInv => RunningHasTask BY DEF CampaignInv
<1>2. QED BY <1>1, CampaignInductive, PTL

-----------------------------------------------------------------------------
(* The applications of a campaign.  One without a task is new and there,   *)
(* and nobody takes a task, a row or a tombstone back.                     *)
TaskStates == {"none", "queued", "settled"}

IntakeOK ==
    /\ app \in [Profiles -> [Vacancies -> AppStatuses]]
    /\ gone \in [Profiles -> [Vacancies -> BOOLEAN]]
    /\ submit \in [Profiles -> [Vacancies -> TaskStates]]
    /\ \A p \in Profiles, v \in Vacancies :
          submit[p][v] = "none" => app[p][v] \in {"none", "new"} /\ ~gone[p][v]

IntakeGrows ==
    \A p \in Profiles, v \in Vacancies :
        /\ app[p][v] # "none" => app'[p][v] # "none"
        /\ gone[p][v] => gone'[p][v]
        /\ submit[p][v] # "none" => submit'[p][v] # "none"

OnlyApp(p, v, s) ==
    /\ app' \in [Profiles -> [Vacancies -> AppStatuses]] /\ app'[p][v] = s
    /\ \A q \in Profiles, w \in Vacancies : q # p \/ w # v => app'[q][w] = app[q][w]

OnlySubmit(p, v, s) ==
    /\ submit' \in [Profiles -> [Vacancies -> TaskStates]] /\ submit'[p][v] = s
    /\ \A q \in Profiles, w \in Vacancies : q # p \/ w # v => submit'[q][w] = submit[q][w]

OnlyGone(p, v) ==
    /\ gone' \in [Profiles -> [Vacancies -> BOOLEAN]] /\ gone'[p][v]
    /\ \A q \in Profiles, w \in Vacancies : q # p \/ w # v => gone'[q][w] = gone[q][w]

LEMMA AppWritten ==
    ASSUME IntakeOK, NEW p \in Profiles, NEW v \in Vacancies, NEW s \in AppStatuses,
           app' = [app EXCEPT ![p][v] = s]
    PROVE  OnlyApp(p, v, s)
BY DEF IntakeOK, OnlyApp

LEMMA SubmitWritten ==
    ASSUME IntakeOK, NEW p \in Profiles, NEW v \in Vacancies, NEW s \in TaskStates,
           submit' = [submit EXCEPT ![p][v] = s]
    PROVE  OnlySubmit(p, v, s)
BY DEF IntakeOK, OnlySubmit

LEMMA GoneWritten ==
    ASSUME IntakeOK, NEW p \in Profiles, NEW v \in Vacancies,
           gone' = [gone EXCEPT ![p][v] = TRUE]
    PROVE  OnlyGone(p, v)
BY DEF IntakeOK, OnlyGone

LEMMA Created ==
    ASSUME IntakeOK, NEW p \in Profiles, NEW v \in Vacancies, CreateApplication(p, v),
           UNCHANGED <<gone, submit>>
    PROVE  IntakeOK' /\ IntakeGrows /\ app'[p][v] # "none"
<1>1. CASE app[p][v] = "none"
  <2>1. OnlyApp(p, v, "new")
    BY <1>1, AppWritten DEF CreateApplication, AppStatuses
  <2>2. QED BY <1>1, <2>1 DEF IntakeOK, IntakeGrows, OnlyApp
<1>2. CASE app[p][v] # "none"
  BY <1>2 DEF CreateApplication, IntakeOK, IntakeGrows
<1>3. QED BY <1>1, <1>2

LEMMA Enqueued ==
    ASSUME IntakeOK, NEW p \in Profiles, NEW v \in Vacancies, EnqueueSubmit(p, v),
           UNCHANGED <<gone, app>>
    PROVE  IntakeOK' /\ IntakeGrows /\ submit'[p][v] # "none"
<1>1. CASE submit[p][v] = "none"
  <2>1. OnlySubmit(p, v, "queued")
    BY <1>1, SubmitWritten DEF EnqueueSubmit, TaskStates
  <2>2. QED BY <1>1, <2>1 DEF IntakeOK, IntakeGrows, OnlySubmit
<1>2. CASE submit[p][v] # "none"
  BY <1>2 DEF EnqueueSubmit, IntakeOK, IntakeGrows
<1>3. QED BY <1>1, <1>2

LEMMA Worked ==
    ASSUME IntakeOK, NEW p \in Profiles, NEW v \in Vacancies, WorkApplication(p, v)
    PROVE  IntakeOK' /\ IntakeGrows
<1>1. submit[p][v] = "queued" /\ gone' = gone BY DEF WorkApplication
<1>2. CASE app' = [app EXCEPT ![p][v] = "quota"] /\ UNCHANGED submit
  <2>1. OnlyApp(p, v, "quota") BY <1>2, AppWritten DEF AppStatuses
  <2>2. QED BY <1>1, <1>2, <2>1 DEF IntakeOK, IntakeGrows, OnlyApp
<1>3. CASE \E s \in {"submitted", "captcha", "closed", "new"} :
             /\ app' = [app EXCEPT ![p][v] = s]
             /\ submit' = [submit EXCEPT ![p][v] = "settled"]
  <2>1. PICK s \in {"submitted", "captcha", "closed", "new"} :
             /\ app' = [app EXCEPT ![p][v] = s]
             /\ submit' = [submit EXCEPT ![p][v] = "settled"]
    BY <1>3
  <2>2. OnlyApp(p, v, s) BY <2>1, AppWritten DEF AppStatuses
  <2>3. OnlySubmit(p, v, "settled") BY <2>1, SubmitWritten DEF TaskStates
  <2>4. QED BY <1>1, <2>1, <2>2, <2>3 DEF IntakeOK, IntakeGrows, OnlyApp, OnlySubmit
<1>4. QED BY <1>2, <1>3 DEF WorkApplication

LEMMA Removed ==
    ASSUME IntakeOK, NEW p \in Profiles, NEW v \in Vacancies, RemoveApplication(p, v)
    PROVE  IntakeOK' /\ IntakeGrows
<1>1. /\ app[p][v] \in AppStatuses \ {"none", "new"} /\ UNCHANGED <<app, submit>>
      /\ gone' = [gone EXCEPT ![p][v] = TRUE]
  BY DEF RemoveApplication
<1>2. OnlyGone(p, v) BY <1>1, GoneWritten
<1>3. QED BY <1>1, <1>2 DEF IntakeOK, IntakeGrows, OnlyGone

LEMMA IntakeKept == ASSUME IntakeOK, UNCHANGED intakeVars PROVE IntakeOK' /\ IntakeGrows
BY DEF IntakeOK, IntakeGrows, intakeVars

LEMMA IntakeKeeps ==
    ASSUME CampaignInv, IntakeOK, [CampaignNext]_allVars PROVE IntakeOK' /\ IntakeGrows
<1>1. CASE ScheduleApplication
  <2>1. PICK v \in Schedulable : EnqueueSubmit(ProfileOf[h.run], v)
    BY <1>1 DEF ScheduleApplication
  <2>2. v \in Vacancies /\ h.run \in Runs /\ UNCHANGED <<app, gone>>
    BY <1>1, <2>1, AtARow DEF Schedulable, ScheduleApplication, Working
  <2>3. ProfileOf[h.run] \in Profiles BY <2>2, CampaignAssumption
  <2>4. QED BY <2>1, <2>2, <2>3, Enqueued
<1>2. CASE PlanVacancy
  <2>1. PICK v \in h.todo :
           UNCHANGED app \/ CreateApplication(ProfileOf[h.run], v)
    BY <1>2 DEF PlanVacancy
  <2>2. UNCHANGED <<gone, submit>> /\ v \in Vacancies /\ h.run \in Runs
    BY <1>2, <2>1, AtARow DEF PlanVacancy, Working, HandlerSet
  <2>3. ProfileOf[h.run] \in Profiles BY <2>2, CampaignAssumption
  <2>4. CASE UNCHANGED app BY <2>2, <2>4, IntakeKept DEF intakeVars
  <2>5. CASE CreateApplication(ProfileOf[h.run], v) BY <2>2, <2>3, <2>5, Created
  <2>6. QED BY <2>1, <2>4, <2>5
<1>3. ASSUME NEW p \in Profiles, NEW v \in Vacancies \ Closed,
             \/ WorkApplication(p, v) \/ FoundElsewhere(p, v) \/ RemoveApplication(p, v)
      PROVE  IntakeOK' /\ IntakeGrows
  <2>1. CASE WorkApplication(p, v) BY <2>1, Worked
  <2>2. CASE FoundElsewhere(p, v) BY <2>2, Created, Enqueued DEF FoundElsewhere
  <2>3. CASE RemoveApplication(p, v) BY <2>3, Removed
  <2>4. QED BY <1>3, <2>1, <2>2, <2>3
<1>4. CASE UNCHANGED intakeVars BY <1>4, IntakeKept
<1>5. CASE HandlerActions
  BY <1>1, <1>2, <1>4, <1>5
  DEF HandlerActions, Claim, LoadCampaign, Supersede, CreateCampaign, HandleCurrent, Decide,
      SaveForNextTick, StopExhausted, SearchPage, LinkPlanned, SavePage, EnsureTick, Acknowledge
<1>6. QED
  BY <1>3, <1>4, <1>5 DEF CampaignNext, CampaignActions, Interrupt, ReplaceRoutes, StartRun, allVars

LinkedExists ==
    \A c \in Runs : \A v \in link[c] : app[ProfileOf[c]][v] # "none"

(* The vacancies of the pages that the cursor is past are handed on.       *)
HandedOn(c, v) == gone[ProfileOf[c]][v] \/ v \in link[c]

Past(row, r, k) == r < row.route \/ (r = row.route /\ (row.cursor = 0 \/ k < row.cursor))

PagesPlanned ==
    \A c \in Runs : camp[c].status \in {"running", "exhausted"} =>
        \A r \in RouteIDs : \A k \in DOMAIN Pages[r] :
            Past(camp[c], r, k) => \A v \in Pages[r][k] \ Closed : HandedOn(c, v)

ExhaustedIsOver ==
    \A c \in Runs : camp[c].status = "exhausted" =>
        /\ camp[c].route = Len(Pages) /\ camp[c].cursor = 0
        /\ \A v \in link[c] : submit[ProfileOf[c]][v] # "none"

(* What is still to be planned of a page, and what a tick counts: every    *)
(* linked application without a task.                                      *)
CountCovers ==
    /\ h.pc \in {"plan", "link"} =>
         \A v \in Pages[h.row.route][h.row.cursor] \ Closed :
             v \in h.todo \/ HandedOn(h.run, v)
    /\ h.pc = "link" => app[ProfileOf[h.run]][h.next] # "none"
    /\ h.pc \in {"decide", "schedule"} =>
         \A v \in link[h.run] :
             submit[ProfileOf[h.run]][v] = "none" => h.seen[v] \in Unfinished
    /\ h.pc = "schedule" => h.planned \in Nat /\ h.planned >= Cardinality(Schedulable)

RowsTail == LinkedExists /\ PagesPlanned /\ ExhaustedIsOver

TailInv == IntakeOK /\ RowsTail /\ CountCovers

LEMMA HandedStays ==
    ASSUME IntakeGrows, NEW c \in Runs, NEW v \in Vacancies, link[c] \subseteq link'[c],
           HandedOn(c, v)
    PROVE  HandedOn(c, v)'
BY CampaignAssumption DEF HandedOn, IntakeGrows

LEMMA Listed ==
    ASSUME NEW r \in RouteIDs, NEW k \in DOMAIN Pages[r], NEW v \in Pages[r][k]
    PROVE  v \in Vacancies
BY Bounds

(* What a step has to show of the rows: what it adds to a campaign exists, *)
(* what the cursor comes past is handed on, and a campaign that becomes    *)
(* exhausted is at its end.                                                *)
LEMMA RowsKept ==
    ASSUME CampaignInv, TailInv, IntakeGrows,
           \A c \in Runs : link[c] \subseteq link'[c] /\ link'[c] \subseteq Vacancies,
           \A c \in Runs : \A v \in link'[c] \ link[c] : app'[ProfileOf[c]][v] # "none",
           \A c \in Runs : camp'[c].status \in {"running", "exhausted"} =>
              \A r \in RouteIDs : \A k \in DOMAIN Pages[r] :
                 Past(camp'[c], r, k) =>
                    \/ camp[c].status \in {"running", "exhausted"} /\ Past(camp[c], r, k)
                    \/ \A v \in Pages[r][k] \ Closed : HandedOn(c, v)',
           \A c \in Runs : camp'[c].status = "exhausted" =>
              \/ camp' = camp /\ link' = link
              \/ camp'[c] = camp[c] /\ link'[c] = link[c]
              \/ /\ camp'[c].route = Len(Pages) /\ camp'[c].cursor = 0
                 /\ \A v \in link'[c] : submit'[ProfileOf[c]][v] # "none"
    PROVE  RowsTail'
<1>1. LinkedExists'
  <2>1. SUFFICES ASSUME NEW c \in Runs, NEW v \in link'[c] PROVE app'[ProfileOf[c]][v] # "none"
    BY DEF LinkedExists
  <2>2. ProfileOf[c] \in Profiles /\ v \in Vacancies BY CampaignAssumption
  <2>3. QED BY <2>2 DEF TailInv, RowsTail, LinkedExists, IntakeGrows
<1>2. PagesPlanned'
  <2>1. SUFFICES ASSUME NEW c \in Runs, camp'[c].status \in {"running", "exhausted"},
                        NEW r \in RouteIDs, NEW k \in DOMAIN Pages[r], Past(camp'[c], r, k),
                        NEW v \in Pages[r][k] \ Closed
                 PROVE  HandedOn(c, v)'
    BY DEF PagesPlanned
  <2>2. CASE camp[c].status \in {"running", "exhausted"} /\ Past(camp[c], r, k)
    <3>1. HandedOn(c, v) BY <2>2 DEF TailInv, RowsTail, PagesPlanned
    <3>2. QED BY <3>1, HandedStays, Listed
  <2>3. QED BY <2>1, <2>2
<1>3. ExhaustedIsOver'
  <2>1. SUFFICES ASSUME NEW c \in Runs, camp'[c].status = "exhausted"
                 PROVE  /\ camp'[c].route = Len(Pages) /\ camp'[c].cursor = 0
                        /\ \A v \in link'[c] : submit'[ProfileOf[c]][v] # "none"
    BY DEF ExhaustedIsOver
  <2>2. CASE camp'[c] = camp[c] /\ link'[c] = link[c]
    <3>1. ProfileOf[c] \in Profiles BY CampaignAssumption
    <3>2. QED BY <2>1, <2>2, <3>1 DEF TailInv, RowsTail, ExhaustedIsOver, IntakeGrows
  <2>3. QED BY <2>1, <2>2
<1>4. QED BY <1>1, <1>2, <1>3 DEF RowsTail

LEMMA RowsStill ==
    ASSUME CampaignInv, TailInv, IntakeGrows, UNCHANGED <<camp, link>>
    PROVE  RowsTail'
<1>1. \A c \in Runs : link[c] \subseteq Vacancies BY DEF CampaignInv, CampaignTypeOK
<1>2. QED BY <1>1, RowsKept

(* A campaign that leaves its routes, with the others as they are.         *)
LEMMA RowsLeft ==
    ASSUME CampaignInv, TailInv, IntakeGrows, UNCHANGED link,
           \A c \in Runs : camp'[c] = camp[c]
                           \/ camp'[c].status \notin {"running", "exhausted"}
    PROVE  RowsTail'
<1>1. \A c \in Runs : link[c] \subseteq Vacancies BY DEF CampaignInv, CampaignTypeOK
<1>2. QED BY <1>1, RowsKept

(* The count still covers what is left when nobody takes a task back.      *)
LEMMA FewerLeft ==
    ASSUME CampaignInv, IntakeGrows, h.run \in Runs, h'.run = h.run, h'.seen = h.seen
    PROVE  /\ Schedulable' \subseteq Schedulable /\ IsFiniteSet(Schedulable)
           /\ Cardinality(Schedulable') \in Nat /\ Cardinality(Schedulable) \in Nat
           /\ Cardinality(Schedulable') <= Cardinality(Schedulable)
<1>1. ProfileOf[h.run] \in Profiles BY CampaignAssumption
<1>2. Schedulable' \subseteq Schedulable
  BY <1>1 DEF Schedulable, applicationTask, IntakeGrows
<1>3. IsFiniteSet(Schedulable)
  <2>1. Schedulable \subseteq Vacancies BY DEF Schedulable
  <2>2. QED BY <2>1, FS_Subset, CampaignAssumption
<1>4. QED BY <1>2, <1>3, FS_Subset, FS_CardinalityType

LEMMA CountKept ==
    ASSUME CampaignInv, TailInv, IntakeGrows, UNCHANGED <<camp, link, h>>
    PROVE  CountCovers'
<1>1. h.pc \in {"plan", "link", "decide", "schedule"} => h.run \in Runs
  BY DEF CampaignInv, RunHolds
<1>2. h.pc \in {"plan", "link"} => \A v \in Pages[h.row.route][h.row.cursor] \ Closed : v \in Vacancies
  <2>1. h.pc \in {"plan", "link"} =>
          h.row.cursor \in DOMAIN Pages[h.row.route] /\ h.row.route \in RouteIDs
    BY AtARow, Bounds DEF CampaignInv, RunHolds, RowOK, Working
  <2>2. QED BY <2>1, Listed
<1>3. h.pc \in {"decide", "schedule"} => \A v \in link[h.run] : v \in Vacancies
  BY <1>1 DEF CampaignInv, CampaignTypeOK
<1>4. h.pc \in {"plan", "link"} =>
        \A v \in Pages[h.row.route][h.row.cursor] \ Closed :
           v \in h.todo \/ HandedOn(h.run, v)'
  BY <1>1, <1>2, HandedStays DEF TailInv, CountCovers
<1>5. h.pc \in {"decide", "schedule"} =>
        \A v \in link[h.run] :
           submit'[ProfileOf[h.run]][v] = "none" => h.seen[v] \in Unfinished
  BY <1>1, <1>3, CampaignAssumption DEF TailInv, CountCovers, IntakeGrows
<1>6. h.pc = "schedule" => h.planned \in Nat /\ h.planned >= Cardinality(Schedulable')
  BY <1>1, FewerLeft DEF TailInv, CountCovers
<1>7. h.pc = "link" => app'[ProfileOf[h.run]][h.next] # "none"
  <2>1. h.pc = "link" => h.next \in Vacancies /\ ProfileOf[h.run] \in Profiles
    BY <1>1, CampaignAssumption DEF CampaignInv, CampaignTypeOK, RunHolds, HandlerSet
  <2>2. QED BY <2>1 DEF TailInv, CountCovers, IntakeGrows
<1>8. QED BY <1>4, <1>5, <1>6, <1>7 DEF CountCovers, HandedOn

(* What is listed of the linked applications finds each one without a task.*)
LEMMA ListCovers ==
    ASSUME IntakeOK, LinkedExists, link \in [Runs -> SUBSET Vacancies], NEW c \in Runs
    PROVE  \A v \in link[c] : submit[ProfileOf[c]][v] = "none"
                                => ListCampaignApplicationStates(c)[v] \in Unfinished
<1>1. SUFFICES ASSUME NEW v \in link[c], submit[ProfileOf[c]][v] = "none"
               PROVE  ListCampaignApplicationStates(c)[v] \in Unfinished
  OBVIOUS
<1>2. v \in Vacancies /\ ProfileOf[c] \in Profiles BY CampaignAssumption
<1>3. ListCampaignApplicationStates(c)[v] = app[ProfileOf[c]][v]
  BY <1>2 DEF ListCampaignApplicationStates
<1>4. app[ProfileOf[c]][v] = "new" BY <1>1, <1>2 DEF IntakeOK, LinkedExists
<1>5. QED BY <1>3, <1>4 DEF Unfinished

LEMMA CurrentTail ==
    ASSUME CampaignInv, TailInv, IntakeGrows, HandleCurrent
    PROVE  RowsTail' /\ CountCovers'
<1>1. h.pc = "covered" /\ UNCHANGED <<camp, link, app, submit, gone>>
  BY DEF HandleCurrent, intakeVars
<1>2. RowsTail' BY <1>1, RowsStill
<1>3. CASE h' = Idle
  <2>1. h'.pc = "idle" BY <1>3, IdleOK
  <2>2. QED BY <1>2, <2>1 DEF CountCovers
<1>4. CASE h' = [h EXCEPT !.pc = "decide", !.seen = ListCampaignApplicationStates(h.run)]
  <2>1. h.run \in Runs /\ h \in HandlerSet(h) BY <1>1, AtARow
  <2>2. /\ h'.pc = "decide" /\ h'.run = h.run
        /\ h'.seen = ListCampaignApplicationStates(h.run)
    BY <1>4, <2>1 DEF HandlerSet
  <2>3. \A v \in link[h.run] : submit[ProfileOf[h.run]][v] = "none"
                                 => ListCampaignApplicationStates(h.run)[v] \in Unfinished
    BY <2>1, ListCovers DEF TailInv, RowsTail, CampaignInv, CampaignTypeOK
  <2>4. \A v \in link'[h'.run] :
           submit'[ProfileOf[h'.run]][v] = "none" => h'.seen[v] \in Unfinished
    BY <1>1, <2>2, <2>3
  <2>5. CountCovers' BY <2>2, <2>4 DEF CountCovers
  <2>6. QED BY <1>2, <2>5
<1>5. QED BY <1>2, <1>3, <1>4 DEF HandleCurrent, Finish

LEMMA DecideTail ==
    ASSUME CampaignInv, TailInv, IntakeGrows, Decide PROVE RowsTail' /\ CountCovers'
<1>1. /\ h.pc = "decide" /\ h.pc \in Working /\ UNCHANGED <<link, app, submit, gone>>
  BY DEF Decide, Working, intakeVars
<1>2. PICK old \in Old :
        LET p == progress(h.run, h.seen)
            reason == StopReason(p, old)
        IN IF reason # "none"
           THEN /\ SaveApplicationCampaign(h.run, StopRow(h.row, reason))
                /\ Finish
           ELSE /\ h' = [h EXCEPT !.pc = "schedule", !.planned = p.planned,
                           !.inflight = p.inflight, !.slots = MaxInFlight - p.inflight]
                /\ UNCHANGED <<camp, tick>>
  BY DEF Decide
<1> DEFINE p == progress(h.run, h.seen)
           reason == StopReason(p, old)
<1>3. CASE reason # "none"
  <2>1. reason \in {"target_reached", "expired", "failed"} /\ reason \in Stopped
    <3> HIDE DEF p
    <3>1. QED BY <1>3 DEF StopReason, Stopped
  <2> HIDE DEF reason
  <2>2. SaveApplicationCampaign(h.run, StopRow(h.row, reason)) /\ Finish
    BY <1>2, <1>3 DEF reason
  <2>3. OnlyRow(h.run, StopRow(h.row, reason)) BY <1>1, <2>1, <2>2, CampaignStops
  <2>4. StopRow(h.row, reason).status = reason
    <3>1. h.row \in CampSet BY <1>1, AtARow
    <3>2. StopRow(h.row, reason) = [status |-> reason, route |-> h.row.route,
                  cursor |-> h.row.cursor, revision |-> h.row.revision + 1]
      BY <3>1, RowAdvances
    <3>3. QED BY <3>2
  <2>5. RowsTail' BY <1>1, <2>1, <2>3, <2>4, RowsLeft DEF OnlyRow
  <2>6. CountCovers' BY <2>2, IdleOK DEF CountCovers, Finish
  <2>7. QED BY <2>5, <2>6
<1>4. CASE reason = "none"
  <2>1. /\ h' = [h EXCEPT !.pc = "schedule", !.planned = p.planned,
                   !.inflight = p.inflight, !.slots = MaxInFlight - p.inflight]
        /\ UNCHANGED camp
    BY <1>2, <1>4
  <2>2. /\ h'.pc = "schedule" /\ h'.run = h.run /\ h'.seen = h.seen
        /\ h'.planned = p.planned /\ h.run \in Runs
    <3> HIDE DEF p, reason
    <3>1. QED BY <1>1, <2>1, AtARow DEF HandlerSet
  <2>3. p.planned = Cardinality(Schedulable)
    <3>1. p.planned = Cardinality({v \in {w \in Vacancies : h.seen[w] \in Unfinished} :
                                     applicationTask(h.run, v) = "none"})
      BY DEF progress, CountOf
    <3>2. {v \in {w \in Vacancies : h.seen[w] \in Unfinished} :
             applicationTask(h.run, v) = "none"} = Schedulable
      BY DEF Schedulable
    <3>3. QED BY <3>1, <3>2
  <2> HIDE DEF p, reason
  <2>4. RowsTail' BY <1>1, <2>1, RowsStill
  <2>5. /\ Cardinality(Schedulable') <= Cardinality(Schedulable)
        /\ Cardinality(Schedulable') \in Nat /\ Cardinality(Schedulable) \in Nat
    BY <2>2, FewerLeft
  <2>6. \A v \in link[h.run] :
           submit[ProfileOf[h.run]][v] = "none" => h.seen[v] \in Unfinished
    BY <1>1 DEF TailInv, CountCovers
  <2>7. CountCovers' BY <1>1, <2>2, <2>3, <2>5, <2>6 DEF CountCovers
  <2>8. QED BY <2>4, <2>7
<1>5. QED BY <1>3, <1>4

LEMMA ScheduleTail ==
    ASSUME CampaignInv, TailInv, IntakeGrows, ScheduleApplication
    PROVE  RowsTail' /\ CountCovers'
<1>1. /\ h.pc = "schedule" /\ UNCHANGED <<camp, link>>
      /\ h' = [h EXCEPT !.slots = h.slots - 1, !.planned = h.planned - 1,
                        !.inflight = h.inflight + 1]
  BY DEF ScheduleApplication
<1>2. PICK v \in Schedulable : EnqueueSubmit(ProfileOf[h.run], v)
  BY DEF ScheduleApplication
<1>3. h.run \in Runs /\ h \in HandlerSet(h) /\ v \in Vacancies
  BY <1>1, AtARow DEF Working, Schedulable
<1>4. /\ h'.pc = "schedule" /\ h'.run = h.run /\ h'.seen = h.seen
      /\ h'.planned = h.planned - 1
  BY <1>1, <1>3 DEF HandlerSet
<1>5. RowsTail' BY <1>1, RowsStill
<1>6. submit'[ProfileOf[h.run]][v] # "none"
  <2>1. ProfileOf[h.run] \in Profiles /\ UNCHANGED <<gone, app>>
    BY <1>3, CampaignAssumption DEF ScheduleApplication
  <2>2. QED BY <1>2, <1>3, <2>1, Enqueued DEF TailInv
<1>7. /\ Schedulable' \subseteq Schedulable \ {v} /\ IsFiniteSet(Schedulable)
      /\ Cardinality(Schedulable) \in Nat
  BY <1>3, <1>4, <1>6, FewerLeft DEF Schedulable, applicationTask
<1>8. /\ Cardinality(Schedulable \ {v}) = Cardinality(Schedulable) - 1
      /\ Cardinality(Schedulable') <= Cardinality(Schedulable \ {v})
      /\ Cardinality(Schedulable') \in Nat
  <2>1. /\ IsFiniteSet(Schedulable \ {v})
        /\ Cardinality(Schedulable \ {v}) = Cardinality(Schedulable) - 1
    BY <1>2, <1>7, FS_RemoveElement
  <2>2. QED BY <1>7, <2>1, FS_Subset, FS_CardinalityType
<1>9. h'.planned \in Nat /\ h'.planned >= Cardinality(Schedulable')
  BY <1>1, <1>4, <1>7, <1>8 DEF TailInv, CountCovers
<1>10. \A w \in link[h.run] :
          submit'[ProfileOf[h.run]][w] = "none" => h.seen[w] \in Unfinished
  <2>1. \A w \in link[h.run] : w \in Vacancies BY <1>3 DEF CampaignInv, CampaignTypeOK
  <2>2. QED BY <1>1, <1>3, <2>1, CampaignAssumption DEF TailInv, CountCovers, IntakeGrows
<1>11. CountCovers' BY <1>1, <1>4, <1>9, <1>10 DEF CountCovers
<1>12. QED BY <1>5, <1>11

(* A tick that does not wait has given every linked application a task.    *)
LEMMA NothingWaits ==
    ASSUME CampaignInv, TailInv, ScheduleDone, ~MustWait, NEW v \in link[h.run]
    PROVE  submit[ProfileOf[h.run]][v] # "none"
<1>1. h.pc = "schedule" /\ h.run \in Runs BY AtARow DEF ScheduleDone, Working
<1>2. h.planned = 0 BY <1>1 DEF MustWait, TailInv, CountCovers
<1>3. Schedulable = {}
  <2>1. IsFiniteSet(Schedulable)
    <3>1. Schedulable \subseteq Vacancies BY DEF Schedulable
    <3>2. QED BY <3>1, FS_Subset, CampaignAssumption
  <2>2. Cardinality(Schedulable) \in Nat BY <2>1, FS_CardinalityType
  <2>3. Cardinality(Schedulable) = 0
    BY <1>1, <1>2, <2>2 DEF TailInv, CountCovers
  <2>4. QED BY <2>1, <2>3, FS_EmptySet
<1>4. v \in Vacancies BY <1>1 DEF CampaignInv, CampaignTypeOK
<1>5. QED BY <1>1, <1>3, <1>4 DEF TailInv, CountCovers, Schedulable, applicationTask

LEMMA SaveForNextTickTail ==
    ASSUME CampaignInv, TailInv, IntakeGrows, SaveForNextTick
    PROVE  RowsTail' /\ CountCovers'
<1> DEFINE row == IF MustWait THEN WaitForApplications(h.row) ELSE AdvanceRoute(h.row)
<1>1. /\ h.pc = "schedule" /\ h.pc \in Working /\ link' = link
      /\ SaveApplicationCampaign(h.run, row)
      /\ ~MustWait => RouteDone(h.row) /\ h.row.route < Len(Pages)
      /\ h' = [Idle EXCEPT !.pc = "ensure", !.run = h.run, !.n = h.n]
  BY DEF SaveForNextTick, ScheduleDone, Working
<1>2. /\ h.run \in Runs /\ h.row = camp[h.run] /\ h.row \in CampSet /\ RowOK(h.row)
      /\ h.row.status = "running"
  BY <1>1, AtARow
<1>3. /\ row.status = "running" /\ row \in CampSet
      /\ \A r \in RouteIDs, k \in Nat \ {0} : Past(row, r, k) => Past(h.row, r, k)
  <2>1. CASE MustWait
    <3>1. row = [status |-> h.row.status, route |-> h.row.route, cursor |-> h.row.cursor,
                 revision |-> h.row.revision + 1]
      BY <1>2, <2>1, RowAdvances
    <3> HIDE DEF row
    <3>2. QED BY <1>2, <3>1 DEF CampSet, Past
  <2>2. CASE ~MustWait
    <3>1. row = [status |-> h.row.status, route |-> h.row.route + 1, cursor |-> 1,
                 revision |-> h.row.revision + 1]
      BY <1>2, <2>2, RowAdvances
    <3>2. h.row.cursor = 0 /\ h.row.route \in Nat /\ h.row.revision \in Nat
      BY <1>1, <1>2, <2>2 DEF RouteDone, CampSet
    <3> HIDE DEF row
    <3>3. row \in CampSet /\ row.status = "running" /\ row.route = h.row.route + 1
          /\ row.cursor = 1
      BY <1>2, <3>1, <3>2 DEF CampSet
    <3>4. SUFFICES ASSUME NEW r \in RouteIDs, NEW k \in Nat \ {0}, Past(row, r, k)
                   PROVE  Past(h.row, r, k)
      BY <3>3
    <3>5. r \in Nat BY Bounds
    <3>6. QED BY <3>2, <3>3, <3>4, <3>5 DEF Past
  <2>3. QED BY <2>1, <2>2
<1> HIDE DEF row
<1>4. OnlyRow(h.run, row) BY <1>1, <1>3, RowSaved
<1>5. \A c \in Runs : link[c] \subseteq Vacancies BY DEF CampaignInv, CampaignTypeOK
<1>6. \A c \in Runs : camp'[c].status \in {"running", "exhausted"} =>
         \A r \in RouteIDs : \A k \in DOMAIN Pages[r] :
            Past(camp'[c], r, k) =>
               camp[c].status \in {"running", "exhausted"} /\ Past(camp[c], r, k)
  <2>1. \A r \in RouteIDs : \A k \in DOMAIN Pages[r] : k \in Nat \ {0} BY Bounds
  <2>2. QED BY <1>2, <1>3, <1>4, <2>1 DEF OnlyRow
<1>7. \A c \in Runs : camp'[c].status = "exhausted" => camp'[c] = camp[c] /\ link'[c] = link[c]
  BY <1>1, <1>3, <1>4 DEF OnlyRow
<1>8. RowsTail' BY <1>1, <1>5, <1>6, <1>7, RowsKept
<1>9. h'.pc = "ensure" BY <1>1 DEF Idle
<1>10. QED BY <1>8, <1>9 DEF CountCovers

LEMMA StopExhaustedTail ==
    ASSUME CampaignInv, TailInv, IntakeGrows, StopExhausted
    PROVE  RowsTail' /\ CountCovers'
<1> DEFINE row == StopRow(h.row, "exhausted")
<1>1. /\ ScheduleDone /\ ~MustWait /\ RouteDone(h.row) /\ h.row.route = Len(Pages)
      /\ h.pc = "schedule" /\ h.pc \in Working /\ "exhausted" \in Stopped
      /\ UNCHANGED <<link, submit>> /\ Finish
      /\ SaveApplicationCampaign(h.run, row)
  BY DEF StopExhausted, ScheduleDone, Working, Stopped, intakeVars
<1>2. h.run \in Runs /\ h.row = camp[h.run] /\ h.row \in CampSet /\ h.row.status = "running"
  BY <1>1, AtARow
<1>3. row = [status |-> "exhausted", route |-> h.row.route, cursor |-> h.row.cursor,
             revision |-> h.row.revision + 1]
  BY <1>2, RowAdvances
<1>4. OnlyRow(h.run, row) BY <1>1, CampaignStops
<1> HIDE DEF row
<1>5. \A c \in Runs : link[c] \subseteq Vacancies BY DEF CampaignInv, CampaignTypeOK
<1>6. \A c \in Runs : camp'[c].status \in {"running", "exhausted"} =>
         \A r \in RouteIDs : \A k \in DOMAIN Pages[r] :
            Past(camp'[c], r, k) =>
               camp[c].status \in {"running", "exhausted"} /\ Past(camp[c], r, k)
  BY <1>2, <1>3, <1>4 DEF OnlyRow, Past
<1>7. \A c \in Runs : camp'[c].status = "exhausted" =>
         \/ camp'[c] = camp[c] /\ link'[c] = link[c]
         \/ /\ camp'[c].route = Len(Pages) /\ camp'[c].cursor = 0
            /\ \A v \in link'[c] : submit'[ProfileOf[c]][v] # "none"
  <2>1. \A v \in link[h.run] : submit[ProfileOf[h.run]][v] # "none" BY <1>1, NothingWaits
  <2>2. row.route = Len(Pages) /\ row.cursor = 0 BY <1>1, <1>3 DEF RouteDone
  <2>3. camp'[h.run] = row /\ \A c \in Runs : c # h.run => camp'[c] = camp[c]
    BY <1>4 DEF OnlyRow
  <2>4. QED BY <1>1, <2>1, <2>2, <2>3
<1>8. RowsTail' BY <1>1, <1>5, <1>6, <1>7, RowsKept
<1>9. h'.pc = "idle" BY <1>1, IdleOK DEF Finish
<1>10. QED BY <1>8, <1>9 DEF CountCovers

LEMMA SearchPageTail ==
    ASSUME CampaignInv, TailInv, IntakeGrows, SearchPage PROVE RowsTail' /\ CountCovers'
<1>1. UNCHANGED <<camp, link>> BY DEF SearchPage
<1>2. RowsTail' BY <1>1, RowsStill
<1>3. CASE h' = [Idle EXCEPT !.pc = "plan", !.run = h.run, !.n = h.n, !.row = h.row,
                             !.todo = Pages[h.row.route][h.row.cursor] \ Closed]
  <2>1. /\ h'.pc = "plan" /\ h'.row = h.row
        /\ h'.todo = Pages[h.row.route][h.row.cursor] \ Closed
    BY <1>3 DEF Idle
  <2>2. QED BY <1>2, <2>1 DEF CountCovers
<1>4. CASE h' = Idle
  <2>1. h'.pc = "idle" BY <1>4, IdleOK
  <2>2. QED BY <1>2, <2>1 DEF CountCovers
<1>5. QED BY <1>3, <1>4 DEF SearchPage

NowHandedOn(c, v) == gone'[ProfileOf[c]][v] \/ v \in link'[c]

(* Of the page under way everything stays to do or handed on, but for the  *)
(* vacancy v that a step is through with.                                  *)
LEMMA PageCovered ==
    ASSUME CampaignInv, TailInv, IntakeGrows, h.pc \in {"plan", "link"}, camp' = camp,
           \A c \in Runs : link[c] \subseteq link'[c],
           h'.run = h.run, h'.row = h.row, NEW v,
           h'.todo = h.todo \/ (h'.todo = h.todo \ {v} /\ NowHandedOn(h.run, v))
    PROVE  \A w \in Pages[h.row.route][h.row.cursor] \ Closed :
               w \in h'.todo \/ NowHandedOn(h.run, w)
<1>1. /\ h.run \in Runs /\ h.row = camp[h.run] /\ RowOK(h.row)
      /\ h.row.status = "running" /\ h.row.cursor # 0
  BY AtARow DEF Working, CampaignInv, RunHolds
<1>2. SUFFICES ASSUME NEW w \in Pages[h.row.route][h.row.cursor] \ Closed
               PROVE  w \in h'.todo \/ NowHandedOn(h.run, w)
  OBVIOUS
<1>3. w \in Vacancies
  <2>1. h.row.cursor \in DOMAIN Pages[h.row.route] /\ h.row.route \in RouteIDs
    BY <1>1, Bounds DEF RowOK
  <2>2. QED BY <1>2, <2>1, Listed
<1>4. w \in h.todo \/ HandedOn(h.run, w) BY <1>2 DEF TailInv, CountCovers
<1>5. PICK c \in Runs : c = h.run BY <1>1
<1>6. HandedOn(c, w) => HandedOn(c, w)' BY <1>3, HandedStays
<1>7. HandedOn(h.run, w) => NowHandedOn(h.run, w) BY <1>5, <1>6 DEF HandedOn, NowHandedOn
<1>8. CASE w = v /\ NowHandedOn(h.run, v) BY <1>8
<1>9. CASE h'.todo = h.todo \/ w # v BY <1>4, <1>7, <1>9
<1>10. QED BY <1>8, <1>9

LEMMA PlanTail ==
    ASSUME CampaignInv, TailInv, IntakeGrows, PlanVacancy PROVE RowsTail' /\ CountCovers'
<1>1. PICK v \in h.todo :
         IF gone[ProfileOf[h.run]][v]
         THEN h' = [h EXCEPT !.todo = h.todo \ {v}] /\ UNCHANGED app
         ELSE CreateApplication(ProfileOf[h.run], v) /\ h' = [h EXCEPT !.pc = "link", !.next = v]
  BY DEF PlanVacancy
<1>2. h.pc = "plan" /\ UNCHANGED <<camp, link, gone, submit>> BY DEF PlanVacancy
<1>3. h.run \in Runs /\ h \in HandlerSet(h)
  BY <1>2, AtARow DEF Working, CampaignInv, RunHolds
<1>4. v \in Vacancies /\ ProfileOf[h.run] \in Profiles
  BY <1>1, <1>3, CampaignAssumption DEF HandlerSet
<1>5. RowsTail' BY <1>2, RowsStill
<1>6. CASE gone[ProfileOf[h.run]][v] /\ h' = [h EXCEPT !.todo = h.todo \ {v}]
  <2>1. /\ h'.pc = "plan" /\ h'.run = h.run /\ h'.row = h.row /\ h'.todo = h.todo \ {v}
    BY <1>2, <1>3, <1>6 DEF HandlerSet
  <2>2. NowHandedOn(h.run, v) BY <1>2, <1>6, <2>1 DEF NowHandedOn
  <2>3. \A w \in Pages[h.row.route][h.row.cursor] \ Closed :
            w \in h'.todo \/ NowHandedOn(h.run, w)
    BY <1>2, <2>1, <2>2, PageCovered
  <2>4. CountCovers' BY <2>1, <2>3 DEF CountCovers, HandedOn, NowHandedOn
  <2>5. QED BY <1>5, <2>4
<1>7. CASE /\ CreateApplication(ProfileOf[h.run], v)
           /\ h' = [h EXCEPT !.pc = "link", !.next = v]
  <2>1. /\ h'.pc = "link" /\ h'.run = h.run /\ h'.row = h.row /\ h'.todo = h.todo
        /\ h'.next = v
    BY <1>2, <1>3, <1>7 DEF HandlerSet
  <2>2. app'[ProfileOf[h.run]][v] # "none" BY <1>2, <1>4, <1>7, Created DEF TailInv
  <2>3. \A w \in Pages[h.row.route][h.row.cursor] \ Closed :
            w \in h'.todo \/ NowHandedOn(h.run, w)
    BY <1>2, <2>1, PageCovered
  <2>4. CountCovers' BY <2>1, <2>2, <2>3 DEF CountCovers, HandedOn, NowHandedOn
  <2>5. QED BY <1>5, <2>4
<1>8. QED BY <1>1, <1>6, <1>7

LEMMA LinkTail ==
    ASSUME CampaignInv, TailInv, IntakeGrows, LinkPlanned PROVE RowsTail' /\ CountCovers'
<1>1. /\ h.pc = "link" /\ UNCHANGED <<camp, app, gone, submit>>
      /\ link' = [link EXCEPT ![h.run] = link[h.run] \cup {h.next}]
      /\ h' = [h EXCEPT !.pc = "plan", !.todo = h.todo \ {h.next}, !.next = NoVacancy]
  BY DEF LinkPlanned, LinkCampaignApplication, intakeVars
<1>2. /\ h.run \in Runs /\ h \in HandlerSet(h) /\ h.next \in Vacancies
      /\ camp[h.run].status = "running" /\ app[ProfileOf[h.run]][h.next] # "none"
  BY <1>1, AtARow DEF Working, CampaignInv, RunHolds, HandlerSet, TailInv, CountCovers
<1>3. link \in [Runs -> SUBSET Vacancies] BY DEF CampaignInv, CampaignTypeOK
<1>4. /\ \A c \in Runs : link[c] \subseteq link'[c] /\ link'[c] \subseteq Vacancies
      /\ \A c \in Runs : c # h.run => link'[c] = link[c]
      /\ link'[h.run] \ link[h.run] \subseteq {h.next} /\ h.next \in link'[h.run]
  BY <1>1, <1>2, <1>3
<1>5. RowsTail'
  <2>1. \A c \in Runs : camp[c].status = "exhausted" => camp'[c] = camp[c] /\ link'[c] = link[c]
    BY <1>1, <1>2, <1>4
  <2>2. \A c \in Runs : \A w \in link'[c] \ link[c] : app'[ProfileOf[c]][w] # "none"
    BY <1>1, <1>2, <1>4
  <2>3. QED BY <1>1, <1>4, <2>1, <2>2, RowsKept
<1>6. /\ h'.pc = "plan" /\ h'.run = h.run /\ h'.row = h.row /\ h'.todo = h.todo \ {h.next}
  BY <1>1, <1>2 DEF HandlerSet
<1>7. CountCovers'
  <2>1. PICK v \in Vacancies : v = h.next BY <1>2
  <2>2. NowHandedOn(h.run, v) BY <1>4, <1>6, <2>1 DEF NowHandedOn
  <2>3. \A w \in Pages[h.row.route][h.row.cursor] \ Closed :
            w \in h'.todo \/ NowHandedOn(h.run, w)
    BY <1>1, <1>4, <1>6, <2>1, <2>2, PageCovered
  <2>4. QED BY <1>6, <2>3 DEF CountCovers, HandedOn, NowHandedOn
<1>8. QED BY <1>5, <1>7

LEMMA SavePageTail ==
    ASSUME CampaignInv, TailInv, IntakeGrows, SavePage PROVE RowsTail' /\ CountCovers'
<1> DEFINE row == AdvancePage(h.row, NextCursor(h.row))
<1>1. /\ h.pc = "plan" /\ h.todo = {} /\ h.pc \in Working
      /\ UNCHANGED <<link, app, submit, gone>>
      /\ h' = [h EXCEPT !.pc = "decide", !.row = row, !.page = TRUE,
                        !.seen = ListCampaignApplicationStates(h.run)]
  BY DEF SavePage, NextCursor, Working, intakeVars
<1>2. /\ h.run \in Runs /\ h.row = camp[h.run] /\ h.row \in CampSet /\ RowOK(h.row)
      /\ h.row.status = "running" /\ h.row.cursor # 0 /\ h \in HandlerSet(h)
  BY <1>1, AtARow DEF CampaignInv, RunHolds
<1>3. row = [status |-> h.row.status, route |-> h.row.route, cursor |-> NextCursor(h.row),
             revision |-> h.row.revision + 1]
  BY <1>2, RowAdvances
<1>4. OnlyRow(h.run, row) /\ h'.pc = "decide" /\ h'.run = h.run BY PageSaved
<1> HIDE DEF row
<1>5. h'.seen = ListCampaignApplicationStates(h.run) BY <1>1, <1>2 DEF HandlerSet
<1>6. link \in [Runs -> SUBSET Vacancies] BY DEF CampaignInv, CampaignTypeOK
<1>7. \A r \in RouteIDs : \A k \in DOMAIN Pages[r] :
         Past(row, r, k) => \/ Past(h.row, r, k)
                            \/ r = h.row.route /\ k = h.row.cursor
  <2>1. SUFFICES ASSUME NEW r \in RouteIDs, NEW k \in DOMAIN Pages[r], Past(row, r, k),
                        r = h.row.route
                 PROVE  k <= h.row.cursor
    <3>1. ASSUME NEW r \in RouteIDs, NEW k \in DOMAIN Pages[r], Past(row, r, k),
                 r = h.row.route => k <= h.row.cursor
          PROVE  Past(h.row, r, k) \/ (r = h.row.route /\ k = h.row.cursor)
      <4>1. k \in Nat /\ r \in Nat /\ h.row.route \in Nat /\ h.row.cursor \in Nat
        BY <1>2, <3>1, Bounds DEF CampSet
      <4>2. row.route = h.row.route BY <1>3
      <4>3. r < h.row.route \/ r = h.row.route BY <3>1, <4>2 DEF Past
      <4>4. QED BY <3>1, <4>1, <4>3 DEF Past
    <3>2. QED BY <3>1
  <2>2. /\ k \in 1 .. Len(Pages[r]) /\ Len(Pages[r]) \in Nat /\ h.row.cursor \in Nat
        /\ r \in Nat /\ row.route = h.row.route /\ row.cursor = NextCursor(h.row)
    BY <1>2, <1>3, <2>1, Bounds DEF CampSet
  <2>3. CASE h.row.cursor = Len(Pages[h.row.route]) BY <2>1, <2>2, <2>3
  <2>4. CASE h.row.cursor # Len(Pages[h.row.route])
    BY <2>1, <2>2, <2>4 DEF NextCursor, Past
  <2>5. QED BY <2>3, <2>4
<1>8. \A v \in Pages[h.row.route][h.row.cursor] \ Closed : HandedOn(h.run, v)'
  <2>1. \A v \in Pages[h.row.route][h.row.cursor] \ Closed : HandedOn(h.run, v)
    BY <1>1 DEF TailInv, CountCovers
  <2>2. QED BY <1>1, <1>4, <2>1 DEF HandedOn
<1>9. \A c \in Runs : camp'[c].status \in {"running", "exhausted"} =>
         \A r \in RouteIDs : \A k \in DOMAIN Pages[r] :
            Past(camp'[c], r, k) =>
               \/ camp[c].status \in {"running", "exhausted"} /\ Past(camp[c], r, k)
               \/ \A v \in Pages[r][k] \ Closed : HandedOn(c, v)'
  <2>1. SUFFICES ASSUME NEW c \in Runs, camp'[c].status \in {"running", "exhausted"},
                        NEW r \in RouteIDs, NEW k \in DOMAIN Pages[r], Past(camp'[c], r, k)
                 PROVE  \/ camp[c].status \in {"running", "exhausted"} /\ Past(camp[c], r, k)
                        \/ \A v \in Pages[r][k] \ Closed : HandedOn(c, v)'
    OBVIOUS
  <2>2. CASE c # h.run BY <1>4, <2>1, <2>2 DEF OnlyRow
  <2>3. CASE c = h.run
    <3>1. camp'[c] = row BY <1>4, <2>3 DEF OnlyRow
    <3>2. CASE Past(h.row, r, k) BY <1>2, <2>3, <3>2
    <3>3. CASE r = h.row.route /\ k = h.row.cursor
      <4>1. \A v \in Pages[r][k] \ Closed : HandedOn(h.run, v)' BY <1>8, <3>3
      <4>2. QED BY <1>4, <2>3, <4>1 DEF HandedOn
    <3>4. QED BY <1>7, <2>1, <3>1, <3>2, <3>3
  <2>4. QED BY <2>2, <2>3
<1>10. \A c \in Runs : camp'[c].status = "exhausted" => camp'[c] = camp[c] /\ link'[c] = link[c]
  <2>1. row.status = "running" BY <1>2, <1>3
  <2>2. QED BY <1>1, <1>4, <2>1 DEF OnlyRow
<1>11. RowsTail' BY <1>1, <1>6, <1>9, <1>10, RowsKept
<1>12. CountCovers'
  <2>1. \A v \in link[h.run] : submit[ProfileOf[h.run]][v] = "none"
                                 => ListCampaignApplicationStates(h.run)[v] \in Unfinished
    BY <1>2, <1>6, ListCovers DEF TailInv, RowsTail
  <2>2. \A v \in link'[h'.run] :
           submit'[ProfileOf[h'.run]][v] = "none" => h'.seen[v] \in Unfinished
    BY <1>1, <1>4, <1>5, <2>1
  <2>3. QED BY <1>4, <2>2 DEF CountCovers
<1>13. QED BY <1>11, <1>12

(* A run that starts finds no page planned and no application linked.      *)
LEMMA CreateTail ==
    ASSUME CampaignInv, TailInv, IntakeGrows, CreateCampaign PROVE RowsTail' /\ CountCovers'
<1>1. /\ h.pc = "create" /\ UNCHANGED link
      /\ camp' = IF camp[h.run].status = "none" THEN [camp EXCEPT ![h.run] = NewCampaign]
                 ELSE camp
      /\ h' = [h EXCEPT !.pc = IF camp'[h.run].revision = 1 THEN "covered" ELSE "ensure",
                        !.row = camp'[h.run]]
  BY DEF CreateCampaign, CreateApplicationCampaign
<1>2. h.run \in Runs /\ camp \in [Runs -> CampSet] /\ h \in HandlerSet(h)
  BY <1>1 DEF CampaignInv, CampaignTypeOK, RunHolds
<1>3. \A c \in Runs : camp'[c] = camp[c] \/ camp'[c] = NewCampaign BY <1>1, <1>2
<1>4. \A r \in RouteIDs : \A k \in DOMAIN Pages[r] : ~Past(NewCampaign, r, k)
  BY Bounds DEF Past, NewCampaign
<1>5. \A c \in Runs : link[c] \subseteq Vacancies BY DEF CampaignInv, CampaignTypeOK
<1>6. NewCampaign.status = "running" BY DEF NewCampaign
<1>7. RowsTail' BY <1>1, <1>3, <1>4, <1>5, <1>6, RowsKept
<1>8. h'.pc \in {"covered", "ensure"} BY <1>1, <1>2 DEF HandlerSet
<1>9. QED BY <1>7, <1>8 DEF CountCovers

LEMMA SupersedeTail ==
    ASSUME CampaignInv, TailInv, IntakeGrows, Supersede PROVE RowsTail' /\ CountCovers'
<1>1. PICK S \in SUBSET {c \in Runs \ {h.run} : camp[c].status = "running"} :
         camp' = [c \in Runs |-> IF c \in S THEN StopRow(camp[c], "superseded") ELSE camp[c]]
  BY DEF Supersede
<1>2. UNCHANGED link /\ h' = [h EXCEPT !.pc = "create"] BY DEF Supersede
<1>3. \A c \in Runs : camp[c] \in CampSet BY DEF CampaignInv, CampaignTypeOK
<1>4. \A c \in Runs : StopRow(camp[c], "superseded").status = "superseded"
  BY <1>3, RowAdvances
<1>5. \A c \in Runs : camp'[c] = camp[c] \/ camp'[c].status = "superseded" BY <1>1, <1>4
<1>6. RowsTail' BY <1>2, <1>5, RowsLeft
<1>7. h'.pc = "create" BY <1>2 DEF CampaignInv, CampaignTypeOK, HandlerSet
<1>8. QED BY <1>6, <1>7 DEF CountCovers

(* Where a handler neither plans nor decides there is nothing to cover.    *)
LEMMA Elsewhere ==
    ASSUME CampaignInv, TailInv, IntakeGrows, UNCHANGED <<camp, link>>,
           h'.pc \in {"idle", "supersede", "load", "covered", "ensure", "ack"}
    PROVE  RowsTail' /\ CountCovers'
BY RowsStill DEF CountCovers

LEMMA TailKeeps == CampaignInv /\ TailInv /\ [CampaignNext]_allVars => TailInv'
<1> SUFFICES ASSUME CampaignInv, TailInv, [CampaignNext]_allVars PROVE TailInv'
  OBVIOUS
<1>1. IntakeOK' /\ IntakeGrows BY IntakeKeeps DEF TailInv
<1>2. CASE HandlerActions
  <2>1. ASSUME NEW c \in Runs, NEW n \in 0 .. MaxTick, Claim(c, n)
        PROVE  RowsTail' /\ CountCovers'
    <3>1. h'.pc \in {"supersede", "load"} BY <2>1, IdleOK DEF Claim, HandlerSet
    <3>2. QED BY <1>1, <2>1, <3>1, Elsewhere DEF Claim
  <2>2. CASE LoadCampaign
    <3>1. h'.pc \in {"covered", "ensure"}
      BY <2>2 DEF LoadCampaign, CampaignInv, CampaignTypeOK, HandlerSet
    <3>2. QED BY <1>1, <2>2, <3>1, Elsewhere DEF LoadCampaign, TailInv
  <2>3. CASE EnsureTick
    <3>1. h'.pc = "ack" BY <2>3, IdleOK DEF EnsureTick, HandlerSet
    <3>2. QED BY <1>1, <2>3, <3>1, Elsewhere DEF EnsureTick, TailInv
  <2>4. CASE Acknowledge
    <3>1. h'.pc = "idle" BY <2>4, IdleOK DEF Acknowledge, Finish
    <3>2. QED BY <1>1, <2>4, <3>1, Elsewhere DEF Acknowledge, TailInv
  <2>5. CASE Supersede \/ CreateCampaign \/ HandleCurrent
    BY <1>1, <2>5, SupersedeTail, CreateTail, CurrentTail DEF TailInv
  <2>6. CASE Decide \/ ScheduleApplication \/ SaveForNextTick \/ StopExhausted
    BY <1>1, <2>6, DecideTail, ScheduleTail, SaveForNextTickTail, StopExhaustedTail DEF TailInv
  <2>7. CASE SearchPage \/ PlanVacancy \/ LinkPlanned \/ SavePage
    BY <1>1, <2>7, SearchPageTail, PlanTail, LinkTail, SavePageTail DEF TailInv
  <2>8. CASE \E c \in Runs : \E n \in 0 .. MaxTick : Claim(c, n)
    BY <1>1, <2>1, <2>8 DEF TailInv
  <2>9. QED BY <1>2, <2>2, <2>3, <2>4, <2>5, <2>6, <2>7, <2>8 DEF HandlerActions
<1>3. CASE Interrupt
  <2>1. h'.pc = "idle" BY <1>3, IdleOK DEF Interrupt
  <2>2. QED BY <1>1, <1>3, <2>1, Elsewhere DEF Interrupt, TailInv
<1>4. CASE UNCHANGED <<camp, link, h>>
  BY <1>1, <1>4, RowsStill, CountKept DEF TailInv
<1>5. QED
  BY <1>2, <1>3, <1>4
  DEF CampaignNext, CampaignActions, StartRun, ReplaceRoutes, RemoveApplication, workVars,
      campaignVars, allVars

LEMMA TailInitInv == CampaignStarts => TailInv
<1> SUFFICES ASSUME CampaignStarts PROVE TailInv
  OBVIOUS
<1>1. IntakeOK BY DEF CampaignStarts, IntakeInit, IntakeOK, AppStatuses, TaskStates
<1>2. /\ camp = [c \in Runs |-> NoCampaign] /\ link = [c \in Runs |-> {}] /\ h = Idle
  BY DEF CampaignStarts, CampaignInit
<1>3. RowsTail
  BY <1>2 DEF RowsTail, LinkedExists, PagesPlanned, ExhaustedIsOver, NoCampaign
<1>4. CountCovers BY <1>2, IdleOK DEF CountCovers
<1>5. QED BY <1>1, <1>3, <1>4 DEF TailInv

(* TailIsNotLost: a campaign that ran through its routes has handed every  *)
(* open vacancy of every page to a submit task, unless the application is  *)
(* removed (workflow/application_campaign.go, docs/features.md).           *)
THEOREM TailIsKept == CampaignSpec => []TailIsNotLost
<1>1. CampaignInv /\ TailInv => TailIsNotLost
  <2> SUFFICES ASSUME CampaignInv, TailInv, NEW c \in Runs, camp[c].status = "exhausted",
                      NEW r \in RouteIDs, NEW k \in DOMAIN Pages[r],
                      NEW v \in Pages[r][k] \ Closed
               PROVE  \/ gone[ProfileOf[c]][v]
                      \/ v \in link[c] /\ applicationTask(c, v) # "none"
    BY DEF TailIsNotLost
  <2>1. camp[c].route = Len(Pages) /\ camp[c].cursor = 0
    BY DEF TailInv, RowsTail, ExhaustedIsOver
  <2>2. Past(camp[c], r, k) BY <2>1, Bounds DEF Past
  <2>3. HandedOn(c, v) BY <2>2 DEF TailInv, RowsTail, PagesPlanned
  <2>4. QED BY <2>3 DEF HandedOn, TailInv, RowsTail, ExhaustedIsOver, applicationTask
<1>2. CampaignSpec => []TailInv
  <2>1. QED BY TailInitInv, TailKeeps, CampaignInductive, PTL DEF CampaignSpec
<1>3. QED BY <1>1, <1>2, CampaignInductive, PTL

=============================================================================
