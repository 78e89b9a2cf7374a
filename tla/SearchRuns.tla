------------------------------ MODULE SearchRuns ------------------------------
(***************************************************************************)
(* A search that no campaign owns (workflow/search_page.go, search.go).    *)
(* The run row owns the cursor; every task reads one page and carries the  *)
(* cursor it expects, not the generation, so a task of an earlier          *)
(* definition may turn up late.  A changed definition starts a new         *)
(* generation at the first page when the process starts.                   *)
(***************************************************************************)
EXTENDS VacancyIntake

CONSTANTS
    SearchProfiles,  \* the target profiles of the search
    Definitions,     \* what the search can be configured as
    Listing,         \* Listing[d][k]: the open vacancies on page k under d
    MaxGeneration    \* bound: changes of the definition, plus one

VARIABLES
    search,        \* the search run row
    page,          \* page[g][k]: the task for page k of generation g
    srch           \* the handler: where it is, its task and its copy of the row

searchVars == <<search, page, srch>>

ASSUME SearchAssumption ==
  /\ SearchProfiles \subseteq Profiles /\ SearchProfiles # {}
  /\ Definitions # {} /\ Listing \in [Definitions -> Seq(SUBSET Vacancies)]
  /\ \A d \in Definitions : Listing[d] # <<>>
  /\ MaxGeneration \in Nat \ {0}

Generations == 1..MaxGeneration
Cursors     == UNION {DOMAIN Listing[d] : d \in Definitions}

NewSearchRun(d) == [definition |-> d, cursor |-> 1, done |-> FALSE, generation |-> 1, revision |-> 1]

NoTask == [pc |-> "idle", g |-> 0, k |-> 0, todo |-> {},
           row |-> NewSearchRun(CHOOSE d \in Definitions : TRUE)]

SearchInit ==
  /\ \E d \in Definitions : search = NewSearchRun(d)
  /\ page = [g \in Generations |-> [k \in Cursors |-> IF g = 1 /\ k = 1 THEN "new" ELSE "none"]]
  /\ srch = NoTask

-----------------------------------------------------------------------------
\* A run advances over a page; the last page ends it and keeps no cursor.
AdvanceRun(row) ==
  LET last == row.cursor = Len(Listing[row.definition])
  IN [row EXCEPT !.cursor = IF last THEN 0 ELSE row.cursor + 1, !.done = last,
                 !.revision = row.revision + 1]

\* resetSearchRun: the new definition, an empty cursor, the next generation.
resetSearchRun(d) ==
  [search EXCEPT !.definition = d, !.cursor = 1, !.done = FALSE,
                 !.generation = search.generation + 1, !.revision = search.revision + 1]

\* CreateSearchRun: the stored row, reset if its definition is another one.
CreateSearchRun(d) ==
  search' = IF search.definition = d THEN search ELSE resetSearchRun(d)

\* The update is conditional on the revision that was read.
SaveSearchRun(row) ==
  /\ search.revision = row.revision - 1
  /\ search' = row

\* The key of a page task is the generation and the cursor.
enqueuePage(row) ==
  page' = IF page[row.generation][row.cursor] = "none"
          THEN [page EXCEPT ![row.generation][row.cursor] = "new"] ELSE page

-----------------------------------------------------------------------------
\* The process starts: EnsureRun stores the definition as it is configured.
EnsureRun(d) ==
  /\ srch.pc = "boot"
  /\ d # search.definition => search.generation < MaxGeneration
  /\ CreateSearchRun(d)
  /\ srch' = [NoTask EXCEPT !.pc = IF search'.done THEN "idle" ELSE "enqueue", !.row = search']
  /\ UNCHANGED <<page, faults, intakeVars>>

\* The process stops; the task it held becomes available again.
StopProcess ==
  /\ srch.pc # "boot" /\ Fault
  /\ page' = IF srch.g = 0 THEN page ELSE [page EXCEPT ![srch.g][srch.k] = "new"]
  /\ srch' = [NoTask EXCEPT !.pc = "boot"]
  /\ UNCHANGED <<search, intakeVars>>

\* A call fails: the task is tried again or, after the last attempt or for
\* good, left failed.
FailPage ==
  /\ srch.pc \in {"plan", "enqueue"} /\ srch.g # 0 /\ Fault
  /\ \E r \in {"new", "failed"} : page' = [page EXCEPT ![srch.g][srch.k] = r]
  /\ srch' = NoTask
  /\ UNCHANGED <<search, intakeVars>>

\* Mutation: a late task is only acknowledged.
ClaimPageTrusting(g, k) ==
  /\ srch.pc = "idle" /\ page[g][k] = "new"
  /\ IF search.done \/ k # search.cursor
     THEN page' = [page EXCEPT ![g][k] = "done"] /\ srch' = NoTask
     ELSE /\ page' = [page EXCEPT ![g][k] = "run"]
          /\ srch' = [pc |-> "plan", g |-> g, k |-> k, row |-> search,
                      todo |-> SearchProfiles \X Listing[search.definition][search.cursor]]
  /\ UNCHANGED <<search, faults, intakeVars>>

\* Handle: a finished run needs nothing, a late task only makes sure the
\* page the run is at is queued.
ClaimPage(g, k) ==
  /\ srch.pc = "idle" /\ page[g][k] = "new"
  /\ IF search.done
     THEN page' = [page EXCEPT ![g][k] = "done"] /\ srch' = NoTask
     ELSE /\ page' = [page EXCEPT ![g][k] = "run"]
          /\ srch' = [pc |-> IF k = search.cursor THEN "plan" ELSE "enqueue", g |-> g, k |-> k,
                   row |-> search,
                   todo |-> IF k = search.cursor
                            THEN SearchProfiles \X Listing[search.definition][search.cursor]
                            ELSE {}]
  /\ UNCHANGED <<search, faults, intakeVars>>

\* RunPage with planApplication: the application and its task are two
\* writes, a removed application gets neither.
PlanFound ==
  /\ srch.pc = "plan"
  /\ \E x \in srch.todo :
       LET p == x[1] v == x[2] IN
       IF gone[p][v]
       THEN srch' = [srch EXCEPT !.todo = srch.todo \ {x}] /\ UNCHANGED <<app, submit>>
       ELSE \/ /\ app[p][v] = "none"
               /\ CreateApplication(p, v) /\ UNCHANGED <<submit, srch>>
            \/ /\ app[p][v] # "none"
               /\ EnqueueSubmit(p, v) /\ UNCHANGED app
               /\ srch' = [srch EXCEPT !.todo = srch.todo \ {x}]
  /\ UNCHANGED <<search, page, faults, gone>>

SaveCursor ==
  /\ srch.pc = "plan" /\ srch.todo = {}
  /\ SaveSearchRun(AdvanceRun(srch.row))
  /\ srch' = [srch EXCEPT !.pc = IF search'.done THEN "ack" ELSE "enqueue", !.row = search']
  /\ UNCHANGED <<page, faults, intakeVars>>

EnqueuePage ==
  /\ srch.pc = "enqueue"
  /\ enqueuePage(srch.row)
  /\ srch' = [srch EXCEPT !.pc = IF srch.g = 0 THEN "idle" ELSE "ack"]
  /\ UNCHANGED <<search, faults, intakeVars>>

AckPage ==
  /\ srch.pc = "ack"
  /\ page' = [page EXCEPT ![srch.g][srch.k] = "done"]
  /\ srch' = NoTask
  /\ UNCHANGED <<search, faults, intakeVars>>

SearchStep ==
  \/ \E d \in Definitions : EnsureRun(d)
  \/ \E g \in Generations, k \in Cursors : ClaimPage(g, k)
  \/ PlanFound \/ SaveCursor \/ EnqueuePage \/ AckPage

\* RemoveApplication leaves a tombstone.
RemoveFound(p, v) ==
  /\ app[p][v] \in {"submitted", "closed"} /\ ~gone[p][v]
  /\ gone' = [gone EXCEPT ![p][v] = TRUE]
  /\ UNCHANGED <<app, submit, faults, searchVars>>

SearchNext ==
  \/ SearchStep \/ StopProcess \/ FailPage
  \/ \E p \in Profiles, v \in Vacancies :
       \/ WorkApplication(p, v) /\ UNCHANGED searchVars
       \/ FoundElsewhere(p, v) /\ UNCHANGED searchVars
       \/ RemoveFound(p, v)

SearchSpec == IntakeInit /\ SearchInit /\ [][SearchNext]_<<intakeVars, faults, searchVars>>

-----------------------------------------------------------------------------

\* A search that is not done has a task of its own definition that carries it
\* on, whichever write the process stopped after and whatever late tasks of
\* earlier definitions did to the cursor: one that is waiting or running, one
\* that failed for good and waits for an operator, or the one the next start
\* enqueues.
SearchHasTask ==
  \/ search.done
  \/ srch.pc = "boot" \/ (srch.pc = "enqueue" /\ srch.g = 0)
  \/ \E k \in Cursors : page[search.generation][k] \in {"new", "run", "failed"}

=============================================================================
