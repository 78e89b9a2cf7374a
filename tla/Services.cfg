SPECIFICATION Spec
CONSTANTS
  Schedules = {1, 2}
  Jobs = {"j"}
  JobOf <- OneJob
  Configs <- Reloads
  Schedulers = {"p1"}
  DueLimit = 1
  MaxTime = 4
  MaxErrors = 1
  MaxFailed = 1
  Tasks = {1, 2, 3}
  GuardedJobs = {"a"}
  NoJob = "none"
  JobNamed <- SourceOf
  RecoveryLimit = 3
  MaxSignIns = 1
  Owners = {"o1", "o2", "o3"}
  NoOwner = "none"
  TTL = 2
  LastTime = 6
  Offers = {"a", "b"}
  MaxCalls = 4
  Vias = {"capture", "bank", "review"}
  MaxBreaks = 2
  Cards = {"c1", "c2"}
  ViewCount = 2
  MaintainPages = 2
  InspectedWindow = 1
  LastDay = 4
CHECK_DEADLOCK FALSE
INVARIANTS OneActivePerJob OwedStaysDue SignInHeals AppliedIsHeld GateOpensOnAccepted
PROPERTIES DueIsHandled TakenOnlyWhenSilent RefusalSentNothing RestsAfterFirst
