SPECIFICATION CampaignSpec
CONSTANTS
  Profiles = {"p1"}
  Vacancies = {"v1", "v2", "v3"}
  Runs = {"c1"}
  ProfileOf <- MCProfileOf
  Pages <- MCPages
  Closed = {"v3"}
  TargetSuccessful = 2
  MaxInFlight = 1
  MaxRevision = 5
  MaxFaults = 1
CHECK_DEADLOCK FALSE
PROPERTIES CampaignEnds
INVARIANTS TailIsNotLost RunningHasTask
