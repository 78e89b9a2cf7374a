SPECIFICATION Spec
CONSTANTS
  Files <- MCFiles
  FirstFiles <- MCFirst
  Editable <- MCEditable
  Requests = {"q1"}
  RunTags = {"lift"}
  MaxChanges = 2
  MaxReloadFaults = 1
  Profiles = {"p1"}
  Vacancies = {"v1", "v2"}
  MaxFaults = 2
  SearchProfiles = {"p1"}
  Definitions = {"d1", "d2"}
  Listing <- MCListing
  MaxGeneration = 2
  Questions = {"q1", "q2", "q3", "q4"}
  Tests = {"v1", "v2", "v3", "v4"}
  Asks <- MCAsks
  Configurations = {{}, {"q4"}}
  Unfit = {"q4"}
  CodeQuestions = {"q3"}
  MaxReviews = 2
  MaxRuns = 1
  MaxStops = 1
  Responses = {"a"}
  Shared = {}
  RetentionRuns = {"r1"}
  StaleAfter = 1
  FreshFor = 0
  ReuseFor = 0
  LastTick = 2
  MaxAnswers = 2
  MaxUpsets = 1
CHECK_DEADLOCK FALSE
INVARIANTS AppliedEverywhere OneTaskPerCommand SearchHasTask AnsweredGoesOn
PROPERTIES KeepsDueTimes NewestWordDecides RemovedIsWithdrawn CancelIsFinal
