SPECIFICATION Spec
CONSTANTS
  Declared = {"about", "languages"}
  Undeclared = {"photo"}
  Pages <- MCPages
  Values = {0, 1, 2}
  Empty = 0
  Registered <- MCRegistered
  Overrides <- MCOverrides
  Updates = {"cron"}
  MaxEdits = 1
  MaxFaults = 1
  Logins = {"s1", "s2"}
  Accounts = {"a", "b"}
  SessionTTL = 3
  ChallengeTTL = 2
  LastMoment = 3
  MaxPictures = 2
  MaxBreaks = 1
  Refreshes = {"r"}
  Applies = {"p", "q"}
  MaxDrafts = 2
  Apps = {"a1", "a2"}
  CheckTTL = 1
  LastSecond = 1
  MaxChecks = 2
  MaxCaptchas = 1
  MaxRetries = 2
CHECK_DEADLOCK FALSE
INVARIANTS OnlyOpenLoginStores AppliedIsWritten DoneIsConfirmed
PROPERTIES RecordedWasApplied
