SPECIFICATION MCSpec
CONSTANTS
  w1 = w1
  w2 = w2
  w3 = w3
  Keys = {1, 2, 3}
  Types = {"submit", "state"}
  Profiles = {"p"}
  TypeOf <- BlockTypeOf
  ProfileOf <- OneProfile
  PriorityOf <- LowFirst
  BlockedBy <- SubmitBlockedByState
  NoType = "none"
  LeaseDuration = 2
  Workers = {w1, w2, w3}
  Serves <- TwoServe
  Operators = {"op"}
  Results = {"ok", "retryable", "pacing", "unauthorized", "permanent"}
  OperatorOps = {"restart", "requeue", "cancel", "dismiss"}
  AvailableIn = {0}
  Deadlines <- SomeDeadlines
  RetryDelays = {1}
  MaxAttempts = 2
  MaxTime = 3
  MaxClaims = 3
SYMMETRY WorkerSymmetry
INVARIANTS ExclusiveHolder IInv
PROPERTIES RunningLeaseProtected ResultIsFromLastClaim FollowsLifecycle StartsUnblocked
