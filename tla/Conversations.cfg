SPECIFICATION Spec
CONSTANTS
  Kinds = {"text", "question", "buttons"}
  LastMoment = 3
  MaxWords = 2
  MaxBreaks = 1
  Requests = {11}
  FollowUpIds = {1, 2}
  MaxFollowUps = 2
  Cooldown = 2
  MinimumSilence = 1
  RunDelays = {0, 1}
  Deadlines = {0, 2}
CHECK_DEADLOCK FALSE
INVARIANTS OneMessagePerCommand FollowUpsSpaced
PROPERTIES HumanAnswerStops RunsWhenDue
