SPECIFICATION Spec
CONSTANTS
    Apps = {a1}
    NoApp = NoApp
    Windows = {1}
    Texts = {1}
    Keys = {"submit"}
    Plans <- Tailoring
    Intervals = {1}
    Answers = {"temporary"}
    Operators = {}
    DayLength = 9
    MaxPacingWait = 1
    MaxPacingWaitAttempts = 1
    MaxTime = 2
    MaxSubmits = 2
    MaxDrift = 0
INVARIANT SagaResumable
CHECK_DEADLOCK FALSE
