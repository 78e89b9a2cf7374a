SPECIFICATION Spec
CONSTANTS
    Apps = {a1}
    NoApp = NoApp
    Windows = {1, 2}
    Texts = {1}
    Keys = {"submit", "again"}
    Plans <- TwoModes
    Intervals = {1}
    Answers <- AllAnswers
    Operators = {o1}
    DayLength = 2
    MaxPacingWait = 1
    MaxPacingWaitAttempts = 1
    MaxTime = 3
    MaxSubmits = 2
    MaxDrift = 0
INVARIANTS NoBlindResend DoneIsCounted
CHECK_DEADLOCK FALSE
