SPECIFICATION Spec
CONSTANTS
    Apps = {a1, a2}
    NoApp = NoApp
    Windows = {1, 2}
    Texts = {1}
    Keys = {"submit"}
    Plans <- ChangingLimit
    Intervals = {1}
    Answers = {"ok", "temporary"}
    Operators = {}
    DayLength = 2
    MaxPacingWait = 1
    MaxPacingWaitAttempts = 1
    MaxTime = 2
    MaxSubmits = 1
    MaxDrift = 0
SYMMETRY AppSymmetry
INVARIANTS BudgetAccounts SlotsSpaced
CHECK_DEADLOCK FALSE
