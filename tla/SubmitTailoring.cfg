SPECIFICATION Spec
CONSTANTS
    Apps = {a1, a2}
    NoApp = NoApp
    Windows = {1}
    Texts = {t1, t2}
    Keys = {"submit"}
    Plans <- Tailoring
    Intervals = {1}
    Answers = {"ok"}
    Operators = {}
    DayLength = 9
    MaxPacingWait = 0
    MaxPacingWaitAttempts = 1
    MaxTime = 2
    MaxSubmits = 1
    MaxDrift = 1
INVARIANTS BaselineIsOwned
CONSTRAINT OneAtWork
SYMMETRY ResumeSymmetry
PROPERTY OwnerEditsKept
CHECK_DEADLOCK FALSE
