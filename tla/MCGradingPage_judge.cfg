CONSTANTS
    Judgements <- OneJudgement
    MaxUpdates = 3
    MaxRegrades = 0
SPECIFICATION Spec
INVARIANT JudgeIsShown
\* A page at rest waits for its user.
CHECK_DEADLOCK FALSE
