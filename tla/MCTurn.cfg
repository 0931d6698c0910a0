SPECIFICATION TurnSpec
CONSTANTS
    Calls = {c1, c2, c3, c4}
    First = c1
    MaxParts = 3
    Timeout = 2
INVARIANTS
    AnswerFaithful
    ToolBudget
PROPERTY
    TurnEnds
CHECK_DEADLOCK FALSE
