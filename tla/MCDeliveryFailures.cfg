SPECIFICATION Spec
CONSTANTS
    Workers = {w1, w2}
    Events = {e1}
    Subscriptions = {s1}
    Schedules = {}
    Together <- MCTogether
    Minutes = {0}
    DueAt <- MCDueAt
    Bodies = {b1, b2}
    NoBody = NoBody
    NoKey = NoKey
    MaxAttempts = 2
    MaxRollbacks = 0
INVARIANT
    FailuresCounted
CHECK_DEADLOCK FALSE
