SPECIFICATION FairSpec
CONSTANTS
    Workers = {w1, w2}
    Events = {e1}
    Subscriptions = {s1}
    Schedules = {c1}
    Together <- MCTogether
    Minutes = {0, 1}
    DueAt <- MCDueAt
    Bodies = {b1, b2}
    NoBody = NoBody
    NoKey = NoKey
    MaxAttempts = 2
    MaxRollbacks = 1
INVARIANTS
    DuplicatesAccounted
    OneArtifactPerReport
    DeliveredMeansMailed
PROPERTIES
    ImplementsAtLeastOnce
    EveryJobSettles
CHECK_DEADLOCK FALSE
