SPECIFICATION NoticesSpec
CONSTANTS
    a1 = a1
    a2 = a2
    g1 = g1
    Polls = {p1, p2}
    Alerts = {a1, a2}
    Group <- MCGroup
    Health = health
    Actions = {"mute", "resolve"}
    Cap = 2
    Listed = 2
    Cooldown = 1
    Hour = 2
    MaxTime = 2
    MaxPasses = 3
    MaxChanges = 1
SYMMETRY Symmetry
INVARIANT
    LimitsHold
PROPERTY
    DismissedStays
CHECK_DEADLOCK FALSE
