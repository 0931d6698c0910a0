SPECIFICATION Spec
CONSTANTS
    Handlers = {x1, x2}
    Work = {"chat", "legacy", "delete", "preferences", "mute", "tool"}
    T = 2
    Slack = 1
    MaxDeletions = 1
    MaxFaults = 1
    NoOne = NoOne
SYMMETRY Symmetry
INVARIANTS
    DeletedStaysDeleted
    DisabledMemoryRetainsNothing
CHECK_DEADLOCK FALSE
