SPECIFICATION SettingsSpec
CONSTANTS
    Requests = {r1, r2, r3}
    Keys = {k1, k2}
    EnvKey = EnvKey
    NoKey = NoKey
    NoRecord = NoRecord
SYMMETRY Symmetry
INVARIANTS
    NoCloudFallback
    KeysInPlace
CHECK_DEADLOCK FALSE
