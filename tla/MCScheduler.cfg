SPECIFICATION Spec
CONSTANTS
    r1 = r1
    r2 = r2
    Replicas = {r1, r2}
    Sources = {s1, s2}
    Policies = {"hourly"}
    Period <- MCPeriod
    Configs <- MCConfigs
    Skew <- MCSkew
    MaxSkew = 1
    MaxTime = 1
    MaxFaults = 1
INVARIANT
    SlotsAccounted
PROPERTIES
    SlotsApart
    SchedulerRecovers
