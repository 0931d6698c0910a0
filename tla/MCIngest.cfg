SPECIFICATION Spec
CONSTANTS
    t1 = t1
    t2 = t2
    v1 = v1
    i1 = i1
    m1 = m1
    m2 = m2
    dns = dns
    logins = logins
    NoTenant = NoTenant
    Requests = {r1, r2}
    Tenants = {t1, t2}
    Events <- MCEvents
    Observations <- MCObservations
    Warmup = 1
    Horizon = 3
    MaxFindings = 1
    Entries = {v1}
    Items = {i1}
    Monitors = {m1, m2}
    Triage = {"resolved"}
    Owner <- MCOwner
    Matches <- MCMatches
    Mixes <- MCMixes
SYMMETRY Symmetry
INVARIANTS
    AnnouncedOnce
    TriageSurvives
    IngestionsComplete
    FindingsSound
CHECK_DEADLOCK FALSE
