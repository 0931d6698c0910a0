SPECIFICATION Spec
CONSTANTS
    w1 = w1
    w2 = w2
    w3 = w3
    w4 = w4
    hid = hid
    m1 = m1
    u1 = u1
    u2 = u2
    u3 = u3
    u4 = u4
    u5 = u5
    x1 = x1
    x2 = x2
    x3 = x3
    Words = {w1, w2, w3, w4, hid}
    Kinds <- MCKinds
    Spellings = {1, 2, 3, 4, 5}
    Fold <- MCFold
    Finds <- MCFinds
    MaxPerKind = 2
    MinWords = 1
    MaxRecords = 2
    Crawls = {c1, c2}
    Sources = {s1, s2}
    Canonical <- MCCanonical
    NoUrl = none
    Serves <- MCServes
    Public = {u1, u2, u3, u5}
    Secure = {u1, u2, u5}
    Iocs <- MCIocs
    Actors <- MCActors
    TooLong = {5}
    Monitors = {m1}
    Terms <- MCTerms
    MaxEdits = 4
INVARIANTS
    WholeOrNothing
    MatchesAlerted
    Traceable
    GraphTraceable
PROPERTIES
    ProvenanceKept
    EveryCrawlEnds
CHECK_DEADLOCK FALSE
