SPECIFICATION FairSpec
CONSTANTS
    Sources = {s1}
    HtmlSources = {s1}
    Workers = {w1, w2}
    Jobs = {j1, j2}
    NoOne = NoOne
    Orphan = Orphan
    NoJob = NoJob
    NoSource = NoSource
    CrawlTimeout = 1
    Grace = 0
    LeaseTTL = 2
    JobLease = 2
    Skew = 0
    MaxFailures = 3
    MaxLosses = 1
INVARIANTS
    MutualExclusion
    HealthMatchesFailures
    OverlapBoundedByLosses
    LiveJobNotReaped
PROPERTIES
    LeaseKeptWhileCrawling
    NothingBlocks
