\* Three probes on two workers: what is published, spacing, waiting, freshness.
CONSTANTS
    r1 = r1
    w1 = w1
    w2 = w2
    Reading = {r1}
    NoReading = NoReading
    Epoch = {1}
    Probe <- Names
    Rank <- NameRank
    Interval <- NameInterval
    Outcomes <- NameOutcomes
    Worker <- Workers2
    Idle = Idle
    Raised = Raised
    NoResult = NoResult
    MaxLag = 1
    MaxGap = 1
    MaxRun <- NameRun
    LongestRun = 1
    WaitLimit = 5
SYMMETRY WorkerSymmetry
SPECIFICATION TSpec
INVARIANTS
    BoundedWait FreshIsRecent
PROPERTIES
    SpacingWithLag ImplementsRuns PublishedOnce GoodDataRetained
