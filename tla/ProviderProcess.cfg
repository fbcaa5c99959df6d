\* Two probes on two workers, one source, two signals.
CONSTANTS
    r1 = r1
    w1 = w1
    w2 = w2
    Reading = {r1}
    NoReading = NoReading
    Epoch = {1}
    Probe <- Pair
    Rank <- RankPair
    Interval <- IntervalPair
    Outcomes <- OutcomesPair
    Worker <- Workers2
    Idle = Idle
    Raised = Raised
    NoResult = NoResult
    MaxLag = 1
    Source = {"system"}
    NoDoc = NoDoc
    MaxSignals = 2
SPECIFICATION PFairSpec
INVARIANTS
    ExitLeavesNoThread ActiveHasFuture NoOverlap
PROPERTIES
    ImplementsProvider FinishedIsPublished CloseReturns
