\* Three probes, two workers: what a redirect loop leaves in a record.
CONSTANTS
    r1 = r1
    w1 = w1
    w2 = w2
    Reading = {r1}
    NoReading = NoReading
    Epoch = {1, 2}
    Probe <- Three
    Rank <- Rank3
    Interval <- Interval3
    Outcomes <- Outcomes3
    Worker <- Workers2
    Idle = Idle
    Raised = Raised
    NoResult = NoResult
    MaxLag = 1
SYMMETRY WorkerSymmetry
SPECIFICATION Spec
INVARIANTS
    OkIsConfirmed
