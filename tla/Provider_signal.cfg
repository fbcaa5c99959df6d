\* A signal that is delivered at a bad moment.
CONSTANTS
    r1 = r1
    Reading = {r1}
    NoReading = NoReading
    Epoch = {1}
    Probe <- OneProbe
    Outcomes <- OneOutcomes
    NoResult = NoResult
    Allowed <- OneAllowed
    Source = {"system"}
    NoDoc = NoDoc
    MaxSignals = 1
SPECIFICATION FairSpec
PROPERTIES
    SignalIsHeeded
