\* One probe, two sources, two signals.
CONSTANTS
    r1 = r1
    Reading = {r1}
    NoReading = NoReading
    Epoch = {1}
    Probe <- OneProbe
    Outcomes <- OneOutcomes
    NoResult = NoResult
    Allowed <- OneAllowed
    Source = {"system", "power"}
    NoDoc = NoDoc
    MaxSignals = 2
SPECIFICATION FairSpec
INVARIANTS
    FileShowsRecords FirstDocumentComplete ExitIsQuiet StopEndsWriting
PROPERTIES
    FileCatchesUp StopIsHeeded
