\* A signal between the start of a child and the record of it.
CONSTANTS
    m1 = m1
    m2 = m2
    Monitor <- Heads
    Provider = provider
    MaxAttempts = 2
    MaxSignals = 1
SPECIFICATION Spec
INVARIANTS
    NoneLeftBehind
