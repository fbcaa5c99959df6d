\* Two monitors, one signal or two, with and without an old state file.
CONSTANTS
    m1 = m1
    m2 = m2
    Monitor <- Heads
    Shared <- SharedHeads
    Provider = provider
    MaxAttempts = 2
    MaxSignals = 2
SPECIFICATION DeskFairSpec
INVARIANTS
    CleanupIsThorough DashboardsHaveData MouseGoesThrough
PROPERTIES
    OneDownAllDown StyleByPrecedence
