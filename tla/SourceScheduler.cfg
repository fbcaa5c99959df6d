\* Passes may block longer than the interval of "system".
CONSTANTS
    Source <- Sources
    Rank <- RankOf
    Interval <- IntervalOf
    MaxWait = 1
    MaxBlock = 4
SPECIFICATION Spec
INVARIANTS
    PassServesAll OnGrid Punctual
PROPERTIES
    NoBurst
