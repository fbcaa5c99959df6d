\* Thirds of a second, frames as three monitors have them; passes of up to
\* 4/3 s; the clock is set once, by two seconds.
CONSTANTS
    Nil = nil
    MaxWait = 1
    MaxBlock = 4
    Second = 3
    Frame = 1
    Jump = 2
    MaxJumps = 1
    GoodPass = 1
SPECIFICATION FairSpec
PROPERTIES
    LiveIsRecent PacedIsLive HungIsShown
