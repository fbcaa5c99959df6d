\* Two writers and a reader; four files bound the leftovers of kills.
CONSTANTS
    p1 = p1
    p2 = p2
    f1 = f1
    f2 = f2
    f3 = f3
    f4 = f4
    Writer <- Providers
    Reader = {conky}
    File <- Files
    NoFile = NoFile
    Doc = {d1, d2}
    NoDoc = NoDoc
    Partial = Partial
    Empty = Empty
SPECIFICATION Spec
INVARIANTS
    ReadsComplete TargetSettled NoLitter
PROPERTIES
    ImplementsDocument
SYMMETRY FileSymmetry
