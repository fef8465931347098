SPECIFICATION FairSpec
CONSTANTS
    Calls = {c1, c2, c3}
    Roots = {r1, r2}
    Sizes <- MCSizes
    Parts = {0, 1, 2, 3}
    Modules = 1
    Guests = 1
INVARIANTS
    RootsAreLocked
    LoadCleansUp
    OnlyVerified
PROPERTIES
    LiveViewKept
    LoadEnds
