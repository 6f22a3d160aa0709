SPECIFICATION Spec
CONSTANTS
    Coins = {c1, c2}
    Runs = {r1, r2}
    Seeds = {s1, s2, s3}
    NoSeed = NoSeed
    NoRun = NoRun
    MaxFaults = 1
    DenomsMayChange = FALSE
SYMMETRY Symmetry
CHECK_DEADLOCK FALSE
INVARIANTS
    FreshNeverShown
