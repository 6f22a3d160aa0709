SPECIFICATION Spec
CONSTANTS
    c1 = c1
    c2 = c2
    t1 = t1
    t2 = t2
    Coins = {c1, c2}
    Tasks = {t1, t2}
    Price = 2
    ConfirmsOverlap = FALSE
    MaxFaults = 2
SYMMETRY Symmetry
INVARIANT PaidOrAborted
