SPECIFICATION Spec
CONSTANTS
    Fetch = {f1, f2}
    Token = {t1, t2}
    NoToken = NoToken
    Day = 2
    MaxLate = 1
    Faults = TRUE
    Leases = {1, 2}
SYMMETRY Symmetry
INVARIANTS
    RecentClaimExclusive
    SlowSourceIsWatched
    LapseIsExcused
