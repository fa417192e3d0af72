SPECIFICATION Spec
CONSTANTS
    Source = {s1}
    Email = {}
    Hubbed = {}
    Shared = {s1}
    Worker = {w1, w2}
    Subscriber = {u1}
    Nobody = Nobody
    Limit = 1
    Day = 0
    BackoffCap = 1
    Freshness = {0}
    MaxVersion = 2
SYMMETRY Symmetry
INVARIANTS
    TypeOK
    OneFetchPerSource
PROPERTY
    StoredNeverRegresses
