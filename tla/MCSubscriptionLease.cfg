SPECIFICATION TimelySpec
CONSTANTS
    Request = {r1, r2}
    Article = {a1}
    NoOwner = NoOwner
    LeaseTicks = 1
    MaxRows = 2
    MaxSources = 1
INVARIANTS
    FreshLeaseExclusive
    RefusedOnlyAfterLapse
    OkMeansInitialized
    InitializedIsSeeded
PROPERTIES
    ImplementsLease
    AbandonedLeaseRecovers
