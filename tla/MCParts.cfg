SPECIFICATION PartsSpec
CONSTANTS
    Caller = {i1, i2, b1}
    Interactive = {i1, i2}
    Interval = 4
    Patience = 1
    CounterTtl = 2
    BlockTime = {1, 2}
    MaxAbandoned = 1
    MaxLost = 1
    Person = {p1, p2}
    Signup = {s1, s2}
    NoPerson = nobody
    RegistrationOpen = FALSE
    MailActivation = TRUE
    Expiry = 2
    Folder = {f1, f2}
    Source = {x1}
    Root = root
    Document = {d1}
    Importer = {j1, j2}
    MaxCrashes = 1
    Latest = 3
    MigratorProc = {g1, g2}
    WorkerProc = {w1}
    Nobody = nobody
    Url = {u1, u2, u3}
    HopsOf <- OriginHops
    Cacheable = {u1, u2}
    Sources = {u1, u2}
    Ttl = 2
    MaxHops = 5
    Message = {m1, m2}
    Handler = {h1, h2}
    Spoilt = {m2}
    Mutation = {q1, q2}
    Needs <- QueueNeeds
    Repeatable = {q1}
    Flush = {r1, r2}
    Page = {pg1, pg2}
    Address = {o1, o2}
    FeedsAt <- OfferedFeeds
    Parents = parents
    NoList = noList
    Lost = lost
    MaxMail = 1
    MaxMoves = 1
    Reading = {rd1, rd2}
    Article = {rd1}
    PageTimeout = 8
    AbortAfter = 6
    MaxLag = 1
    MaxRedirects = 2
    MaxChunks = 1
    Feed = {fd1, fd2}
    NoFeed = noFeed
    CacheTtl = 1
    MaxRequests = 3
    MaxSubmits = 1
    User = {us1, us2}
    NoSession = noSession
    Job = {jb1}
    MaxDeletes = 2
    u1 = u1
    u2 = u2
    u3 = u3
    q1 = q1
    q2 = q2
    e1 = e1
    e2 = e2
    o1 = o1
    o2 = o2
INVARIANTS
    PartsTypeOK
    PriorityKept
    OneAdmin
    ActiveIsKept
    ImportedOnce
    WorkersFindSchema
    StaleRedirectsExpire
    DeliveredOnce
    NothingLost
    MenusSettle
    ServedBeforeTimeout
    PreviewIsWanted
    LogoutForgets
PROPERTY DeletionTakesOnlyEntered
CHECK_DEADLOCK FALSE
