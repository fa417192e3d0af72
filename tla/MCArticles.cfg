SPECIFICATION ArticlesFairSpec
CONSTANTS
    User = {u1}
    Guid = {g1}
    Fetcher = fetcher
    Date = {}
    Buffer = 0
    StaleAfter = 0
    DormantRule = TRUE
    MaxBody = 1
    MaxTime = 3
PROPERTY
    ReadersSettle
CHECK_DEADLOCK FALSE
