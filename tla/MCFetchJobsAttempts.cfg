SPECIFICATION AttemptSpec
CONSTANTS
    Source = {s1, s2}
    Email = {}
    Hubbed = {}
    Shared = {}
    Worker = {w1}
    Subscriber = {}
    Nobody = Nobody
    Limit = 1
    Day = 0
    BackoffCap = 1
    Freshness = {1}
    MaxVersion = 1
PROPERTY
    EveryFeedAttempted
