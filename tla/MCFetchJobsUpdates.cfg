SPECIFICATION FeedSpec
CONSTANTS
    Source = {s1}
    Email = {}
    Hubbed = {s1}
    Shared = {s1}
    Worker = {w1}
    Subscriber = {u1}
    Nobody = Nobody
    Limit = 1
    Day = 0
    BackoffCap = 1
    Freshness = {1}
    MaxVersion = 2
PROPERTY
    UpdatesEventuallyStored
