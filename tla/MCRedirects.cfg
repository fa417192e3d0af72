SPECIFICATION RedirectsSpec
CONSTANTS
    u1 = u1
    u2 = u2
    u3 = u3
    Url = {u1, u2, u3}
    HopsOf <- OriginHops
    Cacheable = {u1, u2}
    Sources = {u1}
    Ttl = 2
    MaxHops = 5
PROPERTY MovesArePermanent
CHECK_DEADLOCK FALSE
