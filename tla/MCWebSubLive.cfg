SPECIFICATION PromptHubSpec
CONSTANTS
    Fetch = {f1}
    Token = {t1, t2}
    NoToken = NoToken
    Day = 1
    MaxLate = 0
    Faults = TRUE
    Leases = {1}
PROPERTIES
    StrandedIsNoticed
    PendingHeals
