SPECIFICATION TimedSpec
CONSTANTS
    r1 = r1
    r2 = r2
    Request = {r1, r2}
    Nobody = nobody
    Deadline = 2
    Slack = 2
    Delay = 1
    Lifetime = {0, 2}
    MaxVersion = 2
INVARIANTS
    TypeOK
    WorkingAlone
    AnswersNotOlder
    NoRedundantFetch
PROPERTY
    LockIsFreed
