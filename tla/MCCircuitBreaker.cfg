SPECIFICATION BreakerFairSpec
CONSTANTS
    c1 = c1
    c2 = c2
    c3 = c3
    Calls = {c1, c2, c3}
    FailureThreshold = 3
    SuccessThreshold = 2
    Timeout = 2
    ResetTimeout = 1
    MaxRetries = 1
    MaxChanges = 4
PROPERTIES
    OpenUntilTimeout
    Recovers
