SPECIFICATION FairSpec
CONSTANTS
    t1 = t1
    t2 = t2
    k1 = k1
    k2 = k2
    k3 = k3
    None = None
    Tasks = {t1, t2}
    Keys = {k1, k2}
    Pipelines = {{"breaker", "auth", "status"}, {"breaker", "rate_limit", "retry"}, {"auth", "cache"}}
    Statuses = {"ok", "unchanged", "unauthorized", "limited", "failing"}
    MaxRetries = 1
    RetryMax = 1
    Threshold = 2
    HalfOpenMax = 1
    MaxRefreshes = 1
    MaxEntries = 1
    MaxFailures = 3
INVARIANTS TypeOK BreakerCounts CacheOverflowsOnlyTogether
PROPERTIES GivesUpOnRefusedTokens EveryCallEnds
