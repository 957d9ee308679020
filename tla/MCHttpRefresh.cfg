SPECIFICATION Spec
CONSTANTS
    t1 = t1
    t2 = t2
    k1 = k1
    k2 = k2
    k3 = k3
    None = None
    Tasks = {t1, t2}
    Keys = {k1, k2}
    Pipelines = {{"auth"}}
    Statuses = {"ok", "unauthorized"}
    MaxRetries = 1
    RetryMax = 1
    Threshold = 2
    HalfOpenMax = 1
    MaxRefreshes = 1
    MaxEntries = 1
    MaxFailures = 3
PROPERTY RefreshedOn401
