SPECIFICATION Spec
CONSTANTS
    r1 = r1
    r2 = r2
    None = None
    Requests = {r1, r2}
    MaxSockets = 3
    MaxAttempts = 2
    Reconnect = TRUE
    Patient = TRUE
PROPERTY ReconnectionAnnounced
CHECK_DEADLOCK FALSE
