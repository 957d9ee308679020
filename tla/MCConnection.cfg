SPECIFICATION FairSpec
CONSTANTS
    r1 = r1
    r2 = r2
    None = None
    Requests = {r1, r2}
    MaxSockets = 4
    MaxAttempts = 2
    Reconnect = TRUE
    Patient = TRUE
INVARIANTS TypeOK NeverGivesUp NoOrphanedRequest LostOnlyWithItsSocket StateTellsTheTruth KeepAliveCovers OneSocketAtATime
PROPERTIES CloseIsFinal
CHECK_DEADLOCK FALSE
