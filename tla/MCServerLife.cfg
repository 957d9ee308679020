SPECIFICATION FairSpec
CONSTANTS
    c1 = c1
    c2 = c2
    c3 = c3
    room = room
    None = None
    Conns = {c1, c2}
    Channels = {room}
    Configured = {}
    MaxMembers <- MCMaxMembers
    HistorySize <- MCHistorySize
    Encodings = {"text"}
    Kinds = {"subscribe", "publish", "request", "connect", "disconnect", "other"}
    MaxFrames = 2
    MaxPings = 1
    Interruptible = FALSE
PROPERTIES EveryMessageAnswered EventuallyForgotten
CHECK_DEADLOCK FALSE
