SPECIFICATION Spec
CONSTANTS
    c1 = c1
    c2 = c2
    c3 = c3
    room = room
    None = None
    Conns = {c1, c2, c3}
    Channels = {room}
    Configured = {}
    MaxMembers <- MCMaxMembers
    HistorySize <- MCHistorySize
    Encodings = {"text"}
    Kinds = {"subscribe", "publish"}
    MaxFrames = 3
    MaxPings = 0
    Interruptible = FALSE
SYMMETRY Symmetry
PROPERTY ImplementsPubSub
CHECK_DEADLOCK FALSE
