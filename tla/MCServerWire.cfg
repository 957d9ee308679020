SPECIFICATION Spec
CONSTANTS
    c1 = c1
    c2 = c2
    c3 = c3
    room = room
    None = None
    Conns = {c1, c2}
    Channels = {room}
    Configured = {}
    MaxMembers <- MCMaxMembers
    HistorySize <- MCHistorySize
    Encodings = {"binary", "text"}
    Kinds = {"subscribe", "publish", "disconnect", "ping frame", "undecodable frame"}
    MaxFrames = 3
    MaxPings = 0
    Interruptible = TRUE
SYMMETRY Symmetry
INVARIANTS NothingAfterClose BinaryAnsweredInBinary
CHECK_DEADLOCK FALSE
