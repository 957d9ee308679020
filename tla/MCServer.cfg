SPECIFICATION Spec
CONSTANTS
    c1 = c1
    c2 = c2
    c3 = c3
    room = room
    None = None
    Conns = {c1, c2}
    Channels = {room}
    Configured = {room}
    MaxMembers <- MCMaxMembers
    HistorySize <- MCHistorySize
    Encodings = {"text"}
    Kinds = {"subscribe", "publish", "unsubscribe"}
    MaxFrames = 4
    MaxPings = 0
    Interruptible = FALSE
SYMMETRY Symmetry
INVARIANTS TypeOK NoGhostSubscribers MembersWithinLimit HistoryIsLatest AckBeforeMessages
PROPERTY ImplementsPubSub
CHECK_DEADLOCK FALSE
