\* The constants of Messages.cfg; what a guest wrote into a structure comes back.
CONSTANTS
    MAX_INFLIGHT = 2
    Edits = {"e"}
    Owns = {"o"}
    MaxDepth = 4
    MaxAsked = 1
    W = 16
    MaxHandle = 3
    WHEEL_DELTA = 3
    Deltas <- MCDeltas
    PerNotch <- MCPerNotch
    MaxTurn = 10
    MAX_PAINTS = 3
    PaintWindows = {"a", "b"}
    MaxBegun = 6
    MAX_WINDOWS = 2
    MAX_DIALOGS = 2
    Procs = {"p", "q"}
    Stock = {"edit"}
    MaxSaved = 2
    MaxNest = 2
    LastHwnd = 3
SPECIFICATION MCSpec
PROPERTIES
    LastWriteCounts
CHECK_DEADLOCK FALSE
