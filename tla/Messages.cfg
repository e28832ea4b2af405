\* One multiline edit and one window of a guest class, calls four deep, two of
\* them remembered, one selection asked for; words of sixteen values; a notch
\* of three; three places for six paints; two places in each table for
\* three windows made two at a time.
CONSTANTS
    MAX_INFLIGHT = 2
    Edits = {"e"}
    Owns = {"o"}
    MaxDepth = 3
    MaxAsked = 1
    W = 16
    MaxHandle = 3
    WHEEL_DELTA = 3
    Deltas <- MCDeltas
    PerNotch <- MCPerNotch
    MaxTurn = 10
    MAX_PAINTS = 3
    PaintWindows = {"a", "b"}
    MaxBegun = 6
    MAX_WINDOWS = 2
    MAX_DIALOGS = 2
    Procs = {"p", "q"}
    Stock = {"edit"}
    MaxSaved = 2
    MaxNest = 2
    LastHwnd = 3
SPECIFICATION MCSpec
INVARIANTS
    SelectionsKept
    ValuesKept
    NotchesKept
PROPERTIES
    MessagesHonest
    ProcsRight
    EndsWhatItBegan
CHECK_DEADLOCK FALSE
