\* The plays of Program.cfg: what is reported at the top is what stopped first.
CONSTANTS
    MaxDepth = 2
    Slice = 2
    Budget = 3
    CallsPerHandler = 2
    MaxArrivals = 3
    MAX_WINDOWS = 2
    MAX_DIALOGS = 2
    Procs = {"p", "q"}
    Stock = {"edit"}
    MaxSaved = 1
    MaxNest = 2
    LastHwnd = 2
SPECIFICATION MCSpec
PROPERTIES
    SameReasonAtTheTop
CHECK_DEADLOCK FALSE
