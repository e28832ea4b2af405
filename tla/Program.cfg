\* Callbacks two deep, slices of two steps, a budget of three instructions and
\* handlers that call back at most twice; three messages arriving in the queue; two
\* places in each table for two windows, one subclassed.
CONSTANTS
    MaxDepth = 2
    Slice = 2
    Budget = 3
    CallsPerHandler = 2
    MaxArrivals = 3
    MAX_WINDOWS = 2
    MAX_DIALOGS = 2
    Procs = {"p", "q"}
    Stock = {"edit"}
    MaxSaved = 1
    MaxNest = 2
    LastHwnd = 2
SPECIFICATION MCSpec
PROPERTIES
    StopsHold
    PlayComesBack
    LoopHonest
    NoDialogOutlivesAStop
CHECK_DEADLOCK FALSE
