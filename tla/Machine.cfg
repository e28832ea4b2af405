SPECIFICATION MCSpec
CONSTANTS
    BITS = 5
    SEG = 4
    Bytes <- MCBytes
    OpPrefixes <- MCPrefixes
    MostStrings = 1
    WORDS = 20
    Places <- MCPlaces
    Locals = {1}
    Nestings = {0, 2}
    MostArgs = 1
    MostFrames = 2
    MostPushed = 2
    MostSteps = 6
    W = 3
    EMAX = 3
    PS = {2, 3}
    Mem <- MCMem
    NREG = 3
    VAL = 2
    MostFpu = 3
    LONG = 64
    SHORT = 8
    Gen1 <- MCGen1
    Gen2 <- MCGen2
    RollFor <- MCRolls
    Fields = {0, 1, 2}
    Levels <- MCLevels
    PERCENT = 10
    CAP = 2
    Axes <- MCAxes
    NoSite = NoSite
    NatSels = {1, 2}
    NatSlots = 3
    NatSlotFns <- MCSlotFns
    Scenes <- MCScenes
    HalfWord = 4
    FarBest = 5
    Everys = {0, 1, 2}
    Routines = {"right", "sloppy", "greedy", "eager"}
    Budget = 16
    MostScans = 1
    MostPatched = 2
INVARIANTS
    ArithmeticRight
    StringsRight
    
    FloatsRight
    RoutinesExact
    NativeUnseen
PROPERTIES
    StackSeen
CHECK_DEADLOCK FALSE
