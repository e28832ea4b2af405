SPECIFICATION MCSpec
CONSTANTS
    MAX_ENTRIES = 2
    MAX_OPEN = 2
    MinCap = 1
    Align = 1
    ArenaStart = 2
    ArenaEnd = 4
    NFiles = 1
    Paths <- MCPaths
    DirPaths <- MCDirPaths
    Strings <- MCStrings
    Wants = {2}
    Offs <- MCOffs
    MaxPos = 1
    Accesses = {"READ", "RDWR"}
    Inputs <- MCInputs
    CallerMem <- MCCallerMem
    BYTE = 4
    BITS = 2
    PBITS = 3
    PMOVE = 1
    MINLEN = 2
    LENBITS = 1
    SLOTBITS = 2
    Hashed = 3
    HSIZE = 2
    Cost <- CostOf
    Emulators <- MCEmulators
    Modules <- MCModules
    DEPTH = {2}
    ROUNDS = 1
    MAXDELTA = 2
    RIFF = 3
    MINRIFF = 3
    SLACK = 1
    MZ = 2
    NE = 1
    BV = 8
    Programs <- MCPrograms
    Selectors = {20, 22, 24}
    Imports <- MCImports
    MOVEABLE = 255
    ABSOLUTE = 254
    PushDs = 1
    PopAx = 2
    MovAxDs = 3
    Ds = 4
    NOP = 5
    MovAxImm = 6
    MostReloads = 2
    MAX_RES = 3
    Table <- MCTable
    Asked <- MCAsked
    Blocks = {1, 2, 3}
    MostLoads = 2
    DEEPEST = 2
    Menus <- MCMenus
    Dialogs <- MCDialogs
    Ratio <- MCRatio
    Handles = {"h1", "h2"}
    Contexts = {"c1", "c2"}
    MostDrawn = 4
    MostDocs = 2
INVARIANTS
    ComesBackOut
    
    ResourcesHeld
    TemplatesRight
    PagesAsDrawn
PROPERTIES
    DosFilesKept
VIEW MCView
CHECK_DEADLOCK FALSE
