\* Three usable slots of two bytes, blocks of one or two of them; a local heap of
\* seven words; three handles for the windows and brushes of two values, two
\* hash chains.
CONSTANTS
    SEL_LIMIT = 4
    SLOT = 2
    SIZE_MOD = 8
    COUNT_MOD = 4
    HostMayRefuse = TRUE
    Byte = {0, 1}
    Sizes = {1, 3}
    LOCK_MAX = 1
    Moveable = {FALSE}
    BASE = 1
    END = 8
    SEG = 8
    Requests = {0, 2, 4}
    Stores = {1}
    Dirt = 0
    Hdr = hdr
    MAX_HANDLES = 4
    FIRST_HANDLE = 1
    SWEEP_FIRST = 3
    SWEEP_EVERY = 2
    HASH_SIZE = 2
    Host = {1, 2}
    Other = {"BRUSH"}
SPECIFICATION MCSpec
INVARIANTS
    TableSound
PROPERTIES
    
    
    HandlesHonest
