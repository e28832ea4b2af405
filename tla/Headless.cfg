\* Three slots, handlers two deep, four calls from an empty screen or from one
\* with a window and a control; a queue of three; a list of three; a table of
\* seven objects, five of which the first device context takes.  Two channels of two
\* buffers, two waves in two formats, four plays; and sounds of up to twenty units
\* with chunks of every length and kind.
CONSTANTS
    MAX_WINS = 3
    Names = {"focus", "capture"}
    MaxDepth = 2
    MaxCalls = 3
    Messages = {m1, m2}
    NoMessage = NoMessage
    QLEN = 3
    MAX_ITEMS = 3
    Data = {0, 1, 2}
    MAX_OBJS = 7
    Submenus = 1
    ObjectCalls = 5
    NCHAN = 2
    NHDR = 2
    NWAVE = 2
    Resources = {"r1", "r2"}
    Format <- TwoFormats
    Pointers = {"p1", "p2"}
    MaxPlays = 4
    FmtLen = 4
    MaxLen = 20
    MaxClaim = 24
    Wrap = 24
SPECIFICATION MCSpec
INVARIANTS
    DataFollowsItems
    HandlesStayHonest
PROPERTIES
    WindowsSound
    QueueInOrder
    SoundsSound
    WalkSound
CHECK_DEADLOCK FALSE
