\* Two handles on one file, both of which write; a buffer of two bytes, reads and
\* strings shorter than it, as long, and longer.  Two profile files, two writes to
\* them, one of which the host may fail.
CONSTANTS
  N = 2
  Writers = {1, 2}
  FILE_BUF = 2
  MAX_LEN = 3
  Data <- MCData
  Wants = {1, 3}
  Offs <- MCOffs
  SeekBack = TRUE
  HostFails = TRUE
  None = None
  Sections = {"S", "T"}
  Keys = {"K", "GS"}
  Special = "GS"
  Layout <- MCLayout
  Values = {1, 3}
  LINE = 2
  VALUE = 3
  PRESET = 2
  LARGE = 2
  Names <- MCNames
  PathRoom = 6
  ExeDir = 1
  FirstFiles <- MCFirst
  MostWrites = 2
  MostFaults = 1
SPECIFICATION MCSpec
INVARIANTS
  ProfilesRight
PROPERTIES
  ExactSpec
  BuffersAgree
CHECK_DEADLOCK FALSE
